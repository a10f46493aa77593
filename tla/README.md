# A TLA+ model of the Global Caché iTach integration

The repository is a Home Assistant integration (`src/custom_components/globalcache_itach`)
that drives Global Caché gateways: infrared, relays and serial ports behind one
TCP control connection. These modules model its asynchronous core, the life of its
config entries and their options, and its infrared codecs; TLC checks them on small
instances, and TLAPS proves the main invariants of each module for every value of the
constants.

Contents: [the system](#the-system), [the modules](#the-modules),
[the runs](#the-runs), [fairness](#fairness), [what is proved](#what-is-proved),
[disagreements](#disagreements-between-the-code-and-its-documentation),
[observations](#observations), [abstractions](#abstractions), [not modelled](#not-modelled), [plan](#plan).

## The system

Everything runs on one asyncio event loop, so the only interleavings are those
at an `await`. The parts, with the state each keeps:

| part | state | operations | correct when |
|---|---|---|---|
| Control client (`client.py`) | the connection (`_reader`, `_writer`), the read task, `_closed`, the line queue, the write lock | `connect`, `disconnect`, the read loop, `send_raw`, `send_sendir` (resend on `busyIR`, reset on failure), relay and serial commands, `send_serial_payload` | exchanges are serialized, every reply goes to its own command, a failed IR send leaves nothing behind, every command ends |
| Serial port session (`serial_session.py`) | its connection, the read loop, `_expecting_response`, `_rx_queue`, `_write_lock` | `start`, `stop`, the read loop with reconnect, `send` with or without a response | data is reported once and in order, a response is never older than its send, stop frees the port, a lost connection is tried again |
| Coordinator (`coordinator.py`) | the client, the serial sessions and their keys, the last poll, the next command id, IR receivers | poll, shutdown, synchronising the sessions with the options, IR and serial sends, the learner | shutdown leaves nothing open, sessions match the options, ids in use differ |
| Relay control (`switch.py`, services) | the switch state, the last poll | on, off, pulse, poll | the state shown is the state set last |
| IR learner and receiver (`coordinator.py`) | the callbacks of the client, receivers per connector | learn, register, dispatch | the learner is switched off and its callback removed on every path |
| Entry lifecycle and services (`__init__.py`) | `hass.data`, the registered services | setup, update listener, unload | what was set up is shut down again, and changed settings come into use |
| Discovery (`discovery.py`) | the socket, scan collectors, the time of the last beacon per device | listen, scan, dispatch a beacon | one entry per device, its address follows the device |
| Config and options flow (`config_flow.py`) | the entry's data and options, the step of each flow | add, reconfigure, edit remotes, relays and serial ports | no duplicate connector or id, an edit does not reach other items |
| Registry cleanup (`entity_registry_util.py`, `device_util.py`) | the entity and device registries | cleanup at setup, reload and unload | entities of removed items go, all others stay |
| Codecs (`infrared_util.py`, `pronto.py`, `command_util.py`) | none | conversions between timings, Pronto and `sendir` | round trips, limits |
| Entities (`button.py`, `sensor.py`, ...) | none of their own | one coordinator call per press | - |

How they interact: services, entities and the coordinator's poll are tasks that
call the one `ItachClient` of an entry, and share its lock and its line queue. A
serial session has a connection of its own and calls the control client for the
line settings each time it connects. The coordinator owns the client and the
sessions; the entry lifecycle owns the coordinator; a beacon or an edit of the
options reloads the entry. The read loop of the client calls back the learner and
the receivers.

What is hard: commands that queue for the lock while the session they checked for
dies; two commands that open a session at once; replies that come after their
command timed out, on a queue that knows no request ids except for `completeir`;
resets run by one command under the feet of the next; read tasks that are
cancelled, joined, or found dead; a serial session where the read loop and the
sends both connect, close and decide who receives a text.

## The modules

### ItachClient

The client, with one action for the code between two awaits.

| state | in the code |
|---|---|
| `writer`, `reader`, `readTask`, `closed`, `lines` | `_writer`, `_reader`, `_read_task`, `_closed`, `_line_queue` |
| `owner`, `waiters` | `_write_lock` and the waiters it wakes in order |
| `loop`, `source` | each `_read_loop` task, and the reader it awaits |
| `pc`, `op`, `n`, `tries`, `join` | each caller: the await it is at, its command, attempts and frames, the read task it joins |
| `link`, `pending`, `inbuf`, `fires` | the environment: connections, what the gateway has to process, what arrived, what it carried out |
| `outcome`, `reply`, `troubled` | how commands ended (`troubled` is history only) |

A command is one of six operations: `sendir` (`send_sendir`, `send_full_sendir`),
`query` (a command that waits for a line of a certain form: relays, serial
settings, version), `line` (`send_raw` without `end_on`: the first line), `collect`
(`send_raw_then_collect`, the window of `getdevices`), `payload`
(`send_serial_payload`) and `disconnect`. `Submit` creates the coroutine.
`UseConnection`, `Reconnect`, `Rejoined`, `Opened`, `OpenFailed` are `connect()` and
the way to the lock; `Granted` the code after the lock; `TakeReply`, `TakeRefusal`,
`TakeBusy`, `TakeOther` the wait on the queue; `Resend`, `GiveUp`, `Timeout`,
`DrainFails` its other ends; `Disconnect`, `Stopped`, `Closed` are `disconnect()`,
called or in the `finally` of a `sendir`; `LoopStarts`, `LoopReads`, `LoopEof`,
`LoopCancelled` the read loop. `GatewayAnswers`, `GatewayEvent`, `GatewayCloses` are the
environment.

### SerialExchange

What the client promises its callers, whatever happens to the connection: one line
of callers, served in the order they got past `connect()`, each leaving with one
result, and a `sendir` that ends "ok" was carried out. `ItachClient!Channel`
instantiates it with the lock's holder and waiters as the line.

### SerialPortSession

The listener on a serial data port. `reader`, `writer`, `connected`, `closed`,
`expecting`, `rx`, `last` are the fields `_reader`, `_writer`, `_connected`, `_closed`,
`_expecting_response`, `_rx_queue`, `last_received`; `owner` and `waiters` are
`_write_lock`; `loop`, `source` and `cancelled` are the read loop's task; `control` is the
coordinator's `start()` and then `stop()`. `reported` is the sequence of `on_data` calls.
Sends are `Send`, `SendConnects`, `Granted`, `TakeReply`, `Timeout`; the loop is
`LoopStarts`, `LoopConnects`, `LoopWakes`, `LoopReads`, `LoopEof`, `LoopEnded`,
`LoopCancelled`, `CancelSwallowed`, `LoopLeaves`.

`CancelSwallowed` is a step of `client.py`: `connect()` joins its own read task inside
`except CancelledError: pass`, so a cancellation of the session's read loop that lands
there is lost, and the loop goes on to connect and read with nobody to stop it.

### EntryLifecycle

One config entry through setup, reload and unload (`__init__.py`), the coordinator that each
setup makes (`coordinator.py`, numbered by `gen`), its polls, its serial sessions, and one
relay with its switch (`switch.py`).

| state | in the code |
|---|---|
| `phase`, `again`, `waiting` | the await at which Home Assistant's setup, unload or reload of the entry stands, and the reloads that wait for the entry's lock |
| `config`, `used`, `missed` | the entry's options and address as versions, those the coordinator copied, and whether options were saved before there was a listener |
| `data`, `open`, `sessions` | `hass.data[DOMAIN][entry_id]`, which clients have a connection, `_serial_sessions` |
| `poll`, `refresh`, `last` | a coordinator's polls (one of the timer, one that was asked for) with what they read of the relay, a requested refresh, `coordinator.data` |
| `relay`, `shown` | the contact, and `_attr_is_on` of the switch |
| `call` | the commands of services and of the switch, and pulses with their sleep |
| `strays`, `orphans` | history: coordinators that were shut down while a task still held them; coordinators of setups that failed |

Setup is `BeginSetup`, the first poll, `Refreshed`, one `SessionStarts` for each port,
`SessionsStarted`, `PlatformsLoaded`; unload is `BeginUnload`, `PlatformsUnloaded`, `StopSession`,
`StopRaises`, `Disconnect`, `DisconnectRaises`. `SaveOptions` and `MoveAddress` change the entry
while any of this goes on. `PollStarts`, `PollReads`, `PollMisses`, `PollRaises`, `PollPublishes`,
`SerialText` (which tells every entity to read `coordinator.data` again) and `Call`,
`SetAnswered`, `SetFails`, `PulseReleases` are the tasks that run on a coordinator, also after it
was replaced. Which exchange runs when on the connection is `ItachClient`'s; here a command only
may find the session closed and open it, or fail.

A setup may fail. The code catches what a single user of the client can meet (`TimeoutError`,
`OSError`, `ItachError`); the `AttributeError` and `RuntimeError` of two tasks on one client, which
the runs `client_eof` and `client_readtask` find, pass. `SessionRaises` is that for the line
settings of a port, sent while a session that was started before reconnects; `ModulesRaise` for
`getdevices` of an entry without a module list; `PollRaises` for a poll, which then leaves
`coordinator.data` as it was. No second task has the client at the first refresh.
`DisconnectRaises` is `disconnect()` that awaits a dead read task.

What Home Assistant does around the code is an assumption of the model: the requests for a refresh
go through the coordinator's debouncer, which may drop a request while a refresh runs
(`SetAnswered`), runs it at once or after its cooldown otherwise, and counts a poll of the timer
that starts as well (`PollStarts`). Versions of Home Assistant differ in what holds the debouncer's
lock, so the model lets one poll of the timer and one that was asked for run at a time (`Ways`),
and a request during either be dropped or kept. A poll that read the relay before a command may
thus publish after it with no refresh to follow.

### Onboarding

How a gateway becomes an entry: the multicast listener with its debounce and its scans
(`discovery.py`) and the config flow (`config_flow.py`) that a beacon, DHCP or a user starts.
`entries` maps unique ids (a gateway's MAC, or host and port for an entry typed by hand) to
hosts; `flow` has the step of each flow; `wire`, `recent` and `found` are beacons under way,
`_recent_beacons` and the collectors of scans. `addr` is where the gateways are; `Move` deals
the addresses out anew. `Receive` is `_dispatch_beacon` with the task it starts, `Prepare`
`_async_prepare_discovery`, `TypedProbed` and `Moved` what follows a probe of a typed address.

### OptionsFlow

Options flows of several users over one entry, with learning, and what a save makes of the
entity and device registries (`config_flow.py`, `entity_registry_util.py`, `device_util.py`, the
learner of `coordinator.py`). `items` and `settings` are the entry's options, `flow` each flow's
form and draft, `registry` and `devices` the registries, `learner` the state of the gateway's
learner, `phase` and `waiting` the reload. `SaveDraft` stands for the last form of the three
wizards: the forms before only fill in the draft. `Cleaned` is `async_cleanup_stale_entities`,
`Managed` `is_options_managed_unique_id`, `Active` `all_active_configured_unique_ids`. Learning is
`SubmitLearn`, `Capture`, `Enabled`, `Code`, `ListenEnds`, `Stopped`.

### Infrared

The codecs (`infrared_util.py`, `pronto.py`) as operators, inside the steps that use them: a
receiver is registered, a code comes in and is told to receivers (`Receive`, `Notified`), is sent
on by an automation (`SendOn`), or another one is sent from timings, a Pronto code or typed
counts, with a command id, or a stored sendir line as it is (`SendStored`). The code computes with floats; `Nearest` is the set of the
integers `round()` may return, so whatever the floats do at a tie, the real result is a
behaviour of the model.

### MC modules and proofs

The `MC` modules are the instances TLC runs. `MCOptions` has both `OptionsFlow` and
`Infrared`: they share no state, so each is explored while the other stands in an initial
state. The theorems about a module `M` are in `MProofs`; `SerialExchangeProofs` has the proof
that `ItachClient` implements it, and `InStepProofs` the two longer proofs about `ItachClient`,
which follow requests and replies between a caller and the gateway.
Definitions marked `mutant` are plausible bugs of the code: each breaks a property of a run
when it takes the place of the definition next to it.

## The runs

| run | instance | shows |
|---|---|---|
| `client_single` | 1 caller, all operations and lines, ids shared, 3 connections, 3 commands, 2 attempts, 2 frames | `TypeOK`; never two connections or read loops (`SoleConnection`); nothing is left after a disconnect or a failed IR send (`ResetLeavesNothing`) |
| `client_ids` | 1 caller, IR only, ids shared | a code that is reported sent was sent (`SendirCarriedOut`), and only once (`SendirFiresOnce`) |
| `client_pair` | 2 callers, sendir, query, payload, disconnect, 2 connections, fair | `LockDiscipline`, `SendirCarriedOut`, `InStepUntilTrouble` (until a command fails every reply goes to its own command), `SessionIsRead`, `EveryCommandEnds`, and the client implements `SerialExchange` (`ImplementsSerialExchange`) |
| `client_eof`, `client_readtask`, `client_late` | 1 or 2 callers, queries | three disagreements, below |
| `serial_session` | the loop, 2 senders, start and stop, 3 connections, 2 pieces of data, fair | `TypeOK`; data reported once and in order (`ReportedInOrder`); a response is newer than its send (`ReplyIsNew`); text is only held back for a send that waits (`HoldsBackOnlyForASendUntilTrouble`); `StopFreesThePort`; `EverySendEnds`, `StopEnds`, `Recovers` |
| `serial_silent` | the same | a disagreement, below |
| `entry_lifecycle` | 2 serial ports, 1 call, 3 coordinators, 1 change of the entry; or 1 coordinator with a relay; fair (208 834 states) | `TypeOK`; a coordinator that was shut down keeps no session, and no connection unless a task still had it (`ShutdownFreesGateway`); changed settings come into use (`SettingsTakeEffect`); when commands cease and the gateway answers, the switch comes to show the contact and stays so (`ShownCatchesUp`); a setup ends whatever the gateway does (`SetupEnds`) |
| `onboarding` | 1 gateway, 2 addresses, 2 users, 1 move, fair (158 112 states) | `TypeOK`; one flow at a time adds a gateway (`OneFlowPerGateway`); scans are not debounced (`ScanHearsAll`); an entry follows its gateway (`FollowsTheGateway`); a gateway without an entry is offered again and again (`GatewayOffered`) |
| `options` | 2 flows, 2 items, 3 command names, 2 saves; 3 connectors, frames of up to 4 counts, 3 ids (1 907 593 states) | `TypeOK`; an item is changed only by a flow about it (`SavesOnlyItsOwn`), and a removed one does not come back (`RemovedStaysRemoved`); entities and devices follow the options (`RegistryMatchesButLookalikes`) and keep their entries (`KeepsConfiguredButLookalikes`), but for names that look like another entity's; `LearnerOff`; and for the codecs `SentOnAsHeard`, `FramesAreWhole`, `IdsDiffer`, `HeardWhereItComesIn` |
| `options_leftover` | 1 flow | what one kind of those names leaves behind: a disagreement, below |

Why the bounds are enough. Three commands let a reply of the first, late or left on
the queue, meet the third after a command between them reset the session; three
connections let both a reset and an EOF be followed by a new session. Two callers
are enough for everything that happens at the lock except the order of several waiters,
which the theorem `ClientIsSerial` has for any callers. Two attempts to connect and two frames
make "again" and "no more" both happen. Unsolicited lines are bounded by
`MaxEvents`: one line in the way is what a wait can tell from none. In the serial
session two pieces of data are a response and the one after it, and with three
connections the loop and a send can each replace the other's. `CHECK_DEADLOCK FALSE`
is stated where the callers have spent their commands and the program may rest.

In `entry_lifecycle` the second coordinator is what a task of the first one can outlive, the third
is made because a moved address asks for two reloads, or after a setup that failed, and two serial
ports are the first case where one session is stopped or started while another still runs.
`MCEntryLifecycle` splits the instance: an entry with a relay is set up once and not changed, since
each setup makes a new switch; one without is, and there a poll is only a task that uses the
client, which is all that the invariants ask of it. In
`onboarding` two addresses let a gateway be somewhere else than its entry says and come under an
entry typed by hand; two users and two discovery flows can meet over one gateway. A second
gateway gives 1.4 million states, too many for the liveness properties; with it gateways could
exchange addresses, which the model allows and the run does not reach. In `options` two saves
let a flow save over what another one saved since it was opened; one of the command names ends
like an entity of the gateway and one in `rx`. `options_leftover` needs one flow, and a
serial command with the first of these names. In its infrared half, counts lie below, at and
above the limits of a carrier (one below 15 kHz, one none), `MaxValues = 4` lets lists be odd,
full and too long, a word of Pronto beyond 16 bits shows that none bounds it, and three ids wrap
round. TLC's integers have 32 bits, so the large
counts are the proofs' (below).

`SoleConnection` and `ResetLeavesNothing` are only claimed for one caller: two callers that find
no session both open one, which is what `client_readtask` builds on. `SendirCarriedOut` needs
`FreshIds` as soon as there are two callers: with one fixed command id, a second
caller that is granted the lock while the first still resets the session can take
the first one's `completeir` for its own.

## Fairness

`FairSpec` assumes weak fairness of every coroutine's next step, of every timer
(`Timeout`) and of the read loops: the asyncio event loop runs what is ready, and
`wait_for` and `sleep` always fire. In `EntryLifecycle` the
steps of a setup, of an unload and of a poll are fair, and so is a reload that waits for
the entry's lock: each exchange they wait for ends by the client's own deadlines. A poll that is
due starts: the coordinator sets its timer again after each refresh, also one that raised.
That the gateway answers is not assumed there; `ShownCatchesUp` has it as a premise, and that
commands cease. In
`Onboarding` every probe ends, a gateway goes on announcing itself (it does so every
minute or less), not all its beacons are lost, and the debounce time passes; users may do
nothing. Otherwise nothing is assumed of the gateway, the device or
the network (they may never answer nor close), nor of who submits commands or when
a session is stopped. Under it `EveryCommandEnds` and `EverySendEnds` rest on the code's
own bounds: the deadline of each wait, `connect_retries`, `max_resends`, and a lock
that is handed over on every path out.

## What is proved

`ItachClientProofs`, for any sets of callers, operations and lines and any bounds
that satisfy the named assumptions of `ItachClient`:

- `LockIsDisciplined`: `Spec => []LockDiscipline`. `LockDiscipline` is not inductive: a
  waiter that stood in line twice would be left behind when it is granted the lock.
  `LockInv` adds the types and that the waiters are distinct. Five lemmas say what
  moving, acquiring, enqueueing, releasing and ending do to it; every action is one of
  these.
- `TypeCorrect`: `Spec => []TypeOK`. The types need each other: a frame is only written on
  a connection (`SessionInv`: a loop that reads has a source), a request is well formed
  because a caller that is not idle has a command (`CommandInv`, which needs `LockInv`
  because releasing the lock moves another caller), and lines are well formed because
  requests are (`WireInv`).
- `SendirIsCarriedOut`: with `FreshIds`, `Spec => []SendirCarriedOut`. The strengthening
  (`TruthInv`) is `LinesTrue`: a `completeir` in flight or on the queue names a command the
  gateway has carried out. It is true when the gateway sends it, stays true (`DoneStays`),
  and the only way a `sendir` ends "ok" is to take one that bears its own id.
- `SessionIsAlwaysRead`: `Spec => []SessionIsRead`, for any callers. That the loop of the current
  connection is alive is not inductive, and not even true: when two callers open sessions, an
  older loop may read the newer connection and the newer loop fail on it. `ReadInv` says that
  reader and writer change together, that an open session outside a disconnect means that
  `_closed` is clear and some loop is new or reads it (`ReadWhileOpen`), that a failed read task
  means no writer, that a loop which was cancelled ends without an exception (`CancelledEnds`,
  so that what awaits it goes on to close the writer), and that a connection which was not
  opened has no loop. `SessionMoves` sorts all steps into the few that touch the session and the
  ones that leave it alone.
- `ConnectionIsSole`: for one caller, `Spec => []SoleConnection`. `SoleInv`: only the writer's
  connection is open, only the loop of `_read_task` lives and it reads that connection, and a
  caller that opens one, or has stopped the old one, has neither. It rests on `ReadInv`.
- `ResetsLeaveNothing`: for one caller, `Spec => []ResetLeavesNothing`. `LeftInv` says which
  operation may be at which await, and that after a reset there is no read task, no writer and
  no line; that there is then no connection and no loop either is `SoleInv`.

`SerialExchangeProofs`, under the same assumptions:

- `ClientIsSerial`: with `FreshIds`, `Spec => ImplementsSerialExchange`, the refinement that
  `client_pair` checks. `MapInv` adds two facts to `TruthInv`: where a caller may be with
  which operation (`PlacesOK`), and that a request on the wire is of a command that was
  written (`OnlySent`), so that what the gateway carries out is an earlier command or the one
  of the first in line. One lemma for each action of the channel (`AdmitIsAdmit`,
  `LeaveIsLeave`, ...) says what a step of the client must do to be that action; the lemmas
  `PreparingMaps`, `ServedMaps` and `StoppingMaps` sort the client's steps under them. The
  holder of the lock and its waiters are one line (`LineSeen`), so that handing over the lock
  takes the head off it.

`InStepProofs`, under the same assumptions:

- `RepliesAreOwn`: without the operations `line` and `collect` (the one takes any line for its
  reply, the other leaves when its window ends and lets replies pass), `Spec =>
  []InStepUntilTrouble`. `InStepInv`: while no command has failed there is one conversation at
  most (`Conversation`): one request on the wire (`Asked`), or its reply in a connection's data
  (`Heard`) or on the queue (`Told`), and its caller waits, so that it holds the lock and nobody
  else writes. Every other line is for nobody. The theorem does not need `FreshIds`.
- `SendirIsNotRepeated` and `LoneSendirIsCarriedOut`: for one caller that sends codes, serial
  payloads and disconnects (`OneSender`), `Spec => []SendirFiresOnce` and `Spec =>
  []SendirCarriedOut`, whatever fails, and though all codes share one id. What `SendirFiresOnce`
  needs is that a `busyIR` the caller takes is the refusal of the frame it wrote last. `SenderInv`
  is the invariants of the session above and `OnceInv`: between commands nothing is under way on
  the connection in use nor on the queue (`Clear`); while it waits there is one request
  (`Requested`), or its reply (`Replied`, `Delivered`), and a reply tells the truth about the
  command (`HeardLine`: "complete" when it was carried out, anything else when it was not and no
  request for it is left). Requests may linger on connections that were closed; `AtMostOnce`
  counts them: a command was carried out once, or waits on one connection, or neither. A time-out
  breaks the dialogue and the reset mends it: that it ends with `Clear` is `ResetLeavesNothing`
  again. Neither theorem holds with two callers, nor with queries (Observations).

`SerialPortSessionProofs`, for any senders and any bounds:

- `SessionIsTyped`: `Spec => []TypeOK`. `TypeInv` adds that a connected session has a reader
  and that a loop that reads has a source (`SessionInv`), and the lock's discipline
  (`LockInv`): the head of the waiters is a sender only because waiters are queued senders.
- `ResponsesAreNew`: `Spec => []ReplyIsNew`. A response is the head of `_rx_queue`, which was
  emptied when the send wrote, so it is enough that whatever is read next was sent after
  whatever was read last. That holds because connections are read in the order in which
  they were opened (`ConnOrder`: the open one is the last one, the loop never goes back) and
  the data on a later connection is newer than the data on an earlier one (`DataOrder`).
  `RepliesNew` carries it from the queue to the reply; it also needs that a sender which is
  not idle has no reply yet.

- `ReportsAreOrdered`: `Spec => []ReportedInOrder`. `OrderInv` adds to the above that what is
  held back for a waiting sender came after what was reported and not after what was read last
  (`HeldInOrder`), and that nobody waits unless the flag is set.
- `StoppedPortIsFree`: `Spec => []StopFreesThePort`. `StopInv`: a connection that is not closed is
  the writer's (`Owned`), the loop exists from the end of `start()` until it is joined and has at
  most one cancellation, which it did not get yet (`LoopLives`); and while `stop()` goes on, no
  send is under way in a run that counts (`StopClean`).
- `HeldBackForASend`: `Spec => []HoldsBackOnlyForASendUntilTrouble`, inductive beside the types.

`InfraredProofs`, for any connectors, frequencies, counts, durations, Pronto words and limits
(the values come from the assumptions of `Infrared`: naturals, for words and durations any
integers):

- `SentOnIsHeard`: `IrSpec => []SentOnAsHeard`. A count that the gateway may send, converted to
  whole microseconds and back, is the same count, for every carrier (`ThereAndBack`): the
  rounding to microseconds is off by at most half, which at 500 kHz is a quarter of a pulse, and
  `NearestIs` says that what is nearer than half is what rounding finds. The carrier may be clamped
  in between (`CarrierTwice`, `FramesClamped`).
- `SentFramesAreWhole`: `IrSpec => []FramesAreWhole`. From `PulsesBounds` (each count is within the
  limits), `FramesShape` (a last mark gets its space) and `ProntoShape` (even and without a zero,
  whatever the words). Stored sendir lines are not claimed, nor an upper bound for the counts of a
  Pronto code: the code checks neither. Both theorems need `SignalOK`: what
  was heard carries timings that some rounding gives of its frame.
- `CodesAreHeard`: `IrSpec => HeardWhereItComesIn`, from the actions alone.
- `IdsAlwaysDiffer`: `IrSpec => []IdsDiffer`. Distinct is not inductive, the wrap could meet an id
  that is remembered. `IdsInv` says which they are: counted back from the next id around the circle
  `1..LastId`, fewer than `LastId` steps, so that no two coincide.

`EntryLifecycleProofs`, for any serial ports, calls, coordinators and changes:

- `TypeCorrect`: `Spec => []TypeOK`, from `TypeInv`, one group of types per part of the state.
- `ShutdownIsFinal`: `Spec => []ShutdownFreesGateway`. `FreeInv` adds to "no connection" that no
  poll, refresh or call is left on a stopped coordinator that is not a stray (`Freed`): it would
  find the session closed and open it again. A coordinator whose setup failed is not meant.
- `SettingsReachUse`: `Spec => []SettingsTakeEffect`. `SettingsInv` says the same from the copy at
  the start of a setup on, not only when the setup is over.

`OnboardingProofs`, for any gateways, addresses, users, flows and moves:

- `TypeCorrect`: `Spec => []TypeOK`.
- `FlowsAreSole`: `Spec => []OneFlowPerGateway`. `Sole` says it of all flows that hold a unique id;
  a flow takes one only where the code has asked who else has it, in the same step.
- `ScansHearAll`: `Spec => ScanHearsAll`, from the actions alone: only `Receive` takes a beacon
  off the wire.

`OptionsFlowProofs`, for any flows, names, items and saves. Every step is a `SaveStep`, which
changes one item (`Change`) or the other settings, or leaves the options alone (`NextIs`):

- `TypeCorrect`: `Spec => []TypeOK`. The ids given out are `1..n`, so that a new one is fresh
  (`NewIdIsFresh`); and a draft has the kind of its item (`Fits`), so that saving it keeps it.
- `RemovedIsFinal`: `Spec => RemovedStaysRemoved`, from `Change`.
- `SavesAreLocal`: `Spec => SavesOnlyItsOwn`. Each of the three ways to save (`AddingIsOwn`,
  `ReplacingIs`, `LearningIsOwn`) changes the item the flow is about and no other (`OwnChange`), and
  a capture keeps the item's commands. An edit form does not: it puts its draft in place, and
  the property says no more of it.
- `LearnerIsTurnedOff`: `Spec => []LearnerOff`, which is inductive beside the flows' types.
- `EntitiesAreKept`: `Spec => KeepsConfiguredButLookalikes`. A cleanup leaves alone what the
  platforms make (`ActiveAre`), and a device that is dropped is not of a remote that is still there
  (`DevicesAreRemotes`, because items keep their kinds). Not meant are a serial port's buttons that
  look like a sensor (`Mistaken`); `AllEntitiesAreKept` proves `KeepsConfigured` where there are none
  (`RxNames = {}`); with such names it fails (Observations).
- `RegistryFollows`: `Spec => []RegistryMatchesButLookalikes`. `RegistryInv` says it from the moment
  the platforms have added their entities, and before that that no device is left over. Not meant
  are `Mistaken` buttons, which may be gone, what looks like an entity of the gateway
  (`GatewayNames`), which may be left, and options saved during a setup. `NothingIsLeft` proves
  `RemovedLeavesNothing` where no name looks so (`GatewayNames = {}`). With such names it fails
  (disagreement 5).

Every safety property that a passing run checks is the statement of a theorem. Only model-checked
are the liveness properties (`EveryCommandEnds`, `EverySendEnds`, `StopEnds`, `Recovers`,
`ShownCatchesUp`, `SetupEnds`, `FollowsTheGateway`, `GatewayOffered`): liveness under fairness is out of the prover's
reach and stays with TLC. So do the five disagreements below, which are counterexamples.

## Disagreements between the code and its documentation

1. `client_eof`. `send_raw` checks the connection before it waits for the lock. When the
   read loop handles EOF in between, the command writes on `None`: an `AttributeError` that
   no caller catches, where the README promises that the next command opens a new
   session.
2. `client_readtask`. Two commands that connect at once leave a read task that failed
   (two loops on one reader). `connect()` and `disconnect()` await it without catching its
   exception and never forget it: every later command fails and no session is opened.
3. `client_late`. The reply to a query that timed out stays on the queue and is returned
   to the next query of its form: a relay command may return the state of another one.
4. `serial_silent`. A `send` whose write fails leaves `_expecting_response` set; what the
   device says from then on is queued for nobody and not reported.
5. `options_leftover`. A command of a serial port whose name ends like an entity of the gateway
   (`remote count`) has an id that `is_options_managed_unique_id` does not take for one of the options: when
   its item is removed the button stays in the registry, where the README promises that it
   is deleted. (A remote's buttons go with its device.)

## Observations

What the code does that a reader of the models should know, where no run states otherwise:

- Options saved while the entry is being set up are not followed by a reload: the update listener
  is added at the end of a setup. `missed` excepts this from `SettingsTakeEffect` and
  `RegistryMatchesButLookalikes`. A changed address is safe: who changes it reloads the entry himself.
- A `stop()` that raises ends the unload: the sessions after it and the client stay open and the
  entry in the failed-unload state (`StopRaises`). A pulse whose second half fails leaves the
  contact on. A poll or a call in flight at shutdown opens the client again and nobody closes it
  (`strays`).
- A setup that fails by an exception the code does not catch (of two tasks on one client,
  disagreements 1 and 2) leaves its coordinator as it is (`orphans`): its serial sessions go on and
  open its client again, and after a reload an entry may have two clients with a connection.
- A button of a serial port whose name ends in `rx` looks like a sensor to the cleanup of the
  sensor platform, and loses its registry entry at each setup though it is configured
  (`Mistaken`); the button platform makes it anew, without what the user had set.
- Services are never unregistered: `hass.data[DOMAIN]` always holds the discovery manager.
- An entry typed by hand keeps the unique id of its first address. When it was moved by a
  reconfigure and another hub is added at the old address, the entry is redirected there
  instead. A reconfigure that leaves host and port of such an entry alone is aborted as already
  configured, so its name and timeouts cannot be changed that way.
- A gateway picked from a scan is refused as already in progress when its beacon started a
  discovery flow. `_async_prepare_discovery` checks that the address is free, the confirmation
  does not check it again.
- An edit of an item that was removed meanwhile is lost without a word. An edit of a remote that
  was opened before a command was learned for it overwrites that command.
- A stored sendir line, as every learned command is one, goes out as it is stored: neither the
  number of its counts nor they themselves nor its carrier are checked (`SendStored`). A word of
  a Pronto code is a hex number of any size, so its counts have no upper bound.
- Two callers that send codes: the one that gives up releases the lock before its `disconnect()`
  has run, and the next one may take the `busyIR` of the first for its own. It writes its frame
  again while the first one still stands, and the code is sent twice, whatever the ids. The same
  happens to one caller after a query that timed out, which does not reset: the late refusal of
  the query ends the next `sendir`, whose own reply is left for the one after it.
- Of two users who learn at once, the first one's `stop_IRL` turns the learner off for the second.
- The conversion lets 520 values through, `send_sendir` refuses them, and a command id is used up.

## Abstractions

- Time is a choice: a timer may fire whenever its wait is open. The order in which the
  event loop runs ready tasks is any order, a superset of its FIFO.
- Lines are a kind and the command they answer. A form such as `state,1:1,0` is "answer":
  queries of one form cannot be told apart, as in the code.
- IR callbacks are not modelled in the client: they do not suspend the read loop.
  Cancellation of a caller by its task is left out, except for the read loop of a
  serial session. `drain()` does not block on back-pressure, `wait_closed()` ends.
- When two read loops read one reader the second fails with the `RuntimeError` of
  asyncio; the rare case that it finds data buffered and does not wait is left out.
- The pause between two attempts to connect is part of "opening".
- Serial: all the data buffered is one text, text that is only whitespace is left
  out, and the exchange for the line settings is part of the attempt to connect, which
  may fail as expected or with an unexpected exception (finding 1).
- Lifecycle: Home Assistant also shuts down, at the next unload of the entry, coordinators that an
  earlier setup left; that is left out, it comes too late to
  keep two of them from being connected at once. Platforms load
  without failing. One relay stands for all; the options are a version number; a call is a relay command
  or a pulse, the services that pass a line through change nothing here. Home Assistant
  serializes the steps of one entry, cancels the requested refresh of a coordinator without
  listeners and may cancel a poll of an unloaded one. The services are registered once.
- Onboarding: all entries use the default port, ids and hosts are compared as wholes.
- Options: item ids are numbers in the order of their creation, a name stands for a command, and
  every id a menu ever offered can be submitted from an old form. A setup succeeds here:
  `EntryLifecycle` has its failures. A dialog that is closed during a capture is left out.
- Infrared: one code is on its way at a time; repeat, offset and the check of the connector's type
  are left out; a fixed command id, or one the command carries, uses up none.
- Bounds (`MaxConns`, `MaxCommands`, `MaxEvents`, `MaxSends`, `MaxData`) are limits of the
  instances, not of the code; `ConnectRetries` and `MaxResends` are the code's.

## Not modelled

- Text: the parsing of beacons, of `getdevices` and `getversion` lines, of JSON typed by users, the
  inference of a model's name, the validation of single form fields, the rewriting of a learned
  line's connector. They are pure, local and covered by the repository's unit tests.
- Lines that the gateway compresses with letters: `parse_sendir_line` skips them.
- The socket of the listener and its failures, ignored discoveries, the shutdown of discovery.
- The services that pass one line to the gateway, diagnostics, and entities that only present the
  coordinator's data (`sensor.py`, `binary_sensor.py`, `text.py`); constants, translations, tests.
- The switch of a connector to RECEIVER mode, which is one `set_IR` exchange of the client.

## Plan

What could come next, in this order:

1. Proofs: for any callers, what holds of `SoleConnection` and `SendirFiresOnce` until two of them
   connect at once or a command fails.
2. `EntryLifecycle` over `SerialExchange` in place of its own idea of a command.
3. Two gateways that exchange addresses in `Onboarding`, with a state constraint that keeps the
   liveness properties in reach.
