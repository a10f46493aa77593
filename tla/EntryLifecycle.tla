--------------------------- MODULE EntryLifecycle ---------------------------
(***************************************************************************)
(* The life of one config entry: setup, reload and unload, and the         *)
(* coordinators they create and shut down, while relay commands, polls and *)
(* serial sessions run on them.                                            *)
(*                                                                         *)
(* Home Assistant serializes setup, unload and reload of an entry on a     *)
(* lock; `phase' is the await at which the task that holds it stands. Each *)
(* setup makes a new coordinator, numbered by `gen'. An action is the code *)
(* between two awaits; whatever talks to the gateway may find the session  *)
(* closed and open it again, and may fail. Two tasks that use the client   *)
(* at the same time may end by AttributeError or RuntimeError, as the runs *)
(* client_eof and client_readtask show, which only a poll's caller and the *)
(* user of a service expect.                                               *)
(***************************************************************************)
EXTENDS Integers, FiniteSets

CONSTANTS
    Serials,        \* serial ports with a listener
    Calls,          \* tasks of services and entities
    MaxGens,        \* bound: coordinators made
    MaxChanges      \* bound: changes of the options or the address

ASSUME BoundsAssumption == MaxGens \in Nat \ {0} /\ MaxChanges \in Nat

Gens == 1..MaxGens

VARIABLES
    phase,          \* the await of the setup or unload in progress
    again,          \* a setup follows this unload
    waiting,        \* reloads waiting for the entry's lock
    config,         \* the entry: version of its options and of its address
    missed,         \* history: options were saved while nobody listened
    gen,            \* the last coordinator made
    data,           \* hass.data[DOMAIN][entry_id], 0 when there is none
    used,           \* what the last coordinator was made from
    open,           \* coordinators whose client has a connection
    sessions,       \* the serial sessions of each coordinator
    strays,         \* history: coordinators shut down with a task in flight
    orphans,        \* history: coordinators of setups that failed
    poll,           \* each coordinator's polls, and what they read of the relay
    refresh,        \* a refresh was requested that has not begun
    last,           \* the relay's state in the last published result
    relay,          \* the contact itself
    shown,          \* the state of the switch entity
    call            \* each call: its coordinator, its await, what it sets

entryVars == <<phase, again, waiting, config, missed>>
coordVars == <<gen, data, used, open, sessions, strays, orphans>>
pollVars == <<poll, refresh, last>>
relayVars == <<relay, shown>>
vars == <<entryVars, coordVars, pollVars, relayVars, call>>

Idle == [gen |-> 0, at |-> "idle", kind |-> "service", on |-> FALSE]
CallKinds == {"switch", "service", "pulse"}
Readings == {"on", "off", "none"}
Reading(v) == IF v THEN "on" ELSE "off"

\* A poll runs on the timer, or because the debouncer of a refresh runs it; one of
\* each may run at a time.
Ways == {"timed", "asked"}
SetupPhases == {"refreshing", "listening", "platforms"}

\* The update listener is added at the end of a setup and removed after a
\* successful unload.
Listening == phase \in {"loaded", "unloading", "stopping"}

\* A coordinator whose results somebody shows, or will.
InUse(g) == g = gen /\ phase \notin {"stopping", "failed", "unloaded", "error"}

Init ==
    /\ phase = "unloaded" /\ again = TRUE /\ waiting = 0 /\ missed = FALSE
    /\ config = [options |-> 0, address |-> 0]
    /\ gen = 0 /\ data = 0 /\ used = config
    /\ open = {} /\ sessions = [g \in Gens |-> {}]
    /\ strays = {} /\ orphans = {}
    /\ poll = [g \in Gens |-> [w \in Ways |-> "idle"]]
    /\ refresh = [g \in Gens |-> FALSE] /\ last = "none"
    /\ relay \in BOOLEAN /\ shown = FALSE
    /\ call = [c \in Calls |-> Idle]

-----------------------------------------------------------------------------
(* Setup.                                                                  *)

\* async_setup_entry down to the first refresh: the coordinator copies the
\* options and the address. An entry whose setup failed may be reloaded.
BeginSetup ==
    /\ phase \in {"unloaded", "error"}
    /\ again \/ waiting > 0
    /\ gen < MaxGens
    /\ gen' = gen + 1
    /\ used' = config
    /\ phase' = "refreshing"
    /\ again' = FALSE
    /\ missed' = FALSE
    /\ waiting' = IF again THEN waiting ELSE waiting - 1
    /\ poll' = [poll EXCEPT ![gen']["timed"] = "polling"]
    /\ last' = "none"
    /\ UNCHANGED <<config, data, open, sessions, strays, orphans, refresh, relayVars,
                   call>>

\* The first refresh ended, whatever the gateway answered: nobody else has the
\* client yet, and the errors of a single caller are caught in the poll.
Refreshed ==
    /\ phase = "refreshing"
    /\ poll[gen]["timed"] = "idle"
    /\ phase' = "listening"
    /\ UNCHANGED <<again, waiting, config, missed, coordVars, pollVars, relayVars,
                   call>>

\* _sync_serial_sessions of a new coordinator starts a session for each port, one
\* after the other. When one cannot connect that is logged.
SessionStarts ==
    /\ phase = "listening"
    /\ \E s \in Serials \ sessions[gen] :
          sessions' = [sessions EXCEPT ![gen] = @ \cup {s}]
    /\ open' \in {open, open \cup {gen}}
    /\ UNCHANGED <<entryVars, gen, data, used, strays, orphans, pollVars, relayVars,
                   call>>

\* The setup ends by an exception. What its coordinator has open stays open: only
\* an unload shuts a coordinator down.
SetupRaises ==
    /\ phase' = "error"
    /\ orphans' = orphans \cup {gen}
    /\ open' \in {open, open \cup {gen}}
    /\ UNCHANGED <<again, waiting, config, missed, gen, data, used, sessions, strays,
                   pollVars, relayVars, call>>

\* The line settings of a port are sent while a session that was started before
\* connects again over the same client, and fail by an error that is not expected.
SessionRaises ==
    /\ phase = "listening"
    /\ sessions[gen] # {} /\ sessions[gen] # Serials
    /\ SetupRaises

\* The coordinator is published in hass.data.
SessionsStarted ==
    /\ phase = "listening"
    /\ sessions[gen] = Serials
    /\ data' = gen
    /\ phase' = "platforms"
    /\ UNCHANGED <<again, waiting, config, missed, gen, used, open, sessions, strays,
                   orphans, pollVars, relayVars, call>>

\* getdevices of an entry without a module list fails in the same way; the
\* coordinator stays in hass.data.
ModulesRaise ==
    /\ phase = "platforms"
    /\ sessions[gen] # {} \/ \E c \in Calls : call[c].gen = gen
    /\ SetupRaises

\* Module list, devices and platforms are done: the switch starts from the first
\* poll, off when it is not in it, and the listener is added.
PlatformsLoaded ==
    /\ phase = "platforms"
    /\ phase' = "loaded"
    /\ shown' = (last = "on")
    /\ UNCHANGED <<again, waiting, config, missed, coordVars, pollVars, relay, call>>

-----------------------------------------------------------------------------
(* Changes of the entry, reload and unload.                                *)

\* The options flow saves: the entry's listeners are told, if there are any.
SaveOptions ==
    /\ config.options + config.address < MaxChanges
    /\ config' = [config EXCEPT !.options = @ + 1]
    /\ waiting' = IF Listening THEN waiting + 1 ELSE waiting
    /\ missed' = (missed \/ phase \in SetupPhases)
    /\ UNCHANGED <<phase, again, coordVars, pollVars, relayVars, call>>

MoveToldByListener ==                          \* mutant: only the listener reloads
    /\ config.options + config.address < MaxChanges
    /\ config' = [config EXCEPT !.address = @ + 1]
    /\ waiting' = IF Listening THEN waiting + 1 ELSE waiting
    /\ UNCHANGED <<phase, again, missed, coordVars, pollVars, relayVars, call>>

\* A beacon, a DHCP lease or a reconfigure flow changes the address, and asks for
\* the reload itself, besides the listener.
MoveAddress ==
    /\ config.options + config.address < MaxChanges
    /\ config' = [config EXCEPT !.address = @ + 1]
    /\ waiting' = IF Listening THEN waiting + 2 ELSE waiting + 1
    /\ UNCHANGED <<phase, again, missed, coordVars, pollVars, relayVars, call>>

\* Home Assistant takes the entry's lock for a reload, or for a plain unload.
BeginUnload ==
    /\ phase = "loaded"
    /\ \/ waiting > 0 /\ waiting' = waiting - 1 /\ again' = TRUE
       \/ waiting = 0 /\ UNCHANGED <<waiting, again>>
    /\ phase' = "unloading"
    /\ UNCHANGED <<config, missed, coordVars, pollVars, relayVars, call>>

\* A reload of an entry whose unload failed is refused.
ReloadRefused ==
    /\ phase = "failed" /\ waiting > 0
    /\ waiting' = waiting - 1
    /\ UNCHANGED <<phase, again, config, missed, coordVars, pollVars, relayVars,
                   call>>

PlatformsUnloadedKeeps ==                      \* mutant: it stays in hass.data
    /\ phase = "unloading"
    /\ refresh' = [refresh EXCEPT ![gen] = FALSE]
    /\ phase' = "stopping"
    /\ UNCHANGED <<again, waiting, config, missed, coordVars, poll, last, relayVars,
                   call>>

\* The platforms are unloaded: the switch is gone, a coordinator without listeners
\* drops the refresh it was asked for; the coordinator leaves hass.data.
PlatformsUnloaded ==
    /\ phase = "unloading"
    /\ data' = 0
    /\ refresh' = [refresh EXCEPT ![gen] = FALSE]
    /\ last' = "none" /\ shown' = FALSE
    /\ phase' = "stopping"
    /\ UNCHANGED <<again, waiting, config, missed, gen, used, open, sessions, strays,
                   orphans, poll, relay, call>>

\* Tasks that still hold coordinator g.
InFlight(g) == {c \in Calls : call[c].gen = g}
Polled(g) == \E w \in Ways : poll[g][w] # "idle"
Busy(g) == InFlight(g) # {} \/ refresh[g] \/ Polled(g)

StopSessionLast ==                             \* mutant: disconnect, then stop
    /\ phase = "stopping"
    /\ \E s \in sessions[gen] :
          sessions' = [sessions EXCEPT ![gen] = @ \ {s}]
    /\ open' = IF sessions[gen] = Serials THEN open \ {gen} ELSE open
    /\ phase' = IF sessions'[gen] = {} THEN "unloaded" ELSE phase
    /\ strays' = IF sessions'[gen] = {} /\ Busy(gen) THEN strays \cup {gen} ELSE strays
    /\ UNCHANGED <<again, waiting, config, missed, gen, data, used, orphans,
                   pollVars, relayVars, call>>

\* async_shutdown stops one session after the other.
StopSession ==
    /\ phase = "stopping"
    /\ \E s \in sessions[gen] :
          sessions' = [sessions EXCEPT ![gen] = @ \ {s}]
    /\ UNCHANGED <<entryVars, gen, data, used, open, strays, orphans, pollVars,
                   relayVars, call>>

\* stop() raises: the other sessions and the client are left as they are and the
\* entry stays in the failed-unload state.
StopRaises ==
    /\ phase = "stopping" /\ sessions[gen] # {}
    /\ phase' = "failed"
    /\ UNCHANGED <<again, waiting, config, missed, coordVars, pollVars, relayVars,
                   call>>

\* The client is disconnected last: a session that reconnects sends its line
\* settings over it.
Disconnect ==
    /\ phase = "stopping" /\ sessions[gen] = {}
    /\ open' = open \ {gen}
    /\ strays' = IF Busy(gen) THEN strays \cup {gen} ELSE strays
    /\ phase' = "unloaded"
    /\ UNCHANGED <<again, waiting, config, missed, gen, data, used, sessions, orphans,
                   pollVars, relayVars, call>>

\* disconnect() raises again what its read task died of, when two tasks had connected
\* at the same time.
DisconnectRaises ==
    /\ phase = "stopping" /\ sessions[gen] = {}
    /\ open' \in {open, open \ {gen}}
    /\ phase' = "failed"
    /\ UNCHANGED <<again, waiting, config, missed, gen, data, used, sessions, strays,
                   orphans, pollVars, relayVars, call>>

\* The read loop of a session lost its connection: it sets the line up again
\* over the client before it reconnects.
SessionReconnects ==
    \E g \in Gens :
        /\ sessions[g] # {}
        /\ g \notin open
        /\ open' = open \cup {g}
        /\ UNCHANGED <<entryVars, gen, data, used, sessions, strays, orphans,
                       pollVars, relayVars, call>>

\* A connection is lost.
ConnectionLost ==
    \E g \in open :
        /\ open' = open \ {g}
        /\ UNCHANGED <<entryVars, gen, data, used, sessions, strays, orphans,
                       pollVars, relayVars, call>>

-----------------------------------------------------------------------------
(* Polls and relay commands.                                               *)

PollStartsAsked(g, w) ==                       \* mutant: the timer is not set again
    /\ w = "asked" /\ poll[g][w] = "idle" /\ refresh[g]
    /\ poll' = [poll EXCEPT ![g][w] = "polling"]
    /\ refresh' = [refresh EXCEPT ![g] = FALSE]
    /\ UNCHANGED <<entryVars, coordVars, last, relayVars, call>>

\* The timer of a loaded entry, or a refresh that a switch asked for, at once or
\* after the debouncer's cooldown. Whatever starts first does for both.
PollStarts(g, w) ==
    /\ poll[g][w] = "idle"
    /\ IF w = "asked" THEN refresh[g] ELSE g = gen /\ phase = "loaded"
    /\ poll' = [poll EXCEPT ![g][w] = "polling"]
    /\ refresh' = [refresh EXCEPT ![g] = FALSE]
    /\ UNCHANGED <<entryVars, coordVars, last, relayVars, call>>

\* The relay's state is read; the poll goes on with the other relays.
PollReads(g, w) ==
    /\ poll[g][w] = "polling"
    /\ poll' = [poll EXCEPT ![g][w] = Reading(relay)]
    /\ open' = open \cup {g}
    /\ UNCHANGED <<entryVars, gen, data, used, sessions, strays, orphans, refresh, last,
                   relayVars, call>>

\* The relay is left out of the result: the command failed, or there is no relay.
PollMisses(g, w) ==
    /\ poll[g][w] = "polling"
    /\ poll' = [poll EXCEPT ![g][w] = "none"]
    /\ open' \in {open, open \cup {g}}
    /\ UNCHANGED <<entryVars, gen, data, used, sessions, strays, orphans, refresh, last,
                   relayVars, call>>

\* An error that is not expected ends the poll: the last result stays, and a switch
\* that is told takes it over again.
PollRaises(g, w) ==
    /\ poll[g][w] # "idle"
    /\ ~(g = gen /\ phase = "refreshing")
    /\ poll' = [poll EXCEPT ![g][w] = "idle"]
    /\ open' \in {open, open \cup {g}}
    /\ shown' \in {shown} \cup IF InUse(g) /\ last # "none" THEN {last = "on"} ELSE {}
    /\ UNCHANGED <<entryVars, gen, data, used, sessions, strays, orphans, refresh, last,
                   relay, call>>

PollPublishesAnswers(g, w) ==                  \* mutant: a poll that failed is raised
    /\ poll[g][w] \in Readings \ {"none"}
    /\ poll' = [poll EXCEPT ![g][w] = "idle"]
    /\ last' = IF InUse(g) THEN poll[g][w] ELSE last
    /\ shown' = IF InUse(g) THEN poll[g][w] = "on" ELSE shown
    /\ UNCHANGED <<entryVars, coordVars, refresh, relay, call>>

\* The result is published: a switch that is in it takes it over, be it older than
\* the switch's own command.
PollPublishes(g, w) ==
    /\ poll[g][w] \in Readings
    /\ poll' = [poll EXCEPT ![g][w] = "idle"]
    /\ last' = IF InUse(g) THEN poll[g][w] ELSE last
    /\ shown' = IF InUse(g) /\ poll[g][w] # "none" THEN poll[g][w] = "on" ELSE shown
    /\ UNCHANGED <<entryVars, coordVars, refresh, relay, call>>

\* A text from a serial port notifies every entity: the switch takes the last
\* result over again, be it older than its own command.
SerialText ==
    /\ phase = "loaded" /\ sessions[gen] # {} /\ last # "none"
    /\ shown' = (last = "on")
    /\ UNCHANGED <<entryVars, coordVars, pollVars, relay, call>>

\* Home Assistant may cancel the polls of an entry that was unloaded.
PollCancelled(g, w) ==
    /\ poll[g][w] # "idle"
    /\ g < gen \/ phase = "unloaded"
    /\ poll' = [poll EXCEPT ![g][w] = "idle"]
    /\ UNCHANGED <<entryVars, coordVars, refresh, last, relayVars, call>>

\* A service finds the coordinator through hass.data (and fails when there is
\* none); a switch is there while its platform is loaded.
Call(c) ==
    /\ call[c] = Idle
    /\ data # 0
    /\ \E k \in CallKinds, v \in BOOLEAN :
          /\ k = "switch" => phase = "loaded"
          /\ k = "pulse" => v
          /\ call' = [call EXCEPT ![c] = [gen |-> data, at |-> "set", kind |-> k, on |-> v]]
    /\ UNCHANGED <<entryVars, coordVars, pollVars, relayVars>>

\* The first half of a pulse is followed by its sleep, all else ends the call.
AfterSet(c) ==
    IF call[c].kind = "pulse" /\ call[c].on
    THEN [call[c] EXCEPT !.at = "sleep", !.on = FALSE] ELSE Idle

\* A switch shows what it set and asks for a refresh, services do neither. No
\* other command runs between the contact's change and its answer. The debouncer
\* may drop the request while a refresh runs.
SetAnswered(c) ==
    LET g == call[c].gen
        switch == call[c].kind = "switch"
    IN  /\ call[c].at = "set"
        /\ open' = open \cup {g}
        /\ relay' = call[c].on
        /\ shown' = IF switch /\ g = gen /\ phase = "loaded" THEN call[c].on ELSE shown
        /\ \/ refresh' = [refresh EXCEPT ![g] = @ \/ switch]
           \/ Polled(g) /\ UNCHANGED refresh
        /\ call' = [call EXCEPT ![c] = AfterSet(c)]
        /\ UNCHANGED <<entryVars, gen, data, used, sessions, strays, orphans, poll, last>>

\* The command failed, before or after the contact changed; the call ends by the
\* exception, a pulse without its second half.
SetFails(c) ==
    /\ call[c].at = "set"
    /\ open' \in {open, open \cup {call[c].gen}}
    /\ relay' \in {relay, call[c].on}
    /\ call' = [call EXCEPT ![c] = Idle]
    /\ UNCHANGED <<entryVars, gen, data, used, sessions, strays, orphans, pollVars,
                   shown>>

\* The sleep of a pulse is over.
PulseReleases(c) ==
    /\ call[c].at = "sleep"
    /\ call' = [call EXCEPT ![c].at = "set"]
    /\ UNCHANGED <<entryVars, coordVars, pollVars, relayVars>>

-----------------------------------------------------------------------------
SetupStep ==
    BeginSetup \/ Refreshed \/ SessionStarts \/ SessionRaises \/ SessionsStarted
      \/ ModulesRaise \/ PlatformsLoaded
UnloadStep ==
    PlatformsUnloaded \/ StopSession \/ StopRaises \/ Disconnect \/ DisconnectRaises
PollStep(g, w) ==
    PollReads(g, w) \/ PollMisses(g, w) \/ PollRaises(g, w) \/ PollPublishes(g, w)

Next ==
    \/ SetupStep \/ UnloadStep
    \/ SaveOptions \/ MoveAddress \/ BeginUnload \/ ReloadRefused
    \/ SessionReconnects \/ ConnectionLost \/ SerialText
    \/ \E g \in Gens, w \in Ways :
          PollStarts(g, w) \/ PollStep(g, w) \/ PollCancelled(g, w)
    \/ \E c \in Calls : Call(c) \/ SetAnswered(c) \/ SetFails(c) \/ PulseReleases(c)

Spec == Init /\ [][Next]_vars

\* The event loop runs every coroutine that is ready, every command ends by an
\* answer or its deadline, the entry's lock is granted, and timers fire. Who saves,
\* calls or unloads is up to the user.
Fairness ==
    /\ WF_vars(SetupStep) /\ WF_vars(UnloadStep)
    /\ WF_vars(waiting > 0 /\ BeginUnload) /\ WF_vars(ReloadRefused)
    /\ \A g \in Gens, w \in Ways : WF_vars(PollStep(g, w)) /\ WF_vars(PollStarts(g, w))
FairSpec == Spec /\ Fairness

-----------------------------------------------------------------------------
(* Properties.                                                             *)

\* Types; and hass.data holds the last coordinator, from the end of the start of its
\* sessions to the end of the unload of the platforms, and after that at most one
\* that a failed setup left there (__init__.py:180).
TypeOK ==
    /\ phase \in {"unloaded", "refreshing", "listening", "platforms", "loaded",
                  "unloading", "stopping", "failed", "error"}
    /\ again \in BOOLEAN /\ missed \in BOOLEAN /\ waiting \in Nat
    /\ config \in [options : Nat, address : Nat]
    /\ gen \in 0..MaxGens
    /\ data \in IF phase \in {"platforms", "loaded", "unloading"} THEN {gen}
                ELSE IF phase \in {"error", "refreshing", "listening"} THEN orphans \cup {0}
                ELSE {0}
    /\ used \in [options : Nat, address : Nat]
    /\ open \in SUBSET Gens /\ sessions \in [Gens -> SUBSET Serials]
    /\ strays \in SUBSET Gens /\ orphans \in SUBSET Gens
    /\ poll \in [Gens -> [Ways -> {"idle", "polling"} \cup Readings]]
    /\ refresh \in [Gens -> BOOLEAN]
    /\ last \in Readings
    /\ relay \in BOOLEAN /\ shown \in BOOLEAN
    /\ call \in [Calls -> [gen : 0..MaxGens, at : {"idle", "set", "sleep"},
                           kind : CallKinds, on : BOOLEAN]]

Stopped(g) == g \notin orphans /\ (g < gen \/ phase = "unloaded")

\* A coordinator that was shut down has no serial session, and no connection
\* unless a task was still using it: shutting down in any other order would let
\* a session or the poll open it again (coordinator.py:188). One whose setup failed
\* is not shut down.
ShutdownFreesGateway ==
    \A g \in 1..gen :
        Stopped(g) => /\ sessions[g] = {}
                      /\ g \notin strays => g \notin open

\* Once every reload that was asked for has run, the coordinator in use has the
\* entry's address; and its options, unless they were saved while the entry was
\* being set up, when no listener is there to reload (__init__.py:123).
SettingsTakeEffect ==
    phase = "loaded" /\ waiting = 0 =>
        /\ used.address = config.address
        /\ missed \/ used.options = config.options

\* The switch may show an older state than the contact has: a poll publishes what it
\* read before a command, a serial text repeats the last result, and the refresh the
\* command asks for may be dropped. When commands have ceased and the gateway answers,
\* the polls of the timer put that right for good (switch.py:77, coordinator.py:118).
ShownCatchesUp ==
    /\ <>[](phase = "loaded" /\ \A c \in Calls : call[c] = Idle)
    /\ <>[][\A g \in Gens, w \in Ways : ~PollMisses(g, w) /\ ~PollRaises(g, w)]_vars
    => <>[](shown = relay)

\* A setup ends, whatever the gateway answers or fails to: loaded, or by an error of
\* two tasks that use the client at the same time (coordinator.py:144).
SetupEnds == phase = "refreshing" ~> phase \in {"loaded", "error"}

=============================================================================
