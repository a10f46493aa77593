---------------------------- MODULE ItachClient ----------------------------
(***************************************************************************)
(* The asyncio client of the gateway's control port (client.py): one       *)
(* connection, a write lock, a background read loop that puts every line   *)
(* on one queue, and the coroutines that send a command and wait on that   *)
(* queue for its reply.                                                    *)
(*                                                                         *)
(* One event loop runs everything, so a step of this model is the code     *)
(* between two awaits.  Time is abstracted: a wait with a timeout may end  *)
(* at any moment, by its timer or by what it waits for.  The gateway and   *)
(* the network are the environment: they answer late or never, refuse      *)
(* connections and close them.                                             *)
(***************************************************************************)
EXTENDS Naturals, Sequences, FiniteSets

CONSTANTS
    Callers,         \* tasks that use the client: poll, services, entities
    Operations,      \* the operations the callers may ask for
    GatewayLines,    \* the kinds of line the gateway may send
    FreshIds,        \* TRUE: every sendir has its own id; FALSE: they share one
    NoCaller,        \* nobody: the lock is free, or a line nobody asked for
    MaxConns,        \* bound on the connections ever opened
    MaxCommands,     \* bound on the commands of one caller
    MaxEvents,       \* bound on the lines queued when an unsolicited one arrives
    ConnectRetries,  \* connect_retries
    MaxResends       \* max_resends

AllOperations == {"sendir", "query", "line", "collect", "payload", "disconnect"}
LineKinds == {"complete", "busy", "answer", "unknown", "err", "event"}

ASSUME CallersAssumption    == NoCaller \notin Callers
ASSUME OperationsAssumption == Operations \subseteq AllOperations
ASSUME GatewayAssumption    == GatewayLines \subseteq LineKinds
ASSUME FreshIdsAssumption   == FreshIds \in BOOLEAN
ASSUME BoundsAssumption     ==
    /\ MaxConns \in Nat \ {0}
    /\ MaxCommands \in Nat \ {0}
    /\ MaxEvents \in Nat
    /\ ConnectRetries \in Nat \ {0}
    /\ MaxResends \in Nat \ {0}

Conns == 1 .. MaxConns
None  == 0

\* A line, and the command of a caller (its n-th) the gateway answers with it.
Line == [kind : LineKinds, by : Callers \cup {NoCaller}, n : 0 .. MaxCommands]

\* A command on its way to the gateway.
Request == [op : Operations, by : Callers, n : 1 .. MaxCommands]

\* The awaits a caller can be suspended at.  "start" is a coroutine that has
\* been created and has not run; "granted" one that was woken with the lock.
Pcs == {"idle", "start", "rejoining", "opening", "queued", "granted",
        "waiting", "draining", "backoff", "payload", "stopping", "closing"}
Holding == {"granted", "waiting", "draining", "backoff", "payload"}

\* How a command ended: "ok", an ItachError ("aborted" when a sendir gave up and
\* reset the session), a TimeoutError, an OSError, or an exception that no caller
\* of the client expects.
Outcomes == {"none", "ok", "itach", "aborted", "timeout", "oserror", "crash"}

VARIABLES
    writer, reader,  \* _writer, _reader: a connection or None
    readTask,        \* _read_task: the loop started for that connection
    closed,          \* the event _closed
    lines,           \* _line_queue
    owner, waiters,  \* _write_lock: its holder, and its waiters in order
    loop,            \* state of the read loop started for each connection
    source,          \* the connection whose reader that loop awaits
    link,            \* each connection: unused, open, eof (peer closed) or shut
    pending,         \* requests the gateway has not processed
    inbuf,           \* lines that arrived and no loop has read
    fires,           \* how often the gateway carried out a command
    pc, op, n,       \* each caller: where it is, its operation, its count
    tries,           \* attempts to connect, then frames written
    join,            \* the read loop it awaits the end of
    outcome,         \* how its last command ended
    reply,           \* the line that ended its last command
    troubled         \* history: some command has ended otherwise than "ok"

clientVars  == <<writer, reader, readTask, closed>>
lockVars    == <<owner, waiters>>
loopVars    == <<loop, source>>
gatewayVars == <<pending, fires>>
commandVars == <<op, n>>
resultVars  == <<outcome, reply, troubled>>
vars == <<writer, reader, readTask, closed, lines, owner, waiters, loop, source,
          link, pending, inbuf, fires, pc, op, n, tries, join, outcome, reply, troubled>>

NoLine == [kind |-> "event", by |-> NoCaller, n |-> 0]

LoopStates == {"none", "new", "reading", "cancelled", "done", "failed"}
LinkStates == {"unused", "open", "eof", "shut"}

SessionTypes ==
    /\ writer \in Conns \cup {None}
    /\ reader \in Conns \cup {None}
    /\ readTask \in Conns \cup {None}
    /\ closed \in BOOLEAN
    /\ loop \in [Conns -> LoopStates]
    /\ source \in [Conns -> Conns \cup {None}]
    /\ link \in [Conns -> LinkStates]

LineTypes ==
    /\ lines \in Seq(Line)
    /\ inbuf \in [Conns -> Seq(Line)]
    /\ reply \in [Callers -> Line]

GatewayTypes ==
    /\ pending \in [Conns -> Seq(Request)]
    /\ fires \in [Callers -> [1 .. MaxCommands -> Nat]]

LockTypes ==
    /\ owner \in Callers \cup {NoCaller}
    /\ waiters \in Seq(Callers)
    /\ pc \in [Callers -> Pcs]

CommandTypes ==
    /\ op \in [Callers -> AllOperations]
    /\ n \in [Callers -> 0 .. MaxCommands]
    /\ tries \in [Callers -> 0 .. ConnectRetries + MaxResends]
    /\ join \in [Callers -> Conns \cup {None}]

ResultTypes ==
    /\ outcome \in [Callers -> Outcomes]
    /\ troubled \in BOOLEAN

TypeOK == SessionTypes /\ LineTypes /\ GatewayTypes /\ LockTypes /\ CommandTypes /\ ResultTypes

Init ==
    /\ writer = None /\ reader = None /\ readTask = None
    /\ closed = FALSE
    /\ lines = <<>>
    /\ owner = NoCaller /\ waiters = <<>>
    /\ loop = [c \in Conns |-> "none"]
    /\ source = [c \in Conns |-> None]
    /\ link = [c \in Conns |-> "unused"]
    /\ pending = [c \in Conns |-> <<>>]
    /\ inbuf = [c \in Conns |-> <<>>]
    /\ fires = [t \in Callers |-> [k \in 1 .. MaxCommands |-> 0]]
    /\ pc = [t \in Callers |-> "idle"]
    /\ op = [t \in Callers |-> "disconnect"]
    /\ n = [t \in Callers |-> 0]
    /\ tries = [t \in Callers |-> 0]
    /\ join = [t \in Callers |-> None]
    /\ outcome = [t \in Callers |-> "none"]
    /\ reply = [t \in Callers |-> NoLine]
    /\ troubled = FALSE

-----------------------------------------------------------------------------
(* The pieces the handlers are made of. *)

\* A read loop that has not ended.
Alive(c) == loop[c] \in {"new", "reading", "cancelled"}

\* A session is open and not closing.
IsConnected == writer # None /\ link[writer] # "shut"

\* The connections after the transport of connection w was closed: by close(),
\* or by the finalizer of asyncio's StreamWriter when _writer is overwritten.
Shut(w) == IF w = None THEN link ELSE [link EXCEPT ![w] = "shut"]

CloseWriterNowait ==
    /\ link' = Shut(writer)
    /\ writer' = None
    /\ reader' = None

NoJoin(t) == TRUE                                        \* mutant: cancel, no await

\* The awaited read loop has ended.
Joined(t) == ~Alive(join[t])

Cancelled(c) == [loop EXCEPT ![c] = "cancelled"]

MakeRequest(t) == [op |-> op[t], by |-> t, n |-> n[t]]

Goto(t, label) == pc' = [pc EXCEPT ![t] = label]

\* Leaving "async with _write_lock": the first waiter becomes the holder.
Release(t, label) ==
    \/ /\ waiters = <<>>
       /\ owner' = NoCaller
       /\ waiters' = waiters
       /\ Goto(t, label)
    \/ /\ waiters # <<>>
       /\ owner' = Head(waiters)
       /\ waiters' = Tail(waiters)
       /\ pc' = [pc EXCEPT ![t] = label, ![Head(waiters)] = "granted"]

Finish(t, how) ==
    /\ outcome' = [outcome EXCEPT ![t] = how]
    /\ troubled' = (troubled \/ how \notin {"none", "ok"})

\* Leaving the exchange with a result or an exception and no reset.
EndExchange(t, how) ==
    /\ Release(t, "idle")
    /\ Finish(t, how)
    /\ UNCHANGED <<clientVars, loopVars, link, gatewayVars, inbuf,
                   commandVars, tries, join>>

\* disconnect() from closing the writer on: it suspends in wait_closed(), or
\* runs to its end when there is no writer.
CloseLabel == IF writer # None THEN "closing" ELSE "idle"

CloseOwnWriter ==
    \/ /\ writer # None
       /\ link' = Shut(writer)
       /\ UNCHANGED <<reader, lines>>
    \/ /\ writer = None
       /\ reader' = None
       /\ lines' = <<>>
       /\ UNCHANGED link

\* The read task of the current connection ended with an exception that
\* awaiting it raises again.
ReadTaskFailed  == readTask # None /\ loop[readTask] = "failed"
ReadTaskRunning == readTask # None /\ Alive(readTask)
ReadTaskGone    == ~ReadTaskFailed /\ ~ReadTaskRunning

DisconnectLabel == CASE ReadTaskRunning -> "stopping"
                     [] ReadTaskFailed  -> "idle"
                     [] ReadTaskGone    -> CloseLabel

DisconnectOutcome(how) == IF ReadTaskFailed THEN "crash" ELSE how

\* disconnect() up to its first await.
DisconnectBegins(t) ==
    /\ closed' = TRUE
    /\ \/ /\ ReadTaskRunning
          /\ loop' = Cancelled(readTask)
          /\ join' = [join EXCEPT ![t] = readTask]
          /\ UNCHANGED <<readTask, reader, link, lines>>
       \/ /\ ReadTaskFailed
          /\ UNCHANGED <<loop, join, readTask, reader, link, lines>>
       \/ /\ ReadTaskGone
          /\ readTask' = None
          /\ CloseOwnWriter
          /\ UNCHANGED <<loop, join>>
    /\ UNCHANGED <<writer, source, pending, inbuf, fires>>

\* A sendir gives up: the lock is released, then disconnect() runs in "finally".
Reset(t, how) ==
    /\ Release(t, DisconnectLabel)
    /\ Finish(t, DisconnectOutcome(how))
    /\ DisconnectBegins(t)
    /\ UNCHANGED <<commandVars, tries, reply>>

\* Write one frame on the current writer and wait.  What is written after the
\* peer closed is lost, or breaks the transport and drain() raises.
WriteFrame(t, frames) ==
    /\ tries' = [tries EXCEPT ![t] = frames]
    /\ \/ /\ link[writer] = "open"
          /\ pending' = [pending EXCEPT ![writer] = Append(@, MakeRequest(t))]
          /\ Goto(t, "waiting")
          /\ UNCHANGED link
       \/ /\ link[writer] = "eof"
          /\ Goto(t, "waiting")
          /\ UNCHANGED <<pending, link>>
       \/ /\ link[writer] \in {"eof", "shut"}
          /\ link' = Shut(writer)
          /\ Goto(t, "draining")
          /\ UNCHANGED pending

\* A holder finds _writer to be None: AttributeError, which nothing catches.
CrashOnWriter(t) ==
    /\ writer = None
    /\ EndExchange(t, "crash")
    /\ UNCHANGED <<lines, reply>>

-----------------------------------------------------------------------------
(* Callers. *)

Submit(t, o) ==
    /\ pc[t] = "idle"
    /\ n[t] < MaxCommands
    /\ Goto(t, "start")
    /\ op' = [op EXCEPT ![t] = o]
    /\ n' = [n EXCEPT ![t] = @ + 1]
    /\ tries' = [tries EXCEPT ![t] = 0]
    /\ Finish(t, "none")
    /\ reply' = [reply EXCEPT ![t] = NoLine]
    /\ UNCHANGED <<clientVars, lines, lockVars, loopVars, link, gatewayVars, inbuf, join>>

Connects(t) == op[t] \in {"sendir", "query", "line", "collect"}

WriteUnlocked(t) ==                                      \* mutant: no lock
    /\ pc[t] = "start" /\ Connects(t)
    /\ IsConnected
    /\ owner' = t
    /\ WriteFrame(t, 1)
    /\ UNCHANGED <<clientVars, waiters, lines, loopVars, fires, inbuf, commandVars,
                   join, resultVars>>

\* connect() returns at once, and the caller goes on to the lock and its write.
UseConnection(t) ==
    /\ pc[t] = "start" /\ Connects(t)
    /\ IsConnected
    /\ \/ /\ owner = NoCaller
          /\ owner' = t
          /\ WriteFrame(t, 1)
          /\ UNCHANGED waiters
       \/ /\ owner # NoCaller
          /\ waiters' = Append(waiters, t)
          /\ Goto(t, "queued")
          /\ UNCHANGED <<owner, tries, link, pending>>
    /\ UNCHANGED <<clientVars, lines, loopVars, fires, inbuf, commandVars, join, resultVars>>

\* connect() up to its first await when there is no open session.
Reconnect(t) ==
    /\ pc[t] = "start" /\ Connects(t)
    /\ ~IsConnected
    /\ \/ /\ ReadTaskRunning
          /\ loop' = Cancelled(readTask)
          /\ join' = [join EXCEPT ![t] = readTask]
          /\ Goto(t, "rejoining")
          /\ UNCHANGED <<writer, reader, readTask, link, tries, outcome, troubled>>
       \/ /\ ReadTaskFailed
          /\ Finish(t, "crash")
          /\ Goto(t, "idle")
          /\ UNCHANGED <<writer, reader, readTask, link, loop, join, tries>>
       \/ /\ ReadTaskGone
          /\ readTask' = None
          /\ CloseWriterNowait
          /\ tries' = [tries EXCEPT ![t] = 1]
          /\ Goto(t, "opening")
          /\ UNCHANGED <<loop, join, outcome, troubled>>
    /\ UNCHANGED <<closed, lines, lockVars, source, gatewayVars, inbuf, commandVars, reply>>

\* connect() resumes after the read loop it cancelled.
Rejoined(t) ==
    /\ pc[t] = "rejoining"
    /\ Joined(t)
    /\ \/ /\ loop[join[t]] = "failed"
          /\ Finish(t, "crash")
          /\ Goto(t, "idle")
          /\ UNCHANGED <<writer, reader, readTask, link, tries>>
       \/ /\ loop[join[t]] # "failed"
          /\ readTask' = None
          /\ CloseWriterNowait
          /\ tries' = [tries EXCEPT ![t] = 1]
          /\ Goto(t, "opening")
          /\ UNCHANGED <<outcome, troubled>>
    /\ UNCHANGED <<closed, lines, lockVars, loopVars, gatewayVars, inbuf,
                   commandVars, join, reply>>

KeepClosed  == UNCHANGED closed                          \* mutant: not cleared
ClearClosed == closed' = FALSE

\* The next connection in the order they are opened.
NextConn(c) == link[c] = "unused" /\ \A d \in Conns : d < c => link[d] # "unused"

\* open_connection() succeeded: connect() installs the session, starts its read
\* loop and returns, and the caller goes on to the lock and its write.
Opened(t) ==
    /\ pc[t] = "opening"
    /\ \E c \in Conns :
        /\ NextConn(c)
        /\ link' = [Shut(writer) EXCEPT ![c] = "open"]
        /\ writer' = c /\ reader' = c /\ readTask' = c
        /\ loop' = [loop EXCEPT ![c] = "new"]
        /\ \/ /\ owner = NoCaller
              /\ owner' = t
              /\ pending' = [pending EXCEPT ![c] = <<MakeRequest(t)>>]
              /\ tries' = [tries EXCEPT ![t] = 1]
              /\ Goto(t, "waiting")
              /\ UNCHANGED waiters
           \/ /\ owner # NoCaller
              /\ waiters' = Append(waiters, t)
              /\ Goto(t, "queued")
              /\ UNCHANGED <<owner, pending, tries>>
    /\ ClearClosed
    /\ UNCHANGED <<lines, source, fires, inbuf, commandVars, join, resultVars>>

\* An attempt failed or timed out: try again after a pause, or give up.
OpenFailed(t) ==
    /\ pc[t] = "opening"
    /\ \/ /\ tries[t] < ConnectRetries
          /\ tries' = [tries EXCEPT ![t] = @ + 1]
          /\ UNCHANGED <<pc, outcome, troubled>>
       \/ /\ tries[t] = ConnectRetries
          /\ Finish(t, "itach")
          /\ Goto(t, "idle")
          /\ UNCHANGED tries
    /\ UNCHANGED <<clientVars, lines, lockVars, loopVars, link, gatewayVars, inbuf,
                   commandVars, join, reply>>

\* A waiter resumes with the lock and writes on whatever _writer is by then.
Granted(t) ==
    /\ pc[t] = "granted"
    /\ \/ /\ op[t] = "payload"
          /\ Goto(t, "payload")
          /\ UNCHANGED <<clientVars, lines, lockVars, loopVars, link, gatewayVars,
                         inbuf, commandVars, tries, join, resultVars>>
       \/ /\ op[t] # "payload"
          /\ CrashOnWriter(t)
       \/ /\ op[t] # "payload"
          /\ writer # None
          /\ WriteFrame(t, 1)
          /\ UNCHANGED <<clientVars, lines, lockVars, loopVars, fires, inbuf,
                         commandVars, join, resultVars>>

\* send_serial_payload(): one connection to the data port, under the lock.
Payload(t) ==
    /\ pc[t] = "start" /\ op[t] = "payload"
    /\ \/ /\ owner = NoCaller
          /\ owner' = t
          /\ Goto(t, "payload")
          /\ UNCHANGED waiters
       \/ /\ owner # NoCaller
          /\ waiters' = Append(waiters, t)
          /\ Goto(t, "queued")
          /\ UNCHANGED owner
    /\ UNCHANGED <<clientVars, lines, loopVars, link, gatewayVars, inbuf, commandVars,
                   tries, join, resultVars>>

PayloadEnds(t) ==
    /\ pc[t] = "payload"
    /\ \E how \in {"ok", "timeout", "oserror"} : EndExchange(t, how)
    /\ UNCHANGED <<lines, reply>>

SatisfiesAnyId(t, l) ==                                  \* mutant: id not compared
    \/ op[t] = "sendir" /\ l.kind = "complete"
    \/ op[t] = "query" /\ l.kind = "answer"
    \/ op[t] = "line"

\* The lines that end the wait of t, and those that make it fail.  The reply to
\* a query is known by its form alone, completeir by its connector and its id.
Satisfies(t, l) ==
    \/ /\ op[t] = "sendir" /\ l.kind = "complete"
       /\ FreshIds => l.by = t /\ l.n = n[t]
    \/ op[t] = "query" /\ l.kind = "answer"
    \/ op[t] = "line"

Refuses(t, l) ==
    \/ op[t] = "sendir" /\ l.kind \in {"unknown", "err"}
    \/ op[t] = "query" /\ l.kind = "unknown"

Busy(t, l) == op[t] = "sendir" /\ l.kind = "busy"

Takes(t) == pc[t] = "waiting" /\ lines # <<>> /\ lines' = Tail(lines)

TakeReply(t) ==
    /\ Takes(t)
    /\ Satisfies(t, Head(lines))
    /\ EndExchange(t, "ok")
    /\ reply' = [reply EXCEPT ![t] = Head(lines)]

TakeRefusal(t) ==
    /\ Takes(t)
    /\ Refuses(t, Head(lines))
    /\ EndExchange(t, "itach")
    /\ UNCHANGED reply

PauseUnlocked(t) ==                                      \* mutant: lock released
    /\ Takes(t)
    /\ Busy(t, Head(lines))
    /\ Release(t, "backoff")
    /\ UNCHANGED <<clientVars, loopVars, link, gatewayVars, inbuf, commandVars, tries,
                   join, resultVars>>

\* busyIR, whoever it is for: pause with the lock held, then write again.
TakeBusy(t) ==
    /\ Takes(t)
    /\ Busy(t, Head(lines))
    /\ Goto(t, "backoff")
    /\ UNCHANGED <<clientVars, lockVars, loopVars, link, gatewayVars, inbuf,
                   commandVars, tries, join, resultVars>>

\* Any other line is collected and the wait goes on.
TakeOther(t) ==
    /\ Takes(t)
    /\ LET l == Head(lines) IN ~Satisfies(t, l) /\ ~Refuses(t, l) /\ ~Busy(t, l)
    /\ UNCHANGED <<clientVars, lockVars, loopVars, link, gatewayVars, inbuf, pc,
                   commandVars, tries, join, resultVars>>

ResendForever(t) ==                                      \* mutant: no bound
    /\ pc[t] = "backoff"
    /\ writer # None
    /\ WriteFrame(t, tries[t] + 1)
    /\ UNCHANGED <<clientVars, lines, lockVars, loopVars, fires, inbuf, commandVars,
                   join, resultVars>>

Resend(t) ==
    /\ pc[t] = "backoff"
    /\ tries[t] < MaxResends
    /\ \/ CrashOnWriter(t)
       \/ /\ writer # None
          /\ WriteFrame(t, tries[t] + 1)
          /\ UNCHANGED <<clientVars, lines, lockVars, loopVars, fires, inbuf,
                         commandVars, join, resultVars>>

\* The last resend was busy too, or the deadline passed: during the pause, or in
\* the queue for the lock, before the first frame was written.
GiveUp(t) ==
    /\ pc[t] = "backoff" \/ (pc[t] = "granted" /\ op[t] = "sendir")
    /\ Reset(t, "aborted")

TimeoutKeepsSession(t) ==                                \* mutant: no reset
    /\ pc[t] = "waiting"
    /\ EndExchange(t, IF op[t] = "sendir" THEN "aborted" ELSE "timeout")
    /\ UNCHANGED <<lines, reply>>

TimeoutResends(t) ==                                     \* mutant: retry when late
    /\ pc[t] = "waiting"
    /\ Goto(t, "backoff")
    /\ UNCHANGED <<clientVars, lines, lockVars, loopVars, link, gatewayVars, inbuf,
                   commandVars, tries, join, resultVars>>

\* The deadline of a wait, or the end of the window of send_raw_then_collect().
Timeout(t) ==
    /\ pc[t] = "waiting"
    /\ \/ op[t] = "sendir" /\ Reset(t, "aborted")
       \/ op[t] = "query" /\ EndExchange(t, "timeout") /\ UNCHANGED <<lines, reply>>
       \/ op[t] \in {"line", "collect"} /\ EndExchange(t, "ok") /\ UNCHANGED <<lines, reply>>

DrainFailsLocked(t) ==                                   \* mutant: lock kept
    /\ pc[t] = "draining"
    /\ Goto(t, "idle")
    /\ Finish(t, "oserror")
    /\ UNCHANGED <<clientVars, lines, lockVars, loopVars, link, gatewayVars, inbuf,
                   commandVars, tries, join, reply>>

DrainFails(t) ==
    /\ pc[t] = "draining"
    /\ \/ op[t] = "sendir" /\ Reset(t, "oserror")
       \/ op[t] # "sendir" /\ EndExchange(t, "oserror") /\ UNCHANGED <<lines, reply>>

Disconnect(t) ==
    /\ pc[t] = "start" /\ op[t] = "disconnect"
    /\ Goto(t, DisconnectLabel)
    /\ Finish(t, DisconnectOutcome("ok"))
    /\ DisconnectBegins(t)
    /\ UNCHANGED <<lockVars, commandVars, tries, reply>>

\* disconnect() resumes after the read loop it cancelled.
Stopped(t) ==
    /\ pc[t] = "stopping"
    /\ Joined(t)
    /\ \/ /\ loop[join[t]] = "failed"
          /\ Finish(t, "crash")
          /\ Goto(t, "idle")
          /\ UNCHANGED <<readTask, reader, link, lines>>
       \/ /\ loop[join[t]] # "failed"
          /\ readTask' = None
          /\ CloseOwnWriter
          /\ Goto(t, CloseLabel)
          /\ UNCHANGED <<outcome, troubled>>
    /\ UNCHANGED <<writer, closed, lockVars, loopVars, gatewayVars, inbuf,
                   commandVars, tries, join, reply>>

ClosedKeepsLines(t) ==                                   \* mutant: no draining
    /\ pc[t] = "closing"
    /\ CloseWriterNowait
    /\ Goto(t, "idle")
    /\ UNCHANGED <<readTask, closed, lines, lockVars, loopVars, gatewayVars, inbuf,
                   commandVars, tries, join, resultVars>>

\* disconnect() resumes after wait_closed().
Closed(t) ==
    /\ pc[t] = "closing"
    /\ CloseWriterNowait
    /\ lines' = <<>>
    /\ Goto(t, "idle")
    /\ UNCHANGED <<readTask, closed, lockVars, loopVars, gatewayVars, inbuf,
                   commandVars, tries, join, resultVars>>

-----------------------------------------------------------------------------
(* Read loops.  Each awaits the reader that self._reader named when it last   *)
(* asked for data, whichever connection it was started for.                   *)

\* The "finally" of the loop.
LoopEnds(c, how) ==
    /\ loop' = [loop EXCEPT ![c] = how]
    /\ \/ closed /\ UNCHANGED <<writer, reader, link>>
       \/ ~closed /\ CloseWriterNowait

\* A reader refuses a second coroutine that waits for its data.
ReaderTaken(c) ==
    \E d \in Conns \ {c} : loop[d] \in {"reading", "cancelled"} /\ source[d] = reader

\* The head of "while not self._closed.is_set()".
NextRead(c) ==
    \/ closed /\ LoopEnds(c, "done") /\ UNCHANGED source
    \/ ~closed /\ (reader = None \/ ReaderTaken(c)) /\ LoopEnds(c, "failed") /\ UNCHANGED source
    \/ /\ ~closed /\ reader # None /\ ~ReaderTaken(c)
       /\ source' = [source EXCEPT ![c] = reader]
       /\ loop' = [loop EXCEPT ![c] = "reading"]
       /\ UNCHANGED <<writer, reader, link>>

loopUnchanged == <<readTask, closed, owner, waiters, pending, fires, pc, op, n, tries,
                   join, outcome, reply, troubled>>

LoopStarts(c) ==
    /\ loop[c] = "new"
    /\ \/ /\ reader = None                 \* the assertion before the "try"
          /\ loop' = [loop EXCEPT ![c] = "failed"]
          /\ UNCHANGED <<writer, reader, link, source>>
       \/ reader # None /\ NextRead(c)
    /\ UNCHANGED <<loopUnchanged, lines, inbuf>>

\* A chunk: every complete line goes on the queue, then the loop reads again.
LoopReads(c) ==
    /\ loop[c] = "reading"
    /\ inbuf[source[c]] # <<>>
    /\ lines' = lines \o inbuf[source[c]]
    /\ inbuf' = [inbuf EXCEPT ![source[c]] = <<>>]
    /\ NextRead(c)
    /\ UNCHANGED loopUnchanged

LoopEof(c) ==
    /\ loop[c] = "reading"
    /\ inbuf[source[c]] = <<>>
    /\ link[source[c]] \in {"eof", "shut"}
    /\ LoopEnds(c, "done")
    /\ UNCHANGED <<loopUnchanged, source, lines, inbuf>>

\* A loop cancelled before its first step never enters the "try".
LoopCancelled(c) ==
    /\ loop[c] = "cancelled"
    /\ \/ source[c] # None /\ LoopEnds(c, "done")
       \/ /\ source[c] = None
          /\ loop' = [loop EXCEPT ![c] = "done"]
          /\ UNCHANGED <<writer, reader, link>>
    /\ UNCHANGED <<loopUnchanged, source, lines, inbuf>>

-----------------------------------------------------------------------------
(* The gateway and the network.                                             *)

Replies(r) == IF r.op = "sendir" THEN {"complete", "busy", "unknown", "err"}
                                 ELSE {"answer", "unknown", "err"}

\* The gateway takes its next request, carries it out or refuses it, and says
\* so; on a connection shut meanwhile nobody hears it.
GatewayAnswers(c) ==
    /\ link[c] \in {"open", "shut"}
    /\ pending[c] # <<>>
    /\ LET r == Head(pending[c]) IN
       \E kind \in Replies(r) \cap GatewayLines :
        /\ \/ kind \in {"complete", "answer"} /\ fires' = [fires EXCEPT ![r.by][r.n] = @ + 1]
           \/ kind \notin {"complete", "answer"} /\ UNCHANGED fires
        /\ \/ /\ link[c] = "open"
              /\ inbuf' = [inbuf EXCEPT ![c] = Append(@, [kind |-> kind, by |-> r.by, n |-> r.n])]
           \/ link[c] = "shut" /\ UNCHANGED inbuf
    /\ pending' = [pending EXCEPT ![c] = Tail(@)]
    /\ UNCHANGED <<clientVars, lines, lockVars, loopVars, link, pc, commandVars, tries,
                   join, resultVars>>

\* A line nobody asked for: an input sensor, the learner, a received code.
GatewayEvent(c) ==
    /\ "event" \in GatewayLines
    /\ link[c] = "open"
    /\ inbuf[c] = <<>> /\ Len(lines) < MaxEvents
    /\ inbuf' = [inbuf EXCEPT ![c] = <<NoLine>>]
    /\ UNCHANGED <<clientVars, lines, lockVars, loopVars, link, gatewayVars, pc,
                   commandVars, tries, join, resultVars>>

\* The gateway or the network ends the connection; its unread requests are lost.
GatewayCloses(c) ==
    /\ link[c] = "open"
    /\ link' = [link EXCEPT ![c] = "eof"]
    /\ pending' = [pending EXCEPT ![c] = <<>>]
    /\ UNCHANGED <<clientVars, lines, lockVars, loopVars, fires, inbuf, pc,
                   commandVars, tries, join, resultVars>>

-----------------------------------------------------------------------------
\* What the event loop runs next of a caller, apart from its timers.
CallerStep(t) ==
    \/ UseConnection(t) \/ Reconnect(t) \/ Rejoined(t)
    \/ Opened(t) \/ OpenFailed(t)
    \/ Granted(t) \/ Payload(t) \/ PayloadEnds(t)
    \/ TakeReply(t) \/ TakeRefusal(t) \/ TakeBusy(t) \/ TakeOther(t)
    \/ Resend(t) \/ GiveUp(t) \/ DrainFails(t)
    \/ Disconnect(t) \/ Stopped(t) \/ Closed(t)

LoopStep(c) == LoopStarts(c) \/ LoopReads(c) \/ LoopEof(c) \/ LoopCancelled(c)

Gateway(c) == GatewayAnswers(c) \/ GatewayEvent(c) \/ GatewayCloses(c)

Next ==
    \/ \E t \in Callers :
        \/ \E o \in Operations : Submit(t, o)
        \/ CallerStep(t)
        \/ Timeout(t)
    \/ \E c \in Conns : LoopStep(c) \/ Gateway(c)

Spec == Init /\ [][Next]_vars

\* The event loop runs every ready coroutine and every timer; nothing is assumed
\* of the gateway, of the network, or of who submits commands.
Fairness ==
    /\ \A t \in Callers : WF_vars(CallerStep(t)) /\ WF_vars(Timeout(t))
    /\ \A c \in Conns : WF_vars(LoopStep(c))

FairSpec == Spec /\ Fairness

-----------------------------------------------------------------------------
(* Properties. *)

\* The lock serializes the exchanges: only the holder is between its write and
\* the end of its wait, and the lock is never held by a caller that has left.
LockDiscipline ==
    /\ \A t \in Callers : pc[t] \in Holding <=> owner = t
    /\ \A t \in Callers : pc[t] = "queued" <=> \E i \in 1 .. Len(waiters) : waiters[i] = t
    /\ owner = NoCaller => waiters = <<>>

\* A sendir that returns its lines was carried out by the gateway: a completeir
\* left over by another command, or by an earlier life of the connection, is
\* never taken for its own (client.py:404, the reset in client.py:462).
SendirCarriedOut ==
    \A t \in Callers :
        op[t] = "sendir" /\ outcome[t] = "ok" => fires[t][n[t]] >= 1

\* No sendir is carried out twice: a frame is only written again when the
\* gateway refused the one before (client.py:449).
SendirFiresOnce ==
    \A t \in Callers : op[t] = "sendir" /\ n[t] > 0 => fires[t][n[t]] <= 1

\* While every command has ended well or is still running, no command is given
\* the reply to another one: the stream of lines and the stream of commands only
\* get out of step after a failure.
InStepUntilTrouble ==
    ~troubled =>
        \A t \in Callers : reply[t] # NoLine => reply[t].by = t /\ reply[t].n = n[t]

OpenConns == {c \in Conns : link[c] \in {"open", "eof"}}
LiveLoops == {c \in Conns : Alive(c)}

\* The client never has two connections to the gateway, counting the ones it is
\* opening, nor two read loops (a GC-100 accepts a single client).
Opening == {t \in Callers : pc[t] = "opening"}
SoleConnection ==
    /\ Cardinality(OpenConns) + Cardinality(Opening) <= 1
    /\ Cardinality(LiveLoops) <= 1

\* The session commands are written on has a read loop that reads it, unless a
\* disconnect() is under way: nobody waits on a connection nobody listens to.
SessionIsRead ==
    IsConnected /\ (\A t \in Callers : pc[t] \notin {"stopping", "closing"}) =>
        \E c \in Conns : \/ loop[c] = "new"
                         \/ loop[c] = "reading" /\ source[c] = writer

\* After a disconnect, or a sendir that gave up, nothing is left of the session:
\* no connection, no read loop, no line that a later command could take.
ResetLeavesNothing ==
    \A t \in Callers :
        /\ pc[t] = "idle"
        /\ \/ op[t] = "disconnect" /\ outcome[t] = "ok"
           \/ op[t] = "sendir" /\ outcome[t] \in {"aborted", "oserror"}
        => OpenConns = {} /\ LiveLoops = {} /\ lines = <<>> /\ writer = None

\* No command ends with an exception that the callers of the client do not
\* expect: they catch TimeoutError, OSError and ItachError.
NoUnexpectedError == \A t \in Callers : outcome[t] # "crash"

\* The reply a query returns is the gateway's reply to that query: a relay's
\* state is the state the relay answered with (get_relay_state, set_relay_state).
QueryAnswered ==
    \A t \in Callers :
        op[t] = "query" /\ outcome[t] = "ok" => reply[t].by = t /\ reply[t].n = n[t]

\* No read task of the current session has failed: a command that awaits it
\* raises its exception, and so does every command after it.
ReadTaskUsable == ~ReadTaskFailed

\* Every command ends: the deadline, the retries and the resends are bounded and
\* the lock is handed over in order.
EveryCommandEnds == \A t \in Callers : pc[t] = "start" ~> pc[t] = "idle"

\* The client as the abstract channel sees it: the holder of the lock and its
\* waiters stand in one line.
Phase(p) == CASE p = "idle" -> "idle"
              [] p \in {"start", "rejoining", "opening"} -> "preparing"
              [] p \in Holding \cup {"queued"} -> "admitted"
              [] p \in {"stopping", "closing"} -> "ending"

Channel == INSTANCE SerialExchange WITH
    phase   <- [t \in Callers |-> Phase(pc[t])],
    line    <- IF owner = NoCaller THEN <<>> ELSE <<owner>> \o waiters,
    command <- [t \in Callers |-> [op |-> op[t], n |-> n[t]]],
    result  <- outcome,
    carried <- {x \in Callers \X (1 .. MaxCommands) : fires[x[1]][x[2]] > 0}

\* The client implements the serialized channel: callers are served one at a
\* time in the order they got past connect(), and "ok" means carried out.
ImplementsSerialExchange == Channel!Spec
=============================================================================
