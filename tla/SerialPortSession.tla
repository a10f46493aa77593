------------------------- MODULE SerialPortSession -------------------------
(***************************************************************************)
(* The persistent listener on a serial data port (serial_session.py): a    *)
(* read loop that reconnects, and sends that share its connection and may  *)
(* wait for the next text the loop receives.                               *)
(*                                                                         *)
(* A step is the code between two awaits.  The attached device and the     *)
(* network are the environment.  The settings sent over the control port   *)
(* before a connection is opened are part of the attempt to connect: what  *)
(* ItachClient promises of them is only how they may fail.                 *)
(***************************************************************************)
EXTENDS Naturals, Sequences

CONSTANTS
    Senders,      \* tasks that send: services, text entities, preset buttons
    NoSender,     \* nobody holds the lock
    MaxConns,     \* bound on the connections ever opened
    MaxSends,     \* bound on the sends of one task
    MaxData       \* bound on the pieces of data the device sends

ASSUME SendersAssumption == NoSender \notin Senders
ASSUME LimitsAssumption  ==
    MaxConns \in Nat \ {0} /\ MaxSends \in Nat \ {0} /\ MaxData \in Nat \ {0}

Conns == 1 .. MaxConns
None  == 0
Text  == Seq(1 .. MaxData)      \* the pieces of data one read returned

VARIABLES
    reader, writer,    \* _reader, _writer: a connection or None
    connected,         \* _connected
    closed,            \* the event _closed
    expecting,         \* the event _expecting_response
    rx,                \* _rx_queue
    last,              \* last_received: the last piece of it
    loop,              \* where _read_loop is suspended
    source,            \* the connection whose reader it awaits
    cancelled,         \* the read loop's task has a cancellation to deliver
    control,           \* where the coordinator's start() or stop() is
    owner, waiters,    \* _write_lock
    pc, n, wait,       \* each sender: where it is, its sends, wait_response
    result, reply,     \* how its last send ended, and the text it returned
    link,              \* each connection: unused, open, eof or shut
    inbuf,             \* data that arrived and was not read
    sent,              \* pieces of data the device has sent
    reported,          \* on_data() calls: the text, and whether a response
    since,             \* history: last_received when a sender wrote
    clean              \* history: no send failed or met a stop, and the loop did not crash

clientVars == <<reader, writer, connected>>
lockVars   == <<owner, waiters>>
dataVars   == <<link, inbuf, sent, last>>
loopVars   == <<loop, source, cancelled>>
sendVars   == <<pc, n, wait, result, reply, since>>
vars == <<reader, writer, connected, closed, expecting, rx, last, loop, source, cancelled, control,
          owner, waiters, pc, n, wait, result, reply, link, inbuf, sent, reported, since, clean>>

\* "new": the task was created and has not run.  "leaving": in its "finally".
LoopStates == {"none", "new", "connecting", "pausing", "reading",
               "ending", "leaving", "done", "failed"}
Running == LoopStates \ {"none", "done", "failed"}

ConnTypes ==
    /\ reader \in Conns \cup {None} /\ writer \in Conns \cup {None}
    /\ connected \in BOOLEAN /\ closed \in BOOLEAN
    /\ link \in [Conns -> {"unused", "open", "eof", "shut"}]

LoopTypes ==
    /\ loop \in LoopStates /\ source \in Conns \cup {None} /\ cancelled \in BOOLEAN
    /\ control \in {"new", "starting", "started", "refused", "stopping", "closing",
                    "stopped"}

LockTypes ==
    /\ owner \in Senders \cup {NoSender} /\ waiters \in Seq(Senders)
    /\ pc \in [Senders -> {"idle", "connecting", "queued", "granted", "waiting"}]

SendTypes ==
    /\ n \in [Senders -> 0 .. MaxSends] /\ wait \in [Senders -> BOOLEAN]
    /\ result \in [Senders -> {"none", "ok", "silence", "oserror", "crash"}]
    /\ expecting \in BOOLEAN /\ clean \in BOOLEAN

DataTypes ==
    /\ rx \in Seq(Text) /\ last \in 0 .. MaxData /\ sent \in 0 .. MaxData
    /\ inbuf \in [Conns -> Text]
    /\ reply \in [Senders -> Text]
    /\ reported \in Seq([text : Text, response : BOOLEAN])
    /\ since \in [Senders -> 0 .. MaxData]

TypeOK == ConnTypes /\ LoopTypes /\ LockTypes /\ SendTypes /\ DataTypes

Init ==
    /\ reader = None /\ writer = None
    /\ connected = FALSE /\ closed = FALSE /\ expecting = FALSE
    /\ rx = <<>> /\ last = 0
    /\ loop = "none" /\ source = None /\ cancelled = FALSE
    /\ control = "new"
    /\ owner = NoSender /\ waiters = <<>>
    /\ pc = [s \in Senders |-> "idle"] /\ n = [s \in Senders |-> 0]
    /\ wait = [s \in Senders |-> FALSE]
    /\ result = [s \in Senders |-> "none"] /\ reply = [s \in Senders |-> <<>>]
    /\ link = [c \in Conns |-> "unused"] /\ inbuf = [c \in Conns |-> <<>>]
    /\ sent = 0
    /\ reported = <<>>
    /\ since = [s \in Senders |-> 0]
    /\ clean = TRUE

-----------------------------------------------------------------------------
(* Connecting and closing, whoever does it.                                 *)

\* The connections once nothing refers to the writer: close(), or the finalizer
\* of a StreamWriter that another one replaced.
Shut == IF writer = None THEN link ELSE [link EXCEPT ![writer] = "shut"]

\* _connect() succeeded.
Install ==
    \E c \in Conns :
        /\ link[c] = "unused" /\ \A d \in Conns : d < c => link[d] # "unused"
        /\ link' = [Shut EXCEPT ![c] = "open"]
        /\ reader' = c /\ writer' = c /\ connected' = TRUE

\* _close() up to its await, which it only reaches with a writer.
Close ==
    /\ connected' = FALSE /\ reader' = None /\ writer' = None
    /\ link' = Shut

-----------------------------------------------------------------------------
(* The coordinator starts and stops the session.                            *)

Start ==
    /\ control = "new"
    /\ control' = "starting"
    /\ closed' = FALSE
    /\ UNCHANGED <<clientVars, expecting, rx, loopVars, lockVars, sendVars, dataVars,
                   reported, clean>>

\* The read loop is only created once the first attempt to connect succeeded.
Started ==
    /\ control = "starting"
    /\ \/ Install /\ control' = "started" /\ loop' = "new"
       \/ control' = "refused" /\ UNCHANGED <<clientVars, link, loop>>
    /\ UNCHANGED <<closed, expecting, rx, source, cancelled, lockVars, sendVars, inbuf, sent, last,
                   reported, clean>>

\* stop() cancels the read loop, or goes on to close when it never ran.
Stop ==
    /\ control \in {"started", "refused"}
    /\ closed' = TRUE
    /\ control' = IF loop = "none" THEN "closing" ELSE "stopping"
    /\ cancelled' = (loop \in Running)
    /\ clean' = (clean /\ \A s \in Senders : pc[s] = "idle")
    /\ UNCHANGED <<clientVars, expecting, rx, loop, source, lockVars, sendVars, dataVars, reported>>

StopsUnjoined == control = "stopping"                    \* mutant: no await
LoopJoined    == control = "stopping" /\ loop \in {"done", "failed"}

\* The cancelled loop has ended; its exception, if it had one, ends stop().
Stopping ==
    /\ LoopJoined
    /\ control' = IF loop = "failed" THEN "stopped" ELSE "closing"
    /\ UNCHANGED <<clientVars, closed, expecting, rx, loopVars, lockVars, sendVars, dataVars,
                   reported, clean>>

Stopped ==
    /\ control = "closing"
    /\ control' = "stopped"
    /\ Close
    /\ UNCHANGED <<closed, expecting, rx, loopVars, lockVars, sendVars, inbuf, sent, last, reported,
                   clean>>

-----------------------------------------------------------------------------
(* The read loop.                                                           *)

loopUnchanged == <<closed, cancelled, control, lockVars, sendVars, inbuf, sent, last>>

\* The head of the loop, up to the next await.  The _close() before an attempt to
\* connect finds no writer: whoever clears _connected clears _writer with it.
LoopHead ==
    \/ /\ closed
       /\ loop' = "leaving" /\ Close
       /\ UNCHANGED source
    \/ /\ ~closed /\ connected
       /\ loop' = "reading" /\ source' = reader
       /\ UNCHANGED <<clientVars, link>>
    \/ /\ ~closed /\ ~connected
       /\ loop' = "connecting"
       /\ Close
       /\ UNCHANGED source

LoopStarts ==
    /\ loop = "new" /\ ~cancelled
    /\ LoopHead
    /\ UNCHANGED <<loopUnchanged, clean, expecting, rx, reported>>

\* An attempt succeeds, fails as expected, or fails as nothing in the loop expects
\* (with nothing to close in "finally", unless a send connected meanwhile).
LoopConnects ==
    /\ loop = "connecting" /\ ~cancelled
    /\ \/ Install /\ loop' = "reading" /\ source' = reader' /\ UNCHANGED clean
       \/ loop' = "pausing" /\ UNCHANGED <<clientVars, link, source, clean>>
       \/ loop' = "failed" /\ Close /\ clean' = FALSE /\ UNCHANGED source
    /\ UNCHANGED <<loopUnchanged, expecting, rx, reported>>

LoopWakes ==
    /\ loop = "pausing" /\ ~cancelled
    /\ LoopHead
    /\ UNCHANGED <<loopUnchanged, clean, expecting, rx, reported>>

LoopReportsAll ==                                        \* mutant: no "else"
    /\ loop = "reading" /\ ~cancelled
    /\ inbuf[source] # <<>>
    /\ inbuf' = [inbuf EXCEPT ![source] = <<>>]
    /\ last' = inbuf[source][Len(inbuf[source])]
    /\ rx' = IF expecting THEN Append(rx, inbuf[source]) ELSE rx
    /\ reported' = Append(reported, [text |-> inbuf[source], response |-> FALSE])
    /\ LoopHead
    /\ UNCHANGED <<closed, cancelled, control, lockVars, sendVars, sent, clean, expecting>>

\* All the data that arrived is one text: for the sender that waits, or reported.
LoopReads ==
    /\ loop = "reading" /\ ~cancelled
    /\ inbuf[source] # <<>>
    /\ inbuf' = [inbuf EXCEPT ![source] = <<>>]
    /\ last' = inbuf[source][Len(inbuf[source])]
    /\ \/ /\ expecting
          /\ rx' = Append(rx, inbuf[source])
          /\ UNCHANGED reported
       \/ /\ ~expecting
          /\ reported' = Append(reported, [text |-> inbuf[source], response |-> FALSE])
          /\ UNCHANGED rx
    /\ LoopHead
    /\ UNCHANGED <<closed, cancelled, control, lockVars, sendVars, sent, clean, expecting>>

LoopBreaks ==                                            \* mutant: break at EOF
    /\ loop = "reading" /\ ~cancelled
    /\ inbuf[source] = <<>> /\ link[source] \in {"eof", "shut"}
    /\ loop' = "leaving" /\ Close
    /\ UNCHANGED <<loopUnchanged, clean, source, expecting, rx, reported>>

\* End of file: the session's connection is closed, whichever one was read.
LoopEof ==
    /\ loop = "reading" /\ ~cancelled
    /\ inbuf[source] = <<>> /\ link[source] \in {"eof", "shut"}
    /\ loop' = "ending"
    /\ Close
    /\ UNCHANGED <<loopUnchanged, clean, source, expecting, rx, reported>>

LoopEnded ==
    /\ loop = "ending" /\ ~cancelled
    /\ loop' = "pausing"
    /\ UNCHANGED <<loopUnchanged, clean, clientVars, link, source, expecting, rx, reported>>

CancelIgnored ==                                         \* mutant: keeps reading
    /\ cancelled /\ cancelled' = FALSE
    /\ UNCHANGED <<loop, clientVars, link>>
    /\ UNCHANGED <<closed, control, lockVars, sendVars, inbuf, sent, last, clean, source,
                   expecting, rx, reported>>

\* stop() cancelled it: "finally" closes, unless the task never ran.
LoopCancelled ==
    /\ cancelled /\ cancelled' = FALSE
    /\ \/ loop = "new" /\ loop' = "done" /\ UNCHANGED <<clientVars, link>>
       \/ loop # "new" /\ loop' = "leaving" /\ Close
    /\ UNCHANGED <<closed, control, lockVars, sendVars, inbuf, sent, last, clean, source,
                   expecting, rx, reported>>

\* The control client was replacing its own read task and swallows the cancellation
\* (client.py:118): the attempt to connect goes on.
CancelSwallowed ==
    /\ cancelled /\ loop = "connecting"
    /\ cancelled' = FALSE
    /\ clean' = FALSE
    /\ UNCHANGED <<clientVars, closed, control, lockVars, sendVars, dataVars, loop, source,
                   expecting, rx, reported>>

LoopLeaves ==
    /\ loop = "leaving"
    /\ loop' = "done"
    /\ UNCHANGED <<loopUnchanged, clean, clientVars, link, source, expecting, rx, reported>>

-----------------------------------------------------------------------------
(* Sends.                                                                   *)

Leave(s) ==
    \/ /\ waiters = <<>>
       /\ owner' = NoSender
       /\ waiters' = waiters
       /\ pc' = [pc EXCEPT ![s] = "idle"]
    \/ /\ waiters # <<>>
       /\ owner' = Head(waiters)
       /\ waiters' = Tail(waiters)
       /\ pc' = [pc EXCEPT ![s] = "idle", ![Head(waiters)] = "granted"]

Ends(s, how) == result' = [result EXCEPT ![s] = how]

Queue(s) ==
    /\ owner # NoSender
    /\ waiters' = Append(waiters, s)
    /\ pc' = [pc EXCEPT ![s] = "queued"]
    /\ UNCHANGED <<owner, expecting, rx, result, since, clean>>

WroteKeepsQueue(s, w) ==                                 \* mutant: queue not drained
    /\ w
    /\ expecting' = TRUE
    /\ since' = [since EXCEPT ![s] = last]
    /\ owner' = s
    /\ pc' = [pc EXCEPT ![s] = "waiting"]
    /\ UNCHANGED <<rx, waiters, result, clean>>

\* The holder of the lock has written its payload and drained.
Wrote(s, w) ==
    \/ /\ w
       /\ rx' = <<>>
       /\ expecting' = TRUE
       /\ since' = [since EXCEPT ![s] = last]
       /\ owner' = s
       /\ pc' = [pc EXCEPT ![s] = "waiting"]
       /\ UNCHANGED <<waiters, result, clean>>
    \/ /\ ~w
       /\ expecting' = FALSE
       /\ Leave(s)
       /\ Ends(s, "ok")
       /\ UNCHANGED <<rx, since, clean>>

\* The write failed: no writer (AttributeError), or a connection that broke.
WriteFails(s, w) ==
    /\ \/ writer = None /\ Ends(s, "crash")
       \/ writer # None /\ link[writer] = "eof" /\ Ends(s, "oserror")
    /\ expecting' = w
    /\ rx' = IF w THEN <<>> ELSE rx
    /\ Leave(s)
    /\ clean' = FALSE
    /\ UNCHANGED since

Write(s, w) == (writer # None /\ Wrote(s, w)) \/ WriteFails(s, w)

sendUnchanged == <<closed, loopVars, control, inbuf, sent, last, reported>>

\* A service or an entity finds the session while its entry is loaded: from the
\* end of start() to the beginning of stop() (__init__.py:104, 183).
Send(s, w) ==
    /\ pc[s] = "idle" /\ n[s] < MaxSends
    /\ control \in {"started", "refused"}
    /\ n' = [n EXCEPT ![s] = @ + 1]
    /\ wait' = [wait EXCEPT ![s] = w]
    /\ reply' = [reply EXCEPT ![s] = <<>>]
    /\ \/ /\ ~connected
          /\ pc' = [pc EXCEPT ![s] = "connecting"]
          /\ UNCHANGED <<owner, waiters, expecting, rx, result, since, clean>>
       \/ connected /\ owner = NoSender /\ Write(s, w)
       \/ connected /\ Queue(s)
    /\ UNCHANGED <<sendUnchanged, clientVars, link>>

\* The send connected by itself, whether the loop is connecting too or is gone.
SendConnects(s) ==
    /\ pc[s] = "connecting"
    /\ \/ Install /\ owner = NoSender /\ Wrote(s, wait[s])
       \/ Install /\ Queue(s)
       \/ /\ pc' = [pc EXCEPT ![s] = "idle"]
          /\ Ends(s, "oserror")
          /\ clean' = FALSE
          /\ UNCHANGED <<clientVars, link, owner, waiters, expecting, rx, since>>
    /\ UNCHANGED <<sendUnchanged, n, wait, reply>>

Granted(s) ==
    /\ pc[s] = "granted"
    /\ Write(s, wait[s])
    /\ UNCHANGED <<sendUnchanged, clientVars, link, n, wait, reply>>

\* The first text the loop queued since it wrote is the response.
TakeReply(s) ==
    /\ pc[s] = "waiting" /\ rx # <<>>
    /\ rx' = Tail(rx)
    /\ expecting' = FALSE
    /\ reported' = Append(reported, [text |-> Head(rx), response |-> TRUE])
    /\ reply' = [reply EXCEPT ![s] = Head(rx)]
    /\ Ends(s, "ok")
    /\ Leave(s)
    /\ UNCHANGED <<clientVars, closed, loopVars, control, link, inbuf, sent, last, n, wait,
                   since, clean>>

TimeoutKeepsFlag(s) ==                                   \* mutant: flag not cleared
    /\ pc[s] = "waiting"
    /\ Ends(s, "silence")
    /\ Leave(s)
    /\ UNCHANGED <<sendUnchanged, expecting, clientVars, link, rx, n, wait, reply, since, clean>>

TimeoutEscapes(s) ==                                     \* mutant: TimeoutError not caught
    /\ pc[s] = "waiting"
    /\ expecting' = FALSE
    /\ Ends(s, "timeout")
    /\ Leave(s)
    /\ UNCHANGED <<sendUnchanged, clientVars, link, rx, n, wait, reply, since, clean>>

TimeoutKeepsLock(s) ==                                   \* mutant: lock not released
    /\ pc[s] = "waiting"
    /\ expecting' = FALSE
    /\ Ends(s, "silence")
    /\ pc' = [pc EXCEPT ![s] = "idle"]
    /\ UNCHANGED <<sendUnchanged, lockVars, clientVars, link, rx, n, wait, reply, since, clean>>

Timeout(s) ==
    /\ pc[s] = "waiting"
    /\ expecting' = FALSE
    /\ Ends(s, "silence")
    /\ Leave(s)
    /\ UNCHANGED <<sendUnchanged, clientVars, link, rx, n, wait, reply, since, clean>>

-----------------------------------------------------------------------------
(* The device behind the port, and the network.                             *)

DeviceSends(c) ==
    /\ link[c] = "open" /\ sent < MaxData
    /\ sent' = sent + 1
    /\ inbuf' = [inbuf EXCEPT ![c] = Append(@, sent + 1)]
    /\ UNCHANGED <<clientVars, closed, expecting, rx, last, loopVars, control, lockVars,
                   sendVars, link, reported, clean>>

PeerCloses(c) ==
    /\ link[c] = "open"
    /\ link' = [link EXCEPT ![c] = "eof"]
    /\ UNCHANGED <<clientVars, closed, expecting, rx, loopVars, control, lockVars,
                   sendVars, inbuf, sent, last, reported, clean>>

-----------------------------------------------------------------------------
LoopStep ==
    \/ LoopStarts \/ LoopConnects \/ LoopWakes \/ LoopReads
    \/ LoopEof \/ LoopEnded \/ LoopCancelled \/ CancelSwallowed \/ LoopLeaves

SenderStep(s) == SendConnects(s) \/ Granted(s) \/ TakeReply(s) \/ Timeout(s)

Next ==
    \/ Start \/ Started \/ Stop \/ Stopping \/ Stopped
    \/ LoopStep
    \/ \E s \in Senders : SenderStep(s) \/ \E w \in BOOLEAN : Send(s, w)
    \/ \E c \in Conns : DeviceSends(c) \/ PeerCloses(c)

Spec == Init /\ [][Next]_vars

\* The event loop runs every ready coroutine and every timer.  Nothing is assumed
\* of the device, of the network, of who sends or of when the session is stopped.
Fairness ==
    /\ WF_vars(LoopStep) /\ WF_vars(Stopping \/ Stopped)
    /\ \A s \in Senders : WF_vars(SenderStep(s))

FairSpec == Spec /\ Fairness

-----------------------------------------------------------------------------
(* Properties.                                                              *)

\* Every piece of data is reported at most once and in the order it was read,
\* whether a sender or the read loop reports it (serial_session.py:138, 188).
ReportedInOrder ==
    \A i, j \in 1 .. Len(reported) : i < j =>
        \A a \in 1 .. Len(reported[i].text), b \in 1 .. Len(reported[j].text) :
            reported[i].text[a] < reported[j].text[b]

\* The response a send returns was received after it wrote: text that an earlier
\* send did not wait for is never its response (serial_session.py:167).
ReplyIsNew == \A s \in Senders : reply[s] # <<>> => reply[s][1] > since[s]

\* The read loop only holds text back while a send waits for it: what arrives at
\* any other time is reported (serial_session.py:135).
HoldsBackOnlyForASend == expecting => \E s \in Senders : pc[s] = "waiting"

\* The same as long as no send has failed or met a stop.
HoldsBackOnlyForASendUntilTrouble == clean => HoldsBackOnlyForASend

\* After stop() the port is free: no connection is left open and no read loop
\* runs, unless a send was under way when the session was stopped.
StopFreesThePort ==
    control = "stopped" /\ clean =>
        loop \notin Running /\ \A c \in Conns : link[c] \in {"unused", "shut"}

\* Every send ends: it waits a bounded time, and the lock is handed over.
EverySendEnds == \A s \in Senders : pc[s] # "idle" ~> pc[s] = "idle"

\* stop() ends: the cancelled read loop is joined and the connection closed, unless
\* the control client swallowed the cancellation (serial_session.py:70, client.py:118).
StopEnds == control = "stopping" /\ clean ~> control = "stopped" \/ ~clean

\* A read loop whose connection ended tries to open one again, or reads the one a
\* send opened meanwhile, unless the session is stopped or the loop died of an
\* exception it does not expect (serial_session.py:109, 125).
Reading == loop = "reading" /\ link[source] = "open"
Recovers ==
    loop = "reading" /\ ~Reading ~> loop \in {"connecting", "failed"} \/ Reading \/ closed
=============================================================================
