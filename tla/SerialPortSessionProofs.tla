---------------------- MODULE SerialPortSessionProofs ----------------------
(***************************************************************************)
(* What TLAPS proves of SerialPortSession, for any senders and any bounds. *)
(***************************************************************************)
EXTENDS SerialPortSession, SequenceTheorems, TLAPS

-----------------------------------------------------------------------------
(* The connection and the read loop.                                        *)

\* A session that is connected has a reader, and the loop reads one it was given.
ReaderOK ==
    /\ connected => reader # None
    /\ loop = "reading" => source # None

SessionInv == ConnTypes /\ LoopTypes /\ ReaderOK

LEMMA InstallTyped ==
  ASSUME ConnTypes, Install
  PROVE  /\ reader' \in Conns \cup {None} /\ writer' \in Conns \cup {None}
         /\ connected' \in BOOLEAN /\ reader' # None
         /\ link' \in [Conns -> {"unused", "open", "eof", "shut"}]
BY DEF ConnTypes, Install, Shut, Conns, None

LEMMA CloseTyped ==
  ASSUME ConnTypes, Close
  PROVE  /\ reader' = None /\ writer' = None /\ connected' = FALSE
         /\ link' \in [Conns -> {"unused", "open", "eof", "shut"}]
BY DEF ConnTypes, Close, Shut

LEMMA HeadTyped ==
  ASSUME SessionInv, LoopHead, UNCHANGED <<closed, control>>, cancelled' \in BOOLEAN
  PROVE  SessionInv'
<1> USE DEF SessionInv, LoopTypes, ReaderOK, LoopStates
<1>1. CASE closed /\ loop' = "leaving" /\ Close /\ UNCHANGED source
  BY <1>1, CloseTyped DEF ConnTypes
<1>2. CASE ~closed /\ connected /\ loop' = "reading" /\ source' = reader
           /\ UNCHANGED <<clientVars, link>>
  BY <1>2 DEF ConnTypes, clientVars
<1>3. CASE ~closed /\ ~connected /\ loop' = "connecting" /\ Close /\ UNCHANGED source
  BY <1>3, CloseTyped DEF ConnTypes
<1>4. QED BY <1>1, <1>2, <1>3 DEF LoopHead

\* A sender installs a connection or leaves the connection and the loop alone.
LEMMA SenderInstalls ==
  ASSUME NEW s \in Senders, NEW w, SenderStep(s) \/ Send(s, w)
  PROVE  /\ UNCHANGED <<closed, loopVars, control>>
         /\ Install \/ UNCHANGED <<clientVars, link>>
BY DEF SenderStep, Send, SendConnects, Granted, TakeReply, Timeout, sendUnchanged, loopVars

LEMMA SessionStep == SessionInv /\ [Next]_vars => SessionInv'
<1> SUFFICES ASSUME SessionInv, [Next]_vars PROVE SessionInv'
    OBVIOUS
<1> USE DEF clientVars, loopVars, dataVars, loopUnchanged, LoopStates
<1>1. CASE UNCHANGED vars
  BY <1>1 DEF vars, SessionInv, ConnTypes, LoopTypes, ReaderOK
<1>2. CASE Start
  BY <1>2 DEF Start, SessionInv, ConnTypes, LoopTypes, ReaderOK
<1>3. CASE Started
  <2>1. /\ \/ Install /\ control' = "started" /\ loop' = "new"
           \/ control' = "refused" /\ UNCHANGED <<reader, writer, connected, link, loop>>
        /\ UNCHANGED <<closed, source, cancelled>>
    BY <1>3 DEF Started
  <2>2. CASE Install /\ control' = "started" /\ loop' = "new"
    BY <2>1, <2>2, InstallTyped DEF SessionInv, ConnTypes, LoopTypes, ReaderOK
  <2>3. CASE control' = "refused" /\ UNCHANGED <<reader, writer, connected, link, loop>>
    BY <2>1, <2>3 DEF SessionInv, ConnTypes, LoopTypes, ReaderOK
  <2>4. QED BY <2>1, <2>2, <2>3
<1>4. CASE Stop
  BY <1>4 DEF Stop, SessionInv, ConnTypes, LoopTypes, ReaderOK
<1>5. CASE Stopping
  BY <1>5 DEF Stopping, SessionInv, ConnTypes, LoopTypes, ReaderOK
<1>6. CASE Stopped
  BY <1>6, CloseTyped DEF Stopped, SessionInv, ConnTypes, LoopTypes, ReaderOK
<1>7. CASE LoopStep
  <2>1. CASE LoopStarts
    BY <2>1, HeadTyped DEF LoopStarts, SessionInv, LoopTypes
  <2>2. CASE LoopConnects
    <3>1. ConnTypes /\ UNCHANGED <<closed, cancelled, control>>
      BY <2>2 DEF LoopConnects, SessionInv
    <3>2. CASE Install /\ loop' = "reading" /\ source' = reader'
      BY <3>1, <3>2, InstallTyped DEF SessionInv, ConnTypes, LoopTypes, ReaderOK
    <3>3. CASE loop' = "pausing" /\ UNCHANGED <<reader, writer, connected, link, source>>
      BY <3>1, <3>3 DEF SessionInv, ConnTypes, LoopTypes, ReaderOK
    <3>4. CASE loop' = "failed" /\ Close /\ UNCHANGED source
      BY <3>1, <3>4, CloseTyped DEF SessionInv, ConnTypes, LoopTypes, ReaderOK
    <3>5. QED BY <2>2, <3>2, <3>3, <3>4 DEF LoopConnects
  <2>3. CASE LoopWakes
    BY <2>3, HeadTyped DEF LoopWakes, SessionInv, LoopTypes
  <2>4. CASE LoopReads
    <3>1. LoopHead /\ UNCHANGED <<closed, cancelled, control>>
      BY <2>4 DEF LoopReads
    <3>2. QED BY <3>1, HeadTyped DEF SessionInv, LoopTypes
  <2>5. CASE LoopEof
    BY <2>5, CloseTyped DEF LoopEof, SessionInv, ConnTypes, LoopTypes, ReaderOK
  <2>6. CASE LoopEnded
    BY <2>6 DEF LoopEnded, SessionInv, ConnTypes, LoopTypes, ReaderOK
  <2>7. CASE LoopCancelled
    <3>1. ConnTypes /\ cancelled' \in BOOLEAN /\ UNCHANGED <<closed, control, source>>
      BY <2>7 DEF LoopCancelled, SessionInv
    <3>2. CASE loop' = "done" /\ UNCHANGED <<reader, writer, connected, link>>
      BY <3>1, <3>2 DEF SessionInv, ConnTypes, LoopTypes, ReaderOK
    <3>3. CASE loop' = "leaving" /\ Close
      BY <3>1, <3>3, CloseTyped DEF SessionInv, ConnTypes, LoopTypes, ReaderOK
    <3>4. QED BY <2>7, <3>2, <3>3 DEF LoopCancelled
  <2>8. CASE CancelSwallowed
    BY <2>8 DEF CancelSwallowed, SessionInv, ConnTypes, LoopTypes, ReaderOK
  <2>9. CASE LoopLeaves
    BY <2>9 DEF LoopLeaves, SessionInv, ConnTypes, LoopTypes, ReaderOK
  <2>10. QED BY <1>7, <2>1, <2>2, <2>3, <2>4, <2>5, <2>6, <2>7, <2>8, <2>9 DEF LoopStep
<1>8. ASSUME NEW s \in Senders, NEW w \in BOOLEAN, SenderStep(s) \/ Send(s, w)
      PROVE  SessionInv'
  BY <1>8, SenderInstalls, InstallTyped DEF SessionInv, ConnTypes, LoopTypes, ReaderOK
<1>9. ASSUME NEW c \in Conns, DeviceSends(c) \/ PeerCloses(c)
      PROVE  SessionInv'
  BY <1>9 DEF DeviceSends, PeerCloses, SessionInv, ConnTypes, LoopTypes, ReaderOK
<1>10. QED
  BY <1>1, <1>2, <1>3, <1>4, <1>5, <1>6, <1>7, <1>8, <1>9 DEF Next

-----------------------------------------------------------------------------
(* The lock: as in the client, the waiters are distinct and queued.         *)

LockOK ==
    /\ \A s \in Senders : pc[s] \in {"granted", "waiting"} <=> owner = s
    /\ \A i \in 1 .. Len(waiters) : pc[waiters[i]] = "queued"
    /\ \A i, j \in 1 .. Len(waiters) : waiters[i] = waiters[j] => i = j
    /\ owner = NoSender => waiters = <<>>

LockInv == LockTypes /\ LockOK

LEMMA LeaveKeepsLock ==
  ASSUME LockInv, NEW s \in Senders, Leave(s),
         owner = s \/ (owner = NoSender /\ pc[s] # "queued")
  PROVE  LockInv'
<1> USE SendersAssumption DEF LockInv, LockOK, SendersAssumption
<1>1. CASE waiters = <<>>
  BY <1>1 DEF Leave, LockTypes
<1>2. CASE waiters # <<>>
  <2> DEFINE h == Head(waiters)
  <2>1. owner' = h /\ waiters' = Tail(waiters) /\ pc' = [pc EXCEPT ![s] = "idle", ![h] = "granted"]
    BY <1>2 DEF Leave
  <2>2. h \in Senders /\ h = waiters[1] /\ Len(waiters) \in Nat \ {0}
    BY <1>2 DEF LockTypes
  <2>3. pc[h] = "queued" /\ h # s /\ owner = s
    BY <1>2, <2>2
  <2>4. LockTypes'
    BY <1>2, <2>1, <2>2 DEF LockTypes
  <2>5. \A i \in 1 .. Len(waiters') :
            waiters'[i] = waiters[i + 1] /\ i + 1 \in 2 .. Len(waiters) /\ waiters'[i] \in Senders
    BY <1>2, <2>1, <2>2 DEF LockTypes
  <2>6. \A r \in Senders : pc'[r] \in {"granted", "waiting"} <=> owner' = r
    BY <2>1, <2>2, <2>3 DEF LockTypes
  <2>7. \A i \in 1 .. Len(waiters') : pc'[waiters'[i]] = "queued"
    <3> SUFFICES ASSUME NEW i \in 1 .. Len(waiters') PROVE pc'[waiters'[i]] = "queued"
        OBVIOUS
    <3>1. waiters'[i] # h /\ pc[waiters'[i]] = "queued"
      BY <2>2, <2>5
    <3>2. waiters'[i] # s
      BY <2>3, <3>1
    <3>3. QED BY <2>1, <2>5, <3>1, <3>2 DEF LockTypes
  <2>8. \A i, j \in 1 .. Len(waiters') : waiters'[i] = waiters'[j] => i = j
    BY <2>2, <2>5
  <2>9. owner' # NoSender
    BY <2>1, <2>2
  <2>10. QED BY <2>4, <2>6, <2>7, <2>8, <2>9
<1>3. QED BY <1>1, <1>2

LEMMA QueueKeepsLock ==
  ASSUME LockInv, NEW s \in Senders, pc[s] \in {"idle", "connecting"}, Queue(s)
  PROVE  LockInv'
<1> USE DEF LockInv, LockTypes, LockOK, Queue
<1>1. LockTypes'
  OBVIOUS
<1>2. \A r \in Senders : pc'[r] \in {"granted", "waiting"} <=> owner' = r
  BY SendersAssumption DEF SendersAssumption
<1>3. \A i \in 1 .. Len(waiters') : pc'[waiters'[i]] = "queued"
  OBVIOUS
<1>4. \A i, j \in 1 .. Len(waiters') : waiters'[i] = waiters'[j] => i = j
  OBVIOUS
<1>5. QED BY <1>1, <1>2, <1>3, <1>4

\* A sender that holds the lock, or finds it free, writes: it waits, or leaves.
LEMMA WriteKeepsLock ==
  ASSUME LockInv, NEW s \in Senders, NEW w,
         \/ owner = s /\ pc[s] = "granted"
         \/ owner = NoSender /\ pc[s] \in {"idle", "connecting"},
         Wrote(s, w) \/ WriteFails(s, w)
  PROVE  LockInv'
<1>1. CASE owner' = s /\ pc' = [pc EXCEPT ![s] = "waiting"] /\ UNCHANGED waiters
  BY <1>1, SendersAssumption DEF LockInv, LockTypes, LockOK, SendersAssumption
<1>2. CASE Leave(s)
  BY <1>2, LeaveKeepsLock
<1>3. QED BY <1>1, <1>2 DEF Wrote, WriteFails

LEMMA LockStep == LockInv /\ [Next]_vars => LockInv'
<1> SUFFICES ASSUME LockInv, [Next]_vars PROVE LockInv'
    OBVIOUS
<1>1. CASE UNCHANGED lockVars /\ UNCHANGED pc
  BY <1>1 DEF lockVars, LockInv, LockTypes, LockOK
<1>2. ASSUME NEW s \in Senders, NEW w \in BOOLEAN, Send(s, w)
      PROVE  LockInv'
  <2>1. pc[s] = "idle"
    BY <1>2 DEF Send
  <2>2. CASE pc' = [pc EXCEPT ![s] = "connecting"] /\ UNCHANGED <<owner, waiters>>
    BY <2>1, <2>2, SendersAssumption DEF LockInv, LockTypes, LockOK, SendersAssumption
  <2>3. CASE owner = NoSender /\ Write(s, w)
    BY <2>1, <2>3, WriteKeepsLock DEF Write
  <2>4. CASE Queue(s)
    BY <2>1, <2>4, QueueKeepsLock
  <2>5. QED BY <1>2, <2>2, <2>3, <2>4 DEF Send
<1>3. ASSUME NEW s \in Senders, SenderStep(s)
      PROVE  LockInv'
  <2>1. CASE SendConnects(s)
    <3>1. pc[s] = "connecting"
      BY <2>1 DEF SendConnects
    <3>2. CASE owner = NoSender /\ Wrote(s, wait[s])
      BY <3>1, <3>2, WriteKeepsLock
    <3>3. CASE Queue(s)
      BY <3>1, <3>3, QueueKeepsLock
    <3>4. CASE pc' = [pc EXCEPT ![s] = "idle"] /\ UNCHANGED <<owner, waiters>>
      BY <3>1, <3>4, SendersAssumption DEF LockInv, LockTypes, LockOK, SendersAssumption
    <3>5. QED BY <2>1, <3>2, <3>3, <3>4 DEF SendConnects
  <2>2. CASE Granted(s)
    BY <2>2, WriteKeepsLock DEF Granted, Write, LockInv, LockOK
  <2>3. CASE TakeReply(s) \/ Timeout(s)
    BY <2>3, LeaveKeepsLock DEF TakeReply, Timeout, LockInv, LockOK
  <2>4. QED BY <1>3, <2>1, <2>2, <2>3 DEF SenderStep
<1>4. CASE \/ Start \/ Started \/ Stop \/ Stopping \/ Stopped \/ LoopStep
           \/ \E c \in Conns : DeviceSends(c) \/ PeerCloses(c)
  BY <1>1, <1>4 DEF Start, Started, Stop, Stopping, Stopped, LoopStep, LoopStarts, LoopConnects,
     LoopWakes, LoopReads, LoopEof, LoopEnded, LoopCancelled, CancelSwallowed, LoopLeaves,
     DeviceSends, PeerCloses, sendVars, lockVars, loopUnchanged
<1>5. QED BY <1>1, <1>2, <1>3, <1>4 DEF Next, vars, lockVars

-----------------------------------------------------------------------------
(* The sends, and the data.                                                 *)

LEMMA SendTypesStep == SendTypes /\ [Next]_vars => SendTypes'
<1> SUFFICES ASSUME SendTypes, [Next]_vars PROVE SendTypes'
    OBVIOUS
<1> USE DEF SendTypes
<1>1. ASSUME NEW s \in Senders, NEW how \in {"none", "ok", "silence", "oserror", "crash"},
             Ends(s, how)
      PROVE  result' \in [Senders -> {"none", "ok", "silence", "oserror", "crash"}]
  BY <1>1 DEF Ends
<1>2. ASSUME NEW s \in Senders, NEW w \in BOOLEAN, Wrote(s, w) \/ WriteFails(s, w) \/ Queue(s)
      PROVE  /\ result' \in [Senders -> {"none", "ok", "silence", "oserror", "crash"}]
             /\ expecting' \in BOOLEAN /\ clean' \in BOOLEAN
  BY <1>1, <1>2 DEF Wrote, WriteFails, Queue
<1>3. ASSUME NEW s \in Senders, NEW w \in BOOLEAN, Send(s, w)
      PROVE  SendTypes'
  <2>1. /\ n' \in [Senders -> 0 .. MaxSends] /\ wait' \in [Senders -> BOOLEAN]
    BY <1>3, LimitsAssumption DEF Send, LimitsAssumption
  <2>2. /\ result' \in [Senders -> {"none", "ok", "silence", "oserror", "crash"}]
        /\ expecting' \in BOOLEAN /\ clean' \in BOOLEAN
    BY <1>2, <1>3 DEF Send, Write
  <2>3. QED BY <2>1, <2>2
<1>4. ASSUME NEW s \in Senders, SenderStep(s)
      PROVE  SendTypes'
  <2>1. UNCHANGED <<n, wait>> /\ wait[s] \in BOOLEAN
    BY <1>4 DEF SenderStep, SendConnects, Granted, TakeReply, Timeout
  <2>2. /\ result' \in [Senders -> {"none", "ok", "silence", "oserror", "crash"}]
        /\ expecting' \in BOOLEAN /\ clean' \in BOOLEAN
    BY <1>1, <1>2, <1>4, <2>1 DEF SenderStep, SendConnects, Granted, Write, TakeReply, Timeout
  <2>3. QED BY <2>1, <2>2
<1>5. CASE Stop \/ LoopConnects \/ CancelSwallowed
  <2>1. clean' \in BOOLEAN /\ UNCHANGED <<n, wait, result, expecting>>
    BY <1>5 DEF Stop, LoopConnects, CancelSwallowed, sendVars, loopUnchanged
  <2>2. QED BY <2>1
<1>6. CASE UNCHANGED <<n, wait, result, expecting, clean>>
  BY <1>6
<1>7. CASE \/ Start \/ Started \/ Stopping \/ Stopped
           \/ LoopStep /\ ~LoopConnects /\ ~CancelSwallowed
           \/ \E c \in Conns : DeviceSends(c) \/ PeerCloses(c)
  BY <1>6, <1>7 DEF Start, Started, Stopping, Stopped, LoopStep, LoopStarts,
     LoopWakes, LoopReads, LoopEof, LoopEnded, LoopCancelled, LoopLeaves,
     DeviceSends, PeerCloses, sendVars, loopUnchanged
<1>8. QED BY <1>3, <1>4, <1>5, <1>6, <1>7 DEF Next, LoopStep, vars

LEMMA LastTyped == ASSUME NEW S, NEW q \in Seq(S), q # <<>> PROVE q[Len(q)] \in S
<1>1. Len(q) \in 1 .. Len(q)
  OBVIOUS
<1>2. QED BY <1>1, ElementOfSeq

LEMMA FirstTyped == ASSUME NEW S, NEW q \in Seq(S), q # <<>> PROVE q[1] \in S
<1>1. 1 \in 1 .. Len(q)
  OBVIOUS
<1>2. QED BY <1>1, ElementOfSeq

LEMMA TailTyped == ASSUME NEW S, NEW q \in Seq(S), q # <<>>
                   PROVE  Head(q) \in S /\ Tail(q) \in Seq(S)
OBVIOUS

LEMMA AppendTyped == ASSUME NEW S, NEW q \in Seq(S), NEW x \in S PROVE Append(q, x) \in Seq(S)
OBVIOUS

LEMMA ReadTyped ==
  ASSUME DataTypes, SessionInv, LoopReads
  PROVE  DataTypes'
<1> USE DEF DataTypes, Text
<1>1. source \in Conns
  BY DEF LoopReads, SessionInv, LoopTypes, ReaderOK
<1> DEFINE text == inbuf[source]
<1>2. text \in Seq(1 .. MaxData) /\ text # <<>>
  BY <1>1 DEF LoopReads
<1>3. inbuf' \in [Conns -> Seq(1 .. MaxData)]
  BY <1>1 DEF LoopReads
<1>4. /\ last' = text[Len(text)]
      /\ rx' = rx \/ rx' = Append(rx, text)
      /\ \/ reported' = reported
         \/ reported' = Append(reported, [text |-> text, response |-> FALSE])
  BY DEF LoopReads
<1> HIDE DEF text
<1>5. text[Len(text)] \in 1 .. MaxData
  BY <1>2, LastTyped
<1>6. last' \in 0 .. MaxData
  BY <1>4, <1>5, LimitsAssumption DEF LimitsAssumption
<1>7. rx' \in Seq(Seq(1 .. MaxData))
  <2>1. rx \in Seq(Seq(1 .. MaxData)) /\ text \in Seq(1 .. MaxData)
    BY <1>2
  <2>2. Append(rx, text) \in Seq(Seq(1 .. MaxData))
    BY <2>1, AppendTyped
  <2>3. QED BY <1>4, <2>1, <2>2
<1>8. reported' \in Seq([text : Seq(1 .. MaxData), response : BOOLEAN])
  <2>1. [text |-> text, response |-> FALSE] \in [text : Seq(1 .. MaxData), response : BOOLEAN]
    BY <1>2
  <2>2. Append(reported, [text |-> text, response |-> FALSE])
            \in Seq([text : Seq(1 .. MaxData), response : BOOLEAN])
    BY <2>1, AppendTyped
  <2>3. QED BY <1>4, <2>2
<1>9. UNCHANGED <<sent, reply, since>>
  BY DEF LoopReads, sendVars
<1>10. QED BY <1>3, <1>6, <1>7, <1>8, <1>9

LEMMA DataStep == DataTypes /\ SessionInv /\ [Next]_vars => DataTypes'
<1> SUFFICES ASSUME DataTypes, SessionInv, [Next]_vars PROVE DataTypes'
    OBVIOUS
<1> USE DEF DataTypes, Text
<1>1. CASE UNCHANGED <<rx, last, sent, inbuf, reply, reported, since>>
  BY <1>1
<1>2. CASE LoopReads
  BY <1>2, ReadTyped
<1>3. ASSUME NEW s \in Senders, NEW w \in BOOLEAN, SenderStep(s) \/ Send(s, w)
      PROVE  DataTypes'
  <2>1. CASE TakeReply(s)
    <3>1. Head(rx) \in Seq(1 .. MaxData) /\ Tail(rx) \in Seq(Seq(1 .. MaxData))
      BY <2>1 DEF TakeReply
    <3>2. /\ rx' = Tail(rx) /\ reply' = [reply EXCEPT ![s] = Head(rx)]
          /\ reported' = Append(reported, [text |-> Head(rx), response |-> TRUE])
          /\ UNCHANGED <<last, sent, inbuf, since>>
      BY <2>1 DEF TakeReply
    <3>3. [text |-> Head(rx), response |-> TRUE] \in [text : Seq(1 .. MaxData), response : BOOLEAN]
      BY <3>1
    <3>4. reported' \in Seq([text : Seq(1 .. MaxData), response : BOOLEAN])
      BY <3>2, <3>3
    <3>5. QED BY <3>1, <3>2, <3>4
  <2>2. CASE ~TakeReply(s)
    <3>1. /\ UNCHANGED <<last, sent, inbuf, reported>>
          /\ rx' = rx \/ rx' = <<>>
          /\ since' = since \/ since' = [since EXCEPT ![s] = last]
          /\ reply' = reply \/ reply' = [reply EXCEPT ![s] = <<>>]
      BY <1>3, <2>2 DEF SenderStep, Send, SendConnects, Granted, Timeout, Write, Wrote, WriteFails,
         Queue, sendUnchanged
    <3>2. rx' \in Seq(Seq(1 .. MaxData))
      BY <3>1, EmptySeq
    <3>3. since' \in [Senders -> 0 .. MaxData]
      BY <3>1
    <3>4. <<>> \in Seq(1 .. MaxData)
      OBVIOUS
    <3>5. reply' \in [Senders -> Seq(1 .. MaxData)]
      BY <3>1, <3>4
    <3>6. QED BY <3>1, <3>2, <3>3, <3>5
  <2>3. QED BY <2>1, <2>2
<1>4. ASSUME NEW c \in Conns, DeviceSends(c)
      PROVE  DataTypes'
  <2>1. sent + 1 \in 1 .. MaxData
    BY <1>4, LimitsAssumption DEF DeviceSends, LimitsAssumption
  <2>2. inbuf' \in [Conns -> Seq(1 .. MaxData)]
    BY <1>4, <2>1 DEF DeviceSends
  <2>3. QED BY <1>4, <2>1, <2>2, LimitsAssumption DEF DeviceSends, sendVars, LimitsAssumption
<1>5. CASE \/ Start \/ Started \/ Stop \/ Stopping \/ Stopped
           \/ LoopStep /\ ~LoopReads
           \/ \E c \in Conns : PeerCloses(c)
  BY <1>1, <1>5 DEF Start, Started, Stop, Stopping, Stopped, LoopStep, LoopStarts, LoopConnects,
     LoopWakes, LoopEof, LoopEnded, LoopCancelled, CancelSwallowed, LoopLeaves,
     PeerCloses, sendVars, dataVars, loopUnchanged
<1>6. QED BY <1>1, <1>2, <1>3, <1>4, <1>5 DEF Next, LoopStep, vars

-----------------------------------------------------------------------------
(* Every variable keeps its type: in particular the read loop always reads a *)
(* connection it was given, and a send ends with a response, with silence, or *)
(* with an error of the connection, never with a TimeoutError.               *)
TypeInv == SessionInv /\ LockInv /\ SendTypes /\ DataTypes

LEMMA TypeAtFirst == Init => TypeInv
<1> SUFFICES ASSUME Init PROVE TypeInv
    OBVIOUS
<1> USE LimitsAssumption DEF Init, LimitsAssumption
<1>1. SessionInv
  BY DEF SessionInv, ConnTypes, LoopTypes, ReaderOK, LoopStates
<1>2. LockInv
  BY SendersAssumption DEF LockInv, LockTypes, LockOK, SendersAssumption
<1>3. SendTypes
  <2>1. n \in [Senders -> 0 .. MaxSends] /\ wait \in [Senders -> BOOLEAN]
    OBVIOUS
  <2>2. expecting \in BOOLEAN /\ clean \in BOOLEAN
    OBVIOUS
  <2>3. QED BY <2>1, <2>2 DEF SendTypes
<1>4. DataTypes
  <2>1. <<>> \in Seq(1 .. MaxData) /\ <<>> \in Seq(Seq(1 .. MaxData))
        /\ <<>> \in Seq([text : Seq(1 .. MaxData), response : BOOLEAN])
    OBVIOUS
  <2>2. inbuf \in [Conns -> Seq(1 .. MaxData)] /\ reply \in [Senders -> Seq(1 .. MaxData)]
    BY <2>1
  <2>3. QED BY <2>1, <2>2 DEF DataTypes, Text
<1>5. QED BY <1>1, <1>2, <1>3, <1>4 DEF TypeInv

\* Every variable of the serial session keeps its type.
THEOREM SessionIsTyped == Spec => []TypeOK
<1>1. TypeInv /\ [Next]_vars => TypeInv'
  BY SessionStep, LockStep, SendTypesStep, DataStep DEF TypeInv
<1>2. TypeInv => TypeOK
  BY DEF TypeInv, TypeOK, SessionInv, LockInv
<1>3. QED BY TypeAtFirst, <1>1, <1>2, PTL DEF Spec

-----------------------------------------------------------------------------
(* A response is newer than its send.  Connections are read in the order they *)
(* were opened, so whatever is read next was sent after what was read last.   *)

\* The open connection is the writer's and the last one opened, and neither the
\* reader nor the read loop ever goes back to an earlier one.
ConnOrder ==
    /\ \A c, d \in Conns : c < d /\ link[c] \in {"unused", "open"} => link[d] = "unused"
    /\ \A c \in Conns : link[c] = "open" => writer = c
    /\ writer = reader
    /\ reader # None => link[reader] # "unused" /\ source <= reader
    /\ source # None => link[source] # "unused"

DataOrder ==
    /\ last <= sent
    /\ \A c \in Conns : link[c] = "unused" => inbuf[c] = <<>>
    /\ \A c \in Conns : \A i \in 1 .. Len(inbuf[c]) :
          inbuf[c][i] <= sent /\ (source <= c => last < inbuf[c][i])
    /\ \A c, d \in Conns : c < d =>
          \A i \in 1 .. Len(inbuf[c]), j \in 1 .. Len(inbuf[d]) : inbuf[c][i] < inbuf[d][j]

RepliesNew ==
    /\ \A s \in Senders : since[s] <= last
    /\ \A s \in Senders : pc[s] = "waiting" =>
          \A i \in 1 .. Len(rx) : rx[i] # <<>> /\ since[s] < rx[i][1]
    /\ \A s \in Senders : pc[s] # "idle" => reply[s] = <<>>
    /\ ReplyIsNew

NewInv == TypeInv /\ ConnOrder /\ DataOrder /\ RepliesNew

LEMMA InstallOrders ==
  ASSUME ConnTypes, LoopTypes, ConnOrder, Install, source' = source \/ source' = reader'
  PROVE  ConnOrder'
<1> USE DEF Conns, None
<1>1. PICK c \in Conns :
        /\ link[c] = "unused" /\ \A d \in Conns : d < c => link[d] # "unused"
        /\ link' = [Shut EXCEPT ![c] = "open"]
        /\ reader' = c /\ writer' = c
  BY DEF Install
<1>2. writer # None => writer \in Conns /\ link[writer] # "unused" /\ writer < c
  BY <1>1 DEF ConnTypes, ConnOrder
<1>3. \A d \in Conns : link'[d] = IF d = c THEN "open" ELSE
                                     IF d = writer THEN "shut" ELSE link[d]
  BY <1>1, <1>2 DEF ConnTypes, Shut
<1>4. source < c
  BY <1>1 DEF ConnOrder, LoopTypes
<1>5. \A d \in Conns : link'[d] = "open" => writer' = d
  BY <1>1, <1>3 DEF ConnOrder
<1>6. ASSUME NEW a \in Conns, NEW b \in Conns, a < b, link'[a] \in {"unused", "open"}
      PROVE  link'[b] = "unused"
  <2>1. c <= a
    BY <1>1, <1>3, <1>5, <1>6
  <2>2. link[b] = "unused" /\ b # c /\ b # writer
    BY <1>1, <1>2, <1>6, <2>1 DEF ConnOrder
  <2>3. QED BY <1>3, <2>2
<1>7. link'[reader'] # "unused" /\ source' <= reader' /\ writer' = reader'
  <2>1. reader' = c /\ writer' = c /\ link'[c] = "open"
    BY <1>1, <1>3
  <2>2. source' <= c
    BY <1>1, <1>4 DEF LoopTypes
  <2>3. QED BY <2>1, <2>2
<1>8. source' # None => link'[source'] # "unused"
  BY <1>1, <1>3, <1>4 DEF ConnOrder, LoopTypes
<1>9. QED BY <1>5, <1>6, <1>7, <1>8 DEF ConnOrder

LEMMA CloseOrders ==
  ASSUME ConnTypes, LoopTypes, ConnOrder, Close, UNCHANGED source
  PROVE  ConnOrder'
<1> USE DEF Conns, None
<1>1. writer # None => writer \in Conns /\ link[writer] # "unused"
  BY DEF ConnTypes, ConnOrder
<1>2. \A d \in Conns : link'[d] = IF d = writer THEN "shut" ELSE link[d]
  BY <1>1 DEF Close, ConnTypes, Shut
<1>3. reader' = None /\ writer' = None
  BY DEF Close
<1>4. QED BY <1>1, <1>2, <1>3 DEF ConnOrder, LoopTypes

LEMMA HeadOrders ==
  ASSUME SessionInv, ConnOrder, LoopHead
  PROVE  ConnOrder' /\ (source' = source \/ (source' = reader /\ reader # None))
<1>1. CASE Close /\ UNCHANGED source
  BY <1>1, CloseOrders DEF SessionInv
<1>2. CASE connected /\ source' = reader /\ UNCHANGED <<clientVars, link>>
  BY <1>2 DEF SessionInv, ReaderOK, ConnTypes, ConnOrder, clientVars, Conns, None
<1>3. QED BY <1>1, <1>2 DEF LoopHead

LEMMA OrderStep == TypeInv /\ ConnOrder /\ [Next]_vars => ConnOrder'
<1> SUFFICES ASSUME TypeInv, ConnOrder, [Next]_vars PROVE ConnOrder'
    OBVIOUS
<1>1. SessionInv /\ ConnTypes /\ LoopTypes
  BY DEF TypeInv, SessionInv
<1>2. CASE UNCHANGED <<reader, writer, link, source>>
  BY <1>2 DEF ConnOrder
<1>3. CASE Install /\ (source' = source \/ source' = reader')
  BY <1>1, <1>3, InstallOrders
<1>4. CASE Close /\ UNCHANGED source
  BY <1>1, <1>4, CloseOrders
<1>5. CASE LoopHead
  BY <1>1, <1>5, HeadOrders
<1>6. ASSUME NEW c \in Conns, PeerCloses(c)
      PROVE  ConnOrder'
  BY <1>1, <1>6 DEF PeerCloses, ConnTypes, LoopTypes, ConnOrder, clientVars, loopVars, Conns, None
<1>7. ASSUME NEW s \in Senders, NEW w \in BOOLEAN, SenderStep(s) \/ Send(s, w)
      PROVE  ConnOrder'
  BY <1>2, <1>3, <1>7, SenderInstalls DEF clientVars, loopVars
<1>8. CASE Start \/ Started \/ Stop \/ Stopping \/ Stopped
  BY <1>2, <1>3, <1>4, <1>8 DEF Start, Started, Stop, Stopping, Stopped, clientVars, loopVars, dataVars
<1>9. CASE LoopStep
  BY <1>2, <1>3, <1>4, <1>5, <1>9 DEF LoopStep, LoopStarts, LoopConnects, LoopWakes, LoopReads,
     LoopEof, LoopEnded, LoopCancelled, CancelSwallowed, LoopLeaves, clientVars, dataVars
<1>10. ASSUME NEW c \in Conns, DeviceSends(c)
       PROVE  ConnOrder'
  BY <1>2, <1>10 DEF DeviceSends, clientVars, loopVars
<1>11. QED BY <1>2, <1>6, <1>7, <1>8, <1>9, <1>10 DEF Next, vars

\* No connection becomes unused again, and the read loop only moves on.
LEMMA SourceGrows ==
  ASSUME TypeInv, ConnOrder, [Next]_vars
  PROVE  /\ source <= source' /\ source \in Nat /\ source' \in Nat
         /\ \A c \in Conns : link'[c] = "unused" => link[c] = "unused"
<1> USE DEF Conns, None
<1>1. SessionInv /\ ConnTypes /\ LoopTypes /\ source \in Nat
  BY DEF TypeInv, SessionInv, LoopTypes
<1>2. CASE UNCHANGED <<link, source>>
  BY <1>1, <1>2
<1>3. CASE Install /\ (source' = source \/ source' = reader')
  <2>1. PICK c \in Conns : /\ link[c] = "unused" /\ \A d \in Conns : d < c => link[d] # "unused"
                           /\ link' = [Shut EXCEPT ![c] = "open"] /\ reader' = c
    BY <1>3 DEF Install
  <2>2. source < c
    BY <1>1, <2>1 DEF ConnOrder, LoopTypes
  <2>3. \A d \in Conns : link'[d] = "unused" => link[d] = "unused"
    BY <1>1, <2>1 DEF ConnTypes, Shut
  <2>4. QED BY <1>1, <1>3, <2>1, <2>2, <2>3
<1>4. CASE Close /\ UNCHANGED source
  BY <1>1, <1>4 DEF Close, ConnTypes, Shut
<1>5. CASE LoopHead
  <2>1. source' = source \/ (source' = reader /\ reader # None)
    BY <1>1, <1>5, HeadOrders
  <2>2. source <= source' /\ source' \in Nat
    BY <1>1, <2>1 DEF ConnOrder, ConnTypes
  <2>3. QED BY <1>1, <1>4, <1>5, <2>2 DEF LoopHead
<1>6. ASSUME NEW c \in Conns, PeerCloses(c) \/ DeviceSends(c)
      PROVE  /\ source <= source' /\ source' \in Nat
             /\ \A d \in Conns : link'[d] = "unused" => link[d] = "unused"
  <2>1. CASE PeerCloses(c)
    <3>1. link' = [link EXCEPT ![c] = "eof"] /\ source' = source
      BY <2>1 DEF PeerCloses, loopVars
    <3>2. QED BY <1>1, <3>1 DEF ConnTypes
  <2>2. CASE DeviceSends(c)
    <3>1. link' = link /\ source' = source
      BY <2>2 DEF DeviceSends, loopVars
    <3>2. QED BY <1>1, <3>1
  <2>3. QED BY <1>6, <2>1, <2>2
<1>7. ASSUME NEW s \in Senders, NEW w \in BOOLEAN, SenderStep(s) \/ Send(s, w)
      PROVE  /\ source <= source' /\ source' \in Nat
             /\ \A d \in Conns : link'[d] = "unused" => link[d] = "unused"
  BY <1>2, <1>3, <1>7, SenderInstalls DEF loopVars
<1>8. CASE Start \/ Started \/ Stop \/ Stopping \/ Stopped
  BY <1>1, <1>2, <1>3, <1>4, <1>8 DEF Start, Started, Stop, Stopping, Stopped, loopVars, dataVars
<1>9. CASE LoopStep
  BY <1>1, <1>2, <1>3, <1>4, <1>5, <1>9 DEF LoopStep, LoopStarts, LoopConnects, LoopWakes, LoopReads,
     LoopEof, LoopEnded, LoopCancelled, CancelSwallowed, LoopLeaves, dataVars
<1>10. QED BY <1>1, <1>2, <1>6, <1>7, <1>8, <1>9 DEF Next, vars

\* What a read takes: a text that is newer than everything read before.
LEMMA ReadOrders ==
  ASSUME TypeInv, ConnOrder, DataOrder, LoopReads
  PROVE  /\ inbuf[source] \in Seq(1 .. MaxData) /\ inbuf[source] # <<>>
         /\ last < inbuf[source][1] /\ last < last'
         /\ DataOrder'
<1> USE DEF Conns, None
<1>1. /\ source \in Conns /\ source \in Nat /\ last \in Nat /\ sent \in Nat
      /\ inbuf \in [Conns -> Seq(1 .. MaxData)]
  BY LimitsAssumption
  DEF LoopReads, TypeInv, SessionInv, LoopTypes, ReaderOK, DataTypes, Text, LimitsAssumption
<1> DEFINE text == inbuf[source]
<1>2. text \in Seq(1 .. MaxData) /\ text # <<>>
  BY <1>1 DEF LoopReads
<1>3. 1 \in 1 .. Len(text) /\ Len(text) \in 1 .. Len(text)
  BY <1>2
<1>4. \A i \in 1 .. Len(text) : text[i] \in Nat /\ last < text[i] /\ text[i] <= sent
  BY <1>1, <1>2, LimitsAssumption DEF DataOrder, LimitsAssumption
<1>5. last' = text[Len(text)] /\ inbuf' = [inbuf EXCEPT ![source] = <<>>] /\ sent' = sent
  BY DEF LoopReads
<1>6. last < last' /\ last' <= sent'
  BY <1>3, <1>4, <1>5
<1>7. /\ source <= source' /\ source' \in Nat
      /\ \A c \in Conns : link'[c] = "unused" => link[c] = "unused"
  BY SourceGrows DEF Next, LoopStep
<1>8. \A c \in Conns : inbuf'[c] = IF c = source THEN <<>> ELSE inbuf[c]
  BY <1>1, <1>5
<1>9. ASSUME NEW c \in Conns, NEW i \in 1 .. Len(inbuf'[c])
      PROVE  inbuf'[c][i] <= sent' /\ (source' <= c => last' < inbuf'[c][i])
  <2>1. c # source /\ inbuf'[c] = inbuf[c]
    BY <1>8, <1>9
  <2>2. inbuf[c][i] <= sent
    BY <2>1 DEF DataOrder
  <2>3. ASSUME source' <= c PROVE last' < inbuf[c][i]
    <3>1. source < c
      BY <1>1, <1>7, <2>1, <2>3
    <3>2. inbuf[source][Len(text)] < inbuf[c][i]
      BY <1>1, <1>3, <2>1, <3>1 DEF DataOrder
    <3>3. QED BY <1>5, <3>2
  <2>4. QED BY <1>5, <2>1, <2>2, <2>3
<1>10. \A c, d \in Conns : c < d => \A i \in 1 .. Len(inbuf'[c]), j \in 1 .. Len(inbuf'[d]) :
          inbuf'[c][i] < inbuf'[d][j]
  BY <1>8 DEF DataOrder
<1>11. DataOrder'
  <2>1. \A c \in Conns : link'[c] = "unused" => inbuf'[c] = <<>>
    BY <1>7, <1>8 DEF DataOrder
  <2>2. QED BY <1>6, <1>9, <1>10, <2>1 DEF DataOrder
<1>12. QED BY <1>2, <1>3, <1>4, <1>6, <1>11

\* Every step keeps the data of each connection newer than that of the earlier ones.
LEMMA DataOrderStep == TypeInv /\ ConnOrder /\ DataOrder /\ [Next]_vars => DataOrder'
<1> SUFFICES ASSUME TypeInv, ConnOrder, DataOrder, [Next]_vars PROVE DataOrder'
    OBVIOUS
<1>1. /\ source <= source' /\ source \in Nat /\ source' \in Nat
      /\ \A c \in Conns : link'[c] = "unused" => link[c] = "unused"
  BY SourceGrows
<1>2. /\ last \in Nat /\ sent \in Nat /\ inbuf \in [Conns -> Seq(1 .. MaxData)]
      /\ MaxData \in Nat
  BY LimitsAssumption DEF TypeInv, DataTypes, Text, LimitsAssumption
<1>3. CASE UNCHANGED <<inbuf, sent, last>>
  <2>1. \A c \in Conns : source' <= c => source <= c
    BY <1>1 DEF Conns
  <2>2. QED BY <1>1, <1>3, <2>1 DEF DataOrder
<1>4. ASSUME NEW c \in Conns, DeviceSends(c)
      PROVE  DataOrder'
  <2>1. /\ link[c] = "open" /\ sent' = sent + 1 /\ last' = last
        /\ inbuf' = [inbuf EXCEPT ![c] = Append(inbuf[c], sent + 1)]
        /\ link' = link /\ source' = source /\ sent < MaxData
    BY <1>4 DEF DeviceSends, loopVars
  <2>2. \A d \in Conns : d # c => inbuf'[d] = inbuf[d]
    BY <1>2, <2>1
  <2>3. /\ Len(inbuf'[c]) = Len(inbuf[c]) + 1
        /\ inbuf'[c][Len(inbuf[c]) + 1] = sent + 1
        /\ \A i \in 1 .. Len(inbuf[c]) : inbuf'[c][i] = inbuf[c][i]
    <3>1. inbuf[c] \in Seq(1 .. MaxData) /\ inbuf'[c] = Append(inbuf[c], sent + 1)
      BY <1>2, <2>1
    <3>2. QED BY <3>1
  <2>4. \A i \in 1 .. Len(inbuf'[c]) :
           i \in 1 .. Len(inbuf[c]) \/ inbuf'[c][i] = sent + 1
    <3>1. Len(inbuf[c]) \in Nat
      BY <1>2
    <3>2. QED BY <2>3, <3>1
  <2>5. \A d \in Conns : \A i \in 1 .. Len(inbuf[d]) : inbuf[d][i] \in Nat
    BY <1>2
  <2>6. ASSUME NEW d \in Conns, NEW i \in 1 .. Len(inbuf'[d])
        PROVE  inbuf'[d][i] <= sent' /\ (source' <= d => last' < inbuf'[d][i])
    BY <1>2, <2>1, <2>2, <2>3, <2>4, <2>5, <2>6 DEF DataOrder
  <2>7. ASSUME NEW a \in Conns, NEW b \in Conns, a < b,
               NEW i \in 1 .. Len(inbuf'[a]), NEW j \in 1 .. Len(inbuf'[b])
        PROVE  inbuf'[a][i] < inbuf'[b][j]
    <3>1. CASE a = c
      <4>1. link[b] = "unused" /\ b # c
        BY <2>1, <2>7, <3>1 DEF ConnOrder, Conns
      <4>2. inbuf'[b] = <<>>
        BY <2>2, <4>1 DEF DataOrder
      <4>3. QED BY <2>7, <4>2
    <3>2. CASE b = c
      <4>1. inbuf'[a] = inbuf[a] /\ a # c
        BY <2>2, <2>7, <3>2 DEF Conns
      <4>2. inbuf[a][i] \in Nat /\ inbuf[a][i] <= sent
        BY <2>5, <2>7, <4>1 DEF DataOrder
      <4>3. CASE j \in 1 .. Len(inbuf[c])
        BY <2>3, <2>7, <3>2, <4>1, <4>3 DEF DataOrder
      <4>4. CASE inbuf'[c][j] = sent + 1
        BY <1>2, <3>2, <4>1, <4>2, <4>4
      <4>5. QED BY <2>4, <2>7, <3>2, <4>3, <4>4
    <3>3. CASE a # c /\ b # c
      BY <2>2, <2>7, <3>3 DEF DataOrder
    <3>4. QED BY <3>1, <3>2, <3>3
  <2>8. \A d \in Conns : link'[d] = "unused" => inbuf'[d] = <<>>
    BY <2>1, <2>2 DEF DataOrder
  <2>9. last' <= sent'
    BY <1>2, <2>1 DEF DataOrder
  <2>10. QED BY <2>6, <2>7, <2>8, <2>9 DEF DataOrder
<1>5. CASE Start \/ Started \/ Stop \/ Stopping \/ Stopped
  BY <1>3, <1>5 DEF Start, Started, Stop, Stopping, Stopped, dataVars
<1>6. CASE LoopStep
  BY <1>3, <1>6, ReadOrders DEF LoopStep, LoopStarts, LoopConnects, LoopWakes, LoopEof, LoopEnded,
     LoopCancelled, CancelSwallowed, LoopLeaves, loopUnchanged, dataVars
<1>7. ASSUME NEW s \in Senders, NEW w \in BOOLEAN, SenderStep(s) \/ Send(s, w)
      PROVE  DataOrder'
  BY <1>3, <1>7 DEF SenderStep, Send, SendConnects, Granted, TakeReply, Timeout, sendUnchanged
<1>8. ASSUME NEW c \in Conns, PeerCloses(c)
      PROVE  DataOrder'
  BY <1>3, <1>8 DEF PeerCloses
<1>9. QED BY <1>3, <1>4, <1>5, <1>6, <1>7, <1>8 DEF Next, vars

\* Whoever leaves is idle, and nobody starts to wait or loses its place for it.
LEMMA LeaveMoves ==
  ASSUME LockInv, NEW s \in Senders, pc[s] # "queued", Leave(s)
  PROVE  /\ \A r \in Senders : pc'[r] = "waiting" => pc[r] = "waiting"
         /\ \A r \in Senders : pc'[r] # "idle" => r # s /\ pc[r] # "idle"
<1> USE DEF LockInv, LockTypes, LockOK
<1>1. CASE waiters = <<>>
  BY <1>1 DEF Leave
<1>2. CASE waiters # <<>>
  <2>1. Head(waiters) \in Senders /\ pc[Head(waiters)] = "queued"
    <3>1. Head(waiters) = waiters[1] /\ 1 \in 1 .. Len(waiters) /\ waiters[1] \in Senders
      BY <1>2
    <3>2. QED BY <3>1
  <2>2. pc' = [pc EXCEPT ![s] = "idle", ![Head(waiters)] = "granted"]
    BY <1>2 DEF Leave
  <2>3. QED BY <2>1, <2>2
<1>3. QED BY <1>1, <1>2

\* A sender that has no reply yet writes, queues, fails or leaves without one.
LEMMA WriteReplies ==
  ASSUME TypeInv, RepliesNew, NEW s \in Senders, pc[s] # "queued", last' = last,
         reply' = reply \/ reply' = [reply EXCEPT ![s] = <<>>], reply'[s] = <<>>,
         \/ rx' \in {rx, <<>>} /\ since' = since /\ Leave(s)
         \/ /\ rx' \in {rx, <<>>} /\ since' = since
            /\ \E p \in {"idle", "connecting", "queued"} : pc' = [pc EXCEPT ![s] = p]
         \/ /\ rx' = <<>> /\ since' = [since EXCEPT ![s] = last]
            /\ pc' = [pc EXCEPT ![s] = "waiting"]
  PROVE  RepliesNew'
<1>1. LockInv /\ pc \in [Senders -> {"idle", "connecting", "queued", "granted", "waiting"}]
      /\ since \in [Senders -> 0 .. MaxData] /\ reply \in [Senders -> Text] /\ last \in Nat
  BY LimitsAssumption DEF TypeInv, LockInv, LockTypes, DataTypes, LimitsAssumption
<1>2. \A r \in Senders : reply'[r] = <<>> \/ (r # s /\ reply'[r] = reply[r])
  BY <1>1
<1>3. \A r \in Senders : r # s => since'[r] = since[r]
  BY <1>1
<1>4. \A r \in Senders : since'[r] <= last'
  BY <1>1 DEF RepliesNew
<1>5. \A r \in Senders : pc'[r] = "waiting" =>
         rx' = <<>> \/ (pc[r] = "waiting" /\ rx' = rx /\ since' = since)
  BY <1>1, LeaveMoves
<1>6. \A r \in Senders : pc'[r] = "waiting" =>
         \A i \in 1 .. Len(rx') : rx'[i] # <<>> /\ since'[r] < rx'[i][1]
  <2> SUFFICES ASSUME NEW r \in Senders, pc'[r] = "waiting", NEW i \in 1 .. Len(rx')
               PROVE  rx'[i] # <<>> /\ since'[r] < rx'[i][1]
      OBVIOUS
  <2>1. CASE rx' = <<>>
    BY <2>1
  <2>2. CASE pc[r] = "waiting" /\ rx' = rx /\ since' = since
    BY <2>2 DEF RepliesNew
  <2>3. QED BY <1>5, <2>1, <2>2
<1>7. \A r \in Senders : pc'[r] # "idle" => r = s \/ pc[r] # "idle"
  BY <1>1, LeaveMoves
<1>8. \A r \in Senders : pc'[r] # "idle" => reply'[r] = <<>>
  BY <1>2, <1>7 DEF RepliesNew
<1>9. \A r \in Senders : reply'[r] # <<>> => reply'[r][1] > since'[r]
  BY <1>2, <1>3 DEF RepliesNew, ReplyIsNew
<1>10. QED BY <1>4, <1>6, <1>8, <1>9 DEF RepliesNew, ReplyIsNew

\* What the sender takes was queued after it wrote.
LEMMA TakeReplies ==
  ASSUME TypeInv, RepliesNew, NEW s \in Senders, TakeReply(s)
  PROVE  RepliesNew'
<1>1. LockInv /\ pc \in [Senders -> {"idle", "connecting", "queued", "granted", "waiting"}]
      /\ reply \in [Senders -> Text] /\ rx \in Seq(Text)
  BY DEF TypeInv, LockInv, LockTypes, DataTypes
<1>2. /\ pc[s] = "waiting" /\ rx # <<>> /\ rx' = Tail(rx) /\ Leave(s)
      /\ reply' = [reply EXCEPT ![s] = Head(rx)] /\ last' = last /\ since' = since
  BY DEF TakeReply
<1>3. Head(rx) = rx[1] /\ 1 \in 1 .. Len(rx) /\ rx[1] # <<>> /\ since[s] < rx[1][1]
  BY <1>1, <1>2 DEF RepliesNew
<1>4. \A r \in Senders : since'[r] <= last'
  BY <1>2 DEF RepliesNew
<1>5. /\ \A r \in Senders : pc'[r] = "waiting" => pc[r] = "waiting"
      /\ \A r \in Senders : pc'[r] # "idle" => r # s /\ pc[r] # "idle"
  BY <1>1, <1>2, LeaveMoves
<1>6. \A i \in 1 .. Len(rx') : rx'[i] = rx[i + 1] /\ i + 1 \in 1 .. Len(rx)
  BY <1>1, <1>2
<1>7. \A r \in Senders : pc'[r] = "waiting" =>
         \A i \in 1 .. Len(rx') : rx'[i] # <<>> /\ since'[r] < rx'[i][1]
  BY <1>2, <1>5, <1>6 DEF RepliesNew
<1>8. \A r \in Senders : pc'[r] # "idle" => reply'[r] = <<>>
  BY <1>1, <1>2, <1>5 DEF RepliesNew
<1>9. reply'[s][1] > since'[s]
  <2>1. rx[1] \in Seq(1 .. MaxData) /\ 1 \in 1 .. Len(rx[1])
    BY <1>1, <1>3 DEF Text
  <2>2. reply'[s] = rx[1]
    BY <1>1, <1>2, <1>3
  <2>3. QED BY <1>2, <1>3, <2>2
<1>10. \A r \in Senders : reply'[r] # <<>> => reply'[r][1] > since'[r]
  BY <1>1, <1>2, <1>9 DEF RepliesNew, ReplyIsNew
<1>11. QED BY <1>4, <1>7, <1>8, <1>10 DEF RepliesNew, ReplyIsNew

\* A text that is read is newer than whatever any sender waits for.
LEMMA ReadReplies ==
  ASSUME TypeInv, ConnOrder, DataOrder, RepliesNew, LoopReads
  PROVE  RepliesNew'
<1>1. /\ inbuf[source] # <<>> /\ last < inbuf[source][1] /\ last < last'
      /\ inbuf[source] \in Seq(1 .. MaxData)
  BY ReadOrders
<1>2. /\ rx \in Seq(Text) /\ last \in Nat /\ last' \in Nat /\ inbuf[source][1] \in Nat
      /\ \A r \in Senders : since[r] \in Nat
  <2>1. DataTypes'
    <3>1. Next
      BY DEF Next, LoopStep
    <3>2. QED BY <3>1, DataStep DEF TypeInv
  <2>2. inbuf[source][1] \in 1 .. MaxData
    BY <1>1, FirstTyped
  <2>3. QED BY <2>1, <2>2, LimitsAssumption DEF TypeInv, DataTypes, LimitsAssumption
<1>3. pc' = pc /\ since' = since /\ reply' = reply
  BY DEF LoopReads, sendVars
<1>4. \A r \in Senders : since[r] < inbuf[source][1] /\ since'[r] <= last'
  BY <1>1, <1>2, <1>3 DEF RepliesNew
<1>5. rx' = rx \/ rx' = Append(rx, inbuf[source])
  BY DEF LoopReads
<1>6. \A i \in 1 .. Len(rx') : (i \in 1 .. Len(rx) /\ rx'[i] = rx[i]) \/ rx'[i] = inbuf[source]
  BY <1>2, <1>5
<1>7. \A r \in Senders : pc'[r] = "waiting" =>
         \A i \in 1 .. Len(rx') : rx'[i] # <<>> /\ since'[r] < rx'[i][1]
  <2> SUFFICES ASSUME NEW r \in Senders, pc'[r] = "waiting", NEW i \in 1 .. Len(rx')
               PROVE  rx'[i] # <<>> /\ since'[r] < rx'[i][1]
      OBVIOUS
  <2>1. CASE i \in 1 .. Len(rx) /\ rx'[i] = rx[i]
    BY <1>3, <2>1 DEF RepliesNew
  <2>2. CASE rx'[i] = inbuf[source]
    BY <1>1, <1>3, <1>4, <2>2
  <2>3. QED BY <1>6, <2>1, <2>2
<1>8. QED BY <1>3, <1>4, <1>7 DEF RepliesNew, ReplyIsNew

LEMMA RepliesStep == NewInv /\ [Next]_vars => RepliesNew'
<1> SUFFICES ASSUME NewInv, [Next]_vars PROVE RepliesNew'
    OBVIOUS
<1> USE DEF NewInv
<1>1. CASE UNCHANGED <<rx, last, pc, since, reply>>
  BY <1>1 DEF RepliesNew, ReplyIsNew
<1>2. reply \in [Senders -> Text] /\ pc \in [Senders -> {"idle", "connecting", "queued", "granted", "waiting"}]
  BY DEF TypeInv, DataTypes, LockInv, LockTypes
<1>3. CASE Start \/ Started \/ Stop \/ Stopping \/ Stopped
  BY <1>1, <1>3 DEF Start, Started, Stop, Stopping, Stopped, sendVars, dataVars
<1>4. CASE LoopStep
  BY <1>1, <1>4, ReadReplies DEF LoopStep, LoopStarts, LoopConnects, LoopWakes, LoopEof,
     LoopEnded, LoopCancelled, CancelSwallowed, LoopLeaves, loopUnchanged, sendVars, dataVars
<1>5. ASSUME NEW s \in Senders, NEW w \in BOOLEAN, Send(s, w)
      PROVE  RepliesNew'
  <2>1. /\ pc[s] = "idle" /\ last' = last
        /\ reply' = [reply EXCEPT ![s] = <<>>] /\ reply'[s] = <<>>
    BY <1>2, <1>5 DEF Send, sendUnchanged
  <2>2. \/ rx' \in {rx, <<>>} /\ since' = since /\ Leave(s)
        \/ /\ rx' \in {rx, <<>>} /\ since' = since
           /\ \E p \in {"idle", "connecting", "queued"} : pc' = [pc EXCEPT ![s] = p]
        \/ /\ rx' = <<>> /\ since' = [since EXCEPT ![s] = last]
           /\ pc' = [pc EXCEPT ![s] = "waiting"]
    BY <1>5 DEF Send, Write, Wrote, WriteFails, Queue
  <2>3. QED BY <2>1, <2>2, WriteReplies
<1>6. ASSUME NEW s \in Senders, SendConnects(s) \/ Granted(s) \/ Timeout(s)
      PROVE  RepliesNew'
  <2>1. /\ pc[s] \in {"connecting", "granted", "waiting"} /\ last' = last
        /\ reply' = reply /\ reply'[s] = <<>>
    BY <1>6 DEF SendConnects, Granted, Timeout, sendUnchanged, RepliesNew
  <2>2. \/ rx' \in {rx, <<>>} /\ since' = since /\ Leave(s)
        \/ /\ rx' \in {rx, <<>>} /\ since' = since
           /\ \E p \in {"idle", "connecting", "queued"} : pc' = [pc EXCEPT ![s] = p]
        \/ /\ rx' = <<>> /\ since' = [since EXCEPT ![s] = last]
           /\ pc' = [pc EXCEPT ![s] = "waiting"]
    BY <1>6 DEF SendConnects, Granted, Timeout, Write, Wrote, WriteFails, Queue
  <2>3. QED BY <2>1, <2>2, WriteReplies
<1>7. ASSUME NEW s \in Senders, TakeReply(s)
      PROVE  RepliesNew'
  BY <1>7, TakeReplies
<1>8. ASSUME NEW c \in Conns, DeviceSends(c) \/ PeerCloses(c)
      PROVE  RepliesNew'
  BY <1>1, <1>8 DEF DeviceSends, PeerCloses, sendVars
<1>9. QED BY <1>1, <1>3, <1>4, <1>5, <1>6, <1>7, <1>8 DEF Next, SenderStep, vars

LEMMA NewAtFirst == Init => NewInv
<1> SUFFICES ASSUME Init PROVE NewInv
    OBVIOUS
<1>1. ConnOrder
  BY DEF Init, ConnOrder, Conns, None
<1>2. DataOrder
  BY DEF Init, DataOrder
<1>3. RepliesNew
  BY DEF Init, RepliesNew, ReplyIsNew
<1>4. QED BY TypeAtFirst, <1>1, <1>2, <1>3 DEF NewInv

LEMMA NewStep == NewInv /\ [Next]_vars => NewInv'
<1>1. TypeInv /\ [Next]_vars => TypeInv'
  BY SessionStep, LockStep, SendTypesStep, DataStep DEF TypeInv
<1>2. QED BY <1>1, OrderStep, DataOrderStep, RepliesStep DEF NewInv

\* The response a send returns was received after it wrote its payload: no text
\* that an earlier send did not wait for is ever taken for it (serial_session.py:167).
THEOREM ResponsesAreNew == Spec => []ReplyIsNew
<1>1. NewInv => ReplyIsNew
  BY DEF NewInv, RepliesNew
<1>2. QED BY NewAtFirst, NewStep, <1>1, PTL DEF Spec

-----------------------------------------------------------------------------
(* Reports are in order. What a sender waits for is held back, so no newer  *)
(* text is reported before it is.                                           *)

Before(t, u) == \A a \in 1 .. Len(t), b \in 1 .. Len(u) : t[a] < u[b]
UpTo(t, m) == \A a \in 1 .. Len(t) : t[a] <= m
After(t, m) == \A a \in 1 .. Len(t) : m < t[a]

Awaited == \E s \in Senders : pc[s] = "waiting"

\* The data of a connection is in order.
Increasing ==
    \A c \in Conns : \A i, j \in 1 .. Len(inbuf[c]) : i < j => inbuf[c][i] < inbuf[c][j]

\* The texts held back for the sender that waits are in order, after what was
\* reported and up to what was read last.
HeldInOrder ==
    Awaited =>
        /\ expecting
        /\ \A k \in 1 .. Len(rx) : UpTo(rx[k], last)
        /\ \A k, l \in 1 .. Len(rx) : k < l => Before(rx[k], rx[l])
        /\ \A i \in 1 .. Len(reported), k \in 1 .. Len(rx) : Before(reported[i].text, rx[k])

ReportsInv ==
    /\ \A i \in 1 .. Len(reported) : UpTo(reported[i].text, last)
    /\ \A i, j \in 1 .. Len(reported) : i < j => Before(reported[i].text, reported[j].text)
    /\ HeldInOrder

OrderInv == NewInv /\ Increasing /\ ReportsInv

LEMMA OlderThanNewer ==
  ASSUME NEW t \in Text, NEW u \in Text, NEW m \in Nat, UpTo(t, m), After(u, m)
  PROVE  Before(t, u)
BY LimitsAssumption DEF Text, UpTo, After, Before, LimitsAssumption

LEMMA UpToLater ==
  ASSUME NEW t \in Text, NEW m \in Nat, NEW o \in Nat, m <= o, UpTo(t, m)
  PROVE  UpTo(t, o)
BY LimitsAssumption DEF Text, UpTo, LimitsAssumption

\* The step of a sender: afterwards nobody waits, or a sender begins to, or whoever
\* waits has waited before and finds the same.
LEMMA SendReports ==
  ASSUME TypeInv, ReportsInv, last' = last, reported' = reported,
         ~Awaited' \/ (rx' = <<>> /\ expecting') \/ (Awaited /\ UNCHANGED <<rx, expecting>>)
  PROVE  ReportsInv'
<1>1. CASE ~Awaited'
  BY <1>1 DEF ReportsInv, HeldInOrder
<1>2. CASE rx' = <<>> /\ expecting'
  BY <1>2 DEF ReportsInv, HeldInOrder
<1>3. CASE Awaited /\ UNCHANGED <<rx, expecting>>
  BY <1>3 DEF ReportsInv, HeldInOrder
<1>4. QED BY <1>1, <1>2, <1>3

LEMMA ReadIncreases ==
  ASSUME TypeInv, ConnOrder, DataOrder, Increasing, LoopReads
  PROVE  /\ inbuf[source] \in Text /\ After(inbuf[source], last)
         /\ last \in Nat /\ last' \in Nat /\ last <= last' /\ UpTo(inbuf[source], last')
<1>1. /\ inbuf[source] \in Seq(1 .. MaxData) /\ inbuf[source] # <<>> /\ last < last'
  BY ReadOrders
<1>2. /\ source \in Conns /\ source \in Nat /\ last \in Nat
  BY LimitsAssumption
  DEF LoopReads, TypeInv, SessionInv, LoopTypes, ReaderOK, DataTypes, Conns, LimitsAssumption, None
<1>3. last' = inbuf[source][Len(inbuf[source])]
  BY DEF LoopReads
<1> DEFINE text == inbuf[source]
<1>4. After(text, last)
  BY <1>2 DEF DataOrder, After
<1>5. \A i \in 1 .. Len(text) : text[i] \in 1 .. MaxData
  BY <1>1, ElementOfSeq
<1>6. Len(text) \in 1 .. Len(text) /\ Len(text) \in Nat
  BY <1>1
<1>7. \A i \in 1 .. Len(text) : i < Len(text) => text[i] < text[Len(text)]
  BY <1>2, <1>6 DEF Increasing
<1>8. last' \in Nat
  BY <1>3, <1>5, <1>6, LimitsAssumption DEF LimitsAssumption
<1>9. UpTo(text, last')
  BY <1>3, <1>5, <1>6, <1>7, <1>8, LimitsAssumption DEF UpTo, LimitsAssumption
<1>10. QED BY <1>1, <1>2, <1>4, <1>8, <1>9 DEF Text

LEMMA ReadReports ==
  ASSUME OrderInv, LoopReads
  PROVE  ReportsInv'
<1> USE DEF OrderInv, NewInv
<1> DEFINE text == inbuf[source]
<1>1. /\ text \in Text /\ After(text, last)
      /\ last \in Nat /\ last' \in Nat /\ last <= last' /\ UpTo(text, last')
  BY ReadIncreases
<1>2. rx \in Seq(Text) /\ reported \in Seq([text : Text, response : BOOLEAN])
  BY DEF TypeInv, DataTypes
<1>3. Awaited' = Awaited /\ expecting' = expecting
  BY DEF LoopReads, sendVars, Awaited
<1>4. \/ expecting /\ rx' = Append(rx, text) /\ reported' = reported
      \/ ~expecting /\ reported' = Append(reported, [text |-> text, response |-> FALSE]) /\ rx' = rx
  BY DEF LoopReads
<1> HIDE DEF text
<1>5. \A i \in 1 .. Len(reported) :
         /\ reported[i].text \in Text
         /\ UpTo(reported[i].text, last') /\ Before(reported[i].text, text)
  <2> SUFFICES ASSUME NEW i \in 1 .. Len(reported)
               PROVE  /\ reported[i].text \in Text
                      /\ UpTo(reported[i].text, last') /\ Before(reported[i].text, text)
      OBVIOUS
  <2>1. reported[i] \in [text : Text, response : BOOLEAN]
    BY <1>2, ElementOfSeq
  <2>2. reported[i].text \in Text /\ UpTo(reported[i].text, last)
    BY <2>1 DEF ReportsInv
  <2>3. QED BY <1>1, <2>2, UpToLater, OlderThanNewer
<1>6. CASE expecting /\ rx' = Append(rx, text) /\ reported' = reported
  <2>1. \A k \in 1 .. Len(rx') :
           \/ k = Len(rx) + 1 /\ rx'[k] = text
           \/ k \in 1 .. Len(rx) /\ rx'[k] = rx[k] /\ rx[k] \in Text
    BY <1>1, <1>2, <1>6
  <2>2. ASSUME Awaited, NEW k \in 1 .. Len(rx)
        PROVE  UpTo(rx[k], last') /\ Before(rx[k], text)
    <3>1. rx[k] \in Text /\ UpTo(rx[k], last)
      BY <1>2, <2>2 DEF ReportsInv, HeldInOrder
    <3>2. QED BY <1>1, <3>1, UpToLater, OlderThanNewer
  <2>3. ASSUME Awaited, NEW k \in 1 .. Len(rx'), NEW l \in 1 .. Len(rx'), k < l
        PROVE  Before(rx'[k], rx'[l])
    <3>1. Len(rx) \in Nat
      BY <1>2
    <3>2. k \in 1 .. Len(rx) /\ rx'[k] = rx[k]
      BY <2>1, <2>3, <3>1, <1>2, <1>6
    <3>3. QED BY <2>1, <2>2, <2>3, <3>2 DEF ReportsInv, HeldInOrder
  <2>4. ASSUME Awaited, NEW i \in 1 .. Len(reported), NEW k \in 1 .. Len(rx')
        PROVE  Before(reported[i].text, rx'[k])
    BY <1>5, <2>1, <2>4 DEF ReportsInv, HeldInOrder
  <2>5. ASSUME Awaited, NEW k \in 1 .. Len(rx')
        PROVE  UpTo(rx'[k], last')
    BY <1>1, <2>1, <2>2, <2>5
  <2>6. HeldInOrder'
    BY <1>3, <1>6, <2>3, <2>4, <2>5 DEF HeldInOrder
  <2>7. QED BY <1>5, <1>6, <2>6 DEF ReportsInv
<1>7. CASE /\ ~expecting /\ rx' = rx
           /\ reported' = Append(reported, [text |-> text, response |-> FALSE])
  <2>1. \A i \in 1 .. Len(reported') :
           \/ i = Len(reported) + 1 /\ reported'[i].text = text
           \/ i \in 1 .. Len(reported) /\ reported'[i] = reported[i]
    BY <1>2, <1>7
  <2>2. ~Awaited'
    BY <1>3, <1>7 DEF ReportsInv, HeldInOrder
  <2>3. \A i \in 1 .. Len(reported') : UpTo(reported'[i].text, last')
    BY <1>1, <1>5, <2>1
  <2>4. ASSUME NEW i \in 1 .. Len(reported'), NEW j \in 1 .. Len(reported'), i < j
        PROVE  Before(reported'[i].text, reported'[j].text)
    <3>1. i \in 1 .. Len(reported) /\ reported'[i] = reported[i]
      BY <1>2, <1>7, <2>1, <2>4
    <3>2. QED BY <1>5, <2>1, <2>4, <3>1 DEF ReportsInv
  <2>5. QED BY <2>2, <2>3, <2>4 DEF ReportsInv, HeldInOrder
<1>8. QED BY <1>4, <1>6, <1>7

LEMMA TakeReports ==
  ASSUME TypeInv, ReportsInv, NEW s \in Senders, TakeReply(s), ~Awaited'
  PROVE  ReportsInv'
<1>1. rx \in Seq(Text) /\ reported \in Seq([text : Text, response : BOOLEAN])
  BY DEF TypeInv, DataTypes
<1>2. Awaited /\ rx # <<>> /\ last' = last
  BY DEF TakeReply, Awaited
<1>3. Head(rx) = rx[1] /\ 1 \in 1 .. Len(rx) /\ rx[1] \in Text
  BY <1>1, <1>2
<1>4. reported' = Append(reported, [text |-> rx[1], response |-> TRUE])
  BY <1>3 DEF TakeReply
<1>5. \A i \in 1 .. Len(reported') :
         \/ i = Len(reported) + 1 /\ reported'[i].text = rx[1]
         \/ i \in 1 .. Len(reported) /\ reported'[i] = reported[i]
  BY <1>1, <1>3, <1>4
<1>6. /\ UpTo(rx[1], last)
      /\ \A i \in 1 .. Len(reported) : Before(reported[i].text, rx[1])
  BY <1>2, <1>3 DEF ReportsInv, HeldInOrder
<1>7. \A i \in 1 .. Len(reported') : UpTo(reported'[i].text, last')
  BY <1>2, <1>5, <1>6 DEF ReportsInv
<1>8. ASSUME NEW i \in 1 .. Len(reported'), NEW j \in 1 .. Len(reported'), i < j
      PROVE  Before(reported'[i].text, reported'[j].text)
  <2>1. i \in 1 .. Len(reported) /\ reported'[i] = reported[i]
    BY <1>1, <1>3, <1>4, <1>5, <1>8
  <2>2. QED BY <1>5, <1>6, <1>8, <2>1 DEF ReportsInv
<1>9. QED BY <1>7, <1>8 DEF ReportsInv, HeldInOrder

\* Data comes in order on each connection.
LEMMA IncreasingStep == TypeInv /\ DataOrder /\ Increasing /\ [Next]_vars => Increasing'
<1> SUFFICES ASSUME TypeInv, DataOrder, Increasing, [Next]_vars PROVE Increasing'
    OBVIOUS
<1>1. inbuf \in [Conns -> Seq(1 .. MaxData)] /\ sent \in Nat
  BY LimitsAssumption DEF TypeInv, DataTypes, Text, LimitsAssumption
<1>2. CASE UNCHANGED inbuf
  BY <1>2 DEF Increasing
<1>3. CASE LoopReads
  <2>1. \A c \in Conns : inbuf'[c] = <<>> \/ inbuf'[c] = inbuf[c]
    BY <1>1, <1>3 DEF LoopReads
  <2>2. QED BY <2>1 DEF Increasing
<1>4. ASSUME NEW c \in Conns, DeviceSends(c)
      PROVE  Increasing'
  <2>1. inbuf' = [inbuf EXCEPT ![c] = Append(inbuf[c], sent + 1)]
    BY <1>4 DEF DeviceSends
  <2>2. \A d \in Conns : d # c => inbuf'[d] = inbuf[d]
    BY <1>1, <2>1
  <2>3. inbuf'[c] = Append(inbuf[c], sent + 1) /\ inbuf[c] \in Seq(1 .. MaxData)
    BY <1>1, <2>1
  <2>4. Len(inbuf[c]) \in Nat /\ Len(inbuf'[c]) = Len(inbuf[c]) + 1
    BY <2>3
  <2>5. \A i \in 1 .. Len(inbuf[c]) : inbuf'[c][i] = inbuf[c][i] /\ inbuf[c][i] \in Nat
    BY <2>3, LimitsAssumption DEF LimitsAssumption
  <2>6. inbuf'[c][Len(inbuf[c]) + 1] = sent + 1
    BY <2>3
  <2>7. \A i \in 1 .. Len(inbuf[c]) : inbuf[c][i] <= sent
    BY DEF DataOrder
  <2>8. ASSUME NEW i \in 1 .. Len(inbuf'[c]), NEW j \in 1 .. Len(inbuf'[c]), i < j
        PROVE  inbuf'[c][i] < inbuf'[c][j]
    <3>1. i \in 1 .. Len(inbuf[c])
      BY <2>4, <2>8
    <3>2. CASE j \in 1 .. Len(inbuf[c])
      BY <2>5, <2>8, <3>1, <3>2 DEF Increasing
    <3>3. CASE j = Len(inbuf[c]) + 1
      BY <1>1, <2>5, <2>6, <2>7, <3>1, <3>3
    <3>4. QED BY <2>4, <3>2, <3>3
  <2>9. QED BY <2>2, <2>8 DEF Increasing
<1>5. CASE Start \/ Started \/ Stop \/ Stopping \/ Stopped
  BY <1>2, <1>5 DEF Start, Started, Stop, Stopping, Stopped, dataVars
<1>6. CASE LoopStep
  BY <1>2, <1>3, <1>6 DEF LoopStep, LoopStarts, LoopConnects, LoopWakes, LoopEof, LoopEnded,
     LoopCancelled, CancelSwallowed, LoopLeaves, loopUnchanged, dataVars
<1>7. ASSUME NEW s \in Senders, NEW w \in BOOLEAN, SenderStep(s) \/ Send(s, w)
      PROVE  Increasing'
  BY <1>2, <1>7 DEF SenderStep, Send, SendConnects, Granted, TakeReply, Timeout, sendUnchanged
<1>8. ASSUME NEW c \in Conns, PeerCloses(c)
      PROVE  Increasing'
  BY <1>2, <1>8 DEF PeerCloses
<1>9. QED BY <1>2, <1>4, <1>5, <1>6, <1>7, <1>8 DEF Next, vars

\* When the holder of the lock leaves, or somebody who found it free, nobody waits.
LEMMA LeaveEndsWait ==
  ASSUME LockInv, NEW s \in Senders, Leave(s),
         owner = s \/ (owner = NoSender /\ pc[s] # "queued")
  PROVE  ~Awaited'
<1>1. pc[s] # "queued"
  BY DEF LockInv, LockOK
<1>2. \A r \in Senders : r # s => pc[r] # "waiting"
  BY SendersAssumption DEF LockInv, LockOK, SendersAssumption
<1>3. \A r \in Senders : pc'[r] = "waiting" => pc[r] = "waiting" /\ r # s
  BY <1>1, LeaveMoves
<1>4. QED BY <1>2, <1>3 DEF Awaited

LEMMA WriteReports ==
  ASSUME LockInv, NEW s \in Senders, NEW w,
         \/ owner = s /\ pc[s] = "granted"
         \/ owner = NoSender /\ pc[s] \in {"idle", "connecting"},
         Wrote(s, w) \/ WriteFails(s, w)
  PROVE  ~Awaited' \/ (rx' = <<>> /\ expecting')
<1>1. CASE Leave(s)
  BY <1>1, LeaveEndsWait
<1>2. CASE rx' = <<>> /\ expecting' = TRUE
  BY <1>2
<1>3. QED BY <1>1, <1>2 DEF Wrote, WriteFails

LEMMA QueuedWaitsOn ==
  ASSUME LockInv, NEW s \in Senders, NEW p \in {"idle", "connecting", "queued"},
         pc' = [pc EXCEPT ![s] = p]
  PROVE  Awaited' => Awaited
BY DEF LockInv, LockTypes, Awaited

LEMMA ReportsStep == OrderInv /\ [Next]_vars => ReportsInv'
<1> SUFFICES ASSUME OrderInv, [Next]_vars PROVE ReportsInv'
    OBVIOUS
<1> USE DEF OrderInv, NewInv
<1>1. LockInv
  BY DEF TypeInv
<1>2. CASE UNCHANGED <<rx, last, pc, reported, expecting>>
  BY <1>2 DEF ReportsInv, HeldInOrder, Awaited
<1>3. CASE Start \/ Started \/ Stop \/ Stopping \/ Stopped
  BY <1>2, <1>3 DEF Start, Started, Stop, Stopping, Stopped, sendVars, dataVars
<1>4. CASE LoopStep
  BY <1>2, <1>4, ReadReports DEF LoopStep, LoopStarts, LoopConnects, LoopWakes, LoopEof,
     LoopEnded, LoopCancelled, CancelSwallowed, LoopLeaves, loopUnchanged, sendVars, dataVars
<1>5. ASSUME NEW s \in Senders, NEW w \in BOOLEAN, Send(s, w)
      PROVE  ReportsInv'
  <2>1. pc[s] = "idle" /\ last' = last /\ reported' = reported
    BY <1>5 DEF Send, sendUnchanged
  <2>2. CASE pc' = [pc EXCEPT ![s] = "connecting"] /\ UNCHANGED <<rx, expecting>>
    <3>1. Awaited' => Awaited
      BY <1>1, <2>2, QueuedWaitsOn
    <3>2. QED BY <2>1, <2>2, <3>1, SendReports
  <2>3. CASE owner = NoSender /\ Write(s, w)
    BY <1>1, <2>1, <2>3, WriteReports, SendReports DEF Write
  <2>4. CASE Queue(s)
    <3>1. Awaited' => Awaited
      BY <1>1, <2>4, QueuedWaitsOn DEF Queue
    <3>2. QED BY <2>1, <2>4, <3>1, SendReports DEF Queue
  <2>5. QED BY <1>5, <2>2, <2>3, <2>4 DEF Send
<1>6. ASSUME NEW s \in Senders, SendConnects(s)
      PROVE  ReportsInv'
  <2>1. pc[s] = "connecting" /\ last' = last /\ reported' = reported
    BY <1>6 DEF SendConnects, sendUnchanged
  <2>2. CASE owner = NoSender /\ Wrote(s, wait[s])
    BY <1>1, <2>1, <2>2, WriteReports, SendReports
  <2>3. CASE Queue(s)
    <3>1. Awaited' => Awaited
      BY <1>1, <2>3, QueuedWaitsOn DEF Queue
    <3>2. QED BY <2>1, <2>3, <3>1, SendReports DEF Queue
  <2>4. CASE pc' = [pc EXCEPT ![s] = "idle"] /\ UNCHANGED <<rx, expecting>>
    <3>1. Awaited' => Awaited
      BY <1>1, <2>4, QueuedWaitsOn
    <3>2. QED BY <2>1, <2>4, <3>1, SendReports
  <2>5. QED BY <1>6, <2>2, <2>3, <2>4 DEF SendConnects
<1>7. ASSUME NEW s \in Senders, Granted(s)
      PROVE  ReportsInv'
  <2>1. last' = last /\ reported' = reported
    BY <1>7 DEF Granted, sendUnchanged
  <2>2. pc[s] = "granted" /\ owner = s /\ (Wrote(s, wait[s]) \/ WriteFails(s, wait[s]))
    BY <1>1, <1>7 DEF Granted, Write, LockInv, LockOK
  <2>3. ~Awaited' \/ (rx' = <<>> /\ expecting')
    BY <1>1, <2>2, WriteReports
  <2>4. QED BY <2>1, <2>3, SendReports
<1>8. ASSUME NEW s \in Senders, TakeReply(s) \/ Timeout(s)
      PROVE  ReportsInv'
  <2>1. owner = s /\ Leave(s)
    BY <1>1, <1>8 DEF TakeReply, Timeout, LockInv, LockOK
  <2>2. ~Awaited'
    BY <1>1, <2>1, LeaveEndsWait
  <2>3. CASE TakeReply(s)
    BY <2>2, <2>3, TakeReports
  <2>4. CASE Timeout(s)
    BY <2>2, <2>4, SendReports DEF Timeout, sendUnchanged
  <2>5. QED BY <1>8, <2>3, <2>4
<1>9. ASSUME NEW c \in Conns, DeviceSends(c) \/ PeerCloses(c)
      PROVE  ReportsInv'
  BY <1>2, <1>9 DEF DeviceSends, PeerCloses, sendVars
<1>10. QED BY <1>2, <1>3, <1>4, <1>5, <1>6, <1>7, <1>8, <1>9 DEF Next, SenderStep, vars

\* Data is reported at most once and in the order it was read, by whichever of the read
\* loop and the sends reports it, over any number of connections (serial_session.py:138).
THEOREM ReportsAreOrdered == Spec => []ReportedInOrder
<1>1. Init => OrderInv
  <2> SUFFICES ASSUME Init PROVE OrderInv
      OBVIOUS
  <2>1. Increasing
    BY DEF Init, Increasing
  <2>2. reported = <<>> /\ \A s \in Senders : pc[s] = "idle"
    BY DEF Init
  <2>3. ~Awaited
    BY <2>2 DEF Awaited
  <2>4. ReportsInv
    BY <2>2, <2>3 DEF ReportsInv, HeldInOrder
  <2>5. QED BY NewAtFirst, <2>1, <2>4 DEF OrderInv
<1>2. OrderInv /\ [Next]_vars => OrderInv'
  BY NewStep, IncreasingStep, ReportsStep DEF OrderInv, NewInv
<1>3. OrderInv => ReportedInOrder
  BY DEF OrderInv, ReportsInv, ReportedInOrder, Before
<1>4. QED BY <1>1, <1>2, <1>3, PTL DEF Spec

-----------------------------------------------------------------------------
(* Stopping. After stop() has asked, only the loop that it joins can open a *)
(* connection, and the loop ends with its cancellation.                     *)

\* A connection that is not closed is the writer's.
Owned == \A c \in Conns : link[c] \in {"open", "eof"} => writer = c

\* The read loop exists from the end of start() until it is joined, and has one
\* cancellation at most, which it did not get yet.
LoopLives ==
    /\ control \in {"new", "starting", "refused", "closing", "stopped"} => loop \notin Running
    /\ control \in {"new", "starting", "refused", "started"} => ~closed /\ ~cancelled
    /\ control = "started" => loop # "leaving"
    /\ cancelled => loop \in Running \ {"leaving"}

StopClean ==
    clean =>
        /\ loop # "failed"
        /\ control \in {"stopping", "closing", "stopped"} => \A s \in Senders : pc[s] = "idle"
        /\ control = "stopped" => writer = None

StopInv == Owned /\ LoopLives /\ StopClean

LEMMA InstallOwned ==
  ASSUME ConnTypes, Owned, Install
  PROVE  Owned'
BY DEF ConnTypes, Owned, Install, Shut, Conns, None

LEMMA CloseOwned ==
  ASSUME ConnTypes, Owned, Close
  PROVE  Owned'
BY DEF ConnTypes, Owned, Close, Shut, Conns, None

LEMMA HeadStops ==
  ASSUME SessionInv, Owned, LoopHead
  PROVE  /\ Owned' /\ (writer' = writer \/ writer' = None)
         /\ loop' \in {"leaving", "reading", "connecting"}
         /\ loop' = "leaving" => closed
<1>1. CASE closed /\ loop' = "leaving" /\ Close
  BY <1>1, CloseOwned DEF SessionInv, Close
<1>2. CASE ~closed /\ connected /\ loop' = "reading" /\ UNCHANGED <<clientVars, link>>
  BY <1>2 DEF Owned, clientVars
<1>3. CASE ~closed /\ ~connected /\ loop' = "connecting" /\ Close
  BY <1>3, CloseOwned DEF SessionInv, Close
<1>4. QED BY <1>1, <1>2, <1>3 DEF LoopHead

\* A step of the loop: it ends, or goes on and is not "leaving" but for a stop.
LEMMA LoopStops ==
  ASSUME SessionInv, StopInv, LoopStep
  PROVE  /\ Owned' /\ UNCHANGED <<control, closed, pc>>
         /\ loop \in Running
         /\ clean' => clean /\ loop' # "failed"
         /\ loop' = "leaving" => closed \/ cancelled
         /\ cancelled' => cancelled /\ loop' = loop
<1> USE DEF StopInv, LoopLives, StopClean, LoopStates, Running
<1>1. ConnTypes
  BY DEF SessionInv
<1>2. CASE LoopStarts \/ LoopWakes \/ LoopReads
  BY <1>2, HeadStops DEF LoopStarts, LoopWakes, LoopReads, loopUnchanged, sendVars
<1>3. CASE LoopConnects
  BY <1>1, <1>3, InstallOwned, CloseOwned DEF LoopConnects, loopUnchanged, sendVars, Owned,
     clientVars
<1>4. CASE LoopEof \/ LoopCancelled
  BY <1>1, <1>4, CloseOwned DEF LoopEof, LoopCancelled, loopUnchanged, sendVars, Owned, clientVars
<1>5. CASE LoopEnded \/ CancelSwallowed \/ LoopLeaves
  BY <1>5 DEF LoopEnded, CancelSwallowed, LoopLeaves, loopUnchanged, sendVars, dataVars, Owned,
     clientVars
<1>6. QED BY <1>2, <1>3, <1>4, <1>5 DEF LoopStep

LEMMA StopStep == TypeInv /\ StopInv /\ [Next]_vars => StopInv'
<1> SUFFICES ASSUME TypeInv, StopInv, [Next]_vars PROVE StopInv'
    OBVIOUS
<1> USE DEF LoopStates, Running
<1>1. /\ SessionInv /\ ConnTypes /\ LoopTypes
      /\ pc \in [Senders -> {"idle", "connecting", "queued", "granted", "waiting"}]
  BY DEF TypeInv, SessionInv, LockInv, LockTypes
<1>2. CASE LoopStep
  <2>1. /\ Owned' /\ UNCHANGED <<control, closed, pc>>
        /\ loop \in Running
        /\ clean' => clean /\ loop' # "failed"
        /\ loop' = "leaving" => closed \/ cancelled
        /\ cancelled' => cancelled /\ loop' = loop
    BY <1>1, <1>2, LoopStops
  <2>2. LoopLives'
    BY <1>1, <2>1 DEF StopInv, LoopLives, LoopTypes
  <2>3. control \in {"started", "stopping"}
    BY <1>1, <2>1 DEF StopInv, LoopLives, LoopTypes
  <2>4. StopClean'
    BY <2>1, <2>3 DEF StopInv, StopClean
  <2>5. QED BY <2>1, <2>2, <2>4 DEF StopInv
<1>3. CASE Start
  BY <1>3 DEF Start, StopInv, Owned, LoopLives, StopClean, clientVars, dataVars, loopVars, sendVars
<1>4. CASE Started
  <2>1. Owned'
    BY <1>1, <1>4, InstallOwned DEF Started, StopInv, Owned, clientVars
  <2>2. LoopLives' /\ StopClean'
    BY <1>4 DEF Started, StopInv, LoopLives, StopClean
  <2>3. QED BY <2>1, <2>2 DEF StopInv
<1>5. CASE Stop
  <2>1. Owned'
    BY <1>5 DEF Stop, StopInv, Owned, clientVars, dataVars
  <2>2. LoopLives'
    BY <1>1, <1>5 DEF Stop, StopInv, LoopLives, LoopTypes
  <2>3. StopClean'
    BY <1>5 DEF Stop, StopInv, StopClean, sendVars, clientVars
  <2>4. QED BY <2>1, <2>2, <2>3 DEF StopInv
<1>6. CASE Stopping
  BY <1>1, <1>6 DEF Stopping, LoopJoined, StopInv, Owned, LoopLives, StopClean, clientVars,
     dataVars, loopVars, sendVars
<1>7. CASE Stopped
  <2>1. Owned'
    BY <1>1, <1>7, CloseOwned DEF Stopped, StopInv
  <2>2. LoopLives' /\ StopClean'
    BY <1>7 DEF Stopped, Close, StopInv, LoopLives, StopClean, loopVars, sendVars
  <2>3. QED BY <2>1, <2>2 DEF StopInv
<1>8. ASSUME NEW s \in Senders, NEW w \in BOOLEAN, SenderStep(s) \/ Send(s, w)
      PROVE  StopInv'
  <2>1. /\ UNCHANGED <<closed, loopVars, control>>
        /\ Install \/ UNCHANGED <<clientVars, link>>
    BY <1>8, SenderInstalls
  <2>2. Owned'
    BY <1>1, <2>1, InstallOwned DEF StopInv, Owned, clientVars
  <2>3. LoopLives'
    BY <2>1 DEF StopInv, LoopLives, loopVars
  <2>4. clean' => clean
    BY <1>8 DEF SenderStep, Send, SendConnects, Granted, TakeReply, Timeout, Write, Wrote,
       WriteFails, Queue
  <2>5. pc[s] # "idle" \/ control \in {"started", "refused"}
    BY <1>8 DEF SenderStep, Send, SendConnects, Granted, TakeReply, Timeout
  <2>6. StopClean'
    BY <2>1, <2>4, <2>5 DEF StopInv, StopClean, loopVars
  <2>7. QED BY <2>2, <2>3, <2>6 DEF StopInv
<1>9. ASSUME NEW c \in Conns, DeviceSends(c) \/ PeerCloses(c)
      PROVE  StopInv'
  <2>1. Owned'
    BY <1>1, <1>9 DEF DeviceSends, PeerCloses, StopInv, Owned, ConnTypes, clientVars
  <2>2. LoopLives' /\ StopClean'
    BY <1>9 DEF DeviceSends, PeerCloses, StopInv, LoopLives, StopClean, clientVars, loopVars,
       sendVars
  <2>3. QED BY <2>1, <2>2 DEF StopInv
<1>10. CASE UNCHANGED vars
  BY <1>10 DEF vars, StopInv, Owned, LoopLives, StopClean
<1>11. QED
  BY <1>2, <1>3, <1>4, <1>5, <1>6, <1>7, <1>8, <1>9, <1>10 DEF Next

\* After stop() no connection is open and no read loop runs, whatever was going on in
\* the read loop when it was cancelled, unless a send was under way or the control
\* client swallowed the cancellation (serial_session.py:66).
THEOREM StoppedPortIsFree == Spec => []StopFreesThePort
<1>1. Init => StopInv
  <2> SUFFICES ASSUME Init PROVE StopInv
      OBVIOUS
  <2>1. Owned /\ LoopLives
    BY DEF Init, Owned, LoopLives, Running, LoopStates
  <2>2. StopClean
    BY DEF Init, StopClean, None
  <2>3. QED BY <2>1, <2>2 DEF StopInv
<1>2. TypeInv /\ [Next]_vars => TypeInv'
  BY SessionStep, LockStep, SendTypesStep, DataStep DEF TypeInv
<1>3. TypeInv /\ StopInv => StopFreesThePort
  BY DEF TypeInv, SessionInv, ConnTypes, StopInv, Owned, LoopLives, StopClean, StopFreesThePort,
     Conns, None
<1>4. QED BY TypeAtFirst, StopStep, <1>1, <1>2, <1>3, PTL DEF Spec

-----------------------------------------------------------------------------
(* Holding back.                                                            *)

LEMMA HoldsStep ==
  TypeInv /\ HoldsBackOnlyForASendUntilTrouble /\ [Next]_vars
  => HoldsBackOnlyForASendUntilTrouble'
<1> SUFFICES ASSUME TypeInv, HoldsBackOnlyForASendUntilTrouble, [Next]_vars,
                    clean', expecting'
             PROVE  Awaited'
    BY DEF HoldsBackOnlyForASendUntilTrouble, HoldsBackOnlyForASend, Awaited
<1>1. pc \in [Senders -> {"idle", "connecting", "queued", "granted", "waiting"}]
  BY DEF TypeInv, LockInv, LockTypes
<1>2. ASSUME clean, expecting PROVE Awaited
  BY <1>2 DEF HoldsBackOnlyForASendUntilTrouble, HoldsBackOnlyForASend, Awaited
<1>3. CASE UNCHANGED <<expecting, pc>> /\ (clean' => clean)
  BY <1>2, <1>3 DEF Awaited
<1>4. ASSUME NEW s \in Senders, pc[s] # "waiting",
             NEW p \in {"idle", "connecting", "queued"},
             pc' = [pc EXCEPT ![s] = p], UNCHANGED <<expecting, clean>>
      PROVE  Awaited'
  BY <1>1, <1>2, <1>4 DEF Awaited
<1>5. ASSUME NEW s \in Senders, NEW w, Wrote(s, w) \/ WriteFails(s, w)
      PROVE  Awaited'
  BY <1>1, <1>5 DEF Wrote, WriteFails, Awaited
<1>6. ASSUME NEW s \in Senders, NEW w \in BOOLEAN, Send(s, w)
      PROVE  Awaited'
  BY <1>4, <1>5, <1>6 DEF Send, Write, Queue
<1>7. ASSUME NEW s \in Senders, SenderStep(s)
      PROVE  Awaited'
  BY <1>4, <1>5, <1>7 DEF SenderStep, SendConnects, Granted, TakeReply, Timeout, Write, Queue
<1>8. CASE Start \/ Started \/ Stop \/ Stopping \/ Stopped
  BY <1>3, <1>8 DEF Start, Started, Stop, Stopping, Stopped, sendVars
<1>9. CASE LoopStep
  BY <1>3, <1>9 DEF LoopStep, LoopStarts, LoopConnects, LoopWakes, LoopReads, LoopEof, LoopEnded,
     LoopCancelled, CancelSwallowed, LoopLeaves, loopUnchanged, sendVars
<1>10. ASSUME NEW c \in Conns, DeviceSends(c) \/ PeerCloses(c)
       PROVE  Awaited'
  BY <1>3, <1>10 DEF DeviceSends, PeerCloses, sendVars
<1>11. QED BY <1>3, <1>6, <1>7, <1>8, <1>9, <1>10 DEF Next, vars

\* As long as no send fails, text is held back only while a send waits for it: the flag
\* is cleared by whoever set it before it leaves (serial_session.py:135).
THEOREM HeldBackForASend == Spec => []HoldsBackOnlyForASendUntilTrouble
<1>1. Init => HoldsBackOnlyForASendUntilTrouble
  BY DEF Init, HoldsBackOnlyForASendUntilTrouble, HoldsBackOnlyForASend
<1>2. TypeInv /\ [Next]_vars => TypeInv'
  BY SessionStep, LockStep, SendTypesStep, DataStep DEF TypeInv
<1>3. QED BY TypeAtFirst, HoldsStep, <1>1, <1>2, PTL DEF Spec

=============================================================================
