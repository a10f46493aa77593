-------------------------- MODULE ItachClientProofs --------------------------
(***************************************************************************)
(* Proofs about ItachClient, for every set of callers and every bound.     *)
(***************************************************************************)
EXTENDS ItachClient, FiniteSetTheorems, TLAPS

-----------------------------------------------------------------------------
(* The lock.  Its invariant needs nothing of the rest of the state.        *)

\* Nobody waits for the lock twice.
WaitersDistinct ==
    \A i, j \in 1 .. Len(waiters) : waiters[i] = waiters[j] => i = j

LockInv == LockTypes /\ LockDiscipline /\ WaitersDistinct

\* A caller that moves on without touching the lock, from a place where it holds
\* it to another one, or from a place outside to another one.
LEMMA MoveKeepsLock ==
  ASSUME LockInv, NEW t \in Callers, NEW label \in Pcs \ {"queued"},
         pc[t] # "queued", pc[t] \in Holding <=> label \in Holding,
         Goto(t, label), UNCHANGED <<owner, waiters>>
  PROVE  LockInv'
<1> USE DEF LockInv, Goto
<1>1. LockTypes'
  BY DEF LockTypes
<1>2. LockDiscipline'
  BY DEF LockTypes, LockDiscipline, Holding
<1>3. WaitersDistinct'
  BY DEF WaitersDistinct
<1>4. QED BY <1>1, <1>2, <1>3

\* A caller takes the free lock.
LEMMA AcquireKeepsLock ==
  ASSUME LockInv, NEW t \in Callers, NEW label \in Holding,
         pc[t] \notin Holding, pc[t] # "queued", owner = NoCaller,
         Goto(t, label), owner' = t, UNCHANGED waiters
  PROVE  LockInv'
<1> USE CallersAssumption DEF LockInv, Goto, CallersAssumption
<1>1. LockTypes'
  BY DEF LockTypes, Holding, Pcs
<1>2. LockDiscipline'
  BY DEF LockTypes, LockDiscipline, Holding
<1>3. WaitersDistinct'
  BY DEF WaitersDistinct
<1>4. QED BY <1>1, <1>2, <1>3

\* A caller stands in line.
LEMMA EnqueueKeepsLock ==
  ASSUME LockInv, NEW t \in Callers, pc[t] \notin Holding, pc[t] # "queued",
         owner # NoCaller, Goto(t, "queued"), waiters' = Append(waiters, t),
         UNCHANGED owner
  PROVE  LockInv'
<1> USE DEF LockInv, Goto
<1>1. LockTypes'
  BY DEF LockTypes, Pcs
<1>2. LockDiscipline'
  BY DEF LockTypes, LockDiscipline, Holding
<1>3. WaitersDistinct'
  BY DEF WaitersDistinct, LockTypes, LockDiscipline
<1>4. QED BY <1>1, <1>2, <1>3

\* The holder leaves: the first waiter becomes the holder.
LEMMA ReleaseKeepsLock ==
  ASSUME LockInv, NEW t \in Callers, NEW label \in Pcs \ (Holding \cup {"queued"}),
         pc[t] \in Holding, Release(t, label)
  PROVE  LockInv'
<1> USE DEF LockInv
<1>1. CASE waiters = <<>>
  <2>1. owner' = NoCaller /\ waiters' = <<>> /\ pc' = [pc EXCEPT ![t] = label]
    BY <1>1 DEF Release, Goto
  <2>2. LockTypes' /\ WaitersDistinct'
    BY <1>1, <2>1 DEF LockTypes, WaitersDistinct
  <2>3. LockDiscipline'
    BY <1>1, <2>1, CallersAssumption DEF LockTypes, LockDiscipline, Holding, CallersAssumption
  <2>4. QED BY <2>2, <2>3
<1>2. CASE waiters # <<>>
  <2> DEFINE u == Head(waiters)
  <2>1. /\ owner' = u /\ waiters' = Tail(waiters)
        /\ pc' = [pc EXCEPT ![t] = label, ![u] = "granted"]
    BY <1>2 DEF Release
  <2>2. u \in Callers /\ u = waiters[1] /\ Len(waiters) \in Nat \ {0}
    BY <1>2 DEF LockTypes
  <2>3. u # t /\ pc[u] = "queued"
    BY <2>2 DEF LockDiscipline, Holding
  <2>4. LockTypes'
    BY <1>2, <2>1, <2>2 DEF LockTypes, Pcs
  <2>5. \A i \in 1 .. Len(waiters') : waiters'[i] = waiters[i + 1] /\ i + 1 \in 2 .. Len(waiters)
    BY <1>2, <2>1, <2>2 DEF LockTypes
  <2>6. \A i \in 2 .. Len(waiters) : waiters'[i - 1] = waiters[i] /\ i - 1 \in 1 .. Len(waiters')
    BY <1>2, <2>1, <2>2 DEF LockTypes
  <2>7. WaitersDistinct'
    BY <2>5, <2>2 DEF WaitersDistinct
  <2>8. ASSUME NEW x \in Callers
        PROVE  pc'[x] = "queued" <=> \E i \in 1 .. Len(waiters') : waiters'[i] = x
    <3>1. (\E i \in 1 .. Len(waiters') : waiters'[i] = x)
             <=> \E i \in 2 .. Len(waiters) : waiters[i] = x
      BY <2>2, <2>5, <2>6
    <3>2. x # u => ((\E i \in 2 .. Len(waiters) : waiters[i] = x) <=> pc[x] = "queued")
      BY <2>2 DEF LockDiscipline
    <3>3. ~ \E i \in 2 .. Len(waiters) : waiters[i] = u
      BY <2>2 DEF WaitersDistinct
    <3>4. pc[t] # "queued" /\ label # "queued"
      BY DEF Holding
    <3>5. pc'[x] = IF x = u THEN "granted" ELSE IF x = t THEN label ELSE pc[x]
      BY <2>1, <2>2 DEF LockTypes
    <3>6. QED BY <3>1, <3>2, <3>3, <3>4, <3>5
  <2>9. \A x \in Callers : pc'[x] \in Holding <=> owner' = x
    BY <2>1, <2>2, <2>3 DEF LockTypes, LockDiscipline, Holding
  <2>10. owner' # NoCaller
    BY <2>1, <2>2, CallersAssumption DEF CallersAssumption
  <2>11. QED BY <2>4, <2>7, <2>8, <2>9, <2>10 DEF LockDiscipline
<1>3. QED BY <1>1, <1>2

\* Where the caller goes when an exchange ends, or disconnect() starts.
LEMMA DisconnectLabelOutside == DisconnectLabel \in {"idle", "stopping", "closing"}
BY DEF DisconnectLabel, CloseLabel, ReadTaskGone

\* Writing a frame moves the holder from one wait to another.
LEMMA WriteMoves ==
  ASSUME NEW t \in Callers, NEW k, WriteFrame(t, k)
  PROVE  \E label \in {"waiting", "draining"} : Goto(t, label)
BY DEF WriteFrame

LEMMA EndKeepsLock ==
  ASSUME LockInv, NEW t \in Callers, NEW how, pc[t] \in Holding,
         EndExchange(t, how) \/ Reset(t, how)
  PROVE  LockInv'
<1>1. \E label \in {"idle", "stopping", "closing"} : Release(t, label)
  BY DisconnectLabelOutside DEF EndExchange, Reset
<1>2. QED BY <1>1, ReleaseKeepsLock DEF Pcs, Holding

\* Every step keeps the lock's invariant.
LEMMA LockStep == LockInv /\ [Next]_vars => LockInv'
<1> SUFFICES ASSUME LockInv, [Next]_vars PROVE LockInv'
    OBVIOUS
<1> USE DEF lockVars
<1>1. ASSUME NEW t \in Callers, NEW o \in Operations, Submit(t, o) PROVE LockInv'
  BY <1>1, MoveKeepsLock DEF Submit, Pcs, Holding
<1>2. ASSUME NEW t \in Callers, UseConnection(t) PROVE LockInv'
  <2>1. CASE owner = NoCaller
    <3>1. owner' = t /\ UNCHANGED waiters /\ WriteFrame(t, 1) /\ pc[t] = "start"
      BY <1>2, <2>1 DEF UseConnection
    <3>2. QED BY <2>1, <3>1, WriteMoves, AcquireKeepsLock DEF Holding
  <2>2. CASE owner # NoCaller
    BY <1>2, <2>2, EnqueueKeepsLock DEF UseConnection, Holding
  <2>3. QED BY <2>1, <2>2
<1>3. ASSUME NEW t \in Callers, Reconnect(t) PROVE LockInv'
  BY <1>3, MoveKeepsLock DEF Reconnect, Pcs, Holding
<1>4. ASSUME NEW t \in Callers, Rejoined(t) PROVE LockInv'
  BY <1>4, MoveKeepsLock DEF Rejoined, Pcs, Holding
<1>5. ASSUME NEW t \in Callers, Opened(t) PROVE LockInv'
  <2>1. CASE owner = NoCaller
    BY <1>5, <2>1, AcquireKeepsLock DEF Opened, Holding
  <2>2. CASE owner # NoCaller
    BY <1>5, <2>2, EnqueueKeepsLock DEF Opened, Holding
  <2>3. QED BY <2>1, <2>2
<1>6. ASSUME NEW t \in Callers, OpenFailed(t) PROVE LockInv'
  <2>1. CASE UNCHANGED pc
    BY <1>6, <2>1 DEF OpenFailed, LockInv, LockTypes, LockDiscipline, WaitersDistinct
  <2>2. CASE Goto(t, "idle")
    BY <1>6, <2>2, MoveKeepsLock DEF OpenFailed, Pcs, Holding
  <2>3. QED BY <1>6, <2>1, <2>2 DEF OpenFailed
<1>7. ASSUME NEW t \in Callers, Granted(t) PROVE LockInv'
  <2>1. CASE CrashOnWriter(t)
    BY <1>7, <2>1, EndKeepsLock DEF Granted, CrashOnWriter, Holding
  <2>2. CASE WriteFrame(t, 1) /\ UNCHANGED lockVars
    BY <1>7, <2>2, WriteMoves, MoveKeepsLock DEF Granted, Pcs, Holding
  <2>3. CASE Goto(t, "payload") /\ UNCHANGED lockVars
    BY <1>7, <2>3, MoveKeepsLock DEF Granted, Pcs, Holding
  <2>4. QED BY <1>7, <2>1, <2>2, <2>3 DEF Granted
<1>8. ASSUME NEW t \in Callers, Payload(t) PROVE LockInv'
  <2>1. CASE owner = NoCaller
    BY <1>8, <2>1, AcquireKeepsLock DEF Payload, Holding
  <2>2. CASE owner # NoCaller
    BY <1>8, <2>2, EnqueueKeepsLock DEF Payload, Holding
  <2>3. QED BY <2>1, <2>2
<1>9. ASSUME NEW t \in Callers, PayloadEnds(t) PROVE LockInv'
  BY <1>9, EndKeepsLock DEF PayloadEnds, Holding
<1>10. ASSUME NEW t \in Callers, TakeReply(t) \/ TakeRefusal(t) PROVE LockInv'
  BY <1>10, EndKeepsLock DEF TakeReply, TakeRefusal, Takes, Holding
<1>11. ASSUME NEW t \in Callers, TakeBusy(t) PROVE LockInv'
  BY <1>11, MoveKeepsLock DEF TakeBusy, Takes, Pcs, Holding
<1>12. ASSUME NEW t \in Callers, Resend(t) PROVE LockInv'
  <2>1. CASE CrashOnWriter(t)
    BY <1>12, <2>1, EndKeepsLock DEF Resend, CrashOnWriter, Holding
  <2>2. CASE WriteFrame(t, tries[t] + 1) /\ UNCHANGED lockVars
    BY <1>12, <2>2, WriteMoves, MoveKeepsLock DEF Resend, Pcs, Holding
  <2>3. QED BY <1>12, <2>1, <2>2 DEF Resend
<1>13. ASSUME NEW t \in Callers, GiveUp(t) \/ Timeout(t) \/ DrainFails(t) PROVE LockInv'
  BY <1>13, EndKeepsLock DEF GiveUp, Timeout, DrainFails, Holding
<1>14. ASSUME NEW t \in Callers, Disconnect(t) PROVE LockInv'
  BY <1>14, DisconnectLabelOutside, MoveKeepsLock DEF Disconnect, Pcs, Holding
<1>15. ASSUME NEW t \in Callers, Stopped(t) PROVE LockInv'
  BY <1>15, MoveKeepsLock DEF Stopped, CloseLabel, Pcs, Holding
<1>16. ASSUME NEW t \in Callers, Closed(t) PROVE LockInv'
  BY <1>16, MoveKeepsLock DEF Closed, Pcs, Holding
<1>17. CASE UNCHANGED <<owner, waiters, pc>>
  BY <1>17 DEF LockInv, LockTypes, LockDiscipline, WaitersDistinct
<1>18. ASSUME NEW t \in Callers, TakeOther(t) PROVE LockInv'
  BY <1>17, <1>18 DEF TakeOther
<1>19. ASSUME NEW c \in Conns, LoopStep(c) PROVE LockInv'
  BY <1>17, <1>19 DEF LoopStep, LoopStarts, LoopReads, LoopEof, LoopCancelled, loopUnchanged
<1>20. ASSUME NEW c \in Conns, Gateway(c) PROVE LockInv'
  BY <1>17, <1>20 DEF Gateway, GatewayAnswers, GatewayEvent, GatewayCloses
<1>21. CASE UNCHANGED vars
  BY <1>17, <1>21 DEF vars
<1>22. QED
  BY <1>1, <1>2, <1>3, <1>4, <1>5, <1>6, <1>7, <1>8, <1>9, <1>10, <1>11, <1>12, <1>13,
     <1>14, <1>15, <1>16, <1>18, <1>19, <1>20, <1>21 DEF Next, CallerStep

\* The write lock serializes the exchanges (client.py:273, 423, 516): only its
\* holder is between its write and the end of its wait, whoever waits stands in
\* line, and a caller that leaves hands the lock on.
THEOREM LockIsDisciplined == Spec => []LockDiscipline
<1>1. Init => LockInv
  BY CallersAssumption
  DEF Init, LockInv, LockTypes, LockDiscipline, WaitersDistinct, Pcs, Holding, CallersAssumption
<1>2. LockInv => LockDiscipline
  BY DEF LockInv
<1>3. QED BY <1>1, <1>2, LockStep, PTL DEF Spec

-----------------------------------------------------------------------------
(* The types, from the parts that need nothing to the ones that build on     *)
(* them.                                                                     *)

\* A loop that waits for data waits on a reader.
LoopOK == \A c \in Conns : loop[c] = "reading" => source[c] \in Conns

SessionInv == SessionTypes /\ LoopOK

LEMMA ShutTyped == ASSUME SessionTypes, NEW w \in Conns \cup {None}
                   PROVE  Shut(w) \in [Conns -> LinkStates]
BY DEF SessionTypes, Shut, LinkStates

LEMMA CloseWriterTyped ==
  ASSUME SessionTypes, CloseWriterNowait
  PROVE  /\ writer' \in Conns \cup {None} /\ reader' \in Conns \cup {None}
         /\ link' \in [Conns -> LinkStates]
BY ShutTyped DEF SessionTypes, CloseWriterNowait

LEMMA LoopEndsTyped ==
  ASSUME SessionInv, NEW c \in Conns, NEW how \in {"done", "failed"}, LoopEnds(c, how),
         UNCHANGED <<readTask, closed, source>>
  PROVE  SessionInv'
<1>1. /\ writer' \in Conns \cup {None} /\ reader' \in Conns \cup {None}
      /\ link' \in [Conns -> LinkStates]
  BY CloseWriterTyped DEF LoopEnds, SessionInv, SessionTypes
<1>2. QED BY <1>1 DEF LoopEnds, SessionInv, SessionTypes, LoopOK, LoopStates

LEMMA NextReadTyped ==
  ASSUME SessionInv, NEW c \in Conns, NextRead(c), UNCHANGED <<readTask, closed>>
  PROVE  SessionInv'
<1>1. CASE closed
  BY <1>1, LoopEndsTyped DEF NextRead
<1>2. CASE ~closed /\ (reader = None \/ ReaderTaken(c))
  BY <1>2, LoopEndsTyped DEF NextRead
<1>3. CASE ~closed /\ reader # None /\ ~ReaderTaken(c)
  BY <1>3 DEF NextRead, SessionInv, SessionTypes, LoopOK, LoopStates
<1>4. QED BY <1>1, <1>2, <1>3

\* The session's part of the frames a caller writes.
LEMMA WriteTyped ==
  ASSUME SessionInv, NEW t \in Callers, NEW k, WriteFrame(t, k),
         UNCHANGED <<clientVars, loopVars>>
  PROVE  SessionInv'
<1>1. link' \in [Conns -> LinkStates]
  BY ShutTyped DEF WriteFrame, SessionInv, SessionTypes
<1>2. QED BY <1>1 DEF SessionInv, SessionTypes, LoopOK, clientVars, loopVars

LEMMA CloseOwnTyped ==
  ASSUME SessionTypes, CloseOwnWriter
  PROVE  reader' \in Conns \cup {None} /\ link' \in [Conns -> LinkStates]
BY ShutTyped DEF SessionTypes, CloseOwnWriter

LEMMA CancelTyped ==
  ASSUME SessionInv, NEW c \in Conns, loop' = Cancelled(c), UNCHANGED source
  PROVE  loop' \in [Conns -> LoopStates] /\ LoopOK'
BY DEF SessionInv, SessionTypes, LoopOK, Cancelled, LoopStates

LEMMA DisconnectTyped ==
  ASSUME SessionInv, NEW t \in Callers, DisconnectBegins(t)
  PROVE  SessionInv'
<1> USE DEF DisconnectBegins, SessionInv
<1>1. CASE ReadTaskRunning
  <2>1. readTask \in Conns
    BY <1>1 DEF ReadTaskRunning, SessionTypes
  <2>2. loop' = Cancelled(readTask) /\ UNCHANGED <<writer, reader, readTask, link, source>>
    BY <1>1 DEF ReadTaskGone, ReadTaskFailed, ReadTaskRunning, Alive
  <2>3. QED BY <2>1, <2>2, CancelTyped DEF SessionTypes
<1>2. CASE ReadTaskFailed
  BY <1>2 DEF ReadTaskGone, ReadTaskFailed, ReadTaskRunning, Alive, SessionTypes, LoopOK
<1>3. CASE ReadTaskGone
  <2>1. readTask' = None /\ CloseOwnWriter /\ UNCHANGED <<loop, source, writer>>
    BY <1>3 DEF ReadTaskGone
  <2>2. QED BY <2>1, CloseOwnTyped DEF SessionTypes, LoopOK
<1>4. QED BY <1>1, <1>2, <1>3 DEF ReadTaskGone

LEMMA SessionStep == SessionInv /\ [Next]_vars => SessionInv'
<1> SUFFICES ASSUME SessionInv, [Next]_vars PROVE SessionInv'
    OBVIOUS
<1> USE DEF clientVars, loopVars
<1>1. CASE UNCHANGED <<clientVars, loopVars, link>>
  BY <1>1 DEF SessionInv, SessionTypes, LoopOK
<1>2. ASSUME NEW t \in Callers, NEW o \in Operations, Submit(t, o) PROVE SessionInv'
  BY <1>1, <1>2 DEF Submit
<1>3. ASSUME NEW t \in Callers, UseConnection(t) PROVE SessionInv'
  <2>1. CASE WriteFrame(t, 1)
    BY <1>3, <2>1, WriteTyped DEF UseConnection
  <2>2. CASE UNCHANGED link
    BY <1>1, <1>3, <2>2 DEF UseConnection
  <2>3. QED BY <1>3, <2>1, <2>2 DEF UseConnection
<1>4. ASSUME NEW t \in Callers, Reconnect(t) PROVE SessionInv'
  <2>1. CASE ReadTaskRunning /\ loop' = Cancelled(readTask) /\ UNCHANGED <<writer, reader, readTask, link>>
    <3>1. readTask \in Conns
      BY <2>1 DEF ReadTaskRunning, SessionInv, SessionTypes
    <3>2. QED BY <1>4, <2>1, <3>1, CancelTyped DEF Reconnect, SessionInv, SessionTypes
  <2>2. CASE UNCHANGED <<writer, reader, readTask, link, loop>>
    BY <1>1, <1>4, <2>2 DEF Reconnect
  <2>3. CASE readTask' = None /\ CloseWriterNowait /\ UNCHANGED loop
    BY <1>4, <2>3, CloseWriterTyped DEF Reconnect, SessionInv, SessionTypes, LoopOK
  <2>4. QED BY <1>4, <2>1, <2>2, <2>3 DEF Reconnect
<1>5. ASSUME NEW t \in Callers, Rejoined(t) PROVE SessionInv'
  <2>1. CASE UNCHANGED <<writer, reader, readTask, link>>
    BY <1>1, <1>5, <2>1 DEF Rejoined
  <2>2. CASE readTask' = None /\ CloseWriterNowait
    BY <1>5, <2>2, CloseWriterTyped DEF Rejoined, SessionInv, SessionTypes, LoopOK
  <2>3. QED BY <1>5, <2>1, <2>2 DEF Rejoined
<1>6. ASSUME NEW t \in Callers, Opened(t) PROVE SessionInv'
  <2>1. PICK c \in Conns :
          /\ link' = [Shut(writer) EXCEPT ![c] = "open"]
          /\ writer' = c /\ reader' = c /\ readTask' = c
          /\ loop' = [loop EXCEPT ![c] = "new"]
    BY <1>6 DEF Opened
  <2>2. link' \in [Conns -> LinkStates]
    BY <2>1, ShutTyped DEF SessionInv, SessionTypes, LinkStates
  <2>3. QED BY <1>6, <2>1, <2>2 DEF Opened, ClearClosed, SessionInv, SessionTypes, LoopOK, LoopStates
<1>7. ASSUME NEW t \in Callers, Granted(t) PROVE SessionInv'
  <2>1. CASE WriteFrame(t, 1) /\ UNCHANGED <<clientVars, loopVars>>
    BY <2>1, WriteTyped
  <2>2. QED BY <1>1, <1>7, <2>1 DEF Granted, CrashOnWriter, EndExchange
<1>8. ASSUME NEW t \in Callers, Resend(t) PROVE SessionInv'
  <2>1. CASE WriteFrame(t, tries[t] + 1) /\ UNCHANGED <<clientVars, loopVars>>
    BY <2>1, WriteTyped
  <2>2. QED BY <1>1, <1>8, <2>1 DEF Resend, CrashOnWriter, EndExchange
<1>9. ASSUME NEW t \in Callers, OpenFailed(t) \/ Payload(t) \/ PayloadEnds(t) PROVE SessionInv'
  BY <1>1, <1>9 DEF OpenFailed, Payload, PayloadEnds, EndExchange
<1>10. ASSUME NEW t \in Callers, TakeReply(t) \/ TakeRefusal(t) \/ TakeBusy(t) \/ TakeOther(t)
       PROVE SessionInv'
  BY <1>1, <1>10 DEF TakeReply, TakeRefusal, TakeBusy, TakeOther, EndExchange
<1>11. ASSUME NEW t \in Callers, GiveUp(t) \/ Timeout(t) \/ DrainFails(t) \/ Disconnect(t)
       PROVE SessionInv'
  <2>1. \/ DisconnectBegins(t)
        \/ UNCHANGED <<clientVars, loopVars, link>>
    BY <1>11 DEF GiveUp, Timeout, DrainFails, Disconnect, Reset, EndExchange
  <2>2. QED BY <1>1, <2>1, DisconnectTyped
<1>12. ASSUME NEW t \in Callers, Stopped(t) PROVE SessionInv'
  <2>1. CASE UNCHANGED <<readTask, reader, link>>
    BY <1>1, <1>12, <2>1 DEF Stopped
  <2>2. CASE readTask' = None /\ CloseOwnWriter
    BY <1>12, <2>2, CloseOwnTyped DEF Stopped, SessionInv, SessionTypes, LoopOK
  <2>3. QED BY <1>12, <2>1, <2>2 DEF Stopped
<1>13. ASSUME NEW t \in Callers, Closed(t) PROVE SessionInv'
  BY <1>13, CloseWriterTyped DEF Closed, SessionInv, SessionTypes, LoopOK
<1>14. ASSUME NEW c \in Conns, LoopStep(c) PROVE SessionInv'
  <2> USE DEF loopUnchanged
  <2>1. CASE LoopStarts(c) /\ ~NextRead(c)
    BY <1>14, <2>1 DEF LoopStarts, SessionInv, SessionTypes, LoopOK, LoopStates
  <2>2. CASE (LoopStarts(c) \/ LoopReads(c)) /\ NextRead(c)
    BY <2>2, NextReadTyped DEF LoopStarts, LoopReads
  <2>3. CASE LoopEof(c)
    BY <2>3, LoopEndsTyped DEF LoopEof
  <2>4. CASE LoopCancelled(c) /\ LoopEnds(c, "done")
    BY <2>4, LoopEndsTyped DEF LoopCancelled
  <2>5. CASE LoopCancelled(c) /\ ~LoopEnds(c, "done")
    BY <2>5 DEF LoopCancelled, SessionInv, SessionTypes, LoopOK, LoopStates
  <2>6. QED BY <1>14, <2>1, <2>2, <2>3, <2>4, <2>5 DEF LoopStep, LoopReads
<1>15. ASSUME NEW c \in Conns, Gateway(c) PROVE SessionInv'
  BY <1>15 DEF Gateway, GatewayAnswers, GatewayEvent, GatewayCloses, SessionInv, SessionTypes,
     LoopOK, LinkStates
<1>16. CASE UNCHANGED vars
  BY <1>1, <1>16 DEF vars
<1>17. QED
  BY <1>2, <1>3, <1>4, <1>5, <1>6, <1>7, <1>8, <1>9, <1>10, <1>11, <1>12, <1>13, <1>14,
     <1>15, <1>16 DEF Next, CallerStep

LEMMA FinishTyped ==
  ASSUME ResultTypes, NEW t \in Callers, NEW how \in Outcomes, Finish(t, how)
  PROVE  ResultTypes'
<1>1. outcome' \in [Callers -> Outcomes]
  BY DEF ResultTypes, Finish
<1>2. troubled' \in BOOLEAN
  BY Zenon DEF Finish
<1>3. QED BY <1>1, <1>2 DEF ResultTypes

LEMMA ResultStep == ResultTypes /\ [Next]_vars => ResultTypes'
<1> SUFFICES ASSUME ResultTypes, [Next]_vars PROVE ResultTypes'
    OBVIOUS
<1> USE DEF resultVars
<1>1. CASE UNCHANGED <<outcome, troubled>>
  BY <1>1 DEF ResultTypes
<1>2. ASSUME NEW t \in Callers, NEW o \in Operations, Submit(t, o) PROVE ResultTypes'
  BY <1>2, FinishTyped DEF Submit, Outcomes
<1>3. ASSUME NEW t \in Callers,
             Reconnect(t) \/ Rejoined(t) \/ OpenFailed(t) \/ Stopped(t) \/ Disconnect(t)
      PROVE  ResultTypes'
  <2>1. UNCHANGED <<outcome, troubled>> \/ \E how \in Outcomes : Finish(t, how)
    BY <1>3 DEF Reconnect, Rejoined, OpenFailed, Stopped, Disconnect, DisconnectOutcome, Outcomes
  <2>2. QED BY <1>1, <2>1, FinishTyped
<1>4. ASSUME NEW t \in Callers,
             \/ Granted(t) \/ Resend(t) \/ PayloadEnds(t) \/ TakeReply(t) \/ TakeRefusal(t)
             \/ GiveUp(t) \/ Timeout(t) \/ DrainFails(t)
      PROVE  ResultTypes'
  <2>1. \/ UNCHANGED <<outcome, troubled>>
        \/ \E how \in Outcomes : EndExchange(t, how) \/ Reset(t, how)
    BY <1>4 DEF Granted, Resend, PayloadEnds, TakeReply, TakeRefusal, GiveUp, Timeout, DrainFails,
       CrashOnWriter, Outcomes
  <2>2. UNCHANGED <<outcome, troubled>> \/ \E how \in Outcomes : Finish(t, how)
    BY <2>1 DEF EndExchange, Reset, DisconnectOutcome, Outcomes
  <2>3. QED BY <1>1, <2>2, FinishTyped
<1>5. ASSUME NEW t \in Callers,
             \/ UseConnection(t) \/ Opened(t) \/ Payload(t)
             \/ TakeBusy(t) \/ TakeOther(t) \/ Closed(t)
      PROVE  ResultTypes'
  BY <1>1, <1>5 DEF UseConnection, Opened, Payload, TakeBusy, TakeOther, Closed
<1>6. ASSUME NEW c \in Conns, LoopStep(c) \/ Gateway(c) PROVE ResultTypes'
  BY <1>1, <1>6 DEF LoopStep, LoopStarts, LoopReads, LoopEof, LoopCancelled, loopUnchanged,
     Gateway, GatewayAnswers, GatewayEvent, GatewayCloses
<1>7. CASE UNCHANGED vars
  BY <1>1, <1>7 DEF vars
<1>8. QED BY <1>2, <1>3, <1>4, <1>5, <1>6, <1>7 DEF Next, CallerStep

-----------------------------------------------------------------------------
(* The commands: only Submit starts one, and only while it runs do its       *)
(* attempts and frames count.                                                *)

\* A command under way has a number and is one of the operations.
ActiveOK ==
    \A t \in Callers : pc[t] # "idle" => n[t] \in 1 .. MaxCommands /\ op[t] \in Operations

CommandInv == LockInv /\ SessionInv /\ CommandTypes /\ ActiveOK

\* Where a step that leaves the commands alone can take the callers.
LEMMA ActiveStays ==
  ASSUME ActiveOK, UNCHANGED commandVars,
         \A t \in Callers : pc'[t] # "idle" => pc[t] # "idle"
  PROVE  ActiveOK'
BY DEF ActiveOK, commandVars

LEMMA GotoStays ==
  ASSUME LockTypes, NEW t \in Callers, NEW label, pc[t] # "idle", Goto(t, label)
  PROVE  \A u \in Callers : pc'[u] # "idle" => pc[u] # "idle"
BY DEF LockTypes, Goto

LEMMA ReleaseStays ==
  ASSUME LockInv, NEW t \in Callers, NEW label, pc[t] # "idle", Release(t, label)
  PROVE  \A u \in Callers : pc'[u] # "idle" => pc[u] # "idle"
<1>1. CASE waiters = <<>>
  BY <1>1, GotoStays DEF Release, LockInv
<1>2. CASE waiters # <<>>
  <2>1. Head(waiters) \in Callers /\ pc[Head(waiters)] = "queued"
    BY <1>2 DEF LockInv, LockTypes, LockDiscipline
  <2>2. QED BY <1>2, <2>1 DEF Release, LockInv, LockTypes
<1>3. QED BY <1>1, <1>2

\* No step but Submit wakes an idle caller.
LEMMA CallerStays ==
  ASSUME LockInv, NEW t \in Callers, CallerStep(t) \/ Timeout(t)
  PROVE  /\ UNCHANGED commandVars
         /\ \A u \in Callers : pc'[u] # "idle" => pc[u] # "idle"
<1> USE DEF commandVars
<1>1. CASE \/ UseConnection(t) \/ Reconnect(t) \/ Rejoined(t) \/ Opened(t) \/ OpenFailed(t)
  <2>1. pc[t] # "idle" /\ UNCHANGED commandVars
    BY <1>1 DEF UseConnection, Reconnect, Rejoined, Opened, OpenFailed
  <2>2. UNCHANGED pc \/ \E label \in Pcs : Goto(t, label)
    BY <1>1 DEF UseConnection, Reconnect, Rejoined, Opened, OpenFailed, WriteFrame, Pcs
  <2>3. QED BY <2>1, <2>2, GotoStays DEF LockInv
<1>2. CASE Granted(t) \/ Resend(t)
  <2>1. pc[t] # "idle" /\ UNCHANGED commandVars
    BY <1>2 DEF Granted, Resend, CrashOnWriter, EndExchange
  <2>2. (\E label \in Pcs : Goto(t, label)) \/ Release(t, "idle")
    BY <1>2 DEF Granted, Resend, CrashOnWriter, EndExchange, WriteFrame, Pcs
  <2>3. QED BY <2>1, <2>2, GotoStays, ReleaseStays DEF LockInv
<1>3. CASE PayloadEnds(t) \/ TakeReply(t) \/ TakeRefusal(t) \/ GiveUp(t) \/ DrainFails(t) \/ Timeout(t)
  <2>1. pc[t] # "idle" /\ \E how : EndExchange(t, how) \/ Reset(t, how)
    BY <1>3 DEF PayloadEnds, TakeReply, TakeRefusal, Takes, GiveUp, DrainFails, Timeout
  <2>2. UNCHANGED commandVars /\ \E label : Release(t, label)
    BY <2>1 DEF EndExchange, Reset
  <2>3. QED BY <2>1, <2>2, ReleaseStays
<1>4. CASE Payload(t) \/ TakeBusy(t) \/ TakeOther(t) \/ Disconnect(t) \/ Stopped(t) \/ Closed(t)
  <2>1. pc[t] # "idle" /\ UNCHANGED commandVars
    BY <1>4 DEF Payload, TakeBusy, TakeOther, Takes, Disconnect, Stopped, Closed
  <2>2. UNCHANGED pc \/ \E label : Goto(t, label)
    BY <1>4 DEF Payload, TakeBusy, TakeOther, Disconnect, Stopped, Closed
  <2>3. QED BY <2>1, <2>2, GotoStays DEF LockInv
<1>5. QED BY <1>1, <1>2, <1>3, <1>4 DEF CallerStep

\* The counter of attempts and frames, and the awaited loop.
LEMMA CountersTyped ==
  ASSUME SessionInv, CommandTypes, NEW t \in Callers, CallerStep(t) \/ Timeout(t)
  PROVE  /\ tries' \in [Callers -> 0 .. ConnectRetries + MaxResends]
         /\ join' \in [Callers -> Conns \cup {None}]
<1> USE BoundsAssumption DEF BoundsAssumption
<1>1. CASE UNCHANGED <<tries, join>>
  BY <1>1 DEF CommandTypes
<1>2. ASSUME NEW k \in 1 .. MaxResends, tries' = [tries EXCEPT ![t] = k], UNCHANGED join
      PROVE  /\ tries' \in [Callers -> 0 .. ConnectRetries + MaxResends]
             /\ join' \in [Callers -> Conns \cup {None}]
  BY <1>2 DEF CommandTypes
<1>3. CASE UseConnection(t) \/ Opened(t)
  BY <1>1, <1>2, <1>3 DEF UseConnection, Opened, WriteFrame
<1>4. CASE Granted(t)
  BY <1>1, <1>2, <1>4 DEF Granted, CrashOnWriter, EndExchange, WriteFrame
<1>5. CASE Resend(t)
  <2>1. tries[t] + 1 \in 1 .. MaxResends
    BY <1>5 DEF Resend, CommandTypes
  <2>2. QED BY <1>1, <1>2, <1>5, <2>1 DEF Resend, CrashOnWriter, EndExchange, WriteFrame
<1>6. CASE OpenFailed(t)
  BY <1>6 DEF OpenFailed, CommandTypes
<1>7. CASE Reconnect(t) \/ Rejoined(t)
  <2>1. readTask \in Conns \cup {None}
    BY DEF SessionInv, SessionTypes
  <2>2. tries' = [tries EXCEPT ![t] = 1] \/ tries' = tries
    BY <1>7 DEF Reconnect, Rejoined
  <2>3. join' = [join EXCEPT ![t] = readTask] \/ join' = join
    BY <1>7 DEF Reconnect, Rejoined
  <2>4. QED BY <2>1, <2>2, <2>3 DEF CommandTypes
<1>8. CASE DisconnectBegins(t) /\ UNCHANGED tries
  BY <1>8 DEF DisconnectBegins, CommandTypes, SessionInv, SessionTypes
<1>9. CASE GiveUp(t) \/ DrainFails(t) \/ Timeout(t) \/ Disconnect(t)
  <2>1. (DisconnectBegins(t) /\ UNCHANGED tries) \/ UNCHANGED <<tries, join>>
    BY <1>9 DEF GiveUp, DrainFails, Timeout, Disconnect, Reset, EndExchange
  <2>2. QED BY <1>1, <1>8, <2>1
<1>10. CASE \/ Payload(t) \/ PayloadEnds(t) \/ TakeReply(t) \/ TakeRefusal(t)
            \/ TakeBusy(t) \/ TakeOther(t) \/ Stopped(t) \/ Closed(t)
  BY <1>1, <1>10 DEF Payload, PayloadEnds, TakeReply, TakeRefusal, TakeBusy, TakeOther,
     Stopped, Closed, EndExchange
<1>11. QED BY <1>3, <1>4, <1>5, <1>6, <1>7, <1>9, <1>10 DEF CallerStep

LEMMA CommandStep == CommandInv /\ [Next]_vars => CommandInv'
<1> SUFFICES ASSUME CommandInv, [Next]_vars PROVE CommandInv'
    OBVIOUS
<1>1. LockInv' /\ SessionInv'
  BY LockStep, SessionStep DEF CommandInv
<1>2. CASE UNCHANGED <<pc, op, n, tries, join>>
  BY <1>1, <1>2 DEF CommandInv, CommandTypes, ActiveOK
<1>3. ASSUME NEW t \in Callers, NEW o \in Operations, Submit(t, o) PROVE CommandInv'
  <2> USE OperationsAssumption, BoundsAssumption
      DEF OperationsAssumption, BoundsAssumption, CommandInv, CommandTypes, Submit
  <2>1. CommandTypes'
    BY <1>3
  <2>2. ActiveOK'
    BY <1>3 DEF ActiveOK, Goto, LockInv, LockTypes
  <2>3. QED BY <1>1, <2>1, <2>2
<1>4. ASSUME NEW t \in Callers, CallerStep(t) \/ Timeout(t) PROVE CommandInv'
  <2>1. ActiveOK' /\ UNCHANGED commandVars
    BY <1>4, CallerStays, ActiveStays DEF CommandInv
  <2>2. CommandTypes'
    BY <1>4, <2>1, CountersTyped DEF CommandInv, CommandTypes, commandVars
  <2>3. QED BY <1>1, <2>1, <2>2 DEF CommandInv
<1>5. ASSUME NEW c \in Conns, LoopStep(c) \/ Gateway(c) PROVE CommandInv'
  BY <1>2, <1>5 DEF LoopStep, LoopStarts, LoopReads, LoopEof, LoopCancelled, loopUnchanged,
     Gateway, GatewayAnswers, GatewayEvent, GatewayCloses, commandVars
<1>6. CASE UNCHANGED vars
  BY <1>2, <1>6 DEF vars
<1>7. QED BY <1>3, <1>4, <1>5, <1>6 DEF Next

-----------------------------------------------------------------------------
(* The wire: requests, lines and what the gateway carried out.               *)

WireInv == CommandInv /\ GatewayTypes /\ LineTypes

LEMMA RequestTyped ==
  ASSUME CommandInv, NEW t \in Callers, pc[t] # "idle"
  PROVE  MakeRequest(t) \in Request
BY DEF CommandInv, ActiveOK, MakeRequest, Request

LEMMA WriteSends ==
  ASSUME CommandInv, GatewayTypes, NEW t \in Callers, NEW k, pc[t] # "idle",
         writer # None, WriteFrame(t, k)
  PROVE  pending' \in [Conns -> Seq(Request)]
<1>1. CASE UNCHANGED pending
  BY <1>1 DEF GatewayTypes
<1>2. CASE pending' = [pending EXCEPT ![writer] = Append(@, MakeRequest(t))]
  <2>1. writer \in Conns
    BY DEF CommandInv, SessionInv, SessionTypes
  <2>2. Append(pending[writer], MakeRequest(t)) \in Seq(Request)
    BY <2>1, RequestTyped DEF GatewayTypes
  <2>3. QED BY <1>2, <2>1, <2>2 DEF GatewayTypes
<1>3. QED BY <1>1, <1>2 DEF WriteFrame

\* The callers' part: only a write touches the requests, nothing the deeds.
LEMMA CallerSends ==
  ASSUME CommandInv, GatewayTypes, NEW t \in Callers, CallerStep(t) \/ Timeout(t)
  PROVE  GatewayTypes'
<1> USE DEF gatewayVars
<1>1. CASE UNCHANGED gatewayVars
  BY <1>1 DEF GatewayTypes
<1>2. CASE pending' \in [Conns -> Seq(Request)] /\ UNCHANGED fires
  BY <1>2 DEF GatewayTypes
<1>3. CASE UseConnection(t)
  BY <1>1, <1>2, <1>3, WriteSends DEF UseConnection, IsConnected
<1>4. CASE Granted(t)
  BY <1>1, <1>2, <1>4, WriteSends DEF Granted, CrashOnWriter, EndExchange
<1>5. CASE Resend(t)
  BY <1>1, <1>2, <1>5, WriteSends DEF Resend, CrashOnWriter, EndExchange
<1>6. CASE Opened(t)
  <2>1. MakeRequest(t) \in Request
    BY <1>6, RequestTyped DEF Opened
  <2>2. <<MakeRequest(t)>> \in Seq(Request)
    BY <2>1
  <2>3. \/ UNCHANGED pending
        \/ \E c \in Conns : pending' = [pending EXCEPT ![c] = <<MakeRequest(t)>>]
    BY <1>6 DEF Opened
  <2>4. QED BY <1>6, <2>2, <2>3 DEF Opened, GatewayTypes
<1>7. CASE \/ Reconnect(t) \/ Rejoined(t) \/ OpenFailed(t) \/ Payload(t) \/ PayloadEnds(t)
           \/ TakeReply(t) \/ TakeRefusal(t) \/ TakeBusy(t) \/ TakeOther(t)
  BY <1>1, <1>7 DEF Reconnect, Rejoined, OpenFailed, Payload, PayloadEnds, TakeReply,
     TakeRefusal, TakeBusy, TakeOther, EndExchange
<1>8. CASE \/ GiveUp(t) \/ DrainFails(t) \/ Timeout(t)
           \/ Disconnect(t) \/ Stopped(t) \/ Closed(t)
  BY <1>1, <1>8 DEF GiveUp, DrainFails, Timeout, Disconnect, Stopped, Closed, Reset,
     DisconnectBegins, EndExchange
<1>9. QED BY <1>3, <1>4, <1>5, <1>6, <1>7, <1>8 DEF CallerStep

LEMMA CountTyped ==
  ASSUME NEW S, NEW f \in [S -> Nat], NEW k \in S
  PROVE  [f EXCEPT ![k] = @ + 1] \in [S -> Nat]
<1>1. f[k] + 1 \in Nat
  OBVIOUS
<1>2. QED BY <1>1

LEMMA FiresCounted ==
  ASSUME GatewayTypes, NEW u \in Callers, NEW k \in 1 .. MaxCommands
  PROVE  [fires EXCEPT ![u][k] = @ + 1] \in [Callers -> [1 .. MaxCommands -> Nat]]
<1>1. fires[u] \in [1 .. MaxCommands -> Nat]
  BY DEF GatewayTypes
<1>2. [fires[u] EXCEPT ![k] = @ + 1] \in [1 .. MaxCommands -> Nat]
  BY <1>1, CountTyped
<1>3. QED BY <1>2 DEF GatewayTypes

LEMMA GatewaySends ==
  ASSUME CommandInv, GatewayTypes, LineTypes, NEW c \in Conns, Gateway(c)
  PROVE  GatewayTypes' /\ LineTypes'
<1>1. CASE GatewayAnswers(c)
  <2> DEFINE r == Head(pending[c])
  <2>1. PICK kind \in Replies(r) \cap GatewayLines :
          /\ \/ kind \in {"complete", "answer"} /\ fires' = [fires EXCEPT ![r.by][r.n] = @ + 1]
             \/ kind \notin {"complete", "answer"} /\ UNCHANGED fires
          /\ \/ /\ link[c] = "open"
                /\ inbuf' = [inbuf EXCEPT ![c] =
                               Append(@, [kind |-> kind, by |-> r.by, n |-> r.n])]
             \/ link[c] = "shut" /\ UNCHANGED inbuf
    BY <1>1 DEF GatewayAnswers
  <2>2. r \in Request /\ Tail(pending[c]) \in Seq(Request)
    BY <1>1 DEF GatewayAnswers, GatewayTypes
  <2>3. r.by \in Callers /\ r.n \in 1 .. MaxCommands
    BY <2>2 DEF Request
  <2>4. pending' \in [Conns -> Seq(Request)]
    BY <1>1, <2>2 DEF GatewayAnswers, GatewayTypes
  <2>5. fires' \in [Callers -> [1 .. MaxCommands -> Nat]]
    <3>1. [fires EXCEPT ![r.by][r.n] = @ + 1] \in [Callers -> [1 .. MaxCommands -> Nat]]
      BY <2>3, FiresCounted
    <3>2. QED BY <2>1, <3>1 DEF GatewayTypes
  <2>6. [kind |-> kind, by |-> r.by, n |-> r.n] \in Line
    BY <2>3, GatewayAssumption, BoundsAssumption
    DEF Line, GatewayAssumption, BoundsAssumption
  <2>7. Append(inbuf[c], [kind |-> kind, by |-> r.by, n |-> r.n]) \in Seq(Line)
    BY <2>6 DEF LineTypes
  <2>8. inbuf' \in [Conns -> Seq(Line)]
    BY <2>1, <2>7 DEF LineTypes
  <2>9. QED BY <1>1, <2>4, <2>5, <2>8 DEF GatewayAnswers, GatewayTypes, LineTypes, resultVars
<1>2. CASE GatewayEvent(c)
  <2>1. NoLine \in Line
    BY BoundsAssumption DEF NoLine, Line, LineKinds, BoundsAssumption
  <2>2. <<NoLine>> \in Seq(Line)
    BY <2>1
  <2>3. QED BY <1>2, <2>2 DEF GatewayEvent, GatewayTypes, LineTypes, gatewayVars, resultVars
<1>3. CASE GatewayCloses(c)
  BY <1>3 DEF GatewayCloses, GatewayTypes, LineTypes, resultVars
<1>4. QED BY <1>1, <1>2, <1>3 DEF Gateway

LEMMA TakeTyped ==
  ASSUME LineTypes, NEW t \in Callers, Takes(t)
  PROVE  Head(lines) \in Line /\ lines' \in Seq(Line)
BY DEF LineTypes, Takes

\* The callers' part: lines are taken from the queue or drained, and a reply is a
\* line of the queue.
LEMMA CallerTakes ==
  ASSUME LineTypes, NEW t \in Callers, CallerStep(t) \/ Timeout(t)
  PROVE  LineTypes'
<1> USE DEF resultVars
<1>1. CASE (lines' = lines \/ lines' = <<>>) /\ UNCHANGED <<inbuf, reply>>
  <2>1. <<>> \in Seq(Line)
    OBVIOUS
  <2>2. lines' \in Seq(Line)
    BY <1>1, <2>1 DEF LineTypes
  <2>3. QED BY <1>1, <2>2 DEF LineTypes
<1>2. CASE TakeReply(t)
  BY <1>2, TakeTyped DEF TakeReply, EndExchange, LineTypes
<1>3. CASE TakeRefusal(t) \/ TakeBusy(t) \/ TakeOther(t)
  BY <1>3, TakeTyped DEF TakeRefusal, TakeBusy, TakeOther, EndExchange, LineTypes
<1>4. CASE UseConnection(t) \/ Reconnect(t) \/ Rejoined(t) \/ Opened(t) \/ OpenFailed(t)
  BY <1>1, <1>4 DEF UseConnection, Reconnect, Rejoined, Opened, OpenFailed
<1>5. CASE Granted(t) \/ Resend(t) \/ Payload(t) \/ PayloadEnds(t)
  BY <1>1, <1>5 DEF Granted, Resend, Payload, PayloadEnds, CrashOnWriter, EndExchange
<1>6. CASE DisconnectBegins(t) /\ UNCHANGED reply
  BY <1>1, <1>6 DEF DisconnectBegins, CloseOwnWriter
<1>7. CASE GiveUp(t) \/ DrainFails(t) \/ Timeout(t)
  BY <1>1, <1>6, <1>7 DEF GiveUp, DrainFails, Timeout, Reset, EndExchange
<1>8. CASE Disconnect(t) \/ Stopped(t) \/ Closed(t)
  BY <1>1, <1>6, <1>8 DEF Disconnect, Stopped, Closed, CloseOwnWriter
<1>9. QED BY <1>2, <1>3, <1>4, <1>5, <1>7, <1>8 DEF CallerStep

LEMMA LoopTakes ==
  ASSUME LineTypes, LoopOK, NEW c \in Conns, LoopStep(c)
  PROVE  LineTypes'
<1> USE DEF loopUnchanged
<1>1. CASE LoopReads(c)
  <2>1. inbuf[source[c]] \in Seq(Line)
    BY <1>1 DEF LoopReads, LoopOK, LineTypes
  <2>2. lines \o inbuf[source[c]] \in Seq(Line)
    BY <2>1 DEF LineTypes
  <2>3. inbuf' \in [Conns -> Seq(Line)]
    <3>1. <<>> \in Seq(Line)
      OBVIOUS
    <3>2. QED BY <1>1, <3>1 DEF LoopReads, LineTypes
  <2>4. QED BY <1>1, <2>2, <2>3 DEF LoopReads, LineTypes
<1>2. CASE LoopStarts(c) \/ LoopEof(c) \/ LoopCancelled(c)
  BY <1>2 DEF LoopStarts, LoopEof, LoopCancelled, LineTypes
<1>3. QED BY <1>1, <1>2 DEF LoopStep

LEMMA WireStep == WireInv /\ [Next]_vars => WireInv'
<1> SUFFICES ASSUME WireInv, [Next]_vars PROVE WireInv'
    OBVIOUS
<1>1. CommandInv'
  BY CommandStep DEF WireInv
<1>2. GatewayTypes' /\ LineTypes'
  <2>1. ASSUME NEW t \in Callers, NEW o \in Operations, Submit(t, o)
        PROVE  GatewayTypes' /\ LineTypes'
    <3>1. NoLine \in Line
      BY BoundsAssumption DEF NoLine, Line, LineKinds, BoundsAssumption
    <3>2. QED BY <2>1, <3>1 DEF Submit, WireInv, GatewayTypes, LineTypes, gatewayVars
  <2>2. ASSUME NEW t \in Callers, CallerStep(t) \/ Timeout(t)
        PROVE  GatewayTypes' /\ LineTypes'
    BY <2>2, CallerSends, CallerTakes DEF WireInv
  <2>3. ASSUME NEW c \in Conns, LoopStep(c) PROVE GatewayTypes' /\ LineTypes'
    <3>1. LineTypes'
      BY <2>3, LoopTakes DEF WireInv, CommandInv, SessionInv
    <3>2. UNCHANGED <<pending, fires>>
      BY <2>3 DEF LoopStep, LoopStarts, LoopReads, LoopEof, LoopCancelled, loopUnchanged
    <3>3. QED BY <3>1, <3>2 DEF WireInv, GatewayTypes
  <2>4. ASSUME NEW c \in Conns, Gateway(c) PROVE GatewayTypes' /\ LineTypes'
    BY <2>4, GatewaySends DEF WireInv
  <2>5. CASE UNCHANGED vars
    BY <2>5 DEF vars, WireInv, GatewayTypes, LineTypes
  <2>6. QED BY <2>1, <2>2, <2>3, <2>4, <2>5 DEF Next
<1>3. QED BY <1>1, <1>2 DEF WireInv

LEMMA WireAtFirst == Init => WireInv /\ ResultTypes
<1> SUFFICES ASSUME Init PROVE WireInv /\ ResultTypes
    OBVIOUS
<1> USE DEF Init
<1>1. LockInv
  BY CallersAssumption
  DEF LockInv, LockTypes, LockDiscipline, WaitersDistinct, Pcs, Holding, CallersAssumption
<1>2. SessionInv
  BY DEF SessionInv, SessionTypes, LoopOK, LoopStates, LinkStates, Conns, None
<1>3. CommandTypes /\ ActiveOK
  BY BoundsAssumption DEF CommandTypes, ActiveOK, AllOperations, BoundsAssumption
<1>4. GatewayTypes
  BY DEF GatewayTypes
<1>5. LineTypes
  BY BoundsAssumption DEF LineTypes, NoLine, Line, LineKinds, BoundsAssumption
<1>6. ResultTypes
  BY DEF ResultTypes, Outcomes
<1>7. QED BY <1>1, <1>2, <1>3, <1>4, <1>5, <1>6 DEF WireInv, CommandInv

\* In every state the client's variables have the types of the code's: the lock
\* is held by nobody or a caller, a session is a connection or None, every line
\* and request is well formed, and attempts and frames stay within their bounds.
THEOREM TypeCorrect == Spec => []TypeOK
<1>1. WireInv /\ ResultTypes => TypeOK
  BY DEF WireInv, CommandInv, SessionInv, LockInv, TypeOK
<1>2. QED BY <1>1, WireAtFirst, WireStep, ResultStep, PTL DEF Spec

-----------------------------------------------------------------------------
(* A sendir that ends well was carried out.  The invariant: a completeir on   *)
(* its way to a caller is the gateway's word for something it has done.       *)

Done(u, k) == u \in Callers /\ k \in 1 .. MaxCommands /\ fires[u][k] >= 1

TrueLine == {l \in Line : l.kind = "complete" => Done(l.by, l.n)}

LinesTrue == lines \in Seq(TrueLine) /\ inbuf \in [Conns -> Seq(TrueLine)]

\* The serial payload's wait belongs to a serial payload.
PayloadOK == \A t \in Callers : pc[t] = "payload" => op[t] = "payload"

SendirDone ==
    \A t \in Callers : op[t] = "sendir" /\ outcome[t] = "ok" => Done(t, n[t])

TruthInv == WireInv /\ ResultTypes /\ LinesTrue /\ PayloadOK /\ SendirDone

\* What has been done stays done.
LEMMA DoneStays ==
  ASSUME WireInv, [Next]_vars
  PROVE  \A u, k : Done(u, k) => Done(u, k)'
<1>1. CASE UNCHANGED fires
  BY <1>1 DEF Done
<1>2. ASSUME NEW c \in Conns, GatewayAnswers(c) PROVE \A u, k : Done(u, k) => Done(u, k)'
  <2> DEFINE r == Head(pending[c])
  <2>0. r \in Request
    BY <1>2 DEF GatewayAnswers, WireInv, GatewayTypes
  <2>1. r.by \in Callers /\ r.n \in 1 .. MaxCommands
    BY <2>0 DEF Request
  <2>2. UNCHANGED fires \/ fires' = [fires EXCEPT ![r.by][r.n] = @ + 1]
    BY <1>2 DEF GatewayAnswers
  <2>3. ASSUME fires' = [fires EXCEPT ![r.by][r.n] = @ + 1], NEW u, NEW k, Done(u, k)
        PROVE  Done(u, k)'
    <3>1. fires[u] \in [1 .. MaxCommands -> Nat] /\ fires[r.by] \in [1 .. MaxCommands -> Nat]
      BY <2>1, <2>3 DEF WireInv, GatewayTypes, Done
    <3>2. fires'[u] = IF u = r.by THEN [fires[u] EXCEPT ![r.n] = @ + 1] ELSE fires[u]
      BY <2>1, <2>3 DEF WireInv, GatewayTypes, Done
    <3>3. fires'[u][k] = fires[u][k] \/ fires'[u][k] = fires[u][k] + 1
      BY <2>3, <3>1, <3>2 DEF Done
    <3>4. QED BY <2>3, <3>1, <3>3 DEF Done
  <2>4. QED BY <1>1, <2>2, <2>3
<1>3. ASSUME NEW t \in Callers, CallerStep(t) \/ Timeout(t) PROVE UNCHANGED fires
  <2>1. CASE \/ UseConnection(t) \/ Reconnect(t) \/ Rejoined(t) \/ Opened(t) \/ OpenFailed(t)
             \/ Granted(t) \/ Payload(t) \/ PayloadEnds(t)
    BY <2>1 DEF UseConnection, Reconnect, Rejoined, Opened, OpenFailed, Granted, Payload,
       PayloadEnds, CrashOnWriter, EndExchange, gatewayVars
  <2>2. CASE TakeReply(t) \/ TakeRefusal(t) \/ TakeBusy(t) \/ TakeOther(t) \/ Resend(t)
    BY <2>2 DEF TakeReply, TakeRefusal, TakeBusy, TakeOther, Resend, CrashOnWriter,
       EndExchange, gatewayVars
  <2>3. CASE \/ GiveUp(t) \/ DrainFails(t) \/ Timeout(t)
             \/ Disconnect(t) \/ Stopped(t) \/ Closed(t)
    BY <2>3 DEF GiveUp, DrainFails, Timeout, Disconnect, Stopped, Closed, Reset,
       DisconnectBegins, EndExchange, gatewayVars
  <2>4. QED BY <1>3, <2>1, <2>2, <2>3 DEF CallerStep
<1>4. ASSUME NEW t \in Callers, NEW o \in Operations, Submit(t, o) PROVE UNCHANGED fires
  BY <1>4 DEF Submit, gatewayVars
<1>5. ASSUME NEW c \in Conns, LoopStep(c) \/ GatewayEvent(c) \/ GatewayCloses(c)
      PROVE  UNCHANGED fires
  BY <1>5 DEF LoopStep, LoopStarts, LoopReads, LoopEof, LoopCancelled, loopUnchanged,
     GatewayEvent, GatewayCloses, gatewayVars
<1>6. CASE UNCHANGED vars
  BY <1>1, <1>6 DEF vars
<1>7. QED BY <1>1, <1>2, <1>3, <1>4, <1>5, <1>6 DEF Next, Gateway

LEMMA TrueLineStays ==
  ASSUME WireInv, [Next]_vars
  PROVE  /\ TrueLine \subseteq TrueLine'
         /\ \A s : s \in Seq(TrueLine) => s \in Seq(TrueLine')
<1>1. TrueLine \subseteq TrueLine'
  BY DoneStays DEF TrueLine
<1>2. QED BY <1>1

LEMMA LinesStayTrue == TruthInv /\ [Next]_vars => LinesTrue'
<1> SUFFICES ASSUME TruthInv, [Next]_vars PROVE LinesTrue'
    OBVIOUS
<1>1. /\ TrueLine \subseteq TrueLine'
      /\ \A s : s \in Seq(TrueLine) => s \in Seq(TrueLine')
      /\ lines \in Seq(TrueLine) /\ inbuf \in [Conns -> Seq(TrueLine)]
  BY TrueLineStays DEF TruthInv, LinesTrue
<1>2. inbuf \in [Conns -> Seq(TrueLine')]
  BY <1>1
<1>3. CASE (lines' = lines \/ lines' = <<>> \/ (lines # <<>> /\ lines' = Tail(lines))) /\ UNCHANGED inbuf
  <2>1. lines' \in Seq(TrueLine)
    <3>1. CASE lines' = <<>>
      <4>1. <<>> \in Seq(TrueLine)
        OBVIOUS
      <4>2. QED BY <3>1, <4>1
    <3>2. CASE lines # <<>> /\ lines' = Tail(lines)
      BY <1>1, <3>2
    <3>3. QED BY <1>1, <1>3, <3>1, <3>2
  <2>2. QED BY <1>1, <1>2, <1>3, <2>1 DEF LinesTrue
<1>4. ASSUME NEW t \in Callers, CallerStep(t) \/ Timeout(t) PROVE LinesTrue'
  <2> USE DEF resultVars
  <2>1. CASE UseConnection(t) \/ Reconnect(t) \/ Rejoined(t) \/ Opened(t) \/ OpenFailed(t)
    BY <1>3, <2>1 DEF UseConnection, Reconnect, Rejoined, Opened, OpenFailed
  <2>2. CASE Granted(t) \/ Payload(t) \/ PayloadEnds(t) \/ Resend(t)
    BY <1>3, <2>2 DEF Granted, Payload, PayloadEnds, Resend, CrashOnWriter, EndExchange
  <2>3. CASE TakeReply(t) \/ TakeRefusal(t) \/ TakeBusy(t) \/ TakeOther(t)
    BY <1>3, <2>3 DEF TakeReply, TakeRefusal, TakeBusy, TakeOther, Takes, EndExchange
  <2>4. CASE GiveUp(t) \/ DrainFails(t) \/ Timeout(t) \/ Disconnect(t) \/ Stopped(t) \/ Closed(t)
    BY <1>3, <2>4 DEF GiveUp, DrainFails, Timeout, Disconnect, Stopped, Closed, Reset,
       DisconnectBegins, CloseOwnWriter, EndExchange
  <2>5. QED BY <1>4, <2>1, <2>2, <2>3, <2>4 DEF CallerStep
<1>5. ASSUME NEW t \in Callers, NEW o \in Operations, Submit(t, o) PROVE LinesTrue'
  BY <1>3, <1>5 DEF Submit
<1>6. ASSUME NEW c \in Conns, LoopReads(c) PROVE LinesTrue'
  <2>1. inbuf[source[c]] \in Seq(TrueLine)
    BY <1>1, <1>6 DEF LoopReads, TruthInv, WireInv, CommandInv, SessionInv, LoopOK
  <2>2. lines \o inbuf[source[c]] \in Seq(TrueLine)
    BY <1>1, <2>1
  <2>3. <<>> \in Seq(TrueLine')
    OBVIOUS
  <2>4. QED BY <1>1, <1>2, <1>6, <2>2, <2>3 DEF LoopReads, LinesTrue
<1>7. ASSUME NEW c \in Conns, LoopStarts(c) \/ LoopEof(c) \/ LoopCancelled(c) \/ GatewayCloses(c)
      PROVE  LinesTrue'
  BY <1>3, <1>7 DEF LoopStarts, LoopEof, LoopCancelled, GatewayCloses
<1>8. ASSUME NEW c \in Conns, GatewayEvent(c) PROVE LinesTrue'
  <2>1. NoLine \in TrueLine'
    BY BoundsAssumption DEF NoLine, Line, LineKinds, BoundsAssumption, TrueLine
  <2>2. <<NoLine>> \in Seq(TrueLine')
    BY <2>1
  <2>3. QED BY <1>1, <1>2, <1>8, <2>2 DEF GatewayEvent, LinesTrue
<1>9. ASSUME NEW c \in Conns, GatewayAnswers(c) PROVE LinesTrue'
  <2>0. PICK r \in Request : r = Head(pending[c])
    BY <1>9 DEF GatewayAnswers, TruthInv, WireInv, GatewayTypes
  <2>1. PICK kind \in Replies(r) \cap GatewayLines :
          /\ kind = "complete" => fires' = [fires EXCEPT ![r.by][r.n] = @ + 1]
          /\ \/ inbuf' = [inbuf EXCEPT ![c] = Append(@, [kind |-> kind, by |-> r.by, n |-> r.n])]
             \/ UNCHANGED inbuf
    BY <1>9, <2>0 DEF GatewayAnswers
  <2>2. r.by \in Callers /\ r.n \in 1 .. MaxCommands
    BY <2>0 DEF Request
  <2> DEFINE l == [kind |-> kind, by |-> r.by, n |-> r.n]
  <2>3. l \in Line
    BY <2>2, GatewayAssumption, BoundsAssumption DEF Line, GatewayAssumption, BoundsAssumption
  <2>4. kind = "complete" => Done(r.by, r.n)'
    <3> SUFFICES ASSUME kind = "complete" PROVE Done(r.by, r.n)'
        OBVIOUS
    <3>1. fires[r.by] \in [1 .. MaxCommands -> Nat]
      BY <2>2 DEF TruthInv, WireInv, GatewayTypes
    <3>2. fires'[r.by][r.n] = fires[r.by][r.n] + 1
      BY <2>1, <2>2, <3>1 DEF TruthInv, WireInv, GatewayTypes
    <3>3. fires[r.by][r.n] \in Nat
      BY <2>2, <3>1
    <3>4. fires'[r.by][r.n] >= 1
      BY <3>2, <3>3
    <3>5. QED BY <2>2, <3>4 DEF Done
  <2>5. l \in TrueLine'
    <3>1. l.kind = kind /\ l.by = r.by /\ l.n = r.n
      OBVIOUS
    <3>2. l.kind = "complete" => Done(l.by, l.n)'
      BY <2>4, <3>1
    <3> HIDE DEF l
    <3>3. QED BY <2>3, <3>2 DEF TrueLine, Line
  <2>6. Append(inbuf[c], l) \in Seq(TrueLine')
    BY <1>2, <2>5
  <2>7. inbuf' \in [Conns -> Seq(TrueLine')]
    BY <1>2, <2>1, <2>6
  <2>8. QED BY <1>1, <1>9, <2>7 DEF GatewayAnswers, LinesTrue
<1>10. CASE UNCHANGED vars
  BY <1>3, <1>10 DEF vars
<1>11. QED
  BY <1>4, <1>5, <1>6, <1>7, <1>8, <1>9, <1>10 DEF Next, LoopStep, Gateway

\* Only a caller with a serial payload goes to the serial payload's wait.
LEMMA PayloadStays ==
  ASSUME CommandInv, PayloadOK, NEW t \in Callers, CallerStep(t) \/ Timeout(t)
  PROVE  UNCHANGED op /\ PayloadOK'
<1> USE DEF PayloadOK, CommandInv, LockInv, LockTypes, Goto
<1>1. ASSUME Release(t, DisconnectLabel) \/ Release(t, "idle"), UNCHANGED op
      PROVE  PayloadOK'
  BY <1>1, DisconnectLabelOutside DEF Release
<1>2. CASE UseConnection(t) \/ Reconnect(t) \/ Rejoined(t) \/ Opened(t) \/ OpenFailed(t)
  BY <1>2 DEF UseConnection, Reconnect, Rejoined, Opened, OpenFailed, WriteFrame, commandVars
<1>3. CASE Granted(t) \/ Payload(t) \/ PayloadEnds(t) \/ Resend(t)
  BY <1>1, <1>3 DEF Granted, Payload, PayloadEnds, Resend, WriteFrame, CrashOnWriter,
     EndExchange, commandVars
<1>4. CASE TakeReply(t) \/ TakeRefusal(t) \/ TakeBusy(t) \/ TakeOther(t)
  BY <1>1, <1>4 DEF TakeReply, TakeRefusal, TakeBusy, TakeOther, EndExchange, commandVars
<1>5. CASE GiveUp(t) \/ DrainFails(t) \/ Timeout(t)
  BY <1>1, <1>5 DEF GiveUp, DrainFails, Timeout, Reset, EndExchange, commandVars
<1>6. CASE Disconnect(t) \/ Stopped(t) \/ Closed(t)
  BY <1>6, DisconnectLabelOutside DEF Disconnect, Stopped, Closed, CloseLabel, commandVars
<1>7. QED BY <1>2, <1>3, <1>4, <1>5, <1>6 DEF CallerStep

\* A sendir ends well in one way only: it took a line that satisfies it.
LEMMA SendirEndsByReply ==
  ASSUME ResultTypes, PayloadOK, NEW t \in Callers, CallerStep(t) \/ Timeout(t)
  PROVE  /\ UNCHANGED n
         /\ \A u \in Callers :
              outcome'[u] = "ok" =>
                \/ outcome[u] = "ok"
                \/ u = t /\ (op[t] # "sendir" \/ TakeReply(t))
<1> USE DEF ResultTypes, Finish
<1>1. CASE UseConnection(t) \/ Reconnect(t) \/ Rejoined(t) \/ Opened(t) \/ OpenFailed(t)
  BY <1>1 DEF UseConnection, Reconnect, Rejoined, Opened, OpenFailed, commandVars, resultVars
<1>2. CASE Granted(t) \/ Payload(t) \/ Resend(t)
  BY <1>2 DEF Granted, Payload, Resend, CrashOnWriter, EndExchange, commandVars, resultVars
<1>3. CASE PayloadEnds(t)
  BY <1>3 DEF PayloadEnds, PayloadOK, EndExchange, commandVars
<1>4. CASE TakeReply(t)
  BY <1>4 DEF TakeReply, EndExchange, commandVars
<1>5. CASE TakeRefusal(t) \/ TakeBusy(t) \/ TakeOther(t)
  BY <1>5 DEF TakeRefusal, TakeBusy, TakeOther, EndExchange, commandVars, resultVars
<1>6. CASE GiveUp(t) \/ DrainFails(t) \/ Timeout(t)
  BY <1>6 DEF GiveUp, DrainFails, Timeout, Reset, DisconnectOutcome, EndExchange, commandVars
<1>7. CASE Disconnect(t) \/ Stopped(t) \/ Closed(t)
  BY <1>7 DEF Disconnect, Stopped, Closed, DisconnectOutcome, commandVars, resultVars
<1>8. QED BY <1>1, <1>2, <1>3, <1>4, <1>5, <1>6, <1>7 DEF CallerStep

LEMMA TruthStep ==
  ASSUME FreshIds, TruthInv, [Next]_vars
  PROVE  TruthInv'
<1>1. WireInv' /\ ResultTypes' /\ LinesTrue'
  BY WireStep, ResultStep, LinesStayTrue DEF TruthInv
<1>2. \A u, k : Done(u, k) => Done(u, k)'
  BY DoneStays DEF TruthInv
<1>3. ASSUME NEW t \in Callers, CallerStep(t) \/ Timeout(t)
      PROVE  PayloadOK' /\ SendirDone'
  <2>1. UNCHANGED op /\ PayloadOK'
    BY <1>3, PayloadStays DEF TruthInv, WireInv
  <2>2. ASSUME NEW u \in Callers, op'[u] = "sendir", outcome'[u] = "ok"
        PROVE  Done(u, n[u])
    <3>1. outcome[u] = "ok" \/ (u = t /\ (op[t] # "sendir" \/ TakeReply(t)))
      BY <1>3, <2>2, SendirEndsByReply DEF TruthInv
    <3>2. CASE outcome[u] = "ok"
      BY <2>1, <2>2, <3>2 DEF TruthInv, SendirDone
    <3>3. CASE u = t /\ TakeReply(t)
      <4>1. Head(lines) \in TrueLine
        BY <3>3 DEF TakeReply, Takes, TruthInv, LinesTrue
      <4>2. Head(lines).kind = "complete" /\ Head(lines).by = t /\ Head(lines).n = n[t]
        BY <2>1, <2>2, <3>3 DEF TakeReply, Satisfies
      <4>3. QED BY <3>3, <4>1, <4>2 DEF TrueLine
    <3>4. QED BY <2>1, <2>2, <3>1, <3>2, <3>3
  <2>3. UNCHANGED n
    BY <1>3, SendirEndsByReply DEF TruthInv
  <2>4. ASSUME NEW u \in Callers, op'[u] = "sendir", outcome'[u] = "ok"
        PROVE  Done(u, n[u])'
    <3>1. PICK k : k = n[u] /\ Done(u, k)
      BY <2>2, <2>4
    <3>2. Done(u, k)'
      BY <1>2, <3>1
    <3>3. QED BY <2>3, <3>1, <3>2 DEF Done
  <2>5. QED BY <2>1, <2>4 DEF SendirDone
<1>4. ASSUME NEW t \in Callers, NEW o \in Operations, Submit(t, o)
      PROVE  PayloadOK' /\ SendirDone'
  <2> USE DEF TruthInv, WireInv, CommandInv, CommandTypes, LockInv, LockTypes, ResultTypes,
              Submit, Goto, Finish
  <2>1. PayloadOK'
    BY <1>4 DEF PayloadOK
  <2>2. ASSUME NEW u \in Callers, op'[u] = "sendir", outcome'[u] = "ok"
        PROVE  Done(u, n[u])'
    <3>1. u # t
      BY <1>4, <2>2
    <3>2. op[u] = "sendir" /\ outcome[u] = "ok" /\ n'[u] = n[u]
      BY <1>4, <2>2, <3>1
    <3>3. Done(u, n[u])
      BY <3>2 DEF SendirDone
    <3>4. QED BY <1>4, <3>2, <3>3 DEF Done, gatewayVars
  <2>3. QED BY <2>1, <2>2 DEF SendirDone
<1>5. ASSUME UNCHANGED <<pc, op, n, outcome>> PROVE PayloadOK' /\ SendirDone'
  <2>1. ASSUME NEW u \in Callers, op'[u] = "sendir", outcome'[u] = "ok"
        PROVE  Done(u, n[u])'
    <3>1. PICK k : k = n[u] /\ Done(u, k)
      BY <1>5, <2>1 DEF TruthInv, SendirDone
    <3>2. Done(u, k)'
      BY <1>2, <3>1
    <3>3. QED BY <1>5, <3>1, <3>2 DEF Done
  <2>2. PayloadOK'
    BY <1>5 DEF TruthInv, PayloadOK
  <2>3. QED BY <2>1, <2>2 DEF SendirDone
<1>6. ASSUME NEW c \in Conns, LoopStep(c) \/ Gateway(c)
      PROVE  UNCHANGED <<pc, op, n, outcome>>
  BY <1>6 DEF LoopStep, LoopStarts, LoopReads, LoopEof, LoopCancelled, loopUnchanged,
     Gateway, GatewayAnswers, GatewayEvent, GatewayCloses, commandVars, resultVars
<1>7. ASSUME UNCHANGED vars PROVE UNCHANGED <<pc, op, n, outcome>>
  BY <1>7 DEF vars
<1>8. PayloadOK' /\ SendirDone'
  BY <1>3, <1>4, <1>5, <1>6, <1>7 DEF Next
<1>9. QED BY <1>1, <1>8 DEF TruthInv

\* When every sendir has an id of its own, one that returns its lines was carried
\* out by the gateway, however lines are delayed, sessions are reset or replaced,
\* and commands of other callers interleave.
THEOREM SendirIsCarriedOut ==
  ASSUME FreshIds
  PROVE  Spec => []SendirCarriedOut
<1>1. Init => TruthInv
  <2> SUFFICES ASSUME Init PROVE TruthInv
      OBVIOUS
  <2>1. WireInv /\ ResultTypes
    BY WireAtFirst
  <2>2. LinesTrue
    <3>1. <<>> \in Seq(TrueLine)
      OBVIOUS
    <3>2. QED BY <3>1 DEF Init, LinesTrue
  <2>3. PayloadOK /\ SendirDone
    BY DEF Init, PayloadOK, SendirDone
  <2>4. QED BY <2>1, <2>2, <2>3 DEF TruthInv
<1>2. TruthInv /\ [Next]_vars => TruthInv'
  BY TruthStep
<1>3. TruthInv => SendirCarriedOut
  BY DEF TruthInv, SendirDone, SendirCarriedOut, Done
<1>4. QED BY <1>1, <1>2, <1>3, PTL DEF Spec

-----------------------------------------------------------------------------
(* The session.  Its steps are few: the other ones leave alone all that the    *)
(* session is made of, and at most break or shut a connection.                 *)

SessionLabels == {"rejoining", "stopping", "closing"}

\* Callers other than t are where they were, or get the lock.
OthersStay(t) ==
    \A u \in Callers \ {t} : pc'[u] = pc[u] \/ (pc[u] = "queued" /\ pc'[u] = "granted")

SessionAlone ==
    /\ UNCHANGED <<clientVars, loopVars, join>>
    /\ \A c \in Conns :
          \/ link'[c] = link[c]
          \/ link[c] = "open" /\ link'[c] = "eof"
          \/ link[c] \in {"eof", "shut"} /\ link'[c] = "shut"
    /\ \A u \in Callers :
          \/ pc'[u] = pc[u]
          \/ pc[u] \notin SessionLabels /\ pc'[u] \notin SessionLabels \cup {"opening"}

\* disconnect() by itself or at the end of a sendir that gave up.
Disconnects(t) ==
    /\ DisconnectBegins(t)
    /\ pc[t] \in {"start", "waiting", "draining", "backoff", "granted"}
    /\ pc'[t] = DisconnectLabel
    /\ OthersStay(t)

LEMMA ReleaseOthers ==
  ASSUME LockInv, NEW t \in Callers, NEW label, Release(t, label), pc[t] \in Holding
  PROVE  pc'[t] = label /\ OthersStay(t)
<1> USE DEF LockInv, LockTypes
<1>1. CASE waiters = <<>>
  BY <1>1 DEF Release, Goto, OthersStay
<1>2. CASE waiters # <<>>
  <2>1. Head(waiters) \in Callers /\ pc[Head(waiters)] = "queued"
    BY <1>2 DEF LockDiscipline
  <2>2. Head(waiters) # t
    BY <2>1 DEF Holding
  <2>3. QED BY <1>2, <2>1, <2>2 DEF Release, OthersStay
<1>3. QED BY <1>1, <1>2

LEMMA WriteAlone ==
  ASSUME CommandInv, NEW t \in Callers, NEW k, WriteFrame(t, k), writer # None,
         pc[t] \notin SessionLabels, UNCHANGED <<clientVars, loopVars, join>>
  PROVE  SessionAlone
<1> USE DEF CommandInv, LockInv, LockTypes, SessionInv, SessionTypes, SessionAlone
<1>1. \A u \in Callers : pc'[u] = pc[u] \/ (u = t /\ pc'[u] \in {"waiting", "draining"})
  BY DEF WriteFrame, Goto
<1>2. UNCHANGED link \/ (link[writer] \in {"eof", "shut"} /\ link' = [link EXCEPT ![writer] = "shut"])
  BY DEF WriteFrame, Shut
<1>3. QED BY <1>1, <1>2 DEF SessionLabels

LEMMA EndAlone ==
  ASSUME CommandInv, NEW t \in Callers, NEW how, EndExchange(t, how), pc[t] \in Holding
  PROVE  SessionAlone
<1>1. pc'[t] = "idle" /\ OthersStay(t)
  BY ReleaseOthers DEF EndExchange, CommandInv
<1>2. QED
  BY <1>1 DEF EndExchange, OthersStay, SessionAlone, SessionLabels, Holding

LEMMA ResetDisconnects ==
  ASSUME CommandInv, NEW t \in Callers, NEW how, Reset(t, how),
         pc[t] \in {"waiting", "draining", "backoff", "granted"}
  PROVE  Disconnects(t)
BY ReleaseOthers DEF Reset, Disconnects, CommandInv, Holding

\* What a step may do to the session.
LEMMA SessionMoves ==
  ASSUME CommandInv, [Next]_vars
  PROVE  \/ SessionAlone
         \/ \E t \in Callers :
               \/ Disconnects(t) \/ Stopped(t) \/ Closed(t)
               \/ Reconnect(t) \/ Rejoined(t) \/ Opened(t)
         \/ \E c \in Conns : LoopStep(c)
<1> USE DEF CommandInv, LockInv, LockTypes
<1>1. ASSUME NEW t \in Callers, NEW label \in Pcs \ (SessionLabels \cup {"opening"}),
             pc[t] \notin SessionLabels, Goto(t, label),
             UNCHANGED <<clientVars, loopVars, link, join>>
      PROVE  SessionAlone
  BY <1>1 DEF SessionAlone, Goto
<1>2. CASE UNCHANGED <<clientVars, loopVars, link, join, pc>>
  BY <1>2 DEF SessionAlone
<1>3. ASSUME NEW t \in Callers, NEW o \in Operations, Submit(t, o) PROVE SessionAlone
  BY <1>1, <1>3 DEF Submit, SessionLabels, Pcs
<1>4. ASSUME NEW t \in Callers, UseConnection(t) PROVE SessionAlone
  <2>1. CASE WriteFrame(t, 1)
    BY <1>4, <2>1, WriteAlone DEF UseConnection, IsConnected, SessionLabels
  <2>2. CASE Goto(t, "queued") /\ UNCHANGED link
    BY <1>1, <1>4, <2>2 DEF UseConnection, SessionLabels, Pcs
  <2>3. QED BY <1>4, <2>1, <2>2 DEF UseConnection
<1>5. ASSUME NEW t \in Callers, OpenFailed(t) PROVE SessionAlone
  <2>1. CASE UNCHANGED pc
    BY <1>5, <2>1 DEF OpenFailed, SessionAlone, clientVars, loopVars
  <2>2. CASE Goto(t, "idle")
    BY <1>1, <1>5, <2>2 DEF OpenFailed, SessionLabels, Pcs
  <2>3. QED BY <1>5, <2>1, <2>2 DEF OpenFailed
<1>6. ASSUME NEW t \in Callers, Granted(t) \/ Resend(t) PROVE SessionAlone
  <2>1. CASE CrashOnWriter(t)
    BY <1>6, <2>1, EndAlone DEF Granted, Resend, CrashOnWriter, Holding
  <2>2. ASSUME NEW k, WriteFrame(t, k), writer # None, UNCHANGED <<clientVars, loopVars, join>>
        PROVE  SessionAlone
    BY <1>6, <2>2, WriteAlone DEF Granted, Resend, SessionLabels
  <2>3. CASE Goto(t, "payload") /\ UNCHANGED <<clientVars, loopVars, link, join>>
    BY <1>1, <1>6, <2>3 DEF Granted, Resend, SessionLabels, Pcs
  <2>4. QED BY <1>6, <2>1, <2>2, <2>3 DEF Granted, Resend
<1>7. ASSUME NEW t \in Callers, Payload(t) PROVE SessionAlone
  BY <1>1, <1>7 DEF Payload, SessionLabels, Pcs
<1>8. ASSUME NEW t \in Callers, PayloadEnds(t) \/ TakeReply(t) \/ TakeRefusal(t)
      PROVE  SessionAlone
  BY <1>8, EndAlone DEF PayloadEnds, TakeReply, TakeRefusal, Takes, Holding
<1>9. ASSUME NEW t \in Callers, TakeBusy(t) PROVE SessionAlone
  BY <1>1, <1>9 DEF TakeBusy, Takes, SessionLabels, Pcs
<1>10. ASSUME NEW t \in Callers, TakeOther(t) PROVE SessionAlone
  BY <1>10 DEF TakeOther, SessionAlone, clientVars, loopVars
<1>11. ASSUME NEW t \in Callers, GiveUp(t) \/ Timeout(t) \/ DrainFails(t)
       PROVE  SessionAlone \/ Disconnects(t)
  BY <1>11, EndAlone, ResetDisconnects DEF GiveUp, Timeout, DrainFails, Holding
<1>12. ASSUME NEW t \in Callers, Disconnect(t) PROVE Disconnects(t)
  BY <1>12 DEF Disconnect, Disconnects, OthersStay, Goto
<1>13. ASSUME NEW c \in Conns, Gateway(c) PROVE SessionAlone
  <2>1. UNCHANGED <<clientVars, loopVars, join, pc>>
    BY <1>13 DEF Gateway, GatewayAnswers, GatewayEvent, GatewayCloses
  <2>2. UNCHANGED link \/ (link[c] = "open" /\ link' = [link EXCEPT ![c] = "eof"])
    BY <1>13 DEF Gateway, GatewayAnswers, GatewayEvent, GatewayCloses
  <2>3. QED BY <2>1, <2>2 DEF SessionAlone, SessionInv, SessionTypes
<1>14. CASE UNCHANGED vars
  BY <1>2, <1>14 DEF vars, clientVars, loopVars
<1>15. QED
  BY <1>3, <1>4, <1>5, <1>6, <1>7, <1>8, <1>9, <1>10, <1>11, <1>12, <1>13, <1>14
  DEF Next, CallerStep

-----------------------------------------------------------------------------
(* The session is read.  Loops of earlier connections may outlive them and     *)
(* read, fail or end on the current one, so that "the loop of this connection  *)
(* is alive" is no invariant: some loop reads it, or its writer is gone.       *)

UnusedUnread == \A c \in Conns : link[c] = "unused" => loop[c] = "none"

\* A loop that was cancelled ends, and never with an exception.
CancelledEnds ==
    \A t \in Callers : pc[t] \in {"stopping", "rejoining"} =>
        join[t] \in Conns /\ loop[join[t]] \in {"cancelled", "done"}

\* Only while the event _closed is clear is there a session, and then it is read.
ReadWhileOpen ==
    IsConnected /\ (\A t \in Callers : pc[t] \notin {"stopping", "closing"}) =>
        ~closed /\ \E c \in Conns : \/ loop[c] = "new"
                                    \/ loop[c] = "reading" /\ source[c] = writer

ReadInv ==
    /\ reader = writer
    /\ UnusedUnread
    /\ CancelledEnds
    /\ ReadTaskFailed => writer = None
    /\ ReadWhileOpen

LEMMA AloneKeepsRead ==
  ASSUME CommandInv, ReadInv, SessionAlone
  PROVE  ReadInv'
<1> USE DEF ReadInv, SessionAlone, clientVars, loopVars, CommandInv, LockInv, LockTypes,
            SessionInv, SessionTypes
<1>1. (reader = writer)' /\ (ReadTaskFailed => writer = None)'
  BY DEF ReadTaskFailed
<1>2. UnusedUnread'
  BY DEF UnusedUnread
<1>3. CancelledEnds'
  BY DEF CancelledEnds, SessionLabels
<1>4. ReadWhileOpen'
  <2>1. IsConnected' => IsConnected
    BY DEF IsConnected
  <2>2. ASSUME NEW u \in Callers PROVE pc'[u] \in {"stopping", "closing"} <=> pc[u] \in {"stopping", "closing"}
    BY DEF SessionLabels
  <2>3. QED BY <2>1, <2>2 DEF ReadWhileOpen
<1>5. QED BY <1>1, <1>2, <1>3, <1>4

\* A session that was closed, or never was, needs no reader.
LEMMA NothingToRead ==
  ASSUME ~IsConnected \/ \E t \in Callers : pc[t] \in {"stopping", "closing"}
  PROVE  ReadWhileOpen
BY DEF ReadWhileOpen

LEMMA ShutDisconnects ==
  ASSUME SessionTypes, SessionTypes', CloseWriterNowait
  PROVE  /\ ~IsConnected' /\ reader' = writer' /\ writer' = None
         /\ \A c \in Conns : link'[c] = "unused" => link[c] = "unused"
BY DEF CloseWriterNowait, IsConnected, Shut, SessionTypes

LEMMA CloseOwnDisconnects ==
  ASSUME SessionTypes, CloseOwnWriter, UNCHANGED writer, reader = writer
  PROVE  /\ ~IsConnected' /\ reader' = writer'
         /\ \A c \in Conns : link'[c] = "unused" => link[c] = "unused"
BY DEF CloseOwnWriter, IsConnected, Shut, SessionTypes

LEMMA OthersStayOut ==
  ASSUME NEW t \in Callers, OthersStay(t), NEW u \in Callers, u # t
  PROVE  \A label \in SessionLabels : pc'[u] = label <=> pc[u] = label
BY DEF OthersStay, SessionLabels

LEMMA LabelOf ==
  /\ ReadTaskRunning => DisconnectLabel = "stopping"
  /\ ReadTaskFailed => DisconnectLabel = "idle"
  /\ ReadTaskGone => DisconnectLabel = CloseLabel
<1>1. ReadTaskRunning => ~ReadTaskFailed /\ ~ReadTaskGone
  BY DEF ReadTaskRunning, ReadTaskFailed, ReadTaskGone, Alive
<1>2. ReadTaskFailed => ~ReadTaskGone
  BY DEF ReadTaskGone
<1> HIDE DEF ReadTaskRunning, ReadTaskFailed, ReadTaskGone, CloseLabel
<1>3. QED BY <1>1, <1>2, Zenon DEF DisconnectLabel

LEMMA DisconnectKeepsRead ==
  ASSUME CommandInv, CommandInv', ReadInv, NEW t \in Callers, Disconnects(t)
  PROVE  ReadInv'
<1> USE DEF ReadInv, CommandInv, SessionInv, SessionTypes
<1>1. \A u \in Callers \ {t} : \A label \in SessionLabels : pc'[u] = label <=> pc[u] = label
  BY OthersStayOut DEF Disconnects
<1>2. CASE ReadTaskRunning
  <2>1. /\ readTask \in Conns /\ readTask # None /\ loop' = [loop EXCEPT ![readTask] = "cancelled"]
        /\ loop[readTask] # "none" /\ loop[readTask] # "failed"
        /\ join' = [join EXCEPT ![t] = readTask]
        /\ UNCHANGED <<readTask, reader, writer, link>> /\ pc'[t] = "stopping"
    BY <1>2, LabelOf DEF Disconnects, DisconnectBegins, ReadTaskRunning, ReadTaskFailed, ReadTaskGone,
       Alive, Cancelled
  <2>2. UnusedUnread'
    BY <2>1 DEF UnusedUnread
  <2>3. CancelledEnds'
    BY <1>1, <2>1 DEF CancelledEnds, SessionLabels, CommandTypes
  <2>4. ReadWhileOpen'
    BY <2>1, NothingToRead DEF ReadWhileOpen
  <2>5. (ReadTaskFailed => writer = None)'
    BY <2>1 DEF ReadTaskFailed
  <2>6. QED BY <2>1, <2>2, <2>3, <2>4, <2>5
<1>3. CASE ReadTaskFailed
  <2>1. /\ UNCHANGED <<loop, join, readTask, reader, writer, link>>
        /\ pc'[t] = "idle" /\ writer = None
    BY <1>3, LabelOf DEF Disconnects, DisconnectBegins, ReadTaskRunning, ReadTaskFailed, ReadTaskGone,
       Alive
  <2>2. ~IsConnected'
    BY <2>1 DEF IsConnected
  <2>3. CancelledEnds'
    BY <1>1, <2>1 DEF CancelledEnds, SessionLabels
  <2>4. QED BY <2>1, <2>2, <2>3 DEF UnusedUnread, ReadWhileOpen, ReadTaskFailed
<1>4. CASE ReadTaskGone
  <2>1. /\ readTask' = None /\ CloseOwnWriter /\ UNCHANGED <<loop, join, writer>>
        /\ pc'[t] \in {"closing", "idle"}
    BY <1>4, LabelOf DEF Disconnects, DisconnectBegins, ReadTaskGone, CloseLabel
  <2>2. /\ ~IsConnected' /\ reader' = writer'
        /\ \A c \in Conns : link'[c] = "unused" => link[c] = "unused"
    BY <2>1, CloseOwnDisconnects
  <2>3. CancelledEnds'
    BY <1>1, <2>1 DEF CancelledEnds, SessionLabels
  <2>4. QED BY <2>1, <2>2, <2>3 DEF UnusedUnread, ReadWhileOpen, ReadTaskFailed
<1>5. QED BY <1>2, <1>3, <1>4 DEF ReadTaskGone

LEMMA ClosingKeepsRead ==
  ASSUME CommandInv, CommandInv', ReadInv, NEW t \in Callers,
         Stopped(t) \/ Closed(t) \/ Rejoined(t)
  PROVE  ReadInv'
<1> USE DEF ReadInv, CommandInv, SessionInv, SessionTypes, LockInv, LockTypes
<1>1. ~IsConnected' /\ reader' = writer'
      /\ (\A c \in Conns : link'[c] = "unused" => link[c] = "unused")
      /\ UNCHANGED <<loop, join>> /\ (readTask' \in {None, readTask})
      /\ (writer' = None \/ writer' = writer)
      /\ \E label \in {"idle", "closing", "opening"} : Goto(t, label)
  <2>1. CASE Stopped(t)
    <3>1. loop[join[t]] # "failed"
      BY <2>1 DEF Stopped, CancelledEnds
    <3>2. /\ CloseOwnWriter /\ UNCHANGED <<writer, loop, join>> /\ readTask' = None
          /\ \E label \in {"idle", "closing", "opening"} : Goto(t, label)
      BY <2>1, <3>1 DEF Stopped, CloseLabel, loopVars
    <3>3. QED BY <3>2, CloseOwnDisconnects
  <2>2. CASE Closed(t)
    BY <2>2, ShutDisconnects DEF Closed, loopVars
  <2>3. CASE Rejoined(t)
    <3>1. loop[join[t]] # "failed"
      BY <2>3 DEF Rejoined, CancelledEnds
    <3>2. /\ CloseWriterNowait /\ UNCHANGED <<loop, join>> /\ readTask' = None
          /\ Goto(t, "opening")
      BY <2>3, <3>1 DEF Rejoined, loopVars
    <3>3. QED BY <3>2, ShutDisconnects
  <2>4. QED BY <2>1, <2>2, <2>3
<1>2. CancelledEnds'
  BY <1>1 DEF CancelledEnds, Goto
<1>3. (ReadTaskFailed => writer = None)'
  BY <1>1 DEF ReadTaskFailed
<1>4. UnusedUnread' /\ ReadWhileOpen'
  BY <1>1 DEF UnusedUnread, ReadWhileOpen
<1>5. QED BY <1>1, <1>2, <1>3, <1>4

LEMMA ReconnectKeepsRead ==
  ASSUME CommandInv, CommandInv', ReadInv, NEW t \in Callers, Reconnect(t)
  PROVE  ReadInv'
<1> USE DEF ReadInv, CommandInv, SessionInv, SessionTypes, LockInv, LockTypes, Goto
<1>1. CASE ReadTaskRunning
  <2>1. /\ readTask \in Conns /\ loop' = [loop EXCEPT ![readTask] = "cancelled"]
        /\ loop[readTask] # "none" /\ loop[readTask] # "failed"
        /\ join' = [join EXCEPT ![t] = readTask]
        /\ UNCHANGED <<readTask, reader, writer, link>>
        /\ pc' = [pc EXCEPT ![t] = "rejoining"] /\ ~IsConnected
    BY <1>1 DEF Reconnect, ReadTaskRunning, ReadTaskFailed, ReadTaskGone, Alive, Cancelled
  <2>2. UnusedUnread'
    BY <2>1 DEF UnusedUnread
  <2>3. CancelledEnds'
    BY <2>1 DEF CancelledEnds, CommandTypes
  <2>4. ReadWhileOpen'
    BY <2>1 DEF ReadWhileOpen, IsConnected
  <2>5. (ReadTaskFailed => writer = None)'
    BY <2>1 DEF ReadTaskFailed
  <2>6. QED BY <2>1, <2>2, <2>3, <2>4, <2>5
<1>2. CASE ReadTaskFailed
  <2>1. /\ UNCHANGED <<loop, join, readTask, reader, writer, link>>
        /\ pc' = [pc EXCEPT ![t] = "idle"] /\ ~IsConnected
    BY <1>2 DEF Reconnect, ReadTaskRunning, ReadTaskFailed, ReadTaskGone, Alive
  <2>2. CancelledEnds'
    BY <2>1 DEF CancelledEnds
  <2>3. QED BY <2>1, <2>2 DEF UnusedUnread, ReadWhileOpen, ReadTaskFailed, IsConnected
<1>3. CASE ReadTaskGone
  <2>1. /\ readTask' = None /\ CloseWriterNowait /\ UNCHANGED <<loop, join>>
        /\ pc' = [pc EXCEPT ![t] = "opening"]
    BY <1>3 DEF Reconnect, ReadTaskGone
  <2>2. /\ ~IsConnected' /\ reader' = writer' /\ writer' = None
        /\ \A c \in Conns : link'[c] = "unused" => link[c] = "unused"
    BY <2>1, ShutDisconnects
  <2>3. CancelledEnds'
    BY <2>1 DEF CancelledEnds
  <2>4. QED BY <2>1, <2>2, <2>3 DEF UnusedUnread, ReadWhileOpen, ReadTaskFailed
<1>4. QED BY <1>1, <1>2, <1>3 DEF ReadTaskGone

LEMMA OpenedKeepsRead ==
  ASSUME CommandInv, CommandInv', ReadInv, NEW t \in Callers, Opened(t)
  PROVE  ReadInv'
<1> USE DEF ReadInv, CommandInv, SessionInv, SessionTypes, LockInv, LockTypes
<1>1. PICK c \in Conns :
         /\ link[c] = "unused"
         /\ link' = [Shut(writer) EXCEPT ![c] = "open"]
         /\ writer' = c /\ reader' = c /\ readTask' = c
         /\ loop' = [loop EXCEPT ![c] = "new"]
  BY DEF Opened, NextConn
<1>2. /\ closed' = FALSE /\ UNCHANGED <<join, source>>
      /\ \A u \in Callers : pc'[u] = pc[u] \/ (u = t /\ pc'[u] \in {"waiting", "queued"})
  BY DEF Opened, ClearClosed, Goto
<1>3. UnusedUnread'
  BY <1>1 DEF UnusedUnread, Shut
<1>4. CancelledEnds'
  BY <1>1, <1>2 DEF CancelledEnds, UnusedUnread
<1>5. ReadWhileOpen'
  BY <1>1, <1>2 DEF ReadWhileOpen
<1>6. (ReadTaskFailed => writer = None)'
  BY <1>1 DEF ReadTaskFailed
<1>7. QED BY <1>1, <1>3, <1>4, <1>5, <1>6

\* The "finally" of a loop takes the writer away, unless a disconnect() does.
LEMMA LoopEndKeepsRead ==
  ASSUME CommandInv, CommandInv', ReadInv, NEW c \in Conns, NEW how \in {"done", "failed"},
         loop[c] # "none", how = "failed" => ~closed /\ loop[c] # "cancelled",
         loop[c] # "done",
         LoopEnds(c, how), UNCHANGED <<source, loopUnchanged>>
  PROVE  ReadInv'
<1> USE DEF ReadInv, CommandInv, SessionInv, SessionTypes, LockInv, LockTypes, LoopEnds,
            loopUnchanged
<1>1. /\ reader' = writer' /\ (\A d \in Conns : link'[d] = "unused" => link[d] = "unused")
      /\ ~closed => ~IsConnected' /\ writer' = None
      /\ closed => UNCHANGED <<writer, link>>
  BY ShutDisconnects
<1>2. UnusedUnread'
  BY <1>1 DEF UnusedUnread
<1>3. CancelledEnds'
  BY DEF CancelledEnds
<1>4. ReadWhileOpen'
  <2>1. CASE closed
    <3>1. ~(IsConnected /\ \A t \in Callers : pc[t] \notin {"stopping", "closing"})
      BY <2>1 DEF ReadWhileOpen
    <3>2. UNCHANGED <<writer, link, pc>>
      BY <1>1, <2>1
    <3>3. QED BY <3>1, <3>2 DEF ReadWhileOpen, IsConnected
  <2>2. CASE ~closed
    BY <1>1, <2>2, NothingToRead DEF ReadWhileOpen
  <2>3. QED BY <2>1, <2>2
<1>5. (ReadTaskFailed => writer = None)'
  BY <1>1 DEF ReadTaskFailed
<1>6. QED BY <1>1, <1>2, <1>3, <1>4, <1>5

LEMMA NextReadKeepsRead ==
  ASSUME CommandInv, CommandInv', ReadInv, NEW c \in Conns, loop[c] \in {"new", "reading"},
         NextRead(c), UNCHANGED loopUnchanged
  PROVE  ReadInv'
<1>1. CASE closed
  BY <1>1, LoopEndKeepsRead DEF NextRead
<1>2. CASE ~closed /\ (reader = None \/ ReaderTaken(c))
  BY <1>2, LoopEndKeepsRead DEF NextRead
<1>3. CASE ~closed /\ reader # None /\ ~ReaderTaken(c)
  <2> USE DEF ReadInv, CommandInv, SessionInv, SessionTypes, loopUnchanged
  <2>1. /\ source' = [source EXCEPT ![c] = reader] /\ loop' = [loop EXCEPT ![c] = "reading"]
        /\ UNCHANGED <<writer, reader, link>>
    BY <1>3 DEF NextRead
  <2>2. UnusedUnread' /\ CancelledEnds'
    BY <2>1 DEF UnusedUnread, CancelledEnds
  <2>3. ReadWhileOpen'
    BY <1>3, <2>1 DEF ReadWhileOpen
  <2>4. (ReadTaskFailed => writer = None)'
    BY <2>1 DEF ReadTaskFailed
  <2>5. QED BY <2>1, <2>2, <2>3, <2>4
<1>4. QED BY <1>1, <1>2, <1>3

LEMMA LoopKeepsRead ==
  ASSUME CommandInv, CommandInv', ReadInv, NEW c \in Conns, LoopStep(c)
  PROVE  ReadInv'
<1> USE DEF CommandInv, SessionInv, SessionTypes
<1>1. CASE LoopStarts(c)
  <2>1. CASE reader = None
    <3>1. /\ loop' = [loop EXCEPT ![c] = "failed"]
          /\ UNCHANGED <<writer, reader, link, source, loopUnchanged>>
          /\ writer = None /\ loop[c] = "new"
      BY <1>1, <2>1 DEF LoopStarts, ReadInv, NextRead, LoopEnds, CloseWriterNowait, Shut
    <3>2. UnusedUnread' /\ CancelledEnds'
      BY <3>1 DEF ReadInv, UnusedUnread, CancelledEnds, loopUnchanged
    <3>3. ~IsConnected'
      BY <3>1 DEF IsConnected
    <3>4. QED BY <3>1, <3>2, <3>3 DEF ReadInv, ReadWhileOpen
  <2>2. CASE reader # None
    BY <1>1, <2>2, NextReadKeepsRead DEF LoopStarts
  <2>3. QED BY <2>1, <2>2
<1>2. CASE LoopReads(c)
  BY <1>2, NextReadKeepsRead DEF LoopReads
<1>3. CASE LoopEof(c)
  BY <1>3, LoopEndKeepsRead DEF LoopEof
<1>4. CASE LoopCancelled(c)
  <2>1. CASE LoopEnds(c, "done")
    BY <1>4, <2>1, LoopEndKeepsRead DEF LoopCancelled
  <2>2. CASE loop' = [loop EXCEPT ![c] = "done"] /\ UNCHANGED <<writer, reader, link>>
    <3>1. UNCHANGED <<source, loopUnchanged>> /\ loop[c] = "cancelled"
      BY <1>4 DEF LoopCancelled
    <3>2. UnusedUnread' /\ CancelledEnds'
      BY <2>2, <3>1 DEF ReadInv, UnusedUnread, CancelledEnds, loopUnchanged
    <3>3. (ReadTaskFailed => writer = None)'
      BY <2>2, <3>1 DEF ReadInv, ReadTaskFailed, loopUnchanged
    <3>4. ReadWhileOpen'
      BY <2>2, <3>1 DEF ReadInv, ReadWhileOpen, IsConnected, loopUnchanged
    <3>5. QED BY <2>2, <3>2, <3>3, <3>4 DEF ReadInv
  <2>3. QED BY <1>4, <2>1, <2>2 DEF LoopCancelled
<1>5. QED BY <1>1, <1>2, <1>3, <1>4 DEF LoopStep

LEMMA ReadStep ==
  ASSUME CommandInv, ReadInv, [Next]_vars
  PROVE  ReadInv'
<1>1. CommandInv'
  BY CommandStep
<1>2. QED
  BY <1>1, SessionMoves, AloneKeepsRead, DisconnectKeepsRead, ClosingKeepsRead,
     ReconnectKeepsRead, OpenedKeepsRead, LoopKeepsRead

\* Whatever the callers do at once, a session they can write on has a read loop on
\* its lines, or one that is about to start, unless a disconnect() is under way
\* (client.py: connect, disconnect and the "finally" of _read_loop).
THEOREM SessionIsAlwaysRead == Spec => []SessionIsRead
<1>1. Init => CommandInv /\ ReadInv
  <2>1. Init => CommandInv
    BY WireAtFirst DEF WireInv
  <2>2. Init => ReadInv
    BY DEF Init, ReadInv, UnusedUnread, CancelledEnds, ReadTaskFailed, ReadWhileOpen, IsConnected
  <2>3. QED BY <2>1, <2>2
<1>2. CommandInv /\ ReadInv /\ [Next]_vars => (CommandInv /\ ReadInv)'
  BY CommandStep, ReadStep
<1>3. ReadInv => SessionIsRead
  BY DEF ReadInv, ReadWhileOpen, SessionIsRead
<1>4. QED BY <1>1, <1>2, <1>3, PTL DEF Spec

-----------------------------------------------------------------------------
(* The session of a single caller.  With two, one can replace the session the   *)
(* other one is about to use: then two connections and two loops may live.      *)

OneCaller == \A s, t \in Callers : s = t

\* Only the connection in use is open.
OpenIsWriter == \A c \in Conns : link[c] \in {"open", "eof"} => writer = c

\* Only the loop of the connection in use lives, and it reads that connection.
LiveIsTask ==
    \A c \in Conns : /\ source[c] \in {None, c}
                     /\ loop[c] # "failed"
                     /\ Alive(c) => readTask = c /\ writer = c

\* What the caller waits for is the loop it cancelled; what it is about to open,
\* or has closed, has none.
StepsApart ==
    \A t \in Callers :
        /\ pc[t] = "opening" => readTask = None /\ writer = None
        /\ pc[t] \in {"rejoining", "stopping"} => join[t] = readTask
        /\ pc[t] = "closing" => readTask = None

SoleInv == OpenIsWriter /\ LiveIsTask /\ StepsApart

LEMMA AloneKeepsSole ==
  ASSUME CommandInv, SoleInv, SessionAlone
  PROVE  SoleInv'
<1> USE DEF SoleInv, SessionAlone, clientVars, loopVars
<1>1. OpenIsWriter'
  BY DEF OpenIsWriter
<1>2. LiveIsTask'
  BY DEF LiveIsTask, Alive
<1>3. StepsApart'
  BY DEF StepsApart, SessionLabels
<1>4. QED BY <1>1, <1>2, <1>3

LEMMA GoneIsDead ==
  ASSUME SessionInv, LiveIsTask, ReadTaskGone \/ ReadTaskFailed
  PROVE  ReadTaskGone /\ \A c \in Conns : ~Alive(c)
<1> USE DEF SessionInv, SessionTypes
<1>1. ~ReadTaskFailed
  BY DEF LiveIsTask, ReadTaskFailed
<1>2. ~ReadTaskRunning
  BY <1>1 DEF ReadTaskGone
<1>3. \A c \in Conns : Alive(c) => c = readTask /\ c # None
  BY DEF LiveIsTask, Conns, None
<1>4. QED BY <1>1, <1>2, <1>3 DEF ReadTaskGone, ReadTaskRunning

\* The loop it cancelled was the only one: when it has ended, none is left.
LEMMA JoinedIsDead ==
  ASSUME SessionInv, SoleInv, CancelledEnds, NEW t \in Callers,
         pc[t] \in {"stopping", "rejoining"}, Joined(t)
  PROVE  /\ join[t] \in Conns /\ loop[join[t]] # "failed"
         /\ \A c \in Conns : ~Alive(c)
BY DEF SoleInv, LiveIsTask, StepsApart, CancelledEnds, Joined, SessionInv, SessionTypes

LEMMA ShutSole ==
  ASSUME SessionInv, SoleInv, \A c \in Conns : ~Alive(c), UNCHANGED <<loop, source>>,
         \/ CloseWriterNowait
         \/ CloseOwnWriter /\ UNCHANGED writer
  PROVE  OpenIsWriter' /\ LiveIsTask'
<1> USE DEF SessionInv, SessionTypes, SoleInv
<1>1. LiveIsTask'
  BY DEF LiveIsTask, Alive
<1>2. OpenIsWriter'
  BY DEF OpenIsWriter, CloseWriterNowait, CloseOwnWriter, Shut
<1>3. QED BY <1>1, <1>2

LEMMA CancelSole ==
  ASSUME SessionInv, SoleInv, ReadTaskRunning, loop' = Cancelled(readTask),
         UNCHANGED <<writer, readTask, source, link>>
  PROVE  OpenIsWriter' /\ LiveIsTask'
BY DEF SessionInv, SessionTypes, SoleInv, OpenIsWriter, LiveIsTask, ReadTaskRunning, Alive, Cancelled

LEMMA DisconnectKeepsSole ==
  ASSUME OneCaller, CommandInv, CommandInv', SoleInv, NEW t \in Callers, Disconnects(t)
  PROVE  SoleInv'
<1> USE DEF CommandInv
<1>1. \A u \in Callers : u = t
  BY DEF OneCaller
<1>2. CASE ReadTaskRunning
  <2>1. /\ loop' = Cancelled(readTask) /\ join' = [join EXCEPT ![t] = readTask]
        /\ UNCHANGED <<writer, readTask, source, link>> /\ pc'[t] = "stopping"
    BY <1>2, LabelOf DEF Disconnects, DisconnectBegins, ReadTaskRunning, ReadTaskFailed,
       ReadTaskGone, Alive
  <2>2. StepsApart'
    BY <1>1, <2>1 DEF StepsApart, CommandTypes
  <2>3. QED BY <1>2, <2>1, <2>2, CancelSole DEF SoleInv
<1>3. CASE ~ReadTaskRunning
  <2>1. ReadTaskGone /\ ~ReadTaskFailed /\ \A c \in Conns : ~Alive(c)
    BY <1>3, GoneIsDead DEF SoleInv, ReadTaskGone
  <2>2. /\ readTask' = None /\ CloseOwnWriter /\ UNCHANGED <<loop, source, writer>>
        /\ pc'[t] \in {"closing", "idle"}
    BY <1>3, <2>1, LabelOf DEF Disconnects, DisconnectBegins, CloseLabel
  <2>3. StepsApart'
    BY <1>1, <2>2 DEF StepsApart
  <2>4. QED BY <2>1, <2>2, <2>3, ShutSole DEF SoleInv
<1>4. QED BY <1>2, <1>3

LEMMA ClosingKeepsSole ==
  ASSUME OneCaller, CommandInv, CommandInv', ReadInv, SoleInv, NEW t \in Callers,
         Stopped(t) \/ Closed(t) \/ Rejoined(t)
  PROVE  SoleInv'
<1> USE DEF CommandInv, LockInv, LockTypes, loopVars
<1>1. \A u \in Callers : u = t
  BY DEF OneCaller
<1>2. CASE Stopped(t)
  <2>1. loop[join[t]] # "failed" /\ \A c \in Conns : ~Alive(c)
    BY <1>2, JoinedIsDead DEF Stopped, ReadInv
  <2>2. /\ readTask' = None /\ CloseOwnWriter /\ UNCHANGED <<loop, source, writer>>
        /\ Goto(t, CloseLabel)
    BY <1>2, <2>1 DEF Stopped
  <2>3. StepsApart'
    BY <1>1, <2>2 DEF StepsApart, Goto, CloseLabel
  <2>4. QED BY <2>1, <2>2, <2>3, ShutSole DEF SoleInv
<1>3. CASE Closed(t)
  <2>1. readTask = None
    BY <1>3 DEF Closed, SoleInv, StepsApart
  <2>2. \A c \in Conns : ~Alive(c)
    BY <2>1 DEF SoleInv, LiveIsTask, Conns, None
  <2>3. StepsApart'
    BY <1>1, <1>3 DEF StepsApart, Goto, Closed
  <2>4. QED BY <1>3, <2>2, <2>3, ShutSole DEF SoleInv, Closed
<1>4. CASE Rejoined(t)
  <2>1. loop[join[t]] # "failed" /\ \A c \in Conns : ~Alive(c)
    BY <1>4, JoinedIsDead DEF Rejoined, ReadInv
  <2>2. /\ readTask' = None /\ CloseWriterNowait /\ UNCHANGED <<loop, source>>
        /\ Goto(t, "opening")
    BY <1>4, <2>1 DEF Rejoined
  <2>3. StepsApart'
    BY <1>1, <2>2 DEF StepsApart, Goto, CloseWriterNowait
  <2>4. QED BY <2>1, <2>2, <2>3, ShutSole DEF SoleInv
<1>5. QED BY <1>2, <1>3, <1>4

LEMMA ReconnectKeepsSole ==
  ASSUME OneCaller, CommandInv, CommandInv', SoleInv, NEW t \in Callers, Reconnect(t)
  PROVE  SoleInv'
<1> USE DEF CommandInv, LockInv, LockTypes
<1>1. \A u \in Callers : u = t
  BY DEF OneCaller
<1>2. CASE ReadTaskRunning
  <2>1. /\ loop' = Cancelled(readTask) /\ join' = [join EXCEPT ![t] = readTask]
        /\ UNCHANGED <<writer, readTask, source, link>> /\ Goto(t, "rejoining")
    BY <1>2 DEF Reconnect, ReadTaskRunning, ReadTaskFailed, ReadTaskGone, Alive
  <2>2. StepsApart'
    BY <1>1, <2>1 DEF StepsApart, CommandTypes, Goto
  <2>3. QED BY <1>2, <2>1, <2>2, CancelSole DEF SoleInv
<1>3. CASE ~ReadTaskRunning
  <2>1. ReadTaskGone /\ ~ReadTaskFailed /\ \A c \in Conns : ~Alive(c)
    BY <1>3, GoneIsDead DEF SoleInv, ReadTaskGone
  <2>2. /\ readTask' = None /\ CloseWriterNowait /\ UNCHANGED <<loop, source>>
        /\ Goto(t, "opening")
    BY <1>3, <2>1 DEF Reconnect
  <2>3. StepsApart'
    BY <1>1, <2>2 DEF StepsApart, Goto, CloseWriterNowait
  <2>4. QED BY <2>1, <2>2, <2>3, ShutSole DEF SoleInv
<1>4. QED BY <1>2, <1>3

LEMMA OpenedKeepsSole ==
  ASSUME OneCaller, CommandInv, CommandInv', SoleInv, NEW t \in Callers, Opened(t)
  PROVE  SoleInv'
<1> USE DEF CommandInv, LockInv, LockTypes, SessionInv, SessionTypes
<1>1. \A u \in Callers : u = t
  BY DEF OneCaller
<1>2. PICK c \in Conns :
         /\ link' = [Shut(writer) EXCEPT ![c] = "open"]
         /\ writer' = c /\ reader' = c /\ readTask' = c
         /\ loop' = [loop EXCEPT ![c] = "new"]
  BY DEF Opened
<1>3. /\ readTask = None /\ writer = None /\ UNCHANGED source /\ pc'[t] \in {"waiting", "queued"}
  BY DEF Opened, SoleInv, StepsApart, Goto
<1>4. \A d \in Conns : ~Alive(d) /\ link[d] \notin {"open", "eof"}
  BY <1>3 DEF SoleInv, LiveIsTask, OpenIsWriter, Conns, None
<1>5. OpenIsWriter'
  BY <1>2, <1>3, <1>4 DEF OpenIsWriter, Shut
<1>6. LiveIsTask'
  BY <1>2, <1>3, <1>4 DEF SoleInv, LiveIsTask, Alive
<1>7. StepsApart'
  BY <1>1, <1>3 DEF StepsApart
<1>8. QED BY <1>5, <1>6, <1>7 DEF SoleInv

LEMMA LoopKeepsSole ==
  ASSUME CommandInv, CommandInv', ReadInv, SoleInv, NEW c \in Conns, LoopStep(c)
  PROVE  SoleInv'
<1> USE DEF CommandInv, SessionInv, SessionTypes, loopUnchanged
<1>1. UNCHANGED loopUnchanged /\ Alive(c)
  BY DEF LoopStep, LoopStarts, LoopReads, LoopEof, LoopCancelled, Alive
<1>2. /\ readTask = c /\ writer = c /\ reader = c /\ c # None
      /\ \A d \in Conns \ {c} : ~Alive(d)
  BY <1>1 DEF SoleInv, LiveIsTask, ReadInv, Conns, None
<1>3. ~ReaderTaken(c)
  BY <1>2 DEF ReaderTaken, Alive
<1>4. ASSUME LoopEnds(c, "done"), UNCHANGED source
      PROVE  SoleInv'
  <2>1. LiveIsTask'
    BY <1>1, <1>2, <1>4 DEF SoleInv, LiveIsTask, LoopEnds, Alive
  <2>2. OpenIsWriter'
    BY <1>4 DEF SoleInv, OpenIsWriter, LoopEnds, CloseWriterNowait, Shut
  <2>3. StepsApart'
    BY <1>1, <1>2, <1>4 DEF SoleInv, StepsApart
  <2>4. QED BY <2>1, <2>2, <2>3 DEF SoleInv
<1>5. ASSUME source' = [source EXCEPT ![c] = c], loop' = [loop EXCEPT ![c] = "reading"],
             UNCHANGED <<writer, reader, link>>
      PROVE  SoleInv'
  <2>1. LiveIsTask'
    BY <1>1, <1>2, <1>5 DEF SoleInv, LiveIsTask, Alive
  <2>2. OpenIsWriter' /\ StepsApart'
    BY <1>1, <1>5 DEF SoleInv, OpenIsWriter, StepsApart
  <2>3. QED BY <2>1, <2>2 DEF SoleInv
<1>6. CASE LoopCancelled(c) /\ UNCHANGED <<writer, reader, link>>
  <2>1. loop' = [loop EXCEPT ![c] = "done"] /\ UNCHANGED source
    BY <1>6 DEF LoopCancelled, LoopEnds
  <2>2. LiveIsTask'
    BY <1>1, <1>2, <1>6, <2>1 DEF SoleInv, LiveIsTask, Alive
  <2>3. OpenIsWriter' /\ StepsApart'
    BY <1>1, <1>6 DEF SoleInv, OpenIsWriter, StepsApart
  <2>4. QED BY <2>2, <2>3 DEF SoleInv
<1>7. QED
  BY <1>2, <1>3, <1>4, <1>5, <1>6
  DEF LoopStep, LoopStarts, LoopReads, LoopEof, LoopCancelled, NextRead

LEMMA SoleStep ==
  ASSUME OneCaller, CommandInv, ReadInv, SoleInv, [Next]_vars
  PROVE  SoleInv'
<1>1. CommandInv'
  BY CommandStep
<1>2. QED
  BY <1>1, SessionMoves, AloneKeepsSole, DisconnectKeepsSole, ClosingKeepsSole,
     ReconnectKeepsSole, OpenedKeepsSole, LoopKeepsSole

LEMMA AtMostOne ==
  ASSUME NEW S, NEW x, S \subseteq {x}
  PROVE  Cardinality(S) \in {0, 1}
<1>1. CASE S = {}
  BY <1>1, FS_EmptySet
<1>2. CASE S = {x}
  BY <1>2, FS_Singleton
<1>3. QED BY <1>1, <1>2

LEMMA SessionAtFirst == Init => ReadInv /\ SoleInv
<1>1. Init => ReadInv
  BY DEF Init, ReadInv, UnusedUnread, CancelledEnds, ReadTaskFailed, ReadWhileOpen, IsConnected
<1>2. Init => SoleInv
  BY DEF Init, SoleInv, OpenIsWriter, LiveIsTask, StepsApart, Alive
<1>3. QED BY <1>1, <1>2

\* A single caller never has two connections to the gateway, counting the one it is
\* opening, nor two read loops, whatever the operations, the gateway and the bounds.
THEOREM ConnectionIsSole ==
  ASSUME OneCaller
  PROVE  Spec => []SoleConnection
<1>1. Init => CommandInv /\ ReadInv /\ SoleInv
  BY WireAtFirst, SessionAtFirst DEF WireInv
<1>2. CommandInv /\ ReadInv /\ SoleInv /\ [Next]_vars => (CommandInv /\ ReadInv /\ SoleInv)'
  BY CommandStep, ReadStep, SoleStep
<1>3. CommandInv /\ SoleInv => SoleConnection
  <2> SUFFICES ASSUME CommandInv, SoleInv PROVE SoleConnection
      OBVIOUS
  <2>1. Cardinality(LiveLoops) \in {0, 1}
    <3>1. LiveLoops \subseteq {readTask}
      BY DEF LiveLoops, SoleInv, LiveIsTask
    <3>2. QED BY <3>1, AtMostOne
  <2>2. OpenConns \subseteq {writer}
    BY DEF OpenConns, SoleInv, OpenIsWriter
  <2>3. CASE Opening = {}
    <3>1. Cardinality(OpenConns) \in {0, 1}
      BY <2>2, AtMostOne
    <3>2. Cardinality(Opening) = 0
      BY <2>3, FS_EmptySet
    <3>3. QED BY <2>1, <3>1, <3>2 DEF SoleConnection
  <2>4. CASE Opening # {}
    <3>1. PICK t \in Callers : pc[t] = "opening"
      BY <2>4 DEF Opening
    <3>2. Opening \subseteq {t}
      BY <3>1 DEF Opening, OneCaller
    <3>3. writer = None
      BY <3>1 DEF SoleInv, StepsApart
    <3>4. OpenConns = {}
      BY <2>2, <3>3 DEF OpenConns, Conns, None
    <3>5. Cardinality(OpenConns) = 0
      BY <3>4, FS_EmptySet
    <3>6. Cardinality(Opening) \in {0, 1}
      BY <3>2, AtMostOne
    <3>7. QED BY <2>1, <3>5, <3>6 DEF SoleConnection
  <2>5. QED BY <2>3, <2>4
<1>4. QED BY <1>1, <1>2, <1>3, PTL DEF Spec

-----------------------------------------------------------------------------
(* What a disconnect() leaves behind.                                          *)

\* A command that ends with a disconnect(): its own, or that of a sendir that
\* gave up.
Resets(t) ==
    \/ op[t] = "disconnect" /\ outcome[t] = "ok"
    \/ op[t] = "sendir" /\ outcome[t] \in {"aborted", "oserror"}

DisconnectOK ==
    \A t \in Callers : op[t] = "disconnect" => pc[t] \in {"idle", "start", "stopping", "closing"}

NothingLeft ==
    \A t \in Callers :
        pc[t] = "idle" /\ Resets(t) => readTask = None /\ writer = None /\ lines = <<>>

LeftInv == PayloadOK /\ DisconnectOK /\ NothingLeft

\* A disconnect() is nowhere but at its own awaits.
LEMMA DisconnectStays ==
  ASSUME CommandInv, DisconnectOK, NEW t \in Callers, CallerStep(t) \/ Timeout(t)
  PROVE  DisconnectOK'
<1> USE DEF CommandInv, LockInv, LockTypes, DisconnectOK
<1>1. UNCHANGED op
  BY CallerStays DEF commandVars
<1>2. \A u \in Callers : pc'[u] = pc[u] \/ u = t \/ (pc[u] = "queued" /\ pc'[u] = "granted")
  <2>1. CASE \E label : Goto(t, label)
    BY <2>1 DEF Goto
  <2>2. CASE UNCHANGED pc
    BY <2>2
  <2>3. CASE pc[t] \in Holding /\ \E label : Release(t, label)
    BY <2>3, ReleaseOthers DEF OthersStay
  <2>4. CASE \/ UseConnection(t) \/ Reconnect(t) \/ Rejoined(t) \/ Opened(t) \/ OpenFailed(t)
             \/ Payload(t) \/ TakeBusy(t) \/ TakeOther(t)
             \/ Disconnect(t) \/ Stopped(t) \/ Closed(t)
    BY <2>1, <2>2, <2>4 DEF UseConnection, Reconnect, Rejoined, Opened, OpenFailed, Payload,
       TakeBusy, TakeOther, Disconnect, Stopped, Closed, WriteFrame
  <2>5. CASE Granted(t) \/ Resend(t)
    BY <2>1, <2>3, <2>5 DEF Granted, Resend, WriteFrame, CrashOnWriter, EndExchange, Holding
  <2>6. CASE \/ PayloadEnds(t) \/ TakeReply(t) \/ TakeRefusal(t)
             \/ GiveUp(t) \/ DrainFails(t) \/ Timeout(t)
    BY <2>3, <2>6 DEF PayloadEnds, TakeReply, TakeRefusal, Takes, GiveUp, DrainFails, Timeout,
       Reset, EndExchange, Holding
  <2>7. QED BY <2>4, <2>5, <2>6 DEF CallerStep
<1>3. ASSUME op[t] = "disconnect" PROVE pc'[t] \in {"idle", "stopping", "closing"}
  <2>1. pc[t] \in {"idle", "start", "stopping", "closing"}
    BY <1>3
  <2>2. Disconnect(t) \/ Stopped(t) \/ Closed(t)
    BY <1>3, <2>1 DEF CallerStep, UseConnection, Reconnect, Rejoined, Opened, OpenFailed, Granted,
       Payload, PayloadEnds, TakeReply, TakeRefusal, TakeBusy, TakeOther, Takes, Resend, GiveUp,
       DrainFails, Timeout, Connects
  <2>3. QED
    BY <2>2, DisconnectLabelOutside DEF Disconnect, Stopped, Closed, CloseLabel, Goto
<1>4. QED BY <1>1, <1>2, <1>3

\* A step that ends a reset leaves nothing of the session.
LEMMA ResetEndsClean ==
  ASSUME CommandInv, ReadInv, SoleInv, LeftInv, NEW t \in Callers,
         Disconnects(t) \/ Stopped(t) \/ Closed(t), pc'[t] = "idle"
  PROVE  (readTask = None /\ writer = None /\ lines = <<>>)'
<1> USE DEF CommandInv, LockInv, LockTypes
<1>1. CASE Disconnects(t)
  <2>1. ReadTaskGone /\ ~ReadTaskFailed /\ ~ReadTaskRunning /\ writer = None
    <3>1. ~ReadTaskRunning
      BY <1>1, LabelOf DEF Disconnects
    <3>2. ReadTaskGone
      BY <3>1, GoneIsDead DEF ReadTaskGone, SoleInv
    <3>3. writer = None
      BY <1>1, <3>2, LabelOf DEF Disconnects, CloseLabel
    <3>4. QED BY <3>1, <3>2, <3>3 DEF ReadTaskGone
  <2>2. QED BY <1>1, <2>1 DEF Disconnects, DisconnectBegins, CloseOwnWriter
<1>2. CASE Stopped(t)
  <2>1. loop[join[t]] # "failed"
    BY <1>2, JoinedIsDead DEF Stopped, ReadInv
  <2>2. QED BY <1>2, <2>1 DEF Stopped, Goto, CloseLabel, CloseOwnWriter
<1>3. CASE Closed(t)
  BY <1>3 DEF Closed, SoleInv, StepsApart, CloseWriterNowait
<1>4. QED BY <1>1, <1>2, <1>3

\* Every other end of a command is not the end of a reset.
LEMMA EndsOrResets ==
  ASSUME CommandInv, ResultTypes, LeftInv, NEW t \in Callers, CallerStep(t) \/ Timeout(t)
  PROVE  \/ Disconnects(t) \/ Stopped(t) \/ Closed(t)
         \/ pc'[t] # "idle"
         \/ ~Resets(t)'
<1> USE DEF CommandInv, LockInv, LockTypes, ResultTypes
<1>0. UNCHANGED op
  BY CallerStays DEF commandVars
<1>1. pc[t] \in Holding \cup {"opening", "rejoining"} => op[t] # "disconnect"
  BY DEF LeftInv, DisconnectOK, Holding
<1>2. ASSUME NEW how, EndExchange(t, how), pc[t] \in Holding,
             how \in {"ok", "crash", "itach", "timeout"} \/ op[t] # "sendir"
      PROVE  ~Resets(t)'
  BY <1>0, <1>1, <1>2 DEF EndExchange, Finish, Resets
<1>3. CASE UseConnection(t) \/ Opened(t) \/ Payload(t) \/ TakeBusy(t)
  BY <1>3 DEF UseConnection, Opened, Payload, TakeBusy, WriteFrame, Goto
<1>4. CASE TakeOther(t)
  BY <1>4 DEF TakeOther, Takes
<1>5. CASE Reconnect(t) \/ Rejoined(t) \/ OpenFailed(t)
  BY <1>0, <1>5 DEF Reconnect, Rejoined, OpenFailed, Goto, Finish, Resets
<1>6. CASE Granted(t) \/ Resend(t)
  BY <1>2, <1>6 DEF Granted, Resend, CrashOnWriter, WriteFrame, Goto, Holding
<1>7. CASE PayloadEnds(t) \/ TakeReply(t) \/ TakeRefusal(t)
  BY <1>2, <1>7 DEF PayloadEnds, TakeReply, TakeRefusal, Takes, LeftInv, PayloadOK, Holding
<1>8. CASE GiveUp(t) \/ Timeout(t) \/ DrainFails(t)
  BY <1>1, <1>2, <1>8, ResetDisconnects DEF GiveUp, Timeout, DrainFails, Holding
<1>9. CASE Disconnect(t)
  BY <1>9 DEF Disconnect, Disconnects, OthersStay, Goto
<1>10. QED
  BY <1>3, <1>4, <1>5, <1>6, <1>7, <1>8, <1>9 DEF CallerStep

LEMMA LeftStep ==
  ASSUME OneCaller, CommandInv, ResultTypes, ReadInv, SoleInv, LeftInv, [Next]_vars
  PROVE  LeftInv'
<1> USE DEF CommandInv, LockInv, LockTypes, LeftInv
<1>1. ASSUME NEW t \in Callers, CallerStep(t) \/ Timeout(t) PROVE LeftInv'
  <2>1. PayloadOK' /\ DisconnectOK'
    BY <1>1, PayloadStays, DisconnectStays
  <2>2. NothingLeft'
    BY <1>1, EndsOrResets, ResetEndsClean DEF OneCaller, NothingLeft
  <2>3. QED BY <2>1, <2>2
<1>2. ASSUME NEW t \in Callers, NEW o \in Operations, Submit(t, o) PROVE LeftInv'
  <2>1. pc' = [pc EXCEPT ![t] = "start"] /\ \A u \in Callers : u = t
    BY <1>2 DEF Submit, Goto, OneCaller
  <2>2. \A u \in Callers : pc'[u] = "start"
    BY <2>1
  <2>3. QED BY <2>2 DEF PayloadOK, DisconnectOK, NothingLeft
<1>3. ASSUME UNCHANGED <<pc, op, outcome>>,
             (\A t \in Callers : ~(pc[t] = "idle" /\ Resets(t))) \/ UNCHANGED <<readTask, writer, lines>>
      PROVE  LeftInv'
  BY <1>3 DEF PayloadOK, DisconnectOK, NothingLeft, Resets
<1>4. ASSUME NEW c \in Conns, LoopStep(c) PROVE LeftInv'
  <2>1. readTask # None
    BY <1>4 DEF LoopStep, LoopStarts, LoopReads, LoopEof, LoopCancelled, SoleInv, LiveIsTask,
       Alive, Conns, None
  <2>2. UNCHANGED <<pc, op, outcome>>
    BY <1>4 DEF LoopStep, LoopStarts, LoopReads, LoopEof, LoopCancelled, loopUnchanged
  <2>3. QED BY <1>3, <2>1, <2>2 DEF NothingLeft
<1>5. ASSUME NEW c \in Conns, Gateway(c) PROVE LeftInv'
  BY <1>3, <1>5 DEF Gateway, GatewayAnswers, GatewayEvent, GatewayCloses, clientVars, commandVars,
     resultVars
<1>6. CASE UNCHANGED vars
  BY <1>3, <1>6 DEF vars
<1>7. QED BY <1>1, <1>2, <1>4, <1>5, <1>6 DEF Next

\* After its disconnect(), or a sendir that gave up, a single caller has no
\* connection, no read loop and no line left over (client.py:228, 462): the next
\* command cannot meet an answer to an earlier one.
THEOREM ResetsLeaveNothing ==
  ASSUME OneCaller
  PROVE  Spec => []ResetLeavesNothing
<1> DEFINE Inv == CommandInv /\ ResultTypes /\ ReadInv /\ SoleInv /\ LeftInv
<1>1. Init => Inv
  <2>1. Init => CommandInv /\ ResultTypes
    BY WireAtFirst DEF WireInv
  <2>2. Init => LeftInv
    BY DEF Init, LeftInv, PayloadOK, DisconnectOK, NothingLeft, Resets
  <2>3. QED BY <2>1, <2>2, SessionAtFirst
<1>2. Inv /\ [Next]_vars => Inv'
  BY CommandStep, ResultStep, ReadStep, SoleStep, LeftStep
<1>3. Inv => ResetLeavesNothing
  <2> SUFFICES ASSUME Inv, NEW t \in Callers, pc[t] = "idle", Resets(t)
               PROVE  OpenConns = {} /\ LiveLoops = {} /\ lines = <<>> /\ writer = None
      BY DEF ResetLeavesNothing, Resets
  <2>1. readTask = None /\ writer = None /\ lines = <<>>
    BY DEF LeftInv, NothingLeft
  <2>2. OpenConns = {} /\ LiveLoops = {}
    BY <2>1 DEF OpenConns, LiveLoops, SoleInv, OpenIsWriter, LiveIsTask, Conns, None
  <2>3. QED BY <2>1, <2>2
<1> HIDE DEF Inv
<1>4. QED BY <1>1, <1>2, <1>3, PTL DEF Spec
=============================================================================
