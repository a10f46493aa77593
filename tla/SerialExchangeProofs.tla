------------------------ MODULE SerialExchangeProofs ------------------------
(***************************************************************************)
(* The control client implements the serialized channel: every step of     *)
(* ItachClient is a step of SerialExchange, seen through the mapping of    *)
(* Channel, or changes nothing that SerialExchange sees.                   *)
(***************************************************************************)
EXTENDS ItachClientProofs

-----------------------------------------------------------------------------
(* What the mapping needs to know.                                          *)

\* Only commands that connect open a connection; only a sendir is sent again.
PlacesOK ==
    \A t \in Callers :
        /\ pc[t] \in {"rejoining", "opening"} => op[t] # "disconnect"
        /\ pc[t] = "backoff" => op[t] = "sendir"

\* A caller whose command has not been written yet.
Unsent == {"start", "rejoining", "opening", "queued"}

\* A request on the wire is of a command that was written.
SentRequest ==
    {r \in Request : r.n <= n[r.by] /\ (r.n = n[r.by] => pc[r.by] \notin Unsent)}

OnlySent == pending \in [Conns -> Seq(SentRequest)]

MapInv == TruthInv /\ PlacesOK /\ OnlySent

-----------------------------------------------------------------------------
(* The steps of the channel, from what the client's steps have in common.   *)

\* What the channel sees of a step besides where the callers are.
seenVars == <<op, n, outcome, fires>>

LineSeen == IF owner = NoCaller THEN <<>> ELSE <<owner>> \o waiters

LEMMA Phases ==
  /\ Phase("idle") = "idle"
  /\ \A p \in {"start", "rejoining", "opening"} : Phase(p) = "preparing"
  /\ \A p \in Holding \cup {"queued"} : Phase(p) = "admitted"
  /\ \A p \in {"stopping", "closing"} : Phase(p) = "ending"
<1>1. Phase("idle") = "idle"
  BY Zenon DEF Phase, Holding
<1>2. ASSUME NEW p \in {"start", "rejoining", "opening"} PROVE Phase(p) = "preparing"
  BY Zenon, <1>2 DEF Phase, Holding
<1>3. ASSUME NEW p \in Holding \cup {"queued"} PROVE Phase(p) = "admitted"
  BY Zenon, <1>3 DEF Phase, Holding
<1>4. ASSUME NEW p \in {"stopping", "closing"} PROVE Phase(p) = "ending"
  BY Zenon, <1>4 DEF Phase, Holding
<1>5. QED BY <1>1, <1>2, <1>3, <1>4

LEMMA MoveIsUnseen ==
  ASSUME LockInv, NEW t \in Callers, NEW label,
         pc' = [pc EXCEPT ![t] = label], UNCHANGED <<owner, waiters, seenVars>>,
         \/ pc[t] \in {"start", "rejoining", "opening"} /\ label \in {"rejoining", "opening"}
         \/ pc[t] \in Holding /\ label \in Holding
         \/ pc[t] \in {"stopping", "closing"} /\ label = "closing"
  PROVE  UNCHANGED Channel!xvars
<1>1. \A u \in Callers : Phase(pc'[u]) = Phase(pc[u])
  BY Phases DEF LockInv, LockTypes
<1>2. [u \in Callers |-> Phase(pc[u])]' = [u \in Callers |-> Phase(pc[u])]
  BY <1>1
<1>3. QED BY <1>2 DEF Channel!xvars, seenVars

LEMMA SubmitIsSubmit ==
  ASSUME TruthInv, NEW t \in Callers, NEW o \in Operations, Submit(t, o)
  PROVE  Channel!Submit(t)
<1> USE DEF Submit, TruthInv, WireInv, CommandInv, LockInv, LockTypes, CommandTypes, ResultTypes
<1>1. [u \in Callers |-> Phase(pc[u])]' = [[u \in Callers |-> Phase(pc[u])] EXCEPT ![t] = "preparing"]
  BY Phases DEF Goto
<1>2. [u \in Callers |-> [op |-> op[u], n |-> n[u]]]'
        = [[u \in Callers |-> [op |-> op[u], n |-> n[u]]] EXCEPT ![t] = [op |-> o, n |-> @.n + 1]]
  OBVIOUS
<1>3. outcome' = [outcome EXCEPT ![t] = "none"]
  BY DEF Finish
<1>4. Phase(pc[t]) = "idle"
  BY Phases
<1>5. UNCHANGED <<owner, waiters, fires>>
  BY DEF lockVars, gatewayVars
<1>6. QED BY <1>1, <1>2, <1>3, <1>4, <1>5 DEF Channel!Submit, Channel!Move, Channel!Result

LEMMA AdmitIsAdmit ==
  ASSUME LockInv, NEW t \in Callers, pc[t] \in {"start", "opening"}, op[t] # "disconnect",
         UNCHANGED seenVars,
         \/ /\ owner = NoCaller /\ owner' = t /\ UNCHANGED waiters
            /\ \E label \in Holding : pc' = [pc EXCEPT ![t] = label]
         \/ /\ owner # NoCaller /\ UNCHANGED owner /\ waiters' = Append(waiters, t)
            /\ pc' = [pc EXCEPT ![t] = "queued"]
  PROVE  Channel!Admit(t)
<1> USE DEF LockInv, LockTypes
<1>1. [u \in Callers |-> Phase(pc[u])]' = [[u \in Callers |-> Phase(pc[u])] EXCEPT ![t] = "admitted"]
  BY Phases
<1>2. Phase(pc[t]) = "preparing"
  BY Phases
<1>3. LineSeen' = Append(LineSeen, t)
  <2>1. CASE owner = NoCaller
    <3>1. waiters = <<>> /\ owner' = t /\ waiters' = <<>>
      BY <2>1 DEF LockDiscipline
    <3>2. t # NoCaller
      BY CallersAssumption DEF CallersAssumption
    <3>3. LineSeen = <<>> /\ LineSeen' = <<t>> \o <<>>
      BY <2>1, <3>1, <3>2 DEF LineSeen
    <3>4. QED BY <3>3
  <2>2. CASE owner # NoCaller
    <3>1. LineSeen = <<owner>> \o waiters /\ LineSeen' = <<owner>> \o Append(waiters, t)
      BY <2>2 DEF LineSeen
    <3>2. QED BY <2>2, <3>1
  <2>3. QED BY <2>1, <2>2
<1>4. QED BY <1>1, <1>2, <1>3 DEF Channel!Admit, Channel!Move, LineSeen, seenVars

LEMMA FailIsFail ==
  ASSUME LockInv, NEW t \in Callers, pc[t] \in {"start", "rejoining", "opening"},
         op[t] # "disconnect", pc' = [pc EXCEPT ![t] = "idle"],
         UNCHANGED <<owner, waiters, op, n, fires>>,
         NEW how \in Outcomes \ {"none", "ok"}, outcome' = [outcome EXCEPT ![t] = how]
  PROVE  Channel!Fail(t)
<1>1. [u \in Callers |-> Phase(pc[u])]' = [[u \in Callers |-> Phase(pc[u])] EXCEPT ![t] = "idle"]
  BY Phases DEF LockInv, LockTypes
<1>2. Phase(pc[t]) = "preparing"
  BY Phases
<1>3. QED BY <1>1, <1>2 DEF Channel!Fail, Channel!Move, Channel!Result

LEMMA LeaveIsLeave ==
  ASSUME TruthInv, NEW t \in Callers, pc[t] \in Holding,
         NEW label \in {"idle", "stopping", "closing"}, Release(t, label),
         UNCHANGED <<op, n, fires>>,
         NEW how \in Outcomes \ {"none"}, outcome' = [outcome EXCEPT ![t] = how],
         op[t] = "sendir" /\ how = "ok" => Done(t, n[t]),
         label # "idle" => op[t] = "sendir" /\ how # "ok"
  PROVE  Channel!Leave(t)
<1> USE DEF TruthInv, WireInv, CommandInv, LockInv, LockTypes, ResultTypes
<1> DEFINE to == IF label = "idle" THEN "idle" ELSE "ending"
<1>1. owner = t /\ t # NoCaller
  BY CallersAssumption DEF LockDiscipline, CallersAssumption
<1>2. LineSeen = <<t>> \o waiters
  BY <1>1 DEF LineSeen
<1>3. LineSeen # <<>> /\ Head(LineSeen) = t /\ Tail(LineSeen) = waiters
  BY <1>2
<1>4. [u \in Callers |-> Phase(pc[u])]' = [[u \in Callers |-> Phase(pc[u])] EXCEPT ![t] = to]
  <2>1. Phase(label) = to
    BY Phases
  <2>2. CASE waiters = <<>>
    <3>1. pc' = [pc EXCEPT ![t] = label]
      BY <2>2 DEF Release, Goto
    <3>2. QED BY <2>1, <3>1
  <2>3. CASE waiters # <<>>
    <3>1. PICK u \in Callers : u = Head(waiters) /\ u = waiters[1] /\ pc[u] = "queued"
      BY <2>3 DEF LockDiscipline
    <3>2. pc' = [pc EXCEPT ![t] = label, ![u] = "granted"]
      BY <2>3, <3>1 DEF Release
    <3>3. u # t
      BY <3>1 DEF Holding
    <3>4. Phase("granted") = "admitted" /\ Phase("queued") = "admitted"
      BY Phases DEF Holding
    <3>5. QED BY <2>1, <3>1, <3>2, <3>3, <3>4
  <2>4. QED BY <2>2, <2>3
<1>5. LineSeen' = waiters
  <2>1. CASE waiters = <<>>
    BY <2>1 DEF Release, LineSeen
  <2>2. CASE waiters # <<>>
    <3>1. owner' = Head(waiters) /\ waiters' = Tail(waiters) /\ Head(waiters) \in Callers
      BY <2>2 DEF Release
    <3>2. LineSeen' = <<Head(waiters)>> \o Tail(waiters)
      BY <3>1, CallersAssumption DEF LineSeen, CallersAssumption
    <3>3. QED BY <2>2, <3>2
  <2>3. QED BY <2>1, <2>2
<1>6. op[t] = "sendir" /\ how = "ok" =>
        <<t, n[t]>> \in {x \in Callers \X (1 .. MaxCommands) : fires[x[1]][x[2]] > 0}
  <2>1. SUFFICES ASSUME n[t] \in 1 .. MaxCommands, fires[t][n[t]] >= 1
                 PROVE  fires[t][n[t]] > 0
    BY DEF Done
  <2>2. fires[t] \in [1 .. MaxCommands -> Nat]
    BY DEF GatewayTypes
  <2>3. fires[t][n[t]] \in Nat
    BY <2>1, <2>2
  <2>4. QED BY <2>1, <2>3
<1>7. outcome'[t] = how
  OBVIOUS
<1>8. to = "idle" \/ (op[t] = "sendir" /\ outcome'[t] # "ok" /\ to = "ending")
  BY <1>7
<1>9. QED
  BY <1>3, <1>4, <1>5, <1>6, <1>7, <1>8 DEF Channel!Leave, Channel!Move, Channel!Result, LineSeen

LEMMA DisconnectIsDisconnect ==
  ASSUME LockInv, NEW t \in Callers, Disconnect(t)
  PROVE  Channel!Disconnect(t)
<1>1. PICK label \in {"idle", "stopping", "closing"} : pc' = [pc EXCEPT ![t] = label]
  BY DisconnectLabelOutside DEF Disconnect, Goto
<1>2. PICK p \in {"idle", "ending"} :
        [u \in Callers |-> Phase(pc[u])]' = [[u \in Callers |-> Phase(pc[u])] EXCEPT ![t] = p]
  BY <1>1, Phases DEF LockInv, LockTypes
<1>3. Phase(pc[t]) = "preparing" /\ op[t] = "disconnect"
  BY Phases DEF Disconnect
<1>4. PICK how \in {"ok", "crash"} : outcome' = [outcome EXCEPT ![t] = how]
  BY DEF Disconnect, Finish, DisconnectOutcome
<1>5. how \in Outcomes \ {"none"}
  BY DEF Outcomes
<1>6. UNCHANGED <<owner, waiters, op, n, fires>>
  BY DEF Disconnect, DisconnectBegins, lockVars, commandVars
<1>7. QED
  BY <1>2, <1>3, <1>4, <1>5, <1>6 DEF Channel!Disconnect, Channel!Move, Channel!Result

LEMMA EndIsEnd ==
  ASSUME LockInv, ResultTypes, NEW t \in Callers, pc[t] \in {"stopping", "closing"},
         pc' = [pc EXCEPT ![t] = "idle"], UNCHANGED <<owner, waiters, op, n, fires>>,
         UNCHANGED outcome \/ outcome' = [outcome EXCEPT ![t] = "crash"]
  PROVE  Channel!End(t)
<1>1. [u \in Callers |-> Phase(pc[u])]' = [[u \in Callers |-> Phase(pc[u])] EXCEPT ![t] = "idle"]
  BY Phases DEF LockInv, LockTypes
<1>2. Phase(pc[t]) = "ending"
  BY Phases
<1>3. \E how \in {outcome[t], "crash"} : outcome' = [outcome EXCEPT ![t] = how]
  <2>1. outcome = [outcome EXCEPT ![t] = outcome[t]]
    BY DEF ResultTypes
  <2>2. QED BY <2>1
<1>4. QED BY <1>1, <1>2, <1>3 DEF Channel!End, Channel!Move, Channel!Result

\* The gateway carries out what is on the wire, so what was written; or it refuses.
LEMMA AnswerIsCarryOut ==
  ASSUME MapInv, NEW c \in Conns, GatewayAnswers(c)
  PROVE  \/ UNCHANGED Channel!xvars
         \/ \E t \in Callers : \E k \in 1 .. MaxCommands : Channel!CarryOut(t, k)
<1> USE DEF MapInv, TruthInv, WireInv, CommandInv, LockInv, LockTypes, GatewayTypes, OnlySent
<1>1. UNCHANGED <<pc, owner, waiters, op, n, outcome>>
  BY DEF GatewayAnswers, lockVars, commandVars, resultVars
<1>2. PICK r \in SentRequest : r = Head(pending[c])
  BY DEF GatewayAnswers
<1>3. r.by \in Callers /\ r.n \in 1 .. MaxCommands
  BY <1>2 DEF SentRequest, Request
<1>4. CASE UNCHANGED fires
  BY <1>1, <1>4 DEF Channel!xvars
<1>5. CASE fires' = [fires EXCEPT ![r.by][r.n] = @ + 1]
  <2> DEFINE C == {x \in Callers \X (1 .. MaxCommands) : fires[x[1]][x[2]] > 0}
  <2>1. fires[r.by] \in [1 .. MaxCommands -> Nat]
    BY <1>3
  <2>2. ASSUME NEW u \in Callers, NEW k \in 1 .. MaxCommands
        PROVE  fires'[u][k] > 0 <=> fires[u][k] > 0 \/ (u = r.by /\ k = r.n)
    <3>1. fires[u] \in [1 .. MaxCommands -> Nat] /\ fires[u][k] \in Nat
      OBVIOUS
    <3>2. fires'[u][k] = IF u = r.by /\ k = r.n THEN fires[u][k] + 1 ELSE fires[u][k]
      BY <1>3, <1>5, <2>1, <3>1
    <3>3. QED BY <3>1, <3>2
  <2>3. C' = C \cup {<<r.by, r.n>>}
    BY <1>3, <2>2
  <2>4. /\ r.n \in 1 .. n[r.by]
        /\ r.n = n[r.by] => pc[r.by] \notin Unsent
    BY <1>2, <1>3 DEF SentRequest, CommandTypes
  <2>5. r.n = n[r.by] => Phase(pc[r.by]) # "preparing"
    BY <1>3, <2>4, Phases DEF Unsent, Pcs, Holding
  <2>6. r.n = n[r.by] /\ Phase(pc[r.by]) = "admitted" => Head(LineSeen) = r.by
    <3>1. r.n = n[r.by] /\ Phase(pc[r.by]) = "admitted" => pc[r.by] \in Holding
      BY <1>3, <2>4, Phases DEF Unsent, Pcs, Holding
    <3>2. pc[r.by] \in Holding => owner = r.by /\ r.by # NoCaller
      BY <1>3, CallersAssumption DEF LockDiscipline, CallersAssumption
    <3>3. QED BY <1>3, <3>1, <3>2 DEF LineSeen
  <2>7. Channel!CarryOut(r.by, r.n)
    BY <1>1, <1>3, <2>3, <2>4, <2>5, <2>6 DEF Channel!CarryOut, LineSeen
  <2>8. QED BY <1>3, <2>7
<1>6. QED BY <1>2, <1>4, <1>5 DEF GatewayAnswers

-----------------------------------------------------------------------------
(* The invariant.                                                           *)

LEMMA MovePlaces ==
  ASSUME LockInv, PlacesOK, NEW t \in Callers, NEW label, UNCHANGED op,
         Goto(t, label) \/ Release(t, label),
         label \in {"rejoining", "opening"} => op[t] # "disconnect",
         label = "backoff" => op[t] = "sendir"
  PROVE  PlacesOK'
BY DEF PlacesOK, LockInv, LockTypes, Goto, Release

LEMMA CallerPlaces ==
  ASSUME LockInv, PlacesOK, NEW t \in Callers, CallerStep(t) \/ Timeout(t)
  PROVE  PlacesOK'
<1> USE DEF commandVars
<1>1. CASE UseConnection(t) \/ Opened(t) \/ Payload(t)
  <2>1. UNCHANGED op /\ \E label \in {"waiting", "draining", "queued", "payload"} : Goto(t, label)
    BY <1>1 DEF UseConnection, Opened, Payload, WriteFrame
  <2>2. QED BY <2>1, MovePlaces
<1>2. CASE Reconnect(t) \/ Rejoined(t)
  <2>1. op[t] # "disconnect"
    BY <1>2 DEF Reconnect, Rejoined, Connects, PlacesOK
  <2>2. UNCHANGED op /\ \E label \in {"idle", "rejoining", "opening"} : Goto(t, label)
    BY <1>2 DEF Reconnect, Rejoined
  <2>3. QED BY <2>1, <2>2, MovePlaces
<1>3. CASE OpenFailed(t) \/ TakeOther(t)
  <2>1. UNCHANGED op /\ (UNCHANGED pc \/ Goto(t, "idle"))
    BY <1>3 DEF OpenFailed, TakeOther
  <2>2. CASE UNCHANGED pc
    BY <2>1, <2>2 DEF PlacesOK
  <2>3. QED BY <2>1, <2>2, MovePlaces
<1>4. CASE Granted(t) \/ Resend(t)
  <2>1. /\ UNCHANGED op
        /\ \/ \E label \in {"waiting", "draining", "payload"} : Goto(t, label)
           \/ Release(t, "idle")
    BY <1>4 DEF Granted, Resend, WriteFrame, CrashOnWriter, EndExchange
  <2>2. QED BY <2>1, MovePlaces
<1>5. CASE TakeBusy(t)
  BY <1>5, MovePlaces DEF TakeBusy, Busy
<1>6. CASE \/ PayloadEnds(t) \/ TakeReply(t) \/ TakeRefusal(t)
            \/ GiveUp(t) \/ Timeout(t) \/ DrainFails(t)
  <2>1. UNCHANGED op /\ (Release(t, "idle") \/ Release(t, DisconnectLabel))
    BY <1>6 DEF PayloadEnds, TakeReply, TakeRefusal, GiveUp, Timeout, DrainFails, Reset, EndExchange
  <2>2. QED BY <2>1, DisconnectLabelOutside, MovePlaces
<1>7. CASE Disconnect(t) \/ Stopped(t) \/ Closed(t)
  <2>1. UNCHANGED op /\ \E label \in {"idle", "stopping", "closing"} : Goto(t, label)
    BY <1>7, DisconnectLabelOutside DEF Disconnect, Stopped, Closed, CloseLabel
  <2>2. QED BY <2>1, MovePlaces
<1>8. QED BY <1>1, <1>2, <1>3, <1>4, <1>5, <1>6, <1>7 DEF CallerStep

\* What a caller's step does to the callers whose commands are not written, and to the wire:
\* it writes its own command, if any, and then waits.
Writes(t) ==
    /\ pc'[t] \notin Unsent
    /\ \E c \in Conns :
        \/ pending' = [pending EXCEPT ![c] = Append(@, MakeRequest(t))]
        \/ pending' = [pending EXCEPT ![c] = <<MakeRequest(t)>>]

LEMMA MoveSends ==
  ASSUME LockInv, NEW t \in Callers, NEW label, Goto(t, label) \/ Release(t, label),
         label \in Unsent => pc[t] \in Unsent
  PROVE  /\ \A u \in Callers : pc'[u] \in Unsent => pc[u] \in Unsent
         /\ Goto(t, label) => pc'[t] = label
BY DEF LockInv, LockTypes, Goto, Release, Unsent

LEMMA FrameSends ==
  ASSUME LockInv, NEW t \in Callers, NEW k, WriteFrame(t, k), writer \in Conns
  PROVE  /\ \A u \in Callers : pc'[u] \in Unsent => pc[u] \in Unsent
         /\ UNCHANGED pending \/ Writes(t)
<1>1. PICK label \in {"waiting", "draining"} : Goto(t, label)
  BY WriteMoves
<1>2. pc'[t] \notin Unsent /\ \A u \in Callers : pc'[u] \in Unsent => pc[u] \in Unsent
  BY <1>1, MoveSends DEF Unsent
<1>3. UNCHANGED pending \/ pending' = [pending EXCEPT ![writer] = Append(@, MakeRequest(t))]
  BY DEF WriteFrame
<1>4. QED BY <1>2, <1>3 DEF Writes

LEMMA CallerWrites ==
  ASSUME LockInv, SessionInv, NEW t \in Callers, CallerStep(t) \/ Timeout(t)
  PROVE  /\ \A u \in Callers : pc'[u] \in Unsent => pc[u] \in Unsent
         /\ UNCHANGED pending \/ Writes(t)
<1> USE DEF gatewayVars
<1> DEFINE Goal == /\ \A u \in Callers : pc'[u] \in Unsent => pc[u] \in Unsent
                   /\ UNCHANGED pending \/ Writes(t)
<1>1. ASSUME NEW label, Goto(t, label) \/ Release(t, label), UNCHANGED pending,
             label \in Unsent => pc[t] \in Unsent
      PROVE  Goal
  BY <1>1, MoveSends
<1>2. ASSUME NEW k, WriteFrame(t, k), writer # None PROVE Goal
  BY <1>2, FrameSends DEF SessionInv, SessionTypes
<1>3. CASE UseConnection(t)
  <2>1. CASE owner = NoCaller
    BY <1>2, <1>3, <2>1 DEF UseConnection, IsConnected
  <2>2. CASE owner # NoCaller
    BY <1>1, <1>3, <2>2 DEF UseConnection, Unsent
  <2>3. QED BY <2>1, <2>2
<1>4. CASE Opened(t)
  <2>1. CASE owner = NoCaller
    <3>1. /\ Goto(t, "waiting")
          /\ \E c \in Conns : pending' = [pending EXCEPT ![c] = <<MakeRequest(t)>>]
      BY <1>4, <2>1 DEF Opened
    <3>2. "waiting" \notin Unsent
      BY DEF Unsent
    <3>3. pc'[t] \notin Unsent /\ \A u \in Callers : pc'[u] \in Unsent => pc[u] \in Unsent
      BY <3>1, <3>2, MoveSends
    <3>4. QED BY <3>1, <3>3 DEF Writes
  <2>2. CASE owner # NoCaller
    BY <1>1, <1>4, <2>2 DEF Opened, Unsent
  <2>3. QED BY <2>1, <2>2
<1>5. CASE Granted(t) \/ Resend(t)
  <2>1. \/ UNCHANGED pending /\ (Goto(t, "payload") \/ Release(t, "idle"))
        \/ writer # None /\ \E k : WriteFrame(t, k)
    BY <1>5 DEF Granted, Resend, CrashOnWriter, EndExchange
  <2>2. QED BY <1>1, <1>2, <2>1 DEF Unsent
<1>6. CASE Reconnect(t) \/ Rejoined(t) \/ Payload(t)
  <2>1. UNCHANGED pending /\ pc[t] \in Unsent /\ \E label : Goto(t, label)
    BY <1>6 DEF Reconnect, Rejoined, Payload, Unsent
  <2>2. QED BY <1>1, <2>1
<1>7. CASE OpenFailed(t) \/ TakeOther(t)
  <2>1. UNCHANGED pending /\ (UNCHANGED pc \/ Goto(t, "idle"))
    BY <1>7 DEF OpenFailed, TakeOther
  <2>2. QED BY <1>1, <2>1 DEF Unsent
<1>8. CASE TakeBusy(t)
  BY <1>1, <1>8 DEF TakeBusy, Unsent
<1>9. CASE \/ PayloadEnds(t) \/ TakeReply(t) \/ TakeRefusal(t)
            \/ GiveUp(t) \/ Timeout(t) \/ DrainFails(t)
  <2>1. UNCHANGED pending /\ (Release(t, "idle") \/ Release(t, DisconnectLabel))
    BY <1>9 DEF PayloadEnds, TakeReply, TakeRefusal, GiveUp, Timeout, DrainFails, Reset,
       DisconnectBegins, EndExchange
  <2>2. QED BY <1>1, <2>1, DisconnectLabelOutside DEF Unsent
<1>10. CASE Disconnect(t) \/ Stopped(t) \/ Closed(t)
  <2>1. UNCHANGED pending /\ \E label \in {"idle", "stopping", "closing"} : Goto(t, label)
    BY <1>10, DisconnectLabelOutside DEF Disconnect, Stopped, Closed, CloseLabel, DisconnectBegins
  <2>2. QED BY <1>1, <2>1 DEF Unsent
<1>11. QED BY <1>3, <1>4, <1>5, <1>6, <1>7, <1>8, <1>9, <1>10 DEF CallerStep

\* A request that was written stays so while its caller's command runs, and after it.
LEMMA SentStays ==
  ASSUME CommandTypes, CommandTypes',
         \A u \in Callers : \/ n'[u] = n[u] /\ (pc'[u] \in Unsent => pc[u] \in Unsent)
                            \/ n'[u] = n[u] + 1
  PROVE  /\ SentRequest \subseteq SentRequest'
         /\ \A s : s \in Seq(SentRequest) => s \in Seq(SentRequest')
<1>1. ASSUME NEW r \in SentRequest PROVE r \in SentRequest'
  <2>1. r \in Request /\ r.by \in Callers /\ r.n \in Nat /\ n[r.by] \in Nat /\ n'[r.by] \in Nat
    BY DEF SentRequest, Request, CommandTypes
  <2>2. r.n <= n[r.by] /\ (r.n = n[r.by] => pc[r.by] \notin Unsent)
    BY DEF SentRequest
  <2>3. r.n <= n'[r.by] /\ (r.n = n'[r.by] => pc'[r.by] \notin Unsent)
    BY <2>1, <2>2
  <2>4. QED BY <2>1, <2>3 DEF SentRequest
<1>2. SentRequest \subseteq SentRequest'
  BY <1>1
<1>3. QED BY <1>2

LEMMA SentStep ==
  ASSUME MapInv, [Next]_vars
  PROVE  OnlySent'
<1> USE DEF MapInv, TruthInv, WireInv, OnlySent
<1>1. CommandInv /\ CommandInv' /\ CommandTypes /\ CommandTypes' /\ LockInv /\ SessionInv
  BY CommandStep DEF CommandInv
<1>2. ASSUME UNCHANGED <<pc, n, pending>> PROVE OnlySent'
  BY <1>2 DEF SentRequest
<1>3. ASSUME NEW t \in Callers, NEW o \in Operations, Submit(t, o) PROVE OnlySent'
  <2>1. \A u \in Callers : \/ n'[u] = n[u] /\ (pc'[u] \in Unsent => pc[u] \in Unsent)
                           \/ n'[u] = n[u] + 1
    BY <1>1, <1>3 DEF Submit, Goto, CommandTypes, LockInv, LockTypes
  <2>2. UNCHANGED pending
    BY <1>3 DEF Submit, gatewayVars
  <2>3. QED BY <1>1, <2>1, <2>2, SentStays
<1>4. ASSUME NEW t \in Callers, CallerStep(t) \/ Timeout(t) PROVE OnlySent'
  <2>1. /\ UNCHANGED <<n, op>> /\ pc[t] # "idle"
        /\ \A u \in Callers : pc'[u] \in Unsent => pc[u] \in Unsent
        /\ UNCHANGED pending \/ Writes(t)
    <3>1. pc[t] # "idle"
      BY <1>4 DEF CallerStep, UseConnection, Reconnect, Rejoined, Opened, OpenFailed, Granted,
         Payload, PayloadEnds, TakeReply, TakeRefusal, TakeBusy, TakeOther, Takes, Resend, GiveUp,
         DrainFails, Disconnect, Stopped, Closed, Timeout
    <3>2. QED BY <1>1, <1>4, <3>1, CallerStays, CallerWrites DEF commandVars
  <2>2. /\ SentRequest \subseteq SentRequest'
        /\ \A s : s \in Seq(SentRequest) => s \in Seq(SentRequest')
    BY <1>1, <2>1, SentStays
  <2>3. pending \in [Conns -> Seq(SentRequest')]
    BY <2>2
  <2>4. CASE Writes(t)
    <3> DEFINE r == MakeRequest(t)
    <3>1. r \in Request /\ r.by = t /\ r.n = n[t] /\ n[t] \in Nat
      BY <1>1, <2>1, RequestTyped DEF MakeRequest, CommandTypes
    <3>2. r \in SentRequest'
      <4>1. r.n <= n'[r.by] /\ pc'[r.by] \notin Unsent
        BY <2>1, <2>4, <3>1 DEF Writes
      <4> HIDE DEF r
      <4>2. QED BY <3>1, <4>1 DEF SentRequest
    <3>3. \A c \in Conns : /\ <<r>> \in Seq(SentRequest')
                           /\ Append(pending[c], r) \in Seq(SentRequest')
      BY <2>3, <3>2
    <3>4. QED BY <2>3, <2>4, <3>3 DEF Writes
  <2>5. QED BY <2>1, <2>3, <2>4
<1>5. ASSUME NEW c \in Conns, LoopStep(c) \/ GatewayEvent(c) PROVE OnlySent'
  BY <1>2, <1>5 DEF LoopStep, LoopStarts, LoopReads, LoopEof, LoopCancelled, loopUnchanged,
     GatewayEvent, gatewayVars, commandVars
<1>6. ASSUME NEW c \in Conns, GatewayAnswers(c) \/ GatewayCloses(c) PROVE OnlySent'
  <2>1. UNCHANGED <<pc, n>>
    BY <1>6 DEF GatewayAnswers, GatewayCloses, commandVars
  <2>2. SentRequest' = SentRequest
    BY <2>1 DEF SentRequest
  <2>3. <<>> \in Seq(SentRequest) /\ (pending[c] # <<>> => Tail(pending[c]) \in Seq(SentRequest))
    OBVIOUS
  <2>4. QED BY <1>6, <2>2, <2>3 DEF GatewayAnswers, GatewayCloses
<1>7. CASE UNCHANGED vars
  BY <1>2, <1>7 DEF vars
<1>8. QED BY <1>3, <1>4, <1>5, <1>6, <1>7 DEF Next, Gateway

LEMMA MapStep ==
  ASSUME FreshIds, MapInv, [Next]_vars
  PROVE  MapInv'
<1>1. TruthInv' /\ OnlySent'
  BY TruthStep, SentStep DEF MapInv
<1>2. LockInv /\ PlacesOK
  BY DEF MapInv, TruthInv, WireInv, CommandInv
<1>3. ASSUME NEW t \in Callers, NEW o \in Operations, Submit(t, o) PROVE PlacesOK'
  BY <1>2, <1>3 DEF PlacesOK, Submit, Goto, LockInv, LockTypes
<1>4. ASSUME UNCHANGED <<pc, op>> PROVE PlacesOK'
  BY <1>2, <1>4 DEF PlacesOK
<1>5. ASSUME NEW c \in Conns, LoopStep(c) \/ Gateway(c) PROVE UNCHANGED <<pc, op>>
  BY <1>5 DEF LoopStep, LoopStarts, LoopReads, LoopEof, LoopCancelled, loopUnchanged,
     Gateway, GatewayAnswers, GatewayEvent, GatewayCloses, commandVars
<1>6. PlacesOK'
  BY <1>2, <1>3, <1>4, <1>5, CallerPlaces DEF Next, vars
<1>7. QED BY <1>1, <1>6 DEF MapInv

-----------------------------------------------------------------------------
(* The steps.                                                               *)

LEMMA PreparingMaps ==
  ASSUME MapInv, NEW t \in Callers,
         \/ UseConnection(t) \/ Reconnect(t) \/ Rejoined(t) \/ Opened(t) \/ OpenFailed(t)
         \/ Payload(t)
  PROVE  UNCHANGED Channel!xvars \/ Channel!Admit(t) \/ Channel!Fail(t)
<1> USE DEF lockVars, gatewayVars, commandVars, resultVars
<1>1. LockInv /\ PlacesOK
  BY DEF MapInv, TruthInv, WireInv, CommandInv
<1>2. CASE UseConnection(t) \/ Opened(t) \/ Payload(t)
  <2>1. pc[t] \in {"start", "opening"} /\ op[t] # "disconnect"
    BY <1>1, <1>2 DEF UseConnection, Opened, Payload, Connects, PlacesOK
  <2>2. \/ /\ owner = NoCaller /\ owner' = t /\ UNCHANGED waiters
           /\ \E label \in {"waiting", "draining", "payload"} : Goto(t, label)
        \/ /\ owner # NoCaller /\ UNCHANGED owner /\ waiters' = Append(waiters, t)
           /\ Goto(t, "queued")
    BY <1>2, WriteMoves DEF UseConnection, Opened, Payload
  <2>3. UNCHANGED seenVars
    BY <1>2 DEF UseConnection, Opened, Payload, WriteFrame, seenVars
  <2>4. QED BY <1>1, <2>1, <2>2, <2>3, AdmitIsAdmit DEF Goto, Holding
<1>3. CASE Reconnect(t) \/ Rejoined(t) \/ OpenFailed(t)
  <2>1. /\ pc[t] \in {"start", "rejoining", "opening"} /\ op[t] # "disconnect"
        /\ UNCHANGED <<owner, waiters, op, n, fires>>
    BY <1>1, <1>3 DEF Reconnect, Rejoined, OpenFailed, Connects, PlacesOK
  <2>2. \/ UNCHANGED <<pc, outcome>>
        \/ UNCHANGED outcome /\ \E label \in {"rejoining", "opening"} : Goto(t, label)
        \/ Goto(t, "idle") /\ (Finish(t, "crash") \/ Finish(t, "itach"))
    BY <1>3 DEF Reconnect, Rejoined, OpenFailed
  <2>3. CASE UNCHANGED <<pc, outcome>>
    BY <2>1, <2>3 DEF Channel!xvars
  <2>4. CASE UNCHANGED outcome /\ \E label \in {"rejoining", "opening"} : Goto(t, label)
    BY <1>1, <2>1, <2>4, MoveIsUnseen DEF Goto, seenVars
  <2>5. CASE Goto(t, "idle") /\ (Finish(t, "crash") \/ Finish(t, "itach"))
    BY <1>1, <2>1, <2>5, FailIsFail DEF Goto, Finish, Outcomes
  <2>6. QED BY <2>2, <2>3, <2>4, <2>5
<1>4. QED BY <1>2, <1>3

LEMMA EndsMap ==
  ASSUME TruthInv, NEW t \in Callers, pc[t] \in Holding, NEW how \in Outcomes \ {"none"},
         op[t] = "sendir" /\ how = "ok" => Done(t, n[t]),
         \/ EndExchange(t, how)
         \/ Reset(t, how) /\ op[t] = "sendir" /\ how # "ok"
  PROVE  Channel!Leave(t)
<1>1. CASE EndExchange(t, how)
  BY <1>1, LeaveIsLeave DEF EndExchange, Finish, commandVars, gatewayVars
<1>2. CASE Reset(t, how) /\ op[t] = "sendir" /\ how # "ok"
  <2>1. PICK h \in Outcomes \ {"none", "ok"} : outcome' = [outcome EXCEPT ![t] = h]
    BY <1>2 DEF Reset, Finish, DisconnectOutcome, Outcomes
  <2>2. Release(t, DisconnectLabel) /\ UNCHANGED <<op, n, fires>>
    BY <1>2 DEF Reset, DisconnectBegins, commandVars
  <2>3. QED BY <1>2, <2>1, <2>2, DisconnectLabelOutside, LeaveIsLeave
<1>3. QED BY <1>1, <1>2

LEMMA ServedMaps ==
  ASSUME FreshIds, MapInv, NEW t \in Callers,
         \/ Granted(t) \/ PayloadEnds(t) \/ TakeReply(t) \/ TakeRefusal(t) \/ TakeBusy(t)
         \/ TakeOther(t) \/ Resend(t) \/ GiveUp(t) \/ DrainFails(t) \/ Timeout(t)
  PROVE  UNCHANGED Channel!xvars \/ Channel!Leave(t)
<1> USE DEF lockVars, gatewayVars, commandVars, resultVars
<1>1. TruthInv /\ LockInv /\ PlacesOK /\ PayloadOK
  BY DEF MapInv, TruthInv, WireInv, CommandInv
<1>2. {"ok", "itach", "aborted", "timeout", "oserror", "crash"} \subseteq Outcomes \ {"none"}
  BY DEF Outcomes
<1>3. CASE Granted(t) \/ Resend(t)
  <2>1. pc[t] \in Holding
    BY <1>3 DEF Granted, Resend, Holding
  <2>2. CASE CrashOnWriter(t)
    BY <1>1, <1>2, <2>1, <2>2, EndsMap DEF CrashOnWriter
  <2>3. CASE ~CrashOnWriter(t)
    <3>1. /\ \E label \in {"waiting", "draining", "payload"} : Goto(t, label)
          /\ UNCHANGED <<owner, waiters, seenVars>>
      BY <1>3, <2>3, WriteMoves DEF Granted, Resend, seenVars
    <3>2. QED BY <1>1, <2>1, <3>1, MoveIsUnseen DEF Goto, Holding
  <2>4. QED BY <2>2, <2>3
<1>4. CASE PayloadEnds(t)
  <2>1. pc[t] \in Holding /\ op[t] # "sendir"
    BY <1>1, <1>4 DEF PayloadEnds, PayloadOK, Holding
  <2>2. QED BY <1>1, <1>2, <1>4, <2>1, EndsMap DEF PayloadEnds
<1>5. CASE TakeReply(t)
  <2>1. pc[t] \in Holding
    BY <1>5 DEF TakeReply, Takes, Holding
  <2>2. op[t] = "sendir" => Done(t, n[t])
    <3>1. Head(lines) \in TrueLine
      BY <1>1, <1>5 DEF TakeReply, Takes, TruthInv, LinesTrue
    <3>2. op[t] = "sendir" =>
            Head(lines).kind = "complete" /\ Head(lines).by = t /\ Head(lines).n = n[t]
      BY <1>5 DEF TakeReply, Satisfies
    <3>3. QED BY <3>1, <3>2 DEF TrueLine
  <2>3. QED BY <1>1, <1>2, <1>5, <2>1, <2>2, EndsMap DEF TakeReply
<1>6. CASE TakeRefusal(t)
  <2>1. pc[t] \in Holding /\ EndExchange(t, "itach")
    BY <1>6 DEF TakeRefusal, Takes, Holding
  <2>2. QED BY <1>1, <1>2, <2>1, EndsMap
<1>7. CASE TakeBusy(t) \/ TakeOther(t)
  <2>1. /\ pc[t] \in Holding
        /\ UNCHANGED pc \/ Goto(t, "backoff")
        /\ UNCHANGED <<owner, waiters, seenVars>>
    BY <1>7 DEF TakeBusy, TakeOther, Takes, Holding, seenVars
  <2>2. CASE UNCHANGED pc
    BY <2>1, <2>2 DEF Channel!xvars, seenVars
  <2>3. CASE Goto(t, "backoff")
    BY <1>1, <2>1, <2>3, MoveIsUnseen DEF Goto, Holding
  <2>4. QED BY <2>1, <2>2, <2>3
<1>8. CASE GiveUp(t)
  <2>1. pc[t] \in Holding /\ op[t] = "sendir" /\ Reset(t, "aborted")
    BY <1>1, <1>8 DEF GiveUp, PlacesOK, Holding
  <2>2. QED BY <1>1, <1>2, <2>1, EndsMap
<1>9. CASE DrainFails(t) \/ Timeout(t)
  <2>1. pc[t] \in Holding
    BY <1>9 DEF DrainFails, Timeout, Holding
  <2>2. \/ op[t] = "sendir" /\ \E how \in {"aborted", "oserror"} : Reset(t, how)
        \/ op[t] # "sendir" /\ \E how \in {"ok", "timeout", "oserror"} : EndExchange(t, how)
    BY <1>9 DEF DrainFails, Timeout
  <2>3. QED BY <1>1, <1>2, <2>1, <2>2, EndsMap
<1>10. QED BY <1>3, <1>4, <1>5, <1>6, <1>7, <1>8, <1>9

LEMMA StoppingMaps ==
  ASSUME MapInv, NEW t \in Callers, Disconnect(t) \/ Stopped(t) \/ Closed(t)
  PROVE  UNCHANGED Channel!xvars \/ Channel!Disconnect(t) \/ Channel!End(t)
<1>1. LockInv /\ ResultTypes
  BY DEF MapInv, TruthInv, WireInv, CommandInv
<1>2. CASE Stopped(t) \/ Closed(t)
  <2>1. /\ pc[t] \in {"stopping", "closing"}
        /\ UNCHANGED <<owner, waiters, op, n, fires>>
    BY <1>2 DEF Stopped, Closed, lockVars, gatewayVars, commandVars
  <2>2. \/ Goto(t, "idle") /\ (UNCHANGED outcome \/ Finish(t, "crash"))
        \/ Goto(t, "closing") /\ UNCHANGED outcome
    BY <1>2 DEF Stopped, Closed, CloseLabel, resultVars
  <2>3. CASE Goto(t, "closing") /\ UNCHANGED outcome
    BY <1>1, <2>1, <2>3, MoveIsUnseen DEF Goto, seenVars
  <2>4. CASE Goto(t, "idle") /\ (UNCHANGED outcome \/ Finish(t, "crash"))
    BY <1>1, <2>1, <2>4, EndIsEnd DEF Goto, Finish
  <2>5. QED BY <2>2, <2>3, <2>4
<1>3. QED BY <1>1, <1>2, DisconnectIsDisconnect

LEMMA StepMaps ==
  ASSUME FreshIds, MapInv, [Next]_vars
  PROVE  [Channel!Next]_(Channel!xvars)
<1>1. CASE UNCHANGED <<pc, owner, waiters, op, n, outcome, fires>>
  BY <1>1 DEF Channel!xvars
<1>2. ASSUME NEW t \in Callers, NEW o \in Operations, Submit(t, o)
      PROVE  Channel!Next
  BY <1>2, SubmitIsSubmit DEF MapInv, Channel!Next
<1>3. ASSUME NEW t \in Callers, CallerStep(t) \/ Timeout(t)
      PROVE  [Channel!Next]_(Channel!xvars)
  BY <1>3, PreparingMaps, ServedMaps, StoppingMaps DEF CallerStep, Channel!Next
<1>4. ASSUME NEW c \in Conns, LoopStep(c) \/ GatewayEvent(c) \/ GatewayCloses(c)
      PROVE  UNCHANGED <<pc, owner, waiters, op, n, outcome, fires>>
  BY <1>4 DEF LoopStep, LoopStarts, LoopReads, LoopEof, LoopCancelled, loopUnchanged,
     GatewayEvent, GatewayCloses, lockVars, gatewayVars, commandVars, resultVars
<1>5. ASSUME NEW c \in Conns, GatewayAnswers(c)
      PROVE  [Channel!Next]_(Channel!xvars)
  BY <1>5, AnswerIsCarryOut DEF Channel!Next
<1>6. CASE UNCHANGED vars
  BY <1>1, <1>6 DEF vars
<1>7. QED BY <1>1, <1>2, <1>3, <1>4, <1>5, <1>6 DEF Next, Gateway

LEMMA MapAtFirst == Init => MapInv /\ Channel!Init
<1> SUFFICES ASSUME Init PROVE MapInv /\ Channel!Init
    OBVIOUS
<1>1. WireInv /\ ResultTypes
  BY WireAtFirst
<1>2. LinesTrue /\ OnlySent
  <2>1. <<>> \in Seq(TrueLine) /\ <<>> \in Seq(SentRequest)
    OBVIOUS
  <2>2. QED BY <2>1 DEF Init, LinesTrue, OnlySent
<1>3. PayloadOK /\ SendirDone /\ PlacesOK
  BY DEF Init, PayloadOK, SendirDone, PlacesOK
<1>4. [t \in Callers |-> Phase(pc[t])] = [t \in Callers |-> "idle"]
  BY Phases DEF Init
<1>5. {x \in Callers \X (1 .. MaxCommands) : fires[x[1]][x[2]] > 0} = {}
  BY DEF Init
<1>6. Channel!Init
  BY <1>4, <1>5 DEF Init, Channel!Init
<1>7. QED BY <1>1, <1>2, <1>3, <1>6 DEF MapInv, TruthInv

\* When every sendir has an id of its own, the client implements the serialized
\* channel, whatever happens to the connection: the callers that get past connect()
\* are served one at a time in the order they arrived, each leaves with one result,
\* and a sendir ends well only after the gateway carried it out.
THEOREM ClientIsSerial ==
  ASSUME FreshIds
  PROVE  Spec => ImplementsSerialExchange
<1>1. Init => MapInv /\ Channel!Init
  BY MapAtFirst
<1>2. MapInv /\ [Next]_vars => MapInv'
  BY MapStep
<1>3. MapInv /\ [Next]_vars => [Channel!Next]_(Channel!xvars)
  BY StepMaps
<1>4. QED BY <1>1, <1>2, <1>3, PTL DEF Spec, ImplementsSerialExchange, Channel!Spec
=============================================================================
