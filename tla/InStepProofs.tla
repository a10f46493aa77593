---------------------------- MODULE InStepProofs ----------------------------
(***************************************************************************)
(* The proofs that the client's commands and the gateway's lines stay in   *)
(* step.  While no command of any caller has failed there is one           *)
(* conversation at most: one request on the wire, or its reply on its way, *)
(* or on the queue, and its caller waits for it.  With one caller that     *)
(* sends codes this holds after failures too, on the connection in use.    *)
(***************************************************************************)
EXTENDS ItachClientProofs

Silent(s) == \A i \in 1 .. Len(s) : s[i] = NoLine

From(t, l) == l.by = t /\ l.n = n[t]

\* One line of s is for the command of t, the others for nobody.
OneFrom(t, s) ==
    \E i \in 1 .. Len(s) : From(t, s[i]) /\ \A j \in 1 .. Len(s) : j # i => s[j] = NoLine

NoRequest == \A c \in Conns : pending[c] = <<>>
NoneHeard == \A c \in Conns : Silent(inbuf[c])

Quiet == NoRequest /\ NoneHeard /\ Silent(lines)

Asked(t) ==
    /\ NoneHeard /\ Silent(lines)
    /\ \E c \in Conns : /\ pending[c] = <<MakeRequest(t)>>
                        /\ \A d \in Conns : d # c => pending[d] = <<>>

Heard(t) ==
    /\ NoRequest /\ Silent(lines)
    /\ \E c \in Conns : OneFrom(t, inbuf[c]) /\ \A d \in Conns : d # c => Silent(inbuf[d])

Told(t) == NoRequest /\ NoneHeard /\ OneFrom(t, lines)

Conversation ==
    \/ Quiet
    \/ \E t \in Callers : pc[t] = "waiting" /\ (Asked(t) \/ Heard(t) \/ Told(t))

OwnReplies == \A t \in Callers : reply[t] # NoLine => From(t, reply[t])

InStepInv == WireInv /\ ResultTypes /\ (~troubled => Conversation /\ OwnReplies)

LEMMA EmptySilent == Silent(<<>>)
BY DEF Silent

\* A line taken from the front, and lines put behind others.
LEMMA TailHas ==
  ASSUME NEW s \in Seq(Line), s # <<>>
  PROVE  /\ Silent(s) => Head(s) = NoLine /\ Silent(Tail(s))
         /\ \A t : OneFrom(t, s) =>
              \/ From(t, Head(s)) /\ Silent(Tail(s))
              \/ Head(s) = NoLine /\ OneFrom(t, Tail(s))
<1>1. /\ Len(s) \in Nat \ {0} /\ Head(s) = s[1] /\ Len(Tail(s)) = Len(s) - 1
      /\ \A i \in 1 .. Len(Tail(s)) : Tail(s)[i] = s[i + 1] /\ i + 1 \in 1 .. Len(s)
  OBVIOUS
<1>2. Silent(s) => Head(s) = NoLine /\ Silent(Tail(s))
  BY <1>1 DEF Silent
<1>3. ASSUME NEW t, OneFrom(t, s)
      PROVE  \/ From(t, Head(s)) /\ Silent(Tail(s))
             \/ Head(s) = NoLine /\ OneFrom(t, Tail(s))
  <2>1. PICK i \in 1 .. Len(s) :
          From(t, s[i]) /\ \A j \in 1 .. Len(s) : j # i => s[j] = NoLine
    BY <1>3 DEF OneFrom
  <2>2. CASE i = 1
    <3>1. \A j \in 1 .. Len(Tail(s)) : Tail(s)[j] = NoLine
      BY <1>1, <2>1, <2>2
    <3>2. QED BY <1>1, <2>1, <2>2, <3>1 DEF Silent
  <2>3. CASE i # 1
    <3>1. i - 1 \in 1 .. Len(Tail(s)) /\ Tail(s)[i - 1] = s[i]
      BY <1>1, <2>3
    <3>2. \A j \in 1 .. Len(Tail(s)) : j # i - 1 => Tail(s)[j] = NoLine
      BY <1>1, <2>1
    <3>3. Head(s) = NoLine
      BY <1>1, <2>1, <2>3
    <3>4. From(t, Tail(s)[i - 1])
      BY <2>1, <3>1
    <3>5. QED BY <3>1, <3>2, <3>3, <3>4 DEF OneFrom
  <2>4. QED BY <2>2, <2>3
<1>4. QED BY <1>2, <1>3

LEMMA JoinHas ==
  ASSUME NEW s \in Seq(Line), NEW r \in Seq(Line)
  PROVE  /\ Silent(s) /\ Silent(r) => Silent(s \o r)
         /\ \A t : Silent(s) /\ OneFrom(t, r) => OneFrom(t, s \o r)
         /\ \A t : OneFrom(t, s) /\ Silent(r) => OneFrom(t, s \o r)
<1>1. /\ Len(s) \in Nat /\ Len(r) \in Nat /\ Len(s \o r) = Len(s) + Len(r)
      /\ \A i \in 1 .. Len(s) : (s \o r)[i] = s[i] /\ i \in 1 .. Len(s \o r)
      /\ \A i \in 1 .. Len(s \o r) : i > Len(s) =>
            (s \o r)[i] = r[i - Len(s)] /\ i - Len(s) \in 1 .. Len(r)
      /\ \A i \in 1 .. Len(r) : (s \o r)[i + Len(s)] = r[i] /\ i + Len(s) \in 1 .. Len(s \o r)
  OBVIOUS
<1>2. Silent(s) /\ Silent(r) => Silent(s \o r)
  <2> SUFFICES ASSUME Silent(s), Silent(r), NEW i \in 1 .. Len(s \o r)
               PROVE  (s \o r)[i] = NoLine
      BY DEF Silent
  <2>1. CASE i > Len(s)
    BY <1>1, <2>1 DEF Silent
  <2>2. CASE i <= Len(s)
    BY <1>1, <2>2 DEF Silent
  <2>3. QED BY <1>1, <2>1, <2>2
<1>3. ASSUME NEW t, Silent(s), OneFrom(t, r) PROVE OneFrom(t, s \o r)
  <2>1. PICK i \in 1 .. Len(r) :
          From(t, r[i]) /\ \A j \in 1 .. Len(r) : j # i => r[j] = NoLine
    BY <1>3 DEF OneFrom
  <2>2. From(t, (s \o r)[i + Len(s)]) /\ i + Len(s) \in 1 .. Len(s \o r)
    BY <1>1, <2>1
  <2>3. ASSUME NEW j \in 1 .. Len(s \o r), j # i + Len(s) PROVE (s \o r)[j] = NoLine
    <3>1. CASE j > Len(s)
      <4>1. (s \o r)[j] = r[j - Len(s)] /\ j - Len(s) \in 1 .. Len(r)
        BY <1>1, <3>1
      <4>2. j - Len(s) # i
        BY <1>1, <2>3
      <4>3. QED BY <2>1, <4>1, <4>2
    <3>2. CASE j <= Len(s)
      BY <1>1, <1>3, <3>2 DEF Silent
    <3>3. QED BY <1>1, <3>1, <3>2
  <2>4. QED BY <2>2, <2>3 DEF OneFrom
<1>4. ASSUME NEW t, OneFrom(t, s), Silent(r) PROVE OneFrom(t, s \o r)
  <2>1. PICK i \in 1 .. Len(s) :
          From(t, s[i]) /\ \A j \in 1 .. Len(s) : j # i => s[j] = NoLine
    BY <1>4 DEF OneFrom
  <2>2. From(t, (s \o r)[i]) /\ i \in 1 .. Len(s \o r)
    BY <1>1, <2>1
  <2>3. ASSUME NEW j \in 1 .. Len(s \o r), j # i PROVE (s \o r)[j] = NoLine
    <3>1. CASE j > Len(s)
      BY <1>1, <1>4, <3>1 DEF Silent
    <3>2. CASE j <= Len(s)
      BY <1>1, <2>1, <2>3, <3>2
    <3>3. QED BY <1>1, <3>1, <3>2
  <2>4. QED BY <2>2, <2>3 DEF OneFrom
<1>5. QED BY <1>2, <1>3, <1>4

LEMMA OneLine ==
  ASSUME NEW s \in Seq(Line), Silent(s), NEW t, NEW l \in Line, From(t, l)
  PROVE  OneFrom(t, Append(s, l))
<1>1. /\ Len(s) \in Nat /\ Len(Append(s, l)) = Len(s) + 1 /\ Append(s, l)[Len(s) + 1] = l
      /\ \A j \in 1 .. Len(s) + 1 : j # Len(s) + 1 => j \in 1 .. Len(s) /\ Append(s, l)[j] = s[j]
  OBVIOUS
<1>2. QED BY <1>1 DEF OneFrom, Silent

-----------------------------------------------------------------------------
(* The steps of a conversation.                                              *)

\* Nothing of the conversation changes, except that the queue may be emptied.
LEMMA ConversationStays ==
  ASSUME Conversation, UNCHANGED <<pending, inbuf, op, n>>, lines' = lines \/ lines' = <<>>,
         \A u \in Callers : pc[u] = "waiting" => pc'[u] = "waiting"
  PROVE  Conversation'
<1>1. CASE Quiet
  <2>1. Quiet'
    BY <1>1, EmptySilent DEF Quiet, NoRequest, NoneHeard, Silent
  <2>2. QED BY <2>1 DEF Conversation
<1>2. ASSUME NEW t \in Callers, pc[t] = "waiting", Asked(t) PROVE Conversation'
  <2>1. Asked(t)'
    BY <1>2, EmptySilent DEF Asked, NoneHeard, Silent, MakeRequest
  <2>2. QED BY <1>2, <2>1 DEF Conversation
<1>3. ASSUME NEW t \in Callers, pc[t] = "waiting", Heard(t) PROVE Conversation'
  <2>1. Heard(t)'
    BY <1>3, EmptySilent DEF Heard, NoRequest, Silent, OneFrom, From
  <2>2. QED BY <1>3, <2>1 DEF Conversation
<1>4. ASSUME NEW t \in Callers, pc[t] = "waiting", Told(t) PROVE Conversation'
  <2>1. CASE lines' = lines
    <3>1. Told(t)'
      BY <1>4, <2>1 DEF Told, NoRequest, NoneHeard, Silent, OneFrom, From
    <3>2. QED BY <1>4, <3>1 DEF Conversation
  <2>2. CASE lines' = <<>>
    <3>1. Quiet'
      BY <1>4, <2>2, EmptySilent DEF Told, Quiet, NoRequest, NoneHeard, Silent
    <3>2. QED BY <3>1 DEF Conversation
  <2>3. QED BY <2>1, <2>2
<1>5. QED BY <1>1, <1>2, <1>3, <1>4 DEF Conversation

\* Whoever waits holds the lock, so if somebody else holds it, or nobody, or the
\* holder does not wait, nothing is under way.
LEMMA OthersAreQuiet ==
  ASSUME LockDiscipline, Conversation, NEW t \in Callers, pc[t] # "waiting",
         owner = t \/ owner = NoCaller
  PROVE  Quiet
BY CallersAssumption DEF LockDiscipline, Conversation, Holding, CallersAssumption

LEMMA WriteAsks ==
  ASSUME Quiet, NEW t \in Callers, pc'[t] = "waiting", UNCHANGED <<inbuf, lines>>,
         pending \in [Conns -> Seq(Request)], NEW c \in Conns, UNCHANGED <<op, n>>,
         \/ pending' = [pending EXCEPT ![c] = Append(@, MakeRequest(t))]
         \/ pending' = [pending EXCEPT ![c] = <<MakeRequest(t)>>]
  PROVE  Conversation'
<1>1. \A d \in Conns : pending'[d] = IF d = c THEN <<MakeRequest(t)>> ELSE <<>>
  BY DEF Quiet, NoRequest
<1>2. MakeRequest(t)' = MakeRequest(t)
  BY DEF MakeRequest
<1>3. Asked(t)'
  BY <1>1, <1>2 DEF Quiet, Asked, NoneHeard, Silent
<1>4. QED BY <1>3 DEF Conversation

\* The holder writes a frame, or fails to.
LEMMA FrameAsks ==
  ASSUME WireInv, Conversation, NEW t \in Callers, pc[t] # "waiting",
         owner = t \/ owner = NoCaller, writer # None, NEW k, WriteFrame(t, k),
         UNCHANGED <<inbuf, lines, op, n>>
  PROVE  Conversation'
<1>1. Quiet
  BY OthersAreQuiet DEF WireInv, CommandInv, LockInv
<1>2. CASE UNCHANGED pending
  <2>1. Quiet'
    BY <1>1, <1>2 DEF Quiet, NoRequest, NoneHeard, Silent
  <2>2. QED BY <2>1 DEF Conversation
<1>3. CASE link[writer] = "open"
  <2>1. /\ pending' = [pending EXCEPT ![writer] = Append(@, MakeRequest(t))]
        /\ Goto(t, "waiting") /\ writer \in Conns
    BY <1>3 DEF WriteFrame, WireInv, CommandInv, SessionInv, SessionTypes
  <2>2. pc'[t] = "waiting"
    BY <2>1 DEF Goto, WireInv, CommandInv, LockInv, LockTypes
  <2>3. QED BY <1>1, <2>1, <2>2, WriteAsks DEF WireInv, GatewayTypes
<1>4. QED BY <1>2, <1>3 DEF WriteFrame

\* The waiting caller takes a line: the reply to its own command, or nobody's.
LEMMA TakingKeeps ==
  ASSUME WireInv, Conversation, NEW t \in Callers, Takes(t), UNCHANGED <<pending, inbuf, op, n>>
  PROVE  /\ Head(lines) # NoLine => Quiet' /\ From(t, Head(lines))
         /\ Head(lines) = NoLine /\ UNCHANGED pc => Conversation'
<1>1. lines \in Seq(Line) /\ lines # <<>> /\ lines' = Tail(lines)
  BY DEF WireInv, LineTypes, Takes
<1>2. CASE Silent(lines)
  <2>1. Head(lines) = NoLine /\ Silent(lines')
    BY <1>1, <1>2, TailHas
  <2>2. CASE Quiet
    <3>1. Quiet'
      BY <2>1, <2>2 DEF Quiet, NoRequest, NoneHeard, Silent
    <3>2. QED BY <2>1, <3>1 DEF Conversation
  <2>3. ASSUME NEW u \in Callers, pc[u] = "waiting", Asked(u), UNCHANGED pc PROVE Conversation'
    <3>1. Asked(u)'
      BY <2>1, <2>3 DEF Asked, NoneHeard, Silent, MakeRequest
    <3>2. QED BY <2>3, <3>1 DEF Conversation
  <2>4. ASSUME NEW u \in Callers, pc[u] = "waiting", Heard(u), UNCHANGED pc PROVE Conversation'
    <3>1. Heard(u)'
      BY <2>1, <2>4 DEF Heard, NoRequest, Silent, OneFrom, From
    <3>2. QED BY <2>4, <3>1 DEF Conversation
  <2>5. ASSUME NEW u \in Callers, Told(u) PROVE FALSE
    BY <1>2, <2>5, CallersAssumption
    DEF Told, OneFrom, Silent, From, NoLine, CallersAssumption
  <2>6. QED BY <2>1, <2>2, <2>3, <2>4, <2>5 DEF Conversation
<1>3. CASE ~Silent(lines)
  <2>1. PICK u \in Callers : pc[u] = "waiting" /\ Told(u)
    BY <1>3 DEF Conversation, Quiet, Asked, Heard
  <2>2. u = t
    BY <2>1 DEF Takes, WireInv, CommandInv, LockInv, LockDiscipline, Holding
  <2>3. \/ From(t, Head(lines)) /\ Silent(lines')
        \/ Head(lines) = NoLine /\ OneFrom(t, lines')
    BY <1>1, <2>1, <2>2, TailHas DEF Told
  <2>4. CASE From(t, Head(lines)) /\ Silent(lines')
    <3>1. Quiet'
      BY <2>1, <2>4 DEF Told, Quiet, NoRequest, NoneHeard, Silent
    <3>2. QED BY <2>4, <3>1 DEF Conversation
  <2>5. CASE Head(lines) = NoLine /\ OneFrom(t, lines')
    <3>1. Told(t)'
      BY <2>1, <2>2, <2>5 DEF Told, NoRequest, NoneHeard, Silent, OneFrom, From
    <3>2. QED BY <2>1, <2>2, <2>5, <3>1 DEF Conversation
  <2>6. QED BY <2>3, <2>4, <2>5
<1>4. QED BY <1>2, <1>3

\* A caller that is not waiting moves on, and nothing is written.
LEMMA AsideStays ==
  ASSUME LockInv, Conversation, UNCHANGED <<pending, inbuf, op, n>>,
         lines' = lines \/ lines' = <<>>,
         NEW t \in Callers, pc[t] # "waiting", NEW label,
         Goto(t, label) \/ Release(t, label) \/ UNCHANGED pc
  PROVE  Conversation'
<1>1. \A u \in Callers : pc[u] = "waiting" => pc'[u] = "waiting"
  <2>1. CASE waiters = <<>> \/ Goto(t, label) \/ UNCHANGED pc
    BY <2>1 DEF LockInv, LockTypes, Goto, Release
  <2>2. CASE waiters # <<>> /\ Release(t, label)
    <3>1. Head(waiters) \in Callers /\ pc[Head(waiters)] = "queued"
      BY <2>2 DEF LockInv, LockTypes, LockDiscipline
    <3>2. QED BY <2>2, <3>1 DEF Release, LockInv, LockTypes
  <2>3. QED BY <2>1, <2>2
<1>2. QED BY <1>1, ConversationStays

LEMMA CallerConverses ==
  ASSUME Operations \cap {"line", "collect"} = {}, WireInv, ResultTypes, Conversation, OwnReplies,
         NEW t \in Callers, CallerStep(t) \/ Timeout(t), ~troubled'
  PROVE  Conversation' /\ OwnReplies'
<1> USE DEF lockVars, gatewayVars, commandVars, resultVars
<1>1. LockInv /\ LockDiscipline /\ UNCHANGED <<op, n>>
  BY CallerStays DEF WireInv, CommandInv, LockInv, LockDiscipline
<1>2. CASE UseConnection(t)
  <2>1. pc[t] # "waiting" /\ UNCHANGED <<inbuf, lines, reply>>
    BY <1>2 DEF UseConnection
  <2>2. CASE owner = NoCaller
    <3>1. writer # None /\ WriteFrame(t, 1)
      BY <1>2, <2>2 DEF UseConnection, IsConnected
    <3>2. Conversation'
      BY <1>1, <2>1, <2>2, <3>1, FrameAsks
    <3>3. QED BY <1>1, <2>1, <3>2 DEF OwnReplies, From
  <2>3. CASE owner # NoCaller
    <3>1. UNCHANGED pending /\ Goto(t, "queued")
      BY <1>2, <2>3 DEF UseConnection
    <3>2. Conversation'
      BY <1>1, <2>1, <3>1, AsideStays
    <3>3. QED BY <1>1, <2>1, <3>2 DEF OwnReplies, From
  <2>4. QED BY <2>2, <2>3
<1>3. CASE Opened(t)
  <2>1. pc[t] # "waiting" /\ UNCHANGED <<inbuf, lines, reply>>
    BY <1>3 DEF Opened
  <2>2. CASE owner = NoCaller
    <3>1. PICK c \in Conns : /\ pending' = [pending EXCEPT ![c] = <<MakeRequest(t)>>]
                             /\ Goto(t, "waiting")
      BY <1>3, <2>2 DEF Opened
    <3>2. pc'[t] = "waiting"
      BY <3>1 DEF Goto, WireInv, CommandInv, LockInv, LockTypes
    <3>3. Quiet
      BY <1>1, <2>1, <2>2, OthersAreQuiet
    <3>4. Conversation'
      BY <1>1, <2>1, <3>1, <3>2, <3>3, WriteAsks DEF WireInv, GatewayTypes
    <3>5. QED BY <1>1, <2>1, <3>4 DEF OwnReplies, From
  <2>3. CASE owner # NoCaller
    <3>1. UNCHANGED pending /\ Goto(t, "queued")
      BY <1>3, <2>3 DEF Opened
    <3>2. Conversation'
      BY <1>1, <2>1, <3>1, AsideStays
    <3>3. QED BY <1>1, <2>1, <3>2 DEF OwnReplies, From
  <2>4. QED BY <2>2, <2>3
<1>4. CASE Granted(t) \/ Resend(t)
  <2>1. /\ pc[t] # "waiting" /\ owner = t /\ UNCHANGED <<inbuf, lines, reply>>
    BY <1>1, <1>4 DEF Granted, Resend, CrashOnWriter, EndExchange, LockDiscipline, Holding
  <2>2. \/ UNCHANGED pending /\ (Goto(t, "payload") \/ Release(t, "idle"))
        \/ writer # None /\ \E k : WriteFrame(t, k)
    BY <1>4 DEF Granted, Resend, CrashOnWriter, EndExchange
  <2>3. Conversation'
    BY <1>1, <2>1, <2>2, AsideStays, FrameAsks
  <2>4. QED BY <1>1, <2>1, <2>3 DEF OwnReplies, From
<1>5. CASE Reconnect(t) \/ Rejoined(t) \/ OpenFailed(t) \/ Payload(t) \/ PayloadEnds(t)
  <2>1. /\ pc[t] # "waiting" /\ UNCHANGED <<pending, inbuf, lines, reply>>
        /\ UNCHANGED pc \/ \E label : Goto(t, label) \/ Release(t, label)
    BY <1>5 DEF Reconnect, Rejoined, OpenFailed, Payload, PayloadEnds, EndExchange
  <2>2. Conversation'
    BY <1>1, <2>1, AsideStays
  <2>3. QED BY <1>1, <2>1, <2>2 DEF OwnReplies, From
<1>6. CASE GiveUp(t) \/ DrainFails(t) \/ Disconnect(t) \/ Stopped(t) \/ Closed(t)
  <2>1. pc[t] # "waiting" /\ UNCHANGED <<pending, inbuf, reply>>
    BY <1>6 DEF GiveUp, DrainFails, Disconnect, Stopped, Closed, Reset, DisconnectBegins,
       EndExchange
  <2>2. lines' = lines \/ lines' = <<>>
    BY <1>6 DEF GiveUp, DrainFails, Disconnect, Stopped, Closed, Reset, DisconnectBegins,
       CloseOwnWriter, EndExchange
  <2>3. \E label : Goto(t, label) \/ Release(t, label)
    BY <1>6 DEF GiveUp, DrainFails, Disconnect, Stopped, Closed, Reset, EndExchange
  <2>4. Conversation'
    BY <1>1, <2>1, <2>2, <2>3, AsideStays
  <2>5. QED BY <1>1, <2>1, <2>4 DEF OwnReplies, From
<1>7. CASE TakeReply(t)
  <2>1. op[t] \notin {"line", "collect"}
    BY <1>7 DEF TakeReply, Takes, WireInv, CommandInv, ActiveOK
  <2>2. Head(lines) # NoLine
    BY <1>7, <2>1 DEF TakeReply, Satisfies, NoLine
  <2>3. UNCHANGED <<pending, inbuf>> /\ reply' = [reply EXCEPT ![t] = Head(lines)] /\ Takes(t)
    BY <1>7 DEF TakeReply, EndExchange
  <2>4. Quiet' /\ From(t, Head(lines))
    BY <1>1, <2>2, <2>3, TakingKeeps
  <2>5. OwnReplies'
    BY <1>1, <2>3, <2>4 DEF OwnReplies, From, WireInv, LineTypes
  <2>6. QED BY <2>4, <2>5 DEF Conversation
<1>8. CASE TakeBusy(t)
  <2>1. /\ Head(lines) # NoLine /\ Takes(t)
        /\ UNCHANGED <<pending, inbuf, reply>>
    BY <1>8 DEF TakeBusy, Busy, NoLine
  <2>2. Quiet'
    BY <1>1, <2>1, TakingKeeps
  <2>3. QED BY <1>1, <2>1, <2>2 DEF Conversation, OwnReplies, From
<1>9. CASE TakeOther(t)
  <2>1. Takes(t) /\ UNCHANGED <<pending, inbuf, reply, pc>>
    BY <1>9 DEF TakeOther
  <2>2. Conversation'
    BY <1>1, <2>1, TakingKeeps DEF Conversation
  <2>3. QED BY <1>1, <2>1, <2>2 DEF OwnReplies, From
<1>10. CASE TakeRefusal(t)
  BY <1>10 DEF TakeRefusal, EndExchange, Finish
<1>11. CASE Timeout(t)
  <2>1. op[t] \notin {"line", "collect"}
    BY <1>11 DEF Timeout, WireInv, CommandInv, ActiveOK
  <2>2. QED BY <1>11, <2>1 DEF Timeout, Reset, DisconnectOutcome, EndExchange, Finish
<1>12. QED
  BY <1>2, <1>3, <1>4, <1>5, <1>6, <1>7, <1>8, <1>9, <1>10, <1>11 DEF CallerStep

\* The read loop puts what it read on the queue, behind lines for nobody.
LEMMA ReadingKeeps ==
  ASSUME WireInv, Conversation, NEW c \in Conns, LoopReads(c)
  PROVE  Conversation'
<1> DEFINE b == source[c]
<1>1. /\ b \in Conns /\ lines' = lines \o inbuf[b] /\ inbuf' = [inbuf EXCEPT ![b] = <<>>]
      /\ UNCHANGED <<pending, op, n, pc>>
  BY DEF LoopReads, loopUnchanged, WireInv, CommandInv, SessionInv, LoopOK
<1>2. inbuf[b] \in Seq(Line) /\ lines \in Seq(Line) /\ inbuf \in [Conns -> Seq(Line)]
  BY <1>1 DEF WireInv, LineTypes
<1>3. \A d \in Conns : inbuf'[d] = IF d = b THEN <<>> ELSE inbuf[d]
  BY <1>1, <1>2
<1>4. NoRequest' = NoRequest
  BY <1>1 DEF NoRequest
<1>5. NoneHeard => NoneHeard'
  BY <1>3, EmptySilent DEF NoneHeard, Silent
<1>6. Silent(lines) /\ Silent(inbuf[b]) => Silent(lines')
  BY <1>1, <1>2, JoinHas
<1> HIDE DEF b
<1>7. CASE Quiet
  <2>1. Quiet'
    BY <1>1, <1>4, <1>5, <1>6, <1>7 DEF Quiet, NoneHeard, Silent
  <2>2. QED BY <2>1 DEF Conversation
<1>8. ASSUME NEW t \in Callers, pc[t] = "waiting", Asked(t) PROVE Conversation'
  <2>1. Asked(t)'
    BY <1>1, <1>5, <1>6, <1>8 DEF Asked, NoneHeard, Silent, MakeRequest
  <2>2. QED BY <1>1, <1>8, <2>1 DEF Conversation
<1>9. ASSUME NEW t \in Callers, pc[t] = "waiting", Told(t) PROVE Conversation'
  <2>1. OneFrom(t, lines')
    BY <1>1, <1>2, <1>9, JoinHas DEF Told, NoneHeard
  <2>2. Told(t)'
    BY <1>1, <1>4, <1>5, <1>9, <2>1 DEF Told, OneFrom, From
  <2>3. QED BY <1>1, <1>9, <2>2 DEF Conversation
<1>10. ASSUME NEW t \in Callers, pc[t] = "waiting", Heard(t) PROVE Conversation'
  <2>1. PICK d \in Conns : OneFrom(t, inbuf[d]) /\ \A e \in Conns : e # d => Silent(inbuf[e])
    BY <1>10 DEF Heard
  <2>2. CASE d = b
    <3>1. OneFrom(t, lines')
      BY <1>1, <1>2, <1>10, <2>1, <2>2, JoinHas DEF Heard
    <3>2. NoneHeard'
      BY <1>3, <2>1, <2>2, EmptySilent DEF NoneHeard, Silent
    <3>3. Told(t)'
      BY <1>1, <1>4, <1>10, <3>1, <3>2 DEF Told, Heard, OneFrom, From
    <3>4. QED BY <1>1, <1>10, <3>3 DEF Conversation
  <2>3. CASE d # b
    <3>1. Silent(lines')
      BY <1>1, <1>6, <1>10, <2>1, <2>3 DEF Heard
    <3>2. \A e \in Conns : e # d => Silent(inbuf'[e])
      BY <1>3, <2>1, EmptySilent
    <3>3. OneFrom(t, inbuf'[d])
      BY <1>3, <2>1, <2>3
    <3>4. Heard(t)'
      BY <1>1, <1>4, <1>10, <3>1, <3>2, <3>3 DEF Heard, Silent, OneFrom, From
    <3>5. QED BY <1>1, <1>10, <3>4 DEF Conversation
  <2>4. QED BY <2>2, <2>3
<1>11. QED BY <1>7, <1>8, <1>9, <1>10 DEF Conversation

\* The gateway answers the one request there is, on the connection it came on.
LEMMA AnsweringKeeps ==
  ASSUME WireInv, Conversation, NEW c \in Conns, GatewayAnswers(c)
  PROVE  Conversation'
<1>1. UNCHANGED <<op, n, pc, lines>>
  BY DEF GatewayAnswers, commandVars
<1>2. PICK t \in Callers : pc[t] = "waiting" /\ Asked(t)
  BY DEF GatewayAnswers, Conversation, Quiet, Heard, Told, NoRequest
<1>3. PICK d \in Conns : /\ pending[d] = <<MakeRequest(t)>>
                         /\ \A e \in Conns : e # d => pending[e] = <<>>
  BY <1>2 DEF Asked
<1>4. d = c
  BY <1>3 DEF GatewayAnswers
<1>5. pending[c] = <<MakeRequest(t)>> /\ \A e \in Conns : e # c => pending[e] = <<>>
  BY <1>3, <1>4
<1>6. Head(pending[c]) = MakeRequest(t) /\ Tail(pending[c]) = <<>>
  BY <1>5
<1>7. NoRequest'
  <2>1. pending' = [pending EXCEPT ![c] = <<>>]
    BY <1>6 DEF GatewayAnswers
  <2>2. QED BY <1>5, <2>1 DEF NoRequest, WireInv, GatewayTypes
<1>8. CASE UNCHANGED inbuf
  <2>1. Quiet'
    BY <1>1, <1>2, <1>7, <1>8 DEF Asked, Quiet, NoneHeard, Silent
  <2>2. QED BY <2>1 DEF Conversation
<1>9. ASSUME NEW kind \in Replies(MakeRequest(t)) \cap GatewayLines,
             inbuf' = [inbuf EXCEPT ![c] = Append(@, [kind |-> kind, by |-> t, n |-> n[t]])]
      PROVE  Conversation'
  <2> DEFINE l == [kind |-> kind, by |-> t, n |-> n[t]]
  <2>1. l \in Line /\ From(t, l)
    BY GatewayAssumption DEF Line, From, GatewayAssumption, WireInv, CommandInv, CommandTypes
  <2>2. inbuf[c] \in Seq(Line) /\ Silent(inbuf[c]) /\ inbuf \in [Conns -> Seq(Line)]
    BY <1>2 DEF WireInv, LineTypes, Asked, NoneHeard
  <2>3. OneFrom(t, Append(inbuf[c], l))
    BY <2>1, <2>2, OneLine
  <2>4. \A e \in Conns : inbuf'[e] = IF e = c THEN Append(inbuf[c], l) ELSE inbuf[e]
    BY <1>9, <2>2
  <2> HIDE DEF l
  <2>5. OneFrom(t, inbuf'[c]) /\ \A e \in Conns : e # c => Silent(inbuf'[e])
    BY <1>2, <2>3, <2>4 DEF Asked, NoneHeard
  <2>6. Heard(t)'
    BY <1>1, <1>2, <1>7, <2>5 DEF Heard, Asked, Silent, OneFrom, From
  <2>7. QED BY <1>1, <1>2, <2>6 DEF Conversation
<1>10. \/ UNCHANGED inbuf
       \/ \E kind \in Replies(MakeRequest(t)) \cap GatewayLines :
            inbuf' = [inbuf EXCEPT ![c] = Append(@, [kind |-> kind, by |-> t, n |-> n[t]])]
  <2> DEFINE r == Head(pending[c])
  <2>1. r = MakeRequest(t) /\ r.by = t /\ r.n = n[t]
    BY <1>6 DEF MakeRequest
  <2>2. \/ UNCHANGED inbuf
        \/ \E kind \in Replies(r) \cap GatewayLines :
             inbuf' = [inbuf EXCEPT ![c] = Append(@, [kind |-> kind, by |-> r.by, n |-> r.n])]
    BY DEF GatewayAnswers
  <2> HIDE DEF r
  <2>3. QED BY <2>1, <2>2
<1>11. QED BY <1>8, <1>9, <1>10

\* A line for nobody arrives where nothing else is, or the requests of a connection
\* that ends are lost.
LEMMA OtherwiseKeeps ==
  ASSUME WireInv, Conversation, NEW c \in Conns, GatewayEvent(c) \/ GatewayCloses(c)
  PROVE  Conversation'
<1>1. UNCHANGED <<op, n, pc, lines>>
  BY DEF GatewayEvent, GatewayCloses, commandVars
<1>2. CASE GatewayEvent(c)
  <2>1. /\ UNCHANGED pending /\ inbuf[c] = <<>>
        /\ \A d \in Conns : inbuf'[d] = IF d = c THEN <<NoLine>> ELSE inbuf[d]
    BY <1>2 DEF GatewayEvent, gatewayVars, WireInv, LineTypes
  <2>2. Silent(<<NoLine>>)
    BY DEF Silent
  <2>3. \A d \in Conns : Silent(inbuf[d]) => Silent(inbuf'[d])
    BY <2>1, <2>2
  <2>4. CASE Quiet
    <3>1. Quiet'
      BY <1>1, <2>1, <2>3, <2>4 DEF Quiet, NoRequest, NoneHeard, Silent
    <3>2. QED BY <3>1 DEF Conversation
  <2>5. ASSUME NEW t \in Callers, pc[t] = "waiting", Asked(t) PROVE Conversation'
    <3>1. NoneHeard'
      BY <2>3, <2>5 DEF Asked, NoneHeard, Silent
    <3>2. Asked(t)'
      BY <1>1, <2>1, <2>5, <3>1 DEF Asked, Silent, MakeRequest
    <3>3. QED BY <1>1, <2>5, <3>2 DEF Conversation
  <2>6. ASSUME NEW t \in Callers, pc[t] = "waiting", Told(t) PROVE Conversation'
    <3>1. NoneHeard'
      BY <2>3, <2>6 DEF Told, NoneHeard, Silent
    <3>2. Told(t)'
      BY <1>1, <2>1, <2>6, <3>1 DEF Told, NoRequest, OneFrom, From
    <3>3. QED BY <1>1, <2>6, <3>2 DEF Conversation
  <2>7. ASSUME NEW t \in Callers, pc[t] = "waiting", Heard(t) PROVE Conversation'
    <3>1. PICK d \in Conns : OneFrom(t, inbuf[d]) /\ \A e \in Conns : e # d => Silent(inbuf[e])
      BY <2>7 DEF Heard
    <3>2. d # c
      BY <2>1, <3>1 DEF OneFrom
    <3>3. OneFrom(t, inbuf'[d]) /\ \A e \in Conns : e # d => Silent(inbuf'[e])
      BY <2>1, <2>3, <3>1, <3>2
    <3>4. Heard(t)'
      BY <1>1, <2>1, <2>7, <3>3 DEF Heard, NoRequest, Silent, OneFrom, From
    <3>5. QED BY <1>1, <2>7, <3>4 DEF Conversation
  <2>8. QED BY <2>4, <2>5, <2>6, <2>7 DEF Conversation
<1>3. CASE GatewayCloses(c)
  <2>1. /\ UNCHANGED inbuf
        /\ \A d \in Conns : pending'[d] = IF d = c THEN <<>> ELSE pending[d]
    BY <1>3 DEF GatewayCloses, WireInv, GatewayTypes
  <2>2. NoRequest => NoRequest'
    BY <2>1 DEF NoRequest
  <2>3. CASE Quiet
    <3>1. Quiet'
      BY <1>1, <2>1, <2>2, <2>3 DEF Quiet, NoneHeard, Silent
    <3>2. QED BY <3>1 DEF Conversation
  <2>4. ASSUME NEW t \in Callers, pc[t] = "waiting", Heard(t) \/ Told(t) PROVE Conversation'
    <3>1. Heard(t)' \/ Told(t)'
      BY <1>1, <2>1, <2>2, <2>4 DEF Heard, Told, NoneHeard, Silent, OneFrom, From
    <3>2. QED BY <1>1, <2>4, <3>1 DEF Conversation
  <2>5. ASSUME NEW t \in Callers, pc[t] = "waiting", Asked(t) PROVE Conversation'
    <3>1. PICK d \in Conns : /\ pending[d] = <<MakeRequest(t)>>
                             /\ \A e \in Conns : e # d => pending[e] = <<>>
      BY <2>5 DEF Asked
    <3>2. CASE d = c
      <4>1. Quiet'
        BY <1>1, <2>1, <2>5, <3>1, <3>2 DEF Asked, Quiet, NoRequest, NoneHeard, Silent
      <4>2. QED BY <4>1 DEF Conversation
    <3>3. CASE d # c
      <4>1. pending'[d] = <<MakeRequest(t)>> /\ \A e \in Conns : e # d => pending'[e] = <<>>
        BY <2>1, <3>1, <3>3
      <4>2. Asked(t)'
        BY <1>1, <2>1, <2>5, <4>1 DEF Asked, NoneHeard, Silent, MakeRequest
      <4>3. QED BY <1>1, <2>5, <4>2 DEF Conversation
    <3>4. QED BY <3>2, <3>3
  <2>6. QED BY <2>3, <2>4, <2>5 DEF Conversation
<1>4. QED BY <1>2, <1>3

LEMMA SubmitKeeps ==
  ASSUME WireInv, Conversation, OwnReplies, NEW t \in Callers, NEW o \in Operations, Submit(t, o)
  PROVE  Conversation' /\ OwnReplies'
<1> USE DEF WireInv, CommandInv, CommandTypes, LockInv, LockTypes, LineTypes
<1>1. /\ pc[t] = "idle" /\ UNCHANGED <<pending, inbuf, lines>>
      /\ reply' = [reply EXCEPT ![t] = NoLine]
  BY DEF Submit, gatewayVars
<1>2. \A u \in Callers : u # t => /\ op'[u] = op[u] /\ n'[u] = n[u]
                                /\ pc'[u] = pc[u] /\ reply'[u] = reply[u]
  BY DEF Submit, Goto
<1>3. OwnReplies'
  BY <1>1, <1>2 DEF OwnReplies, From
<1>4. CASE Quiet
  <2>1. Quiet'
    BY <1>1, <1>4 DEF Quiet, NoRequest, NoneHeard, Silent
  <2>2. QED BY <1>3, <2>1 DEF Conversation
<1>5. ASSUME NEW u \in Callers, pc[u] = "waiting", Asked(u) \/ Heard(u) \/ Told(u)
      PROVE  Conversation'
  <2>1. u # t /\ op'[u] = op[u] /\ n'[u] = n[u] /\ pc'[u] = "waiting"
    BY <1>1, <1>2, <1>5
  <2>2. Asked(u) => Asked(u)'
    BY <1>1, <2>1 DEF Asked, NoneHeard, Silent, MakeRequest
  <2>3. Heard(u) => Heard(u)'
    BY <1>1, <2>1 DEF Heard, NoRequest, Silent, OneFrom, From
  <2>4. Told(u) => Told(u)'
    BY <1>1, <2>1 DEF Told, NoRequest, NoneHeard, Silent, OneFrom, From
  <2>5. QED BY <1>5, <2>1, <2>2, <2>3, <2>4 DEF Conversation
<1>6. QED BY <1>3, <1>4, <1>5 DEF Conversation

LEMMA FinishRemembers ==
  ASSUME NEW t, NEW how, Finish(t, how)
  PROVE  troubled => troubled'
BY Zenon DEF Finish

LEMMA TroubleStays == [Next]_vars => (troubled => troubled')
<1> SUFFICES ASSUME [Next]_vars PROVE troubled => troubled'
    OBVIOUS
<1> USE DEF resultVars
<1>1. CASE UNCHANGED troubled
  BY <1>1
<1>2. CASE \E t, how : Finish(t, how)
  BY <1>2, FinishRemembers
<1>3. ASSUME NEW t \in Callers, CallerStep(t) \/ Timeout(t)
      PROVE  UNCHANGED troubled \/ \E how : Finish(t, how)
  <2>1. CASE UseConnection(t) \/ Reconnect(t) \/ Rejoined(t) \/ Opened(t) \/ OpenFailed(t)
    BY <2>1 DEF UseConnection, Reconnect, Rejoined, Opened, OpenFailed
  <2>2. CASE Granted(t) \/ Payload(t) \/ PayloadEnds(t) \/ Resend(t)
    BY <2>2 DEF Granted, Payload, PayloadEnds, Resend, CrashOnWriter, EndExchange
  <2>3. CASE TakeReply(t) \/ TakeRefusal(t) \/ TakeBusy(t) \/ TakeOther(t)
    BY <2>3 DEF TakeReply, TakeRefusal, TakeBusy, TakeOther, EndExchange
  <2>4. CASE GiveUp(t) \/ DrainFails(t) \/ Timeout(t) \/ Disconnect(t) \/ Stopped(t) \/ Closed(t)
    BY <2>4 DEF GiveUp, DrainFails, Timeout, Disconnect, Stopped, Closed, Reset, EndExchange
  <2>5. QED BY <1>3, <2>1, <2>2, <2>3, <2>4 DEF CallerStep
<1>4. ASSUME NEW t \in Callers, NEW o \in Operations, Submit(t, o)
      PROVE  \E how : Finish(t, how)
  BY <1>4 DEF Submit
<1>5. ASSUME NEW c \in Conns, LoopStep(c) \/ Gateway(c) PROVE UNCHANGED troubled
  BY <1>5 DEF LoopStep, LoopStarts, LoopReads, LoopEof, LoopCancelled, loopUnchanged,
     Gateway, GatewayAnswers, GatewayEvent, GatewayCloses
<1>6. CASE UNCHANGED vars
  BY <1>1, <1>6 DEF vars
<1>7. QED BY <1>1, <1>2, <1>3, <1>4, <1>5, <1>6 DEF Next

LEMMA InStepStep ==
  ASSUME Operations \cap {"line", "collect"} = {}, InStepInv, [Next]_vars
  PROVE  InStepInv'
<1>1. WireInv /\ ResultTypes /\ WireInv' /\ ResultTypes'
  BY WireStep, ResultStep DEF InStepInv
<1>2. SUFFICES ASSUME ~troubled' PROVE Conversation' /\ OwnReplies'
  BY <1>1 DEF InStepInv
<1>3. Conversation /\ OwnReplies
  BY <1>2, TroubleStays DEF InStepInv
<1>4. ASSUME NEW t \in Callers, NEW o \in Operations, Submit(t, o)
      PROVE  Conversation' /\ OwnReplies'
  BY <1>1, <1>3, <1>4, SubmitKeeps
<1>5. ASSUME NEW t \in Callers, CallerStep(t) \/ Timeout(t)
      PROVE  Conversation' /\ OwnReplies'
  BY <1>1, <1>2, <1>3, <1>5, CallerConverses
<1>6. ASSUME UNCHANGED <<reply, n>> PROVE OwnReplies'
  BY <1>3, <1>6 DEF OwnReplies, From
<1>7. ASSUME UNCHANGED <<pending, inbuf, lines, pc, op, n>> PROVE Conversation'
  BY <1>3, <1>7, ConversationStays
<1>8. ASSUME NEW c \in Conns, LoopStep(c) \/ Gateway(c) PROVE Conversation' /\ OwnReplies'
  <2>1. OwnReplies'
    BY <1>6, <1>8 DEF LoopStep, LoopStarts, LoopReads, LoopEof, LoopCancelled, loopUnchanged,
       Gateway, GatewayAnswers, GatewayEvent, GatewayCloses, commandVars, resultVars
  <2>2. CASE LoopStarts(c) \/ LoopEof(c) \/ LoopCancelled(c)
    BY <1>7, <2>1, <2>2 DEF LoopStarts, LoopEof, LoopCancelled, loopUnchanged
  <2>3. QED
    BY <1>1, <1>3, <1>8, <2>1, <2>2, ReadingKeeps, AnsweringKeeps, OtherwiseKeeps
    DEF LoopStep, Gateway
<1>9. CASE UNCHANGED vars
  BY <1>6, <1>7, <1>9 DEF vars
<1>10. QED BY <1>4, <1>5, <1>8, <1>9 DEF Next

\* When every operation waits for its own reply (no line that just any answers, no
\* window that lets replies pass), the stream of commands and the stream of lines
\* stay in step as long as no command fails, whether or not a sendir has an id of its
\* own: no command returns the reply to another (client.py:273).
THEOREM RepliesAreOwn ==
  ASSUME Operations \cap {"line", "collect"} = {}
  PROVE  Spec => []InStepUntilTrouble
<1>1. Init => InStepInv
  <2> SUFFICES ASSUME Init PROVE InStepInv
      OBVIOUS
  <2>1. WireInv /\ ResultTypes
    BY WireAtFirst
  <2>2. Quiet /\ OwnReplies
    BY EmptySilent DEF Init, Quiet, NoRequest, NoneHeard, OwnReplies
  <2>3. QED BY <2>1, <2>2 DEF InStepInv, Conversation
<1>2. InStepInv /\ [Next]_vars => InStepInv'
  BY InStepStep
<1>3. InStepInv => InStepUntilTrouble
  BY DEF InStepInv, OwnReplies, From, InStepUntilTrouble
<1>4. QED BY <1>1, <1>2, <1>3, PTL DEF Spec

-----------------------------------------------------------------------------
(* One caller that sends codes.  A frame is written again only when no request  *)
(* for it is under way and the gateway has not carried it out: a busyIR that the *)
(* caller takes is its own, because whatever an earlier command left behind went *)
(* with the session that was reset.                                            *)

OneSender == OneCaller /\ Operations \subseteq {"sendir", "payload", "disconnect"}

\* The gateway has yet to take command k of the caller from connection c.
AskedOn(c, k) == pending[c] # <<>> /\ pending[c][1].n = k

Unfired(t, k) == fires[t][k] = 0 /\ \A c \in Conns : ~AskedOn(c, k)

\* Alone it never waits for the lock, and only a sendir uses the connection.
AtPlace(t, label) ==
    /\ label \in Pcs \ {"queued", "granted"}
    /\ label \in {"rejoining", "opening", "waiting", "draining", "backoff"} => op[t] = "sendir"

SenderOK == \A t \in Callers : AtPlace(t, pc[t])

Unwritten == {"start", "rejoining", "opening", "backoff"}

\* Every command was carried out once, or waits on one connection, or neither.
AtMostOnce ==
    /\ \A c \in Conns : Len(pending[c]) <= 1
    /\ \A c, d \in Conns : \A k \in 1 .. MaxCommands : AskedOn(c, k) /\ AskedOn(d, k) => c = d
    /\ \A t \in Callers : \A k \in 1 .. MaxCommands :
          /\ fires[t][k] \in {0, 1}
          /\ \A c \in Conns : AskedOn(c, k) => fires[t][k] = 0 /\ k <= n[t]
          /\ k > n[t] => fires[t][k] = 0
          /\ k = n[t] /\ pc[t] \in Unwritten => Unfired(t, k)

UnusedEmpty == \A c \in Conns : link[c] = "unused" => pending[c] = <<>> /\ inbuf[c] = <<>>

\* Nothing is under way on the connection.
Hushed == writer # None => pending[writer] = <<>> /\ Silent(inbuf[writer])

Clear == Silent(lines) /\ Hushed

\* A line for the command of t, and what it says is so.
HeardLine(t) ==
    {l \in Line : \/ l = NoLine
                  \/ /\ From(t, l)
                     /\ l.kind = "complete" => fires[t][n[t]] = 1
                     /\ l.kind # "complete" => Unfired(t, n[t])}

Requested(t) ==
    /\ Silent(lines)
    /\ writer # None /\ pending[writer] = <<MakeRequest(t)>> /\ Silent(inbuf[writer])

Replied(t) ==
    /\ Silent(lines)
    /\ writer # None /\ pending[writer] = <<>>
    /\ OneFrom(t, inbuf[writer]) /\ inbuf[writer] \in Seq(HeardLine(t))

Delivered(t) == Hushed /\ OneFrom(t, lines) /\ lines \in Seq(HeardLine(t))

\* Between commands nothing is under way; while it waits, one request or one reply.
Dialogue ==
    \A t \in Callers :
        /\ pc[t] \in Unwritten \cup {"idle", "payload"} => Clear
        /\ pc[t] = "waiting" => Clear \/ Requested(t) \/ Replied(t) \/ Delivered(t)

OnceInv == SenderOK /\ AtMostOnce /\ UnusedEmpty /\ Dialogue

SenderInv ==
    WireInv /\ ResultTypes /\ ReadInv /\ SoleInv /\ LeftInv /\ OnceInv

\* The caller holds the lock or nobody does.
LEMMA AloneAtLock ==
  ASSUME OneSender, CommandInv, SenderOK, NEW t \in Callers
  PROVE  /\ \A u \in Callers : u = t
         /\ pc[t] \notin Holding => owner = NoCaller
         /\ pc[t] # "idle" /\ Connects(t) => op[t] = "sendir"
BY DEF OneSender, OneCaller, CommandInv, LockInv, LockTypes, LockDiscipline, ActiveOK, Connects

LEMMA SenderStays ==
  ASSUME OneSender, CommandInv, SenderOK, NEW t \in Callers, CallerStep(t) \/ Timeout(t)
  PROVE  SenderOK'
<1> USE DEF CommandInv, LockInv, LockTypes
<1>1. UNCHANGED op /\ \A u \in Callers : u = t
  BY CallerStays, AloneAtLock DEF commandVars
<1>2. pc[t] \notin Holding => owner = NoCaller
  BY AloneAtLock
<1>3. pc[t] # "idle" /\ Connects(t) => op[t] = "sendir"
  BY AloneAtLock
<1> SUFFICES AtPlace(t, pc'[t])
    BY <1>1 DEF SenderOK, AtPlace
<1> USE DEF AtPlace, Pcs
<1>4. AtPlace(t, pc[t])
  BY DEF SenderOK
<1>5. ASSUME NEW label, Release(t, label), pc[t] \in Holding PROVE pc'[t] = label
  BY <1>5, ReleaseOthers
<1>6. CASE UseConnection(t) \/ Reconnect(t)
  BY <1>2, <1>3, <1>4, <1>6 DEF UseConnection, Reconnect, WriteFrame, Goto, Holding
<1>7. CASE Rejoined(t) \/ Opened(t) \/ OpenFailed(t)
  BY <1>2, <1>4, <1>7 DEF Rejoined, Opened, OpenFailed, Goto, Holding
<1>8. CASE Granted(t) \/ Payload(t)
  BY <1>2, <1>4, <1>8 DEF Granted, Payload, Goto, Holding
<1>9. CASE PayloadEnds(t) \/ TakeReply(t) \/ TakeRefusal(t) \/ TakeBusy(t) \/ TakeOther(t)
  BY <1>4, <1>5, <1>9 DEF PayloadEnds, TakeReply, TakeRefusal, TakeBusy, TakeOther, Takes,
     EndExchange, Goto, Holding
<1>10. CASE Resend(t)
  BY <1>4, <1>5, <1>10 DEF Resend, CrashOnWriter, EndExchange, WriteFrame, Goto, Holding
<1>11. CASE GiveUp(t) \/ DrainFails(t) \/ Timeout(t)
  BY <1>4, <1>5, <1>11, DisconnectLabelOutside DEF GiveUp, DrainFails, Timeout, Reset,
     EndExchange, Holding
<1>12. CASE Disconnect(t) \/ Stopped(t) \/ Closed(t)
  BY <1>4, <1>12, DisconnectLabelOutside DEF Disconnect, Stopped, Closed, CloseLabel, Goto
<1>13. QED BY <1>6, <1>7, <1>8, <1>9, <1>10, <1>11, <1>12 DEF CallerStep

-----------------------------------------------------------------------------
(* Counting.                                                                   *)

LEMMA CountStays ==
  ASSUME AtMostOnce, UNCHANGED <<pending, fires, n>>,
         \A t \in Callers : pc'[t] \in Unwritten => pc[t] \in Unwritten \/ Unfired(t, n[t])
  PROVE  AtMostOnce'
BY DEF AtMostOnce, AskedOn, Unfired

LEMMA WriteCounts ==
  ASSUME WireInv, AtMostOnce, NEW t \in Callers, \A u \in Callers : u = t, NEW c \in Conns,
         pc[t] \in Unwritten, pc'[t] \notin Unwritten, pending[c] = <<>>,
         pending' = [pending EXCEPT ![c] = <<MakeRequest(t)>>], UNCHANGED <<fires, n>>
  PROVE  AtMostOnce'
<1>1. \A d \in Conns : pending'[d] = IF d = c THEN <<MakeRequest(t)>> ELSE pending[d]
  BY DEF WireInv, GatewayTypes
<1>2. \A k : AskedOn(c, k)' <=> k = n[t]
  BY <1>1 DEF AskedOn, MakeRequest
<1>3. \A d \in Conns \ {c} : \A k : AskedOn(d, k)' <=> AskedOn(d, k)
  BY <1>1 DEF AskedOn
<1>4. n[t] \in 1 .. MaxCommands /\ Unfired(t, n[t]) /\ n[t] <= n[t]
  BY DEF WireInv, CommandInv, ActiveOK, AtMostOnce, Unwritten
<1>5. \A d \in Conns : Len(pending'[d]) <= 1
  BY <1>1 DEF AtMostOnce
<1>6. QED BY <1>2, <1>3, <1>4, <1>5 DEF AtMostOnce, Unfired

LEMMA CloseCounts ==
  ASSUME WireInv, AtMostOnce, NEW c \in Conns, pending' = [pending EXCEPT ![c] = <<>>],
         UNCHANGED <<fires, n, pc>>
  PROVE  AtMostOnce'
<1>1. \A d \in Conns : pending'[d] = IF d = c THEN <<>> ELSE pending[d]
  BY DEF WireInv, GatewayTypes
<1>2. \A d \in Conns : Len(pending'[d]) <= 1 /\ \A k : AskedOn(d, k)' => AskedOn(d, k)
  BY <1>1 DEF AskedOn, AtMostOnce
<1>3. QED BY <1>2 DEF AtMostOnce, Unfired

LEMMA SubmitCounts ==
  ASSUME WireInv, AtMostOnce, NEW t \in Callers, \A u \in Callers : u = t,
         NEW o \in Operations, Submit(t, o)
  PROVE  AtMostOnce'
<1>1. /\ n'[t] = n[t] + 1 /\ n[t] \in 0 .. MaxCommands /\ n[t] + 1 \in 1 .. MaxCommands
      /\ UNCHANGED <<pending, fires>>
  BY BoundsAssumption DEF Submit, WireInv, CommandInv, CommandTypes, gatewayVars, BoundsAssumption
<1>2. \A c \in Conns : ~AskedOn(c, n[t] + 1)
  BY <1>1 DEF AtMostOnce
<1>3. Unfired(t, n[t] + 1)
  BY <1>1, <1>2 DEF AtMostOnce, Unfired
<1>4. QED BY <1>1, <1>3 DEF AtMostOnce, AskedOn, Unfired

\* The gateway takes the only request for a command, and carries it out or refuses it.
LEMMA AnswerCounts ==
  ASSUME WireInv, AtMostOnce, NEW t \in Callers, \A u \in Callers : u = t,
         NEW c \in Conns, GatewayAnswers(c)
  PROVE  /\ AtMostOnce'
         /\ pending'[c] = <<>>
         /\ \A k \in 1 .. MaxCommands : Unfired(t, k) => Unfired(t, k)'
         /\ \A k \in 1 .. MaxCommands : fires[t][k] = 1 => fires'[t][k] = 1
         /\ \E r \in Request, kind \in LineKinds :
               /\ r = pending[c][1] /\ r.n \in 1 .. MaxCommands /\ kind # "event"
               /\ kind = "complete" => fires'[t][r.n] = 1
               /\ r.op = "sendir" /\ kind # "complete" => Unfired(t, r.n)'
               /\ link[c] = "open" =>
                    inbuf' = [inbuf EXCEPT ![c] = Append(@, [kind |-> kind, by |-> t, n |-> r.n])]
               /\ link[c] # "open" => UNCHANGED inbuf
<1>0. PICK r \in Request : r = Head(pending[c]) /\ r = pending[c][1]
  BY DEF GatewayAnswers, WireInv, GatewayTypes
<1>1. PICK kind \in Replies(r) \cap GatewayLines :
        /\ \/ kind \in {"complete", "answer"} /\ fires' = [fires EXCEPT ![r.by][r.n] = @ + 1]
           \/ kind \notin {"complete", "answer"} /\ UNCHANGED fires
        /\ \/ /\ link[c] = "open"
              /\ inbuf' = [inbuf EXCEPT ![c] =
                             Append(@, [kind |-> kind, by |-> r.by, n |-> r.n])]
           \/ link[c] = "shut" /\ UNCHANGED inbuf
  BY <1>0 DEF GatewayAnswers
<1>2. /\ pending[c] # <<>> /\ Tail(pending[c]) = <<>>
      /\ pending' = [pending EXCEPT ![c] = Tail(@)] /\ UNCHANGED <<n, pc>>
  <2>1. pending[c] \in Seq(Request) /\ pending[c] # <<>> /\ Len(pending[c]) <= 1
    BY DEF GatewayAnswers, WireInv, GatewayTypes, AtMostOnce
  <2>2. QED BY <2>1 DEF GatewayAnswers, commandVars
<1>3. r.by = t /\ r.n \in 1 .. MaxCommands /\ AskedOn(c, r.n)
  BY <1>0, <1>2 DEF Request, AskedOn
<1>4. kind \in LineKinds /\ kind # "event" /\ (r.op = "sendir" => kind # "answer")
  BY <1>1, GatewayAssumption DEF Replies, GatewayAssumption, LineKinds
<1>5. \A d \in Conns : pending'[d] = IF d = c THEN <<>> ELSE pending[d]
  BY <1>2 DEF WireInv, GatewayTypes
<1>6. \A d \in Conns : \A k : AskedOn(d, k)' <=> d # c /\ AskedOn(d, k)
  BY <1>5 DEF AskedOn
<1>7. \A d \in Conns : ~AskedOn(d, r.n)'
  <2>1. \A d \in Conns : AskedOn(d, r.n) => d = c
    BY <1>3 DEF AtMostOnce
  <2>2. QED BY <1>6, <2>1
<1>8. fires[t][r.n] = 0
  BY <1>3 DEF AtMostOnce
<1>9. /\ fires[t] \in [1 .. MaxCommands -> Nat] /\ r.n \in 1 .. MaxCommands
      /\ \A k \in 1 .. MaxCommands : k # r.n => fires'[t][k] = fires[t][k]
      /\ fires'[t][r.n] = IF kind \in {"complete", "answer"} THEN 1 ELSE 0
  <2>1. fires \in [Callers -> [1 .. MaxCommands -> Nat]]
    BY DEF WireInv, GatewayTypes
  <2>2. CASE UNCHANGED fires /\ kind \notin {"complete", "answer"}
    BY <1>3, <1>8, <2>1, <2>2
  <2>3. CASE fires' = [fires EXCEPT ![t][r.n] = @ + 1] /\ kind \in {"complete", "answer"}
    <3>1. fires[t] \in [1 .. MaxCommands -> Nat]
      BY <2>1
    <3>2. fires'[t] = [fires[t] EXCEPT ![r.n] = @ + 1]
      BY <2>1, <2>3
    <3>3. fires'[t][r.n] = fires[t][r.n] + 1
      BY <1>3, <3>1, <3>2
    <3>4. \A k \in 1 .. MaxCommands : k # r.n => fires'[t][k] = fires[t][k]
      BY <3>1, <3>2
    <3>5. QED BY <1>3, <1>8, <2>3, <3>1, <3>3, <3>4
  <2>4. QED BY <1>1, <1>3, <2>2, <2>3
<1>10. r.n <= n[t] /\ ~(r.n = n[t] /\ pc[t] \in Unwritten)
  BY <1>3 DEF AtMostOnce, Unfired
<1>11. AtMostOnce'
  <2>1. \A d \in Conns : Len(pending'[d]) <= 1
    BY <1>5 DEF AtMostOnce
  <2>2. \A d, e \in Conns : \A k \in 1 .. MaxCommands : AskedOn(d, k)' /\ AskedOn(e, k)' => d = e
    BY <1>6 DEF AtMostOnce
  <2>3. ASSUME NEW k \in 1 .. MaxCommands
        PROVE  /\ fires'[t][k] \in {0, 1}
               /\ \A d \in Conns : AskedOn(d, k)' => fires'[t][k] = 0 /\ k <= n'[t]
               /\ k > n'[t] => fires'[t][k] = 0
               /\ k = n'[t] /\ pc'[t] \in Unwritten => Unfired(t, k)'
    <3>1. CASE k = r.n
      <4>1. n[t] \in Nat
        BY DEF WireInv, CommandInv, CommandTypes
      <4>2. ~(k > n[t])
        BY <1>3, <1>10, <3>1, <4>1
      <4>3. fires'[t][k] \in {0, 1} /\ \A d \in Conns : ~AskedOn(d, k)'
        BY <1>7, <1>9, <3>1
      <4>4. n'[t] = n[t] /\ pc'[t] = pc[t]
        BY <1>2
      <4>5. QED BY <1>10, <3>1, <4>2, <4>3, <4>4
    <3>2. CASE k # r.n
      BY <1>2, <1>6, <1>9, <3>2 DEF AtMostOnce, Unfired
    <3>3. QED BY <3>1, <3>2
  <2>4. QED BY <2>1, <2>2, <2>3 DEF AtMostOnce
<1>12. ASSUME NEW k \in 1 .. MaxCommands
       PROVE  /\ Unfired(t, k) => Unfired(t, k)'
              /\ fires[t][k] = 1 => fires'[t][k] = 1
  BY <1>3, <1>6, <1>8, <1>9 DEF Unfired
<1>13. r.op = "sendir" /\ kind # "complete" => Unfired(t, r.n)'
  <2>1. r.op = "sendir" /\ kind # "complete" => fires'[t][r.n] = 0
    BY <1>4, <1>9
  <2>2. QED BY <1>7, <2>1 DEF Unfired
<1>14. /\ kind = "complete" => fires'[t][r.n] = 1
       /\ link[c] = "open" =>
            inbuf' = [inbuf EXCEPT ![c] = Append(@, [kind |-> kind, by |-> t, n |-> r.n])]
       /\ link[c] # "open" => UNCHANGED inbuf
  BY <1>1, <1>3, <1>9
<1>15. pending'[c] = <<>>
  BY <1>5
<1>16. QED BY <1>0, <1>3, <1>4, <1>11, <1>12, <1>13, <1>14, <1>15

-----------------------------------------------------------------------------
(* The dialogue.                                                               *)

LEMMA SilentHeard ==
  ASSUME NEW t, NEW s \in Seq(Line), Silent(s)
  PROVE  s \in Seq(HeardLine(t))
<1>1. NoLine \in Line
  BY BoundsAssumption DEF NoLine, Line, LineKinds, BoundsAssumption
<1>2. \A i \in 1 .. Len(s) : s[i] \in HeardLine(t)
  BY <1>1 DEF Silent, HeardLine
<1>3. QED BY <1>2

\* What was heard stays so while the caller's command is the same one.
LEMMA HeardStays ==
  ASSUME NEW t \in Callers, n'[t] = n[t],
         Unfired(t, n[t]) => Unfired(t, n[t])',
         fires[t][n[t]] = 1 => fires'[t][n[t]] = 1
  PROVE  /\ \A s : s \in Seq(HeardLine(t)) => s \in Seq(HeardLine(t)')
         /\ \A s : OneFrom(t, s) => OneFrom(t, s)'
<1>1. HeardLine(t) \subseteq HeardLine(t)'
  BY DEF HeardLine, From
<1>2. \A s : OneFrom(t, s) => OneFrom(t, s)'
  BY DEF OneFrom, From
<1>3. QED BY <1>1, <1>2

LEMMA SameHeard ==
  ASSUME NEW t \in Callers, UNCHANGED <<n, fires, pending>>
  PROVE  /\ \A s : s \in Seq(HeardLine(t)) => s \in Seq(HeardLine(t)')
         /\ \A s : OneFrom(t, s) => OneFrom(t, s)'
BY HeardStays DEF Unfired, AskedOn

\* The caller is where nothing may be under way, and nothing is, or where anything may.
LEMMA ClearIsEnough ==
  ASSUME NEW t \in Callers, \A u \in Callers : u = t,
         \/ Clear'
         \/ pc'[t] \notin Unwritten \cup {"idle", "payload", "waiting"}
  PROVE  Dialogue'
BY DEF Dialogue, Unwritten

LEMMA ClearStays ==
  ASSUME Clear, UNCHANGED <<pending, inbuf>>, lines' = lines \/ lines' = <<>>,
         writer' = writer \/ writer' = None
  PROVE  Clear'
BY EmptySilent DEF Clear, Hushed, Silent

LEMMA RequestIsClear ==
  ASSUME Clear, NEW t \in Callers, \A u \in Callers : u = t, Requested(t)', pc'[t] = "waiting"
  PROVE  Dialogue'
BY DEF Dialogue, Unwritten

\* The connection in use may be lost, and with it what is under way on it.
LEMMA LosingKeeps ==
  ASSUME Dialogue, UNCHANGED <<pending, inbuf, lines, fires, op, n, pc>>,
         writer' = writer \/ writer' = None
  PROVE  Dialogue'
<1> SUFFICES ASSUME NEW t \in Callers
             PROVE  /\ pc'[t] \in Unwritten \cup {"idle", "payload"} => Clear'
                    /\ pc'[t] = "waiting" => (Clear \/ Requested(t) \/ Replied(t) \/ Delivered(t))'
    BY DEF Dialogue
<1>1. Clear => Clear'
  BY ClearStays
<1>2. Requested(t) => Clear' \/ Requested(t)'
  BY DEF Requested, Clear, Hushed, Silent, MakeRequest
<1>3. Replied(t) => Clear' \/ Replied(t)'
  BY SameHeard DEF Replied, Clear, Hushed, Silent
<1>4. Delivered(t) => Delivered(t)'
  BY SameHeard DEF Delivered, Hushed, Silent
<1>5. QED BY <1>1, <1>2, <1>3, <1>4 DEF Dialogue

-----------------------------------------------------------------------------
(* The caller's steps.                                                         *)

\* A connection that was opened is never unused again.
LEMMA UsedStays ==
  ASSUME CommandInv, [Next]_vars
  PROVE  \A c \in Conns : link'[c] = "unused" => link[c] = "unused"
<1> USE DEF CommandInv, SessionInv, SessionTypes
<1>1. CASE SessionAlone
  BY <1>1 DEF SessionAlone
<1>2. CASE UNCHANGED link \/ link' = Shut(writer)
  BY <1>2 DEF Shut
<1>3. ASSUME NEW t \in Callers,
             Disconnects(t) \/ Stopped(t) \/ Closed(t) \/ Reconnect(t) \/ Rejoined(t)
      PROVE  UNCHANGED link \/ link' = Shut(writer)
  BY <1>3 DEF Disconnects, DisconnectBegins, CloseOwnWriter, Stopped, Closed, CloseWriterNowait,
     Reconnect, Rejoined
<1>4. ASSUME NEW t \in Callers, Opened(t)
      PROVE  \A c \in Conns : link'[c] = "unused" => link[c] = "unused"
  BY <1>4 DEF Opened, Shut
<1>5. ASSUME NEW c \in Conns, LoopStep(c) PROVE UNCHANGED link \/ link' = Shut(writer)
  BY <1>5 DEF LoopStep, LoopStarts, LoopReads, LoopEof, LoopCancelled, NextRead, LoopEnds,
     CloseWriterNowait
<1>6. QED BY <1>1, <1>2, <1>3, <1>4, <1>5, SessionMoves

LEMMA UnusedStays ==
  ASSUME UnusedEmpty, CommandInv, [Next]_vars, UNCHANGED <<pending, inbuf>>
  PROVE  UnusedEmpty'
BY UsedStays DEF UnusedEmpty

\* The caller moves between commands, or ends one, and nothing is written.
LEMMA AsideIsClear ==
  ASSUME OneSender, SenderInv, NEW t \in Callers,
         \/ Reconnect(t) \/ Rejoined(t) \/ OpenFailed(t) \/ Payload(t) \/ PayloadEnds(t)
         \/ Resend(t) /\ CrashOnWriter(t)
  PROVE  AtMostOnce' /\ Dialogue'
<1> USE DEF gatewayVars, commandVars, Unwritten
<1>1. \A u \in Callers : u = t
  BY DEF OneSender, OneCaller
<1>2. /\ pc[t] \in Unwritten \cup {"payload"} /\ UNCHANGED <<pending, inbuf, lines, fires, n>>
      /\ writer' = writer \/ writer' = None
      /\ pc'[t] \in Unwritten => pc[t] \in Unwritten
  BY ReleaseOthers DEF SenderInv, WireInv, CommandInv, LockInv, LockTypes, Reconnect, Rejoined,
     OpenFailed, Payload, PayloadEnds, Resend, CrashOnWriter, EndExchange, CloseWriterNowait,
     clientVars, Goto, Holding
<1>3. Clear'
  BY <1>2, ClearStays DEF SenderInv, OnceInv, Dialogue
<1>4. QED
  BY <1>1, <1>2, <1>3, ClearIsEnough, CountStays DEF SenderInv, OnceInv

\* Its disconnect() moves on, and when it ends nothing is left.
LEMMA DisconnectIsClear ==
  ASSUME OneSender, SenderInv, NEW t \in Callers,
         Disconnects(t) \/ Stopped(t) \/ Closed(t), UNCHANGED n,
         pc'[t] \in {"idle", "stopping", "closing"}
  PROVE  AtMostOnce' /\ Dialogue'
<1>1. \A u \in Callers : u = t
  BY DEF OneSender, OneCaller
<1>2. UNCHANGED <<pending, inbuf, fires, n>>
  BY DEF Disconnects, DisconnectBegins, Stopped, Closed, gatewayVars, commandVars
<1>3. AtMostOnce'
  BY <1>1, <1>2, CountStays DEF SenderInv, OnceInv, Unwritten
<1>4. CASE pc'[t] = "idle"
  <2>1. (writer = None /\ lines = <<>>)'
    BY <1>4, ResetEndsClean DEF SenderInv, WireInv
  <2>2. Clear'
    BY <2>1, EmptySilent DEF Clear, Hushed
  <2>3. QED BY <1>1, <1>3, <2>2, ClearIsEnough
<1>5. CASE pc'[t] \in {"stopping", "closing"}
  BY <1>1, <1>3, <1>5, ClearIsEnough DEF Unwritten
<1>6. QED BY <1>4, <1>5

\* The caller writes its frame, for the first time or again: on a connection that
\* is open it is asked, on another one it is lost.
LEMMA FrameRequests ==
  ASSUME OneSender, SenderInv, NEW t \in Callers, pc[t] \in Unwritten, writer # None,
         NEW k, WriteFrame(t, k), UNCHANGED <<writer, inbuf, lines, fires, op, n>>
  PROVE  AtMostOnce' /\ UnusedEmpty' /\ Dialogue'
<1> USE DEF SenderInv, WireInv, OnceInv
<1>1. \A u \in Callers : u = t
  BY DEF OneSender, OneCaller
<1>2. Clear /\ writer \in Conns /\ pending[writer] = <<>>
  BY DEF Dialogue, Clear, Hushed, CommandInv, SessionInv, SessionTypes
<1>3. pc'[t] \in {"waiting", "draining"}
  BY WriteMoves DEF Goto, CommandInv, LockInv, LockTypes
<1>4. CASE UNCHANGED pending
  <2>1. AtMostOnce'
    BY <1>1, <1>3, <1>4, CountStays DEF Unwritten
  <2>2. Clear'
    BY <1>2, <1>4, ClearStays
  <2>3. \A c \in Conns : link'[c] = "unused" => link[c] = "unused"
    BY DEF WriteFrame, Shut, CommandInv, SessionInv, SessionTypes
  <2>4. UnusedEmpty'
    BY <1>4, <2>3 DEF UnusedEmpty
  <2>5. QED BY <1>1, <2>1, <2>2, <2>4, ClearIsEnough
<1>5. CASE /\ link[writer] = "open"
           /\ pending' = [pending EXCEPT ![writer] = Append(@, MakeRequest(t))]
           /\ Goto(t, "waiting") /\ UNCHANGED link
  <2>1. pending' = [pending EXCEPT ![writer] = <<MakeRequest(t)>>]
    BY <1>2, <1>5
  <2>2. pc'[t] = "waiting"
    BY <1>5 DEF Goto, CommandInv, LockInv, LockTypes
  <2>3. AtMostOnce'
    BY <1>1, <1>2, <2>1, <2>2, WriteCounts DEF Unwritten
  <2>4. UnusedEmpty'
    BY <1>5 DEF UnusedEmpty, GatewayTypes
  <2>5. MakeRequest(t)' = MakeRequest(t) /\ pending'[writer] = <<MakeRequest(t)>>
    BY <1>2, <2>1 DEF MakeRequest, GatewayTypes
  <2>6. Requested(t)'
    BY <1>2, <2>5 DEF Requested, Clear, Hushed, Silent
  <2>7. QED BY <1>1, <1>2, <2>2, <2>3, <2>4, <2>6, RequestIsClear
<1>6. QED BY <1>4, <1>5 DEF WriteFrame

\* The first frame on a new connection, where nothing can be under way.
LEMMA OpenRequests ==
  ASSUME OneSender, SenderInv, NEW t \in Callers, Opened(t)
  PROVE  AtMostOnce' /\ UnusedEmpty' /\ Dialogue'
<1> USE DEF SenderInv, WireInv, OnceInv, commandVars
<1>1. (\A u \in Callers : u = t) /\ owner = NoCaller
  BY AloneAtLock DEF OneSender, OneCaller, Opened, Holding
<1>2. PICK c \in Conns :
        /\ link[c] = "unused" /\ link' = [Shut(writer) EXCEPT ![c] = "open"] /\ writer' = c
        /\ pending' = [pending EXCEPT ![c] = <<MakeRequest(t)>>] /\ Goto(t, "waiting")
  BY <1>1 DEF Opened, NextConn
<1>3. UNCHANGED <<lines, fires, inbuf, op, n>> /\ pc[t] = "opening" /\ pc'[t] = "waiting"
  BY <1>2 DEF Opened, Goto, CommandInv, LockInv, LockTypes
<1>4. pending[c] = <<>> /\ inbuf[c] = <<>>
  BY <1>2 DEF UnusedEmpty
<1>5. AtMostOnce'
  BY <1>1, <1>2, <1>3, <1>4, WriteCounts DEF Unwritten
<1>6. UnusedEmpty'
  BY <1>2, <1>3 DEF UnusedEmpty, GatewayTypes, Shut, CommandInv, SessionInv, SessionTypes
<1>7. MakeRequest(t)' = MakeRequest(t) /\ pending'[c] = <<MakeRequest(t)>>
  BY <1>2, <1>3 DEF MakeRequest, GatewayTypes
<1>8. Silent(lines)
  BY <1>3 DEF Dialogue, Unwritten, Clear
<1>9. c # None
  BY DEF Conns, None
<1>10. Requested(t)'
  BY <1>2, <1>3, <1>4, <1>7, <1>8, <1>9, EmptySilent DEF Requested, Silent
<1>11. Clear
  BY <1>3 DEF Dialogue, Unwritten
<1>12. QED BY <1>1, <1>3, <1>5, <1>6, <1>10, <1>11, RequestIsClear

\* What the waiting caller takes: nobody's line, or the one reply to its command.
LEMMA Hears ==
  ASSUME SenderInv, NEW t \in Callers, Takes(t), UNCHANGED <<writer, pending, inbuf, fires, op, n>>
  PROVE  \/ Head(lines) = NoLine /\ (Clear \/ Requested(t) \/ Replied(t) \/ Delivered(t))'
         \/ /\ Clear' /\ From(t, Head(lines))
            /\ Head(lines).kind = "complete" => fires[t][n[t]] = 1
            /\ Head(lines).kind # "complete" => Unfired(t, n[t])
<1> USE DEF SenderInv, WireInv, OnceInv
<1>1. lines \in Seq(Line) /\ lines # <<>> /\ lines' = Tail(lines)
  BY DEF LineTypes, Takes
<1>2. CASE Silent(lines)
  <2>1. Head(lines) = NoLine /\ Silent(lines')
    BY <1>1, <1>2, TailHas
  <2>2. ~OneFrom(t, lines)
    BY <1>2, CallersAssumption DEF OneFrom, Silent, From, NoLine, CallersAssumption
  <2>3. Clear \/ Requested(t) \/ Replied(t)
    BY <2>2 DEF Dialogue, Takes, Delivered
  <2>4. Clear => Clear'
    BY <2>1 DEF Clear, Hushed, Silent
  <2>5. Requested(t) => Requested(t)'
    BY <2>1 DEF Requested, Silent, MakeRequest
  <2>6. Replied(t) => Replied(t)'
    BY <2>1, SameHeard DEF Replied, Silent
  <2>7. QED BY <2>1, <2>3, <2>4, <2>5, <2>6
<1>3. CASE ~Silent(lines)
  <2>1. Hushed /\ OneFrom(t, lines) /\ lines \in Seq(HeardLine(t))
    BY <1>3 DEF Dialogue, Takes, Clear, Requested, Replied, Delivered
  <2>2. Head(lines) \in HeardLine(t) /\ lines' \in Seq(HeardLine(t))
    BY <1>1, <2>1
  <2>3. Hushed'
    BY <2>1 DEF Hushed, Silent
  <2>4. CASE From(t, Head(lines)) /\ Silent(lines')
    <3>1. Head(lines) # NoLine
      BY <2>4, CallersAssumption DEF From, NoLine, CallersAssumption
    <3>2. Clear'
      BY <2>3, <2>4 DEF Clear, Silent
    <3>3. QED BY <2>2, <2>4, <3>1, <3>2 DEF HeardLine
  <2>5. CASE Head(lines) = NoLine /\ OneFrom(t, lines')
    <3>1. lines' \in Seq(HeardLine(t)') /\ OneFrom(t, lines)'
      BY <2>2, <2>5, SameHeard DEF OneFrom, From
    <3>2. Delivered(t)'
      BY <2>3, <3>1 DEF Delivered
    <3>3. QED BY <2>5, <3>2
  <2>6. QED BY <1>1, <2>1, <2>4, <2>5, TailHas
<1>4. QED BY <1>2, <1>3

LEMMA TakingIsClear ==
  ASSUME OneSender, SenderInv, NEW t \in Callers,
         TakeReply(t) \/ TakeRefusal(t) \/ TakeBusy(t) \/ TakeOther(t)
  PROVE  AtMostOnce' /\ Dialogue'
<1> USE DEF SenderInv, WireInv, OnceInv, CommandInv, LockInv, LockTypes
<1>1. (\A u \in Callers : u = t) /\ op[t] = "sendir" /\ pc[t] = "waiting" /\ Takes(t)
  BY DEF OneSender, OneCaller, TakeReply, TakeRefusal, TakeBusy, TakeOther, Takes, SenderOK, AtPlace
<1>2. UNCHANGED <<writer, pending, inbuf, fires, op, n>>
  BY DEF TakeReply, TakeRefusal, TakeBusy, TakeOther, EndExchange, clientVars, gatewayVars,
     commandVars
<1>3. CASE TakeOther(t)
  <2>1. UNCHANGED pc /\ Head(lines).kind # "busy"
    BY <1>1, <1>3 DEF TakeOther, Busy
  <2>2. AtMostOnce'
    BY <1>2, <2>1, CountStays
  <2>3. (Clear \/ Requested(t) \/ Replied(t) \/ Delivered(t))'
    BY <1>1, <1>2, Hears
  <2>4. QED BY <1>1, <2>1, <2>2, <2>3 DEF Dialogue, Unwritten
<1>4. CASE TakeReply(t) \/ TakeRefusal(t) \/ TakeBusy(t)
  <2>1. Head(lines) # NoLine /\ (TakeBusy(t) => Head(lines).kind = "busy")
    BY <1>1, <1>4 DEF TakeReply, TakeRefusal, TakeBusy, Satisfies, Refuses, Busy, NoLine
  <2>2. Clear' /\ (TakeBusy(t) => Unfired(t, n[t]))
    BY <1>1, <1>2, <2>1, Hears
  <2>3. TakeBusy(t) \/ pc'[t] = "idle"
    BY <1>1, <1>4, ReleaseOthers DEF TakeReply, TakeRefusal, EndExchange, Holding
  <2>4. AtMostOnce'
    BY <1>1, <1>2, <2>2, <2>3, CountStays DEF Unwritten
  <2>5. QED BY <1>1, <2>2, <2>4, ClearIsEnough
<1>5. QED BY <1>3, <1>4

LEMMA SenderKeeps ==
  ASSUME OneSender, SenderInv, NEW t \in Callers, CallerStep(t) \/ Timeout(t)
  PROVE  OnceInv'
<1> USE DEF clientVars, gatewayVars, commandVars, resultVars
<1>1. CommandInv /\ SenderOK /\ AtPlace(t, pc[t]) /\ [Next]_vars
  BY DEF SenderInv, WireInv, OnceInv, SenderOK, Next
<1>2. SenderOK'
  BY <1>1, SenderStays
<1>3. UNCHANGED <<op, n>>
  BY <1>1, CallerStays DEF CommandInv
<1>4. UNCHANGED <<pending, inbuf>> => UnusedEmpty'
  BY <1>1, UnusedStays DEF SenderInv, OnceInv
<1>5. CASE UseConnection(t)
  <2>1. pc[t] = "start" /\ writer # None /\ WriteFrame(t, 1)
        /\ UNCHANGED <<writer, inbuf, lines, fires>>
    BY <1>1, <1>5, AloneAtLock DEF UseConnection, IsConnected, Holding
  <2>2. QED BY <1>2, <1>3, <2>1, FrameRequests DEF OnceInv, Unwritten
<1>6. CASE Opened(t)
  BY <1>2, <1>6, OpenRequests DEF OnceInv
<1>7. CASE Resend(t) /\ ~CrashOnWriter(t)
  <2>1. pc[t] = "backoff" /\ writer # None /\ WriteFrame(t, tries[t] + 1)
        /\ UNCHANGED <<writer, inbuf, lines, fires>>
    BY <1>7 DEF Resend
  <2>2. QED BY <1>2, <1>3, <2>1, FrameRequests DEF OnceInv, Unwritten
<1>8. CASE \/ Reconnect(t) \/ Rejoined(t) \/ OpenFailed(t) \/ Payload(t) \/ PayloadEnds(t)
           \/ Resend(t) /\ CrashOnWriter(t)
  <2>1. UNCHANGED <<pending, inbuf>>
    BY <1>8 DEF Reconnect, Rejoined, OpenFailed, Payload, PayloadEnds, CrashOnWriter, EndExchange
  <2>2. QED BY <1>2, <1>4, <1>8, <2>1, AsideIsClear DEF OnceInv
<1>9. CASE TakeReply(t) \/ TakeRefusal(t) \/ TakeBusy(t) \/ TakeOther(t)
  <2>1. UNCHANGED <<pending, inbuf>>
    BY <1>9 DEF TakeReply, TakeRefusal, TakeBusy, TakeOther, EndExchange
  <2>2. QED BY <1>2, <1>4, <1>9, <2>1, TakingIsClear DEF OnceInv
<1>10. CASE GiveUp(t) \/ DrainFails(t) \/ Timeout(t) \/ Disconnect(t) \/ Stopped(t) \/ Closed(t)
  <2>1. Disconnects(t) \/ Stopped(t) \/ Closed(t)
    <3>1. CASE Disconnect(t)
      BY <1>1, <3>1 DEF Disconnect, Disconnects, OthersStay, Goto, CommandInv, LockInv, LockTypes
    <3>2. CASE GiveUp(t) \/ DrainFails(t) \/ Timeout(t)
      <4>1. op[t] = "sendir" /\ pc[t] \in {"waiting", "draining", "backoff", "granted"}
        BY <1>1, <3>2 DEF GiveUp, DrainFails, Timeout, AtPlace
      <4>2. \E how : Reset(t, how)
        BY <3>2, <4>1 DEF GiveUp, DrainFails, Timeout
      <4>3. QED BY <1>1, <4>1, <4>2, ResetDisconnects
    <3>3. QED BY <1>10, <3>1, <3>2
  <2>2. UNCHANGED <<pending, inbuf>>
    BY <2>1 DEF Disconnects, DisconnectBegins, Stopped, Closed
  <2>3. pc'[t] \in {"idle", "stopping", "closing"}
    BY <1>1, <2>1, DisconnectLabelOutside DEF Disconnects, Stopped, Closed, CloseLabel, Goto,
       CommandInv, LockInv, LockTypes
  <2>4. QED BY <1>2, <1>3, <1>4, <2>1, <2>2, <2>3, DisconnectIsClear DEF OnceInv
<1>11. CASE Granted(t)
  BY <1>1, <1>11 DEF Granted, AtPlace
<1>12. QED BY <1>5, <1>6, <1>7, <1>8, <1>9, <1>10, <1>11 DEF CallerStep

-----------------------------------------------------------------------------
(* The read loop, the gateway and the next command.                            *)

\* The loop reads the connection in use: what arrived there goes on the queue.
LEMMA ReadingDelivers ==
  ASSUME OneSender, SenderInv, NEW c \in Conns, LoopReads(c)
  PROVE  OnceInv'
<1> USE DEF SenderInv, WireInv, OnceInv, loopUnchanged
<1>1. writer = c /\ source[c] = c
  BY DEF LoopReads, SoleInv, LiveIsTask, Alive, CommandInv, SessionInv, LoopOK, Conns, None
<1>2. /\ UNCHANGED <<pending, fires, op, n, pc>> /\ lines' = lines \o inbuf[c]
      /\ \A d \in Conns : inbuf'[d] = IF d = c THEN <<>> ELSE inbuf[d]
      /\ writer' = writer \/ writer' = None
  BY <1>1 DEF LoopReads, NextRead, LoopEnds, CloseWriterNowait, LineTypes
<1>3. lines \in Seq(Line) /\ inbuf[c] \in Seq(Line)
  BY DEF LineTypes
<1>4. AtMostOnce' /\ SenderOK'
  BY <1>2, CountStays DEF SenderOK, AtPlace
<1>5. UnusedEmpty'
  <2>1. [Next]_vars
    BY DEF Next, LoopStep
  <2>2. QED BY <1>2, <2>1, UsedStays DEF UnusedEmpty
<1>6. Hushed => Silent(inbuf[c]) /\ Hushed'
  BY <1>1, <1>2, EmptySilent DEF Hushed, Conns, None
<1>7. ASSUME NEW t \in Callers
      PROVE  /\ pc'[t] \in Unwritten \cup {"idle", "payload"} => Clear'
             /\ pc'[t] = "waiting" => (Clear \/ Requested(t) \/ Replied(t) \/ Delivered(t))'
  <2>1. Clear => Clear'
    BY <1>2, <1>3, <1>6, JoinHas DEF Clear, Silent
  <2>2. Requested(t) => Clear' \/ Requested(t)'
    <3> SUFFICES ASSUME Requested(t) PROVE Clear' \/ Requested(t)'
        OBVIOUS
    <3>1. Silent(lines)' /\ Silent(<<>>)'
      BY <1>1, <1>2, <1>3, JoinHas, EmptySilent DEF Requested, Silent
    <3>2. CASE writer' = None
      BY <3>1, <3>2 DEF Clear, Hushed
    <3>3. CASE writer' = writer
      BY <1>1, <1>2, <3>1, <3>3 DEF Requested, MakeRequest
    <3>4. QED BY <1>2, <3>2, <3>3
  <2>3. Replied(t) => Delivered(t)'
    <3> SUFFICES ASSUME Replied(t) PROVE Delivered(t)'
        OBVIOUS
    <3>1. /\ OneFrom(t, inbuf[c]) /\ inbuf[c] \in Seq(HeardLine(t)) /\ pending[c] = <<>>
          /\ lines \in Seq(HeardLine(t))
      BY <1>1, <1>3, SilentHeard DEF Replied
    <3>2. OneFrom(t, lines \o inbuf[c]) /\ lines \o inbuf[c] \in Seq(HeardLine(t))
      BY <1>3, <3>1, JoinHas DEF Replied
    <3>3. OneFrom(t, lines)' /\ lines' \in Seq(HeardLine(t)')
      BY <1>2, <3>2, SameHeard DEF OneFrom, From
    <3>4. Hushed'
      BY <1>1, <1>2, <3>1, EmptySilent DEF Hushed, Silent
    <3>5. QED BY <3>3, <3>4 DEF Delivered
  <2>4. Delivered(t) => Delivered(t)'
    <3> SUFFICES ASSUME Delivered(t) PROVE Delivered(t)'
        OBVIOUS
    <3>1. Silent(inbuf[c]) /\ inbuf[c] \in Seq(HeardLine(t)) /\ Hushed'
      BY <1>3, <1>6, SilentHeard DEF Delivered
    <3>2. OneFrom(t, lines \o inbuf[c]) /\ lines \o inbuf[c] \in Seq(HeardLine(t))
      BY <1>3, <3>1, JoinHas DEF Delivered
    <3>3. OneFrom(t, lines)' /\ lines' \in Seq(HeardLine(t)')
      BY <1>2, <3>2, SameHeard DEF OneFrom, From
    <3>4. QED BY <3>1, <3>3 DEF Delivered
  <2>5. QED BY <1>2, <2>1, <2>2, <2>3, <2>4 DEF Dialogue
<1>8. QED BY <1>4, <1>5, <1>7 DEF Dialogue

LEMMA LoopKeeps ==
  ASSUME OneSender, SenderInv, NEW c \in Conns, LoopStep(c)
  PROVE  OnceInv'
<1>1. CASE LoopStarts(c) \/ LoopEof(c) \/ LoopCancelled(c)
  <2>1. UNCHANGED <<pending, inbuf, lines, fires, op, n, pc>>
    BY <1>1 DEF LoopStarts, LoopEof, LoopCancelled, loopUnchanged
  <2>2. writer' = writer \/ writer' = None
    BY <1>1 DEF LoopStarts, LoopEof, LoopCancelled, NextRead, LoopEnds, CloseWriterNowait
  <2>3. AtMostOnce' /\ SenderOK'
    BY <2>1, CountStays DEF SenderInv, OnceInv, SenderOK, AtPlace
  <2>4. Dialogue'
    BY <2>1, <2>2, LosingKeeps DEF SenderInv, OnceInv
  <2>5. UnusedEmpty'
    BY <2>1, UnusedStays DEF SenderInv, WireInv, OnceInv, Next
  <2>6. QED BY <2>3, <2>4, <2>5 DEF OnceInv
<1>2. QED BY <1>1, ReadingDelivers DEF LoopStep

\* What the gateway does elsewhere than on the connection in use is not heard.
LEMMA ElsewhereUnheard ==
  ASSUME NEW t \in Callers, UNCHANGED <<writer, inbuf, lines, op, n, pc>>, NEW c \in Conns,
         \A d \in Conns : d # c => pending'[d] = pending[d], c # writer,
         writer \in Conns \cup {None}, Unfired(t, n[t]) => Unfired(t, n[t])',
         fires[t][n[t]] = 1 => fires'[t][n[t]] = 1
  PROVE  /\ Clear => Clear'
         /\ Requested(t) => Requested(t)'
         /\ Replied(t) => Replied(t)'
         /\ Delivered(t) => Delivered(t)'
<1>1. writer # None => pending'[writer] = pending[writer]
  OBVIOUS
<1>2. Hushed => Hushed'
  BY <1>1 DEF Hushed, Silent
<1>3. Requested(t) => Requested(t)'
  BY <1>1 DEF Requested, Silent, MakeRequest
<1>4. Replied(t) => Replied(t)'
  BY <1>1, HeardStays DEF Replied, Silent
<1>5. Delivered(t) => Delivered(t)'
  BY <1>2, HeardStays DEF Delivered
<1>6. QED BY <1>2, <1>3, <1>4, <1>5 DEF Clear, Silent

LEMMA AnsweringReplies ==
  ASSUME OneSender, SenderInv, NEW c \in Conns, GatewayAnswers(c)
  PROVE  OnceInv'
<1> USE DEF SenderInv, WireInv, OnceInv
<1>1. /\ UNCHANGED <<writer, lines, link, op, n, pc>>
      /\ pending[c] # <<>>
  BY DEF GatewayAnswers, clientVars, commandVars
<1>2. PICK t \in Callers : \A u \in Callers : u = t
  <2>1. pending[c] \in Seq(Request)
    BY DEF GatewayTypes
  <2>2. PICK r \in Request : r = Head(pending[c])
    BY <1>1, <2>1
  <2>3. r.by \in Callers
    BY DEF Request
  <2>4. QED BY <2>3 DEF OneSender, OneCaller
<1>3. PICK r \in Request, kind \in LineKinds :
        /\ r = pending[c][1] /\ r.n \in 1 .. MaxCommands /\ kind # "event"
        /\ kind = "complete" => fires'[t][r.n] = 1
        /\ r.op = "sendir" /\ kind # "complete" => Unfired(t, r.n)'
        /\ link[c] = "open" =>
             inbuf' = [inbuf EXCEPT ![c] = Append(@, [kind |-> kind, by |-> t, n |-> r.n])]
        /\ link[c] # "open" => UNCHANGED inbuf
  BY <1>2, AnswerCounts
<1>4. /\ AtMostOnce' /\ pending'[c] = <<>>
      /\ \A k \in 1 .. MaxCommands : Unfired(t, k) => Unfired(t, k)'
      /\ \A k \in 1 .. MaxCommands : fires[t][k] = 1 => fires'[t][k] = 1
  BY <1>2, AnswerCounts
<1>5. \A d \in Conns : d # c => pending'[d] = pending[d] /\ inbuf'[d] = inbuf[d]
  BY <1>3 DEF GatewayAnswers, GatewayTypes, LineTypes
<1>6. SenderOK'
  BY <1>1 DEF SenderOK, AtPlace
<1>7. UnusedEmpty'
  BY <1>1, <1>5 DEF UnusedEmpty
<1>8. ASSUME pc[t] \in Unwritten \cup {"payload", "waiting"}
      PROVE  /\ Clear => Clear'
             /\ Requested(t) => (Clear \/ Requested(t) \/ Replied(t))'
             /\ Replied(t) => Replied(t)'
             /\ Delivered(t) => Delivered(t)'
  <2>1. writer \in Conns \cup {None}
    BY DEF CommandInv, SessionInv, SessionTypes
  <2>0. n[t] \in 1 .. MaxCommands
    BY <1>8 DEF CommandInv, ActiveOK, Unwritten
  <2>2. ASSUME c # writer
        PROVE  /\ Clear => Clear'
               /\ Requested(t) => Requested(t)'
               /\ Replied(t) => Replied(t)'
               /\ Delivered(t) => Delivered(t)'
    <3>1. link[c] # "open"
      BY <2>2 DEF SoleInv, OpenIsWriter
    <3>2. Unfired(t, n[t]) => Unfired(t, n[t])'
      BY <1>1, <1>4, <2>0 DEF Unfired
    <3>3. fires[t][n[t]] = 1 => fires'[t][n[t]] = 1
      BY <1>4, <2>0
    <3>4. UNCHANGED inbuf
      BY <1>3, <3>1
    <3>5. QED BY <1>1, <1>5, <2>1, <2>2, <3>2, <3>3, <3>4, ElsewhereUnheard
  <2>3. ASSUME c = writer
        PROVE  ~Clear /\ ~Replied(t) /\ ~Delivered(t)
    BY <1>1, <2>3 DEF Clear, Hushed, Replied, Delivered, Conns, None
  <2>4. ASSUME c = writer, Requested(t), pc[t] = "waiting" PROVE (Clear \/ Replied(t))'
    <3>1. /\ r = MakeRequest(t) /\ Silent(inbuf[c]) /\ Silent(lines)
          /\ inbuf[c] \in Seq(Line) /\ inbuf \in [Conns -> Seq(Line)]
      BY <1>3, <2>4 DEF Requested, LineTypes
    <3>2. r.n = n[t] /\ r.op = "sendir" /\ n'[t] = n[t]
      BY <1>1, <2>4, <3>1 DEF MakeRequest, SenderOK, AtPlace
    <3>3. CASE link[c] # "open"
      <4>1. UNCHANGED inbuf
        BY <1>3, <3>3
      <4>2. QED BY <1>1, <1>4, <2>4, <3>1, <4>1 DEF Clear, Hushed, Silent
    <3>4. CASE link[c] = "open"
      <4> DEFINE l == [kind |-> kind, by |-> t, n |-> r.n]
      <4>1. l \in Line /\ From(t, l) /\ l.kind = kind
        BY <1>3, <3>2 DEF Line, From
      <4>2. inbuf'[c] = Append(inbuf[c], l)
        BY <1>3, <3>1, <3>4
      <4>3. From(t, l)'
        BY <1>1, <4>1 DEF From
      <4>4. l \in HeardLine(t)'
        <5>1. kind = "complete" => fires'[t][n'[t]] = 1
          BY <1>3, <3>2
        <5>2. kind # "complete" => Unfired(t, r.n)'
          BY <1>3, <3>2
        <5>3. Unfired(t, r.n)' => Unfired(t, n[t])'
          BY <3>2 DEF Unfired
        <5> HIDE DEF l
        <5>4. QED BY <4>1, <4>3, <5>1, <5>2, <5>3 DEF HeardLine
      <4> HIDE DEF l
      <4>5. OneFrom(t, Append(inbuf[c], l))
        BY <3>1, <4>1, OneLine
      <4>6. OneFrom(t, inbuf[c])'
        BY <1>1, <4>2, <4>5 DEF OneFrom, From
      <4>7. inbuf[c] \in Seq(HeardLine(t)')
        <5>1. NoLine \in HeardLine(t)'
          BY BoundsAssumption DEF NoLine, Line, LineKinds, BoundsAssumption, HeardLine
        <5>2. \A i \in 1 .. Len(inbuf[c]) : inbuf[c][i] \in HeardLine(t)'
          BY <3>1, <5>1 DEF Silent
        <5>3. QED BY <3>1, <5>2
      <4>8. inbuf'[c] \in Seq(HeardLine(t)')
        BY <4>2, <4>4, <4>7
      <4>9. QED BY <1>1, <1>4, <2>4, <3>1, <4>6, <4>8 DEF Replied, Requested, Silent
    <3>5. QED BY <3>3, <3>4
  <2>5. CASE c = writer
    <3>1. Requested(t) => pc[t] = "waiting"
      <4>1. pc[t] # "waiting" => Clear
        BY <1>8 DEF Dialogue
      <4>2. QED BY <2>3, <2>5, <4>1
    <3>2. QED BY <2>3, <2>4, <2>5, <3>1
  <2>6. QED BY <2>2, <2>5
<1>9. ASSUME pc[t] = "idle" PROVE Clear'
  <2>1. Clear /\ writer \in Conns \cup {None}
    BY <1>9 DEF Dialogue, CommandInv, SessionInv, SessionTypes
  <2>2. c # writer
    BY <1>1, <2>1 DEF Clear, Hushed, Conns, None
  <2>3. UNCHANGED inbuf
    BY <1>3, <2>2 DEF SoleInv, OpenIsWriter
  <2>4. writer # None => pending'[writer] = pending[writer]
    BY <1>5, <2>1, <2>2
  <2>5. QED BY <1>1, <2>1, <2>3, <2>4 DEF Clear, Hushed, Silent
<1>10. Dialogue'
  BY <1>1, <1>2, <1>8, <1>9 DEF Dialogue
<1>11. QED BY <1>4, <1>6, <1>7, <1>10

\* A line for nobody arrives on the connection in use, where nothing waits to be read.
LEMMA EventKeeps ==
  ASSUME SenderInv, NEW c \in Conns, GatewayEvent(c)
  PROVE  OnceInv'
<1> USE DEF SenderInv, WireInv, OnceInv
<1>1. /\ UNCHANGED <<writer, lines, link, pending, fires, op, n, pc>>
      /\ c = writer /\ link[c] = "open" /\ inbuf[c] = <<>>
      /\ \A d \in Conns : inbuf'[d] = IF d = c THEN <<NoLine>> ELSE inbuf[d]
  BY DEF GatewayEvent, clientVars, commandVars, gatewayVars, SoleInv, OpenIsWriter, LineTypes
<1>2. Silent(<<NoLine>>)
  BY DEF Silent
<1>3. AtMostOnce' /\ SenderOK'
  BY <1>1, CountStays DEF SenderOK, AtPlace
<1>4. UnusedEmpty'
  BY <1>1 DEF UnusedEmpty
<1>5. ASSUME NEW t \in Callers
      PROVE  /\ Clear => Clear'
             /\ Requested(t) => Requested(t)'
             /\ ~Replied(t)
             /\ Delivered(t) => Delivered(t)'
  <2>1. Hushed => Hushed'
    BY <1>1, <1>2 DEF Hushed, Silent
  <2>2. Requested(t) => Requested(t)'
    BY <1>1, <1>2 DEF Requested, Silent, MakeRequest
  <2>3. ~OneFrom(t, inbuf[c])
    BY <1>1 DEF OneFrom
  <2>4. Delivered(t) => Delivered(t)'
    BY <1>1, <2>1, SameHeard DEF Delivered
  <2>5. QED BY <1>1, <2>1, <2>2, <2>3, <2>4 DEF Clear, Replied, Silent
<1>6. Dialogue'
  BY <1>1, <1>5 DEF Dialogue
<1>7. QED BY <1>3, <1>4, <1>6

\* The gateway goes, and with it the request it has not taken.
LEMMA GoingKeeps ==
  ASSUME SenderInv, NEW c \in Conns, GatewayCloses(c)
  PROVE  OnceInv'
<1> USE DEF SenderInv, WireInv, OnceInv
<1>1. /\ UNCHANGED <<writer, lines, inbuf, fires, op, n, pc>>
      /\ c = writer /\ link[c] = "open"
      /\ \A d \in Conns : pending'[d] = IF d = c THEN <<>> ELSE pending[d]
  BY DEF GatewayCloses, clientVars, commandVars, SoleInv, OpenIsWriter, GatewayTypes
<1>2. SenderOK' /\ AtMostOnce'
  BY <1>1, CloseCounts DEF GatewayCloses, SenderOK, AtPlace
<1>3. UnusedEmpty'
  BY <1>1 DEF GatewayCloses, UnusedEmpty, CommandInv, SessionInv, SessionTypes
<1>4. ASSUME NEW t \in Callers
      PROVE  /\ Clear => Clear'
             /\ Requested(t) => Clear'
             /\ Replied(t) => Replied(t)'
             /\ Delivered(t) => Delivered(t)'
  <2>1. Unfired(t, n[t]) => Unfired(t, n[t])'
    BY <1>1 DEF Unfired, AskedOn
  <2>2. Hushed => Hushed'
    BY <1>1 DEF Hushed, Silent
  <2>3. Requested(t) => Clear'
    BY <1>1 DEF Requested, Clear, Hushed, Silent
  <2>4. Replied(t) => Replied(t)'
    BY <1>1, <2>1, HeardStays DEF Replied, Silent
  <2>5. Delivered(t) => Delivered(t)'
    BY <1>1, <2>1, <2>2, HeardStays DEF Delivered
  <2>6. QED BY <1>1, <2>2, <2>3, <2>4, <2>5 DEF Clear, Silent
<1>5. Dialogue'
  BY <1>1, <1>4 DEF Dialogue
<1>6. QED BY <1>2, <1>3, <1>5

LEMMA OnceStep ==
  ASSUME OneSender, SenderInv, [Next]_vars
  PROVE  OnceInv'
<1>1. ASSUME NEW t \in Callers, NEW o \in Operations, Submit(t, o) PROVE OnceInv'
  <2> USE DEF SenderInv, WireInv, OnceInv
  <2>1. /\ \A u \in Callers : u = t
        /\ pc[t] = "idle" /\ pc'[t] = "start"
        /\ UNCHANGED <<writer, lines, link, inbuf, pending>>
    BY <1>1 DEF OneSender, OneCaller, Submit, Goto, clientVars, gatewayVars, CommandInv, LockInv,
       LockTypes
  <2>2. SenderOK'
    BY <2>1 DEF SenderOK, AtPlace, Pcs
  <2>3. AtMostOnce'
    BY <1>1, <2>1, SubmitCounts
  <2>4. UnusedEmpty'
    BY <2>1 DEF UnusedEmpty
  <2>5. Clear'
    BY <2>1, ClearStays DEF Dialogue
  <2>6. QED BY <2>1, <2>2, <2>3, <2>4, <2>5, ClearIsEnough
<1>2. CASE UNCHANGED vars
  <2>1. UNCHANGED <<writer, lines, link, inbuf, pending, fires, op, n, pc>>
    BY <1>2 DEF vars
  <2>2. AtMostOnce' /\ SenderOK' /\ UnusedEmpty'
    BY <2>1, CountStays DEF SenderInv, OnceInv, SenderOK, AtPlace, UnusedEmpty
  <2>3. Dialogue'
    BY <2>1, LosingKeeps DEF SenderInv, OnceInv
  <2>4. QED BY <2>2, <2>3 DEF OnceInv
<1>3. QED
  BY <1>1, <1>2, SenderKeeps, LoopKeeps, AnsweringReplies, EventKeeps, GoingKeeps
  DEF Next, Gateway

LEMMA SenderStep ==
  ASSUME OneSender, SenderInv, [Next]_vars
  PROVE  SenderInv'
<1>1. WireInv' /\ ResultTypes'
  BY WireStep, ResultStep DEF SenderInv
<1>2. ReadInv' /\ SoleInv' /\ LeftInv'
  BY ReadStep, SoleStep, LeftStep DEF SenderInv, WireInv, OneSender
<1>3. QED BY <1>1, <1>2, OnceStep DEF SenderInv

LEMMA SenderAtFirst == Init => SenderInv
<1> SUFFICES ASSUME Init PROVE SenderInv
    OBVIOUS
<1>1. WireInv /\ ResultTypes /\ ReadInv /\ SoleInv
  BY WireAtFirst, SessionAtFirst
<1>2. LeftInv
  BY DEF Init, LeftInv, PayloadOK, DisconnectOK, NothingLeft, Resets
<1>3. SenderOK /\ UnusedEmpty
  BY DEF Init, SenderOK, AtPlace, Pcs, UnusedEmpty
<1>4. AtMostOnce
  BY DEF Init, AtMostOnce, AskedOn, Unwritten
<1>5. Dialogue
  BY EmptySilent DEF Init, Dialogue, Clear, Hushed, Unwritten
<1>6. QED BY <1>1, <1>2, <1>3, <1>4, <1>5 DEF SenderInv, OnceInv

\* A single caller that sends codes, serial payloads and disconnects never has a
\* code carried out twice, though every sendir carries the same id (client.py:449):
\* the busyIR that makes it write again is the gateway's refusal of that very frame.
THEOREM SendirIsNotRepeated ==
  ASSUME OneSender
  PROVE  Spec => []SendirFiresOnce
<1>1. SenderInv => SendirFiresOnce
  BY DEF SenderInv, WireInv, CommandInv, CommandTypes, OnceInv, AtMostOnce, SendirFiresOnce
<1>2. SenderInv /\ [Next]_vars => SenderInv'
  BY SenderStep
<1>3. QED BY <1>1, <1>2, SenderAtFirst, PTL DEF Spec

\* Nor does it take a completeir left over for its own: without an id to tell them
\* apart, a sendir that returns its lines was carried out (client.py:404, 462).
THEOREM LoneSendirIsCarriedOut ==
  ASSUME OneSender
  PROVE  Spec => []SendirCarriedOut
<1> DEFINE Inv == SenderInv /\ SendirDone
<1>1. Init => Inv
  BY SenderAtFirst DEF Init, SendirDone
<1>2. Inv /\ [Next]_vars => Inv'
  <2> SUFFICES ASSUME Inv, [Next]_vars PROVE Inv'
      OBVIOUS
  <2>1. SenderInv'
    BY SenderStep
  <2>2. WireInv /\ ResultTypes /\ PayloadOK
    BY DEF SenderInv, LeftInv
  <2>3. \A u, k : Done(u, k) => Done(u, k)'
    BY <2>2, DoneStays
  <2>4. ASSUME NEW u \in Callers, Done(u, n[u]), UNCHANGED n PROVE Done(u, n[u])'
    <3>1. PICK k : k = n[u] /\ Done(u, k)
      BY <2>4
    <3>2. QED BY <2>3, <2>4, <3>1 DEF Done
  <2>5. ASSUME NEW t \in Callers, CallerStep(t) \/ Timeout(t) PROVE SendirDone'
    <3>1. UNCHANGED op /\ UNCHANGED n
      BY <2>2, <2>5, PayloadStays, SendirEndsByReply DEF WireInv
    <3>2. ASSUME NEW u \in Callers, op'[u] = "sendir", outcome'[u] = "ok" PROVE Done(u, n[u])
      <4>1. outcome[u] = "ok" \/ (u = t /\ TakeReply(t))
        BY <2>2, <2>5, <3>1, <3>2, SendirEndsByReply
      <4>2. CASE outcome[u] = "ok"
        BY <3>1, <3>2, <4>2 DEF SendirDone
      <4>3. CASE u = t /\ TakeReply(t)
        <5>1. Head(lines).kind = "complete" /\ Head(lines) # NoLine
          BY <3>1, <3>2, <4>3 DEF TakeReply, Satisfies, NoLine
        <5>2. /\ Takes(t) /\ pc[t] = "waiting"
              /\ UNCHANGED <<writer, pending, inbuf, fires, op, n>>
          BY <3>1, <4>3 DEF TakeReply, Takes, EndExchange, clientVars, gatewayVars
        <5>3. fires[t][n[t]] = 1
          BY <5>1, <5>2, Hears
        <5>4. n[t] \in 1 .. MaxCommands
          BY <2>2, <5>2 DEF WireInv, CommandInv, ActiveOK
        <5>5. QED BY <4>3, <5>3, <5>4 DEF Done
      <4>4. QED BY <4>1, <4>2, <4>3
    <3>3. QED BY <2>4, <3>1, <3>2 DEF SendirDone
  <2>6. ASSUME NEW t \in Callers, NEW o \in Operations, Submit(t, o) PROVE SendirDone'
    <3>1. \A u \in Callers : outcome'[u] = "none" \/ (u # t /\ outcome'[u] = outcome[u])
      BY <2>2, <2>6 DEF Submit, Finish, ResultTypes
    <3>2. \A u \in Callers : u = t
      BY DEF OneSender, OneCaller
    <3>3. QED BY <3>1, <3>2 DEF SendirDone
  <2>7. ASSUME UNCHANGED <<op, n, outcome>> PROVE SendirDone'
    BY <2>4, <2>7 DEF SendirDone
  <2>8. ASSUME NEW c \in Conns, LoopStep(c) \/ Gateway(c) PROVE UNCHANGED <<op, n, outcome>>
    BY <2>8 DEF LoopStep, LoopStarts, LoopReads, LoopEof, LoopCancelled, loopUnchanged,
       Gateway, GatewayAnswers, GatewayEvent, GatewayCloses, commandVars, resultVars
  <2>9. UNCHANGED vars => UNCHANGED <<op, n, outcome>>
    BY DEF vars
  <2>10. QED BY <2>1, <2>5, <2>6, <2>7, <2>8, <2>9 DEF Next
<1>3. Inv => SendirCarriedOut
  BY DEF SendirDone, Done, SendirCarriedOut
<1> HIDE DEF Inv
<1>4. QED BY <1>1, <1>2, <1>3, PTL DEF Spec
=============================================================================
