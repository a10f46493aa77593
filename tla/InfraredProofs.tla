--------------------------- MODULE InfraredProofs ---------------------------
(***************************************************************************)
(* Proofs about Infrared: a code that is sent on is sent as it was heard,  *)
(* for every carrier and every frame.                                      *)
(***************************************************************************)
EXTENDS Infrared, SequenceTheorems, TLAPS

-----------------------------------------------------------------------------
(* Conversions.                                                            *)

LEMMA CarrierBounds ==
    ASSUME NEW f \in Int
    PROVE  /\ Carrier(f) \in Nat /\ MinCarrier <= Carrier(f) /\ Carrier(f) <= MaxCarrier
           /\ MinCarrier <= f /\ f <= MaxCarrier => Carrier(f) = f
BY SMT DEF Carrier, Larger, Smaller, MinCarrier, MaxCarrier

LEMMA CarrierTwice ==
    ASSUME NEW f \in Int
    PROVE  Carrier(Carrier(f)) = Carrier(f)
<1> DEFINE c == Carrier(f)
<1>1. c \in Int /\ MinCarrier <= c /\ c <= MaxCarrier
  BY CarrierBounds, SMT
<1> HIDE DEF c
<1>2. Carrier(c) = c
  BY <1>1, CarrierBounds, SMT
<1> QED
  BY <1>2, Zenon DEF c

LEMMA MinPulsesBounds ==
    ASSUME NEW f \in Int
    PROVE  MinPulses(f) \in 1..40 /\ MinPulses(Carrier(f)) = MinPulses(f)
<1> DEFINE c == Carrier(f)
           q == (80 * c + (1000000 - 1)) \div 1000000
<1>1. c \in Nat /\ MinCarrier <= c /\ c <= MaxCarrier
  BY CarrierBounds, SMT
<1>2. q \in Int /\ 1 <= q /\ q <= 40
  <2> HIDE DEF c
  <2> QED
    BY <1>1, SMTT(30) DEF MinCarrier, MaxCarrier
<1>3. MinPulses(f) = Larger(1, q)
  BY SMT DEF MinPulses, Million
<1>4. MinPulses(c) = MinPulses(f)
  BY CarrierTwice, SMT DEF MinPulses
<1> HIDE DEF c, q
<1> QED
  BY <1>2, <1>3, <1>4, SMT DEF Larger, c

\* Rounding to the nearest integer finds the only integer that is nearer than half.
LEMMA NearestIs ==
    ASSUME NEW n \in Nat, NEW p \in Int,
           2 * (n - p * Million) < Million, 2 * (p * Million - n) < Million
    PROVE  Nearest(n, Million) = {p}
<1> DEFINE q == n \div Million
           Near(k) == -Million <= 2 * (n - k * Million) /\ 2 * (n - k * Million) <= Million
<1>1. q \in Int /\ q * Million <= n /\ n < (q + 1) * Million
  BY SMTT(30) DEF Million
<1> HIDE DEF q
<1>2. p \in {q, q + 1} /\ Near(p)
  BY <1>1, SMTT(30) DEF Million
<1>3. ASSUME NEW k \in {q, q + 1}, Near(k)
      PROVE  k = p
  BY <1>1, <1>3, SMTT(30) DEF Million
<1>4. Nearest(n, Million) = {k \in {q, q + 1} : Near(k)}
  BY Zenon DEF Nearest, q
<1> HIDE DEF Near
<1> QED
  BY <1>2, <1>3, <1>4, Zenon

\* Microseconds are below a pulse's share of a million, so they lead back to it.
LEMMA ThereAndBack ==
    ASSUME NEW f \in Int, NEW p \in Int, MinPulses(f) <= p, p <= MaxPulses,
           NEW u \in Micros(p, f)
    PROVE  u \in Nat /\ Pulses(u, f) = {p} /\ Pulses(-u, f) = {p}
<1> DEFINE c == Carrier(f)
           m == MinPulses(f)
<1>1. c \in Nat /\ MinCarrier <= c /\ c <= MaxCarrier
  BY CarrierBounds, SMT
<1>2. m \in Nat /\ 1 <= m /\ m <= p
  BY MinPulsesBounds, SMT
<1> HIDE DEF c, m
<1>3. PICK k \in Nearest(p * Million, c) : u = Larger(1, k)
  BY Zenon DEF Micros, c
<1>4. k \in Int /\ -c <= 2 * (p * Million - k * c) /\ 2 * (p * Million - k * c) <= c
  BY <1>1, <1>2, <1>3, SMT DEF Nearest, Million
<1>5. k >= 1
  <2>1. SUFFICES ASSUME k <= 0 PROVE FALSE
    BY <1>4, SMT
  <2>2. k * c \in Int /\ k * c <= 0
    BY <1>1, <1>4, <2>1, SMTT(30)
  <2> QED
    BY <1>1, <1>2, <1>4, <2>2, SMT DEF Million, MinCarrier, MaxCarrier
<1>6. u = k /\ u \in Nat
  BY <1>3, <1>4, <1>5, SMT DEF Larger
<1>7. u * c \in Nat
  BY <1>1, <1>6, SMT
<1>8. 2 * (u * c - p * Million) < Million /\ 2 * (p * Million - u * c) < Million
  BY <1>1, <1>4, <1>6, <1>7, SMT DEF Million, MinCarrier, MaxCarrier
<1>9. Nearest(u * c, Million) = {p}
  BY <1>7, <1>8, NearestIs, Zenon
<1>10. Clamped(p, f) = p
  BY <1>2, SMT DEF Clamped, Larger, Smaller, MaxPulses, m
<1>11. Length(u) = u /\ Length(-u) = u
  BY <1>5, <1>6, SMT DEF Length
<1> HIDE DEF c
<1>12. ASSUME NEW v, Length(v) = u
       PROVE  Pulses(v, f) = {p}
  <2>1. Pulses(v, f) = {Clamped(k1, f) : k1 \in Nearest(u * c, Million)}
    BY <1>12 DEF Pulses, c
  <2>2. \A x \in {Clamped(k1, f) : k1 \in {p}} : x = p
    BY <1>10
  <2> QED
    BY <1>9, <1>10, <2>1, <2>2
<1> QED
  BY <1>6, <1>11, <1>12
\* What the gateway can send: never below its shortest pulse, nor above 16 bits.
LEMMA PulsesBounds ==
    ASSUME NEW f \in Int, NEW us \in Int, NEW x \in Pulses(us, f)
    PROVE  x \in Nat /\ x \in MinPulses(f)..MaxPulses
<1>1. Carrier(f) \in Nat /\ MinPulses(f) \in Nat /\ MinPulses(f) <= 40
  BY CarrierBounds, MinPulsesBounds, SMT
<1>2. Length(us) * Carrier(f) \in Int
  BY <1>1, SMT DEF Length
<1>3. PICK k \in Nearest(Length(us) * Carrier(f), Million) : x = Clamped(k, f)
  BY DEF Pulses
<1>4. k \in Int
  BY <1>2, <1>3, SMT DEF Nearest, Million
<1> QED
  BY <1>1, <1>3, <1>4, SMT DEF Clamped, Larger, Smaller, MaxPulses

-----------------------------------------------------------------------------
(* Frames.                                                                 *)

LEMMA ListIsSeq ==
    ASSUME NEW S, NEW n \in Nat, NEW s \in [1..n -> S]
    PROVE  s \in Seq(S) /\ Len(s) = n /\ DOMAIN s = 1..n
<1>1. s \in Seq(S)
  BY SeqDef
<1>2. DOMAIN s = 1..n
  OBVIOUS
<1> QED
  BY <1>1, <1>2, LenProperties, SMT

LEMMA UnpaddedShape ==
    ASSUME NEW f \in Int, NEW timings \in Seq(Int), NEW frame \in Unpadded(timings, f)
    PROVE  /\ frame \in Seq(Nat) /\ Len(frame) = Len(timings)
           /\ DOMAIN frame = 1..Len(timings)
           /\ \A i \in 1..Len(timings) :
                 frame[i] \in Pulses(timings[i], f) /\ frame[i] \in MinPulses(f)..MaxPulses
<1> DEFINE n == Len(timings)
<1>1. n \in Nat /\ \A i \in 1..n : timings[i] \in Int
  BY LenProperties, ElementOfSeq
<1>2. /\ frame \in [1..n -> UNION {Pulses(timings[i], f) : i \in 1..n}]
      /\ \A i \in 1..n : frame[i] \in Pulses(timings[i], f)
  BY DEF Unpadded
<1>3. \A i \in 1..n : frame[i] \in MinPulses(f)..MaxPulses
  BY <1>1, <1>2, PulsesBounds
<1>4. \A i \in 1..n : frame[i] \in Nat
  BY <1>1, <1>2, PulsesBounds
<1>5. frame \in [1..n -> Nat]
  BY <1>2, <1>4
<1> QED
  BY <1>1, <1>2, <1>3, <1>5, ListIsSeq

\* A frame that is made of timings has a space for its last mark.
LEMMA FramesShape ==
    ASSUME NEW f \in Int, NEW timings \in Seq(Int), NEW frame \in Frames(timings, f)
    PROVE  /\ Len(frame) % 2 = 0
           /\ \A i \in DOMAIN frame : frame[i] \in MinPulses(f)..MaxPulses
           /\ Len(timings) % 2 = 0 => frame \in Unpadded(timings, f)
<1> DEFINE padded == IF Len(timings) % 2 = 1 THEN Append(timings, TrailingGap) ELSE timings
<1>1. padded \in Seq(Int) /\ Len(padded) % 2 = 0
  <2>1. Len(timings) \in Nat
    BY LenProperties
  <2>2. CASE Len(timings) % 2 = 1
    <3> DEFINE gap == TrailingGap
    <3>0. gap \in Int
      BY SMT DEF TrailingGap
    <3> HIDE DEF gap
    <3>1. Append(timings, gap) \in Seq(Int) /\ Len(Append(timings, gap)) = Len(timings) + 1
      BY <3>0, AppendProperties, Zenon
    <3>2. padded = Append(timings, gap)
      BY <2>2 DEF gap
    <3>3. (Len(timings) + 1) % 2 = 0
      BY <2>1, <2>2, SMT
    <3> QED
      BY <3>1, <3>2, <3>3
  <2>3. CASE Len(timings) % 2 # 1
    BY <2>1, <2>3, SMT
  <2> QED
    BY <2>2, <2>3
<1>2. frame \in Unpadded(padded, f)
  BY DEF Frames
<1>3. Len(timings) \in Nat
  BY LenProperties
<1>4. Len(timings) % 2 = 0 => padded = timings
  BY <1>3, SMT
<1> HIDE DEF padded
<1> QED
  BY <1>1, <1>2, <1>4, UnpaddedShape

LEMMA TimingsShape ==
    ASSUME NEW f \in Int, NEW n \in Nat, NEW of \in [1..n -> Nat],
           NEW timings \in Timings(of, f)
    PROVE  /\ timings \in Seq(Int) /\ Len(timings) = n /\ n % 2 = 0
           /\ \A i \in 1..n : \E u \in Micros(of[i], f) : timings[i] = u \/ timings[i] = -u
<1>1. Len(of) = n /\ DOMAIN of = 1..n
  BY ListIsSeq
<1> DEFINE Signed(i) == IF i % 2 = 1 THEN Micros(of[i], f) ELSE {-u : u \in Micros(of[i], f)}
<1>2. /\ timings \in [1..n -> UNION {Signed(i) : i \in 1..n}]
      /\ n % 2 = 0 /\ \A i \in 1..n : timings[i] \in Signed(i)
  BY <1>1 DEF Timings, IsWhole
<1>3. ASSUME NEW i \in 1..n
      PROVE  \E u \in Micros(of[i], f) : timings[i] = u \/ timings[i] = -u
  BY <1>2
<1>4. ASSUME NEW i \in 1..n
      PROVE  timings[i] \in Int
  <2>1. PICK u \in Micros(of[i], f) : timings[i] = u \/ timings[i] = -u
    BY <1>3
  <2>2. Carrier(f) \in Nat /\ Carrier(f) > 0 /\ of[i] * Million \in Int
    BY CarrierBounds, SMT DEF Million, MinCarrier, MaxCarrier
  <2>3. PICK k \in Nearest(of[i] * Million, Carrier(f)) : u = Larger(1, k)
    BY DEF Micros
  <2>4. k \in Int
    BY <2>2, <2>3, SMT DEF Nearest
  <2>5. u \in Int
    BY <2>3, <2>4, SMT DEF Larger
  <2> QED
    BY <2>1, <2>5, SMT
<1>5. timings \in [1..n -> Int]
  BY <1>2, <1>4
<1> QED
  BY <1>2, <1>3, <1>5, ListIsSeq

\* What is heard of a frame, sent on, is that frame.
LEMMA SentOn ==
    ASSUME NEW f \in Int, NEW n \in Nat, NEW of \in [1..n -> Nat],
           NEW timings \in Timings(of, f), NEW frame \in Frames(timings, f)
    PROVE  \A i \in DOMAIN of : of[i] \in MinPulses(f)..MaxPulses => frame[i] = of[i]
<1>1. DOMAIN of = 1..n
  OBVIOUS
<1>5. timings \in Seq(Int) /\ Len(timings) = n /\ n % 2 = 0
  BY TimingsShape
<1>6. \A i \in 1..n : frame[i] \in Pulses(timings[i], f)
  BY <1>5, FramesShape, UnpaddedShape
<1>7. ASSUME NEW i \in 1..n, of[i] \in MinPulses(f)..MaxPulses
      PROVE  frame[i] = of[i]
  <2>1. PICK u \in Micros(of[i], f) : timings[i] = u \/ timings[i] = -u
    BY TimingsShape
  <2>2. of[i] \in Int /\ MinPulses(f) <= of[i] /\ of[i] <= MaxPulses
    BY <1>7, MinPulsesBounds, SMT DEF MaxPulses
  <2>3. Pulses(u, f) = {of[i]} /\ Pulses(-u, f) = {of[i]}
    BY <2>1, <2>2, ThereAndBack
  <2>4. frame[i] \in {of[i]}
    BY <1>6, <2>1, <2>3
  <2> QED
    BY <2>4
<1> QED
  BY <1>1, <1>7

\* A frame of a Pronto code is even and has no count of zero, whatever its words.
LEMMA ProntoShape ==
    ASSUME NEW words \in Seq(ProntoWords), NEW frame, frame = ProntoFrame(words), frame # <<>>
    PROVE  /\ Len(frame) % 2 = 0
           /\ \A i \in DOMAIN frame : frame[i] >= 1
<1> DEFINE n == 2 * (Larger(0, words[3]) + Larger(0, words[4]))
<1>1. Len(words) \in Nat /\ \A i \in 1..Len(words) : words[i] \in Int
  BY LenProperties, ElementOfSeq, ProntoWordsAssumption
<1>2. /\ Len(words) >= 4 /\ ~(4 + n > Len(words))
      /\ frame = [i \in 1..n |-> Larger(1, words[4 + i])]
  BY <1>1, SMT DEF ProntoFrame
<1>3. words[3] \in Int /\ words[4] \in Int
  BY <1>1, <1>2, SMT
<1>4. n \in Nat /\ n % 2 = 0
  BY <1>3, SMT DEF Larger
<1> HIDE DEF n
<1>5. ASSUME NEW i \in 1..n
      PROVE  frame[i] \in Int /\ frame[i] >= 1
  <2>1. 4 + i \in 1..Len(words)
    BY <1>1, <1>2, <1>4, SMT
  <2>2. words[4 + i] \in Int
    BY <1>1, <2>1
  <2>3. frame[i] = Larger(1, words[4 + i])
    BY <1>2
  <2> QED
    BY <2>2, <2>3, SMT DEF Larger
<1>6. frame \in [1..n -> Int]
  BY <1>2, <1>5
<1> QED
  BY <1>4, <1>5, <1>6, ListIsSeq

LEMMA ProntoCarrierBounds ==
    ASSUME NEW word \in Int, NEW c \in ProntoCarrier(word)
    PROVE  c \in Int /\ MinCarrier <= c /\ c <= MaxCarrier
<1>1. CASE word = 0
  BY <1>1, SMT DEF ProntoCarrier, ProntoDefault, MinCarrier, MaxCarrier
<1>2. CASE word < 0
  BY <1>2, SMT DEF ProntoCarrier, MinCarrier, MaxCarrier
<1>3. CASE word > 0
  <2>1. PICK k \in Nearest(ProntoRate, word) : c = Carrier(k)
    BY <1>3, SMT DEF ProntoCarrier
  <2>0. ProntoRate \in Nat
    BY SMT DEF ProntoRate
  <2>2. k \in Int
    BY <1>3, <2>0, <2>1, SMT DEF Nearest
  <2> QED
    BY <2>1, <2>2, CarrierBounds, SMT
<1> QED
  BY <1>1, <1>2, <1>3, SMT

-----------------------------------------------------------------------------
(* The invariant: a code that was heard carries timings of its frame, and  *)
(* one that is sent is as the properties say.                              *)

HeardOK ==
    /\ signal.at = "heard" /\ signal.f \in Nat \ {0}
    /\ \E n \in Nat : signal.frame \in [1..n -> Nat]
    /\ signal.timings \in Timings(signal.frame, signal.f)

SentOK == signal.at = "sent" /\ SentOnAsHeard /\ FramesAreWhole

SignalOK == signal = NoSignal \/ HeardOK \/ SentOK

LEMMA SentFrequencyBounds ==
    ASSUME NEW f \in Nat
    PROVE  /\ SentFrequency(f) \in Nat
           /\ MinCarrier <= SentFrequency(f) /\ SentFrequency(f) <= MaxCarrier
           /\ f # 0 => MinPulses(SentFrequency(f)) = MinPulses(f) /\ SentFrequency(f) = Carrier(f)
<1>1. (IF f = 0 THEN DefaultFrequency ELSE f) \in Int
  BY FrequenciesAssumption
<1>2. f # 0 => SentFrequency(f) = Carrier(f)
  BY DEF SentFrequency
<1>3. f # 0 => MinPulses(SentFrequency(f)) = MinPulses(f)
  <2>1. MinPulses(Carrier(f)) = MinPulses(f)
    BY MinPulsesBounds
  <2> QED
    BY <1>2, <2>1
<1>4. PICK g \in Int : SentFrequency(f) = Carrier(g)
  BY <1>1 DEF SentFrequency
<1>5. /\ SentFrequency(f) \in Nat
      /\ MinCarrier <= SentFrequency(f) /\ SentFrequency(f) <= MaxCarrier
  BY <1>4, CarrierBounds, SMT
<1> QED
  BY <1>2, <1>3, <1>5, SMT

LEMMA ListsOfSeq ==
    ASSUME NEW S, NEW m \in Int, NEW s \in ListsOf(S, 0..m)
    PROVE  s \in Seq(S) /\ \E n \in Nat : s \in [1..n -> S]
<1>1. PICK n \in 0..m : s \in [1..n -> S]
  BY DEF ListsOf
<1>2. n \in Nat
  BY SMT
<1> QED
  BY <1>1, <1>2, ListIsSeq

\* Conversions at the clamped carrier are those at the carrier itself.
LEMMA FramesClamped ==
    ASSUME NEW f \in Int, NEW timings
    PROVE  Frames(timings, Carrier(f)) = Frames(timings, f)
<1>1. Carrier(Carrier(f)) = Carrier(f) /\ MinPulses(Carrier(f)) = MinPulses(f)
  BY CarrierTwice, MinPulsesBounds
<1>2. \A us : Pulses(us, Carrier(f)) = Pulses(us, f)
  BY <1>1 DEF Pulses, Clamped
<1>3. ASSUME NEW t
      PROVE  Unpadded(t, Carrier(f)) = Unpadded(t, f)
  <2>1. {Pulses(t[i], Carrier(f)) : i \in 1..Len(t)} = {Pulses(t[i], f) : i \in 1..Len(t)}
    BY <1>2
  <2> QED
    BY <1>2, <2>1, Zenon DEF Unpadded
<1> QED
  BY <1>3 DEF Frames
-----------------------------------------------------------------------------
(* Every step keeps the invariant.                                         *)

\* A code is sent as it should be, or refused because there are too many values.
LEMMA SendSendirKeeps ==
    ASSUME NEW kind, NEW of, NEW f, NEW frame,
           SendSendir(kind, of, f, frame),
           Len(frame) % 2 = 0,
           \A i \in DOMAIN frame :
              /\ frame[i] >= (IF kind \in {"timings", "relayed"} THEN MinPulses(f) ELSE 1)
              /\ kind \notin {"pronto", "prontoAt"} => frame[i] <= MaxPulses,
           kind \in {"timings", "relayed", "pronto"} => MinCarrier <= f /\ f <= MaxCarrier,
           kind = "relayed" => \A i \in DOMAIN of :
              of[i] \in MinPulses(f)..MaxPulses => frame[i] = of[i]
    PROVE  SignalOK'
<1>1. CASE Len(frame) < MaxValues
  <2>1. signal' = Sent(kind, of, f, frame)
    BY <1>1 DEF SendSendir
  <2>2. /\ signal'.at = "sent" /\ signal'.kind = kind /\ signal'.of = of
        /\ signal'.f = f /\ signal'.frame = frame
    BY <2>1, Zenon DEF Sent
  <2>3. SentOnAsHeard'
    BY <2>2, Zenon DEF SentOnAsHeard
  <2>4. FramesAreWhole'
    BY <1>1, <2>2, Zenon DEF FramesAreWhole
  <2> QED
    BY <2>2, <2>3, <2>4, Zenon DEF SignalOK, SentOK
<1>2. CASE ~(Len(frame) < MaxValues)
  <2>1. signal' = NoSignal
    BY <1>2 DEF SendSendir
  <2> QED
    BY <2>1 DEF SignalOK, NoSignal
<1> QED
  BY <1>1, <1>2

LEMMA SendTimingsKeeps ==
    ASSUME NEW kind \in {"timings", "relayed"}, NEW of, NEW timings \in Seq(Int), NEW f \in Nat,
           SendTimings(kind, of, timings, f),
           \A frame \in Frames(timings, SentFrequency(f)) :
              kind = "relayed" => \A i \in DOMAIN of :
                 of[i] \in MinPulses(SentFrequency(f))..MaxPulses => frame[i] = of[i]
    PROVE  SignalOK'
<1> DEFINE g == SentFrequency(f)
<1>1. PICK frame \in Frames(timings, g) : SendSendir(kind, of, g, frame)
  BY DEF SendTimings
<1>2. g \in Int /\ MinCarrier <= g /\ g <= MaxCarrier
  BY SentFrequencyBounds, SMT
<1> HIDE DEF g
<1>3. Len(frame) % 2 = 0 /\ \A i \in DOMAIN frame : frame[i] \in MinPulses(g)..MaxPulses
  BY <1>2, FramesShape
<1>4. kind = "relayed" => \A i \in DOMAIN of :
         of[i] \in MinPulses(g)..MaxPulses => frame[i] = of[i]
  BY <1>1, Zenon DEF g
<1> DEFINE low == IF kind \in {"timings", "relayed"} THEN MinPulses(g) ELSE 1
<1>5. ASSUME NEW i \in DOMAIN frame
      PROVE  low <= frame[i] /\ frame[i] <= MaxPulses
  BY <1>3, <1>2, MinPulsesBounds, SMT DEF MaxPulses
<1> QED
  BY <1>1, <1>2, <1>3, <1>4, <1>5, SendSendirKeeps

LEMMA ReceiveKeeps ==
    ASSUME NEW c \in Connectors, Receive(c)
    PROVE  SignalOK'
<1>0. PICK frame \in ListsOf(Counts, 0..MaxValues), f \in Frequencies \ {0},
           said \in {c, <<c[1], 1>>} :
             \E timings \in Timings(frame, f) :
                signal' = [at |-> "heard", from |-> c, said |-> said, to |-> Notified(said),
                           frame |-> frame, f |-> f, timings |-> timings]
  BY DEF Receive
<1>1. PICK timings \in Timings(frame, f) :
             signal' = [at |-> "heard", from |-> c, said |-> said, to |-> Notified(said),
                        frame |-> frame, f |-> f, timings |-> timings]
  BY <1>0
<1>2. /\ signal'.at = "heard" /\ signal'.f = f /\ signal'.frame = frame
      /\ signal'.timings = timings
  BY <1>1
<1>3. PICK n \in Nat : frame \in [1..n -> Counts]
  BY MaxValuesAssumption, ListsOfSeq
<1>4. frame \in [1..n -> Nat]
  BY <1>3, CountsAssumption
<1>5. f \in Nat \ {0}
  BY FrequenciesAssumption
<1>6. HeardOK'
  BY <1>2, <1>4, <1>5, Zenon DEF HeardOK
<1> QED
  BY <1>6 DEF SignalOK

LEMMA SendOnKeeps ==
    ASSUME SignalOK, SendOn
    PROVE  SignalOK'
<1>1. signal.at = "heard" /\ SendTimings("relayed", signal.frame, signal.timings, signal.f)
  BY DEF SendOn
<1>2. HeardOK
  BY <1>1 DEF SignalOK, SentOK, NoSignal
<1> DEFINE of == signal.frame
           f == signal.f
           timings == signal.timings
<1>3. PICK n \in Nat : of \in [1..n -> Nat]
  BY <1>2 DEF HeardOK
<1>4. f \in Nat /\ f # 0 /\ timings \in Timings(of, f)
  BY <1>2 DEF HeardOK
<1> HIDE DEF of, f, timings
<1>5. /\ MinPulses(SentFrequency(f)) = MinPulses(f)
      /\ Frames(timings, SentFrequency(f)) = Frames(timings, f)
  BY <1>4, SentFrequencyBounds, FramesClamped
<1>6. ASSUME NEW frame \in Frames(timings, SentFrequency(f))
      PROVE  \A i \in DOMAIN of :
                of[i] \in MinPulses(SentFrequency(f))..MaxPulses => frame[i] = of[i]
  BY <1>3, <1>4, <1>5, SentOn
<1>7. timings \in Seq(Int)
  BY <1>3, <1>4, TimingsShape
<1> QED
  BY <1>1, <1>4, <1>6, <1>7, SendTimingsKeeps DEF of, f, timings

LEMMA SendCommandKeeps ==
    ASSUME SendCommand
    PROVE  SignalOK'
<1>1. PICK timings \in ListsOf(Durations, 0..MaxValues), f \in Frequencies :
         SendTimings("timings", <<>>, timings, f)
  BY DEF SendCommand
<1>2. timings \in Seq(Durations)
  BY MaxValuesAssumption, ListsOfSeq
<1>3. timings \in Seq(Int) /\ f \in Nat
  BY <1>2, DurationsAssumption, FrequenciesAssumption, SeqMonotonic
<1> QED
  BY <1>1, <1>3, SendTimingsKeeps

LEMMA SendProntoKeeps ==
    ASSUME SendPronto
    PROVE  SignalOK'
<1>0. PICK words \in ListsOf(ProntoWords, 0..MaxValues + 4) :
         /\ ProntoFrame(words) # <<>>
         /\ \/ \E f \in ProntoCarrier(words[2]) :
                  SendSendir("pronto", <<>>, f, ProntoFrame(words))
            \/ \E f \in Frequencies : SendSendir("prontoAt", <<>>, f, ProntoFrame(words))
  BY DEF SendPronto
<1>1. PICK kind \in {"pronto", "prontoAt"}, f \in ProntoCarrier(words[2]) \cup Frequencies :
         /\ SendSendir(kind, <<>>, f, ProntoFrame(words))
         /\ kind = "pronto" => f \in ProntoCarrier(words[2])
  BY <1>0
<1>2. words \in Seq(ProntoWords)
  BY MaxValuesAssumption, ListsOfSeq
<1> DEFINE frame == ProntoFrame(words)
<1>3. Len(frame) % 2 = 0 /\ \A i \in DOMAIN frame : frame[i] >= 1
  BY <1>0, <1>2, ProntoShape
<1>4. words[2] \in Int
  <2>1. Len(words) \in Nat /\ Len(words) >= 4
    BY <1>0, <1>2, LenProperties, SMT DEF ProntoFrame
  <2>2. 2 \in 1..Len(words)
    BY <2>1, SMT
  <2> QED
    BY <1>2, <2>2, ElementOfSeq, ProntoWordsAssumption
<1>5. kind \in {"timings", "relayed", "pronto"} => MinCarrier <= f /\ f <= MaxCarrier
  BY <1>1, <1>4, ProntoCarrierBounds
<1> DEFINE low == IF kind \in {"timings", "relayed"} THEN MinPulses(f) ELSE 1
<1>6. low = 1
  OBVIOUS
<1>7. \A i \in DOMAIN frame :
         frame[i] >= low /\ (kind \notin {"pronto", "prontoAt"} => frame[i] <= MaxPulses)
  BY <1>3, <1>6
<1>8. SendSendir(kind, <<>>, f, frame)
  BY <1>1
<1>9. kind # "relayed"
  OBVIOUS
<1> HIDE DEF frame
<1> QED
  BY <1>3, <1>5, <1>7, <1>8, <1>9, SendSendirKeeps

LEMMA TypedBounds ==
    ASSUME NEW x \in 1..MaxPulses
    PROVE  1 <= x /\ x <= MaxPulses
BY SMT DEF MaxPulses

LEMMA SendPairsKeeps ==
    ASSUME SendPairs
    PROVE  SignalOK'
<1>1. PICK frame \in ListsOf(Counts \cap 1..MaxPulses, 0..MaxValues), f \in Frequencies :
         /\ Len(frame) % 2 = 0
         /\ SendSendir("pairs", <<>>, IF f = 0 THEN DefaultFrequency ELSE f, frame)
  BY DEF SendPairs
<1> DEFINE g == IF f = 0 THEN DefaultFrequency ELSE f
           low == IF "pairs" \in {"timings", "relayed"} THEN MinPulses(g) ELSE 1
<1>2. PICK n \in Nat : frame \in [1..n -> Counts \cap 1..MaxPulses]
  BY MaxValuesAssumption, ListsOfSeq
<1>3. low = 1
  OBVIOUS
<1>4. ASSUME NEW i \in DOMAIN frame
      PROVE  low <= frame[i] /\ frame[i] <= MaxPulses
  <2>1. frame[i] \in 1..MaxPulses
    BY <1>2
  <2>2. 1 <= frame[i] /\ frame[i] <= MaxPulses
    BY <2>1, TypedBounds
  <2> QED
    BY <1>3, <2>2
<1>5. SendSendir("pairs", <<>>, g, frame)
  BY <1>1
<1> HIDE DEF g
<1> QED
  BY <1>1, <1>4, <1>5, SendSendirKeeps

LEMMA SendStoredKeeps ==
    ASSUME SendStored
    PROVE  SignalOK'
<1>1. signal'.at = "sent" /\ signal'.kind = "stored"
  BY DEF SendStored, Sent
<1>2. SentOnAsHeard' /\ FramesAreWhole'
  BY <1>1 DEF SentOnAsHeard, FramesAreWhole
<1> QED
  BY <1>1, <1>2 DEF SignalOK, SentOK

LEMMA StepKeeps ==
    ASSUME SignalOK, [IrNext]_irVars
    PROVE  SignalOK'
<1>1. CASE UNCHANGED signal
  BY <1>1 DEF SignalOK, HeardOK, SentOK, SentOnAsHeard, FramesAreWhole
<1>2. ASSUME NEW c \in Connectors, Register(c) \/ Unregister(c)
      PROVE  UNCHANGED signal
  BY <1>2 DEF Register, Unregister
<1>3. CASE Forget
  BY <1>3 DEF Forget, SignalOK
<1>4. CASE UNCHANGED irVars
  BY <1>1, <1>4 DEF irVars
<1> QED
  BY <1>1, <1>2, <1>3, <1>4, ReceiveKeeps, SendOnKeeps, SendCommandKeeps, SendProntoKeeps,
     SendPairsKeeps, SendStoredKeeps DEF IrNext

-----------------------------------------------------------------------------
(* Theorems.                                                               *)

LEMMA SignalAlwaysOK == IrSpec => []SignalOK
<1>1. IrInit => SignalOK
  BY DEF IrInit, SignalOK
<1> QED
  BY <1>1, StepKeeps, PTL DEF IrSpec

\* A code that is sent on is sent pulse by pulse as it was heard, for every carrier
\* and every count from 80 us to 16 bits: infrared_util.py rounds to microseconds and
\* back without loss.
THEOREM SentOnIsHeard == IrSpec => []SentOnAsHeard
<1>1. SignalOK => SentOnAsHeard
  BY DEF SignalOK, HeardOK, SentOK, SentOnAsHeard, NoSignal
<1> QED
  BY <1>1, SignalAlwaysOK, PTL

\* What is made of timings, of a Pronto code or of a typed list is a whole frame: even,
\* short enough, without a zero, and made from timings within the limits of the gateway,
\* for every limit, carrier and code. A stored sendir line is not looked at, and the
\* counts of a Pronto code are bounded from below only.
THEOREM SentFramesAreWhole == IrSpec => []FramesAreWhole
<1>1. SignalOK => FramesAreWhole
  <2>1. signal.at # "sent" => FramesAreWhole
    BY DEF FramesAreWhole
  <2>2. signal = NoSignal \/ HeardOK => signal.at # "sent"
    BY DEF HeardOK, NoSignal
  <2> QED
    BY <2>1, <2>2 DEF SignalOK, SentOK
<1> QED
  BY <1>1, SignalAlwaysOK, PTL

\* _dispatch_infrared_receive calls the receivers of the connector a code came in at,
\* and none of another module.
THEOREM CodesAreHeard == IrSpec => HeardWhereItComesIn
<1> DEFINE Right ==
      signal'.at = "heard" /\ signal.at # "heard" =>
        LET c == signal'.from IN
        /\ c \in listening /\ (signal'.said = c \/ <<c[1], 1>> \notin listening)
              => c \in signal'.to
        /\ c \in listening /\ signal'.said = c => signal'.to = {c}
        /\ \A l \in signal'.to : l[1] = c[1]
<1>1. ASSUME NEW c \in Connectors, Receive(c)
      PROVE  Right
  <2>0. PICK frame \in ListsOf(Counts, 0..MaxValues), f \in Frequencies \ {0},
             said \in {c, <<c[1], 1>>} :
               \E timings \in Timings(frame, f) :
                  signal' = [at |-> "heard", from |-> c, said |-> said, to |-> Notified(said),
                             frame |-> frame, f |-> f, timings |-> timings]
    BY <1>1 DEF Receive
  <2>1. PICK timings \in Timings(frame, f) :
           signal' = [at |-> "heard", from |-> c, said |-> said, to |-> Notified(said),
                      frame |-> frame, f |-> f, timings |-> timings]
    BY <2>0
  <2>2. signal'.from = c /\ signal'.said = said /\ signal'.to = Notified(said)
    BY <2>1
  <2>3. said[1] = c[1]
    OBVIOUS
  <2> QED
    BY <2>2, <2>3 DEF Notified
<1>2. ASSUME NEW kind, NEW of, NEW f, NEW frame, SendSendir(kind, of, f, frame)
      PROVE  signal'.at # "heard"
  BY <1>2 DEF SendSendir, Sent, NoSignal
<1>3. SendOn \/ SendCommand \/ SendPronto \/ SendPairs \/ SendStored \/ Forget =>
         signal'.at # "heard"
  BY <1>2 DEF SendOn, SendCommand, SendPronto, SendPairs, SendStored, SendTimings, Sent,
     Forget, NoSignal
<1>4. ASSUME NEW c \in Connectors, Register(c) \/ Unregister(c)
      PROVE  Right
  BY <1>4 DEF Register, Unregister
<1>5. IrNext => Right
  BY <1>1, <1>3, <1>4 DEF IrNext
<1>6. [IrNext]_irVars => [Right]_irVars
  BY <1>5
<1> QED
  BY <1>6, PTL DEF IrSpec, HeardWhereItComesIn
-----------------------------------------------------------------------------
(* Ids.                                                                    *)

\* How far back in ids the i-th one stands: the last one was given one step ago.
Age(i) == Len(ids) - i + 1

\* The ids remembered are the ones before nextId, counted back around the circle
\* 1..LastId, and at most all the others.
IdsInv ==
    /\ nextId \in 1..LastId
    /\ ids \in Seq(1..LastId)
    /\ Len(ids) < LastId
    /\ \A i \in 1..Len(ids) :
          ids[i] = IF nextId > Age(i) THEN nextId - Age(i) ELSE nextId - Age(i) + LastId

LEMMA NextIdRange ==
    ASSUME nextId \in 1..LastId
    PROVE  /\ NextId(nextId) \in 1..LastId
           /\ nextId < LastId => NextId(nextId) = nextId + 1
           /\ nextId = LastId => NextId(nextId) = 1
BY LastIdAssumption, SMT DEF NextId, LastIdAssumption

\* One step back from the next id is the id just given, and every other id is one
\* step further back.
LEMMA TakeIdKeeps ==
    ASSUME IdsInv, TakeId
    PROVE  IdsInv'
<1> DEFINE all == Append(ids, nextId)
           m == Len(ids)
<1>1. m \in Nat /\ m < LastId /\ LastId \in Nat /\ nextId \in 1..LastId /\ ids \in Seq(1..LastId)
  BY LastIdAssumption, LenProperties DEF IdsInv, LastIdAssumption
<1>2. all \in Seq(1..LastId) /\ Len(all) = m + 1
  BY <1>1
<1>3. \A i \in 1..m : all[i] = ids[i]
  BY <1>1
<1>4. all[m + 1] = nextId
  BY <1>1
<1>5. nextId' \in 1..LastId
  BY <1>1, NextIdRange DEF TakeId
<1> DEFINE Back(i, k) == IF nextId' > k THEN nextId' - k ELSE nextId' - k + LastId
<1>6. \A i \in 1..m + 1 : all[i] = Back(i, m + 1 - i + 1)
  <2> SUFFICES ASSUME NEW i \in 1..m + 1 PROVE all[i] = Back(i, m + 1 - i + 1)
    OBVIOUS
  <2>1. nextId' = NextId(nextId)
    BY DEF TakeId
  <2>2. CASE i = m + 1
    BY <1>1, <1>4, <2>1, <2>2, NextIdRange, SMT
  <2>3. CASE i \in 1..m
    <3>1. ids[i] = IF nextId > m - i + 1 THEN nextId - (m - i + 1)
                                         ELSE nextId - (m - i + 1) + LastId
      BY <2>3, Zenon DEF IdsInv, Age
    <3>2. all[i] = ids[i]
      BY <1>3, <2>3
    <3> HIDE DEF all, m
    <3>3. QED
      BY <1>1, <2>1, <2>3, <3>1, <3>2, NextIdRange, SMT
  <2>4. QED BY <1>1, <2>2, <2>3
<1>7. CASE m + 1 < LastId
  <2>1. ids' = all
    BY <1>2, <1>7 DEF TakeId
  <2> HIDE DEF all, m
  <2>2. Len(ids') = m + 1
    BY <1>2, <2>1
  <2>3. QED
    BY <1>1, <1>2, <1>5, <1>6, <1>7, <2>1, <2>2 DEF IdsInv, Age
<1>8. CASE ~(m + 1 < LastId)
  <2>1. ids' = Tail(all)
    BY <1>2, <1>8 DEF TakeId
  <2>2. /\ Tail(all) \in Seq(1..LastId) /\ Len(Tail(all)) = m
        /\ \A i \in 1..m : Tail(all)[i] = all[i + 1]
    BY <1>1, <1>2
  <2> HIDE DEF all, m
  <2>3. Len(ids') = m
    BY <2>1, <2>2
  <2>4. ASSUME NEW i \in 1..m
        PROVE  ids'[i] = IF nextId' > m - i + 1 THEN nextId' - (m - i + 1)
                                                ELSE nextId' - (m - i + 1) + LastId
    <3>1. i + 1 \in 1..m + 1 /\ m + 1 - (i + 1) + 1 = m - i + 1
      BY <1>1, <2>4
    <3>2. all[i + 1] = Back(i + 1, m - i + 1)
      BY <1>6, <3>1
    <3>3. QED BY <2>1, <2>2, <2>4, <3>2
  <2>5. QED
    BY <1>1, <1>5, <2>1, <2>2, <2>3, <2>4 DEF IdsInv, Age
<1> QED
  BY <1>7, <1>8

LEMMA IdsStep == IdsInv /\ [IrNext]_irVars => IdsInv'
<1> SUFFICES ASSUME IdsInv, [IrNext]_irVars PROVE IdsInv'
  OBVIOUS
<1>1. CASE UNCHANGED <<nextId, ids>>
  BY <1>1 DEF IdsInv, Age
<1>2. ASSUME NEW kind, NEW of, NEW f, NEW frame, SendSendir(kind, of, f, frame)
      PROVE  IdsInv'
  BY <1>1, <1>2, TakeIdKeeps DEF SendSendir
<1>3. CASE SendOn \/ SendCommand \/ SendPronto \/ SendPairs
  BY <1>2, <1>3 DEF SendOn, SendCommand, SendPronto, SendPairs, SendTimings
<1>4. ASSUME NEW c \in Connectors, Register(c) \/ Unregister(c) \/ Receive(c)
      PROVE  IdsInv'
  BY <1>1, <1>4 DEF Register, Unregister, Receive
<1>5. CASE Forget \/ SendStored
  BY <1>1, <1>5 DEF Forget, SendStored
<1>6. CASE UNCHANGED irVars
  BY <1>1, <1>6 DEF irVars
<1> QED
  BY <1>3, <1>4, <1>5, <1>6 DEF IrNext

\* Counting back fewer than LastId steps never meets the same id twice, nor the id
\* that is given next.
LEMMA IdsApart == IdsInv => IdsDiffer
<1> SUFFICES ASSUME IdsInv PROVE IdsDiffer
  OBVIOUS
<1>1. /\ Len(ids) \in Nat /\ Len(ids) < LastId /\ LastId \in Nat /\ nextId \in 1..LastId
      /\ DOMAIN ids = 1..Len(ids)
  BY LastIdAssumption, LenProperties DEF IdsInv, LastIdAssumption
<1>2. \A i \in 1..Len(ids) :
        ids[i] = IF nextId > Len(ids) - i + 1 THEN nextId - (Len(ids) - i + 1)
                                              ELSE nextId - (Len(ids) - i + 1) + LastId
  BY Zenon DEF IdsInv, Age
<1>3. ASSUME NEW i \in DOMAIN ids, NEW j \in DOMAIN ids, ids[i] = ids[j]
      PROVE  i = j
  BY <1>1, <1>2, <1>3, SMT
<1>4. ASSUME NEW i \in DOMAIN ids
      PROVE  ids[i] # nextId
  BY <1>1, <1>2, SMT
<1> QED
  BY <1>1, <1>3, <1>4 DEF IdsDiffer

\* async_next_command_id gives every other id before it gives one again, for every
\* size of the counter, so that no two of the commands under way share an id of it.
THEOREM IdsAlwaysDiffer == IrSpec => []IdsDiffer
<1>1. IrInit => IdsInv
  BY LastIdAssumption, SMT DEF IrInit, IdsInv, LastIdAssumption
<1> QED
  BY <1>1, IdsStep, IdsApart, PTL DEF IrSpec
=============================================================================
