------------------------------ MODULE Infrared ------------------------------
(***************************************************************************)
(* IR codes: what comes in at a connector of the gateway goes to receivers *)
(* of Home Assistant as signed microseconds, and what is sent on, or comes *)
(* from elsewhere, goes out as pulse counts of the carrier, with a command *)
(* id.  ItachClient has what becomes of the line that is sent.             *)
(*                                                                         *)
(* The code computes with floats: where two integers are as near, which    *)
(* one it gets depends on how they were rounded, and a conversion is the   *)
(* set of the results the code may get.                                    *)
(***************************************************************************)
EXTENDS Integers, Sequences

CONSTANTS
    Connectors,         \* pairs of a module and a port
    Frequencies,        \* carriers, Hz; automations give 0 for none
    DefaultFrequency,   \* CONF_DEFAULT_FREQ
    Counts,             \* pulse counts in frames that are heard or typed
    Durations,          \* microseconds in codes that are sent
    ProntoWords,        \* words of Pronto codes: hex numbers of any size
    MaxValues,          \* 520 pulse counts in a frame
    LastId              \* 65535, the last command id

ASSUME ConnectorsAssumption == Connectors \subseteq Nat \X Nat
ASSUME FrequenciesAssumption == Frequencies \subseteq Nat /\ DefaultFrequency \in Nat
ASSUME CountsAssumption == Counts \subseteq Nat
ASSUME DurationsAssumption == Durations \subseteq Int
ASSUME ProntoWordsAssumption == ProntoWords \subseteq Int
ASSUME MaxValuesAssumption == MaxValues \in Nat
ASSUME LastIdAssumption == LastId \in Nat \ {0}

VARIABLES
    listening,      \* connectors with a receiver, the keys of _infrared_rx_callbacks
    signal,         \* the code that is on its way, or NoSignal
    nextId,         \* _next_id
    ids             \* history: the last ids that were given, LastId - 1 at most

irVars == <<listening, signal, nextId, ids>>

-----------------------------------------------------------------------------
(* Microseconds and pulses.                                                *)

Million == 1000000
Larger(a, b) == IF a < b THEN b ELSE a
Smaller(a, b) == IF a < b THEN a ELSE b
MinCarrier == 15000
MaxCarrier == 500000
Carrier(f) == Larger(MinCarrier, Smaller(MaxCarrier, f))

RoundedDown(n, d) == {n \div d}                \* mutant: int() without round()

\* The integers nearest to n / d.
Nearest(n, d) ==
    {k \in {n \div d, n \div d + 1} : -d <= 2 * (n - k * d) /\ 2 * (n - k * d) <= d}

\* No duration is below 80 us.
MinPulses(f) == Larger(1, (80 * Carrier(f) + (Million - 1)) \div Million)

MaxPulses == 65535

Clamped(k, f) == Larger(MinPulses(f), Smaller(MaxPulses, k))
Length(us) == IF us < 0 THEN -us ELSE us
Pulses(us, f) == {Clamped(k, f) : k \in Nearest(Length(us) * Carrier(f), Million)}

Micros(pulses, f) == {Larger(1, k) : k \in Nearest(pulses * Million, Carrier(f))}

-----------------------------------------------------------------------------
(* Frames: pulse counts, on and off in turn.                               *)

ListsOf(values, lengths) == UNION {[1..n -> values] : n \in lengths}
IsWhole(frame) == frame # <<>> /\ Len(frame) % 2 = 0

TrailingGap == 40000

\* us_timings_to_gc_pairs; no frame when it raises.
Unpadded(timings, f) ==
    LET n == Len(timings)
    IN  {frame \in [1..n -> UNION {Pulses(timings[i], f) : i \in 1..n}] :
            n \in 1..MaxValues /\ \A i \in 1..n : frame[i] \in Pulses(timings[i], f)}
Frames(timings, f) ==
    Unpadded(IF Len(timings) % 2 = 1 THEN Append(timings, TrailingGap) ELSE timings, f)

\* gc_pairs_to_us_timings, of a frame that parse_sendir_line lets through. Lines that
\* the gateway compresses with letters are left out.
Timings(frame, f) ==
    LET n == Len(frame)
        Signed(i) == IF i % 2 = 1 THEN Micros(frame[i], f) ELSE {-u : u \in Micros(frame[i], f)}
    IN  {timings \in [1..n -> UNION {Signed(i) : i \in 1..n}] :
            IsWhole(frame) /\ \A i \in 1..n : timings[i] \in Signed(i)}

\* The carrier of a Pronto code: a unit is 0.241246 us, and 1000000 / 0.241246 can
\* be rounded first, which changes no carrier: words above 276 all get MinCarrier.
ProntoRate == 4145146
ProntoDefault == 38000
ProntoCarrier(word) ==
    CASE word = 0 -> {ProntoDefault}
      [] word < 0 -> {MinCarrier}
      [] word > 0 -> {Carrier(k) : k \in Nearest(ProntoRate, word)}

ProntoFrameUnchecked(words) ==                 \* mutant: words are sent as they are
    IF Len(words) < 4 \/ words[1] # 0 THEN <<>>
    ELSE LET n == 2 * (Larger(0, words[3]) + Larger(0, words[4]))
         IN  IF 4 + n > Len(words) THEN <<>> ELSE SubSeq(words, 5, 4 + n)

\* The frame of a Pronto code, empty when the code is rejected: its two sequences,
\* whose lengths are words 3 and 4, follow each other. A count has no upper bound.
ProntoFrame(words) ==
    IF Len(words) < 4 \/ words[1] # 0 THEN <<>>
    ELSE LET n == 2 * (Larger(0, words[3]) + Larger(0, words[4]))
         IN  IF 4 + n > Len(words) THEN <<>> ELSE [i \in 1..n |-> Larger(1, words[4 + i])]

-----------------------------------------------------------------------------
(* What comes in.                                                          *)

NoSignal == [at |-> "none"]

Register(c) ==
    /\ listening' = listening \cup {c}
    /\ UNCHANGED <<signal, nextId, ids>>

Unregister(c) ==
    /\ listening' = listening \ {c}
    /\ UNCHANGED <<signal, nextId, ids>>

NotifiedExact(said) == listening \cap {said}   \* mutant: other ports are not tried

\* Who is told of a code that the gateway says comes from a connector.
Notified(said) ==
    IF said \in listening THEN {said} ELSE {l \in listening : l[1] = said[1]}

\* A code comes in at c, with its carrier; on some paths the gateway calls every
\* port 1.
Receive(c) ==
    /\ signal = NoSignal
    /\ \E frame \in ListsOf(Counts, 0..MaxValues), f \in Frequencies \ {0},
          said \in {c, <<c[1], 1>>} :
          \E timings \in Timings(frame, f) :
             signal' = [at |-> "heard", from |-> c, said |-> said, to |-> Notified(said),
                        frame |-> frame, f |-> f, timings |-> timings]
    /\ UNCHANGED <<listening, nextId, ids>>

-----------------------------------------------------------------------------
(* What goes out.                                                          *)

NextIdLate(id) == IF id > LastId THEN 1 ELSE id + 1                 \* mutant: off by one

\* async_next_command_id, after it gave id.
NextId(id) == IF id + 1 > LastId THEN 1 ELSE id + 1

TakeId ==
    /\ nextId' = NextId(nextId)
    /\ ids' = LET all == Append(ids, nextId)
              IN  IF Len(all) < LastId THEN all ELSE Tail(all)

Sent(kind, of, f, frame) ==
    [at |-> "sent", kind |-> kind, of |-> of, f |-> f, frame |-> frame]

\* send_sendir takes no list of as many as 520 values, though the conversion makes
\* one: it raises, and the id is used up. A stored command may have an id of its own,
\* and with ID_POLICY_FIXED all have the same one: these take none.
SendSendir(kind, of, f, frame) ==
    /\ TakeId \/ UNCHANGED <<nextId, ids>>
    /\ signal' = IF Len(frame) < MaxValues THEN Sent(kind, of, f, frame) ELSE NoSignal
    /\ UNCHANGED listening

SentFrequency(f) == Carrier(IF f = 0 THEN DefaultFrequency ELSE f)

\* async_send_infrared_timings.
SendTimings(kind, of, timings, f) ==
    \E frame \in Frames(timings, SentFrequency(f)) :
        SendSendir(kind, of, SentFrequency(f), frame)

\* An automation sends on what a receiver heard.
SendOn ==
    /\ signal.at = "heard" /\ signal.to # {}
    /\ SendTimings("relayed", signal.frame, signal.timings, signal.f)

SendCommand ==
    /\ signal = NoSignal
    /\ \E timings \in ListsOf(Durations, 0..MaxValues), f \in Frequencies :
          SendTimings("timings", <<>>, timings, f)

SendPronto ==
    /\ signal = NoSignal
    /\ \E words \in ListsOf(ProntoWords, 0..MaxValues + 4) :
          /\ ProntoFrame(words) # <<>>
          /\ \/ \E f \in ProntoCarrier(words[2]) :
                   SendSendir("pronto", <<>>, f, ProntoFrame(words))
             \/ \E f \in Frequencies :           \* the stored command has its own
                   SendSendir("prontoAt", <<>>, f, ProntoFrame(words))

\* Pulse counts that a user typed, with a carrier or without.
SendPairs ==
    /\ signal = NoSignal
    /\ \E frame \in ListsOf(Counts \cap 1..MaxPulses, 0..MaxValues), f \in Frequencies :
          /\ Len(frame) % 2 = 0
          /\ SendSendir("pairs", <<>>, IF f = 0 THEN DefaultFrequency ELSE f, frame)

\* A whole sendir line, as every learned command is one, goes out as it is stored,
\* with the id it has: neither its counts nor its carrier are looked at.
SendStored ==
    /\ signal = NoSignal
    /\ \E frame \in ListsOf(Counts, 0..MaxValues), f \in Frequencies :
          signal' = Sent("stored", <<>>, f, frame)
    /\ UNCHANGED <<listening, nextId, ids>>

\* The code was answered, or nobody sends on what was heard.
Forget ==
    /\ signal # NoSignal
    /\ signal' = NoSignal
    /\ UNCHANGED <<listening, nextId, ids>>

-----------------------------------------------------------------------------
IrInit == listening = {} /\ signal = NoSignal /\ nextId = 1 /\ ids = <<>>

IrNext ==
    \/ \E c \in Connectors : Register(c) \/ Unregister(c) \/ Receive(c)
    \/ SendOn \/ SendCommand \/ SendPronto \/ SendPairs \/ SendStored \/ Forget

IrSpec == IrInit /\ [][IrNext]_irVars

-----------------------------------------------------------------------------
(* Properties.                                                             *)

\* A code that was heard and is sent on is sent pulse by pulse as it was heard, as
\* long as the gateway may send such pulses, whatever the rounding to whole
\* microseconds in between (infrared_util.py:33).
SentOnAsHeard ==
    signal.at = "sent" /\ signal.kind = "relayed" =>
        \A i \in DOMAIN signal.of : signal.of[i] \in MinPulses(signal.f)..MaxPulses
            => signal.frame[i] = signal.of[i]

\* What the integration makes of timings, of a Pronto code or of a typed list has a
\* space after each mark, no count of zero and fewer values than send_sendir refuses;
\* made from timings it keeps to all limits of the gateway, and a typed list to 16
\* bits. The carrier is one the gateway has unless a user gave it. Stored sendir lines
\* are not meant: they go out unchecked. Nor is there an upper bound for the counts of
\* a Pronto code: pronto.py:18 reads words of any size (infrared_util.py:55,
\* client.py:475).
FramesAreWhole ==
    signal.at = "sent" /\ signal.kind # "stored" =>
        /\ Len(signal.frame) % 2 = 0 /\ Len(signal.frame) < MaxValues
        /\ \A i \in DOMAIN signal.frame :
              /\ signal.frame[i] >=
                     (IF signal.kind \in {"timings", "relayed"} THEN MinPulses(signal.f) ELSE 1)
              /\ signal.kind \notin {"pronto", "prontoAt"} => signal.frame[i] <= MaxPulses
        /\ signal.kind \in {"timings", "relayed", "pronto"} =>
              MinCarrier <= signal.f /\ signal.f <= MaxCarrier

\* The counter does not give an id again before it gave all the others, so no two
\* commands under way have the same one of it, and none is beyond what the gateway
\* takes (coordinator.py:296).
IdsDiffer ==
    /\ \A i, j \in DOMAIN ids : ids[i] = ids[j] => i = j
    /\ nextId \notin {ids[i] : i \in DOMAIN ids} /\ nextId \in 1..LastId

\* A receiver hears the codes of its connector, also when the gateway calls every
\* port 1 and nobody listens there, and none of another module
\* (coordinator.py:479).
HeardWhereItComesIn ==
    [][signal'.at = "heard" /\ signal.at # "heard" =>
        LET c == signal'.from IN
        /\ c \in listening /\ (signal'.said = c \/ <<c[1], 1>> \notin listening)
              => c \in signal'.to
        /\ c \in listening /\ signal'.said = c => signal'.to = {c}
        /\ \A l \in signal'.to : l[1] = c[1]]_irVars
=============================================================================
