------------------------ MODULE EntryLifecycleProofs ------------------------
(***************************************************************************)
(* Proofs about EntryLifecycle, for any ports, any calls, any number of    *)
(* coordinators and any number of changes of the entry.                    *)
(***************************************************************************)
EXTENDS EntryLifecycle, TLAPS

-----------------------------------------------------------------------------
(* Types.                                                                  *)

Versions == [options : Nat, address : Nat]
CallRecords == [gen : 0..MaxGens, at : {"idle", "set", "sleep"}, kind : CallKinds,
                on : BOOLEAN]

PollStates == {"idle", "polling"} \cup Readings

\* There is a coordinator from the first setup on; one whose setup failed is known as
\* such before another is made.
EntryTypes ==
    /\ phase \in SetupPhases \cup {"unloaded", "loaded", "unloading", "stopping", "failed",
                              "error"}
    /\ waiting \in Nat
    /\ config \in Versions /\ used \in Versions
    /\ gen \in 0..MaxGens /\ (phase # "unloaded" => gen # 0)
    /\ orphans \subseteq 1..gen /\ (phase = "error" => gen \in orphans)
    /\ data \in IF phase \in {"platforms", "loaded", "unloading"} THEN {gen}
                ELSE IF phase \in {"error", "refreshing", "listening"} THEN orphans \cup {0}
                ELSE {0}

CoordTypes ==
    /\ open \in SUBSET Gens /\ sessions \in [Gens -> SUBSET Serials]
    /\ strays \in SUBSET Gens
    /\ poll \in [Gens -> [Ways -> PollStates]] /\ last \in Readings

FlagTypes ==
    /\ again \in BOOLEAN /\ missed \in BOOLEAN
    /\ refresh \in [Gens -> BOOLEAN]
    /\ relay \in BOOLEAN /\ shown \in BOOLEAN

\* A call that is under way holds a coordinator that was made.
CallTypes ==
    /\ call \in [Calls -> CallRecords]
    /\ \A c \in Calls : call[c].at # "idle" => call[c].gen \in 1..gen

TypeInv == EntryTypes /\ CoordTypes /\ FlagTypes /\ CallTypes

LEMMA TypeInvIsEnough == TypeInv => TypeOK
<1> SUFFICES ASSUME TypeInv PROVE TypeOK
  OBVIOUS
<1>1. FlagTypes /\ call \in [Calls -> CallRecords]
  BY Zenon DEF TypeInv, CallTypes
<1>2. /\ EntryTypes /\ CoordTypes
      /\ phase \in {"unloaded", "refreshing", "listening", "platforms", "loaded",
                    "unloading", "stopping", "failed", "error"}
  BY SMT DEF TypeInv, EntryTypes, SetupPhases
<1>3. orphans \in SUBSET Gens
  <2>1. \A g \in orphans : g \in Gens
    BY BoundsAssumption, SMT DEF TypeInv, EntryTypes, Gens
  <2> QED
    BY <2>1, Zenon
<1> QED
  BY <1>1, <1>2, <1>3, Zenon DEF TypeOK, EntryTypes, CoordTypes, FlagTypes, Versions,
                           CallRecords, PollStates

LEMMA TypeInit == Init => TypeInv
<1> SUFFICES ASSUME Init PROVE TypeInv
  OBVIOUS
<1>1. EntryTypes
  BY BoundsAssumption, SMT DEF Init, EntryTypes, Versions
<1>2. CoordTypes
  <2>1. poll \in [Gens -> [Ways -> PollStates]]
    BY Zenon DEF Init, PollStates
  <2> QED
    BY <2>1, Zenon DEF Init, CoordTypes, Readings
<1>3. FlagTypes
  BY Zenon DEF Init, FlagTypes
<1>4. 0 \in 0..MaxGens
  BY BoundsAssumption, SMT
<1>5. CallTypes
  BY <1>4, Zenon DEF Init, CallTypes, CallRecords, CallKinds, Idle
<1> QED
  BY <1>1, <1>2, <1>3, <1>5 DEF TypeInv

LEMMA GenIsOne ==
    ASSUME EntryTypes, phase # "unloaded"
    PROVE  gen \in Gens
BY SMT DEF EntryTypes, Gens

\* A coordinator that services find was not shut down.
LEMMA FoundIsOne ==
    ASSUME EntryTypes, data # 0
    PROVE  /\ data \in 0..MaxGens /\ data \in 1..gen
           /\ ~Stopped(data)
<1>1. gen \in 0..MaxGens /\ \A g \in orphans : g \in 1..gen
  BY Zenon DEF EntryTypes
<1>2. CASE phase \in {"platforms", "loaded", "unloading"}
  <2>1. data = gen /\ gen # 0
    BY <1>2, SMT DEF EntryTypes
  <2> QED
    BY <1>1, <1>2, <2>1, BoundsAssumption, SMT DEF Stopped
<1>3. CASE phase \notin {"platforms", "loaded", "unloading"}
  <2>1. data \in orphans
    BY <1>3, SMT DEF EntryTypes
  <2> QED
    BY <1>1, <2>1, BoundsAssumption, SMT DEF Stopped
<1> QED
  BY <1>2, <1>3

LEMMA HeldIsOne ==
    ASSUME EntryTypes, CallTypes, NEW c \in Calls, call[c].at # "idle"
    PROVE  call[c].gen \in Gens
BY BoundsAssumption, SMT DEF EntryTypes, CallTypes, Gens

LEMMA IdleTyped == Idle \in CallRecords
<1>1. 0 \in 0..MaxGens
  BY BoundsAssumption, SMT
<1> QED
  BY <1>1, Zenon DEF CallRecords, Idle, CallKinds

\* A call that goes on holds what it held.
LEMMA GoesOnTyped ==
    ASSUME NEW r \in CallRecords
    PROVE  /\ [r EXCEPT !.at = "set"] \in CallRecords
           /\ [r EXCEPT !.at = "sleep", !.on = FALSE] \in CallRecords
           /\ [r EXCEPT !.at = "set"].gen = r.gen
           /\ [r EXCEPT !.at = "sleep", !.on = FALSE].gen = r.gen
<1>1. /\ [r EXCEPT !.at = "set"].gen = r.gen
      /\ [r EXCEPT !.at = "sleep", !.on = FALSE].gen = r.gen
  BY SMT
<1>2. /\ [r EXCEPT !.at = "set"] \in CallRecords
      /\ [r EXCEPT !.at = "sleep", !.on = FALSE] \in CallRecords
  BY Zenon DEF CallRecords
<1> QED
  BY <1>2

LEMMA CallGoesOn ==
    ASSUME CallTypes, NEW c \in Calls, call[c].at # "idle",
           call' = [call EXCEPT ![c] = Idle] \/ call' = [call EXCEPT ![c] = AfterSet(c)]
             \/ call' = [call EXCEPT ![c].at = "set"],
           gen' = gen
    PROVE  /\ CallTypes'
           /\ \A d \in Calls : call'[d].gen \in {call[d].gen, 0}
<1>1. PICK r : /\ call' = [call EXCEPT ![c] = r]
               /\ r \in {Idle, [call[c] EXCEPT !.at = "sleep", !.on = FALSE],
                         [call[c] EXCEPT !.at = "set"]}
  BY Zenon DEF AfterSet
<1>2. call[c] \in CallRecords
  BY Zenon DEF CallTypes
<1>3. r \in CallRecords
  BY <1>1, <1>2, IdleTyped, GoesOnTyped, Zenon
<1>4. r.at # "idle" => r.gen = call[c].gen
  <2>1. Idle.at = "idle"
    BY SMT DEF Idle
  <2> QED
    BY <1>1, <1>2, <2>1, GoesOnTyped, Zenon
<1>5. call' \in [Calls -> CallRecords]
  BY <1>1, <1>3, Zenon DEF CallTypes
<1>6. ASSUME NEW d \in Calls, call'[d].at # "idle"
      PROVE  call'[d].gen \in 1..gen
  <2>1. call'[d] = IF d = c THEN r ELSE call[d]
    BY <1>1, Zenon DEF CallTypes
  <2> QED
    BY <1>4, <1>6, <2>1, Zenon DEF CallTypes
<1>7. ASSUME NEW d \in Calls PROVE call'[d].gen \in {call[d].gen, 0}
  <2>1. Idle.gen = 0
    BY SMT DEF Idle
  <2>2. r.gen \in {call[c].gen, 0}
    BY <1>1, <1>2, <2>1, GoesOnTyped, Zenon
  <2> QED
    BY <1>1, <2>2, Zenon DEF CallTypes
<1> QED
  BY <1>5, <1>6, <1>7, Zenon DEF CallTypes

LEMMA TypeStep == TypeInv /\ [Next]_vars => TypeInv'
<1> SUFFICES ASSUME EntryTypes, CoordTypes, FlagTypes, CallTypes, [Next]_vars
             PROVE  EntryTypes' /\ CoordTypes' /\ FlagTypes' /\ CallTypes'
  BY DEF TypeInv
<1> USE DEF entryVars, coordVars, pollVars, relayVars
<1>1. CASE BeginSetup
  <2>1. EntryTypes'
    BY <1>1, BoundsAssumption, SMT DEF BeginSetup, EntryTypes, SetupPhases
  <2>2. CoordTypes'
    <3>1. poll' \in [Gens -> [Ways -> PollStates]]
      BY <1>1, Zenon DEF BeginSetup, CoordTypes, PollStates
    <3>2. last' \in Readings /\ UNCHANGED <<open, sessions, strays>>
      BY <1>1, Zenon DEF BeginSetup, Readings
    <3> QED
      BY <3>1, <3>2, Zenon DEF CoordTypes
  <2>3. FlagTypes'
    <3>1. again' = FALSE /\ missed' = FALSE /\ UNCHANGED <<refresh, relay, shown>>
      BY <1>1, Zenon DEF BeginSetup
    <3> QED
      BY <3>1, Zenon DEF FlagTypes
  <2>4. CallTypes'
    BY <1>1, SMT DEF BeginSetup, EntryTypes, CallTypes
  <2> QED
    BY <2>1, <2>2, <2>3, <2>4
<1>2. CASE Refreshed
  <2>1. EntryTypes'
    BY <1>2, SMT DEF Refreshed, EntryTypes, SetupPhases
  <2>2. CoordTypes'
    BY <1>2, SMT DEF Refreshed, CoordTypes
  <2>3. FlagTypes'
    BY <1>2, Zenon DEF Refreshed, FlagTypes
  <2>4. CallTypes'
    BY <1>2, SMT DEF Refreshed, CallTypes
  <2> QED
    BY <2>1, <2>2, <2>3, <2>4
<1>3. CASE SessionStarts
  <2>1. EntryTypes'
    BY <1>3, SMT DEF SessionStarts, EntryTypes, SetupPhases
  <2>2. CoordTypes'
    BY <1>3, GenIsOne, SMT DEF SessionStarts, CoordTypes, PollStates, Readings
  <2>3. FlagTypes'
    BY <1>3, Zenon DEF SessionStarts, FlagTypes
  <2>4. CallTypes'
    BY <1>3, SMT DEF SessionStarts, CallTypes
  <2> QED
    BY <2>1, <2>2, <2>3, <2>4
<1>4. CASE SessionRaises
  <2>1. EntryTypes'
    BY <1>4, SMT DEF SessionRaises, SetupRaises, EntryTypes, SetupPhases
  <2>2. CoordTypes'
    BY <1>4, GenIsOne, SMT DEF SessionRaises, SetupRaises, CoordTypes, PollStates, Readings
  <2>3. FlagTypes'
    BY <1>4, Zenon DEF SessionRaises, SetupRaises, FlagTypes
  <2>4. CallTypes'
    BY <1>4, SMT DEF SessionRaises, SetupRaises, CallTypes
  <2> QED
    BY <2>1, <2>2, <2>3, <2>4
<1>5. CASE SessionsStarted
  <2>1. EntryTypes'
    BY <1>5, SMT DEF SessionsStarted, EntryTypes, SetupPhases
  <2>2. CoordTypes'
    BY <1>5, GenIsOne, SMT DEF SessionsStarted, CoordTypes
  <2>3. FlagTypes'
    BY <1>5, Zenon DEF SessionsStarted, FlagTypes
  <2>4. CallTypes'
    BY <1>5, SMT DEF SessionsStarted, CallTypes
  <2> QED
    BY <2>1, <2>2, <2>3, <2>4
<1>6. CASE ModulesRaise
  <2>1. EntryTypes'
    BY <1>6, SMT DEF ModulesRaise, SetupRaises, EntryTypes, SetupPhases
  <2>2. CoordTypes'
    BY <1>6, GenIsOne, SMT DEF ModulesRaise, SetupRaises, CoordTypes, PollStates, Readings
  <2>3. FlagTypes'
    BY <1>6, Zenon DEF ModulesRaise, SetupRaises, FlagTypes
  <2>4. CallTypes'
    BY <1>6, SMT DEF ModulesRaise, SetupRaises, CallTypes
  <2> QED
    BY <2>1, <2>2, <2>3, <2>4
<1>7. CASE PlatformsLoaded
  <2>1. EntryTypes'
    BY <1>7, SMT DEF PlatformsLoaded, EntryTypes
  <2>2. CoordTypes'
    BY <1>7, SMT DEF PlatformsLoaded, CoordTypes
  <2>3. FlagTypes'
    BY <1>7, Zenon DEF PlatformsLoaded, FlagTypes
  <2>4. CallTypes'
    BY <1>7, SMT DEF PlatformsLoaded, CallTypes
  <2> QED
    BY <2>1, <2>2, <2>3, <2>4
<1>8. CASE PlatformsUnloaded
  <2>1. EntryTypes'
    BY <1>8, SMT DEF PlatformsUnloaded, EntryTypes
  <2>2. CoordTypes'
    BY <1>8, SMT DEF PlatformsUnloaded, CoordTypes, Readings
  <2>3. FlagTypes'
    BY <1>8, Zenon DEF PlatformsUnloaded, FlagTypes
  <2>4. CallTypes'
    BY <1>8, SMT DEF PlatformsUnloaded, CallTypes
  <2> QED
    BY <2>1, <2>2, <2>3, <2>4
<1>9. CASE StopSession
  <2>1. EntryTypes'
    BY <1>9, SMT DEF StopSession, EntryTypes
  <2>2. CoordTypes'
    <3>1. PICK s \in sessions[gen] : sessions' = [sessions EXCEPT ![gen] = @ \ {s}]
      BY <1>9, Zenon DEF StopSession
    <3>2. gen \in Gens
      BY <1>9, GenIsOne, SMT DEF StopSession
    <3>3. sessions[gen] \ {s} \in SUBSET Serials
      BY <3>2, Zenon DEF CoordTypes
    <3>4. sessions' \in [Gens -> SUBSET Serials]
      BY <3>1, Zenon DEF CoordTypes
    <3> QED
      BY <1>9, <3>4, SMT DEF StopSession, CoordTypes
  <2>3. FlagTypes'
    BY <1>9, Zenon DEF StopSession, FlagTypes
  <2>4. CallTypes'
    BY <1>9, SMT DEF StopSession, CallTypes
  <2> QED
    BY <2>1, <2>2, <2>3, <2>4
<1>10. CASE StopRaises
  <2>1. EntryTypes'
    BY <1>10, SMT DEF StopRaises, EntryTypes
  <2>2. CoordTypes'
    BY <1>10, SMT DEF StopRaises, CoordTypes
  <2>3. FlagTypes'
    BY <1>10, Zenon DEF StopRaises, FlagTypes
  <2>4. CallTypes'
    BY <1>10, SMT DEF StopRaises, CallTypes
  <2> QED
    BY <2>1, <2>2, <2>3, <2>4
<1>11. CASE Disconnect
  <2>1. EntryTypes'
    BY <1>11, SMT DEF Disconnect, EntryTypes
  <2>2. CoordTypes'
    BY <1>11, GenIsOne, SMT DEF Disconnect, CoordTypes
  <2>3. FlagTypes'
    BY <1>11, Zenon DEF Disconnect, FlagTypes
  <2>4. CallTypes'
    BY <1>11, SMT DEF Disconnect, CallTypes
  <2> QED
    BY <2>1, <2>2, <2>3, <2>4
<1>12. CASE DisconnectRaises
  <2>1. EntryTypes'
    BY <1>12, SMT DEF DisconnectRaises, EntryTypes, SetupPhases
  <2>2. CoordTypes'
    BY <1>12, GenIsOne, SMT DEF DisconnectRaises, CoordTypes, PollStates, Readings
  <2>3. FlagTypes'
    BY <1>12, Zenon DEF DisconnectRaises, FlagTypes
  <2>4. CallTypes'
    BY <1>12, SMT DEF DisconnectRaises, CallTypes
  <2> QED
    BY <2>1, <2>2, <2>3, <2>4
<1>13. CASE SaveOptions
  <2>1. EntryTypes'
    BY <1>13, SMT DEF SaveOptions, EntryTypes, Versions
  <2>2. CoordTypes'
    BY <1>13, SMT DEF SaveOptions, CoordTypes
  <2>3. FlagTypes'
    BY <1>13, Zenon DEF SaveOptions, FlagTypes
  <2>4. CallTypes'
    BY <1>13, SMT DEF SaveOptions, CallTypes
  <2> QED
    BY <2>1, <2>2, <2>3, <2>4
<1>14. CASE MoveAddress
  <2>1. EntryTypes'
    BY <1>14, SMT DEF MoveAddress, EntryTypes, Versions
  <2>2. CoordTypes'
    BY <1>14, SMT DEF MoveAddress, CoordTypes
  <2>3. FlagTypes'
    BY <1>14, Zenon DEF MoveAddress, FlagTypes
  <2>4. CallTypes'
    BY <1>14, SMT DEF MoveAddress, CallTypes
  <2> QED
    BY <2>1, <2>2, <2>3, <2>4
<1>15. CASE BeginUnload
  <2>1. EntryTypes'
    BY <1>15, SMT DEF BeginUnload, EntryTypes
  <2>2. CoordTypes'
    BY <1>15, SMT DEF BeginUnload, CoordTypes
  <2>3. FlagTypes'
    BY <1>15, Zenon DEF BeginUnload, FlagTypes
  <2>4. CallTypes'
    BY <1>15, SMT DEF BeginUnload, CallTypes
  <2> QED
    BY <2>1, <2>2, <2>3, <2>4
<1>16. CASE ReloadRefused
  <2>1. EntryTypes'
    BY <1>16, SMT DEF ReloadRefused, EntryTypes
  <2>2. CoordTypes'
    BY <1>16, SMT DEF ReloadRefused, CoordTypes
  <2>3. FlagTypes'
    BY <1>16, Zenon DEF ReloadRefused, FlagTypes
  <2>4. CallTypes'
    BY <1>16, SMT DEF ReloadRefused, CallTypes
  <2> QED
    BY <2>1, <2>2, <2>3, <2>4
<1>17. CASE SessionReconnects
  <2>1. EntryTypes'
    BY <1>17, SMT DEF SessionReconnects, EntryTypes
  <2>2. CoordTypes'
    BY <1>17, SMT DEF SessionReconnects, CoordTypes
  <2>3. FlagTypes'
    BY <1>17, Zenon DEF SessionReconnects, FlagTypes
  <2>4. CallTypes'
    BY <1>17, SMT DEF SessionReconnects, CallTypes
  <2> QED
    BY <2>1, <2>2, <2>3, <2>4
<1>18. CASE ConnectionLost
  <2>1. EntryTypes'
    BY <1>18, SMT DEF ConnectionLost, EntryTypes
  <2>2. CoordTypes'
    BY <1>18, SMT DEF ConnectionLost, CoordTypes
  <2>3. FlagTypes'
    BY <1>18, Zenon DEF ConnectionLost, FlagTypes
  <2>4. CallTypes'
    BY <1>18, SMT DEF ConnectionLost, CallTypes
  <2> QED
    BY <2>1, <2>2, <2>3, <2>4
<1>19. CASE SerialText
  <2>1. EntryTypes'
    BY <1>19, SMT DEF SerialText, EntryTypes
  <2>2. CoordTypes'
    BY <1>19, SMT DEF SerialText, CoordTypes
  <2>3. FlagTypes'
    BY <1>19, Zenon DEF SerialText, FlagTypes
  <2>4. CallTypes'
    BY <1>19, SMT DEF SerialText, CallTypes
  <2> QED
    BY <2>1, <2>2, <2>3, <2>4
<1>20. ASSUME NEW g \in Gens, NEW w \in Ways, PollStarts(g, w)
      PROVE  EntryTypes' /\ CoordTypes' /\ FlagTypes' /\ CallTypes'
  <2>1. EntryTypes'
    BY <1>20, SMT DEF PollStarts, EntryTypes
  <2>2. CoordTypes'
    <3>1. poll' \in [Gens -> [Ways -> PollStates]]
      BY <1>20, Zenon DEF PollStarts, CoordTypes, PollStates
    <3> QED
      BY <1>20, <3>1, SMT DEF PollStarts, CoordTypes
  <2>3. FlagTypes'
    BY <1>20, Zenon DEF PollStarts, FlagTypes
  <2>4. CallTypes'
    BY <1>20, SMT DEF PollStarts, CallTypes
  <2> QED
    BY <2>1, <2>2, <2>3, <2>4
<1>21. ASSUME NEW g \in Gens, NEW w \in Ways, PollReads(g, w)
      PROVE  EntryTypes' /\ CoordTypes' /\ FlagTypes' /\ CallTypes'
  <2>1. EntryTypes'
    BY <1>21, SMT DEF PollReads, EntryTypes
  <2>2. CoordTypes'
    <3>1. poll' \in [Gens -> [Ways -> PollStates]]
      BY <1>21, Zenon DEF PollReads, CoordTypes, PollStates, Reading, Readings
    <3> QED
      BY <1>21, <3>1, SMT DEF PollReads, CoordTypes
  <2>3. FlagTypes'
    BY <1>21, Zenon DEF PollReads, FlagTypes
  <2>4. CallTypes'
    BY <1>21, SMT DEF PollReads, CallTypes
  <2> QED
    BY <2>1, <2>2, <2>3, <2>4
<1>22. ASSUME NEW g \in Gens, NEW w \in Ways, PollMisses(g, w)
      PROVE  EntryTypes' /\ CoordTypes' /\ FlagTypes' /\ CallTypes'
  <2>1. EntryTypes'
    BY <1>22, SMT DEF PollMisses, EntryTypes, SetupPhases
  <2>2. CoordTypes'
    BY <1>22, SMT DEF PollMisses, CoordTypes, PollStates, Readings
  <2>3. FlagTypes'
    BY <1>22, Zenon DEF PollMisses, FlagTypes
  <2>4. CallTypes'
    BY <1>22, SMT DEF PollMisses, CallTypes
  <2> QED
    BY <2>1, <2>2, <2>3, <2>4
<1>23. ASSUME NEW g \in Gens, NEW w \in Ways, PollRaises(g, w)
      PROVE  EntryTypes' /\ CoordTypes' /\ FlagTypes' /\ CallTypes'
  <2>1. EntryTypes'
    BY <1>23, SMT DEF PollRaises, EntryTypes, SetupPhases
  <2>2. CoordTypes'
    BY <1>23, SMT DEF PollRaises, CoordTypes, PollStates, Readings
  <2>3. FlagTypes'
    BY <1>23, Zenon DEF PollRaises, FlagTypes
  <2>4. CallTypes'
    BY <1>23, SMT DEF PollRaises, CallTypes
  <2> QED
    BY <2>1, <2>2, <2>3, <2>4
<1>24. ASSUME NEW g \in Gens, NEW w \in Ways, PollPublishes(g, w)
      PROVE  EntryTypes' /\ CoordTypes' /\ FlagTypes' /\ CallTypes'
  <2>1. EntryTypes'
    BY <1>24, SMT DEF PollPublishes, EntryTypes
  <2>2. CoordTypes'
    <3>1. poll' \in [Gens -> [Ways -> PollStates]]
      BY <1>24, Zenon DEF PollPublishes, CoordTypes, PollStates
    <3> QED
      BY <1>24, <3>1, SMT DEF PollPublishes, CoordTypes, Readings, PollStates
  <2>3. FlagTypes'
    BY <1>24, Zenon DEF PollPublishes, FlagTypes
  <2>4. CallTypes'
    BY <1>24, SMT DEF PollPublishes, CallTypes
  <2> QED
    BY <2>1, <2>2, <2>3, <2>4
<1>25. ASSUME NEW g \in Gens, NEW w \in Ways, PollCancelled(g, w)
      PROVE  EntryTypes' /\ CoordTypes' /\ FlagTypes' /\ CallTypes'
  <2>1. EntryTypes'
    BY <1>25, SMT DEF PollCancelled, EntryTypes
  <2>2. CoordTypes'
    <3>1. poll' \in [Gens -> [Ways -> PollStates]]
      BY <1>25, Zenon DEF PollCancelled, CoordTypes, PollStates
    <3> QED
      BY <1>25, <3>1, SMT DEF PollCancelled, CoordTypes
  <2>3. FlagTypes'
    BY <1>25, Zenon DEF PollCancelled, FlagTypes
  <2>4. CallTypes'
    BY <1>25, SMT DEF PollCancelled, CallTypes
  <2> QED
    BY <2>1, <2>2, <2>3, <2>4
<1>26. ASSUME NEW c \in Calls, Call(c)
      PROVE  EntryTypes' /\ CoordTypes' /\ FlagTypes' /\ CallTypes'
  <2>1. EntryTypes'
    BY <1>26, SMT DEF Call, EntryTypes
  <2>2. CoordTypes'
    BY <1>26, SMT DEF Call, CoordTypes
  <2>3. FlagTypes'
    BY <1>26, Zenon DEF Call, FlagTypes
  <2>4. CallTypes'
    <3>1. PICK k \in CallKinds, v \in BOOLEAN :
             call' = [call EXCEPT ![c] = [gen |-> data, at |-> "set", kind |-> k, on |-> v]]
      BY <1>26, Zenon DEF Call
    <3> DEFINE r == [gen |-> data, at |-> "set", kind |-> k, on |-> v]
    <3>2. data \in 0..MaxGens /\ data \in 1..gen /\ gen' = gen
      BY <1>26, FoundIsOne, Zenon DEF Call
    <3>3. r \in CallRecords /\ r.gen = data
      BY <3>2, Zenon DEF CallRecords
    <3> HIDE DEF r
    <3>4. call' = [call EXCEPT ![c] = r]
      BY <3>1, Zenon DEF r
    <3>5. call' \in [Calls -> CallRecords]
      BY <3>3, <3>4, Zenon DEF CallTypes
    <3>6. ASSUME NEW d \in Calls, call'[d].at # "idle"
          PROVE  call'[d].gen \in 1..gen
      <4>1. call'[d] = IF d = c THEN r ELSE call[d]
        BY <3>4, Zenon DEF CallTypes
      <4> QED
        BY <3>2, <3>3, <3>6, <4>1, Zenon DEF CallTypes
    <3> QED
      BY <3>2, <3>5, <3>6, Zenon DEF CallTypes
  <2> QED
    BY <2>1, <2>2, <2>3, <2>4
<1>27. ASSUME NEW c \in Calls, SetAnswered(c)
      PROVE  EntryTypes' /\ CoordTypes' /\ FlagTypes' /\ CallTypes'
  <2>1. EntryTypes'
    BY <1>27, SMT DEF SetAnswered, EntryTypes
  <2>2. CoordTypes'
    <3>1. call[c].gen \in Gens
      BY <1>27, HeldIsOne, SMT DEF SetAnswered
    <3> QED
      BY <1>27, <3>1, SMT DEF SetAnswered, CoordTypes
  <2>3. FlagTypes'
    <3>1. call[c].on \in BOOLEAN
      BY Zenon DEF CallTypes, CallRecords
    <3> QED
      BY <1>27, <3>1, Zenon DEF SetAnswered, FlagTypes
  <2>4. CallTypes'
    <3>1. call[c].at # "idle" /\ gen' = gen
      BY <1>27, SMT DEF SetAnswered
    <3> QED
      BY <1>27, CallGoesOn, Zenon DEF SetAnswered
  <2> QED
    BY <2>1, <2>2, <2>3, <2>4
<1>28. ASSUME NEW c \in Calls, SetFails(c)
      PROVE  EntryTypes' /\ CoordTypes' /\ FlagTypes' /\ CallTypes'
  <2>1. EntryTypes'
    BY <1>28, SMT DEF SetFails, EntryTypes
  <2>2. CoordTypes'
    <3>1. call[c].gen \in Gens
      BY <1>28, HeldIsOne, SMT DEF SetFails
    <3> QED
      BY <1>28, <3>1, SMT DEF SetFails, CoordTypes
  <2>3. FlagTypes'
    <3>1. call[c].on \in BOOLEAN
      BY Zenon DEF CallTypes, CallRecords
    <3> QED
      BY <1>28, <3>1, Zenon DEF SetFails, FlagTypes
  <2>4. CallTypes'
    <3>1. call[c].at # "idle" /\ gen' = gen
      BY <1>28, SMT DEF SetFails
    <3> QED
      BY <1>28, CallGoesOn, Zenon DEF SetFails
  <2> QED
    BY <2>1, <2>2, <2>3, <2>4
<1>29. ASSUME NEW c \in Calls, PulseReleases(c)
      PROVE  EntryTypes' /\ CoordTypes' /\ FlagTypes' /\ CallTypes'
  <2>1. EntryTypes'
    BY <1>29, SMT DEF PulseReleases, EntryTypes
  <2>2. CoordTypes'
    BY <1>29, SMT DEF PulseReleases, CoordTypes
  <2>3. FlagTypes'
    BY <1>29, Zenon DEF PulseReleases, FlagTypes
  <2>4. CallTypes'
    <3>1. call[c].at # "idle" /\ gen' = gen
      BY <1>29, SMT DEF PulseReleases
    <3> QED
      BY <1>29, CallGoesOn, Zenon DEF PulseReleases
  <2> QED
    BY <2>1, <2>2, <2>3, <2>4
<1>30. CASE UNCHANGED vars
  BY <1>30 DEF vars, EntryTypes, CoordTypes, FlagTypes, CallTypes
<1> QED
  BY <1>1, <1>2, <1>3, <1>4, <1>5, <1>6, <1>7, <1>8, <1>9, <1>10, <1>11, <1>12,
     <1>13, <1>14, <1>15, <1>16, <1>17, <1>18, <1>19, <1>20, <1>21, <1>22, <1>23, <1>24,
     <1>25, <1>26, <1>27, <1>28, <1>29, <1>30, Zenon
     DEF Next, SetupStep, UnloadStep, PollStep

\* Every variable keeps its type; hass.data holds the last coordinator from the end of
\* the start of its sessions to the end of the unload of the platforms, and after that at
\* most one that a failed setup left there.
THEOREM TypeCorrect == Spec => []TypeOK
<1>1. Spec => []TypeInv
  BY TypeInit, TypeStep, PTL DEF Spec
<1> QED
  BY <1>1, TypeInvIsEnough, PTL

-----------------------------------------------------------------------------
(* Shutting down.                                                          *)

\* What a coordinator that was shut down is left with. No task may be in flight on it
\* either, or that task would connect again.
Freed(g) ==
    /\ sessions[g] = {}
    /\ g \notin strays => /\ g \notin open
                          /\ ~refresh[g] /\ \A w \in Ways : poll[g][w] = "idle"
                          /\ \A c \in Calls : call[c].gen # g

FreeInv == \A g \in 1..gen : Stopped(g) => Freed(g)

LEMMA FreeStep == TypeInv /\ FreeInv /\ [Next]_vars => FreeInv'
<1> SUFFICES ASSUME TypeInv, FreeInv, [Next]_vars, NEW g \in 1..gen', Stopped(g)'
             PROVE  Freed(g)'
  BY Zenon DEF FreeInv
<1> USE DEF entryVars, coordVars, pollVars, relayVars
<1>0. /\ gen \in Nat /\ g \in Gens /\ g # 0
      /\ (g \in 1..gen /\ Stopped(g)) => Freed(g)
  <2>1. gen \in 0..MaxGens /\ gen' \in 0..MaxGens
    BY TypeStep, Zenon DEF TypeInv, EntryTypes
  <2>2. gen \in Nat /\ g \in Gens /\ g # 0
    BY <2>1, BoundsAssumption, SMT DEF Gens
  <2> QED
    BY <2>2, Zenon DEF FreeInv
<1>1. CASE BeginSetup
  <2>1. gen' = gen + 1 /\ g < gen' /\ g \notin orphans
    BY <1>1, SMT DEF BeginSetup, Stopped
  <2>2. g \in 1..gen /\ g # gen'
    BY <1>0, <2>1, SMT
  <2>3. Stopped(g)
    BY <1>0, <1>1, <2>1, <2>2, SMT DEF BeginSetup, Stopped, TypeInv, EntryTypes
  <2>4. Freed(g)
    BY <1>0, <2>2, <2>3
  <2>5. poll'[g] = poll[g] /\ UNCHANGED <<sessions, strays, open, refresh, call>>
    BY <1>0, <1>1, <2>2, Zenon DEF BeginSetup, TypeInv, CoordTypes
  <2> QED
    BY <2>4, <2>5, Zenon DEF Freed
<1>2. CASE Refreshed
  BY <1>0, <1>2, SMT DEF Refreshed, Stopped, Freed
<1>3. CASE SessionStarts
  BY <1>0, <1>3, SMT DEF SessionStarts, Stopped, Freed
<1>4. CASE SessionRaises
  BY <1>0, <1>4, SMT DEF SessionRaises, SetupRaises, Stopped, Freed
<1>5. CASE SessionsStarted
  BY <1>0, <1>5, SMT DEF SessionsStarted, Stopped, Freed
<1>6. CASE ModulesRaise
  BY <1>0, <1>6, SMT DEF ModulesRaise, SetupRaises, Stopped, Freed
<1>7. CASE PlatformsLoaded
  BY <1>0, <1>7, SMT DEF PlatformsLoaded, Stopped, Freed
<1>8. CASE PlatformsUnloaded
  BY <1>0, <1>8, SMT DEF PlatformsUnloaded, Stopped, Freed
<1>9. CASE StopSession
  BY <1>0, <1>9, SMT DEF StopSession, Stopped, Freed
<1>10. CASE StopRaises
  BY <1>0, <1>10, SMT DEF StopRaises, Stopped, Freed
<1>11. CASE Disconnect
  <2>1. CASE g = gen
    BY <1>11, <2>1, Zenon DEF Disconnect, Freed, Busy, Polled, InFlight
  <2>2. CASE g # gen
    BY <1>0, <1>11, <2>2, SMT DEF Disconnect, Stopped, Freed
  <2> QED
    BY <2>1, <2>2
<1>12. CASE DisconnectRaises
  BY <1>0, <1>12, SMT DEF DisconnectRaises, Stopped, Freed
<1>13. CASE SaveOptions
  BY <1>0, <1>13, SMT DEF SaveOptions, Stopped, Freed
<1>14. CASE MoveAddress
  BY <1>0, <1>14, SMT DEF MoveAddress, Stopped, Freed
<1>15. CASE BeginUnload
  BY <1>0, <1>15, SMT DEF BeginUnload, Stopped, Freed
<1>16. CASE ReloadRefused
  BY <1>0, <1>16, SMT DEF ReloadRefused, Stopped, Freed
<1>17. CASE SessionReconnects
  BY <1>0, <1>17, SMT DEF SessionReconnects, Stopped, Freed
<1>18. CASE ConnectionLost
  BY <1>0, <1>18, SMT DEF ConnectionLost, Stopped, Freed
<1>19. CASE SerialText
  BY <1>0, <1>19, SMT DEF SerialText, Stopped, Freed
<1>20. ASSUME NEW h \in Gens, NEW w \in Ways, PollStarts(h, w)
      PROVE  Freed(g)'
  BY <1>0, <1>20, SMT DEF PollStarts, Stopped, Freed
<1>21. ASSUME NEW h \in Gens, NEW w \in Ways, PollReads(h, w)
      PROVE  Freed(g)'
  BY <1>0, <1>21, SMT DEF PollReads, Stopped, Freed
<1>22. ASSUME NEW h \in Gens, NEW w \in Ways, PollMisses(h, w)
      PROVE  Freed(g)'
  BY <1>0, <1>22, SMT DEF PollMisses, Stopped, Freed
<1>23. ASSUME NEW h \in Gens, NEW w \in Ways, PollRaises(h, w)
      PROVE  Freed(g)'
  BY <1>0, <1>23, SMT DEF PollRaises, Stopped, Freed
<1>24. ASSUME NEW h \in Gens, NEW w \in Ways, PollPublishes(h, w)
      PROVE  Freed(g)'
  BY <1>0, <1>24, SMT DEF PollPublishes, Stopped, Freed
<1>25. ASSUME NEW h \in Gens, NEW w \in Ways, PollCancelled(h, w)
      PROVE  Freed(g)'
  BY <1>0, <1>25, SMT DEF PollCancelled, Stopped, Freed
<1>26. ASSUME NEW c \in Calls, Call(c)
      PROVE  Freed(g)'
  <2>1. gen' = gen /\ g \in 1..gen /\ Stopped(g)
    BY <1>26, Zenon DEF Call, Stopped
  <2>2. data # g
    BY <1>26, <2>1, FoundIsOne, Zenon DEF Call, TypeInv
  <2>3. \A d \in Calls : call'[d].gen \in {call[d].gen, data}
    <3>1. PICK k \in CallKinds, v \in BOOLEAN :
             call' = [call EXCEPT ![c] = [gen |-> data, at |-> "set", kind |-> k, on |-> v]]
      BY <1>26, Zenon DEF Call
    <3> DEFINE r == [gen |-> data, at |-> "set", kind |-> k, on |-> v]
    <3>2. r.gen = data
      BY SMT
    <3> HIDE DEF r
    <3>3. call' = [call EXCEPT ![c] = r]
      BY <3>1, Zenon DEF r
    <3> QED
      BY <3>2, <3>3, Zenon DEF TypeInv, CallTypes
  <2> QED
    BY <1>0, <1>26, <2>1, <2>2, <2>3, Zenon DEF Call, Freed
<1>27. ASSUME NEW c \in Calls, SetAnswered(c)
      PROVE  Freed(g)'
  <2>1. /\ call[c].at # "idle" /\ gen' = gen
        /\ g \in 1..gen /\ Stopped(g)
    BY <1>27, SMT DEF SetAnswered, Stopped
  <2>2. Freed(g)
    BY <1>0, <2>1
  <2>3. \A d \in Calls : call'[d].gen \in {call[d].gen, 0}
    BY <1>27, CallGoesOn, Zenon DEF SetAnswered, TypeInv
  <2> QED
    BY <1>0, <1>27, <2>2, <2>3, Zenon DEF SetAnswered, Freed, TypeInv, FlagTypes
<1>28. ASSUME NEW c \in Calls, SetFails(c)
      PROVE  Freed(g)'
  <2>1. /\ call[c].at # "idle" /\ gen' = gen
        /\ g \in 1..gen /\ Stopped(g)
    BY <1>28, SMT DEF SetFails, Stopped
  <2>2. Freed(g)
    BY <1>0, <2>1
  <2>3. \A d \in Calls : call'[d].gen \in {call[d].gen, 0}
    BY <1>28, CallGoesOn, Zenon DEF SetFails, TypeInv
  <2> QED
    BY <1>0, <1>28, <2>2, <2>3, Zenon DEF SetFails, Freed
<1>29. ASSUME NEW c \in Calls, PulseReleases(c)
      PROVE  Freed(g)'
  <2>1. /\ call[c].at # "idle" /\ gen' = gen
        /\ g \in 1..gen /\ Stopped(g)
    BY <1>29, SMT DEF PulseReleases, Stopped
  <2>2. Freed(g)
    BY <1>0, <2>1
  <2>3. \A d \in Calls : call'[d].gen \in {call[d].gen, 0}
    BY <1>29, CallGoesOn, Zenon DEF PulseReleases, TypeInv
  <2> QED
    BY <1>0, <1>29, <2>2, <2>3, Zenon DEF PulseReleases, Freed
<1>30. CASE UNCHANGED vars
  BY <1>0, <1>30, SMT DEF vars, Stopped, Freed
<1> QED
  BY <1>1, <1>2, <1>3, <1>4, <1>5, <1>6, <1>7, <1>8, <1>9, <1>10, <1>11, <1>12,
     <1>13, <1>14, <1>15, <1>16, <1>17, <1>18, <1>19, <1>20, <1>21, <1>22, <1>23, <1>24,
     <1>25, <1>26, <1>27, <1>28, <1>29, <1>30, Zenon
     DEF Next, SetupStep, UnloadStep, PollStep

\* A coordinator that was shut down keeps no serial session, and no connection unless a
\* task was in flight when its client was disconnected.
THEOREM ShutdownIsFinal == Spec => []ShutdownFreesGateway
<1>1. Init => FreeInv
  BY SMT DEF Init, FreeInv
<1>2. Spec => []FreeInv
  BY <1>1, TypeInit, TypeStep, FreeStep, PTL DEF Spec
<1>3. FreeInv => ShutdownFreesGateway
  BY Zenon DEF FreeInv, Freed, ShutdownFreesGateway
<1> QED
  BY <1>2, <1>3, PTL

-----------------------------------------------------------------------------
(* Settings.                                                               *)

\* From the copy of a setup on: a save that no reload will see is a missed one.
SettingsInv ==
    phase \in SetupPhases \cup {"loaded"} /\ waiting = 0 =>
        /\ used.address = config.address
        /\ missed \/ used.options = config.options

LEMMA SettingsStep == TypeInv /\ SettingsInv /\ [Next]_vars => SettingsInv'
<1> SUFFICES ASSUME TypeInv, SettingsInv, [Next]_vars PROVE SettingsInv'
  OBVIOUS
<1> USE DEF entryVars, coordVars, pollVars, relayVars, SettingsInv, SetupPhases
<1>1. CASE BeginSetup
  BY <1>1, SMT DEF BeginSetup
<1>2. CASE Refreshed
  BY <1>2, SMT DEF Refreshed
<1>3. CASE SessionStarts
  BY <1>3, SMT DEF SessionStarts
<1>4. CASE SessionRaises
  BY <1>4, SMT DEF SessionRaises, SetupRaises
<1>5. CASE SessionsStarted
  BY <1>5, SMT DEF SessionsStarted
<1>6. CASE ModulesRaise
  BY <1>6, SMT DEF ModulesRaise, SetupRaises
<1>7. CASE PlatformsLoaded
  BY <1>7, SMT DEF PlatformsLoaded
<1>8. CASE PlatformsUnloaded
  BY <1>8, SMT DEF PlatformsUnloaded
<1>9. CASE StopSession
  BY <1>9, SMT DEF StopSession
<1>10. CASE StopRaises
  BY <1>10, SMT DEF StopRaises
<1>11. CASE Disconnect
  BY <1>11, SMT DEF Disconnect
<1>12. CASE DisconnectRaises
  BY <1>12, SMT DEF DisconnectRaises
<1>13. CASE SaveOptions
  <2>1. UNCHANGED <<phase, used>> /\ waiting \in Nat /\ config'.address = config.address
    BY <1>13, SMT DEF SaveOptions, TypeInv, EntryTypes
  <2>2. CASE phase = "loaded"
    BY <1>13, <2>1, <2>2, SMT DEF SaveOptions, Listening
  <2>3. CASE phase \in {"refreshing", "listening", "platforms"}
    <3>1. phase \in SetupPhases /\ missed'
      BY <1>13, <2>3, Zenon DEF SaveOptions
    <3>2. waiting' = waiting
      BY <1>13, <2>3, SMT DEF SaveOptions, Listening
    <3> QED
      BY <2>1, <3>1, <3>2, Zenon
  <2> QED
    BY <2>1, <2>2, <2>3, SMT
<1>14. CASE MoveAddress
  BY <1>14, SMT DEF MoveAddress, TypeInv, EntryTypes
<1>15. CASE BeginUnload
  BY <1>15, SMT DEF BeginUnload
<1>16. CASE ReloadRefused
  BY <1>16, SMT DEF ReloadRefused
<1>17. CASE SessionReconnects
  BY <1>17, SMT DEF SessionReconnects
<1>18. CASE ConnectionLost
  BY <1>18, SMT DEF ConnectionLost
<1>19. CASE SerialText
  BY <1>19, SMT DEF SerialText
<1>20. ASSUME NEW g \in Gens, NEW w \in Ways, PollStarts(g, w)
      PROVE  SettingsInv'
  BY <1>20, SMT DEF PollStarts
<1>21. ASSUME NEW g \in Gens, NEW w \in Ways, PollReads(g, w)
      PROVE  SettingsInv'
  BY <1>21, SMT DEF PollReads
<1>22. ASSUME NEW g \in Gens, NEW w \in Ways, PollMisses(g, w)
      PROVE  SettingsInv'
  BY <1>22, SMT DEF PollMisses
<1>23. ASSUME NEW g \in Gens, NEW w \in Ways, PollRaises(g, w)
      PROVE  SettingsInv'
  BY <1>23, SMT DEF PollRaises
<1>24. ASSUME NEW g \in Gens, NEW w \in Ways, PollPublishes(g, w)
      PROVE  SettingsInv'
  BY <1>24, SMT DEF PollPublishes
<1>25. ASSUME NEW g \in Gens, NEW w \in Ways, PollCancelled(g, w)
      PROVE  SettingsInv'
  BY <1>25, SMT DEF PollCancelled
<1>26. ASSUME NEW c \in Calls, Call(c)
      PROVE  SettingsInv'
  BY <1>26, SMT DEF Call
<1>27. ASSUME NEW c \in Calls, SetAnswered(c)
      PROVE  SettingsInv'
  BY <1>27, SMT DEF SetAnswered
<1>28. ASSUME NEW c \in Calls, SetFails(c)
      PROVE  SettingsInv'
  BY <1>28, SMT DEF SetFails
<1>29. ASSUME NEW c \in Calls, PulseReleases(c)
      PROVE  SettingsInv'
  BY <1>29, SMT DEF PulseReleases
<1>30. CASE UNCHANGED vars
  BY <1>30 DEF vars
<1> QED
  BY <1>1, <1>2, <1>3, <1>4, <1>5, <1>6, <1>7, <1>8, <1>9, <1>10, <1>11, <1>12,
     <1>13, <1>14, <1>15, <1>16, <1>17, <1>18, <1>19, <1>20, <1>21, <1>22, <1>23, <1>24,
     <1>25, <1>26, <1>27, <1>28, <1>29, <1>30, Zenon
     DEF Next, SetupStep, UnloadStep, PollStep

\* Once the reloads that were asked for have run, the coordinator in use was made from
\* the entry's address, and from its options unless they were saved during the setup.
THEOREM SettingsReachUse == Spec => []SettingsTakeEffect
<1>1. Init => SettingsInv
  BY SMT DEF Init, SettingsInv
<1>2. Spec => []SettingsInv
  BY <1>1, TypeInit, TypeStep, SettingsStep, PTL DEF Spec
<1>3. SettingsInv => SettingsTakeEffect
  BY Zenon DEF SettingsInv, SettingsTakeEffect
<1> QED
  BY <1>2, <1>3, PTL

=============================================================================
