-------------------------- MODULE OnboardingProofs --------------------------
(***************************************************************************)
(* Proofs about Onboarding, for any gateways, addresses, users and moves.  *)
(***************************************************************************)
EXTENDS Onboarding, FiniteSetTheorems, TLAPS

-----------------------------------------------------------------------------
(* Types.                                                                  *)

FlowRecords == [at : Ats, uid : Gateways \cup {Nobody}, host : Hosts \cup {Nobody},
                target : Uids \cup {Nobody}]

AddrTypes ==
    /\ addr \in [Gateways -> Hosts] /\ IsInjective(addr) /\ moves \in 0..MaxMoves
    /\ wire \in SUBSET (Gateways \X Hosts) /\ recent \in SUBSET Gateways

EntryTypes == DOMAIN entries \subseteq Uids /\ Range(entries) \subseteq Hosts

\* A flow that tries an address has one, a flow that is confirmed knows its gateway, and
\* a flow that reconfigures has an entry.
FlowTypes ==
    /\ flow \in [Flows -> FlowRecords]
    /\ \A f \in Flows :
          /\ flow[f].at \in {"probing", "confirm", "typed", "moving"} => flow[f].host \in Hosts
          /\ flow[f].at = "confirm" \/ flow[f].at = "probing" => flow[f].uid \in Gateways
          /\ flow[f].at = "moving" \/ flow[f].at = "move" => flow[f].target # Nobody
          /\ flow[f].target # Nobody => Configured(flow[f].target)

FoundTypes ==
    \A f \in Users : DOMAIN found[f] \subseteq Gateways /\ Range(found[f]) \subseteq Hosts

TypeInv == AddrTypes /\ EntryTypes /\ FlowTypes /\ FoundTypes

LEMMA EmptyTyped == DOMAIN <<>> = {} /\ Range(<<>>) = {}
BY SMT DEF Range

LEMMA WithTyped ==
    ASSUME NEW D, NEW R, NEW fn, DOMAIN fn \subseteq D, Range(fn) \subseteq R,
           NEW k \in D, NEW v \in R
    PROVE  DOMAIN With(fn, k, v) = DOMAIN fn \cup {k} /\ Range(With(fn, k, v)) \subseteq R
BY Zenon DEF With, Range

LEMMA UpdateTyped ==
    ASSUME NEW R, NEW fn, Range(fn) \subseteq R, NEW k, NEW v \in R
    PROVE  DOMAIN [fn EXCEPT ![k] = v] = DOMAIN fn /\ Range([fn EXCEPT ![k] = v]) \subseteq R
BY Zenon DEF Range

LEMMA NoFlowTyped ==
    /\ NoFlow \in FlowRecords
    /\ NoFlow.at = "none" /\ NoFlow.uid = Nobody /\ NoFlow.target = Nobody
<1>1. NoFlow \in FlowRecords
  BY Zenon DEF NoFlow, FlowRecords, Ats
<1>2. NoFlow.at = "none" /\ NoFlow.uid = Nobody /\ NoFlow.target = Nobody
  BY SMT DEF NoFlow
<1> QED
  BY <1>1, <1>2

LEMMA AtTyped ==
    ASSUME NEW r \in FlowRecords, NEW at \in Ats
    PROVE  /\ [r EXCEPT !.at = at] \in FlowRecords
           /\ [r EXCEPT !.at = at].at = at
           /\ [r EXCEPT !.at = at].uid = r.uid
           /\ [r EXCEPT !.at = at].host = r.host
           /\ [r EXCEPT !.at = at].target = r.target
BY Zenon DEF FlowRecords

LEMMA AtTargetTyped ==
    ASSUME NEW r \in FlowRecords, NEW at \in Ats, NEW u \in Uids
    PROVE  /\ [r EXCEPT !.at = at, !.target = u] \in FlowRecords
           /\ [r EXCEPT !.at = at, !.target = u].at = at
           /\ [r EXCEPT !.at = at, !.target = u].uid = r.uid
           /\ [r EXCEPT !.at = at, !.target = u].target = u
BY Zenon DEF FlowRecords

\* A flow that goes on, with an entry if it reconfigures one.
FlowFits(fl) ==
    /\ fl \in FlowRecords
    /\ fl.at \in {"probing", "confirm", "typed", "moving"} => fl.host \in Hosts
    /\ fl.at = "confirm" \/ fl.at = "probing" => fl.uid \in Gateways
    /\ fl.at = "moving" \/ fl.at = "move" => fl.target # Nobody

LEMMA GotoTyped ==
    ASSUME FlowTypes, NEW f \in Flows, NEW fl, FlowFits(fl), Goto(f, fl),
           fl.target # Nobody => fl.target \in DOMAIN entries',
           DOMAIN entries \subseteq DOMAIN entries'
    PROVE  FlowTypes'
<1>1. flow' \in [Flows -> FlowRecords]
  BY Zenon DEF Goto, FlowTypes, FlowFits
<1>2. ASSUME NEW o \in Flows
      PROVE  (flow'[o] = fl /\ o = f) \/ flow'[o] = flow[o]
  BY Zenon DEF Goto, FlowTypes
<1> QED
  BY <1>1, <1>2, Zenon DEF FlowTypes, FlowFits, Configured

LEMMA AbortTyped ==
    ASSUME FlowTypes, NEW f \in Flows, Abort(f), DOMAIN entries \subseteq DOMAIN entries'
    PROVE  FlowTypes'
<1>1. FlowFits(NoFlow) /\ NoFlow.target = Nobody
  BY NoFlowTyped, SMT DEF FlowFits
<1> QED
  BY <1>1, GotoTyped, Zenon DEF Abort

LEMMA SetHostTyped ==
    ASSUME EntryTypes, NEW u, NEW h \in Hosts, SetHost(u, h)
    PROVE  EntryTypes' /\ DOMAIN entries' = DOMAIN entries
BY UpdateTyped, Zenon DEF EntryTypes, SetHost

LEMMA CreateTyped ==
    ASSUME EntryTypes, FlowTypes, NEW f \in Flows, NEW u \in Uids, NEW h \in Hosts,
           Create(f, u, h)
    PROVE  EntryTypes' /\ FlowTypes'
<1>1. EntryTypes' /\ DOMAIN entries \subseteq DOMAIN entries'
  <2>1. entries' = With(entries, u, h)
    BY Zenon DEF Create
  <2>2. /\ DOMAIN With(entries, u, h) = DOMAIN entries \cup {u}
        /\ Range(With(entries, u, h)) \subseteq Hosts
    BY WithTyped, Zenon DEF EntryTypes
  <2> QED
    BY <2>1, <2>2, Zenon DEF EntryTypes
<1>2. flow' = [o \in Flows |-> IF o = f \/ flow[o].uid = u THEN NoFlow ELSE flow[o]]
  BY Zenon DEF Create
<1>3. ASSUME NEW o \in Flows
      PROVE  flow'[o] = NoFlow \/ flow'[o] = flow[o]
  BY <1>2, Zenon
<1>4. flow' \in [Flows -> FlowRecords]
  BY <1>2, NoFlowTyped, Zenon DEF FlowTypes
<1>5. /\ NoFlow.at \notin {"probing", "confirm", "typed", "moving", "move"}
      /\ NoFlow.target = Nobody
  BY NoFlowTyped, SMT
<1> QED
  BY <1>1, <1>3, <1>4, <1>5, Zenon DEF FlowTypes, Configured

LEMMA PrepareTyped ==
    ASSUME EntryTypes, FlowTypes, NEW f \in Flows, NEW g \in Gateways, NEW h \in Hosts,
           Prepare(f, g, h)
    PROVE  EntryTypes' /\ FlowTypes' /\ DOMAIN entries' = DOMAIN entries
<1>1. CASE Abort(f) /\ SetHost(g, h)
  BY <1>1, SetHostTyped, AbortTyped, Zenon
<1>2. CASE Abort(f) /\ UNCHANGED entries
  BY <1>2, AbortTyped, Zenon DEF EntryTypes
<1>3. ASSUME NEW fl, fl = [NoFlow EXCEPT !.at = "probing", !.uid = g, !.host = h],
             Goto(f, fl), UNCHANGED entries
      PROVE  EntryTypes' /\ FlowTypes' /\ DOMAIN entries' = DOMAIN entries
  <2>1. "probing" \in Ats
    BY DEF Ats
  <2>2. /\ fl \in FlowRecords
        /\ fl.at = "probing" /\ fl.uid = g /\ fl.host = h /\ fl.target = Nobody
    <3>1. fl \in FlowRecords
      BY <1>3, <2>1, NoFlowTyped, Zenon DEF FlowRecords
    <3>2. fl.at = "probing" /\ fl.uid = g /\ fl.host = h /\ fl.target = NoFlow.target
      BY <1>3, NoFlowTyped, SMT DEF FlowRecords
    <3> QED
      BY <3>1, <3>2, NoFlowTyped
  <2>3. FlowFits(fl)
    BY <2>2, SMT DEF FlowFits
  <2> QED
    BY <1>3, <2>2, <2>3, GotoTyped, Zenon DEF EntryTypes
<1> QED
  BY <1>1, <1>2, <1>3, Zenon DEF Prepare

LEMMA StartTyped ==
    ASSUME EntryTypes, FlowTypes, NEW g \in Gateways, NEW h \in Hosts, StartFlow(g, h)
    PROVE  EntryTypes' /\ FlowTypes'
<1>1. {g} \X {1, 2} \subseteq Flows
  BY SMT DEF Flows
<1> QED
  BY <1>1, PrepareTyped, Zenon DEF StartFlow

LEMMA TypeInit == Init => TypeInv
<1> SUFFICES ASSUME Init PROVE TypeInv
  OBVIOUS
<1>1. AddrTypes
  BY MovesAssumption, SMT DEF Init, AddrTypes
<1>2. EntryTypes /\ FoundTypes
  BY EmptyTyped, Zenon DEF Init, EntryTypes, FoundTypes
<1>3. /\ NoFlow.at \notin {"probing", "confirm", "typed", "moving", "move"}
      /\ NoFlow.target = Nobody
  BY NoFlowTyped, SMT
<1>4. FlowTypes
  BY <1>3, NoFlowTyped, Zenon DEF Init, FlowTypes
<1> QED
  BY <1>1, <1>2, <1>4 DEF TypeInv

\* A form or an await that leaves the entries alone.
LEMMA GoesOnTyped ==
    ASSUME FlowTypes, NEW f \in Flows, NEW fl, FlowFits(fl), Goto(f, fl), UNCHANGED entries,
           fl.target = Nobody \/ Configured(fl.target)
    PROVE  FlowTypes'
BY GotoTyped, Zenon DEF Configured

LEMMA TypeStep == TypeInv /\ [Next]_vars => TypeInv'
<1> SUFFICES ASSUME AddrTypes, EntryTypes, FlowTypes, FoundTypes, [Next]_vars
             PROVE  AddrTypes' /\ EntryTypes' /\ FlowTypes' /\ FoundTypes'
  BY DEF TypeInv
<1>0. /\ NoFlow \in FlowRecords /\ NoFlow.uid = Nobody /\ NoFlow.target = Nobody
      /\ \A f \in Flows : flow[f] \in FlowRecords
      /\ Range(addr) \subseteq Hosts
      /\ Users \subseteq Flows
  BY NoFlowTyped, Zenon DEF FlowTypes, AddrTypes, Range, Flows
<1>1. ASSUME NEW f \in Flows, ProbeFails(f)
      PROVE  AddrTypes' /\ EntryTypes' /\ FlowTypes' /\ FoundTypes'
  <2>1. AddrTypes' /\ EntryTypes' /\ FoundTypes' /\ UNCHANGED entries
    BY <1>1, Zenon DEF ProbeFails, AddrTypes, EntryTypes, FoundTypes
  <2>2. CASE Abort(f)
    BY <2>1, <2>2, AbortTyped, Zenon
  <2>3. CASE Goto(f, [NoFlow EXCEPT !.at = "form"])
    <3> DEFINE fl == [NoFlow EXCEPT !.at = "form"]
    <3>1. fl \in FlowRecords /\ fl.at = "form" /\ fl.target = Nobody
      BY <1>0, AtTyped, Zenon DEF Ats
    <3>2. Goto(f, fl)
      BY <2>3
    <3> HIDE DEF fl
    <3>3. FlowFits(fl)
      BY <3>1, SMT DEF FlowFits
    <3> QED
      BY <2>1, <3>1, <3>2, <3>3, GoesOnTyped, Zenon
  <2>4. CASE flow[f].at = "moving" /\ Goto(f, [flow[f] EXCEPT !.at = "move"])
    <3> DEFINE fl == [flow[f] EXCEPT !.at = "move"]
    <3>1. fl \in FlowRecords /\ fl.at = "move" /\ fl.target = flow[f].target
      BY <1>0, AtTyped, Zenon DEF Ats
    <3>2. flow[f].target # Nobody /\ Configured(flow[f].target) /\ Goto(f, fl)
      BY <2>4, Zenon DEF FlowTypes
    <3> HIDE DEF fl
    <3>3. FlowFits(fl)
      BY <3>1, <3>2, SMT DEF FlowFits
    <3> QED
      BY <2>1, <3>1, <3>2, <3>3, GoesOnTyped, Zenon
  <2> QED
    BY <1>1, <2>1, <2>2, <2>3, <2>4, Zenon DEF ProbeFails
<1>2. ASSUME NEW f \in Flows, Probed(f)
      PROVE  AddrTypes' /\ EntryTypes' /\ FlowTypes' /\ FoundTypes'
  <2>1. AddrTypes' /\ EntryTypes' /\ FoundTypes' /\ UNCHANGED entries
    BY <1>2, Zenon DEF Probed, AddrTypes, EntryTypes, FoundTypes
  <2> DEFINE fl == [flow[f] EXCEPT !.at = "confirm"]
  <2>2. /\ fl \in FlowRecords /\ fl.at = "confirm" /\ fl.uid = flow[f].uid
        /\ fl.host = flow[f].host /\ fl.target = flow[f].target
    BY <1>0, AtTyped, Zenon DEF Ats
  <2>3. /\ Goto(f, fl) /\ flow[f].host \in Hosts /\ flow[f].uid \in Gateways
        /\ flow[f].target = Nobody \/ Configured(flow[f].target)
    BY <1>2, Zenon DEF Probed, FlowTypes
  <2> HIDE DEF fl
  <2>4. FlowFits(fl) /\ (fl.target = Nobody \/ Configured(fl.target))
    BY <2>2, <2>3, SMT DEF FlowFits
  <2>5. FlowTypes'
    BY <2>1, <2>3, <2>4, GoesOnTyped, Zenon
  <2> QED
    BY <2>1, <2>5
<1>3. ASSUME NEW f \in Flows, Confirm(f)
      PROVE  AddrTypes' /\ EntryTypes' /\ FlowTypes' /\ FoundTypes'
  <2>1. /\ flow[f].uid \in Uids /\ flow[f].host \in Hosts
        /\ Create(f, flow[f].uid, flow[f].host)
    BY <1>3, Zenon DEF Confirm, FlowTypes, Uids
  <2>2. EntryTypes' /\ FlowTypes'
    BY <2>1, CreateTyped, Zenon
  <2> QED
    BY <1>3, <2>2, Zenon DEF Confirm, AddrTypes, FoundTypes
<1>4. ASSUME NEW f \in Users, OpenForm(f)
      PROVE  AddrTypes' /\ EntryTypes' /\ FlowTypes' /\ FoundTypes'
  <2>1. AddrTypes' /\ EntryTypes' /\ FoundTypes' /\ UNCHANGED entries
    BY <1>4, Zenon DEF OpenForm, AddrTypes, EntryTypes, FoundTypes
  <2> DEFINE fl == [NoFlow EXCEPT !.at = "scan"]
  <2>2. fl \in FlowRecords /\ fl.at = "scan" /\ fl.target = Nobody
    BY <1>0, AtTyped, Zenon DEF Ats
  <2>3. Goto(f, fl)
    BY <1>4, Zenon DEF OpenForm
  <2> HIDE DEF fl
  <2>4. FlowFits(fl)
    BY <2>2, SMT DEF FlowFits
  <2>5. FlowTypes'
    BY <1>0, <2>1, <2>2, <2>3, <2>4, GoesOnTyped, Zenon
  <2> QED
    BY <2>1, <2>5
<1>5. ASSUME NEW f \in Users, ScanEnds(f)
      PROVE  AddrTypes' /\ EntryTypes' /\ FlowTypes' /\ FoundTypes'
  <2>1. AddrTypes' /\ EntryTypes' /\ FoundTypes' /\ UNCHANGED entries
    BY <1>5, Zenon DEF ScanEnds, AddrTypes, EntryTypes, FoundTypes
  <2>2. PICK at \in {"form", "pick"} : Goto(f, [flow[f] EXCEPT !.at = at])
    BY <1>5, Zenon DEF ScanEnds
  <2> DEFINE fl == [flow[f] EXCEPT !.at = at]
  <2>3. fl \in FlowRecords /\ fl.at = at /\ fl.target = flow[f].target
    <3>1. at \in Ats
      BY Zenon DEF Ats
    <3> QED
      BY <1>0, <3>1, AtTyped, Zenon
  <2>4. Goto(f, fl) /\ (flow[f].target = Nobody \/ Configured(flow[f].target))
    BY <1>0, <2>2, Zenon DEF FlowTypes
  <2> HIDE DEF fl
  <2>5. FlowFits(fl)
    BY <2>2, <2>3, SMT DEF FlowFits
  <2>6. FlowTypes'
    BY <1>0, <2>1, <2>3, <2>4, <2>5, GoesOnTyped, Zenon
  <2> QED
    BY <2>1, <2>6
<1>6. ASSUME NEW f \in Users, Pick(f)
      PROVE  AddrTypes' /\ EntryTypes' /\ FlowTypes' /\ FoundTypes'
  <2>1. AddrTypes' /\ FoundTypes'
    BY <1>6, EmptyTyped, Zenon DEF Pick, Forget, AddrTypes, FoundTypes
  <2>2. ASSUME NEW g \in DOMAIN found[f], Prepare(f, g, found[f][g])
        PROVE  EntryTypes' /\ FlowTypes'
    <3>1. g \in Gateways /\ found[f][g] \in Hosts
      BY Zenon DEF FoundTypes, Range
    <3> QED
      BY <1>0, <2>2, <3>1, PrepareTyped, Zenon
  <2>3. ASSUME Goto(f, [NoFlow EXCEPT !.at = "form"]), UNCHANGED entries
        PROVE  EntryTypes' /\ FlowTypes'
    <3> DEFINE fl == [NoFlow EXCEPT !.at = "form"]
    <3>1. fl \in FlowRecords /\ fl.at = "form" /\ fl.target = Nobody
      BY <1>0, AtTyped, Zenon DEF Ats
    <3>2. Goto(f, fl)
      BY <2>3
    <3> HIDE DEF fl
    <3>3. FlowFits(fl)
      BY <3>1, SMT DEF FlowFits
    <3> QED
      BY <1>0, <2>3, <3>1, <3>2, <3>3, GoesOnTyped, Zenon DEF EntryTypes
  <2> QED
    BY <1>6, <2>1, <2>2, <2>3, Zenon DEF Pick
<1>7. ASSUME NEW f \in Users, TypeAddress(f)
      PROVE  AddrTypes' /\ EntryTypes' /\ FlowTypes' /\ FoundTypes'
  <2>1. AddrTypes' /\ EntryTypes' /\ FoundTypes' /\ UNCHANGED entries
    BY <1>7, Zenon DEF TypeAddress, AddrTypes, EntryTypes, FoundTypes
  <2>2. PICK h \in Hosts : Goto(f, [NoFlow EXCEPT !.at = "typed", !.host = h])
    BY <1>7, Zenon DEF TypeAddress
  <2> DEFINE fl == [NoFlow EXCEPT !.at = "typed", !.host = h]
  <2>3. fl \in FlowRecords /\ fl.at = "typed" /\ fl.host = h /\ fl.target = Nobody
    <3>1. fl \in FlowRecords
      BY <1>0, Zenon DEF FlowRecords, Ats
    <3> QED
      BY <1>0, <3>1, SMT DEF FlowRecords
  <2>4. Goto(f, fl)
    BY <2>2
  <2> HIDE DEF fl
  <2>5. FlowFits(fl)
    BY <2>3, SMT DEF FlowFits
  <2>6. FlowTypes'
    BY <1>0, <2>1, <2>3, <2>4, <2>5, GoesOnTyped, Zenon
  <2> QED
    BY <2>1, <2>6
<1>8. ASSUME NEW f \in Flows, TypedProbed(f)
      PROVE  AddrTypes' /\ EntryTypes' /\ FlowTypes' /\ FoundTypes'
  <2> DEFINE h == flow[f].host
  <2>1. h \in Hosts /\ h \in Uids
    BY <1>0, <1>8, Zenon DEF TypedProbed, Uids
  <2>2. ASSUME Abort(f), UNCHANGED entries
        PROVE  EntryTypes' /\ FlowTypes'
    BY <2>2, AbortTyped, Zenon DEF EntryTypes
  <2>3. ASSUME Abort(f), SetHost(h, h)
        PROVE  EntryTypes' /\ FlowTypes'
    BY <2>1, <2>3, AbortTyped, SetHostTyped, Zenon
  <2>4. ASSUME Create(f, h, h)
        PROVE  EntryTypes' /\ FlowTypes'
    BY <2>1, <2>4, CreateTyped, Zenon
  <2>5. EntryTypes' /\ FlowTypes'
    BY <1>8, <2>2, <2>3, <2>4, Zenon DEF TypedProbed
  <2> QED
    BY <1>8, <2>5, Zenon DEF TypedProbed, AddrTypes, FoundTypes
<1>9. ASSUME NEW f \in Users, OpenReconfigure(f)
      PROVE  AddrTypes' /\ EntryTypes' /\ FlowTypes' /\ FoundTypes'
  <2>1. AddrTypes' /\ EntryTypes' /\ FoundTypes' /\ UNCHANGED entries
    BY <1>9, Zenon DEF OpenReconfigure, AddrTypes, EntryTypes, FoundTypes
  <2>2. PICK u \in DOMAIN entries : Goto(f, [NoFlow EXCEPT !.at = "move", !.target = u])
    BY <1>9, Zenon DEF OpenReconfigure
  <2> DEFINE fl == [NoFlow EXCEPT !.at = "move", !.target = u]
  <2>3. u \in Uids /\ u # Nobody /\ Configured(u)
    BY UidsAssumption, Zenon DEF EntryTypes, Uids, Configured
  <2>4. fl \in FlowRecords /\ fl.at = "move" /\ fl.target = u
    BY <1>0, <2>3, AtTargetTyped, Zenon DEF Ats
  <2>5. Goto(f, fl)
    BY <2>2
  <2> HIDE DEF fl
  <2>6. FlowFits(fl)
    BY <2>3, <2>4, SMT DEF FlowFits
  <2>7. FlowTypes'
    BY <1>0, <2>1, <2>3, <2>4, <2>5, <2>6, GoesOnTyped, Zenon
  <2> QED
    BY <2>1, <2>7
<1>10. ASSUME NEW f \in Users, TypeMove(f)
      PROVE  AddrTypes' /\ EntryTypes' /\ FlowTypes' /\ FoundTypes'
  <2>1. AddrTypes' /\ EntryTypes' /\ FoundTypes' /\ UNCHANGED entries
    BY <1>10, Zenon DEF TypeMove, AddrTypes, EntryTypes, FoundTypes
  <2>2. PICK h \in Hosts : Goto(f, [flow[f] EXCEPT !.at = "moving", !.host = h])
    BY <1>10, Zenon DEF TypeMove
  <2> DEFINE fl == [flow[f] EXCEPT !.at = "moving", !.host = h]
  <2>3. /\ fl \in FlowRecords /\ fl.at = "moving" /\ fl.host = h
        /\ fl.target = flow[f].target
    <3>1. fl \in FlowRecords
      BY <1>0, Zenon DEF FlowRecords, Ats
    <3> QED
      BY <1>0, <3>1, SMT DEF FlowRecords
  <2>4. Goto(f, fl) /\ flow[f].target # Nobody /\ Configured(flow[f].target)
    BY <1>0, <1>10, <2>2, Zenon DEF TypeMove, FlowTypes
  <2> HIDE DEF fl
  <2>5. FlowFits(fl)
    BY <2>3, <2>4, SMT DEF FlowFits
  <2>6. FlowTypes'
    BY <1>0, <2>1, <2>3, <2>4, <2>5, GoesOnTyped, Zenon
  <2> QED
    BY <2>1, <2>6
<1>11. ASSUME NEW f \in Flows, Moved(f)
      PROVE  AddrTypes' /\ EntryTypes' /\ FlowTypes' /\ FoundTypes'
  <2> DEFINE h == flow[f].host
  <2>1. h \in Hosts /\ Abort(f)
    BY <1>0, <1>11, Zenon DEF Moved
  <2>2. EntryTypes' /\ DOMAIN entries' = DOMAIN entries
    BY <1>11, <2>1, SetHostTyped, Zenon DEF Moved, EntryTypes
  <2>3. FlowTypes'
    BY <2>1, <2>2, AbortTyped, Zenon
  <2> QED
    BY <1>11, <2>2, <2>3, Zenon DEF Moved, AddrTypes, FoundTypes
<1>12. ASSUME NEW f \in Flows, CloseForm(f)
      PROVE  AddrTypes' /\ EntryTypes' /\ FlowTypes' /\ FoundTypes'
  <2>1. AddrTypes' /\ EntryTypes' /\ FoundTypes'
    BY <1>12, EmptyTyped, Zenon DEF CloseForm, Forget, AddrTypes, EntryTypes, FoundTypes
  <2>2. FlowTypes'
    BY <1>12, AbortTyped, Zenon DEF CloseForm
  <2> QED
    BY <2>1, <2>2
<1>13. ASSUME NEW u \in Uids, RemoveEntry(u)
      PROVE  AddrTypes' /\ EntryTypes' /\ FlowTypes' /\ FoundTypes'
  <2>1. entries' = [v \in DOMAIN entries \ {u} |-> entries[v]]
    BY <1>13, Zenon DEF RemoveEntry
  <2>2. EntryTypes' /\ DOMAIN entries' = DOMAIN entries \ {u}
    BY <2>1, Zenon DEF EntryTypes, Range
  <2>3. flow' = [o \in Flows |-> IF flow[o].target = u THEN NoFlow ELSE flow[o]]
    BY <1>13, Zenon DEF RemoveEntry
  <2>4. flow' \in [Flows -> FlowRecords]
    BY <1>0, <2>3, Zenon
  <2>5. /\ NoFlow.at \notin {"probing", "confirm", "typed", "moving", "move"}
        /\ NoFlow.target = Nobody
    BY NoFlowTyped, SMT
  <2>6. FlowTypes'
    BY <2>2, <2>3, <2>4, <2>5, Zenon DEF FlowTypes, Configured
  <2> QED
    BY <1>13, <2>2, <2>6, Zenon DEF RemoveEntry, AddrTypes, FoundTypes
<1>14. ASSUME NEW g \in Gateways, Dhcp(g)
      PROVE  AddrTypes' /\ EntryTypes' /\ FlowTypes' /\ FoundTypes'
  <2>1. addr[g] \in Hosts /\ StartFlow(g, addr[g])
    BY <1>14, Zenon DEF Dhcp, AddrTypes
  <2>2. EntryTypes' /\ FlowTypes'
    BY <2>1, StartTyped, Zenon
  <2> QED
    BY <1>14, <2>2, Zenon DEF Dhcp, AddrTypes, FoundTypes
<1>15. ASSUME NEW g \in Gateways, Announce(g)
      PROVE  AddrTypes' /\ EntryTypes' /\ FlowTypes' /\ FoundTypes'
  <2>1. AddrTypes'
    BY <1>15, SMT DEF Announce, AddrTypes
  <2> QED
    BY <1>15, <2>1, Zenon DEF Announce, EntryTypes, FlowTypes, FoundTypes, Configured
<1>16. CASE Move
  <2>1. AddrTypes'
    BY <1>16, MovesAssumption, SMT DEF Move, AddrTypes
  <2> QED
    BY <1>16, <2>1, Zenon DEF Move, EntryTypes, FlowTypes, FoundTypes, Configured
<1>17. ASSUME NEW g \in Gateways, NEW h \in Hosts, Receive(g, h)
      PROVE  AddrTypes' /\ EntryTypes' /\ FlowTypes' /\ FoundTypes'
  <2>1. AddrTypes'
    BY <1>17, Zenon DEF Receive, AddrTypes
  <2>2. FoundTypes'
    <3> SUFFICES ASSUME NEW f \in Users
                 PROVE  /\ DOMAIN found'[f] \subseteq Gateways
                        /\ Range(found'[f]) \subseteq Hosts
      BY Zenon DEF FoundTypes
    <3>1. found'[f] = With(found[f], g, h) \/ found'[f] = found[f]
      BY <1>17, Zenon DEF Receive, Collect
    <3>2. DOMAIN found[f] \subseteq Gateways /\ Range(found[f]) \subseteq Hosts
      BY Zenon DEF FoundTypes
    <3>3. /\ DOMAIN With(found[f], g, h) = DOMAIN found[f] \cup {g}
          /\ Range(With(found[f], g, h)) \subseteq Hosts
      BY <3>2, WithTyped, Zenon
    <3> QED
      BY <3>1, <3>2, <3>3, Zenon
  <2>3. ASSUME UNCHANGED <<entries, flow>>
        PROVE  EntryTypes' /\ FlowTypes'
    BY <2>3, Zenon DEF EntryTypes, FlowTypes, Configured
  <2>4. ASSUME SetHost(g, h), UNCHANGED flow
        PROVE  EntryTypes' /\ FlowTypes'
    BY <2>4, SetHostTyped, Zenon DEF FlowTypes, Configured
  <2>5. ASSUME StartFlow(g, h)
        PROVE  EntryTypes' /\ FlowTypes'
    BY <2>5, StartTyped, Zenon
  <2> QED
    BY <1>17, <2>1, <2>2, <2>3, <2>4, <2>5, Zenon DEF Receive, HandleBeacon
<1>18. ASSUME NEW g \in Gateways, Expire(g)
      PROVE  AddrTypes' /\ EntryTypes' /\ FlowTypes' /\ FoundTypes'
  BY <1>18, Zenon DEF Expire, AddrTypes, EntryTypes, FlowTypes, FoundTypes, Configured
<1>19. CASE UNCHANGED vars
  BY <1>19, Zenon DEF vars, AddrTypes, EntryTypes, FlowTypes, FoundTypes, Configured
<1> QED
  BY <1>1, <1>2, <1>3, <1>4, <1>5, <1>6, <1>7, <1>8, <1>9, <1>10, <1>11, <1>12, <1>13,
     <1>14, <1>15, <1>16, <1>17, <1>18, <1>19, Zenon DEF Next, ProbeEnds

LEMMA TypeInvIsEnough == TypeInv => TypeOK
BY Zenon DEF TypeInv, AddrTypes, EntryTypes, FlowTypes, FoundTypes, FlowRecords, TypeOK

\* Every variable keeps its type, and a flow that reconfigures an entry never outlives it.
THEOREM TypeCorrect == Spec => []TypeOK
<1>1. Spec => []TypeInv
  BY TypeInit, TypeStep, PTL DEF Spec
<1> QED
  BY <1>1, TypeInvIsEnough, PTL

-----------------------------------------------------------------------------
(* One flow at a time.                                                     *)

\* Flows for one gateway are one flow, and there is none for a gateway with an entry.
Sole ==
    /\ \A f, o \in Flows : flow[f].uid \in Gateways /\ flow[o].uid = flow[f].uid => f = o
    /\ \A f \in Flows : flow[f].uid \in Gateways => ~Configured(flow[f].uid)

\* A flow that keeps its unique id, gives it up, or takes one that is free.
LEMMA GotoSole ==
    ASSUME FlowTypes, Sole, NEW f \in Flows, NEW fl, Goto(f, fl),
           DOMAIN entries' = DOMAIN entries,
           \/ fl.uid \in {Nobody, flow[f].uid}
           \/ ~Configured(fl.uid) /\ ~InProgress(fl.uid, f)
    PROVE  Sole'
<1>1. \A o \in Flows : flow'[o] = IF o = f THEN fl ELSE flow[o]
  BY Zenon DEF Goto, FlowTypes
<1>2. Nobody \notin Gateways
  BY UidsAssumption, Zenon
<1> QED
  BY <1>1, <1>2, Zenon DEF Sole, InProgress, Configured

LEMMA AbortSole ==
    ASSUME FlowTypes, Sole, NEW f \in Flows, Abort(f), DOMAIN entries' = DOMAIN entries
    PROVE  Sole'
BY GotoSole, NoFlowTyped, Zenon DEF Abort

LEMMA CreateSole ==
    ASSUME Sole, NEW f \in Flows, NEW u, NEW h, Create(f, u, h)
    PROVE  Sole'
<1>1. \A o \in Flows : flow'[o] = IF o = f \/ flow[o].uid = u THEN NoFlow ELSE flow[o]
  BY Zenon DEF Create
<1>2. DOMAIN entries' = DOMAIN entries \cup {u}
  BY Zenon DEF Create, With
<1>3. NoFlow.uid \notin Gateways
  BY UidsAssumption, NoFlowTyped, Zenon
<1> QED
  BY <1>1, <1>2, <1>3, Zenon DEF Sole, Configured

LEMMA PrepareSole ==
    ASSUME EntryTypes, FlowTypes, Sole, NEW f \in Flows, NEW g \in Gateways, NEW h \in Hosts,
           Prepare(f, g, h)
    PROVE  Sole'
<1>1. DOMAIN entries' = DOMAIN entries
  BY PrepareTyped, Zenon
<1>2. CASE Abort(f)
  BY <1>1, <1>2, AbortSole, Zenon
<1>3. ASSUME NEW fl, fl = [NoFlow EXCEPT !.at = "probing", !.uid = g, !.host = h],
             Goto(f, fl), ~InProgress(g, f), ~Configured(g)
      PROVE  Sole'
  <2>1. fl.uid = g
    BY <1>3, NoFlowTyped, SMT DEF FlowRecords
  <2> QED
    BY <1>1, <1>3, <2>1, GotoSole, Zenon
<1> QED
  BY <1>2, <1>3, Zenon DEF Prepare

LEMMA SoleStep == TypeInv /\ Sole /\ [Next]_vars => Sole'
<1> SUFFICES ASSUME AddrTypes, EntryTypes, FlowTypes, FoundTypes, Sole, [Next]_vars
             PROVE  Sole'
  BY DEF TypeInv
<1>0. /\ NoFlow \in FlowRecords /\ NoFlow.uid = Nobody
      /\ \A f \in Flows : flow[f] \in FlowRecords
      /\ Range(addr) \subseteq Hosts
      /\ Users \subseteq Flows
  BY NoFlowTyped, Zenon DEF FlowTypes, AddrTypes, Range, Flows
\* A step to a form or an await keeps the unique id or starts from none.
<1>1. ASSUME NEW f \in Flows, UNCHANGED entries, NEW r \in {NoFlow, flow[f]},
             NEW at \in Ats,
             \/ Goto(f, [r EXCEPT !.at = at])
             \/ \E h \in Hosts : Goto(f, [r EXCEPT !.at = at, !.host = h])
             \/ \E u \in Uids : Goto(f, [r EXCEPT !.at = at, !.target = u])
      PROVE  Sole'
  <2>1. r \in FlowRecords /\ r.uid \in {Nobody, flow[f].uid}
    BY <1>0, Zenon
  <2>2. PICK fl : /\ Goto(f, fl)
                  /\ \/ fl = [r EXCEPT !.at = at]
                     \/ \E h \in Hosts : fl = [r EXCEPT !.at = at, !.host = h]
                     \/ \E u \in Uids : fl = [r EXCEPT !.at = at, !.target = u]
    BY <1>1, Zenon
  <2>3. CASE fl = [r EXCEPT !.at = at]
    BY <1>1, <2>1, <2>2, <2>3, AtTyped, GotoSole, Zenon
  <2>4. ASSUME NEW h \in Hosts, fl = [r EXCEPT !.at = at, !.host = h] PROVE fl.uid = r.uid
    BY <2>1, <2>4, SMT DEF FlowRecords
  <2>5. ASSUME NEW u \in Uids, fl = [r EXCEPT !.at = at, !.target = u] PROVE fl.uid = r.uid
    BY <2>1, <2>5, SMT DEF FlowRecords
  <2> QED
    BY <1>1, <2>1, <2>2, <2>3, <2>4, <2>5, GotoSole, Zenon
<1>2. \A at \in {"form", "move", "confirm", "scan", "pick", "typed", "moving"} : at \in Ats
  BY SMT DEF Ats
<1>3. ASSUME NEW f \in Flows, ProbeFails(f) PROVE Sole'
  BY <1>1, <1>2, <1>3, AbortSole, Zenon DEF ProbeFails
<1>4. ASSUME NEW f \in Flows, Probed(f) PROVE Sole'
  BY <1>1, <1>2, <1>4, Zenon DEF Probed
<1>5. ASSUME NEW f \in Flows, Confirm(f) PROVE Sole'
  BY <1>5, CreateSole, Zenon DEF Confirm
<1>6. ASSUME NEW f \in Users, OpenForm(f) PROVE Sole'
  BY <1>0, <1>1, <1>2, <1>6, Zenon DEF OpenForm
<1>7. ASSUME NEW f \in Users, ScanEnds(f) PROVE Sole'
  BY <1>0, <1>1, <1>2, <1>7, Zenon DEF ScanEnds
<1>8. ASSUME NEW f \in Users, Pick(f) PROVE Sole'
  <2>1. ASSUME NEW g \in DOMAIN found[f], Prepare(f, g, found[f][g]) PROVE Sole'
    <3>1. g \in Gateways /\ found[f][g] \in Hosts
      BY Zenon DEF FoundTypes, Range
    <3> QED
      BY <1>0, <2>1, <3>1, PrepareSole, Zenon
  <2> QED
    BY <1>0, <1>1, <1>2, <1>8, <2>1, Zenon DEF Pick
<1>9. ASSUME NEW f \in Users, TypeAddress(f) PROVE Sole'
  BY <1>0, <1>1, <1>2, <1>9, Zenon DEF TypeAddress
<1>10. ASSUME NEW f \in Flows, TypedProbed(f) PROVE Sole'
  BY <1>0, <1>10, AbortSole, CreateSole, SetHostTyped, Zenon DEF TypedProbed
<1>11. ASSUME NEW f \in Users, OpenReconfigure(f) PROVE Sole'
  BY <1>0, <1>1, <1>2, <1>11, Zenon DEF OpenReconfigure, EntryTypes
<1>12. ASSUME NEW f \in Users, TypeMove(f) PROVE Sole'
  BY <1>0, <1>1, <1>2, <1>12, Zenon DEF TypeMove
<1>13. ASSUME NEW f \in Flows, Moved(f) PROVE Sole'
  BY <1>0, <1>13, AbortSole, SetHostTyped, Zenon DEF Moved
<1>14. ASSUME NEW f \in Flows, CloseForm(f) PROVE Sole'
  BY <1>14, AbortSole, Zenon DEF CloseForm
<1>15. ASSUME NEW u \in Uids, RemoveEntry(u) PROVE Sole'
  <2>1. /\ \A o \in Flows : flow'[o] \in {NoFlow, flow[o]}
        /\ DOMAIN entries' \subseteq DOMAIN entries
    BY <1>15, Zenon DEF RemoveEntry
  <2> QED
    BY <1>0, <2>1, UidsAssumption, Zenon DEF Sole, Configured
<1>16. ASSUME NEW g \in Gateways, NEW h \in Hosts, StartFlow(g, h) PROVE Sole'
  <2>1. {g} \X {1, 2} \subseteq Flows
    BY SMT DEF Flows
  <2> QED
    BY <1>16, <2>1, PrepareSole, Zenon DEF StartFlow
<1>17. ASSUME NEW g \in Gateways, Dhcp(g) PROVE Sole'
  BY <1>16, <1>17, Zenon DEF Dhcp, AddrTypes
<1>18. ASSUME UNCHANGED <<entries, flow>> PROVE Sole'
  BY <1>18, Zenon DEF Sole, Configured
<1>19. ASSUME NEW g \in Gateways, NEW h \in Hosts, Receive(g, h) PROVE Sole'
  <2>1. ASSUME SetHost(g, h), UNCHANGED flow PROVE Sole'
    <3>1. DOMAIN entries' = DOMAIN entries
      BY <2>1, SetHostTyped, Zenon
    <3> QED
      BY <2>1, <3>1, Zenon DEF Sole, Configured
  <2> QED
    BY <1>16, <1>18, <1>19, <2>1, Zenon DEF Receive, HandleBeacon
<1>20. (\E g \in Gateways : Announce(g) \/ Expire(g)) \/ Move \/ UNCHANGED vars
       => UNCHANGED <<entries, flow>>
  BY Zenon DEF Announce, Expire, Move, vars
<1> QED
  BY <1>3, <1>4, <1>5, <1>6, <1>7, <1>8, <1>9, <1>10, <1>11, <1>12, <1>13, <1>14, <1>15,
     <1>17, <1>18, <1>19, <1>20, Zenon DEF Next, ProbeEnds

LEMMA SoleIsOne == TypeInv /\ Sole => OneFlowPerGateway
<1> SUFFICES ASSUME FlowTypes, Sole, NEW g \in Gateways
             PROVE  Cardinality({f \in Flows : flow[f].uid = g})
                      <= IF Configured(g) THEN 0 ELSE 1
  BY Zenon DEF TypeInv, OneFlowPerGateway
<1> DEFINE adding == {f \in Flows : flow[f].uid = g}
<1>1. CASE adding = {}
  <2>1. Cardinality(adding) = 0
    BY <1>1, FS_EmptySet, Zenon
  <2> QED
    BY <2>1, SMT
<1>2. ASSUME NEW f \in adding PROVE adding = {f} /\ ~Configured(g)
  BY <1>2, Zenon DEF Sole
<1>3. ASSUME NEW f \in adding
      PROVE  Cardinality(adding) = 1 /\ ~Configured(g)
  BY <1>2, FS_Singleton, Zenon
<1> HIDE DEF adding
<1>4. CASE adding # {}
  <2>1. Cardinality(adding) = 1 /\ ~Configured(g)
    BY <1>3, <1>4, Zenon
  <2> QED
    BY <2>1, SMT DEF adding
<1> QED
  BY <1>1, <1>4, Zenon

\* Beacons, leases and users may start flows in any order and at any time: a gateway has
\* at most one, and none once it has an entry.
THEOREM FlowsAreSole == Spec => []OneFlowPerGateway
<1>1. Init => Sole
  <2>1. NoFlow.uid \notin Gateways
    BY UidsAssumption, NoFlowTyped, Zenon
  <2> QED
    BY <2>1, Zenon DEF Init, Sole
<1>2. Spec => [](TypeInv /\ Sole)
  BY <1>1, TypeInit, TypeStep, SoleStep, PTL DEF Spec
<1> QED
  BY <1>2, SoleIsOne, PTL

-----------------------------------------------------------------------------
(* Scans.                                                                  *)

\* Only a receipt takes a beacon off the wire, and it tells every scan, debounced or not.
THEOREM ScansHearAll == Spec => ScanHearsAll
<1>1. ASSUME [Next]_vars, NEW g \in Gateways, NEW h \in Hosts, NEW f \in Users,
             <<g, h>> \in wire \ wire', Scanning(f)
      PROVE  g \in DOMAIN found'[f] /\ found'[f][g] = h
  <2>1. ASSUME wire \subseteq wire' PROVE FALSE
    BY <1>1, <2>1, Zenon
  <2>2. ASSUME NEW o \in Flows, ProbeEnds(o) \/ Confirm(o) \/ CloseForm(o) PROVE FALSE
    BY <2>1, <2>2, Zenon DEF ProbeEnds, ProbeFails, Probed, TypedProbed, Moved, Confirm,
                             CloseForm
  <2>3. ASSUME NEW o \in Users,
               \/ OpenForm(o) \/ ScanEnds(o) \/ Pick(o) \/ TypeAddress(o)
               \/ OpenReconfigure(o) \/ TypeMove(o)
        PROVE  FALSE
    BY <2>1, <2>3, Zenon DEF OpenForm, ScanEnds, Pick, TypeAddress, OpenReconfigure,
                             TypeMove
  <2>4. ASSUME NEW k \in Gateways, Dhcp(k) \/ Announce(k) \/ Expire(k) PROVE FALSE
    BY <2>1, <2>4, Zenon DEF Dhcp, Announce, Expire
  <2>5. ~Move /\ (\A u \in Uids : ~RemoveEntry(u)) /\ ~UNCHANGED vars
    BY <2>1, Zenon DEF Move, RemoveEntry, vars
  <2>6. PICK k \in Gateways, l \in Hosts : Receive(k, l)
    BY <1>1, <2>2, <2>3, <2>4, <2>5, Zenon DEF Next
  <2>7. k = g /\ l = h
    BY <1>1, <2>6, Zenon DEF Receive
  <2>8. found'[f] = With(found[f], g, h)
    BY <1>1, <2>6, <2>7, Zenon DEF Receive, Collect
  <2> QED
    BY <2>8, Zenon DEF With
<1>2. [Next]_vars
      => [\A g \in Gateways, h \in Hosts, f \in Users :
             <<g, h>> \in wire \ wire' /\ Scanning(f)
             => g \in DOMAIN found'[f] /\ found'[f][g] = h]_vars
  BY <1>1, Zenon
<1> QED
  BY <1>2, PTL DEF Spec, ScanHearsAll

=============================================================================
