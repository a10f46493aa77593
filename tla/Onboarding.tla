----------------------------- MODULE Onboarding -----------------------------
(***************************************************************************)
(* How gateways become config entries and how entries follow them: the     *)
(* multicast listener with its debounce and its scans, and the config flow *)
(* that is started by a beacon, by DHCP or by the user.                    *)
(*                                                                         *)
(* A unique id is a gateway (its MAC, in beacons and leases) or an address *)
(* (host and port, for entries typed by hand). Home Assistant keeps one    *)
(* entry per unique id and aborts a flow whose unique id another flow in   *)
(* progress has; the flow's steps between two forms or awaits are one      *)
(* action. All entries use the default port.                               *)
(***************************************************************************)
EXTENDS Integers, FiniteSets, Functions

CONSTANTS
    Gateways, Hosts,
    Users,          \* flows that users open
    Nobody,         \* no unique id
    MaxMoves        \* bound: changes of the gateways' addresses

ASSUME UidsAssumption ==
    Nobody \notin Gateways \cup Hosts /\ Gateways \cap Hosts = {}
ASSUME MovesAssumption == MaxMoves \in Nat

Uids == Gateways \cup Hosts
\* Two flows can be open for what a gateway sends, if the code lets them.
Flows == Users \cup Gateways \X {1, 2}

VARIABLES
    addr, moves,    \* where the gateways are
    wire,           \* beacons sent and not read yet
    recent,         \* gateways heard within the debounce time
    entries,        \* host of the entry with each unique id
    flow,           \* each flow
    found           \* what each user's scan has collected

vars == <<addr, moves, wire, recent, entries, flow, found>>

NoFlow == [at |-> "none", uid |-> Nobody, host |-> Nobody, target |-> Nobody]
Ats == {"none", "scan", "pick", "form", "typed", "probing", "confirm", "move", "moving"}

Init ==
    /\ addr \in {a \in [Gateways -> Hosts] : IsInjective(a)} /\ moves = 0
    /\ wire = {} /\ recent = {}
    /\ entries = <<>>
    /\ flow = [f \in Flows |-> NoFlow]
    /\ found = [f \in Users |-> <<>>]

Configured(u) == u \in DOMAIN entries
\* _host_port_taken: any entry with that address, whatever its unique id.
Taken(h) == \E u \in DOMAIN entries : entries[u] = h
InProgress(u, f) == \E o \in Flows \ {f} : flow[o].uid = u
With(fn, k, v) == [x \in DOMAIN fn \cup {k} |-> IF x = k THEN v ELSE fn[x]]

Goto(f, fl) == flow' = [flow EXCEPT ![f] = fl]
Abort(f) == Goto(f, NoFlow)
Forget(f) == found' = [o \in Users |-> IF o = f THEN <<>> ELSE found[o]]
\* A finished flow makes its entry and ends the others for the same gateway.
Create(f, u, h) ==
    /\ entries' = With(entries, u, h)
    /\ flow' = [o \in Flows |-> IF o = f \/ flow[o].uid = u THEN NoFlow ELSE flow[o]]
SetHost(u, h) == entries' = [entries EXCEPT ![u] = h]

-----------------------------------------------------------------------------
(* The config flow.                                                        *)

PrepareAnyway(f, g, h) ==                      \* mutant: flows are not deduplicated
    IF Configured(g)  THEN Abort(f) /\ SetHost(g, h)
    ELSE IF Taken(h)  THEN Abort(f) /\ UNCHANGED entries
    ELSE /\ Goto(f, [NoFlow EXCEPT !.at = "probing", !.uid = g, !.host = h])
         /\ UNCHANGED entries

\* _async_prepare_discovery down to the probe, for gateway g seen at host h.
Prepare(f, g, h) ==
    IF InProgress(g, f)     THEN Abort(f) /\ UNCHANGED entries
    ELSE IF Configured(g)   THEN Abort(f) /\ SetHost(g, h)
    ELSE IF Taken(h)        THEN Abort(f) /\ UNCHANGED entries
    ELSE /\ Goto(f, [NoFlow EXCEPT !.at = "probing", !.uid = g, !.host = h])
         /\ UNCHANGED entries

\* A discovery flow is started for gateway g.
StartFlow(g, h) ==
    \E f \in {g} \X {1, 2} : flow[f] = NoFlow /\ Prepare(f, g, h)

\* The probe failed: a discovery ends, a form is shown again with an error.
ProbeFails(f) ==
    /\ flow[f].at \in {"probing", "typed", "moving"}
    /\ \/ flow[f].at = "probing" /\ Abort(f)
       \/ flow[f].at = "typed" /\ Goto(f, [NoFlow EXCEPT !.at = "form"])
       \/ flow[f].at = "moving" /\ Goto(f, [flow[f] EXCEPT !.at = "move"])
    /\ UNCHANGED <<addr, moves, wire, recent, entries, found>>

\* A gateway answered the probe of a discovery: the user is asked to confirm.
Probed(f) ==
    /\ flow[f].at = "probing"
    /\ flow[f].host \in Range(addr)
    /\ Goto(f, [flow[f] EXCEPT !.at = "confirm"])
    /\ UNCHANGED <<addr, moves, wire, recent, entries, found>>

Confirm(f) ==
    /\ flow[f].at = "confirm"
    /\ Create(f, flow[f].uid, flow[f].host)
    /\ UNCHANGED <<addr, moves, wire, recent, found>>

\* The user adds a hub: the form waits for a scan.
OpenForm(f) ==
    /\ flow[f] = NoFlow
    /\ Goto(f, [NoFlow EXCEPT !.at = "scan"])
    /\ UNCHANGED <<addr, moves, wire, recent, entries, found>>

ScanEnds(f) ==
    /\ flow[f].at = "scan"
    /\ Goto(f, [flow[f] EXCEPT !.at = IF found[f] = <<>> THEN "form" ELSE "pick"])
    /\ UNCHANGED <<addr, moves, wire, recent, entries, found>>

\* The user picks a gateway of the scan, or wants to type the address.
Pick(f) ==
    /\ flow[f].at = "pick"
    /\ \/ \E g \in DOMAIN found[f] : Prepare(f, g, found[f][g])
       \/ Goto(f, [NoFlow EXCEPT !.at = "form"]) /\ UNCHANGED entries
    /\ Forget(f)
    /\ UNCHANGED <<addr, moves, wire, recent>>

TypeAddress(f) ==
    /\ flow[f].at = "form"
    /\ \E h \in Hosts : Goto(f, [NoFlow EXCEPT !.at = "typed", !.host = h])
    /\ UNCHANGED <<addr, moves, wire, recent, entries, found>>

TypedWithoutId(f) ==                           \* mutant: the entry gets no unique id
    LET h == flow[f].host IN
    /\ flow[f].at = "typed"
    /\ h \in Range(addr)
    /\ IF Taken(h) THEN Abort(f) /\ UNCHANGED entries ELSE Create(f, Nobody, h)
    /\ UNCHANGED <<addr, moves, wire, recent, found>>

\* The typed address answered. An entry that bears its unique id, which may be
\* elsewhere by now, is given the address; else a new one is made.
TypedProbed(f) ==
    LET h == flow[f].host IN
    /\ flow[f].at = "typed"
    /\ h \in Range(addr)
    /\ IF Taken(h)            THEN Abort(f) /\ UNCHANGED entries
       ELSE IF Configured(h)  THEN Abort(f) /\ SetHost(h, h)
       ELSE Create(f, h, h)
    /\ UNCHANGED <<addr, moves, wire, recent, found>>

\* The user reconfigures an entry.
OpenReconfigure(f) ==
    /\ flow[f] = NoFlow
    /\ \E u \in DOMAIN entries : Goto(f, [NoFlow EXCEPT !.at = "move", !.target = u])
    /\ UNCHANGED <<addr, moves, wire, recent, entries, found>>

TypeMove(f) ==
    /\ flow[f].at = "move"
    /\ \E h \in Hosts : Goto(f, [flow[f] EXCEPT !.at = "moving", !.host = h])
    /\ UNCHANGED <<addr, moves, wire, recent, entries, found>>

\* The new address answered: it is refused when an entry, were it the same, was
\* added under it by hand. The entry keeps its unique id.
Moved(f) ==
    LET h == flow[f].host IN
    /\ flow[f].at = "moving"
    /\ h \in Range(addr)
    /\ Abort(f)
    /\ IF Configured(h) THEN UNCHANGED entries ELSE SetHost(flow[f].target, h)
    /\ UNCHANGED <<addr, moves, wire, recent, found>>

\* The user closes a form (a scan goes on to its end).
CloseForm(f) ==
    /\ flow[f].at \in {"pick", "form", "confirm", "move"}
    /\ Abort(f) /\ Forget(f)
    /\ UNCHANGED <<addr, moves, wire, recent, entries>>

\* The user removes an entry, and with it the flow that reconfigures it.
RemoveEntry(u) ==
    /\ Configured(u)
    /\ entries' = [v \in DOMAIN entries \ {u} |-> entries[v]]
    /\ flow' = [o \in Flows |-> IF flow[o].target = u THEN NoFlow ELSE flow[o]]
    /\ UNCHANGED <<addr, moves, wire, recent, found>>

-----------------------------------------------------------------------------
(* Beacons and leases.                                                     *)

\* Home Assistant's DHCP watcher saw gateway g at its address.
Dhcp(g) ==
    /\ StartFlow(g, addr[g])
    /\ UNCHANGED <<addr, moves, wire, recent, found>>

\* A gateway announces itself again and again, at most one of its beacons is on
\* its way; a beacon that gets lost is none.
Announce(g) ==
    /\ \A h \in Hosts : <<g, h>> \notin wire
    /\ wire' = wire \cup {<<g, addr[g]>>}
    /\ UNCHANGED <<addr, moves, recent, entries, flow, found>>

\* The addresses are dealt out anew: gateways may exchange theirs.
Move ==
    /\ moves < MaxMoves
    /\ moves' = moves + 1
    /\ addr' \in {a \in [Gateways -> Hosts] : IsInjective(a)} \ {addr}
    /\ UNCHANGED <<wire, recent, entries, flow, found>>

Scanning(f) == flow[f].at = "scan"
Collect(g, h) ==
    found' = [f \in Users |-> IF Scanning(f) THEN With(found[f], g, h) ELSE found[f]]

HandleNewBeacon(g, h) ==                       \* mutant: no update, only new ones
    IF Configured(g) THEN UNCHANGED <<entries, flow>> ELSE StartFlow(g, h)

\* _async_handle_beacon.
HandleBeacon(g, h) ==
    IF Configured(g) THEN SetHost(g, h) /\ UNCHANGED flow ELSE StartFlow(g, h)

ReceiveDebounced(g, h) ==                      \* mutant: scans are debounced, too
    /\ <<g, h>> \in wire
    /\ wire' = wire \ {<<g, h>>}
    /\ recent' = recent \cup {g}
    /\ IF g \in recent THEN UNCHANGED <<entries, flow, found>>
                       ELSE Collect(g, h) /\ HandleBeacon(g, h)
    /\ UNCHANGED <<addr, moves>>

\* _dispatch_beacon: scans collect every beacon, all else happens to the first
\* of the debounce time only.
Receive(g, h) ==
    /\ <<g, h>> \in wire
    /\ wire' = wire \ {<<g, h>>}
    /\ Collect(g, h)
    /\ recent' = recent \cup {g}
    /\ IF g \in recent THEN UNCHANGED <<entries, flow>> ELSE HandleBeacon(g, h)
    /\ UNCHANGED <<addr, moves>>

ExpireNever(g) ==                              \* mutant: a gateway is new only once
    /\ g \in recent /\ Configured(g)
    /\ recent' = recent \ {g}
    /\ UNCHANGED <<addr, moves, wire, entries, flow, found>>

\* The debounce time since the last beacon that was handled is over.
Expire(g) ==
    /\ g \in recent
    /\ recent' = recent \ {g}
    /\ UNCHANGED <<addr, moves, wire, entries, flow, found>>

-----------------------------------------------------------------------------
ProbeEnds(f) == ProbeFails(f) \/ Probed(f) \/ TypedProbed(f) \/ Moved(f)

Next ==
    \/ \E f \in Flows : ProbeEnds(f) \/ Confirm(f) \/ CloseForm(f)
    \/ \E f \in Users : \/ OpenForm(f) \/ ScanEnds(f) \/ Pick(f) \/ TypeAddress(f)
                        \/ OpenReconfigure(f) \/ TypeMove(f)
    \/ \E u \in Uids : RemoveEntry(u)
    \/ Move \/ \E g \in Gateways : Dhcp(g) \/ Announce(g) \/ Expire(g)
    \/ \E g \in Gateways, h \in Hosts : Receive(g, h)

Spec == Init /\ [][Next]_vars

\* Time passes, gateways go on announcing themselves, and not all of a gateway's
\* beacons get lost; each probe ends. What users do is up to them.
Fairness ==
    /\ \A f \in Flows : WF_vars(ProbeEnds(f))
    /\ \A g \in Gateways :
          /\ WF_vars(Announce(g)) /\ WF_vars(Expire(g))
          /\ \A h \in Hosts : WF_vars(Receive(g, h))
FairSpec == Spec /\ Fairness

-----------------------------------------------------------------------------
(* Properties.                                                             *)

\* Types.
TypeOK ==
    /\ addr \in [Gateways -> Hosts] /\ IsInjective(addr) /\ moves \in 0..MaxMoves
    /\ wire \in SUBSET (Gateways \X Hosts) /\ recent \in SUBSET Gateways
    /\ DOMAIN entries \subseteq Uids /\ Range(entries) \subseteq Hosts
    /\ flow \in [Flows -> [at : Ats, uid : Gateways \cup {Nobody},
                           host : Hosts \cup {Nobody}, target : Uids \cup {Nobody}]]
    /\ \A f \in Users : DOMAIN found[f] \subseteq Gateways /\ Range(found[f]) \subseteq Hosts
    \* A flow that reconfigures has an entry to reconfigure.
    /\ \A f \in Flows : flow[f].target # Nobody => Configured(flow[f].target)

\* At most one flow at a time, whoever started it, is adding a gateway, and none
\* once the gateway has an entry (config_flow.py:205).
OneFlowPerGateway ==
    \A g \in Gateways :
        LET adding == {f \in Flows : flow[f].uid = g}
        IN  Cardinality(adding) <= IF Configured(g) THEN 0 ELSE 1

\* A scan lists each gateway that announced itself meanwhile, where it said it
\* was, even if its last beacon is still within the debounce time
\* (discovery.py:222).
ScanHearsAll ==
    [][\A g \in Gateways, h \in Hosts, f \in Users :
          <<g, h>> \in wire \ wire' /\ Scanning(f) => g \in DOMAIN found'[f] /\ found'[f][g] = h]_vars

\* An entry made from a beacon or a lease follows the gateway to its new address,
\* though beacons get lost, come late or are debounced (discovery.py:226).
FollowsTheGateway ==
    \A g \in Gateways :
        Configured(g) /\ entries[g] # addr[g] ~> ~Configured(g) \/ entries[g] = addr[g]

\* A gateway without an entry is offered to the user, if no other entry has its
\* address, even after its probe failed or the user closed the form
\* (discovery.py:246).
GatewayOffered ==
    \A g \in Gateways :
        ~Configured(g) ~> Configured(g) \/ Taken(addr[g]) \/ \E f \in Flows : flow[f].uid = g

=============================================================================
