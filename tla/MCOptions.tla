------------------------------ MODULE MCOptions ------------------------------
(* Small instances of OptionsFlow, whose flows are interchangeable, and of   *)
(* Infrared. The two share nothing, so each is explored while the other one  *)
(* stands in an initial state.                                               *)
EXTENDS OptionsFlow, Infrared, TLC

MCConnectors == {<<1, 1>>, <<1, 2>>, <<2, 2>>}

FlowSymmetry == Permutations(Flows)

\* The first item has what an item can have: less comes by editing it.
MCInit ==
    /\ Init /\ IrInit
    /\ Cardinality(items[1].commands) = (IF items[1].kind = "relay" THEN 0 ELSE MaxCommands)
    /\ items[1].listen = (items[1].kind = "serial")

\* Of the initial states of the options, the infrared side needs only one.
MCNext ==
    \/ IrInit /\ Next /\ UNCHANGED irVars
    \/ Init /\ items[1] = [kind |-> "relay", commands |-> {}, listen |-> FALSE]
       /\ IrNext /\ UNCHANGED vars

MCSpec == MCInit /\ [][MCNext]_<<vars, irVars>>
=============================================================================
