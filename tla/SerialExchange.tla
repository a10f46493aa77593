--------------------------- MODULE SerialExchange ---------------------------
(***************************************************************************)
(* What the control client promises its callers, whatever happens to the   *)
(* connection: the commands that get past connect() are served one at a    *)
(* time and in the order they arrived, each of them leaves the exchange    *)
(* with one result, and a sendir only ends well after the gateway carried  *)
(* it out.  ItachClient is shown to implement it.                          *)
(***************************************************************************)
EXTENDS Naturals, Sequences

CONSTANTS Callers, Operations, Outcomes, MaxCommands

VARIABLES
    phase,    \* each caller: idle, preparing, admitted or ending
    line,     \* the admitted callers; the first one is served
    command,  \* the operation of its last command, and its number
    result,   \* how that command ended, or "none"
    carried   \* the commands the gateway carried out, as <<caller, number>>

xvars == <<phase, line, command, result, carried>>

Init ==
    /\ phase = [t \in Callers |-> "idle"]
    /\ line = <<>>
    /\ command = [t \in Callers |-> [op |-> "disconnect", n |-> 0]]
    /\ result = [t \in Callers |-> "none"]
    /\ carried = {}

Move(t, p) == phase' = [phase EXCEPT ![t] = p]
Result(t, how) == result' = [result EXCEPT ![t] = how]

Submit(t) ==
    /\ phase[t] = "idle"
    /\ command[t].n < MaxCommands
    /\ \E o \in Operations :
        command' = [command EXCEPT ![t] = [op |-> o, n |-> @.n + 1]]
    /\ Move(t, "preparing")
    /\ Result(t, "none")
    /\ UNCHANGED <<line, carried>>

\* connect() succeeded, or was not needed.
Admit(t) ==
    /\ phase[t] = "preparing" /\ command[t].op # "disconnect"
    /\ line' = Append(line, t)
    /\ Move(t, "admitted")
    /\ UNCHANGED <<command, result, carried>>

\* connect() failed: the command ends without an exchange, and not well.
Fail(t) ==
    /\ phase[t] = "preparing" /\ command[t].op # "disconnect"
    /\ \E how \in Outcomes \ {"none", "ok"} : Result(t, how)
    /\ Move(t, "idle")
    /\ UNCHANGED <<line, command, carried>>

\* The first in line leaves.  A sendir that failed may have a reset to finish.
Leave(t) ==
    /\ line # <<>> /\ Head(line) = t
    /\ line' = Tail(line)
    /\ \E how \in Outcomes \ {"none"} :
        /\ command[t].op = "sendir" /\ how = "ok" => <<t, command[t].n>> \in carried
        /\ Result(t, how)
    /\ \/ Move(t, "idle")
       \/ command[t].op = "sendir" /\ result'[t] # "ok" /\ Move(t, "ending")
    /\ UNCHANGED <<command, carried>>

Disconnect(t) ==
    /\ phase[t] = "preparing" /\ command[t].op = "disconnect"
    /\ \E how \in Outcomes \ {"none"} : Result(t, how)
    /\ \E p \in {"idle", "ending"} : Move(t, p)
    /\ UNCHANGED <<line, command, carried>>

\* A disconnect, or the reset after a sendir, comes to its end.
End(t) ==
    /\ phase[t] = "ending"
    /\ Move(t, "idle")
    /\ \E how \in {result[t], "crash"} : Result(t, how)
    /\ UNCHANGED <<line, command, carried>>

\* The gateway may carry out a command long after its caller gave up on it.
CarryOut(t, k) ==
    /\ k \in 1 .. command[t].n
    /\ k = command[t].n /\ phase[t] = "admitted" => Head(line) = t
    /\ k = command[t].n => phase[t] # "preparing"
    /\ carried' = carried \cup {<<t, k>>}
    /\ UNCHANGED <<phase, line, command, result>>

Next ==
    \E t \in Callers :
        \/ Submit(t) \/ Admit(t) \/ Fail(t) \/ Leave(t) \/ Disconnect(t) \/ End(t)
        \/ \E k \in 1 .. MaxCommands : CarryOut(t, k)

Spec == Init /\ [][Next]_xvars
=============================================================================
