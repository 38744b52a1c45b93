------------------------------ MODULE PaidCall ------------------------------
(***************************************************************************)
(* What the ledger and the broker together promise about a paid call: its  *)
(* money is held, then either given back with the call never executed, or  *)
(* committed; a committed call is executed by the provider at most once    *)
(* and charged at most once.                                               *)
(***************************************************************************)
EXTENDS Naturals

CONSTANT Calls

VARIABLES
    phase,          \* where the money of each call is
    executed        \* how often the provider has executed it

Phases == {"none", "held", "void", "committed", "charged"}

Init == /\ phase = [c \in Calls |-> "none"]
        /\ executed = [c \in Calls |-> 0]

Move(c, from, to) == /\ phase[c] \in from
                     /\ phase' = [phase EXCEPT ![c] = to]
                     /\ UNCHANGED executed

Hold(c) == Move(c, {"none"}, "held")

\* Given back; a call refused at once never shows that it was held.
Void(c) == Move(c, {"none", "held"}, "void")

Commit(c) == Move(c, {"none", "held"}, "committed")

Charge(c) == Move(c, {"committed"}, "charged")

\* An Admin may charge a committed call before its execution has begun.
Execute(c) == /\ phase[c] \in {"committed", "charged"}
              /\ executed[c] = 0
              /\ executed' = [executed EXCEPT ![c] = 1]
              /\ UNCHANGED phase

Next == \E c \in Calls : Hold(c) \/ Void(c) \/ Commit(c) \/ Charge(c) \/ Execute(c)

Spec == Init /\ [][Next]_<<phase, executed>>
=============================================================================
