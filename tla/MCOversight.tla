------------------------------ MODULE MCOversight ------------------------------
(* Two effects of a type that is always reviewed, one of a type that has no   *)
(* policy, and a viewer of the event feed.                                    *)
EXTENDS Oversight, TLC

CONSTANTS i1, i2, i3

MCTypeOf == [i \in Items |-> IF i = i3 THEN "unmanaged" ELSE "crm"]
MCPolicy == [t \in {"crm"} |-> [percent |-> 60, threshold |-> 60, window |-> 2]]

Symmetry == Permutations({i1, i2})
===============================================================================
