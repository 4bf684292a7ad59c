------------------------------- MODULE MCSlots -------------------------------
(* Small instances of ApplicationSlots: v1 is installed, v2 migrates the   *)
(* profile, v3 does not.                                                   *)
EXTENDS ApplicationSlots, TLC

CONSTANTS v1, v2, v3, u1, u2

MCSource == [r \in {v1, v2, v3} |-> 1]
MCTarget == [r \in {v1, v2, v3} |-> IF r = v2 THEN 2 ELSE 1]
\* Operations are interchangeable.
MCSymmetry == Permutations({u1, u2})

MCReadable == [r \in {v1, v2, v3} |-> {1, 2}]

=============================================================================
