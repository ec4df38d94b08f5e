---------------------------- MODULE MCEscalations ----------------------------
(* Model-checking instance of Escalations. *)
EXTENDS Escalations, TLC

\* Ids are random UUIDs, and calls are alike.
EscalationSymmetry ==
    Permutations(Ids) \cup Permutations(Decisions) \cup Permutations(Calls)
=============================================================================
