---------------------------- MODULE MCConfigFlow ----------------------------
(* ConfigFlow for TLC: members of these sets are interchangeable. *)
EXTENDS ConfigFlow, TLC

Interchangeable == UNION {Permutations(S) : S \in {Native, Tokens, Slots, Flows}}

=============================================================================
