---------------------------- MODULE MCUiSessions ----------------------------
(* UiSessions for TLC: the tabs are interchangeable. *)
EXTENDS UiSessions, TLC

Symmetry == Permutations(Tabs)

=============================================================================
