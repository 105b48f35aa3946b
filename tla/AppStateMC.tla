----------------------------- MODULE AppStateMC -----------------------------
(* Model-checking instance of ApplicationState. *)
EXTENDS ApplicationState

CONSTANTS p1, p2, k1, k2

MCProcs1 == {p1}
MCProcs2 == {p1, p2}
MCKeys == {k1, k2}
MCMaxObjects == 3
=============================================================================
