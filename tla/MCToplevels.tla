--------------------------- MODULE MCToplevels ---------------------------
(* Model values of Toplevels for TLC. *)
EXTENDS Toplevels, TLC
=============================================================================
