------------------------------ MODULE MCHermes ------------------------------
(* Small instances of Hermes.                                               *)
EXTENDS Hermes
CONSTANTS m1, m2, m3
=============================================================================
