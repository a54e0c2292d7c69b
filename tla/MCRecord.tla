------------------------------ MODULE MCRecord ------------------------------
(* Small instances of Record.                                               *)
EXTENDS Record
CONSTANTS m1, m2
=============================================================================
