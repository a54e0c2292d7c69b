------------------------------ MODULE MCNotify ------------------------------
(* Small instances of Notify.  s1 carries the seat's session name.          *)
EXTENDS Notify
CONSTANTS r1, r2, s1, s2
=============================================================================
