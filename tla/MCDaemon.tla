------------------------------ MODULE MCDaemon ------------------------------
(* Small instances of Daemon.  The stop t2 is forced.                       *)
EXTENDS Daemon
CONSTANTS d1, d2, s1, s2, t1, t2
=============================================================================
