------------------------------ MODULE MCEntry -------------------------------
(* Small instances of Entry.                                                *)
EXTENDS Entry
=============================================================================
