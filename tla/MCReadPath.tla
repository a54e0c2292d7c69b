----------------------------- MODULE MCReadPath -----------------------------
(* Small instances of ReadPath: a plain read r1, a peek p1, a tool's t1.    *)
EXTENDS ReadPath
CONSTANTS m1, m2, r1, p1, t1
=============================================================================
