------------------------------- MODULE MCSeat -------------------------------
(* Small instances of Seat.  s1 and s2 are servers of runtime r1, s3 of r2. *)
EXTENDS Seat, TLC
CONSTANTS s1, s2, s3, c1, c2, r1, r2, m1

OneRuntime == [p \in Writers |-> r1]
TwoRuntimes == [p \in Writers |-> IF p \in {s3, c2} THEN r2 ELSE r1]
AllVerbs == {"subscribe", "unsubscribe", "force"}

\* Servers of one runtime are alike.
SameServers == Permutations({s1, s2})
=============================================================================
