----------------------------- MODULE MCPresence -----------------------------
(* Small instances of Presence.                                             *)
EXTENDS Presence, TLC
CONSTANTS a1, a2, h1, h2

\* Hooks are alike, and so are agents.
Alike == Permutations(Hooks) \cup Permutations(Agents)
=============================================================================
