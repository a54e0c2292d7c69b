------------------------------- MODULE MCBell -------------------------------
(* Values of Bell's constants for TLC.                                     *)
EXTENDS Bell

CONSTANTS m1, m2, m3, a, b

\* One sender; a sender and an envelope that does not parse.
FromOne == [m \in Msgs |-> a]
FromMixed == [m \in Msgs |-> IF m = m1 THEN NoName ELSE b]

OnlyRang == {"rang"}
RangRefusedOrNever == {"rang", "refused", "never"}
AnyAnswer == {"rang", "refused", "held"}
=============================================================================
