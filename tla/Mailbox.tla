------------------------------- MODULE Mailbox -------------------------------
(***************************************************************************)
(* What a seat's mail is promised, whoever reads it and whatever goes      *)
(* wrong: each message goes one way, one step at a time.  It is accepted,  *)
(* somebody is shown it, the medium forgets it, and the day's record may   *)
(* then say it was read.  No step is skipped and none is taken back, and   *)
(* no step of one message is a step of another's.                          *)
(* ReadPath implements it.                                                 *)
(***************************************************************************)
CONSTANT Msgs

VARIABLE mail       \* how far each message has come

Stages == {"unsent", "waiting", "shown", "gone", "recorded"}

Init == mail = [m \in Msgs |-> "unsent"]

Advance(m, from, to) == mail[m] = from /\ mail' = [mail EXCEPT ![m] = to]

Accept(m) == Advance(m, "unsent", "waiting")
Show(m) == Advance(m, "waiting", "shown")
Forget(m) == Advance(m, "shown", "gone")
Record(m) == Advance(m, "gone", "recorded")

Next == \E m \in Msgs : Accept(m) \/ Show(m) \/ Forget(m) \/ Record(m)

Spec == Init /\ [][Next]_mail
=============================================================================
