------------------------------ MODULE ReadPath ------------------------------
(***************************************************************************)
(* Taking mail: `loc read`, `loc read --peek` and the server's read tool   *)
(* (cmd/loc/read.go, internal/mcpserve/tools.go) over the queue cursor     *)
(* (internal/provider/nats/read.go).  An acknowledgement deletes, so the   *)
(* bytes are shown first and forgotten after; what a read was handed and   *)
(* did not take goes back when it closes.  All readers of a seat share one *)
(* durable cursor, which the broker keeps: what it does is external.       *)
(*                                                                         *)
(* A reader is a process slot: when a read has ended, the next may start.  *)
(* A read acknowledges a message before it fetches the next, so what the   *)
(* provider holds unacknowledged is never more than the one in hand.       *)
(***************************************************************************)
EXTENDS Naturals, Sequences, SequencesExt, FiniteSets

CONSTANTS
    Msgs,       \* messages one sender sends to the seat
    Envelopes,  \* of them, those whose payload is an envelope
    Readers, Peekers, Tools,    \* plain reads, peeks, and the tool's reads
    None, Nobody,
    MaxFaults   \* bound: kills, signals, failures and stranded fetches

All == Readers \cup Peekers \cup Tools

ASSUME ReadAssumption ==
    /\ Envelopes \subseteq Msgs
    /\ Readers \cap Peekers = {} /\ (Readers \cup Peekers) \cap Tools = {}
    /\ None \notin All \cup Msgs /\ Nobody \notin All \cup Msgs /\ None # Nobody
    /\ MaxFaults \in Nat

VARIABLES
    sent,       \* messages that were ever stored
    stored,     \* what the queue still holds
    fresh,      \* the cursor: not yet delivered, in order
    again,      \* the cursor: to be redelivered, in order
    holder,     \* the cursor: to whom each message is in flight, or None
    pc, inHand, \* where each read is, and the message it holds
    signalled,  \* reads a stop signal has reached
    ackTried,   \* reads whose acknowledgement got no answer
    buffer,     \* what a tool's read has written and not returned
    shown,      \* messages some reader has presented: an envelope whole, and a
                \* payload that is none cut to its first 120 bytes, all of them
                \* with --json; a blank one presents nothing
    recorded,   \* messages with a `read` line in the day's record
    handed,     \* messages counted by a `handed=` line in the delivery log
    faults

cursor == <<fresh, again, holder>>
logs == <<recorded, handed>>
vars == <<sent, stored, cursor, pc, inHand, signalled, ackTried, buffer, shown, logs, faults>>

Init ==
    /\ sent = {} /\ stored = {} /\ fresh = <<>> /\ again = <<>>
    /\ holder = [m \in Msgs |-> None]
    /\ pc = [r \in All |-> "off"] /\ inHand = [r \in All |-> None]
    /\ signalled = {} /\ ackTried = {} /\ buffer = [r \in Tools |-> {}]
    /\ shown = {} /\ recorded = {} /\ handed = {} /\ faults = 0

Goto(r, label) == pc' = [pc EXCEPT ![r] = label]
Move(r, from, label) == pc[r] = from /\ Goto(r, label)
Fault == faults < MaxFaults /\ faults' = faults + 1

-----------------------------------------------------------------------------
(* The broker's side of the queue and its cursor.                          *)

Send(m) ==
    /\ m \notin sent
    /\ sent' = sent \cup {m} /\ stored' = stored \cup {m} /\ fresh' = Append(fresh, m)
    /\ UNCHANGED <<again, holder, pc, inHand, signalled, ackTried, buffer, shown, logs, faults>>

\* A pull is answered from the redeliveries first.
Waiting == again \o fresh
DeliverTo(h) ==
    /\ Waiting # <<>>
    /\ holder' = [holder EXCEPT ![Head(Waiting)] = h]
    /\ IF again # <<>> THEN again' = Tail(again) /\ UNCHANGED fresh
       ELSE fresh' = Tail(fresh) /\ UNCHANGED again

\* The acknowledgement wait runs out: the message will be delivered again.
AckWait(m) ==
    /\ holder[m] # None
    /\ holder' = [holder EXCEPT ![m] = None]
    /\ again' = IF Contains(again, m) THEN again ELSE Append(again, m)
    /\ UNCHANGED <<sent, stored, fresh, pc, inHand, signalled, ackTried, buffer, shown,
                   logs, faults>>

\* A message waits for redelivery at most once.
Without(s, m) ==
    IF Contains(s, m) THEN RemoveAt(s, CHOOSE i \in 1 .. Len(s) : s[i] = m) ELSE s

\* An acknowledgement, late or not, deletes the message wherever it stands.
Delete(m) ==
    /\ stored' = stored \ {m}
    /\ holder' = [holder EXCEPT ![m] = None]
    /\ again' = Without(again, m)
    /\ UNCHANGED fresh

\* A negative one puts it back at once, unless it is gone or already waiting.
Nak(m) ==
    /\ again' = IF m \in stored /\ ~Contains(again, m) THEN Append(again, m) ELSE again
    /\ holder' = [holder EXCEPT ![m] = None]
    /\ UNCHANGED fresh

\* What a process that ends still holds is in flight to nobody.
Orphan(r) ==
    /\ holder' = [m \in Msgs |-> IF holder[m] = r THEN Nobody ELSE holder[m]]
    /\ UNCHANGED <<fresh, again>>

-----------------------------------------------------------------------------
(* One read.                                                               *)

Start(r) ==
    /\ Move(r, "off", "fetch")
    /\ UNCHANGED <<sent, stored, cursor, inHand, signalled, ackTried, buffer, shown, logs, faults>>

Signal(r) ==
    /\ r \notin Tools /\ pc[r] \notin {"off", "killed"} /\ r \notin signalled /\ Fault
    /\ signalled' = signalled \cup {r}
    /\ UNCHANGED <<sent, stored, cursor, pc, inHand, ackTried, buffer, shown, logs>>

\* SIGKILL: nothing is given back.
Kill(r) ==
    /\ pc[r] # "off" /\ Fault
    /\ Goto(r, "off") /\ inHand' = [inHand EXCEPT ![r] = None]
    /\ signalled' = signalled \ {r} /\ ackTried' = ackTried \ {r}
    /\ buffer' = [t \in Tools |-> IF t = r THEN {} ELSE buffer[t]]
    /\ Orphan(r)
    /\ UNCHANGED <<sent, stored, shown, logs>>

\* fetchOne.  A queue is told dry when it is, when the fetch failed or the cursor
\* could not be reached, mail or none, and when a message was delivered as the wait
\* expired: that one is stranded, in flight to nobody.
Fetch(r, label) ==
    \/ /\ DeliverTo(r)
       /\ inHand' = [inHand EXCEPT ![r] = Head(Waiting)]
       /\ Goto(r, label) /\ UNCHANGED faults
    \/ /\ Goto(r, label) /\ UNCHANGED <<cursor, inHand>>
       /\ IF Waiting = <<>> THEN UNCHANGED faults ELSE Fault
    \/ DeliverTo(Nobody) /\ Goto(r, label) /\ Fault /\ UNCHANGED inHand
    \/ Fault /\ Goto(r, "failed") /\ UNCHANGED <<cursor, inHand>>

NextQueued(r) ==
    /\ \/ pc[r] = "fetch" /\ Fetch(r, "heading")
       \/ pc[r] = "next" /\ Fetch(r, "drain")
    /\ UNCHANGED <<sent, stored, signalled, ackTried, buffer, shown, logs>>

\* The medium was reached: the heading, unless a signal came meanwhile.
readMode(r) ==
    /\ pc[r] = "heading"
    /\ \/ r \in signalled /\ Goto(r, "failed") /\ UNCHANGED faults
       \/ r \notin signalled /\ UNCHANGED faults
          /\ Goto(r, IF r \in Peekers /\ inHand[r] = None THEN "close" ELSE "drain")
       \/ r \notin signalled /\ r \notin Tools /\ Fault /\ Goto(r, "failed")
    /\ UNCHANGED <<sent, stored, cursor, inHand, signalled, ackTried, buffer, shown, logs>>

\* Presented on the screen, or in the tool's result.
WriteOut(r) ==
    /\ shown' = shown \cup {inHand[r]}
    /\ buffer' = [t \in Tools |-> IF t = r THEN buffer[t] \cup {inHand[r]} ELSE buffer[t]]

\* Mutant: a write that failed goes on to the acknowledgement.
AfterBadWrite == "ack"

\* A write that failed leaves the loop with nothing acknowledged.
WriteFails == "failed"

\* The loop: stop on a signal, end when the queue is dry, else show.
drain(r) ==
    /\ pc[r] = "drain"
    /\ \/ /\ inHand[r] = None
          /\ Goto(r, "topics") /\ UNCHANGED <<shown, buffer, faults>>
       \/ /\ inHand[r] # None /\ r \in signalled /\ r \notin Peekers
          /\ Goto(r, "failed") /\ UNCHANGED <<shown, buffer, faults>>
       \/ /\ inHand[r] # None /\ (r \in signalled => r \in Peekers)
          /\ WriteOut(r) /\ UNCHANGED faults
          /\ Goto(r, IF r \in Peekers THEN "close" ELSE "ack")
       \/ /\ inHand[r] # None /\ r \notin Tools /\ (r \in signalled => r \in Peekers)
          /\ Fault /\ Goto(r, WriteFails) /\ UNCHANGED <<shown, buffer>>
    /\ UNCHANGED <<sent, stored, cursor, inHand, signalled, ackTried, logs>>

\* Mutant: the read is recorded whether or not the broker confirmed it.
RecordAnyway == "record"

AckFails == "failed"

\* AckSync: the broker confirms the deletion, or nothing comes back of it.
Ack(r) ==
    /\ pc[r] = "ack"
    /\ \/ /\ Delete(inHand[r]) /\ UNCHANGED <<ackTried, faults>>
          /\ Goto(r, "record")
       \/ /\ Fault /\ Goto(r, AckFails) /\ ackTried' = ackTried \cup {r}
          /\ Delete(inHand[r]) \/ UNCHANGED <<stored, cursor>>
    /\ UNCHANGED <<sent, inHand, signalled, buffer, shown, logs>>

\* Mutant: the message is put out of hand first and recorded after.
LogTaken(r) ==
    /\ Move(r, "record", "next")
    /\ inHand' = [inHand EXCEPT ![r] = None]
    /\ recorded' = recorded \cup {inHand'[r]}
    /\ UNCHANGED <<sent, stored, cursor, signalled, ackTried, buffer, shown, handed, faults>>

\* The read line, and the message is no longer in hand.  A payload that is no
\* envelope has no line, and an append that fails leaves none: nobody is told.
LogRead(r) ==
    /\ Move(r, "record", "next")
    /\ \/ recorded' = recorded \cup ({inHand[r]} \cap Envelopes) /\ UNCHANGED faults
       \/ Fault /\ UNCHANGED recorded
    /\ inHand' = [inHand EXCEPT ![r] = None]
    /\ UNCHANGED <<sent, stored, cursor, signalled, ackTried, buffer, shown, handed>>

\* The rooms are read from the reader's own position in another stream; of
\* them only that they can fail, or be cut short, matters to the queue.
Topics(r) ==
    /\ \/ Move(r, "topics", "close") /\ UNCHANGED faults
       \/ Move(r, "topics", "failed") /\ (r \in signalled \/ Fault)
          /\ (r \in signalled => UNCHANGED faults)
    /\ UNCHANGED <<sent, stored, cursor, inHand, signalled, ackTried, buffer, shown, logs>>

\* Mutant: a read that a signal stopped does not close its provider.
CloseUnlessSignalled(r) ==
    IF inHand[r] # None /\ r \notin signalled THEN Nak(inHand[r]) ELSE Orphan(r)

\* Close gives back what was handed over and not taken.  The client may take a
\* message whose acknowledgement went unanswered for settled, and say nothing.
returnUnacked(r) ==
    \/ inHand[r] # None /\ Nak(inHand[r])
    \/ (inHand[r] = None \/ r \in ackTried) /\ Orphan(r)

Close(r) ==
    /\ \/ pc[r] = "close" /\ Goto(r, IF r \in Tools THEN "return" ELSE "off")
       \/ pc[r] = "failed" /\ Goto(r, IF r \in Tools THEN "error" ELSE "off")
    /\ returnUnacked(r)
    /\ inHand' = [inHand EXCEPT ![r] = None]
    /\ signalled' = signalled \ {r} /\ ackTried' = ackTried \ {r}
    /\ UNCHANGED <<sent, stored, buffer, shown, logs, faults>>

\* The tool returns its text, or the error alone.
read(t) ==
    /\ t \in Tools
    /\ \/ Move(t, "return", "off") /\ handed' = handed \cup buffer[t]
       \/ Move(t, "error", "off") /\ UNCHANGED handed
    /\ buffer' = [buffer EXCEPT ![t] = {}]
    /\ UNCHANGED <<sent, stored, cursor, inHand, signalled, ackTried, shown, recorded, faults>>

-----------------------------------------------------------------------------

Step(r) == \/ NextQueued(r) \/ readMode(r) \/ drain(r) \/ Ack(r) \/ LogRead(r)
           \/ Topics(r) \/ Close(r) \/ read(r)
Next ==
    \/ \E m \in Msgs : Send(m) \/ AckWait(m)
    \/ \E r \in All : Start(r) \/ Signal(r) \/ Kill(r) \/ Step(r)

Spec == Init /\ [][Next]_vars

\* The seat keeps reading, a read that runs ends, and the broker's wait expires.
FairSpec ==
    /\ Spec
    /\ \A r \in Readers : WF_vars(Start(r)) /\ WF_vars(Step(r))
    /\ \A r \in Peekers \cup Tools : WF_vars(Step(r))
    /\ \A m \in Msgs : WF_vars(AckWait(m))

-----------------------------------------------------------------------------
(* Properties.                                                             *)

Labels == {"off", "fetch", "heading", "drain", "ack", "record", "next", "topics",
           "close", "failed", "return", "error"}

\* The cursor, the reads and the logs stay within their types; what the cursor
\* waits to deliver and what is in flight is still stored.
TypeOK ==
    /\ sent \subseteq Msgs /\ stored \subseteq sent
    /\ fresh \in Seq(stored) /\ again \in Seq(stored)
    /\ holder \in [Msgs -> All \cup {None, Nobody}]
    /\ \A m \in Msgs : holder[m] # None => m \in stored
    /\ pc \in [All -> Labels] /\ inHand \in [All -> Msgs \cup {None}]
    /\ signalled \subseteq Readers \cup Peekers /\ ackTried \subseteq All
    /\ buffer \in [Tools -> SUBSET Msgs] /\ shown \subseteq sent
    /\ recorded \subseteq Msgs /\ handed \subseteq Msgs /\ faults \in 0 .. MaxFaults

\* Duplicate, never loss: no message leaves the queue before some reader has
\* presented it, an envelope whole, whichever of reads, peeks, signals, kills,
\* redeliveries and late acknowledgements of others come between.
ShownBeforeGone ==
    sent \ stored \subseteq shown

\* A recorded read is a read that happened: the next read will not disprove it.
RecordedIsGone == \A m \in recorded : m \notin stored

\* A read that is over, and was not killed, holds nothing in flight, so the next
\* read finds it: only a message whose acknowledgement went unanswered, or whose
\* delivery the client never saw, waits for the broker's timer.  A read that a stop
\* signal ended gives back too (runRead, unwindOnSignal), though docs/CLI.md says it
\* does not yet.
EndedHoldsNothing ==
    [][\A r \in All, m \in Msgs :
          pc[r] \in {"close", "failed"} /\ pc'[r] # pc[r] /\ faults' = faults
              /\ r \notin ackTried /\ holder[m] = r
            => holder'[m] = None]_vars

\* Mail is not stuck in the cursor: once faults are over, a seat that keeps
\* reading is shown every message.
EveryMailShown == \A m \in Msgs : (m \in sent) ~> (m \in shown)

\* How far a message has come, as its sender would put it.
Stage(m) == CASE m \notin sent -> "unsent"
              [] m \in sent /\ m \in recorded -> "recorded"
              [] m \in sent \ stored /\ m \notin recorded -> "gone"
              [] m \in stored /\ m \in shown /\ m \notin recorded -> "shown"
              [] m \in stored /\ m \notin shown /\ m \notin recorded -> "waiting"

stages == [m \in Msgs |-> Stage(m)]

Promise == INSTANCE Mailbox WITH mail <- stages

\* All readers together, with their redeliveries, late acknowledgements and kills,
\* are one mailbox: accepted, shown, deleted, recorded, in this order and one message
\* at a time, whichever read took which step.
IsMailbox == Promise!Spec

\* A message the read tool took can be found: each stays in the result being
\* written, or is counted in the delivery log, unless the server is killed.
HandedIsLogged ==
    [][\A t \in Tools :
          pc[t] = "error" /\ pc'[t] = "off" /\ faults' = faults
            => buffer[t] \cap recorded \subseteq handed']_vars
=============================================================================
