----------------------------- MODULE SeatProofs -----------------------------
(* Theorems about the seat, for any servers, clerks, runtimes and messages. *)
EXTENDS Seat, TLAPS

\* Where a seat's mail may go is decided by where its processes stand: one on its
\* way to an unsubscribe may begin it, one past the unsubscribe's own check may end
\* the seat, and one that destroyed mail is past its unsubscribe for good.
PastLook == {"unLook", "unRemove", "unDelete"}
PastUnsubscribe == {"relRead", "relRemove", "gone"}

MayBegin ==
    /\ \A s \in Servers : pc[s] = "unLoad" => found[s] = s
    /\ \A c \in Clerks : pc[c] = "unLoad" => verb[c] # "subscribe"
MayEnd == \A p \in Writers : pc[p] \in PastLook => Entitled(p)
DestroyerIsDone ==
    \A m \in Msgs : lost[m] \notin {None, Medium} =>
        lost[m] \in Writers /\ Entitled(lost[m]) /\ pc[lost[m]] \in PastUnsubscribe
AcceptedKept == \A m \in Msgs : post[m] = "accepted" => m \in mail \cup read \/ lost[m] # None
MailInQueue == mail # {} => exists

Kept == MayBegin /\ MayEnd /\ DestroyerIsDone /\ AcceptedKept /\ MailInQueue
IInv == TypeOK /\ Kept

-----------------------------------------------------------------------------
(* Types.                                                                  *)

\* The initial state is well typed.
LEMMA TypeInit == Init => TypeOK
<1> SUFFICES ASSUME Init PROVE TypeOK
  OBVIOUS
<1>1. pc \in [Writers -> Labels] /\ verb \in [Clerks -> Verbs]
  BY DEF Init, Labels
<1>2. held \in [Writers \cup {Sweeper} -> Writers \cup {None}]
  BY DEF Init
<1>3. dialled \in [Clients -> 0 .. MaxRestarts] /\ boots \in 0 .. MaxRestarts
  BY SeatAssumption DEF Init
<1>4. post \in [Msgs -> Posts] /\ finding \in Findings
  BY DEF Init, Posts, Findings
<1>5. lost \in [Msgs -> Clients \cup {None, Medium}]
  BY DEF Init
<1>6. found \in [Writers -> Writers \cup {None}]
  BY DEF Init
<1>7. QED
  BY <1>1, <1>2, <1>3, <1>4, <1>5, <1>6 DEF Init, TypeOK

\* What the environment and the servers do keeps every variable in its type.
LEMMA TypeServers ==
    ASSUME TypeOK,
           \/ \E r \in Runtimes : RuntimeEnds(r)
           \/ \E s \in Servers : Launch(s) \/ ServerStep(s) \/ wait(s) \/ DepartTimesOut(s)
           \/ \E p \in Writers : Killed(p)
           \/ BrokerStops \/ BrokerStarts
    PROVE  TypeOK'
<1> USE SeatAssumption DEF TypeOK, Writers, Clients, Labels, records, medium, Move, Goto
<1>1. ASSUME NEW r \in Runtimes, RuntimeEnds(r) PROVE TypeOK'
  BY <1>1 DEF RuntimeEnds
<1>2. ASSUME NEW s \in Servers, Launch(s) PROVE TypeOK'
  BY <1>2 DEF Launch
<1>3. ASSUME NEW s \in Servers, heldByAnother(s) PROVE TypeOK'
  BY <1>3 DEF heldByAnother
<1>4. ASSUME NEW s \in Servers, displaceOrRefuse(s) PROVE TypeOK'
  BY <1>4 DEF displaceOrRefuse
<1>5. ASSUME NEW s \in Servers, DisplaceRemove(s) PROVE TypeOK'
  BY <1>5 DEF DisplaceRemove
<1>6. ASSUME NEW s \in Servers, claimPIDFile(s) PROVE TypeOK'
  BY <1>6 DEF claimPIDFile
<1>7. ASSUME NEW s \in Servers, depart(s) PROVE TypeOK'
  BY <1>7 DEF depart
<1>8. ASSUME NEW s \in Servers, ReleaseReads(s) PROVE TypeOK'
  BY <1>8 DEF ReleaseReads
<1>9. ASSUME NEW s \in Servers, ReleaseRemoves(s) PROVE TypeOK'
  BY <1>9 DEF ReleaseRemoves
<1>10. ASSUME NEW s \in Servers, wait(s) PROVE TypeOK'
  BY <1>10 DEF wait
<1>11. ASSUME NEW s \in Servers, DepartTimesOut(s) PROVE TypeOK'
  BY <1>11 DEF DepartTimesOut
<1>12. ASSUME NEW p \in Writers, Killed(p) PROVE TypeOK'
  BY <1>12 DEF Killed
<1>13. CASE BrokerStops
  <2>1. lost' \in [Msgs -> Clients \cup {None, Medium}]
    BY <1>13 DEF BrokerStops
  <2>2. boots' \in 0 .. MaxRestarts
    BY <1>13 DEF BrokerStops
  <2>3. QED
    BY <1>13, <2>1, <2>2 DEF BrokerStops
<1>14. CASE BrokerStarts
  BY <1>14 DEF BrokerStarts
<1>15. QED
  BY <1>1, <1>2, <1>3, <1>4, <1>5, <1>6, <1>7, <1>8, <1>9, <1>10, <1>11, <1>12,
     <1>13, <1>14 DEF ServerStep

\* So do the verbs,
LEMMA TypeVerbs ==
    ASSUME TypeOK,
           \/ \E c \in Clerks : Clerk(c)
           \/ \E p \in Writers : VerbStep(p)
    PROVE  TypeOK'
<1> USE SeatAssumption DEF TypeOK, Writers, Clients, Labels, records, medium, Move, Goto
<1>1. ASSUME NEW c \in Clerks, Clerk(c) PROVE TypeOK'
  BY <1>1 DEF Clerk
<1>2. ASSUME NEW p \in Writers, SubLoad(p) PROVE TypeOK'
  BY <1>2 DEF SubLoad
<1>3. ASSUME NEW p \in Writers, SubSave(p) PROVE TypeOK'
  BY <1>3 DEF SubSave
<1>4. ASSUME NEW p \in Writers, SubQueue(p) PROVE TypeOK'
  <2>1. pc' \in [Writers -> Labels]
    BY <1>4 DEF SubQueue
  <2>2. dialled' \in [Clients -> 0 .. MaxRestarts]
    BY <1>4 DEF SubQueue, Dials
  <2>3. /\ exists' \in BOOLEAN /\ mail' = mail /\ broker' = broker
        /\ boots' = boots /\ lost' = lost
    BY <1>4 DEF SubQueue, CreateQueue
  <2>4. QED
    BY <1>4, <2>1, <2>2, <2>3 DEF SubQueue
<1>5. ASSUME NEW p \in Writers, SubJoin(p) PROVE TypeOK'
  BY <1>5 DEF SubJoin
<1>6. ASSUME NEW p \in Writers, UnLoad(p) PROVE TypeOK'
  BY <1>6 DEF UnLoad, Unsubscribed
<1>7. ASSUME NEW p \in Writers, UnLook(p) PROVE TypeOK'
  BY <1>7 DEF UnLook, Unsubscribed, Dials
<1>8. ASSUME NEW p \in Writers, UnRemove(p) PROVE TypeOK'
  BY <1>8 DEF UnRemove
<1>9. ASSUME NEW p \in Writers, UnDelete(p) PROVE TypeOK'
  <2>1. pc' \in [Writers -> Labels]
    BY <1>9 DEF UnDelete, Unsubscribed
  <2>2. CASE Reaches(p)
    <3>1. DeleteQueue(p)
      BY <1>9, <2>2 DEF UnDelete
    <3>2. lost' \in [Msgs -> Clients \cup {None, Medium}]
      BY <3>1 DEF DeleteQueue
    <3>3. QED
      BY <1>9, <2>1, <3>1, <3>2 DEF UnDelete, DeleteQueue
  <2>3. CASE ~Reaches(p)
    BY <1>9, <2>1, <2>3 DEF UnDelete
  <2>4. QED
    BY <2>2, <2>3
<1>10. QED
  BY <1>1, <1>2, <1>3, <1>4, <1>5, <1>6, <1>7, <1>8, <1>9 DEF VerbStep

\* the sweep, the sends and the reader.
LEMMA TypeOthers ==
    ASSUME TypeOK,
           SweepStep \/ \E m \in Msgs : SendAny(m) \/ Read(m)
    PROVE  TypeOK'
<1> USE SeatAssumption DEF TypeOK, Writers, Clients, records, medium
<1>1. CASE ListAll
  BY <1>1 DEF ListAll, Findings
<1>2. CASE SweepLooks
  BY <1>2 DEF SweepLooks, Findings, Found, Dials
<1>3. CASE SweepReaps
  BY <1>3 DEF SweepReaps, Findings
<1>4. CASE ReleaseServerPID
  BY <1>4 DEF ReleaseServerPID, Findings
<1>5. CASE SweepRepairs
  BY <1>5 DEF SweepRepairs, Findings, CreateQueue
<1>6. ASSUME NEW m \in Msgs, SendLooks(m) PROVE TypeOK'
  BY <1>6 DEF SendLooks, SendStep, Posts, Dials
<1>7. ASSUME NEW m \in Msgs, SendChecks(m) PROVE TypeOK'
  BY <1>7 DEF SendChecks, SendStep, Posts
<1>8. ASSUME NEW m \in Msgs, SendQueue(m) PROVE TypeOK'
  BY <1>8 DEF SendQueue, SendStep, Posts
<1>9. ASSUME NEW m \in Msgs, Read(m) PROVE TypeOK'
  BY <1>9 DEF Read
<1>10. QED
  BY <1>1, <1>2, <1>3, <1>4, <1>5, <1>6, <1>7, <1>8, <1>9 DEF SweepStep, SendAny

\* Every step keeps every variable in its type.
LEMMA TypeStep == TypeOK /\ [Next]_vars => TypeOK'
<1> SUFFICES ASSUME TypeOK, [Next]_vars PROVE TypeOK'
  OBVIOUS
<1>1. CASE Next
  BY <1>1, TypeServers, TypeVerbs, TypeOthers DEF Next
<1>2. CASE UNCHANGED vars
  BY <1>2 DEF TypeOK, vars, records, medium
<1>3. QED
  BY <1>1, <1>2

\* The seat's records, processes and histories keep their types, for any number of
\* servers, clerks, runtimes, messages and stops of the broker.
THEOREM TypeCorrect == Spec => []TypeOK
<1>1. QED
  BY TypeInit, TypeStep, PTL DEF Spec

-----------------------------------------------------------------------------
(* Mail.                                                                   *)

LEMMA MailInit == Init => IInv
BY TypeInit, SeatAssumption
   DEF Init, IInv, Kept, MayBegin, MayEnd, DestroyerIsDone, AcceptedKept, MailInQueue,
       PastLook, Clients, Writers

\* A right to end the seat, once found, is kept: what is dead stays dead.
LEMMA RightKept ==
    ASSUME NEW p, Entitled(p), alive' \subseteq alive, verb' = verb,
           p \in Writers => found'[p] = found[p]
    PROVE  Entitled(p)'
BY DEF Entitled, Alive, Writers

\* A step that leaves the mail, its history and the sends alone, and moves at most
\* one process, not into its unsubscribe and not out of its end.
LEMMA QuietStep ==
    ASSUME TypeOK, Kept,
           UNCHANGED <<mail, lost, post, read, found, verb>>,
           exists => exists', alive' \subseteq alive,
           \A p \in Writers : \/ pc'[p] = pc[p]
                              \/ /\ pc'[p] \in PastLook => pc[p] \in PastLook
                                 /\ pc'[p] # "unLoad"
                                 /\ pc[p] \in PastUnsubscribe => pc'[p] \in PastUnsubscribe
    PROVE  Kept'
<1>1. \A p : Entitled(p) => Entitled(p)'
  BY RightKept
<1>2. MayBegin' /\ MayEnd'
  BY <1>1 DEF Kept, MayBegin, MayEnd, Writers
<1>3. DestroyerIsDone'
  BY <1>1 DEF Kept, DestroyerIsDone
<1>4. AcceptedKept' /\ MailInQueue'
  BY DEF Kept, AcceptedKept, MailInQueue
<1>5. QED
  BY <1>2, <1>3, <1>4 DEF Kept

\* The environment and the servers destroy nothing but with the broker, and a
\* server goes on to its unsubscribe only if the row is its own.
LEMMA MailServers ==
    ASSUME IInv,
           \/ \E r \in Runtimes : RuntimeEnds(r)
           \/ \E s \in Servers : Launch(s) \/ ServerStep(s) \/ wait(s) \/ DepartTimesOut(s)
           \/ \E p \in Writers : Killed(p)
           \/ BrokerStops \/ BrokerStarts
    PROVE  Kept'
<1> USE SeatAssumption DEF IInv, TypeOK, Writers, PastLook, PastUnsubscribe, records,
                           medium, Move, Goto
<1>1. ASSUME NEW r \in Runtimes, RuntimeEnds(r) PROVE Kept'
  BY <1>1, QuietStep DEF RuntimeEnds
<1>2. ASSUME NEW s \in Servers, Launch(s) PROVE Kept'
  BY <1>2, QuietStep DEF Launch
<1>3. ASSUME NEW s \in Servers, heldByAnother(s) PROVE Kept'
  BY <1>3, QuietStep DEF heldByAnother
<1>4. ASSUME NEW s \in Servers, displaceOrRefuse(s) PROVE Kept'
  BY <1>4, QuietStep DEF displaceOrRefuse
<1>5. ASSUME NEW s \in Servers, DisplaceRemove(s) PROVE Kept'
  BY <1>5, QuietStep DEF DisplaceRemove
<1>6. ASSUME NEW s \in Servers, claimPIDFile(s) PROVE Kept'
  BY <1>6, QuietStep DEF claimPIDFile
<1>7. ASSUME NEW s \in Servers, ReleaseReads(s) PROVE Kept'
  BY <1>7, QuietStep DEF ReleaseReads
<1>8. ASSUME NEW s \in Servers, ReleaseRemoves(s) PROVE Kept'
  BY <1>8, QuietStep DEF ReleaseRemoves
<1>9. ASSUME NEW s \in Servers, wait(s) PROVE Kept'
  BY <1>9, QuietStep DEF wait
<1>10. ASSUME NEW s \in Servers, DepartTimesOut(s) PROVE Kept'
  BY <1>10, QuietStep DEF DepartTimesOut
<1>11. ASSUME NEW p \in Writers, Killed(p) PROVE Kept'
  BY <1>11, QuietStep DEF Killed
<1>12. ASSUME NEW s \in Servers, depart(s) PROVE Kept'
  <2>1. /\ pc[s] = "leave" /\ found'[s] = row
        /\ pc'[s] = "unLoad" => row = s
        /\ \A p \in Writers : p # s => pc'[p] = pc[p] /\ found'[p] = found[p]
        /\ pc'[s] \in {"unLoad", "relRead"}
        /\ UNCHANGED <<exists, mail, lost, post, read, verb, alive>>
    BY <1>12 DEF depart
  <2>2. \A p : p # s /\ Entitled(p) => Entitled(p)'
    BY <2>1, RightKept
  <2>3. MayBegin' /\ MayEnd'
    BY <2>1, <2>2 DEF Kept, MayBegin, MayEnd
  <2>4. DestroyerIsDone'
    BY <2>1, <2>2 DEF Kept, DestroyerIsDone
  <2>5. AcceptedKept' /\ MailInQueue'
    BY <2>1 DEF Kept, AcceptedKept, MailInQueue
  <2>6. QED
    BY <2>3, <2>4, <2>5 DEF Kept
<1>13. CASE BrokerStops
  <2>1. /\ \A m \in Msgs : lost'[m] = IF m \in mail THEN Medium ELSE lost[m]
        /\ mail' = {} /\ UNCHANGED <<pc, post, read, found, verb, alive>>
    BY <1>13 DEF BrokerStops
  <2>2. Medium # None /\ Medium \notin Servers
    BY DEF Clients
  <2>3. \A p : Entitled(p) => Entitled(p)'
    BY <2>1, RightKept
  <2>4. MayBegin' /\ MayEnd'
    BY <2>1, <2>3 DEF Kept, MayBegin, MayEnd
  <2>5. DestroyerIsDone'
    BY <2>1, <2>3 DEF Kept, DestroyerIsDone
  <2>6. AcceptedKept' /\ MailInQueue'
    BY <2>1, <2>2 DEF Kept, AcceptedKept, MailInQueue
  <2>7. QED
    BY <2>4, <2>5, <2>6 DEF Kept
<1>14. CASE BrokerStarts
  BY <1>14, QuietStep DEF BrokerStarts
<1>15. QED
  BY <1>1, <1>2, <1>3, <1>4, <1>5, <1>6, <1>7, <1>8, <1>9, <1>10, <1>11, <1>12, <1>13, <1>14 DEF ServerStep

\* The verbs destroy mail in one place, where the destroyer is written down.
LEMMA MailVerbs ==
    ASSUME IInv,
           \/ \E c \in Clerks : Clerk(c)
           \/ \E p \in Writers : VerbStep(p)
    PROVE  Kept'
<1> USE SeatAssumption DEF IInv, TypeOK, Writers, PastLook, PastUnsubscribe, records,
                           medium, Move, Goto, Unsubscribed
<1>1. ASSUME NEW c \in Clerks, Clerk(c) PROVE Kept'
  <2>1. /\ pc[c] = "off" /\ pc'[c] = (IF verb[c] = "subscribe" THEN "subLoad" ELSE "unLoad")
        /\ \A p \in Writers : p # c => pc'[p] = pc[p]
        /\ UNCHANGED <<exists, mail, lost, post, read, found, verb, alive>>
    BY <1>1 DEF Clerk
  <2>2. \A p : Entitled(p) => Entitled(p)'
    BY <2>1, RightKept
  <2>3. MayBegin' /\ MayEnd'
    BY <2>1, <2>2 DEF Kept, MayBegin, MayEnd
  <2>4. DestroyerIsDone'
    BY <2>1, <2>2 DEF Kept, DestroyerIsDone
  <2>5. AcceptedKept' /\ MailInQueue'
    BY <2>1 DEF Kept, AcceptedKept, MailInQueue
  <2>6. QED
    BY <2>3, <2>4, <2>5 DEF Kept
<1>2. ASSUME NEW p \in Writers, SubLoad(p) PROVE Kept'
  BY <1>2, QuietStep DEF SubLoad
<1>3. ASSUME NEW p \in Writers, SubSave(p) PROVE Kept'
  BY <1>3, QuietStep DEF SubSave
<1>4. ASSUME NEW p \in Writers, SubQueue(p) PROVE Kept'
  BY <1>4, QuietStep DEF SubQueue, CreateQueue
<1>5. ASSUME NEW p \in Writers, SubJoin(p) PROVE Kept'
  BY <1>5, QuietStep DEF SubJoin
<1>6. ASSUME NEW p \in Writers, UnLoad(p) PROVE Kept'
  <2>1. /\ pc[p] = "unLoad" /\ \A q \in Writers : q # p => pc'[q] = pc[q] /\ found'[q] = found[q]
        /\ pc'[p] = "unLook" => row = None \/ ~Alive(row) \/ Forced(p)
        /\ pc'[p] = "unLook" \/ pc'[p] \in PastUnsubscribe
        /\ p \in Clerks => found'[p] = row
        /\ p \in Servers => found'[p] = found[p]
        /\ UNCHANGED <<exists, mail, lost, post, read, verb, alive>>
    BY <1>6 DEF UnLoad
  <2>2. \A q : q # p /\ Entitled(q) => Entitled(q)'
    BY <2>1, RightKept
  <2>3. pc'[p] = "unLook" => Entitled(p)'
    <3>1. CASE p \in Servers
      BY <2>1, <3>1 DEF Kept, MayBegin, Entitled
    <3>2. CASE p \in Clerks
      <4>1. verb[p] \in {"unsubscribe", "force"}
        BY <2>1, <3>2 DEF Kept, MayBegin
      <4>2. QED
        BY <2>1, <3>2, <4>1 DEF Entitled, Forced, Alive
    <3>3. QED
      BY <3>1, <3>2
  <2>4. MayBegin' /\ MayEnd'
    BY <2>1, <2>2, <2>3 DEF Kept, MayBegin, MayEnd
  <2>5. DestroyerIsDone'
    BY <2>1, <2>2 DEF Kept, DestroyerIsDone
  <2>6. AcceptedKept' /\ MailInQueue'
    BY <2>1 DEF Kept, AcceptedKept, MailInQueue
  <2>7. QED
    BY <2>4, <2>5, <2>6 DEF Kept
<1>7. ASSUME NEW p \in Writers, UnLook(p) PROVE Kept'
  BY <1>7, QuietStep DEF UnLook
<1>8. ASSUME NEW p \in Writers, UnRemove(p) PROVE Kept'
  BY <1>8, QuietStep DEF UnRemove
<1>9. ASSUME NEW p \in Writers, UnDelete(p) PROVE Kept'
  <2>1. CASE ~Reaches(p)
    BY <1>9, <2>1, QuietStep DEF UnDelete
  <2>2. CASE Reaches(p)
    <3>1. /\ \A m \in Msgs : lost'[m] = IF m \in mail THEN p ELSE lost[m]
          /\ mail' = {} /\ pc[p] = "unDelete" /\ pc'[p] \in {"relRead", "gone"}
          /\ \A q \in Writers : q # p => pc'[q] = pc[q]
          /\ UNCHANGED <<post, read, found, verb, alive>>
      BY <1>9, <2>2 DEF UnDelete, DeleteQueue
    <3>2. p # None
      BY DEF Clients
    <3>3. \A q : Entitled(q) => Entitled(q)'
      BY <3>1, RightKept
    <3>4. Entitled(p)'
      BY <3>1, <3>3 DEF Kept, MayEnd
    <3>5. MayBegin' /\ MayEnd'
      BY <3>1, <3>3 DEF Kept, MayBegin, MayEnd
    <3>6. DestroyerIsDone'
      BY <3>1, <3>3, <3>4 DEF Kept, DestroyerIsDone
    <3>7. AcceptedKept' /\ MailInQueue'
      BY <3>1, <3>2 DEF Kept, AcceptedKept, MailInQueue
    <3>8. QED
      BY <3>5, <3>6, <3>7 DEF Kept
  <2>3. QED
    BY <2>1, <2>2
<1>10. QED
  BY <1>1, <1>2, <1>3, <1>4, <1>5, <1>6, <1>7, <1>8, <1>9 DEF VerbStep

\* The sweep destroys nothing, and a send that is accepted is in the queue.
LEMMA MailOthers ==
    ASSUME IInv,
           SweepStep \/ \E m \in Msgs : SendAny(m) \/ Read(m)
    PROVE  Kept'
<1> USE SeatAssumption DEF IInv, TypeOK, records, medium
<1>1. CASE SweepStep
  BY <1>1, QuietStep DEF SweepStep, ListAll, SweepLooks, SweepReaps, ReleaseServerPID,
                         SweepRepairs, CreateQueue
<1>2. ASSUME NEW m \in Msgs, SendAny(m) \/ Read(m)
      PROVE  Kept'
  <2>1. UNCHANGED <<exists, lost, pc, found, verb, alive>>
    BY <1>2 DEF SendAny, SendLooks, SendChecks, SendQueue, Read
  <2>2. MayBegin' /\ MayEnd' /\ DestroyerIsDone'
    BY <2>1, RightKept DEF Kept, MayBegin, MayEnd, DestroyerIsDone
  <2>3. AcceptedKept'
    <3>1. CASE SendLooks(m) \/ SendChecks(m)
      BY <3>1, <2>1 DEF SendLooks, SendChecks, SendStep, Kept, AcceptedKept
    <3>2. CASE SendQueue(m)
      BY <3>2, <2>1 DEF SendQueue, SendStep, Kept, AcceptedKept
    <3>3. CASE Read(m)
      BY <3>3, <2>1 DEF Read, Kept, AcceptedKept
    <3>4. QED
      BY <1>2, <3>1, <3>2, <3>3 DEF SendAny
  <2>4. MailInQueue'
    BY <1>2 DEF SendAny, SendLooks, SendChecks, SendQueue, Read, Kept, MailInQueue
  <2>5. QED
    BY <2>2, <2>3, <2>4 DEF Kept
<1>3. QED
  BY <1>1, <1>2

LEMMA MailStep == IInv /\ [Next]_vars => IInv'
<1> SUFFICES ASSUME IInv, [Next]_vars PROVE IInv'
  OBVIOUS
<1>1. TypeOK'
  BY TypeStep DEF IInv
<1>2. CASE Next
  BY <1>1, <1>2, MailServers, MailVerbs, MailOthers DEF Next, IInv
<1>3. CASE UNCHANGED vars
  BY <1>1, <1>3, QuietStep DEF IInv, vars, records, medium
<1>4. QED
  BY <1>2, <1>3

\* Accepted mail is waiting, read, or destroyed by one entitled to: the broker, a
\* server that found its own row when it left, a forced unsubscribe, or a plain one
\* that found no row or a dead one.  The sweep, a subscribe and a displacement destroy
\* none.  The claim needs where the processes stand: one past its check has the right
\* it found there, and one that destroyed mail never checks again.
THEOREM MailIsAccounted == Spec => []MailAccounted
<1>1. IInv => MailAccounted
  BY DEF IInv, Kept, MailAccounted, DestroyerIsDone, AcceptedKept, MailInQueue, Entitled
<1>2. QED
  BY <1>1, MailInit, MailStep, PTL DEF Spec
=============================================================================
