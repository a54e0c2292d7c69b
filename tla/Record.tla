------------------------------- MODULE Record -------------------------------
(***************************************************************************)
(* The day's record of one seat and the two reports made from it.          *)
(*                                                                         *)
(* Senders, the seat's readers, its bell and whoever destroys its queue    *)
(* each append lines to a day file (internal/loc/log.go), with no lock and *)
(* after the fact the line tells; an append that fails is swallowed, and   *)
(* the writer goes on.  `loc transcript` says from the lines               *)
(* alone what became of each message (cmd/loc/transcript.go); `loc status` *)
(* says whether the seat's bell is trying in vain (cmd/loc/presence.go,    *)
(* bellStreaks).  The model keeps the facts beside the lines, so that what *)
(* the reports say can be compared with what is so.                        *)
(*                                                                         *)
(* Lines are stamped in whole seconds; a registration is stamped finer.    *)
(* The clock is UTC and counts ticks: a second has TicksPerSecond of them, *)
(* and a day SecondsPerDay seconds.  Lines of other seats carry another    *)
(* key and are never looked at.  A writer reads the clock and appends in   *)
(* one step, and so does a bell that counts a try (Bell has those apart).  *)
(*                                                                         *)
(* A seat may hear more than one bell: a server that lost its row to a     *)
(* later server of its runtime, or to a forced unsubscribe, rings on and   *)
(* writes its lines under the seat's name until it ends.  A server that    *)
(* has ended is one whose bell takes no more steps.                        *)
(***************************************************************************)
EXTENDS Naturals, Sequences

CONSTANTS
    Msgs,           \* messages to the seat, one `loc send` each
    None,
    Results,        \* what a try of the bell may come to
    MaxTries,       \* tries in a streak of the bell
    TicksPerSecond, SecondsPerDay,
    MaxTime,        \* bound: ticks of the clock
    MaxTrials,      \* bound: tries of the bell in all
    MaxSeatings,    \* bound: registrations of the seat
    MaxFaults       \* bound: processes killed, publishes and appends that fail

ASSUME RecordAssumption ==
    /\ Results \subseteq {"rang", "refused", "suppressed", "failed", "held"}
    /\ None \notin Msgs \cup Nat \cup {"seat", "rang", "refused", "suppressed", "failed", "held"}
    /\ {MaxTries, TicksPerSecond, SecondsPerDay} \subseteq Nat \ {0}
    /\ {MaxTime, MaxTrials, MaxSeatings, MaxFaults} \subseteq Nat

VARIABLES
    now,        \* the clock, in ticks
    files,      \* the day files, in the order of their names
    row,        \* the seat's registration, or None
    queue,      \* does the seat have a queue
    mail,       \* what is in it
    post,       \* how far each send has come
    stamp,      \* the second on each envelope
    taken,      \* messages a reader has acknowledged
    unrecorded, \* of them, those whose `read` line is still to be written
    leaver,     \* how far the unsubscribe that is under way has come
    streak,     \* the bell of each registration
    seatings, trials, faults,
    lastBell,   \* history: the registration and line of the last bell line
    unwritten,  \* history: of the lines that were never written, the uid and the status
    loss        \* history: was each message lost with its queue, and is the loss
                \* on record: in a later second than the send, or in the same

seat == <<row, queue, leaver>>
facts == <<mail, taken, unrecorded>>
sends == <<post, stamp>>
bell == <<streak, trials, lastBell>>
failures == <<faults, unwritten>>
vars == <<now, files, seat, facts, sends, bell, seatings, failures, loss>>

Second(t) == t \div TicksPerSecond
Day(s) == s \div SecondsPerDay
LastDay == Day(Second(MaxTime)) + 1
Days == 1 .. LastDay
Seatings == 1 .. MaxSeatings
Quiet == [tries |-> 0, rangs |-> 0, ending |-> "no"]

Init ==
    /\ now = 0 /\ files = [d \in Days |-> <<>>]
    /\ row = None /\ queue = FALSE /\ leaver = "off"
    /\ mail = {} /\ taken = {} /\ unrecorded = {}
    /\ post = [m \in Msgs |-> "new"] /\ stamp = [m \in Msgs |-> 0]
    /\ streak = [n \in Seatings |-> Quiet]
    /\ seatings = 0 /\ trials = 0 /\ faults = 0
    /\ lastBell = None /\ unwritten = {} /\ loss = [m \in Msgs |-> "no"]

Fault == faults < MaxFaults /\ faults' = faults + 1

Tick == now < MaxTime /\ now' = now + 1
        /\ UNCHANGED <<files, seat, facts, sends, bell, seatings, failures, loss>>

-----------------------------------------------------------------------------
(* Writing the record.  Every line has the same fields here: a message line *)
(* has a uid and no seat, a seat line a seat and no uid.                    *)

Seconds == 0 .. Second(MaxTime)
Statuses == {"sent", "failed", "read", "bell-try", "bell-gave-up", "queue-deleted"}
Lines == [status : Statuses,
          uid : Msgs \cup {None}, seat : {"seat", None}, to : {"seat", None}, ts : Seconds,
          try : 0 .. MaxTries, result : Results \cup {None}, rang : 0 .. MaxTrials]
ASSUME NoneIsNoLine == None \notin Lines

Line(status, uid, to, ts) ==
    [status |-> status, uid |-> uid, seat |-> None, to |-> to, ts |-> ts,
     try |-> 0, result |-> None, rang |-> 0]
SeatLine(status, ts, try, result, rang) ==
    [status |-> status, uid |-> None, seat |-> "seat", to |-> None, ts |-> ts,
     try |-> try, result |-> result, rang |-> rang]

\* One append, to the file of the day the clock it is handed names.  No caller
\* hears of one that fails: a full disk, a directory that cannot be written.
Appends(at, line) == files' = [files EXCEPT ![Day(at) + 1] = Append(@, line)]
LogEvent(at, line) ==
    \/ Appends(at, line) /\ UNCHANGED failures
    \/ Fault /\ unwritten' = unwritten \cup {<<line.uid, line.status>>} /\ UNCHANGED files
\* Of a step that appends: the line is on record.
OnRecord == faults' = faults

\* Mutant: the file is the day's on which the line is written.
LogSentToday(m) == LogEvent(Second(now), Line("sent", m, "seat", stamp[m]))

LogSent(m) == LogEvent(stamp[m], Line("sent", m, "seat", stamp[m]))
LogFailed(m) == LogEvent(stamp[m], Line("failed", m, "seat", stamp[m]))
LogRead(m) == LogEvent(Second(now), Line("read", m, None, Second(now)))
LogBellTry(try, result) ==
    LogEvent(Second(now), SeatLine("bell-try", Second(now), try, result, 0))
LogBellGaveUp(rang, last) ==
    LogEvent(Second(now), SeatLine("bell-gave-up", Second(now), MaxTries, last, rang))
LogQueueDeleted == LogEvent(Second(now), SeatLine("queue-deleted", Second(now), 0, None, 0))

-----------------------------------------------------------------------------
(* send: the envelope is stamped first, the line is written last.          *)

Goto(m, from, to) == post[m] = from /\ post' = [post EXCEPT ![m] = to]

\* Nobody's identity, or a body that is too long: refused at once.
SendBegins(m) ==
    /\ \/ Goto(m, "new", "stamped")
       \/ Goto(m, "new", "refused")
    /\ stamp' = [stamp EXCEPT ![m] = Second(now)]
    /\ UNCHANGED <<now, files, seat, facts, bell, seatings, failures, loss>>

\* Is there a queue, and is there a row.
SendLooks(m) ==
    /\ \/ Goto(m, "stamped", IF queue THEN "queued" ELSE "refused") /\ UNCHANGED faults
       \/ Goto(m, "queued", IF row # None THEN "checked" ELSE "refused") /\ UNCHANGED faults
       \/ Goto(m, "stamped", "refused") /\ Fault
    /\ UNCHANGED <<now, files, seat, facts, stamp, bell, seatings, unwritten, loss>>

\* The store's answer may be lost for a message it kept.
SendQueue(m) ==
    /\ \/ queue /\ mail' = mail \cup {m} /\ Goto(m, "checked", "stored") /\ UNCHANGED faults
       \/ queue /\ mail' = mail \cup {m} /\ Goto(m, "checked", "refused") /\ Fault
       \/ ~queue /\ Goto(m, "checked", "refused") /\ UNCHANGED <<mail, faults>>
    /\ UNCHANGED <<now, files, seat, taken, unrecorded, stamp, bell, seatings, unwritten, loss>>

SendEnds(m) ==
    /\ \/ Goto(m, "stored", "sent") /\ LogSent(m)
       \/ Goto(m, "refused", "failed") /\ LogFailed(m)
    /\ UNCHANGED <<now, seat, facts, stamp, bell, seatings, loss>>

SendKilled(m) ==
    /\ post[m] \in {"stored", "refused"} /\ Fault
    /\ post' = [post EXCEPT ![m] = "killed"]
    /\ UNCHANGED <<now, files, seat, facts, stamp, bell, seatings, unwritten, loss>>

-----------------------------------------------------------------------------
(* The seat: its readers, its registration and its queue.                  *)

Ack(m) ==
    /\ m \in mail
    /\ mail' = mail \ {m} /\ taken' = taken \cup {m} /\ unrecorded' = unrecorded \cup {m}
    /\ UNCHANGED <<now, files, seat, sends, bell, seatings, failures, loss>>

ReadEnds(m) ==
    /\ m \in unrecorded
    /\ unrecorded' = unrecorded \ {m}
    /\ LogRead(m)
    /\ UNCHANGED <<now, seat, mail, taken, sends, bell, seatings, loss>>

\* The row first, then the queue; a queue that was kept is adopted with its mail.
subscribe ==
    /\ row = None /\ seatings < MaxSeatings
    /\ row' = [n |-> seatings + 1, at |-> now] /\ seatings' = seatings + 1
    /\ UNCHANGED <<now, files, queue, leaver, facts, sends, streak, trials, lastBell, failures, loss>>
CreateQueue ==
    /\ row # None /\ ~queue
    /\ queue' = TRUE
    /\ UNCHANGED <<now, files, row, leaver, facts, sends, bell, seatings, failures, loss>>

\* The row is removed and the queue kept: the occupant is dead, or an earlier
\* server of the runtime that now takes the seat.
displaceOrRefuse ==
    /\ row # None
    /\ row' = None
    /\ UNCHANGED <<now, files, queue, leaver, facts, sends, bell, seatings, failures, loss>>

\* unsubscribe: the row, the queue, the line.
unsubscribe ==
    /\ \/ leaver = "off" /\ row # None /\ leaver' = "row" /\ row' = None
          /\ UNCHANGED <<files, queue, mail, failures, loss>>
       \/ leaver = "row" /\ leaver' = "queue"
          /\ queue' = FALSE /\ mail' = {}
          /\ loss' = [m \in Msgs |-> IF m \in mail THEN "unrecorded" ELSE loss[m]]
          /\ UNCHANGED <<files, row, failures>>
       \/ leaver = "queue" /\ leaver' = "off"
          /\ LogQueueDeleted
          /\ loss' = [m \in Msgs |-> CASE loss[m] # "unrecorded" -> loss[m]
                                      [] loss[m] = "unrecorded" /\ ~OnRecord -> "never"
                                      [] OTHER -> IF Second(now) > stamp[m] THEN "later" ELSE "same"]
          /\ UNCHANGED <<row, queue, mail>>
    /\ UNCHANGED <<now, taken, unrecorded, sends, bell, seatings>>

LeaverKilled ==
    /\ leaver # "off" /\ Fault
    /\ leaver' = "off"
    /\ loss' = [m \in Msgs |-> IF loss[m] = "unrecorded" THEN "never" ELSE loss[m]]
    /\ UNCHANGED <<now, files, row, queue, facts, sends, bell, seatings, unwritten>>

-----------------------------------------------------------------------------
(* The bells, as far as they write lines.                                  *)

\* The line is a line of the bell of registration n.
Rings(n, stopped) ==
    lastBell' = IF OnRecord THEN [n |-> n, ts |-> Second(now), stopped |-> stopped] ELSE lastBell

\* A try rings first and is written after: the mail may be gone by then.  A
\* held try does not count.
counted(n, before, result) ==
    LET try == before.tries + 1
        held == result = "held"
        rangs == before.rangs + (IF result = "rang" THEN 1 ELSE 0)
    IN  /\ trials < MaxTrials /\ trials' = trials + 1
        /\ LogBellTry(try, result)
        /\ streak' = [streak EXCEPT ![n] =
               [tries |-> IF held THEN before.tries ELSE try, rangs |-> rangs,
                ending |-> IF ~held /\ try = MaxTries THEN result ELSE "no"]]
        /\ Rings(n, FALSE)

\* New mail opens a new streak, whatever stood.  Mail that is not followed here
\* comes at any time, a server that starts rings for what waits, and a streak that
\* an empty queue ended is followed by a new one.
fire(n, result) ==
    /\ n <= seatings /\ streak[n].ending = "no"
    /\ counted(n, Quiet, result)
    /\ UNCHANGED <<now, seat, facts, sends, seatings, loss>>

\* A queue that cannot be counted is a failed try.
again(n, result) ==
    /\ n <= seatings /\ streak[n].ending = "no"
    /\ mail # {} \/ result = "failed"
    /\ counted(n, streak[n], result)
    /\ UNCHANGED <<now, seat, facts, sends, seatings, loss>>

GaveUp(n) ==
    /\ n <= seatings /\ streak[n].ending # "no"
    /\ LogBellGaveUp(streak[n].rangs, streak[n].ending)
    /\ streak' = [streak EXCEPT ![n] = Quiet]
    /\ Rings(n, TRUE)
    /\ UNCHANGED <<now, seat, facts, sends, trials, seatings, loss>>

-----------------------------------------------------------------------------
(* Reading it back: loc transcript.                                        *)

\* A line of the record is at a place: its file, and where it is in it.
Places == UNION {{d} \X DOMAIN files[d] : d \in Days}
At(p) == files[p[1]][p[2]]

\* ReadEvents: the files by name, and the lines in each as they were appended.
Precedes(p, q) == p[1] < q[1] \/ (p[1] = q[1] /\ p[2] < q[2])
FirstOf(S) == CHOOSE p \in S : \A q \in S : p = q \/ Precedes(p, q)
LastOf(S) == CHOOSE p \in S : \A q \in S : p = q \/ Precedes(q, p)

\* The lines of a message; the first of them names it.
join(m) == {p \in Places : At(p).uid = m}
Recorded == {m \in Msgs : join(m) # {}}
first(m) == At(FirstOf(join(m)))

\* The seat lines of the message's seat that are later than its first.
After(m) == {p \in Places : /\ At(p).seat # None /\ At(p).seat = first(m).to
                            /\ At(p).ts > first(m).ts}
\* By stamp, and where the stamps are equal by place.
Sooner(p, q) == At(p).ts < At(q).ts \/ (At(p).ts = At(q).ts /\ (p = q \/ Precedes(p, q)))
Soonest(S) == CHOOSE p \in S : \A q \in S : Sooner(p, q)
Latest(S) == CHOOSE p \in S : \A q \in S : Sooner(q, p)

\* Mutant: the newest seat line of either kind decides.
NewestSeatEvent(m) == IF After(m) = {} THEN None ELSE At(Latest(After(m)))

\* What decides the fate of a message nobody has read: the earliest deletion of
\* its queue after the send, else the latest line of the bell after the send.
lastSeatEvent(m) ==
    LET Deleted == {p \in After(m) : At(p).status = "queue-deleted"}
        Bell == {p \in After(m) : At(p).status \in {"bell-try", "bell-gave-up"}}
    IN  IF Deleted # {} THEN At(Soonest(Deleted))
        ELSE IF Bell # {} THEN At(Latest(Bell))
        ELSE None

\* The outcome is the last line of the message, in the order of the record; one
\* that was sent and no more is pending, or lost with its queue.
outcomes(m) ==
    LET last == At(LastOf(join(m))).status
        seatEvent == lastSeatEvent(m)
    IN  CASE last # "sent" -> last
          [] last = "sent" /\ seatEvent # None /\ seatEvent.status = "queue-deleted" -> "lost"
          [] OTHER -> "pending"

\* Mutant: a lost message is not one that anybody waits for.
PendingOnly(m) == outcomes(m) = "pending" /\ first(m).to # None

\* transcript --pending: sent and no more, to a name that can be an endpoint.
keepMessage(m) == outcomes(m) \in {"pending", "lost"} /\ first(m).to # None

transcript == {m \in Recorded : keepMessage(m)}

-----------------------------------------------------------------------------
(* Reading it back: loc status.                                            *)

NoStreak == [try |-> 0, result |-> None, ts |-> 0, stopped |-> FALSE, rang |-> 0,
             last |-> None, heldSince |-> None]

\* Mutant: a held try starts its own spell.
HeldNow(prev, e) == IF e.result = "held" THEN e.ts ELSE None

\* A held try after a held try keeps the first one's stamp.
heldSince(prev, e) ==
    IF e.result # "held" THEN None
    ELSE IF ~prev.stopped /\ prev.result = "held" /\ prev.heldSince # None THEN prev.heldSince
    ELSE e.ts

\* What stands after one more line: the streak, and the last read.
Scan(sofar, e) ==
    CASE e.status = "bell-try" ->
            [sofar EXCEPT !.streak = [try |-> e.try, result |-> e.result, ts |-> e.ts,
                                      stopped |-> FALSE, rang |-> 0, last |-> None,
                                      heldSince |-> heldSince(sofar.streak, e)]]
      [] e.status = "bell-gave-up" ->
            [sofar EXCEPT !.streak = [@ EXCEPT !.stopped = TRUE, !.ts = e.ts, !.rang = e.rang,
                                               !.last = e.result]]
      [] e.status = "read" ->
            [sofar EXCEPT !.lastRead = IF @ = None THEN e.ts ELSE IF e.ts > @ THEN e.ts ELSE @]
      [] OTHER -> sofar

\* Line by line through a file, and through the files.
ScanFile(before, file) ==
    LET at[n \in 0 .. Len(file)] ==
            IF n = 0 THEN before ELSE Scan(at[n - 1], file[n])
    IN  at[Len(file)]
ScanFiles(record) ==
    LET after[d \in 0 .. LastDay] ==
            IF d = 0 THEN [streak |-> NoStreak, lastRead |-> None]
            ELSE ScanFile(after[d - 1], record[d])
    IN  after[LastDay]
Scanned == ScanFiles(files)

\* Mutant: the line must be no older than the registration's own tick.
OldAsWritten(ts, at) == ts * TicksPerSecond < at

\* A streak of a previous occupant: older than the second of the registration.
Old(ts, at) == ts < Second(at)

\* The streak that stands for the registered seat, or NoStreak.
bellStreaks ==
    LET scanned == Scanned
        s == scanned.streak
        hidden == \/ s = NoStreak \/ row = None
                  \/ Old(s.ts, row.at)
                  \/ scanned.lastRead # None /\ scanned.lastRead > s.ts
    IN  IF hidden THEN NoStreak ELSE s

-----------------------------------------------------------------------------

Next ==
    \/ Tick
    \/ \E m \in Msgs : \/ SendBegins(m) \/ SendLooks(m) \/ SendQueue(m) \/ SendEnds(m)
                       \/ SendKilled(m) \/ Ack(m) \/ ReadEnds(m)
    \/ subscribe \/ CreateQueue \/ displaceOrRefuse \/ unsubscribe \/ LeaverKilled
    \/ \E n \in Seatings : \/ GaveUp(n)
                           \/ \E result \in Results : fire(n, result) \/ again(n, result)

Spec == Init /\ [][Next]_vars

-----------------------------------------------------------------------------
(* Properties.                                                             *)

\* The facts and the lines keep their types; every line is in the file of the
\* day it is stamped with, a send that crosses midnight included, and none is
\* stamped ahead of the clock.
Posts == {"new", "stamped", "queued", "checked", "stored", "refused", "sent", "failed", "killed"}
Losses == {"no", "unrecorded", "never", "later", "same"}
TypeOK ==
    /\ now \in 0 .. MaxTime /\ files \in [Days -> Seq(Lines)]
    /\ \A p \in Places : At(p).ts <= Second(now) /\ p[1] = Day(At(p).ts) + 1
    /\ row = None \/ (row.n \in 1 .. seatings /\ row.at \in 0 .. now)
    /\ queue \in BOOLEAN /\ (mail # {} => queue) /\ leaver \in {"off", "row", "queue"}
    /\ mail \subseteq Msgs /\ unrecorded \subseteq taken /\ taken \subseteq Msgs
    /\ post \in [Msgs -> Posts] /\ loss \in [Msgs -> Losses]
    /\ stamp \in [Msgs -> Seconds] /\ \A m \in Msgs : stamp[m] <= Second(now)
    /\ unwritten \subseteq (Msgs \cup {None}) \X Statuses
    /\ \A n \in Seatings : /\ streak[n].tries \in 0 .. MaxTries /\ streak[n].rangs \in 0 .. trials
                           /\ streak[n].ending \in Results \cup {"no"}
    /\ seatings \in 0 .. MaxSeatings /\ trials \in 0 .. MaxTrials /\ faults \in 0 .. MaxFaults

\* The `read` line was written before the `sent` line: the reader was faster
\* than the sender's own line, on the same day.
ReadFirst(m) == join(m) # {} /\ first(m).status = "read"

\* A line of the message was never written: its append failed.
Swallowed(m, status) == <<m, status>> \in unwritten

\* The transcript can be believed.  What it calls read was taken by a reader;
\* what it calls failed was never said to be accepted; what it calls lost was
\* not read, unless the reading is not on record; and what it calls pending is
\* waiting, unless its loss or its reading is not on record, was recorded in the
\* very second of the send, or is recorded ahead of the send.
OutcomesTrue ==
    \A m \in Recorded :
        LET outcome == outcomes(m)
            unseen == m \in unrecorded \/ Swallowed(m, "read") \/ ReadFirst(m)
        IN  CASE outcome = "read" -> m \in taken
              [] outcome = "failed" -> post[m] = "failed"
              [] outcome = "lost" -> m \in taken => unseen
              [] outcome = "pending" ->
                    m \in mail \/ unseen \/ loss[m] \in {"unrecorded", "never", "same"}

\* No mail that waits is hidden: a message whose sender was told it is sent is
\* listed by `transcript --pending` for as long as it stays in the queue, whatever
\* lines of deletions, bells and other occupants came meanwhile, unless the
\* append of its own `sent` line failed: the sender is told `sent` all the same.
WaitingIsListed ==
    \A m \in mail : post[m] = "sent" => m \in transcript \/ Swallowed(m, "sent")

\* A bell that rings in vain is shown: while a seat is registered and the last
\* line of any bell is one of the occupant's own, that line stands in the report
\* until a read comes after it, be it written in the very second of the
\* registration.  A later line of an earlier server's bell replaces it there.
VainBellShown ==
    row # None /\ lastBell # None /\ lastBell.n = row.n
        /\ (\A p \in Places : At(p).status = "read" => At(p).ts <= lastBell.ts)
    => bellStreaks # NoStreak /\ bellStreaks.ts = lastBell.ts
                              /\ bellStreaks.stopped = lastBell.stopped

\* "Held since" is when the receiver first said so: the stamp of the earliest of
\* the unbroken run of held tries that ends the record, as the lines have it.
Tries == {p \in Places : At(p).status \in {"bell-try", "bell-gave-up"}}
Run == {p \in Tries : \A q \in Tries :
            p = q \/ Precedes(p, q) => At(q).status = "bell-try" /\ At(q).result = "held"}
HeldSinceFirst == Run # {} => Scanned.streak.heldSince = At(FirstOf(Run)).ts
=============================================================================
