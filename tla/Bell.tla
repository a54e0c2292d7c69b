-------------------------------- MODULE Bell --------------------------------
(***************************************************************************)
(* The bell of one seat (internal/mcpserve/bell.go): arrivals are          *)
(* coalesced over a window, the seat's notifier is rung, and a streak of   *)
(* tries follows while mail stays unread.  The code guards its fields with *)
(* one mutex and leaves it around every call that can block (the broker's  *)
(* count, the notifier), so a step of this model is one critical section   *)
(* or one blocking call, and the goroutines interleave between them.       *)
(*                                                                         *)
(* Goroutines: Main (starts and stops the bell), Link (the NATS client's   *)
(* callback goroutine, which runs the loss and reconnect callbacks one     *)
(* after the other), and Timers (those that expired timers start).         *)
(* Arrivals come from the subscription's own goroutine, which only ever    *)
(* runs one critical section and needs no program counter.                 *)
(***************************************************************************)
EXTENDS Naturals, Sequences, FiniteSets

CONSTANTS
    Msgs,            \* messages that can be sent to the seat
    Senders,         \* the seats that send them
    From,            \* the sender the watch reads from each message
    NoName,          \* From of an envelope that does not parse
    Main, Link,      \* the two long-lived goroutines
    Timers,          \* bound: timer goroutines alive at once
    MaxTries,        \* wake_tries
    PerMin, PerHour, \* the breaker's caps
    MinutesPerHour,
    MaxClock,        \* bound: minutes that pass
    MaxFlaps,        \* bound: connection losses
    Answers,         \* what the notifier may answer; "never" is none at all
    UnreadFails      \* may the broker's count time out on a live connection

ASSUME BellAssumption ==
    /\ IsFiniteSet(Msgs) /\ IsFiniteSet(Timers)
    /\ NoName \notin Senders /\ From \in [Msgs -> Senders \cup {NoName}]
    /\ Main # Link /\ Main \notin Timers /\ Link \notin Timers
    /\ MaxTries \in Nat \ {0} /\ PerMin \in Nat \ {0} /\ PerHour \in Nat \ {0}
    /\ MinutesPerHour \in Nat \ {0} /\ MaxClock \in Nat /\ MaxFlaps \in Nat
    /\ Answers \subseteq {"rang", "refused", "held", "failed", "never"}
    /\ UnreadFails \in BOOLEAN

VARIABLES
    \* the fields of the bell struct
    pending, timer, stopped, tryTimer, tries, rangs, senders, blind,
    streakSenders, streakN, cut, back, minuteBucket, minuteN, hourN, tripped,
    \* timers still running that no field names any more
    looseWindows, looseTries,
    \* the goroutines: where each is, and what it carries between sections
    pc, look, who, result, charge,
    \* the medium: mail sent and unread, copies on the watch's wire, the
    \* watch's connection, its undelivered callbacks, the counting connection
    sent, queue, wire, link, events, flaps, conn, clock,
    \* history: mail no try has announced, rings that kept their charge by
    \* the minute and the hour that paid for them
    untold, rungMinute, rungHour

windowVars == <<pending, senders, blind, timer, looseWindows>>
streakVars == <<tryTimer, looseTries, tries, rangs, streakSenders, streakN>>
breakerVars == <<minuteBucket, minuteN, hourN, tripped, charge, rungMinute, rungHour>>
mediumVars == <<sent, queue, wire, link, events, flaps, conn, clock>>
linkVars == <<cut, back>>
threadVars == <<pc, look, who, result>>
vars == <<windowVars, streakVars, breakerVars, mediumVars, linkVars,
          threadVars, untold, stopped>>

Threads == Timers \cup {Main, Link}
Hour(minute) == minute \div MinutesPerHour
Minutes == 0 .. MaxClock
Hours == 0 .. Hour(MaxClock)

Init ==
    /\ pending = 0 /\ timer = "nil" /\ stopped = FALSE
    /\ tryTimer = "nil" /\ tries = 0 /\ rangs = 0
    /\ senders = {} /\ blind = FALSE /\ streakSenders = {} /\ streakN = 0
    /\ cut = FALSE /\ back = FALSE
    /\ minuteBucket = 0 /\ minuteN = 0 /\ hourN = 0 /\ tripped = FALSE
    /\ looseWindows = 0 /\ looseTries = 0
    /\ pc = [t \in Threads |-> IF t = Main THEN "backlog" ELSE "idle"]
    /\ look = [t \in Threads |-> {}]
    /\ who = [t \in Threads |-> {}]
    /\ result = [t \in Threads |-> "none"]
    /\ charge = [t \in Threads |-> 0]
    /\ queue \in SUBSET Msgs /\ sent = queue /\ wire = {}
    /\ link = "up" /\ events = <<>> /\ flaps = 0 /\ conn = "none" /\ clock = 0
    /\ untold = queue
    /\ rungMinute = [m \in Minutes |-> 0] /\ rungHour = [h \in Hours |-> 0]

-----------------------------------------------------------------------------
(* The medium, as the bell meets it.                                       *)

\* A send is stored; while the watch is connected it also gets a copy.
Publish(m) ==
    /\ m \notin sent
    /\ sent' = sent \cup {m} /\ queue' = queue \cup {m}
    /\ wire' = IF link = "up" THEN wire \cup {m} ELSE wire
    /\ untold' = untold \cup {m}
    /\ UNCHANGED <<windowVars, streakVars, breakerVars, linkVars, threadVars,
                   link, events, flaps, conn, clock, stopped>>

\* The seat takes a message; two readers of one seat may take them out of order.
Take(m) ==
    /\ m \in queue
    /\ queue' = queue \ {m} /\ untold' = untold \ {m}
    /\ UNCHANGED <<windowVars, streakVars, breakerVars, linkVars, threadVars,
                   sent, wire, link, events, flaps, conn, clock, stopped>>

\* The broker's connections drop.  Copies the client had already received are
\* still handed on, the others are gone; the watch will reconnect, but the
\* counting connection was dialled with NoReconnect and is closed for good.
LinkDown ==
    /\ link = "up" /\ flaps < MaxFlaps
    /\ link' = "down" /\ flaps' = flaps + 1
    /\ events' = Append(events, "disconnected")
    /\ wire' \in SUBSET wire
    /\ conn' = IF conn = "open" THEN "closed" ELSE conn
    /\ UNCHANGED <<windowVars, streakVars, breakerVars, linkVars, threadVars,
                   sent, queue, clock, untold, stopped>>

LinkUp ==
    /\ link = "down"
    /\ link' = "up" /\ events' = Append(events, "reconnected")
    /\ UNCHANGED <<windowVars, streakVars, breakerVars, linkVars, threadVars,
                   sent, queue, wire, flaps, conn, clock, untold, stopped>>

Tick ==
    /\ clock < MaxClock
    /\ clock' = clock + 1
    /\ UNCHANGED <<windowVars, streakVars, breakerVars, linkVars, threadVars,
                   sent, queue, wire, link, events, flaps, conn, untold, stopped>>

-----------------------------------------------------------------------------
(* Moves of the bell's own parts that several critical sections share.     *)

Goto(t, label) == pc' = [pc EXCEPT ![t] = label]

\* AfterFunc stored over a field that still names a running timer leaves that
\* timer running and unnamed, and so does forgetting it without Stop.
StrayTry == IF tryTimer = "armed" THEN looseTries + 1 ELSE looseTries
StrayWindow == IF timer = "armed" THEN looseWindows + 1 ELSE looseWindows

\* Mutant: the streak's fields are cleared and its timer is forgotten.
ClearForgetsTimer ==
    /\ UNCHANGED <<tryTimer, looseTries>>
    /\ tries' = 0 /\ rangs' = 0 /\ streakSenders' = {} /\ streakN' = 0

clearStreak ==
    /\ tryTimer' = "nil" /\ looseTries' = looseTries
    /\ tries' = 0 /\ rangs' = 0 /\ streakSenders' = {} /\ streakN' = 0

note(s) == IF s = NoName THEN senders ELSE senders \cup {s}

\* Who a later try may name when the broker counts n messages.
laterNames(n) ==
    LET names == streakSenders \cup senders
        known == streakN + pending
    IN  IF \/ streakSenders = {} \/ blind \/ cut
           \/ n > known
           \/ Cardinality(names) > 1 /\ n # known
        THEN {} ELSE names

-----------------------------------------------------------------------------
(* The subscription's goroutine.                                           *)

\* Mutant: the window opens on the second arrival.
OpensLate == IF timer = "nil" /\ pending > 0 THEN "armed" ELSE timer

\* The first arrival opens the window; later ones fall into it.
OpenWindow == IF timer = "nil" THEN "armed" ELSE timer

arrived(m) ==
    /\ m \in wire
    /\ wire' = wire \ {m}
    /\ IF stopped THEN UNCHANGED windowVars
       ELSE /\ pending' = pending + 1
            /\ blind' = (blind \/ From[m] = NoName)
            /\ senders' = note(From[m])
            /\ timer' = OpenWindow
            /\ UNCHANGED looseWindows
    /\ UNCHANGED <<streakVars, breakerVars, linkVars, threadVars, sent, queue,
                   link, events, flaps, conn, clock, untold, stopped>>

-----------------------------------------------------------------------------
(* The client's callback goroutine: one callback at a time, in order.      *)

disconnected ==
    /\ pc[Link] = "idle" /\ events # <<>> /\ Head(events) = "disconnected"
    /\ events' = Tail(events)
    /\ cut' = TRUE /\ back' = FALSE
    /\ UNCHANGED <<windowVars, streakVars, breakerVars, threadVars, sent, queue,
                   wire, link, flaps, conn, clock, untold, stopped>>

\* Mutant: the reconnect asks for no count.
ReconnectUnheeded == UNCHANGED pc

HeedReconnect == Goto(Link, "backlog")

reconnected ==
    /\ pc[Link] = "idle" /\ events # <<>> /\ Head(events) = "reconnected"
    /\ events' = Tail(events)
    /\ HeedReconnect
    /\ UNCHANGED <<windowVars, streakVars, breakerVars, linkVars, look, who, result,
                   sent, queue, wire, link, flaps, conn, clock, untold, stopped>>

-----------------------------------------------------------------------------
(* Runtime timers expiring: each starts a goroutine.                       *)

TimerStarts(t, label) ==
    /\ t \in Timers /\ pc[t] = "idle"
    /\ Goto(t, label)
    /\ UNCHANGED <<look, who, result, breakerVars, linkVars, mediumVars,
                   untold, stopped>>

WindowFires(t) ==
    /\ TimerStarts(t, "fire")
    /\ timer = "armed" /\ timer' = "fired"
    /\ UNCHANGED <<pending, senders, blind, looseWindows, streakVars>>

LooseWindowFires(t) ==
    /\ TimerStarts(t, "fire")
    /\ looseWindows > 0 /\ looseWindows' = looseWindows - 1
    /\ UNCHANGED <<pending, senders, blind, timer, streakVars>>

TryFires(t) ==
    /\ TimerStarts(t, "again")
    /\ tryTimer = "armed" /\ tryTimer' = "fired"
    /\ UNCHANGED <<windowVars, looseTries, tries, rangs, streakSenders, streakN>>

LooseTryFires(t) ==
    /\ TimerStarts(t, "again")
    /\ looseTries > 0 /\ looseTries' = looseTries - 1
    /\ UNCHANGED <<windowVars, tryTimer, tries, rangs, streakSenders, streakN>>

-----------------------------------------------------------------------------
(* Unread: the broker's count over the provider's one connection, dialled  *)
(* on first use and never again.  The code sees Cardinality(queue).        *)

UnreadAnswers ==
    /\ \/ conn = "open"
       \/ conn = "none" /\ link = "up"
    /\ conn' = "open"

UnreadErrs ==
    \/ conn = "closed" /\ UNCHANGED conn
    \/ conn = "none" /\ link # "up" /\ UNCHANGED conn
    \/ UnreadFails /\ conn = "open" /\ UNCHANGED conn
    \/ UnreadFails /\ conn = "none" /\ link = "up" /\ conn' = "open"

(* backlog, in its three parts: note the reconnect, ask, set the figure.   *)

BacklogBegins(t) ==
    /\ pc[t] = "backlog"
    /\ back' = (back \/ cut)
    /\ Goto(t, "backlogCount")
    /\ UNCHANGED <<windowVars, streakVars, breakerVars, cut, look, who, result,
                   mediumVars, untold, stopped>>

BacklogAsks(t) ==
    /\ pc[t] = "backlogCount"
    /\ \/ UnreadAnswers /\ Goto(t, "backlogSet") /\ look' = [look EXCEPT ![t] = queue]
       \/ UnreadErrs /\ Goto(t, "idle") /\ UNCHANGED look
    /\ UNCHANGED <<windowVars, streakVars, breakerVars, linkVars, who, result,
                   sent, queue, wire, link, events, flaps, clock, untold, stopped>>

BacklogSets(t) ==
    LET n == Cardinality(look[t])
    IN  /\ pc[t] = "backlogSet"
        /\ look' = [look EXCEPT ![t] = {}]
        /\ IF stopped THEN Goto(t, "idle") /\ UNCHANGED <<cut, windowVars>>
           ELSE /\ cut' = FALSE
                /\ senders' = IF cut THEN {} ELSE senders
                /\ IF n = 0 THEN Goto(t, "idle") /\ UNCHANGED <<pending, blind, timer>>
                   ELSE /\ pending' = IF n > pending THEN n ELSE pending
                        /\ blind' = (blind \/ n > pending \/ cut)
                        /\ timer' = "nil"
                        /\ Goto(t, "fire")
                /\ UNCHANGED looseWindows
        /\ UNCHANGED <<streakVars, breakerVars, back, who, result,
                       mediumVars, untold, stopped>>

-----------------------------------------------------------------------------
(* fire: the window closes, a fresh streak opens, and try 1 follows.       *)

\* Mutant: the window is closed and its timer still counts as running.
WindowStaysShut == UNCHANGED <<timer, looseWindows>>

CloseWindow == timer' = "nil" /\ looseWindows' = StrayWindow

fire(t) ==
    LET nameless == blind \/ cut
        names == IF cut THEN {} ELSE senders
        rings == ~stopped /\ pending > 0
    IN  /\ pc[t] = "fire"
        /\ pending' = 0 /\ senders' = {} /\ blind' = FALSE
        /\ CloseWindow
        /\ tryTimer' = "nil" /\ tries' = 0 /\ rangs' = 0
        /\ IF rings /\ ~nameless /\ names # {}
           THEN streakSenders' = names /\ streakN' = pending
           ELSE streakSenders' = {} /\ streakN' = 0
        /\ IF rings
           THEN /\ Goto(t, "ring") /\ who' = [who EXCEPT ![t] = names]
                /\ untold' = {}
           ELSE Goto(t, "idle") /\ UNCHANGED <<who, untold>>
        /\ UNCHANGED <<looseTries, breakerVars, linkVars, look, result, mediumVars, stopped>>

-----------------------------------------------------------------------------
(* try: ring, then counted.                                                *)

\* The counters as roll leaves them at the clock's minute.
RolledMinuteN == IF clock # minuteBucket THEN 0 ELSE minuteN
RolledHourN == IF Hour(clock) # Hour(minuteBucket) THEN 0 ELSE hourN
RolledTripped == tripped /\ Hour(clock) = Hour(minuteBucket)
OverCap == RolledMinuteN >= PerMin \/ RolledHourN >= PerHour

Suppress(t) == /\ result' = [result EXCEPT ![t] = "suppressed"]
               /\ who' = [who EXCEPT ![t] = {}]
               /\ Goto(t, "counted")

\* ring's first critical section: the breaker.
ring(t) ==
    /\ pc[t] = "ring"
    /\ IF stopped THEN Suppress(t) /\ UNCHANGED breakerVars
       ELSE /\ minuteBucket' = clock
            /\ IF OverCap
               THEN /\ Suppress(t)
                    /\ minuteN' = RolledMinuteN /\ hourN' = RolledHourN
                    /\ tripped' = TRUE /\ UNCHANGED charge
               ELSE /\ minuteN' = RolledMinuteN + 1 /\ hourN' = RolledHourN + 1
                    /\ tripped' = RolledTripped
                    /\ charge' = [charge EXCEPT ![t] = clock]
                    /\ Goto(t, "notify") /\ UNCHANGED <<result, who>>
            /\ UNCHANGED <<rungMinute, rungHour>>
    /\ UNCHANGED <<windowVars, streakVars, linkVars, look, mediumVars, untold, stopped>>

\* The charge of this ring stays with the buckets that took it.
Paid(t) ==
    /\ charge' = [charge EXCEPT ![t] = 0]
    /\ rungMinute' = [rungMinute EXCEPT ![charge[t]] = @ + 1]
    /\ rungHour' = [rungHour EXCEPT ![Hour(charge[t])] = @ + 1]

\* Notify.Ring, with the lock free.
Notify(t) ==
    /\ pc[t] = "notify"
    /\ \E answer \in Answers \ {"never"} :
         /\ result' = [result EXCEPT ![t] = answer]
         /\ IF answer \in {"refused", "held"}
            THEN Goto(t, "giveBack") /\ UNCHANGED <<charge, rungMinute, rungHour>>
            ELSE Goto(t, "counted") /\ Paid(t)
    /\ who' = [who EXCEPT ![t] = {}]
    /\ UNCHANGED <<windowVars, streakVars, linkVars, look, mediumVars, untold,
                   minuteBucket, minuteN, hourN, tripped, stopped>>

\* tmux, herdr and the courier are run without a deadline, and one may never return.
\* Nobody waits for a timer's goroutine, which holds nothing but its charge, so its
\* place in the pool is free again; Main and Link are the bell's own, and stay.
NotifyHangs(t) ==
    /\ pc[t] = "notify" /\ "never" \in Answers
    /\ Goto(t, IF t \in Timers THEN "idle" ELSE "hung")
    /\ Paid(t) /\ who' = [who EXCEPT ![t] = {}]
    /\ UNCHANGED <<windowVars, streakVars, linkVars, look, result, mediumVars, untold,
                   minuteBucket, minuteN, hourN, tripped, stopped>>

\* Mutant: the charge goes back to whatever bucket is current.
GivenBackAnyway(n, same) == IF n > 0 THEN n - 1 ELSE n

GivenBack(n, same) == IF same /\ n > 0 THEN n - 1 ELSE n

\* A refusal that typed nothing returns its charge, to the buckets that took it.
giveBack(t) ==
    /\ pc[t] = "giveBack"
    /\ minuteN' = GivenBack(minuteN, minuteBucket = charge[t])
    /\ hourN' = GivenBack(hourN, Hour(minuteBucket) = Hour(charge[t]))
    /\ charge' = [charge EXCEPT ![t] = 0]
    /\ Goto(t, "counted")
    /\ UNCHANGED <<windowVars, streakVars, linkVars, look, who, result, mediumVars,
                   untold, minuteBucket, tripped, rungMinute, rungHour, stopped>>

\* Mutant: a refused try is not counted.
OnlyUnrefused(t) == IF result[t] \in {"held", "refused"} THEN tries ELSE tries + 1

\* A held ring costs no try; any other does, whatever came of it.
Tried(t) == IF result[t] = "held" THEN tries ELSE tries + 1

\* Mutant: one try too many.
ExhaustsLate(t) == result[t] # "held" /\ Tried(t) > MaxTries

\* The last try ends the streak.
Exhausts(t) == result[t] # "held" /\ Tried(t) >= MaxTries

\* counted: the try is added up, and the next one armed or the streak given up.
counted(t) ==
    /\ pc[t] = "counted"
    /\ result' = [result EXCEPT ![t] = "none"]
    /\ IF stopped THEN Goto(t, "idle") /\ UNCHANGED streakVars
       ELSE /\ tries' = Tried(t)
            /\ rangs' = IF result[t] = "rang" THEN rangs + 1 ELSE rangs
            /\ IF Exhausts(t)
               THEN /\ Goto(t, "gaveUp")
                    /\ UNCHANGED <<tryTimer, looseTries>>
               ELSE /\ Goto(t, "idle") /\ tryTimer' = "armed"
                    /\ looseTries' = StrayTry
            /\ UNCHANGED <<streakSenders, streakN>>
    /\ UNCHANGED <<windowVars, breakerVars, linkVars, look, who, mediumVars,
                   untold, stopped>>

\* The give-up is written with the lock free; the streak is cleared after it.
GaveUp(t) ==
    /\ pc[t] = "gaveUp"
    /\ clearStreak
    /\ Goto(t, "idle")
    /\ UNCHANGED <<windowVars, breakerVars, linkVars, look, who, result, mediumVars,
                   untold, stopped>>

-----------------------------------------------------------------------------
(* again: the next try of an open streak.                                  *)

again(t) ==
    /\ pc[t] = "again"
    /\ tryTimer' = "nil" /\ looseTries' = StrayTry
    /\ Goto(t, IF stopped THEN "idle" ELSE "count")
    /\ UNCHANGED <<windowVars, tries, rangs, streakSenders, streakN, breakerVars,
                   linkVars, look, who, result, mediumVars, untold, stopped>>

AgainAsks(t) ==
    /\ pc[t] = "count"
    /\ \/ /\ UnreadAnswers
          /\ Goto(t, IF queue = {} THEN "emptied" ELSE "name")
          /\ look' = [look EXCEPT ![t] = queue] /\ UNCHANGED result
       \/ /\ UnreadErrs
          /\ Goto(t, "counted")
          /\ result' = [result EXCEPT ![t] = "failed"] /\ UNCHANGED look
    /\ UNCHANGED <<windowVars, streakVars, breakerVars, linkVars, who,
                   sent, queue, wire, link, events, flaps, clock, untold, stopped>>

\* An empty queue ends a cut once the watch is back, and then the streak.
Emptied(t) ==
    /\ pc[t] = "emptied"
    /\ cut' = (cut /\ ~back)
    /\ Goto(t, "endStreak")
    /\ UNCHANGED <<windowVars, streakVars, breakerVars, back, look, who, result,
                   mediumVars, untold, stopped>>

endStreak(t) ==
    /\ pc[t] = "endStreak"
    /\ clearStreak
    /\ Goto(t, "idle")
    /\ UNCHANGED <<windowVars, breakerVars, linkVars, look, who, result, mediumVars,
                   untold, stopped>>

NameAgain(t) ==
    /\ pc[t] = "name"
    /\ who' = [who EXCEPT ![t] = laterNames(Cardinality(look[t]))]
    /\ look' = [look EXCEPT ![t] = {}]
    /\ untold' = {}
    /\ Goto(t, "ring")
    /\ UNCHANGED <<windowVars, streakVars, breakerVars, linkVars, result, mediumVars,
                   stopped>>

-----------------------------------------------------------------------------
(* Stopping: the bell, then the watch.                                     *)

stop ==
    /\ pc[Main] = "idle" /\ ~stopped
    /\ stopped' = TRUE
    /\ timer' = "nil"
    /\ clearStreak
    /\ Goto(Main, "unwatch")
    /\ UNCHANGED <<pending, senders, blind, looseWindows, breakerVars, linkVars,
                   look, who, result, mediumVars, untold>>

Unwatch ==
    /\ pc[Main] = "unwatch"
    /\ link' = "closed" /\ wire' = {}
    /\ events' = IF link = "up" THEN Append(events, "disconnected") ELSE events
    /\ Goto(Main, "idle")
    /\ UNCHANGED <<windowVars, streakVars, breakerVars, linkVars, look, who, result,
                   sent, queue, flaps, conn, clock, untold, stopped>>

-----------------------------------------------------------------------------

Step(t) ==
    \/ BacklogBegins(t) \/ BacklogAsks(t) \/ BacklogSets(t)
    \/ fire(t) \/ ring(t) \/ Notify(t) \/ NotifyHangs(t) \/ giveBack(t) \/ counted(t)
    \/ GaveUp(t)
    \/ again(t) \/ AgainAsks(t) \/ Emptied(t) \/ endStreak(t) \/ NameAgain(t)

TimerFires(t) ==
    WindowFires(t) \/ LooseWindowFires(t) \/ TryFires(t) \/ LooseTryFires(t)

Next ==
    \/ \E m \in Msgs : Publish(m) \/ Take(m) \/ arrived(m)
    \/ LinkDown \/ LinkUp \/ Tick
    \/ disconnected \/ reconnected
    \/ \E t \in Timers : TimerFires(t)
    \/ \E t \in Threads : Step(t)
    \/ stop \/ Unwatch

Spec == Init /\ [][Next]_vars

\* Every goroutine runs, until a notifier it called does not return; every timer that
\* is left running expires, a delivered copy is handed on and the watch keeps
\* redialling (MaxReconnects(-1)).
Fairness ==
    /\ \A t \in Threads : WF_vars(Step(t))
    /\ SF_vars(\E t \in Timers : WindowFires(t))
    /\ SF_vars(\E t \in Timers : LooseWindowFires(t))
    /\ SF_vars(\E t \in Timers : TryFires(t))
    /\ SF_vars(\E t \in Timers : LooseTryFires(t))
    /\ \A m \in Msgs : WF_vars(arrived(m))
    /\ WF_vars(LinkUp) /\ WF_vars(disconnected) /\ WF_vars(reconnected)
    /\ WF_vars(Unwatch)

FairSpec == Spec /\ Fairness
-----------------------------------------------------------------------------
(* Properties.                                                             *)

Labels == {"idle", "backlog", "backlogCount", "backlogSet", "fire", "ring",
           "notify", "giveBack", "counted", "gaveUp", "again", "count",
           "emptied", "endStreak", "name", "unwatch", "hung"}
Results == {"none", "rang", "refused", "held", "failed", "suppressed"}

TimerStates == {"nil", "armed", "fired"}
WindowType ==
    /\ pending \in Nat /\ senders \subseteq Senders /\ blind \in BOOLEAN
    /\ timer \in TimerStates /\ looseWindows \in Nat
StreakType ==
    /\ tryTimer \in TimerStates /\ looseTries \in Nat /\ tries \in Nat
    /\ rangs \in Nat /\ streakSenders \subseteq Senders /\ streakN \in Nat
BreakerType ==
    /\ minuteBucket \in Minutes /\ minuteN \in Nat /\ hourN \in Nat
    /\ tripped \in BOOLEAN /\ charge \in [Threads -> Minutes]
    /\ rungMinute \in [Minutes -> Nat] /\ rungHour \in [Hours -> Nat]
ThreadType ==
    /\ pc \in [Threads -> Labels] /\ look \in [Threads -> SUBSET Msgs]
    /\ who \in [Threads -> SUBSET Senders] /\ result \in [Threads -> Results]
MediumType ==
    /\ sent \subseteq Msgs /\ queue \subseteq sent /\ wire \subseteq sent
    /\ link \in {"up", "down", "closed"}
    /\ events \in Seq({"disconnected", "reconnected"})
    /\ flaps \in 0 .. MaxFlaps /\ conn \in {"none", "open", "closed"}
    /\ clock \in Minutes
FlagType == cut \in BOOLEAN /\ back \in BOOLEAN /\ stopped \in BOOLEAN
HistoryType == untold \subseteq queue

\* The fields, the goroutines' locals and the medium stay within their types,
\* and mail waiting for its announcement is mail in the queue.
TypeOK == /\ WindowType /\ StreakType /\ BreakerType /\ ThreadType
          /\ MediumType /\ FlagType /\ HistoryType

\* A counted arrival always has a ring coming: while the bell runs, pending
\* mail means the window is running or some goroutine is on its way into fire,
\* whatever backlog, arrived and fire do to each other's timer.
NoLostWake ==
    pending > 0 /\ ~stopped => timer = "armed" \/ \E t \in Threads : pc[t] = "fire"

\* A streak whose tries are used up is being given up by some goroutine: no
\* interleaving of counted leaves it exhausted and never cleared.
ExhaustedGivesUp ==
    tries >= MaxTries => \E t \in Threads : pc[t] = "gaveUp"

\* No calendar minute and no calendar hour ever pays for more rings than its
\* cap, however refunds, roll-overs and concurrent rings interleave.
BreakerCap ==
    /\ \A m \in Minutes : rungMinute[m] <= PerMin
    /\ \A h \in Hours : rungHour[h] <= PerHour

\* Once the bell is stopped no field names a timer again, so what was already
\* under way is all that is left to run.
StopIsFinal == stopped => timer = "nil" /\ tryTimer = "nil"

\* What a goroutine that runs no more is at.
Resting(t) == pc[t] \in {"idle", "hung"}

\* Every message that stays in the queue is announced by a try, through an outage and
\* a notifier that never returns, unless the bell is stopped.  Left out is what only
\* the count of a reconnect could tell of, once the outage has taken the connection
\* that counts or the goroutine that asks is hung in a ring of its own: the bell is
\* at rest then, with no copy of the message to come.
Uncounted(m) ==
    /\ conn = "closed" \/ pc[Link] = "hung"
    /\ m \notin wire /\ pending = 0 /\ \A t \in Threads : Resting(t)

EveryMailTold ==
    \A m \in Msgs : (m \in untold) ~> (m \notin untold \/ stopped \/ Uncounted(m))

\* The tries run out: however often the notifier refuses, fails or never returns,
\* the bell comes to rest, mail unread or not.  No timer is left, and no goroutine
\* but Main and Link where a notifier holds them for good.
FallsSilent ==
    <>[](/\ timer # "armed" /\ tryTimer # "armed"
         /\ looseWindows = 0 /\ looseTries = 0
         /\ \A t \in Threads : Resting(t))
=============================================================================
