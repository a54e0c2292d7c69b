------------------------------- MODULE Hermes -------------------------------
(***************************************************************************)
(* The Hermes adapter (integrations/hermes/loc/adapter.py): one seat held  *)
(* by an agent gateway that is not written for Locutorium.  It starts the  *)
(* seat's server, hears its bell on a listener of its own, and on a bell   *)
(* runs `loc read` and hands each message over.                            *)
(*                                                                         *)
(* The adapter is one thread of coroutines.  What stands between two       *)
(* awaits is one step; at an await everything else may happen: a bell, the *)
(* read process, the gateway's next call, the end of the server.  A task   *)
(* that is cancelled gets the exception at its next step, and a task that  *)
(* has not made its first step never makes one.                            *)
(*                                                                         *)
(* The gateway calls connect and disconnect one after the other, on one    *)
(* adapter.  The read process is modelled in ReadPath: here it prints,     *)
(* then acknowledges, and may end at any time.  The bell's queries and the *)
(* server's work are Bell's and Seat's.  Lines are kept as sets: in which  *)
(* order they come matters to nothing here.                                *)
(***************************************************************************)
EXTENDS Naturals

CONSTANTS
    Msgs,       \* mail of the seat
    Declined,   \* of it, what is never passed on: room messages, no sender, its own
    None,
    MaxBells,   \* bound: bells
    MaxCalls,   \* bound: calls of connect and disconnect
    MaxFaults   \* bound: spawns, calls and writes that fail, servers that die

ASSUME HermesAssumption ==
    /\ Declined \subseteq Msgs /\ None \notin Msgs
    /\ {MaxBells, MaxCalls, MaxFaults} \subseteq Nat

VARIABLES
    queue,      \* what the medium still holds
    child,      \* the read process: "none", "run" or "done"
    hand,       \* the message it has printed and not acknowledged, or None
    pipe,       \* lines it has printed that the adapter has not collected
    cut,        \* history: taken, and in the pipe of a read that was given up
    lines,      \* collected by the drain that reads
    inbox,      \* in the inbox log
    unwritten,  \* history: lines whose write to the inbox log failed
    seen,       \* the deduplicator
    current,    \* the message being passed on, or None
    todo,       \* those after it
    passed,     \* history: what Hermes has got
    named,      \* messages logged as read and not passed on
    task,       \* where the drain task is, or "none"
    cancelled,  \* is its cancellation on the way
    draining, again,
    owed,       \* history: a bell was answered and no read has begun since
    late,       \* history: a drain was begun while a close was waiting for tasks
    gate,       \* where the gateway's call is, or "idle"
    cause,      \* the call a close is part of
    seat,       \* the server as its output shows it: "none", "open", "up" once
                \* registered, "ended", or "crashed" with its row in place
    running,    \* is the adapter marked connected
    listening,  \* is the bell's path valid
    handler,    \* has the gateway set its message handler
    calls, bells, faults

reading == <<queue, child, hand, pipe, cut>>
mail == <<lines, inbox, unwritten, seen, current, todo, passed, named>>
drain == <<task, cancelled, draining, again, owed, late>>
link == <<gate, cause, seat, running, listening>>
vars == <<reading, mail, drain, link, handler, calls, bells, faults>>

Init ==
    /\ queue = Msgs /\ child = "none" /\ hand = None /\ pipe = {} /\ cut = {}
    /\ lines = {} /\ inbox = {} /\ unwritten = {} /\ seen = {}
    /\ current = None /\ todo = {} /\ passed = {} /\ named = {}
    /\ task = "none" /\ cancelled = FALSE /\ draining = FALSE /\ again = FALSE
    /\ owed = FALSE /\ late = FALSE
    /\ gate = "idle" /\ cause = None /\ seat = "none" /\ running = FALSE
    /\ listening = FALSE /\ handler \in BOOLEAN
    /\ calls = 0 /\ bells = 0 /\ faults = 0

Fault == faults < MaxFaults /\ faults' = faults + 1

-----------------------------------------------------------------------------
(* `loc read`.                                                             *)

Prints(m) ==
    /\ child = "run" /\ hand = None /\ m \in queue \ (pipe \cup lines)
    /\ hand' = m /\ pipe' = pipe \cup {m}
    /\ UNCHANGED <<queue, child, cut, mail, drain, link, handler, calls, bells, faults>>

Acks ==
    /\ child = "run" /\ hand # None
    /\ queue' = queue \ {hand} /\ hand' = None
    /\ UNCHANGED <<child, pipe, cut, mail, drain, link, handler, calls, bells, faults>>

\* With nothing left, or by an error; what was not acknowledged comes again.
Exits ==
    /\ child = "run" /\ child' = "done" /\ hand' = None
    /\ UNCHANGED <<queue, pipe, cut, mail, drain, link, handler, calls, bells, faults>>

\* Nobody collects what stands in its pipe.
KillsRead ==
    /\ child' = "none" /\ hand' = None /\ pipe' = {}
    /\ cut' = cut \cup (pipe \ queue)
    /\ UNCHANGED queue

-----------------------------------------------------------------------------
(* The bell and the drain.                                                 *)

\* A drain that has been asked for takes all that waits: more than one more finds
\* nothing.  The path is the present connection's, so an old server rings no bell.
requestDrain ==
    /\ listening /\ gate # "take" /\ bells < MaxBells /\ bells' = bells + 1
    /\ owed' = TRUE
    /\ IF draining
       THEN again' = TRUE /\ UNCHANGED <<task, draining, late>>
       ELSE draining' = TRUE /\ task' = "spawned" /\ late' = (late \/ gate = "gather")
            /\ UNCHANGED again
    /\ UNCHANGED <<cancelled, reading, mail, link, handler, calls, faults>>

\* Mutant: the drain takes its flag down as it begins.
BeginsFree ==
    /\ again' = FALSE /\ draining' = FALSE
    /\ IF handler THEN task' = "exec" /\ UNCHANGED owed
                  ELSE task' = "none" /\ owed' = FALSE

\* The next time round the loop.  With no handler the mail stays in the queue and
\* this bell is answered by nobody.
Begins ==
    /\ again' = FALSE
    /\ IF handler THEN task' = "exec" /\ UNCHANGED <<draining, owed>>
                  ELSE task' = "none" /\ draining' = FALSE /\ owed' = FALSE

Stops == task' = "none" /\ draining' = FALSE

\* Mutant: a bell that comes during a drain is taken for answered by it.
LoopOnce == Stops /\ again' = FALSE /\ UNCHANGED owed

\* A drain is over: go round once more if a bell came meanwhile.
LoopEnds == IF again THEN Begins ELSE Stops /\ UNCHANGED <<again, owed>>

DrainAt(place) == task = place /\ ~cancelled
Elsewhere == UNCHANGED <<cancelled, late, link, handler, calls, bells>>

drainLoop ==
    /\ DrainAt("spawned") /\ Begins
    /\ UNCHANGED <<reading, mail, faults>> /\ Elsewhere

\* The read is spawned.  If it cannot be, the exception ends the loop, and with it
\* goes the memory of the bells that came meanwhile.
Spawns ==
    /\ DrainAt("exec") /\ child = "none"
    /\ \/ child' = "run" /\ owed' = FALSE /\ UNCHANGED <<task, draining, faults>>
       \/ Stops /\ owed' = FALSE /\ Fault /\ UNCHANGED child
    /\ UNCHANGED <<queue, hand, pipe, cut, mail, again>> /\ Elsewhere

Spawned ==
    /\ DrainAt("exec") /\ child # "none" /\ task' = "collect"
    /\ UNCHANGED <<reading, mail, draining, again, owed, faults>> /\ Elsewhere

collect(m) ==
    /\ DrainAt("collect") /\ m \in pipe
    /\ lines' = lines \cup {m} /\ pipe' = pipe \ {m}
    /\ UNCHANGED <<queue, child, hand, cut, inbox, unwritten, seen, current, todo, passed,
                   named, task, draining, again, owed, faults>>
    /\ Elsewhere

\* No end in a minute, or none in five seconds after the output's: the read is killed.
TimesOut ==
    /\ DrainAt("collect") /\ task' = "reap" /\ KillsRead
    /\ UNCHANGED <<mail, draining, again, owed, faults>> /\ Elsewhere

\* Before anything else can fail.
writeInboxLog ==
    \/ inbox' = inbox \cup lines /\ UNCHANGED <<unwritten, faults>>
    \/ lines # {} /\ Fault /\ unwritten' = unwritten \cup lines /\ UNCHANGED inbox

\* One after the other, but for duplicates.  A message counts as seen as soon as
\* it is passed; a duplicate after it still waits to be skipped.
PassesOn(ms) ==
    IF ms \subseteq seen
    THEN current' = None /\ todo' = {} /\ LoopEnds /\ UNCHANGED seen
    ELSE /\ \E m \in ms \ seen :
              /\ current' = m /\ seen' = seen \cup {m}
              /\ \E skipped \in SUBSET (ms \cap seen) : todo' = ms \ ({m} \cup skipped)
         /\ task' = "pass" /\ UNCHANGED <<draining, again, owed>>

\* The read is over, whatever its code was.
drainOnce ==
    /\ \/ DrainAt("collect") /\ child = "done" /\ pipe = {}
       \/ DrainAt("reap")
    /\ child' = "none" /\ writeInboxLog /\ lines' = {}
    /\ named' = named \cup (lines \cap Declined)
    /\ PassesOn(lines \ Declined)
    /\ UNCHANGED <<queue, hand, pipe, cut, passed>> /\ Elsewhere

\* Hermes has it, or refuses it with an exception.
onMessage ==
    /\ DrainAt("pass")
    /\ \/ passed' = passed \cup {current} /\ UNCHANGED <<named, faults>>
       \/ named' = named \cup {current} /\ Fault /\ UNCHANGED passed
    /\ PassesOn(todo)
    /\ UNCHANGED <<reading, lines, inbox, unwritten>> /\ Elsewhere

\* Mutant: the message being passed is taken for passed.
OthersNamed == todo

\* What a stop in the middle of passing on names.
notPassedOn == {current} \cup todo

\* Mutant: what was collected is written at the drain's own end only.
NotWritten == UNCHANGED <<inbox, unwritten, faults>>

writtenAtStop == writeInboxLog

\* The drain hears that it is cancelled: in a read, in the spawn of one, or with a
\* message half way to Hermes.
drainStopped ==
    /\ cancelled /\ cancelled' = FALSE /\ Stops /\ owed' = FALSE /\ late' = FALSE
    /\ IF task = "pass"
       THEN /\ named' = named \cup notPassedOn
            /\ passed' \in {passed, passed \cup {current}}
            /\ UNCHANGED <<reading, inbox, unwritten, faults>>
       ELSE /\ KillsRead /\ writtenAtStop
            /\ named' = named \cup (lines \ Declined) /\ UNCHANGED passed
    /\ lines' = {} /\ current' = None /\ todo' = {}
    /\ UNCHANGED <<seen, again, link, handler, calls, bells>>

-----------------------------------------------------------------------------
(* connect and disconnect.                                                 *)

Still == UNCHANGED <<reading, handler, bells>>
Goto(place) == gate' = place
Call == gate = "idle" /\ calls < MaxCalls /\ calls' = calls + 1

\* Close the server's input and wait for the end of its output.
Close(why) == Goto("leave") /\ cause' = why

connect ==
    /\ Call
    /\ IF seat \in {"open", "up"} THEN running' = TRUE /\ UNCHANGED <<gate, cause>>
                                  ELSE Close("connect") /\ UNCHANGED running
    /\ UNCHANGED <<seat, listening, mail, drain, faults>> /\ Still

disconnect ==
    /\ Call /\ running' = FALSE /\ Close("disconnect")
    /\ UNCHANGED <<seat, listening, mail, drain, faults>> /\ Still

\* The server has left, or its time is over.  Every task is cancelled; one that has
\* not begun will never run, not even the clause that says it is over.
cancelTasks ==
    /\ gate = "leave" /\ Goto("gather") /\ seat' = "none"
    /\ cancelled' = (task \notin {"none", "spawned"}) /\ late' = (late /\ cancelled')
    /\ task' = IF task = "spawned" THEN "none" ELSE task
    /\ owed' = (owed /\ task # "spawned")
    /\ UNCHANGED <<cause, running, listening, mail, draining, again, calls, faults>>
    /\ Still

\* Mutant: the tasks are cancelled and not waited for.
NoWait == TRUE

tasksEnded == ~cancelled

\* The tasks have ended; the listener closes, and its path with it.
closeListener ==
    /\ gate = "gather" /\ tasksEnded /\ listening' = FALSE
    /\ Goto(IF cause = "connect" THEN "listen" ELSE "idle") /\ cause' = None
    /\ seen' = IF cause = "disconnect" THEN {} ELSE seen
    /\ UNCHANGED <<seat, running, lines, inbox, unwritten, current, todo, passed, named, drain,
                   calls, faults>>
    /\ Still

openBellListener ==
    /\ gate = "listen"
    /\ \/ Goto("take") /\ listening' = TRUE /\ UNCHANGED <<cause, faults>>
       \/ Close("failed") /\ Fault /\ UNCHANGED listening
    /\ UNCHANGED <<seat, running, mail, drain, calls>> /\ Still

\* loc refuses a seat that another process holds.
takeSeat ==
    /\ gate = "take"
    /\ \/ Goto("register") /\ seat' = "open" /\ UNCHANGED <<cause, faults>>
       \/ Close("failed") /\ Fault /\ UNCHANGED seat
    /\ UNCHANGED <<running, listening, mail, drain, calls>> /\ Still

\* A status shows the seat registered since the start, or none does in time.
waitRegistered ==
    /\ gate = "register"
    /\ \/ seat \in {"up", "crashed"} /\ Goto("seen") /\ UNCHANGED <<cause, faults>>
       \/ Close("failed") /\ UNCHANGED faults
    /\ UNCHANGED <<seat, running, listening, mail, drain, calls>> /\ Still

markConnected ==
    /\ gate = "seen" /\ Goto("idle") /\ running' = TRUE
    /\ UNCHANGED <<cause, seat, listening, mail, drain, calls, faults>> /\ Still

-----------------------------------------------------------------------------
(* The server and the gateway.                                             *)

Registers ==
    /\ seat = "open" /\ seat' = "up"
    /\ UNCHANGED <<gate, cause, running, listening, mail, drain, calls, faults>> /\ Still

\* Its output ends.  The loss is told the gateway if the adapter is connected and
\* the seat is still its own; the gateway may then connect again.
followSeat ==
    /\ seat \in {"open", "up"} /\ gate # "leave" /\ Fault
    /\ seat' \in {"ended"} \cup (IF seat = "up" THEN {"crashed"} ELSE {})
    /\ running' = FALSE
    /\ UNCHANGED <<gate, cause, listening, mail, drain, calls>> /\ Still

SetsHandler ==
    /\ ~handler /\ handler' = TRUE
    /\ UNCHANGED <<reading, mail, drain, link, calls, bells, faults>>

-----------------------------------------------------------------------------

Drain ==
    \/ drainLoop \/ Spawns \/ Spawned \/ (\E m \in Msgs : collect(m)) \/ TimesOut \/ drainOnce \/ onMessage
    \/ drainStopped

Gateway ==
    \/ connect \/ disconnect \/ cancelTasks \/ closeListener \/ openBellListener
    \/ takeSeat \/ waitRegistered \/ markConnected \/ SetsHandler

Next ==
    \/ \E m \in Msgs : Prints(m)
    \/ Acks \/ Exits
    \/ requestDrain \/ Drain
    \/ Gateway
    \/ Registers \/ followSeat

Spec == Init /\ [][Next]_vars

\* A drain goes on at its awaits: the read ends or is timed out, and Hermes takes
\* or refuses a message.  Nothing is assumed of the server, the read or the calls.
FairSpec == Spec /\ WF_vars(Drain)

-----------------------------------------------------------------------------
(* Properties.                                                             *)

MailType ==
    /\ queue \subseteq Msgs /\ hand \in Msgs \cup {None}
    /\ pipe \cup lines \cup inbox \cup unwritten \cup cut \subseteq Msgs
    /\ todo \cup seen \cup named \subseteq Msgs /\ passed \subseteq Msgs \ Declined
    /\ current \in IF task = "pass" THEN Msgs \ Declined ELSE {None}

TaskType ==
    /\ task \in {"none", "spawned", "exec", "collect", "reap", "pass"}
    /\ child \in {"none", "run", "done"}
    /\ task \in {"none", "spawned", "pass"} => child = "none" /\ lines = {}
    /\ (task # "none" => draining) /\ (cancelled => task # "none")

FlagType ==
    /\ cancelled \in BOOLEAN /\ draining \in BOOLEAN /\ again \in BOOLEAN
    /\ owed \in BOOLEAN /\ late \in BOOLEAN
    /\ running \in BOOLEAN /\ listening \in BOOLEAN /\ handler \in BOOLEAN

LinkType ==
    /\ seat \in {"none", "open", "up", "ended", "crashed"}
    /\ gate \in {"idle", "leave", "gather", "listen", "take", "register", "seen"}
    /\ cause \in {None, "connect", "disconnect", "failed"}

\* The flags, the tasks and the mail keep their types: a message is read by one
\* drain and handed on by the same, and nothing is collected without a read.
TypeOK == MailType /\ TaskType /\ FlagType /\ LinkType

\* Mail that was taken from the queue is found: in the inbox log, or with the drain
\* that is about to write it, whatever stops the drain.  It is lost only in the pipe
\* of a read the adapter gave up, or with a write to the log that failed.
TakenIsFound ==
    Msgs \ queue \subseteq inbox \cup lines \cup pipe \cup cut \cup unwritten

\* Mail that was read and is in no drain's hands has gone to Hermes or is named as
\* not passed on, duplicates, refusals and stops of the adapter included.
PassedOrNamed ==
    (inbox \cup unwritten) \ Declined \subseteq passed \cup named \cup {current} \cup todo

\* When a close is over, no drain runs and no read with it: the mail of a seat the
\* adapter has left, or has not taken yet, is touched by nobody.  Only a bell that
\* comes while the close waits for its tasks begins one.
ClosedIsQuiet ==
    ~listening => (task = "none" \/ late) /\ (child = "none" \/ task # "none")

\* A bell that was answered 202 is followed by a read that begins after it, but for
\* the drain that cannot spawn one, has no handler or is stopped; and but for a
\* drain that was stopped before its first step.
BellDrains == (owed /\ ~(draining /\ task = "none")) ~> ~owed
=============================================================================
