-------------------------------- MODULE Seat --------------------------------
(***************************************************************************)
(* One seat and everyone who touches it: its row in the ledger, its queue  *)
(* on the medium, the file naming its server, the servers that take and    *)
(* leave it (internal/mcpserve/serve.go), the subscribe, unsubscribe and   *)
(* sweep verbs (cmd/loc/presence.go), and the sends (cmd/loc/main.go).     *)
(* The records live in files and in the broker and no lock spans them, so  *)
(* every read and every write is a step of its own.                        *)
(*                                                                         *)
(* A row is known by the process that wrote it: that is the tenure of      *)
(* serve.go (pid, start time, registration stamp), which tells apart any   *)
(* two registrations made in different milliseconds.  Presence events are  *)
(* not kept by anybody; only the failure of an announcement is modelled.   *)
(***************************************************************************)
EXTENDS Naturals, FiniteSets

CONSTANTS
    Servers,        \* MCP server processes, each of which serves once
    Clerks,         \* processes running one subscribe or unsubscribe verb
    Runtimes,       \* agent processes: (pid, start time) pairs
    RuntimeOf,      \* who launched a server; the --pid a clerk passes
    Msgs,           \* messages sent to the seat, one send process each
    Sweeper,        \* the daemon's heartbeat
    Medium,         \* the broker, as a cause of loss
    None,
    MaxRestarts,    \* bound: times the broker stops
    Verbs           \* what clerks run, of subscribe, unsubscribe and force

Writers == Servers \cup Clerks
Clients == Writers \cup Msgs \cup {Sweeper}

ASSUME SeatAssumption ==
    /\ Servers \cap Clerks = {} /\ Writers \cap Msgs = {}
    /\ Sweeper \notin Writers \cup Msgs
    /\ None \notin Clients \cup {Medium} /\ Medium \notin Clients
    /\ RuntimeOf \in [Writers -> Runtimes]
    /\ MaxRestarts \in Nat
    /\ Verbs \subseteq {"subscribe", "unsubscribe", "force"}

VARIABLES
    row,        \* the ledger's row: the process that wrote it, or None
    pidFile,    \* the server the seat's pid file names, or None
    exists,     \* does the broker hold the seat's queue
    mail,       \* what is in it
    broker, boots,
    alive,      \* runtimes that are running
    pc,         \* where each process is
    verb,       \* what each clerk runs
    held,       \* the row as each process last read it
    dialled,    \* the boot of the broker each client's connection belongs to
    finding,    \* what the sweep found, and will act on
    post,       \* how far each send has come
    read,       \* mail its reader took
    lost,       \* history: who destroyed each message, or None
    found       \* history: the row each process found when it came to end the seat

records == <<row, pidFile>>
medium == <<exists, mail, broker, boots, lost>>
vars == <<records, medium, alive, pc, verb, held, dialled, finding, post, read, found>>

Labels == {"off", "preflight", "displace", "displaceRemove",
           "subLoad", "subSave", "subQueue", "subJoin", "claim", "serving", "leave",
           "unLoad", "unLook", "unRemove", "unDelete", "relRead", "relRemove", "gone"}
Findings == {"none", "listed", "deadPID", "deadPIDFile", "missingQueue"}
Posts == {"new", "queued", "checked", "accepted", "refused"}

Init ==
    /\ row = None /\ pidFile = None /\ exists = FALSE /\ mail = {}
    /\ broker = "up" /\ boots = 0 /\ alive = Runtimes
    /\ pc = [p \in Writers |-> "off"]
    /\ verb \in [Clerks -> Verbs]
    /\ held = [c \in Writers \cup {Sweeper} |-> None]
    /\ dialled = [c \in Clients |-> 0]
    /\ finding = "none"
    /\ post = [m \in Msgs |-> "new"] /\ read = {}
    /\ lost = [m \in Msgs |-> None] /\ found = [p \in Writers |-> None]

Alive(w) == RuntimeOf[w] \in alive
Goto(p, label) == pc' = [pc EXCEPT ![p] = label]
Move(p, from, label) == pc[p] = from /\ Goto(p, label)

\* The provider dials on the first call of a verb and never redials.
Dials(c) == broker = "up" /\ dialled' = [dialled EXCEPT ![c] = boots]
Reaches(c) == broker = "up" /\ dialled[c] = boots
DeleteQueue(by) ==
    /\ exists' = FALSE /\ mail' = {}
    /\ lost' = [m \in Msgs |-> IF m \in mail THEN by ELSE lost[m]]
    /\ UNCHANGED <<broker, boots>>
CreateQueue == exists' = TRUE /\ UNCHANGED <<mail, broker, boots, lost>>

\* Where a process goes when its unsubscribe returns, whatever it returned.
Unsubscribed(p) == IF p \in Servers THEN "relRead" ELSE "gone"

-----------------------------------------------------------------------------
(* The processes' environment.                                             *)

RuntimeEnds(r) ==
    /\ r \in alive /\ alive' = alive \ {r}
    /\ UNCHANGED <<records, medium, pc, verb, held, dialled, finding, post, read, found>>

Killed(p) ==
    /\ pc[p] \notin {"off", "gone"}
    /\ Goto(p, "gone")
    /\ UNCHANGED <<records, medium, alive, verb, held, dialled, finding, post, read, found>>

\* Queues are kept in memory: they go with the broker.
BrokerStops ==
    /\ broker = "up" /\ boots < MaxRestarts
    /\ broker' = "down" /\ boots' = boots + 1
    /\ exists' = FALSE /\ mail' = {}
    /\ lost' = [m \in Msgs |-> IF m \in mail THEN Medium ELSE lost[m]]
    /\ UNCHANGED <<records, alive, pc, verb, held, dialled, finding, post, read, found>>

BrokerStarts ==
    /\ broker = "down" /\ broker' = "up"
    /\ UNCHANGED <<records, exists, mail, boots, lost, alive, pc, verb, held,
                   dialled, finding, post, read, found>>

-----------------------------------------------------------------------------
(* A server starts: preflight, displace, subscribe, claim.                 *)

Launch(s) ==
    /\ RuntimeOf[s] \in alive /\ Move(s, "off", "preflight")
    /\ UNCHANGED <<records, medium, alive, verb, held, dialled, finding, post, read, found>>

\* A row that bars this server: a live one, of another runtime.
BarredBy(s, w) == w # None /\ Alive(w) /\ RuntimeOf[w] # RuntimeOf[s]

heldByAnother(s) ==
    /\ Move(s, "preflight", IF BarredBy(s, row) THEN "gone" ELSE "displace")
    /\ UNCHANGED <<records, medium, alive, verb, held, dialled, finding, post, read, found>>

displaceOrRefuse(s) ==
    /\ Move(s, "displace", CASE row = None -> "subLoad"
                             [] BarredBy(s, row) -> "gone"
                             [] OTHER -> "displaceRemove")
    /\ UNCHANGED <<records, medium, alive, verb, held, dialled, finding, post, read, found>>

\* Dead predecessor or earlier server of this runtime: the row goes, the
\* queue stays.
DisplaceRemove(s) ==
    /\ Move(s, "displaceRemove", "subLoad")
    /\ row' = None
    /\ UNCHANGED <<pidFile, medium, alive, verb, held, dialled, finding, post, read, found>>

claimPIDFile(s) ==
    /\ Move(s, "claim", "serving")
    /\ pidFile' = s
    /\ UNCHANGED <<row, medium, alive, verb, held, dialled, finding, post, read, found>>

-----------------------------------------------------------------------------
(* subscribe: the row first, then the queue, then the announcement.        *)

Clerk(c) ==
    /\ Move(c, "off", IF verb[c] = "subscribe" THEN "subLoad" ELSE "unLoad")
    /\ UNCHANGED <<records, medium, alive, verb, held, dialled, finding, post, read, found>>

SubLoad(p) ==
    /\ Move(p, "subLoad", IF row # None THEN "gone" ELSE "subSave")
    /\ UNCHANGED <<records, medium, alive, verb, held, dialled, finding, post, read, found>>

SubSave(p) ==
    /\ Move(p, "subSave", "subQueue")
    /\ row' = p
    /\ UNCHANGED <<pidFile, medium, alive, verb, held, dialled, finding, post, read, found>>

SubQueue(p) ==
    /\ \/ Dials(p) /\ Move(p, "subQueue", "subJoin") /\ CreateQueue
       \/ broker = "down" /\ Move(p, "subQueue", "gone") /\ UNCHANGED <<medium, dialled>>
    /\ UNCHANGED <<records, alive, verb, held, finding, post, read, found>>

\* An announcement that fails fails the verb, with the row and queue in place.
SubJoin(p) ==
    /\ \/ Reaches(p) /\ Move(p, "subJoin", IF p \in Servers THEN "claim" ELSE "gone")
       \/ ~Reaches(p) /\ Move(p, "subJoin", "gone")
    /\ UNCHANGED <<records, medium, alive, verb, held, dialled, finding, post, read, found>>

-----------------------------------------------------------------------------
(* A server leaves, on a signal or when its runtime lets go.               *)

wait(s) ==
    /\ Move(s, "serving", "leave")
    /\ UNCHANGED <<records, medium, alive, verb, held, dialled, finding, post, read, found>>

\* It frees only its own seat: the row is compared with the one it wrote.
depart(s) ==
    /\ Move(s, "leave", IF row = s THEN "unLoad" ELSE "relRead")
    /\ found' = [found EXCEPT ![s] = row]
    /\ UNCHANGED <<records, medium, alive, verb, held, dialled, finding, post, read>>

\* departureWait is over.  The unsubscribe is abandoned where it stands: what
\* its goroutine may still do until the process exits commutes with the
\* release of the pid file, and is covered by a later abandonment.
DepartTimesOut(s) ==
    /\ pc[s] \in {"unLoad", "unLook", "unRemove", "unDelete"}
    /\ Goto(s, "relRead")
    /\ UNCHANGED <<records, medium, alive, verb, held, dialled, finding, post, read, found>>

ReleaseReads(s) ==
    /\ Move(s, "relRead", IF pidFile = s THEN "relRemove" ELSE "gone")
    /\ UNCHANGED <<records, medium, alive, verb, held, dialled, finding, post, read, found>>

ReleaseRemoves(s) ==
    /\ Move(s, "relRemove", "gone")
    /\ pidFile' = None
    /\ UNCHANGED <<row, medium, alive, verb, held, dialled, finding, post, read, found>>

-----------------------------------------------------------------------------
(* unsubscribe: load, look at the queue, remove the row, delete the queue. *)

Forced(p) == p \in Servers \/ verb[p] = "force"

UnLoad(p) ==
    /\ Move(p, "unLoad", IF row # None /\ Alive(row) /\ ~Forced(p)
                         THEN Unsubscribed(p) ELSE "unLook")
    /\ held' = [held EXCEPT ![p] = row]
    /\ found' = IF p \in Clerks THEN [found EXCEPT ![p] = row] ELSE found
    /\ UNCHANGED <<records, medium, alive, verb, dialled, finding, post, read>>

\* A seat with neither row nor queue is left alone.
UnLook(p) ==
    /\ \/ Dials(p) /\ Move(p, "unLook", IF held[p] = None /\ ~exists
                                        THEN Unsubscribed(p) ELSE "unRemove")
       \/ broker = "down" /\ Move(p, "unLook", Unsubscribed(p)) /\ UNCHANGED dialled
    /\ held' = [held EXCEPT ![p] = None]
    /\ UNCHANGED <<records, medium, alive, verb, finding, post, read, found>>

UnRemove(p) ==
    /\ Move(p, "unRemove", "unDelete")
    /\ row' = None
    /\ UNCHANGED <<pidFile, medium, alive, verb, held, dialled, finding, post, read, found>>

UnDelete(p) ==
    /\ Move(p, "unDelete", Unsubscribed(p))
    /\ IF Reaches(p) THEN DeleteQueue(p) ELSE UNCHANGED medium
    /\ UNCHANGED <<records, alive, verb, held, dialled, finding, post, read, found>>

-----------------------------------------------------------------------------
(* sweep: list the rows, list the queues, act on what was found.           *)

ListAll ==
    /\ finding = "none" /\ finding' = "listed"
    /\ held' = [held EXCEPT ![Sweeper] = row]
    /\ UNCHANGED <<records, medium, alive, pc, verb, dialled, post, read, found>>

\* Mutant: a missing queue is only printed.
FoundNoRepair(listed) ==
    IF listed # None /\ ~Alive(listed) THEN "deadPID" ELSE "none"

\* The findings about this seat, from the rows listed and the queues now.  A
\* queue with no row is only printed.
Found(listed) ==
    CASE listed # None /\ ~Alive(listed) -> "deadPID"
      [] listed # None /\ Alive(listed) /\ ~exists -> "missingQueue"
      [] OTHER -> "none"

SweepLooks ==
    /\ finding = "listed"
    /\ \/ Dials(Sweeper) /\ finding' = Found(held[Sweeper])
       \/ broker = "down" /\ finding' = "none" /\ UNCHANGED dialled
    /\ held' = [held EXCEPT ![Sweeper] = None]
    /\ UNCHANGED <<records, medium, alive, pc, verb, post, read, found>>

\* Mutant: the reap frees the whole seat, its queue with it.
SweepReapsQueue ==
    /\ finding = "deadPID" /\ finding' = "deadPIDFile"
    /\ row' = None
    /\ IF Reaches(Sweeper) THEN DeleteQueue(Sweeper) ELSE UNCHANGED medium
    /\ UNCHANGED <<pidFile, alive, pc, verb, held, dialled, post, read, found>>

\* A dead process: the row goes and the queue stays, then the pid file goes.
SweepReaps ==
    /\ finding = "deadPID" /\ finding' = "deadPIDFile"
    /\ row' = None
    /\ UNCHANGED <<pidFile, medium, alive, pc, verb, held, dialled, post, read, found>>

ReleaseServerPID ==
    /\ finding = "deadPIDFile" /\ finding' = "none"
    /\ pidFile' = None
    /\ UNCHANGED <<row, medium, alive, pc, verb, held, dialled, post, read, found>>

SweepRepairs ==
    /\ finding = "missingQueue" /\ finding' = "none"
    /\ IF Reaches(Sweeper) THEN CreateQueue ELSE UNCHANGED medium
    /\ UNCHANGED <<records, alive, pc, verb, held, dialled, post, read, found>>

-----------------------------------------------------------------------------
(* send: is there a queue, is there a row, publish.                        *)

SendStep(m, from, to) == post[m] = from /\ post' = [post EXCEPT ![m] = to]

SendLooks(m) ==
    /\ \/ Dials(m) /\ SendStep(m, "new", IF exists THEN "queued" ELSE "refused")
       \/ broker = "down" /\ SendStep(m, "new", "refused") /\ UNCHANGED dialled
    /\ UNCHANGED <<records, medium, alive, pc, verb, held, finding, read, found>>

SendChecks(m) ==
    /\ SendStep(m, "queued", IF row # None THEN "checked" ELSE "refused")
    /\ UNCHANGED <<records, medium, alive, pc, verb, held, dialled, finding, read, found>>

\* The store's acknowledgement can fail to come back for a message it kept.
SendQueue(m) ==
    /\ IF Reaches(m) /\ exists
       THEN /\ mail' = mail \cup {m}
            /\ SendStep(m, "checked", "accepted") \/ SendStep(m, "checked", "refused")
       ELSE SendStep(m, "checked", "refused") /\ UNCHANGED mail
    /\ UNCHANGED <<records, exists, broker, boots, lost, alive, pc, verb, held,
                   dialled, finding, read, found>>

Read(m) ==
    /\ broker = "up" /\ m \in mail
    /\ mail' = mail \ {m} /\ read' = read \cup {m}
    /\ UNCHANGED <<records, exists, broker, boots, lost, alive, pc, verb, held,
                   dialled, finding, post, found>>

-----------------------------------------------------------------------------

ServerStep(s) ==
    \/ heldByAnother(s) \/ displaceOrRefuse(s) \/ DisplaceRemove(s) \/ claimPIDFile(s)
    \/ depart(s) \/ ReleaseReads(s) \/ ReleaseRemoves(s)
    \/ ~Alive(s) /\ wait(s)
VerbStep(p) ==
    \/ SubLoad(p) \/ SubSave(p) \/ SubQueue(p) \/ SubJoin(p)
    \/ UnLoad(p) \/ UnLook(p) \/ UnRemove(p) \/ UnDelete(p)
SweepStep == ListAll \/ SweepLooks \/ SweepReaps \/ ReleaseServerPID \/ SweepRepairs
SendAny(m) == SendLooks(m) \/ SendChecks(m) \/ SendQueue(m)

Next ==
    \/ \E r \in Runtimes : RuntimeEnds(r)
    \/ \E s \in Servers : Launch(s) \/ ServerStep(s) \/ wait(s) \/ DepartTimesOut(s)
    \/ \E c \in Clerks : Clerk(c)
    \/ \E p \in Writers : VerbStep(p) \/ Killed(p)
    \/ SweepStep
    \/ \E m \in Msgs : SendAny(m) \/ Read(m)
    \/ BrokerStops \/ BrokerStarts

Spec == Init /\ [][Next]_vars

\* A process that has begun a verb runs on until it ends or is killed, a
\* server hears its runtime go, the heartbeat sweeps for ever, and the broker
\* is started again.
FairSpec ==
    /\ Spec
    /\ \A s \in Servers : WF_vars(ServerStep(s))
    /\ \A p \in Writers : WF_vars(VerbStep(p))
    /\ WF_vars(SweepStep) /\ WF_vars(BrokerStarts)

-----------------------------------------------------------------------------
(* Properties.                                                             *)

\* The records, the processes and the histories stay within their types.
TypeOK ==
    /\ row \in Writers \cup {None} /\ pidFile \in Servers \cup {None}
    /\ exists \in BOOLEAN /\ mail \subseteq Msgs
    /\ broker \in {"up", "down"} /\ boots \in 0 .. MaxRestarts
    /\ alive \subseteq Runtimes
    /\ pc \in [Writers -> Labels] /\ verb \in [Clerks -> Verbs]
    /\ held \in [Writers \cup {Sweeper} -> Writers \cup {None}]
    /\ dialled \in [Clients -> 0 .. MaxRestarts]
    /\ finding \in Findings /\ post \in [Msgs -> Posts] /\ read \subseteq Msgs
    /\ lost \in [Msgs -> Clients \cup {None, Medium}]
    /\ found \in [Writers -> Writers \cup {None}]

\* Who may destroy mail: the broker that stops; a server that found its own
\* row when it came to leave; a forced unsubscribe; a plain one that found no
\* row, or the row of a dead runtime.  What was found is what was found: the
\* seat may have been taken again by the time the queue goes.
Entitled(by) ==
    \/ by = Medium
    \/ by \in Servers /\ found[by] = by
    \/ by \in Clerks /\ verb[by] = "force"
    \/ by \in Clerks /\ verb[by] = "unsubscribe" /\ (found[by] = None \/ ~Alive(found[by]))

\* Accepted mail is waiting, read, or destroyed by one who may.  The sweep's
\* reap, a subscribe, displacing a dead predecessor, re-taking the runtime's
\* seat and a kill at any step destroy nothing.
MailAccounted ==
    /\ \A m \in Msgs : post[m] = "accepted" => m \in mail \cup read \/ lost[m] # None
    /\ \A m \in Msgs : lost[m] # None => Entitled(lost[m])
    /\ mail # {} => exists

\* The sweep reconciles the three records: once the processes are done, a
\* standing row names a live runtime and has its queue, whatever order the
\* verbs' writes, the kills and the broker's stops fell in.
Reconciles == <>[](row # None => Alive(row) /\ exists)
=============================================================================
