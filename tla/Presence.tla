------------------------------ MODULE Presence ------------------------------
(***************************************************************************)
(* What the ledger knows of one endpoint beside its row, and what          *)
(* `loc status <endpoint>` makes of it (internal/presence/ledger.go,       *)
(* derive.go; cmd/loc/presence.go).                                        *)
(*                                                                         *)
(* The hooks of an agent are processes of their own: each stamps an event  *)
(* when it happens, reads the activity file some time later and may write  *)
(* it later still.  The row comes and goes beside them, and a status reads *)
(* the row, the activity, the medium and the process one after another.    *)
(* There is no lock: every file is replaced in one rename, and that is all.*)
(*                                                                         *)
(* A process is its pid and start time together, so one that died never    *)
(* comes back.  The four kinds of event that record activity matter as     *)
(* two: an end, and anything else.                                         *)
(***************************************************************************)
EXTENDS Naturals

CONSTANTS
    Agents,     \* processes that take the endpoint, once each
    Hooks,      \* `loc emit` processes, one event each
    None,
    IdleWindow, \* config idle_timeout, in ticks
    MaxTime,    \* bound: ticks of the clock
    MaxFaults   \* bound: removals that are cut short

\* What an activity file holds: the newest event, and whose hook wrote it.
Event == [ts : Nat, kind : {"work", "end"}, by : Agents]

ASSUME PresenceAssumption ==
    /\ None \notin Agents \cup Nat /\ None \notin Event
    /\ {IdleWindow, MaxTime, MaxFaults} \subseteq Nat

VARIABLES
    now,
    row,        \* the registered agent, or None
    act,        \* the activity file, or None
    life,       \* of each agent: "new", "alive" or "gone"
    hook,       \* of each hook: where it is, and its event
    removal,    \* what a removal under way has still to do, or "off"
    status,     \* a status, what it has read and what it says
    offered,    \* history: newest stamp the registered agent's hooks came to offer
    raced,      \* history: the file was written by a hook that had read another
    swept,      \* history: a removal took the file of the agent registered since
    leftover,   \* history: the file outlived a removal or was written after one
    faults

ledger == <<row, act, removal>>
history == <<offered, raced, swept, leftover>>
vars == <<now, ledger, life, hook, status, history, faults>>

NoEvent(pc) == [pc |-> pc, by |-> None, ts |-> 0, kind |-> "work", stale |-> FALSE]
NoStatus == [pc |-> "idle", reg |-> None, act |-> None, attending |-> "unknown",
             process |-> "unknown", activity |-> "unknown", mixed |-> FALSE]

Init ==
    /\ now = 0 /\ row = None /\ act = None
    /\ life = [a \in Agents |-> "new"] /\ hook = [h \in Hooks |-> NoEvent("idle")]
    /\ removal = "off" /\ status = NoStatus
    /\ offered = None /\ raced = FALSE /\ swept = FALSE /\ leftover = FALSE
    /\ faults = 0

Tick == now < MaxTime /\ now' = now + 1
        /\ UNCHANGED <<ledger, life, hook, status, history, faults>>

Alive(reg) == reg # None /\ life[reg] = "alive"
Newer(s, t) == IF s = None THEN t ELSE IF s > t THEN s ELSE t

\* Whoever reads the row now and the activity later has two occupants' facts.
Mixing == status' = [status EXCEPT !.mixed = @ \/ status.pc = "activity"]

-----------------------------------------------------------------------------
(* The row.                                                                *)

\* The activity file is left as it is.
Save(a) ==
    /\ row = None /\ life[a] = "new"
    /\ row' = a /\ life' = [life EXCEPT ![a] = "alive"]
    /\ offered' = None /\ raced' = FALSE /\ swept' = FALSE
    /\ Mixing
    /\ UNCHANGED <<now, act, removal, hook, leftover, faults>>

Dies(a) ==
    /\ life[a] = "alive" /\ life' = [life EXCEPT ![a] = "gone"]
    /\ UNCHANGED <<now, ledger, hook, status, history, faults>>

\* Remove takes two files away: for a sweep that finds the process gone, and for an
\* unsubscribe, which may displace a live one.
RemoveRow(how) ==
    /\ row # None /\ removal = "off" /\ (how = "reap" => ~Alive(row))
    /\ row' = None /\ removal' = how /\ Mixing
    /\ UNCHANGED <<now, act, life, hook, history, faults>>

\* A hook between its two steps has compared with a file that is no more.
Outdates(hooks) ==
    [h \in Hooks |-> [hooks[h] EXCEPT !.stale = @ \/ hooks[h].pc = "write"]]

\* Mutant: a reap takes the row alone.
ReapsRowOnly ==
    /\ removal \in {"leave", "reap"} /\ removal' = "off"
    /\ act' = (IF removal = "leave" THEN None ELSE act)
    /\ hook' = Outdates(hook)
    /\ swept' = (swept \/ (row # None /\ act # None))
    /\ UNCHANGED <<now, row, life, status, offered, raced, leftover, faults>>

RemoveActivity ==
    /\ removal \in {"leave", "reap"} /\ removal' = "off"
    /\ act' = None /\ leftover' = FALSE
    /\ hook' = Outdates(hook)
    /\ swept' = (swept \/ (row # None /\ act # None))
    /\ UNCHANGED <<now, row, life, status, offered, raced, faults>>
RemovalKilled ==
    /\ removal # "off" /\ faults < MaxFaults /\ faults' = faults + 1
    /\ removal' = "off"
    /\ leftover' = (leftover \/ act # None)
    /\ UNCHANGED <<now, row, act, life, hook, status, offered, raced, swept>>

-----------------------------------------------------------------------------
(* loc emit.  It asks for no registration, and the medium's answer is not   *)
(* waited for.                                                             *)

\* Mutant: what arrives later is newer.
NeverOlder(ts, cur) == FALSE

\* Equal stamps are not older.
older(ts, cur) == cur # None /\ ts < cur.ts

Fires(h, a, kind) ==
    /\ hook[h].pc = "idle" /\ life[a] = "alive"
    /\ hook' = [hook EXCEPT ![h] = [pc |-> "fired", by |-> a, ts |-> now, kind |-> kind,
                                    stale |-> FALSE]]
    /\ UNCHANGED <<now, ledger, life, status, history, faults>>

Offers(h) ==
    offered' = IF hook[h].by = row THEN Newer(offered, hook[h].ts) ELSE offered

Done(h) == [hook EXCEPT ![h] = NoEvent("done")]

\* ApplyActivity: load and compare,
LoadActivity(h) ==
    /\ hook[h].pc = "fired"
    /\ IF older(hook[h].ts, act)
       THEN hook' = Done(h) /\ Offers(h)
       ELSE hook' = [hook EXCEPT ![h].pc = "write"] /\ UNCHANGED offered
    /\ UNCHANGED <<now, ledger, life, status, raced, swept, leftover, faults>>

\* and write.  Another hook or a removal may have been there in between.
WriteActivity(h) ==
    /\ hook[h].pc = "write"
    /\ act' = [ts |-> hook[h].ts, kind |-> hook[h].kind, by |-> hook[h].by]
    /\ hook' = Outdates(Done(h)) /\ Offers(h)
    /\ raced' = (raced \/ hook[h].stale)
    /\ leftover' = (leftover \/ hook[h].by # row)
    /\ UNCHANGED <<now, row, removal, life, status, swept, faults>>

-----------------------------------------------------------------------------
(* loc status <endpoint>: the row, the activity, the medium, then the       *)
(* process twice, once for each of the lines that tell of it.              *)

At(pc) == status.pc = pc
ReadsOn == UNCHANGED <<now, ledger, life, hook, history, faults>>

statusEndpoint ==
    /\ At("idle")
    /\ status' = [NoStatus EXCEPT !.pc = "activity", !.reg = row]
    /\ ReadsOn
ReadsActivity ==
    /\ At("activity")
    /\ status' = [status EXCEPT !.pc = "process", !.act = act,
                                !.mixed = @ \/ leftover \/ removal \in {"leave", "reap"}]
    /\ ReadsOn

processLine ==
    /\ At("process")
    /\ status' = [status EXCEPT !.pc = "derive",
                     !.process = CASE status.reg = None -> "unknown"
                                   [] Alive(status.reg) -> "alive"
                                   [] OTHER -> "gone"]
    /\ ReadsOn

\* Mutant: the last event is the activity, whoever is left to have it.
EventAlone(reg, a) ==
    CASE reg = None -> "unknown"
      [] reg # None /\ (a = None \/ a.kind = "end") -> "idle"
      [] OTHER -> IF now <= a.ts + IdleWindow THEN "active" ELSE "idle"

\* Away is a question of the process alone; an end event that is lost is made good
\* by the window.
activityLine(reg, a) ==
    CASE reg = None -> "unknown"
      [] reg # None /\ ~Alive(reg) -> "away"
      [] Alive(reg) /\ (a = None \/ a.kind = "end") -> "idle"
      [] OTHER -> IF now <= a.ts + IdleWindow THEN "active" ELSE "idle"

\* A queue with no row is not attended; a medium that cannot be asked is no fact
\* about the endpoint.
attendingLine(reg, asked, exists) ==
    CASE ~asked -> "unknown"
      [] asked /\ exists /\ reg # None -> "yes"
      [] OTHER -> "no"

\* The medium answers what it likes: its queues are not part of this module.
Derive ==
    /\ At("derive")
    /\ \E asked, exists \in BOOLEAN :
          status' = [status EXCEPT !.pc = "said",
                         !.attending = attendingLine(status.reg, asked, exists),
                         !.activity = activityLine(status.reg, status.act)]
    /\ ReadsOn

-----------------------------------------------------------------------------

Next ==
    \/ Tick
    \/ \E a \in Agents : Save(a) \/ Dies(a)
    \/ \E how \in {"leave", "reap"} : RemoveRow(how)
    \/ RemoveActivity \/ RemovalKilled
    \/ \E h \in Hooks : \/ \E a \in Agents, kind \in {"work", "end"} : Fires(h, a, kind)
                        \/ LoadActivity(h) \/ WriteActivity(h)
    \/ statusEndpoint \/ ReadsActivity \/ processLine \/ Derive

Spec == Init /\ [][Next]_vars

-----------------------------------------------------------------------------
(* Properties.                                                             *)

HookType ==
    [pc : {"idle", "fired", "write", "done"}, by : Agents \cup {None}, ts : 0 .. now,
     kind : {"work", "end"}, stale : BOOLEAN]
StatusType ==
    [pc : {"idle", "activity", "process", "derive", "said"}, reg : Agents \cup {None},
     act : Event \cup {None}, attending : {"yes", "no", "unknown"},
     process : {"alive", "gone", "unknown"}, activity : {"active", "idle", "away", "unknown"},
     mixed : BOOLEAN]

\* The files, the hooks and the report keep their types, and no event is from the
\* future.
TypeOK ==
    /\ now \in 0 .. MaxTime /\ row \in Agents \cup {None}
    /\ act \in Event \cup {None} /\ (act # None => act.ts <= now)
    /\ life \in [Agents -> {"new", "alive", "gone"}]
    /\ hook \in [Hooks -> HookType]
    /\ \A h \in Hooks : hook[h].pc \in {"fired", "write"} => hook[h].by \in Agents
    /\ removal \in {"off", "leave", "reap"} /\ status \in StatusType
    /\ offered \in {None} \cup 0 .. now
    /\ {raced, swept, leftover} \subseteq BOOLEAN
    /\ faults \in 0 .. MaxFaults

\* An event the registered agent's hooks came to offer is in the file, or a newer
\* one is: hooks in any order never take the picture back.  Only two things do: a
\* hook that had compared with a file that was replaced before it wrote, and a
\* removal of the agent's predecessor that is still under way.
EventsKept ==
    row # None /\ offered # None /\ ~raced /\ ~swept => act # None /\ act.ts >= offered

\* What the file holds is the registered agent's own.  Another's is there only when
\* its hook outlived its registration, or its removal was cut between the files or
\* is still under way.
OwnActivity ==
    row # None /\ act # None /\ act.by # row => leftover \/ removal \in {"leave", "reap"}

\* The four lines of one report hang together though they were read one after
\* another: nobody is active whose process the same report says is gone, nobody is
\* attended who is not registered, and "active" is said on the word of the agent
\* the report names, unless the seat changed hands between the first two reads or
\* the file was another's to begin with.
ReportOfOne ==
    status.pc = "said" =>
        /\ status.activity = "active" => status.process = "alive"
        /\ status.attending = "yes" => status.reg # None
        /\ status.activity = "active" /\ status.act.by # status.reg => status.mixed
=============================================================================
