---------------------------- MODULE PresenceProofs ----------------------------
(* Theorems about an endpoint's activity and its report, for any agents, hooks, *)
(* window and time.                                                            *)
EXTENDS Presence, TLAPS

\* Outdating changes one mark of a hook and nothing else.
LEMMA OutdatesType ==
    ASSUME NEW hooks \in [Hooks -> HookType]
    PROVE  /\ Outdates(hooks) \in [Hooks -> HookType]
           /\ \A h \in Hooks :
                 /\ Outdates(hooks)[h].pc = hooks[h].pc /\ Outdates(hooks)[h].by = hooks[h].by
                 /\ Outdates(hooks)[h].ts = hooks[h].ts
                 /\ Outdates(hooks)[h].pc = "write" => Outdates(hooks)[h].stale
BY DEF Outdates, HookType

\* A hook that is done has nothing left to do.
LEMMA DoneType ==
    ASSUME TypeOK, NEW h \in Hooks
    PROVE  /\ Done(h) \in [Hooks -> HookType] /\ Done(h)[h].pc = "done"
           /\ \A g \in Hooks \ {h} : Done(h)[g] = hook[g]
<1>1. NoEvent("done") \in HookType /\ NoEvent("done").pc = "done"
  BY PresenceAssumption DEF TypeOK, HookType, NoEvent
<1>2. hook \in [Hooks -> HookType]
  BY DEF TypeOK
<1>3. QED
  BY <1>1, <1>2 DEF Done

\* So has one that goes on to write.
LEMMA GoesOnType ==
    ASSUME TypeOK, NEW h \in Hooks
    PROVE  /\ [hook EXCEPT ![h].pc = "write"] \in [Hooks -> HookType]
           /\ [hook EXCEPT ![h].pc = "write"][h].by = hook[h].by
           /\ [hook EXCEPT ![h].pc = "write"][h].ts = hook[h].ts
           /\ \A g \in Hooks \ {h} : [hook EXCEPT ![h].pc = "write"][g] = hook[g]
BY DEF TypeOK, HookType

\* Every step keeps every variable in its type.
LEMMA TypeStep == TypeOK /\ [Next]_vars => TypeOK'
<1> SUFFICES ASSUME TypeOK, [Next]_vars PROVE TypeOK'
  OBVIOUS
<1> USE PresenceAssumption DEF TypeOK, HookType, StatusType, Event, ledger, history, Mixing
<1>1. ASSUME NEW a \in Agents, Save(a) PROVE TypeOK'
  BY <1>1 DEF Save
<1>2. ASSUME NEW a \in Agents, Dies(a) PROVE TypeOK'
  BY <1>2 DEF Dies
<1>3. ASSUME NEW how \in {"leave", "reap"}, RemoveRow(how) PROVE TypeOK'
  BY <1>3 DEF RemoveRow
<1>4. CASE RemoveActivity
  <2>1. hook \in [Hooks -> HookType]
    OBVIOUS
  <2>2. /\ hook' \in [Hooks -> HookType]
        /\ \A g \in Hooks : hook'[g].pc = hook[g].pc /\ hook'[g].by = hook[g].by
    BY <1>4, <2>1, OutdatesType DEF RemoveActivity
  <2>3. swept' \in BOOLEAN /\ leftover' \in BOOLEAN /\ raced' \in BOOLEAN
    BY <1>4 DEF RemoveActivity
  <2>4. /\ act' = None /\ removal' = "off"
        /\ UNCHANGED <<now, row, life, status, offered, faults>>
    BY <1>4 DEF RemoveActivity
  <2>5. QED
    BY <2>2, <2>3, <2>4
<1>5. CASE RemovalKilled
  BY <1>5 DEF RemovalKilled
<1>6. ASSUME NEW h \in Hooks, NEW a \in Agents, NEW kind \in {"work", "end"}, Fires(h, a, kind) PROVE TypeOK'
  BY <1>6 DEF Fires
<1>7. ASSUME NEW h \in Hooks, LoadActivity(h) PROVE TypeOK'
  <2>1. hook' \in [Hooks -> HookType]
    <3>1. CASE hook' = Done(h)
      BY <1>7, <3>1, DoneType DEF LoadActivity
    <3>2. CASE hook' = [hook EXCEPT ![h].pc = "write"]
      BY <1>7, <3>2, GoesOnType DEF LoadActivity
    <3>3. QED
      BY <1>7, <3>1, <3>2 DEF LoadActivity
  <2>2. offered' \in {None} \cup 0 .. now
    BY <1>7 DEF LoadActivity, Offers, Newer
  <2>3. \A g \in Hooks : hook'[g].pc \in {"fired", "write"} => hook'[g].by \in Agents
    <3>1. CASE hook' = Done(h)
      BY <3>1, DoneType
    <3>2. CASE hook' = [hook EXCEPT ![h].pc = "write"]
      BY <1>7, <3>2, GoesOnType DEF LoadActivity
    <3>3. QED
      BY <1>7, <3>1, <3>2 DEF LoadActivity
  <2>4. QED
    BY <1>7, <2>1, <2>2, <2>3 DEF LoadActivity
<1>8. ASSUME NEW h \in Hooks, WriteActivity(h) PROVE TypeOK'
  <2>1. /\ hook[h].ts \in 0 .. now /\ hook[h].kind \in {"work", "end"}
        /\ hook[h].by \in Agents /\ hook[h].pc = "write" /\ hook[h].stale \in BOOLEAN
    BY <1>8 DEF WriteActivity
  <2>2. Done(h) \in [Hooks -> HookType]
    BY DoneType
  <2>3. /\ hook' \in [Hooks -> HookType]
        /\ \A g \in Hooks : hook'[g].pc = Done(h)[g].pc /\ hook'[g].by = Done(h)[g].by
    BY <1>8, <2>2, OutdatesType DEF WriteActivity
  <2>4. \A g \in Hooks : hook'[g].pc \in {"fired", "write"} => hook'[g].by \in Agents
    BY <2>3, DoneType
  <2>5. offered' \in {None} \cup 0 .. now
    BY <1>8, <2>1 DEF WriteActivity, Offers, Newer
  <2>6. act' \in Event /\ act'.ts <= now
    BY <1>8, <2>1 DEF WriteActivity
  <2>7. QED
    BY <1>8, <2>1, <2>3, <2>4, <2>5, <2>6 DEF WriteActivity
<1>9. CASE statusEndpoint
  BY <1>9 DEF statusEndpoint, ReadsOn, NoStatus
<1>10. CASE ReadsActivity
  BY <1>10 DEF ReadsActivity, At, ReadsOn
<1>11. CASE processLine
  BY <1>11 DEF processLine, At, ReadsOn, Alive
<1>12. CASE Derive
  <2>1. PICK asked, exists \in BOOLEAN :
          status' = [status EXCEPT !.pc = "said",
                         !.attending = attendingLine(status.reg, asked, exists),
                         !.activity = activityLine(status.reg, status.act)]
    BY <1>12 DEF Derive
  <2>2. /\ attendingLine(status.reg, asked, exists) \in {"yes", "no", "unknown"}
        /\ activityLine(status.reg, status.act) \in {"active", "idle", "away", "unknown"}
    BY DEF attendingLine, activityLine
  <2>3. status' \in StatusType
    BY <2>1, <2>2
  <2>4. QED
    BY <1>12, <2>3 DEF Derive, ReadsOn
<1>13. CASE Tick
  BY <1>13 DEF Tick
<1>14. CASE UNCHANGED vars
  BY <1>14 DEF vars
<1>15. QED
  BY <1>1, <1>2, <1>3, <1>4, <1>5, <1>6, <1>7, <1>8, <1>9, <1>10, <1>11, <1>12, <1>13, <1>14 DEF Next

LEMMA TypeInit == Init => TypeOK
<1> SUFFICES ASSUME Init PROVE TypeOK
  OBVIOUS
<1>1. NoEvent("idle") \in HookType /\ NoEvent("idle").pc = "idle"
  BY PresenceAssumption DEF Init, HookType, NoEvent
<1>2. status \in StatusType
  BY DEF Init, StatusType, NoStatus
<1>3. hook \in [Hooks -> HookType] /\ \A h \in Hooks : hook[h].pc = "idle"
  <2>1. hook = [h \in Hooks |-> NoEvent("idle")]
    BY DEF Init
  <2>2. QED
    BY <1>1, <2>1
<1>4. now \in 0 .. MaxTime /\ faults \in 0 .. MaxFaults
  BY PresenceAssumption DEF Init
<1>5. QED
  BY <1>2, <1>3, <1>4 DEF Init, TypeOK

\* The clock, the files, the processes, the hooks and the report keep their types, and
\* no recorded event is from the future.
THEOREM TypeCorrect == Spec => []TypeOK
BY TypeInit, TypeStep, PTL DEF Spec

-----------------------------------------------------------------------------
(* The file and its owner.                                                 *)

\* A file that is not the occupant's, or nobody's, is accounted for whether or not
\* the seat is taken: it is this that an occupant inherits.
AccountedFor == act # None /\ act.by # row => leftover \/ removal \in {"leave", "reap"}

LEMMA AccountedStep == TypeOK /\ AccountedFor /\ [Next]_vars => AccountedFor'
<1> SUFFICES ASSUME TypeOK, AccountedFor, [Next]_vars PROVE AccountedFor'
  OBVIOUS
<1>1. ASSUME NEW a \in Agents, Save(a) PROVE AccountedFor'
  BY <1>1, PresenceAssumption DEF Save, AccountedFor, TypeOK, Event
<1>2. ASSUME NEW how \in {"leave", "reap"}, RemoveRow(how) PROVE AccountedFor'
  BY <1>2 DEF RemoveRow, AccountedFor
<1>3. CASE RemoveActivity
  BY <1>3 DEF RemoveActivity, AccountedFor
<1>4. CASE RemovalKilled
  BY <1>4 DEF RemovalKilled, AccountedFor
<1>5. ASSUME NEW h \in Hooks, WriteActivity(h) PROVE AccountedFor'
  BY <1>5 DEF WriteActivity, AccountedFor
<1>6. CASE UNCHANGED <<row, act, removal, leftover>>
  BY <1>6 DEF AccountedFor
<1>7. QED
  BY <1>1, <1>2, <1>3, <1>4, <1>5, <1>6
     DEF Next, vars, ledger, history, ReadsOn, Tick, Dies, Fires, LoadActivity, statusEndpoint,
         ReadsActivity, processLine, Derive

\* What the file holds is the occupant's own, or was left or is being removed.
THEOREM OwnerKnown == Spec => []OwnActivity
<1>1. Init => AccountedFor
  BY DEF Init, AccountedFor
<1>2. AccountedFor => OwnActivity
  BY DEF AccountedFor, OwnActivity
<1>3. QED
  BY <1>1, <1>2, TypeInit, TypeStep, AccountedStep, PTL DEF Spec

-----------------------------------------------------------------------------
(* The newest event.                                                       *)

\* A hook about to write that nobody has overtaken still compares well with the file.
Compared ==
    \A h \in Hooks : hook[h].pc = "write" /\ ~hook[h].stale => ~older(hook[h].ts, act)

LEMMA KeptStep == TypeOK /\ EventsKept /\ Compared /\ [Next]_vars => EventsKept' /\ Compared'
<1> SUFFICES ASSUME TypeOK, EventsKept, Compared, [Next]_vars PROVE EventsKept' /\ Compared'
  OBVIOUS
<1>1. ASSUME NEW a \in Agents, Save(a) PROVE EventsKept' /\ Compared'
  BY <1>1 DEF Save, EventsKept, Compared
<1>2. ASSUME NEW how \in {"leave", "reap"}, RemoveRow(how) PROVE EventsKept' /\ Compared'
  BY <1>2 DEF RemoveRow, EventsKept, Compared
<1>3. CASE RemoveActivity
  <2>1. \A h \in Hooks : hook'[h].pc = "write" => hook'[h].stale
    <3>1. hook \in [Hooks -> HookType] /\ hook' = Outdates(hook)
      BY <1>3 DEF RemoveActivity, TypeOK
    <3>2. QED
      BY <3>1, OutdatesType
  <2>2. Compared'
    BY <2>1 DEF Compared
  <2>3. EventsKept'
    BY <1>3 DEF RemoveActivity, EventsKept
  <2>4. QED
    BY <2>2, <2>3
<1>4. CASE RemovalKilled
  BY <1>4 DEF RemovalKilled, EventsKept, Compared
<1>5. ASSUME NEW h \in Hooks, NEW a \in Agents, NEW kind \in {"work", "end"}, Fires(h, a, kind)
      PROVE  EventsKept' /\ Compared'
  BY <1>5 DEF Fires, EventsKept, Compared, TypeOK, ledger, history
<1>6. ASSUME NEW h \in Hooks, LoadActivity(h) PROVE EventsKept' /\ Compared'
  <2>1. UNCHANGED <<now, row, act, raced, swept>>
    BY <1>6 DEF LoadActivity, ledger
  <2>2. CASE older(hook[h].ts, act)
    <3>1. hook' = Done(h) /\ Offers(h)
      BY <1>6, <2>2 DEF LoadActivity
    <3>2. Compared'
      BY <2>1, <3>1, DoneType DEF Compared
    <3>3. EventsKept'
      <4>1. act # None /\ hook[h].ts < act.ts /\ hook[h].ts \in Nat /\ act.ts \in Nat
        BY <2>2 DEF older, TypeOK, HookType, Event
      <4>2. offered' = offered \/ offered' = hook[h].ts
        BY <3>1 DEF Offers, Newer
      <4>3. QED
        BY <2>1, <4>1, <4>2 DEF EventsKept
    <3>4. QED
      BY <3>2, <3>3
  <2>3. CASE ~older(hook[h].ts, act)
    <3>1. hook' = [hook EXCEPT ![h].pc = "write"] /\ offered' = offered
      BY <1>6, <2>3 DEF LoadActivity
    <3>2. \A g \in Hooks : hook'[g].ts = hook[g].ts /\ (g = h \/ hook'[g] = hook[g])
      BY <3>1, GoesOnType
    <3>3. Compared'
      BY <2>1, <2>3, <3>2 DEF Compared, older
    <3>4. EventsKept'
      BY <2>1, <3>1 DEF EventsKept
    <3>5. QED
      BY <3>3, <3>4
  <2>4. QED
    BY <2>2, <2>3
<1>7. ASSUME NEW h \in Hooks, WriteActivity(h) PROVE EventsKept' /\ Compared'
  <2>1. /\ act' = [ts |-> hook[h].ts, kind |-> hook[h].kind, by |-> hook[h].by]
        /\ hook[h].pc = "write" /\ hook[h].ts \in Nat /\ act' # None /\ act'.ts = hook[h].ts
        /\ UNCHANGED <<row, swept>>
    BY <1>7, PresenceAssumption DEF WriteActivity, TypeOK, HookType, Event
  <2>2. \A g \in Hooks : hook'[g].pc = "write" => hook'[g].stale
    <3>1. Done(h) \in [Hooks -> HookType] /\ hook' = Outdates(Done(h))
      BY <1>7, DoneType DEF WriteActivity
    <3>2. QED
      BY <3>1, OutdatesType
  <2>3. Compared'
    BY <2>2 DEF Compared
  <2>4. ASSUME row # None, offered' # None, ~raced', ~swept PROVE act'.ts >= offered'
    <3>1. ~older(hook[h].ts, act)
      BY <1>7, <2>1, <2>4 DEF WriteActivity, Compared
    <3>2. offered # None => act # None /\ act.ts >= offered
      BY <1>7, <2>4 DEF WriteActivity, EventsKept
    <3>3. offered # None => hook[h].ts >= offered
      BY <2>1, <3>1, <3>2 DEF older, TypeOK, Event
    <3>4. offered' = offered \/ offered' = hook[h].ts
      BY <1>7 DEF WriteActivity, Offers, Newer
    <3>5. QED
      BY <2>1, <2>4, <3>3, <3>4
  <2>5. EventsKept'
    BY <2>1, <2>4 DEF EventsKept
  <2>6. QED
    BY <2>3, <2>5
<1>8. CASE UNCHANGED <<row, act, hook, offered, raced, swept>>
  BY <1>8 DEF EventsKept, Compared
<1>9. QED
  BY <1>1, <1>2, <1>3, <1>4, <1>5, <1>6, <1>7, <1>8
     DEF Next, vars, ledger, history, ReadsOn, Tick, Dies, statusEndpoint, ReadsActivity,
         processLine, Derive

\* An event the occupant's hooks came to offer is in the file or a newer one is, for
\* any number of hooks in any order, but for the two races the definition names.
THEOREM NewestStands == Spec => []EventsKept
<1>1. Init => EventsKept /\ Compared
  BY DEF Init, EventsKept, Compared, NoEvent
<1>2. QED
  BY <1>1, TypeInit, TypeStep, KeptStep, PTL DEF Spec

-----------------------------------------------------------------------------
(* The report.                                                             *)

\* Nobody is registered who never lived.
Lived == row # None => life[row] # "new"

\* What a report has read so far: its agent lived, was found alive if it still lives,
\* and another's event is in it only if the seat changed hands or the file was
\* another's.
ReadSoFar ==
    /\ status.pc # "idle" /\ status.reg # None => life[status.reg] # "new"
    /\ status.pc = "activity" => status.reg = row \/ status.mixed
    /\ status.pc \in {"process", "derive", "said"} /\ status.reg # None /\ status.act # None
           /\ status.act.by # status.reg => status.mixed
    /\ status.pc = "derive" /\ status.reg # None /\ life[status.reg] = "alive" => status.process = "alive"

RInv == Lived /\ ReadSoFar /\ ReportOfOne

\* Only the event of an agent that lives and has one makes it active.
LEMMA ActiveMeans ==
    ASSUME TypeOK, NEW reg \in Agents \cup {None}, NEW a, activityLine(reg, a) = "active"
    PROVE  reg # None /\ Alive(reg) /\ a # None
BY DEF activityLine, Alive

LEMMA ReportStep == TypeOK /\ AccountedFor /\ RInv /\ [Next]_vars => RInv'
<1> SUFFICES ASSUME TypeOK, AccountedFor, RInv, [Next]_vars PROVE RInv'
  OBVIOUS
<1> USE DEF RInv, TypeOK, StatusType
<1>1. ASSUME NEW a \in Agents, Save(a) PROVE RInv'
  <2>1. /\ life' = [life EXCEPT ![a] = "alive"] /\ life[a] = "new" /\ row' = a
        /\ status' = [status EXCEPT !.mixed = @ \/ status.pc = "activity"]
    BY <1>1 DEF Save, Mixing
  <2>2. Lived'
    BY <2>1 DEF Lived
  <2>3. ReadSoFar' /\ ReportOfOne'
    BY <2>1 DEF ReadSoFar, ReportOfOne
  <2>4. QED
    BY <2>2, <2>3
<1>2. ASSUME NEW a \in Agents, Dies(a) PROVE RInv'
  BY <1>2 DEF Dies, Lived, ReadSoFar, ReportOfOne, ledger, history
<1>3. ASSUME NEW how \in {"leave", "reap"}, RemoveRow(how) PROVE RInv'
  BY <1>3 DEF RemoveRow, Mixing, Lived, ReadSoFar, ReportOfOne
<1>4. CASE statusEndpoint
  BY <1>4 DEF statusEndpoint, At, ReadsOn, NoStatus, Lived, ReadSoFar, ReportOfOne, ledger, history
<1>5. CASE ReadsActivity
  <2>1. /\ UNCHANGED <<row, life>> /\ status.pc = "activity"
        /\ status' = [status EXCEPT !.pc = "process", !.act = act,
                                !.mixed = @ \/ leftover \/ removal \in {"leave", "reap"}]
    BY <1>5 DEF ReadsActivity, At, ReadsOn, ledger
  <2>2. act # None /\ act.by # status.reg => status'.mixed
    BY <2>1 DEF AccountedFor, ReadSoFar
  <2>3. QED
    BY <2>1, <2>2 DEF Lived, ReadSoFar, ReportOfOne
<1>6. CASE processLine
  BY <1>6 DEF processLine, At, ReadsOn, Alive, Lived, ReadSoFar, ReportOfOne, ledger, history
<1>7. CASE Derive
  <2>1. PICK asked, exists \in BOOLEAN :
          status' = [status EXCEPT !.pc = "said",
                         !.attending = attendingLine(status.reg, asked, exists),
                         !.activity = activityLine(status.reg, status.act)]
    BY <1>7 DEF Derive
  <2>2. UNCHANGED <<row, life>> /\ status.pc = "derive"
    BY <1>7 DEF Derive, At, ReadsOn, ledger
  <2>3. status'.activity = "active" =>
            status.reg # None /\ Alive(status.reg) /\ status.act # None
    BY <2>1, ActiveMeans
  <2>4. status'.attending = "yes" => status.reg # None
    BY <2>1 DEF attendingLine
  <2>5. ReportOfOne'
    BY <2>1, <2>2, <2>3, <2>4 DEF ReadSoFar, ReportOfOne, Alive
  <2>6. QED
    BY <2>1, <2>2, <2>5 DEF Lived, ReadSoFar
<1>8. CASE UNCHANGED <<row, life, status>>
  BY <1>8 DEF Lived, ReadSoFar, ReportOfOne
<1>9. QED
  BY <1>1, <1>2, <1>3, <1>4, <1>5, <1>6, <1>7, <1>8
     DEF Next, vars, ledger, history, Tick, RemoveActivity, RemovalKilled, Fires, LoadActivity,
         WriteActivity

\* The lines of one report agree on whom they tell of, though each was read on its own
\* while the seat changed hands, the process died or the file was another's.
THEOREM ReportsAgree == Spec => []ReportOfOne
<1>1. Init => AccountedFor /\ RInv
  BY DEF Init, AccountedFor, RInv, Lived, ReadSoFar, ReportOfOne, NoStatus
<1>2. RInv => ReportOfOne
  BY DEF RInv
<1>3. QED
  BY <1>1, <1>2, TypeInit, TypeStep, AccountedStep, ReportStep, PTL DEF Spec
=============================================================================
