---------------------------- MODULE DaemonProofs ----------------------------
(* Theorems about the daemon and its verbs, for any number of children, starts *)
(* and stops, forced or not.                                                  *)
EXTENDS Daemon, TLAPS

LEMMA TypeInit == Init => TypeOK
BY DaemonAssumption DEF Init, TypeOK, DaemonLabels, VerbLabels, Verbs

\* Every step keeps every variable in its type.
LEMMA TypeStep == TypeOK /\ [Next]_vars => TypeOK'
<1> SUFFICES ASSUME TypeOK, [Next]_vars PROVE TypeOK'
  OBVIOUS
<1> USE DEF TypeOK, DaemonLabels, VerbLabels, Verbs, Move, Goto, Fault
<1>1. ASSUME NEW d \in Daemons, Boot(d) PROVE TypeOK'
  BY <1>1, DaemonAssumption DEF Boot, Releasing
<1>2. ASSUME NEW d \in Daemons, ensureTopics(d) PROVE TypeOK'
  BY <1>2, DaemonAssumption DEF ensureTopics
<1>3. ASSUME NEW d \in Daemons, writeDaemonPID(d) PROVE TypeOK'
  BY <1>3, DaemonAssumption DEF writeDaemonPID
<1>4. ASSUME NEW d \in Daemons, beatOnce(d) PROVE TypeOK'
  BY <1>4, DaemonAssumption DEF beatOnce
<1>5. ASSUME NEW d \in Daemons, Ends(d) PROVE TypeOK'
  BY <1>5, DaemonAssumption DEF Ends
<1>6. ASSUME NEW d \in Daemons, Shutdown(d) PROVE TypeOK'
  BY <1>6, DaemonAssumption DEF Shutdown
<1>7. ASSUME NEW d \in Daemons, releaseDaemonPID(d) PROVE TypeOK'
  BY <1>7, DaemonAssumption DEF releaseDaemonPID, removeDaemonPID
<1>8. ASSUME NEW d \in Daemons, Killed(d) PROVE TypeOK'
  BY <1>8, DaemonAssumption DEF Killed, Running
<1>9. ASSUME NEW d \in Daemons, PidReused(d) PROVE TypeOK'
  BY <1>9, DaemonAssumption DEF PidReused
<1>10. ASSUME NEW v \in Verbs, StartProbes(v) PROVE TypeOK'
  BY <1>10, DaemonAssumption DEF StartProbes, Silence
<1>11. ASSUME NEW v \in Verbs, StartSays(v) PROVE TypeOK'
  BY <1>11, DaemonAssumption DEF StartSays
<1>12. ASSUME NEW v \in Verbs, NEW d \in Daemons, Spawn(v, d) PROVE TypeOK'
  BY <1>12, DaemonAssumption DEF Spawn
<1>13. ASSUME NEW v \in Verbs, StartWaits(v) PROVE TypeOK'
  BY <1>13, DaemonAssumption DEF StartWaits, liveDaemon
<1>14. ASSUME NEW v \in Verbs, StopReads(v) PROVE TypeOK'
  BY <1>14, DaemonAssumption DEF StopReads, liveDaemon, Alive, Running
<1>15. ASSUME NEW v \in Verbs, StopProbes(v) PROVE TypeOK'
  BY <1>15, DaemonAssumption DEF StopProbes, Silence
<1>16. ASSUME NEW v \in Verbs, pidHoldingPort(v) PROVE TypeOK'
  BY <1>16, DaemonAssumption DEF pidHoldingPort, portAnswers
<1>17. ASSUME NEW v \in Verbs, StopSignals(v) PROVE TypeOK'
  BY <1>17, DaemonAssumption DEF StopSignals
<1>18. ASSUME NEW v \in Verbs, stopPID(v) PROVE TypeOK'
  BY <1>18, DaemonAssumption DEF stopPID, GivesUp, Silence, removeDaemonPID
<1>19. CASE OutsiderLeaves
  BY <1>19, DaemonAssumption DEF OutsiderLeaves
<1>20. CASE UNCHANGED vars
  BY <1>20 DEF vars
<1>21. QED
  BY <1>1, <1>2, <1>3, <1>4, <1>5, <1>6, <1>7, <1>8, <1>9, <1>10, <1>11, <1>12,
     <1>13, <1>14, <1>15, <1>16, <1>17, <1>18, <1>19, <1>20 DEF Next, DaemonStep, VerbStep

\* The port, the file, the processes and the histories keep their types, and a verb
\* that waits for a process or signals one has one.
THEOREM TypeCorrect == Spec => []TypeOK
BY TypeInit, TypeStep, PTL DEF Spec

-----------------------------------------------------------------------------
(* The port and the file.                                                  *)

Listening == {"topics", "pid", "beat", "serving", "closing"}

\* The port is whose daemon has bound it and not yet let it go, and nobody else's.
PortHeld == \A d \in Daemons : port = d <=> pc[d] \in Listening

\* The file names only a daemon that wrote it and has not released it.
FileWritten ==
    \A d \in Daemons : pidFile = d => pc[d] \in {"beat", "serving", "closing", "release", "killed"}

\* Nobody comes to the release of the file while a daemon holds the port: who is
\* there was on the way when the port was bound.
ReleasesKnown ==
    \A d \in Daemons, p \in Daemons \cup Stops :
        pc[d] \in Listening \ {"closing"} /\ pc[p] = "release" => p \in pending[d]

PInv == PortHeld /\ FileWritten /\ ReleasesKnown /\ UnnamedOnlyIfOverlapped

LEMMA PortStep == TypeOK /\ PInv /\ [Next]_vars => PInv'
<1> SUFFICES ASSUME TypeOK, PInv, [Next]_vars PROVE PInv'
  OBVIOUS
<1> USE DEF PInv, PortHeld, FileWritten, ReleasesKnown, UnnamedOnlyIfOverlapped, Listening,
            TypeOK, Verbs, Move, Goto, Fault
<1>1. ASSUME NEW d \in Daemons, Boot(d) PROVE PInv'
  <2>1. CASE port = None
    <3>1. /\ pc[d] = "boot" /\ pc' = [pc EXCEPT ![d] = "topics"] /\ port' = d
          /\ pending' = [pending EXCEPT ![d] = Releasing] /\ pidFile' = pidFile
      BY <1>1, <2>1 DEF Boot
    <3>2. \A e \in Daemons : pc[e] \notin Listening
      BY <2>1, DaemonAssumption
    <3>3. PortHeld' /\ FileWritten' /\ UnnamedOnlyIfOverlapped'
      BY <3>1, <3>2, DaemonAssumption
    <3>4. ReleasesKnown'
      <4>1. \A p \in Daemons \cup Stops : pc'[p] = "release" => pc[p] = "release"
        BY <3>1, DaemonAssumption
      <4>2. \A e \in Daemons : pc'[e] \in Listening => e = d
        BY <3>1, <3>2
      <4>3. \A p \in Daemons \cup Stops : pc[p] = "release" => p \in pending'[d]
        BY <3>1 DEF Releasing
      <4>4. QED
        BY <4>1, <4>2, <4>3
    <3>5. QED
      BY <3>3, <3>4
  <2>2. CASE port # None
    BY <1>1, <2>2, DaemonAssumption DEF Boot
  <2>3. QED
    BY <2>1, <2>2
<1>2. ASSUME NEW d \in Daemons, ensureTopics(d) PROVE PInv'
  BY <1>2, DaemonAssumption DEF ensureTopics
<1>3. ASSUME NEW d \in Daemons, writeDaemonPID(d) PROVE PInv'
  BY <1>3, DaemonAssumption DEF writeDaemonPID
<1>4. ASSUME NEW d \in Daemons, beatOnce(d) PROVE PInv'
  BY <1>4, DaemonAssumption DEF beatOnce
<1>5. ASSUME NEW d \in Daemons, Ends(d) PROVE PInv'
  BY <1>5, DaemonAssumption DEF Ends
<1>6. ASSUME NEW d \in Daemons, Shutdown(d) PROVE PInv'
  BY <1>6, DaemonAssumption DEF Shutdown
<1>7. ASSUME NEW d \in Daemons, releaseDaemonPID(d) PROVE PInv'
  BY <1>7, DaemonAssumption DEF releaseDaemonPID, removeDaemonPID
<1>8. ASSUME NEW d \in Daemons, Killed(d) PROVE PInv'
  <2>1. /\ pc[d] \notin {"idle", "ended", "killed"} /\ pc' = [pc EXCEPT ![d] = "killed"]
        /\ port' = (IF port = d THEN None ELSE port) /\ pidFile' = pidFile /\ pending' = pending
    BY <1>8 DEF Killed, Running
  <2>2. PortHeld' /\ FileWritten' /\ ReleasesKnown'
    BY <2>1, DaemonAssumption
  <2>3. \A p \in Daemons \cup Stops : pc[p] \in {"ended", "stopped"} => pc'[p] = pc[p]
    <3>1. pc[d] \notin {"ended", "stopped"}
      BY <2>1 DEF DaemonLabels
    <3>2. QED
      BY <2>1, <3>1
  <2>4. UnnamedOnlyIfOverlapped'
    BY <2>1, <2>3
  <2>5. QED
    BY <2>2, <2>4
<1>9. ASSUME NEW d \in Daemons, PidReused(d) PROVE PInv'
  BY <1>9, DaemonAssumption DEF PidReused
<1>10. ASSUME NEW v \in Verbs, StartProbes(v) PROVE PInv'
  BY <1>10, DaemonAssumption DEF StartProbes, Silence
<1>11. ASSUME NEW v \in Verbs, StartSays(v) PROVE PInv'
  BY <1>11, DaemonAssumption DEF StartSays
<1>12. ASSUME NEW v \in Verbs, NEW d \in Daemons, Spawn(v, d) PROVE PInv'
  BY <1>12, DaemonAssumption DEF Spawn
<1>13. ASSUME NEW v \in Verbs, StartWaits(v) PROVE PInv'
  BY <1>13, DaemonAssumption DEF StartWaits, liveDaemon
<1>14. ASSUME NEW v \in Verbs, StopReads(v) PROVE PInv'
  BY <1>14, DaemonAssumption DEF StopReads, liveDaemon, Alive, Running
<1>15. ASSUME NEW v \in Verbs, StopProbes(v) PROVE PInv'
  BY <1>15, DaemonAssumption DEF StopProbes, Silence
<1>16. ASSUME NEW v \in Verbs, pidHoldingPort(v) PROVE PInv'
  BY <1>16, DaemonAssumption DEF pidHoldingPort, portAnswers
<1>17. ASSUME NEW v \in Verbs, StopSignals(v) PROVE PInv'
  BY <1>17, DaemonAssumption DEF StopSignals
<1>18. ASSUME NEW v \in Verbs, stopPID(v) PROVE PInv'
  <2>1. v \in Stops /\ port' = port /\ \A d \in Daemons : pc'[d] = pc[d] /\ d # v
    BY <1>18, DaemonAssumption DEF stopPID, GivesUp
  <2>2. CASE /\ pc' = [pc EXCEPT ![v] = "release"] /\ pidFile' = pidFile
             /\ pending' = [d \in Daemons |-> IF d = port THEN pending[d] \cup {v} ELSE pending[d]]
    <3>1. PortHeld' /\ FileWritten'
      BY <2>1, <2>2, DaemonAssumption
    <3>2. ReleasesKnown'
      BY <2>1, <2>2, DaemonAssumption
    <3>3. UnnamedOnlyIfOverlapped'
      <4>1. ASSUME NEW d \in Daemons, pc[d] \in {"beat", "serving"}, pidFile # d
            PROVE \E p \in pending'[d] : pc'[p] \in {"ended", "stopped"}
        <5>1. PICK p \in pending[d] : pc[p] \in {"ended", "stopped"}
          BY <4>1
        <5>2. CASE p = v
          BY <1>18, <5>1, <5>2, <2>2, DaemonAssumption DEF stopPID, GivesUp
        <5>3. CASE p # v
          BY <5>1, <5>3, <2>2, DaemonAssumption
        <5>4. QED
          BY <5>2, <5>3
      <4>2. QED
        BY <4>1, <2>1, <2>2
    <3>4. QED
      BY <3>1, <3>2, <3>3
  <2>3. CASE /\ pc[v] = "poll" /\ pc' = [pc EXCEPT ![v] = "failed"]
             /\ pidFile' = pidFile /\ pending' = pending
    BY <2>1, <2>3, DaemonAssumption
  <2>4. CASE /\ pc[v] = "release" /\ pc' = [pc EXCEPT ![v] = "stopped"]
             /\ pidFile' = None /\ pending' = pending
    BY <2>1, <2>4, DaemonAssumption
  <2>5. QED
    BY <1>18, <2>2, <2>3, <2>4 DEF stopPID, GivesUp, removeDaemonPID
<1>19. CASE OutsiderLeaves
  BY <1>19, DaemonAssumption DEF OutsiderLeaves
<1>20. CASE UNCHANGED vars
  BY <1>20 DEF vars
<1>21. QED
  BY <1>1, <1>2, <1>3, <1>4, <1>5, <1>6, <1>7, <1>8, <1>9, <1>10, <1>11, <1>12,
     <1>13, <1>14, <1>15, <1>16, <1>17, <1>18, <1>19, <1>20 DEF Next, DaemonStep, VerbStep

LEMMA PortInvariance == Spec => []PInv
<1>1. Init => PInv
  BY DaemonAssumption
     DEF Init, PInv, PortHeld, FileWritten, ReleasesKnown, UnnamedOnlyIfOverlapped, Listening
<1>2. QED
  BY <1>1, TypeInit, TypeStep, PortStep, PTL DEF Spec

\* Whoever the file names, if it runs and is not shutting down, holds the port, and has
\* not ended by its own steps: only a daemon that got the port writes the file, nobody
\* else lets the port go, and it takes its own name out before it ends.
THEOREM FileNeverMisleads == Spec => []NamedHoldsPort
<1>1. TypeOK /\ PInv => NamedHoldsPort
  BY DaemonAssumption DEF TypeOK, PInv, PortHeld, FileWritten, Listening, NamedHoldsPort
<1>2. QED
  BY <1>1, PortInvariance, TypeCorrect, PTL

\* A running daemon loses its name only to a release that was under way when it bound
\* the port, or to a stop that took the port for silent: no other release comes up
\* while the port is held.
THEOREM NameLostToOverlapOnly == Spec => []UnnamedOnlyIfOverlapped
<1>1. PInv => UnnamedOnlyIfOverlapped
  BY DEF PInv
<1>2. QED
  BY <1>1, PortInvariance, PTL

-----------------------------------------------------------------------------
(* Whom a stop signals.                                                    *)

\* Only a daemon that ended has its number taken; who comes to signal has either looked
\* up a process whose number is its own, or lost that to a stranger since; and the port
\* is looked up, and its holder signalled, with --force alone.
TargetKnown ==
    /\ \A d \in reused : pc[d] \in {"ended", "killed"}
    /\ \A v \in Stops : pc[v] = "lookup" => v \in Forced
    /\ \A v \in Stops : pc[v] = "signal" =>
          \/ target[v] \in Daemons \ reused
          \/ <<v, target[v]>> \in slipped
          \/ v \in Forced /\ target[v] = Outsider

HInv == TargetKnown /\ OthersUnharmed

LEMMA HarmStep == TypeOK /\ PInv /\ HInv /\ [Next]_vars => HInv'
<1> SUFFICES ASSUME TypeOK, PInv, HInv, [Next]_vars PROVE HInv'
  OBVIOUS
<1> USE DEF HInv, TargetKnown, OthersUnharmed, TypeOK, Verbs, Move, Goto
<1>1. ASSUME NEW d \in Daemons, Boot(d) PROVE HInv'
  BY <1>1, DaemonAssumption DEF Boot
<1>2. ASSUME NEW d \in Daemons, ensureTopics(d) PROVE HInv'
  BY <1>2, DaemonAssumption DEF ensureTopics
<1>3. ASSUME NEW d \in Daemons, writeDaemonPID(d) PROVE HInv'
  BY <1>3, DaemonAssumption DEF writeDaemonPID
<1>4. ASSUME NEW d \in Daemons, beatOnce(d) PROVE HInv'
  BY <1>4, DaemonAssumption DEF beatOnce
<1>5. ASSUME NEW d \in Daemons, Ends(d) PROVE HInv'
  BY <1>5, DaemonAssumption DEF Ends
<1>6. ASSUME NEW d \in Daemons, Shutdown(d) PROVE HInv'
  BY <1>6, DaemonAssumption DEF Shutdown
<1>7. ASSUME NEW d \in Daemons, releaseDaemonPID(d) PROVE HInv'
  BY <1>7, DaemonAssumption DEF releaseDaemonPID
<1>8. ASSUME NEW d \in Daemons, Killed(d) PROVE HInv'
  BY <1>8, DaemonAssumption DEF Killed, Running
<1>9. ASSUME NEW d \in Daemons, PidReused(d) PROVE HInv'
  BY <1>9, DaemonAssumption DEF PidReused
<1>10. ASSUME NEW v \in Verbs, StartProbes(v) PROVE HInv'
  BY <1>10, DaemonAssumption DEF StartProbes, Silence
<1>11. ASSUME NEW v \in Verbs, StartSays(v) PROVE HInv'
  BY <1>11, DaemonAssumption DEF StartSays
<1>12. ASSUME NEW v \in Verbs, NEW d \in Daemons, Spawn(v, d) PROVE HInv'
  BY <1>12, DaemonAssumption DEF Spawn
<1>13. ASSUME NEW v \in Verbs, StartWaits(v) PROVE HInv'
  BY <1>13, DaemonAssumption DEF StartWaits, liveDaemon
<1>14. ASSUME NEW v \in Verbs, StopReads(v) PROVE HInv'
  BY <1>14, DaemonAssumption DEF StopReads, liveDaemon, Alive, Running
<1>15. ASSUME NEW v \in Verbs, StopProbes(v) PROVE HInv'
  BY <1>15, DaemonAssumption DEF StopProbes, Silence
<1>16. ASSUME NEW v \in Verbs, pidHoldingPort(v) PROVE HInv'
  BY <1>16, DaemonAssumption DEF pidHoldingPort, portAnswers, PInv, PortHeld, Listening
<1>17. ASSUME NEW v \in Verbs, StopSignals(v) PROVE HInv'
  BY <1>17, DaemonAssumption DEF StopSignals, Running
<1>18. ASSUME NEW v \in Verbs, stopPID(v) PROVE HInv'
  BY <1>18, DaemonAssumption DEF stopPID, GivesUp
<1>19. CASE OutsiderLeaves
  BY <1>19 DEF OutsiderLeaves
<1>20. CASE UNCHANGED vars
  BY <1>20 DEF vars
<1>21. QED
  BY <1>1, <1>2, <1>3, <1>4, <1>5, <1>6, <1>7, <1>8, <1>9, <1>10, <1>11, <1>12,
     <1>13, <1>14, <1>15, <1>16, <1>17, <1>18, <1>19, <1>20 DEF Next, DaemonStep, VerbStep

\* Nothing is signalled but a daemon of this deployment, another supervisor's broker with
\* --force, or a stranger that took the number after the stop's check.
THEOREM OthersAreSafe == Spec => []OthersUnharmed
<1>1. Init => HInv
  BY DaemonAssumption DEF Init, HInv, TargetKnown, OthersUnharmed, Verbs
<1>2. HInv => OthersUnharmed
  BY DEF HInv
<1>3. QED
  BY <1>1, <1>2, TypeCorrect, PortInvariance, HarmStep, PTL DEF Spec
=============================================================================
