------------------------------- MODULE Daemon -------------------------------
(***************************************************************************)
(* The daemon of one deployment, and the verbs that start and stop it      *)
(* (cmd/loc/daemon.go, start.go, stop.go).  They share a port, which one   *)
(* process at a time can hold, and a file naming the daemon, which anyone  *)
(* writes and removes.  No lock spans the two: a verb asks one, then the   *)
(* other, and acts later.                                                  *)
(*                                                                         *)
(* A process is known by its pid and its start time together.  A daemon    *)
(* that ended leaves its number behind, and a stranger may come to have    *)
(* it: only then do the pair and the number alone tell different things.   *)
(* The address is fixed and the home keeps its config file, so listenAddr  *)
(* never refuses.                                                          *)
(***************************************************************************)
EXTENDS Naturals, FiniteSets

CONSTANTS
    Daemons,    \* the detached children there may be, one per spawn
    Starts,     \* processes running `loc start`
    Stops,      \* processes running `loc stop`
    Forced,     \* of them, those with --force
    Outsider,   \* a broker another supervisor runs on the same port
    None,
    MaxFaults   \* bound: kills, failed boots, dials that fail, waits that run out

Verbs == Starts \cup Stops

ASSUME DaemonAssumption ==
    /\ Starts \cap Stops = {} /\ Forced \subseteq Stops
    /\ Daemons \cap Verbs = {}
    /\ Outsider \notin Daemons \cup Verbs /\ None \notin Daemons \cup Verbs /\ None # Outsider
    /\ MaxFaults \in Nat

VARIABLES
    port,       \* who listens: a daemon, Outsider, or None
    pidFile,    \* the daemon the file names, or None
    pc,         \* where each daemon and each verb is
    signalled,  \* daemons with a stop signal waiting in their channel
    target,     \* the child of a start, the process a stop has looked up
    reused,     \* ended daemons whose number a stranger has by now
    slipped,    \* history: which stop's target lost its number to a stranger
                \* between that stop's check and its signal
    harmed,     \* history: processes signalled that no daemon of this deployment is
    pending,    \* history: for each daemon, who was still to remove the file
                \* when it bound the port, or took its port for silent since
    faults

vars == <<port, pidFile, pc, signalled, target, reused, slipped, harmed, pending, faults>>

DaemonLabels == {"idle", "boot", "topics", "pid", "beat", "serving", "closing", "release",
                 "ended", "killed"}
VerbLabels == {"off", "known", "spawn", "wait", "probe", "lookup", "signal", "poll", "release",
               "up", "held", "started", "silent", "stopped", "refused", "failed"}

Init ==
    /\ port \in {None, Outsider} /\ pidFile = None
    /\ pc = [p \in Daemons \cup Verbs |-> IF p \in Daemons THEN "idle" ELSE "off"]
    /\ signalled = {} /\ target = [v \in Verbs |-> None]
    /\ reused = {} /\ slipped = {} /\ harmed = {} /\ pending = [d \in Daemons |-> {}]
    /\ faults = 0

Running(d) == pc[d] \notin {"idle", "ended", "killed"}
Goto(p, label) == pc' = [pc EXCEPT ![p] = label]
Move(p, from, label) == pc[p] = from /\ Goto(p, label)
Fault == faults < MaxFaults /\ faults' = faults + 1

\* Mutant: the number is the identity.
AliveByNumber(d) == Running(d) \/ d \in reused

\* The pair is the identity.
Alive(d) == Running(d)
liveDaemon == pidFile # None /\ Alive(pidFile)
portAnswers == port # None

\* The dial finds nobody: there is none, or it fails or is too slow.
Silence == IF portAnswers THEN Fault ELSE UNCHANGED faults

removeDaemonPID == pidFile' = None

-----------------------------------------------------------------------------
(* The daemon.                                                             *)

\* Who will still remove the file: a daemon that has closed its port, a stop
\* that has signalled one.
Releasing == {p \in Daemons \cup Stops : pc[p] \in {"closing", "release", "poll"}}

\* Mutant: a child that does not get the port boots on without it.
BootsAnyway(d) ==
    /\ Move(d, "boot", "topics")
    /\ IF port = None THEN port' = d /\ pending' = [pending EXCEPT ![d] = Releasing]
                      ELSE UNCHANGED <<port, pending>>
    /\ UNCHANGED <<pidFile, signalled, target, reused, slipped, harmed, faults>>

\* The port is asked for once, at boot; a child that does not get it gives up.
Boot(d) ==
    /\ IF port = None
       THEN Move(d, "boot", "topics") /\ port' = d /\ pending' = [pending EXCEPT ![d] = Releasing]
       ELSE Move(d, "boot", "ended") /\ UNCHANGED <<port, pending>>
    /\ UNCHANGED <<pidFile, signalled, target, reused, slipped, harmed, faults>>

\* The rooms' stream, or the end of it.
ensureTopics(d) ==
    /\ \/ Move(d, "topics", "pid") /\ UNCHANGED <<port, faults>>
       \/ Move(d, "topics", "ended") /\ port' = None /\ Fault
    /\ UNCHANGED <<pidFile, signalled, target, reused, slipped, harmed, pending>>

writeDaemonPID(d) ==
    /\ \/ Move(d, "pid", "beat") /\ pidFile' = d /\ UNCHANGED <<port, faults>>
       \/ Move(d, "pid", "ended") /\ port' = None /\ Fault /\ UNCHANGED pidFile
    /\ UNCHANGED <<signalled, target, reused, slipped, harmed, pending>>

\* Mutant: the signals are asked for when the boot is over.
FirstBeatForgets(d) ==
    /\ Move(d, "beat", "serving")
    /\ signalled' = signalled \ {d}
    /\ UNCHANGED <<port, pidFile, target, reused, slipped, harmed, pending, faults>>

\* The first beat; a signal that comes before the loop waits in the channel.
beatOnce(d) ==
    /\ Move(d, "beat", "serving")
    /\ UNCHANGED <<port, pidFile, signalled, target, reused, slipped, harmed, pending, faults>>

\* A signal ends the loop, and later ones are ignored.
Ends(d) ==
    /\ d \in signalled /\ Move(d, "serving", "closing")
    /\ signalled' = signalled \ {d}
    /\ UNCHANGED <<port, pidFile, target, reused, slipped, harmed, pending, faults>>
Shutdown(d) ==
    /\ Move(d, "closing", "release") /\ port' = None
    /\ UNCHANGED <<pidFile, signalled, target, reused, slipped, harmed, pending, faults>>

releaseDaemonPID(d) ==
    /\ Move(d, "release", "ended") /\ removeDaemonPID
    /\ UNCHANGED <<port, signalled, target, reused, slipped, harmed, pending, faults>>

Killed(d) ==
    /\ Running(d) /\ Fault /\ Goto(d, "killed")
    /\ port' = IF port = d THEN None ELSE port
    /\ signalled' = signalled \ {d}
    /\ UNCHANGED <<pidFile, target, reused, slipped, harmed, pending>>

-----------------------------------------------------------------------------
(* The rest of the machine.                                                *)

\* A number may be taken at any time, also between a stop's check of the pair and
\* its signal, which goes to the bare number.
PidReused(d) ==
    /\ pc[d] \in {"ended", "killed"} /\ d \notin reused
    /\ reused' = reused \cup {d}
    /\ slipped' = slipped \cup {<<v, d>> : v \in {v \in Stops : pc[v] = "signal" /\ target[v] = d}}
    /\ UNCHANGED <<port, pidFile, pc, signalled, target, harmed, pending, faults>>

OutsiderLeaves ==
    /\ port = Outsider /\ port' = None
    /\ UNCHANGED <<pidFile, pc, signalled, target, reused, slipped, harmed, pending, faults>>

-----------------------------------------------------------------------------
(* loc start: the port first, then whose it is.                            *)

StartProbes(v) ==
    /\ v \in Starts
    /\ \/ portAnswers /\ Move(v, "off", "known") /\ UNCHANGED faults
       \/ Silence /\ Move(v, "off", "spawn")
    /\ UNCHANGED <<port, pidFile, signalled, target, reused, slipped, harmed, pending>>

StartSays(v) ==
    /\ v \in Starts /\ Move(v, "known", IF liveDaemon THEN "up" ELSE "held")
    /\ UNCHANGED <<port, pidFile, signalled, target, reused, slipped, harmed, pending, faults>>

Spawn(v, d) ==
    /\ v \in Starts /\ pc[v] = "spawn" /\ pc[d] = "idle"
    /\ pc' = [pc EXCEPT ![v] = "wait", ![d] = "boot"]
    /\ target' = [target EXCEPT ![v] = d]
    /\ UNCHANGED <<port, pidFile, signalled, reused, slipped, harmed, pending, faults>>

\* The pid that is printed is the file's when it names a live daemon.
StartWaits(v) ==
    /\ v \in Starts
    /\ \/ portAnswers /\ Move(v, "wait", "started") /\ UNCHANGED faults
          /\ target' = [target EXCEPT ![v] = IF liveDaemon THEN pidFile ELSE @]
       \/ Move(v, "wait", "failed") /\ Fault /\ UNCHANGED target
    /\ UNCHANGED <<port, pidFile, signalled, reused, slipped, harmed, pending>>

-----------------------------------------------------------------------------
(* loc stop: the file first, then the port.                                *)

StopReads(v) ==
    /\ v \in Stops /\ Move(v, "off", IF liveDaemon THEN "signal" ELSE "probe")
    /\ target' = [target EXCEPT ![v] = IF liveDaemon THEN pidFile ELSE None]
    /\ UNCHANGED <<port, pidFile, signalled, reused, slipped, harmed, pending, faults>>

StopProbes(v) ==
    /\ v \in Stops
    /\ \/ Silence /\ Move(v, "probe", "silent")
       \/ portAnswers /\ UNCHANGED faults
          /\ Move(v, "probe", IF v \in Forced THEN "lookup" ELSE "refused")
    /\ UNCHANGED <<port, pidFile, signalled, target, reused, slipped, harmed, pending>>

\* The port may have fallen silent since, or the tool that is asked may fail.
pidHoldingPort(v) ==
    /\ v \in Stops
    /\ \/ Move(v, "lookup", "refused") /\ UNCHANGED target
       \/ portAnswers /\ Move(v, "lookup", "signal") /\ target' = [target EXCEPT ![v] = port]
    /\ UNCHANGED <<port, pidFile, signalled, reused, slipped, harmed, pending, faults>>

\* A daemon takes the signal into its channel, unless it is ending already; an
\* outsider ends of it; a process that is gone makes the verb fail.
StopSignals(v) ==
    LET p == target[v] IN
    /\ v \in Stops /\ pc[v] = "signal"
    /\ IF p = Outsider \/ p \in reused \/ Running(p) THEN Goto(v, "poll") ELSE Goto(v, "failed")
    /\ signalled' = IF p # Outsider /\ pc[p] \in {"boot", "topics", "pid", "beat", "serving"}
                    THEN signalled \cup {p} ELSE signalled
    /\ harmed' = IF p = Outsider \/ p \in reused THEN harmed \cup {<<v, p>>} ELSE harmed
    /\ UNCHANGED <<port, pidFile, target, reused, slipped, pending, faults>>

\* Mutant: a stop that gives up waiting removes the file all the same.
GivesUpTidily(v) ==
    Move(v, "poll", "failed") /\ Fault /\ removeDaemonPID /\ UNCHANGED pending

GivesUp(v) == Move(v, "poll", "failed") /\ Fault /\ UNCHANGED <<pidFile, pending>>

\* The port is the answer: when it is found silent the file goes, whoever wrote it.
stopPID(v) ==
    /\ v \in Stops
    /\ \/ Silence /\ Move(v, "poll", "release") /\ UNCHANGED pidFile
          /\ pending' = [d \in Daemons |-> IF d = port THEN pending[d] \cup {v} ELSE pending[d]]
       \/ GivesUp(v)
       \/ Move(v, "release", "stopped") /\ removeDaemonPID /\ UNCHANGED <<pending, faults>>
    /\ UNCHANGED <<port, signalled, target, reused, slipped, harmed>>

-----------------------------------------------------------------------------

DaemonStep(d) ==
    \/ Boot(d) \/ ensureTopics(d) \/ writeDaemonPID(d) \/ beatOnce(d)
    \/ Ends(d) \/ Shutdown(d) \/ releaseDaemonPID(d)
VerbStep(v) ==
    \/ StartProbes(v) \/ StartSays(v) \/ StartWaits(v) \/ \E d \in Daemons : Spawn(v, d)
    \/ StopReads(v) \/ StopProbes(v) \/ pidHoldingPort(v) \/ StopSignals(v) \/ stopPID(v)

Next ==
    \/ \E d \in Daemons : DaemonStep(d) \/ Killed(d) \/ PidReused(d)
    \/ \E v \in Verbs : VerbStep(v)
    \/ OutsiderLeaves

Spec == Init /\ [][Next]_vars

\* A daemon's steps are its own: nothing it does waits for another process.
FairSpec == Spec /\ \A d \in Daemons : WF_vars(DaemonStep(d))

-----------------------------------------------------------------------------
(* Properties.                                                             *)

\* The port, the file, the processes and the histories keep their types, and a
\* verb that waits for a process or signals one has one.
TypeOK ==
    /\ port \in Daemons \cup {Outsider, None} /\ pidFile \in Daemons \cup {None}
    /\ pc \in [Daemons \cup Verbs -> DaemonLabels \cup VerbLabels]
    /\ \A d \in Daemons : pc[d] \in DaemonLabels
    /\ \A v \in Verbs : pc[v] \in VerbLabels
    /\ signalled \subseteq Daemons
    /\ target \in [Verbs -> Daemons \cup {Outsider, None}]
    /\ \A v \in Verbs : pc[v] \in {"wait", "signal"} => target[v] # None
    /\ reused \subseteq Daemons
    /\ slipped \subseteq Stops \X Daemons
    /\ harmed \subseteq Stops \X (Daemons \cup {Outsider})
    /\ pending \in [Daemons -> SUBSET (Daemons \cup Stops)]
    /\ faults \in 0 .. MaxFaults

\* The file never misleads.  A process it names, that runs and is not shutting
\* down, holds the port: the child that lost the port to another never gets its name
\* into the file.  And it names no daemon that ended by its own steps, however many
\* stops signal it and however late; only a kill leaves such a name.
NamedHoldsPort ==
    pidFile # None
        => /\ pc[pidFile] \in {"boot", "topics", "pid", "beat", "serving"} => port = pidFile
           /\ pc[pidFile] # "ended"

\* A running daemon loses its name only to a release that was under way when it
\* bound the port and has come since (an older daemon between its close and its
\* release, or a stop that had signalled one), or to a stop that took its port for
\* silent.  A stop that times out, a start that finds the port taken and a child
\* that loses it take no name away.
UnnamedOnlyIfOverlapped ==
    \A d \in Daemons :
        pc[d] \in {"beat", "serving"} /\ pidFile # d
            => \E p \in pending[d] : pc[p] \in {"ended", "stopped"}

\* Nothing is signalled but a daemon of this deployment: another supervisor's broker
\* only with --force, and a stranger with a dead daemon's number, forced or not, only
\* when it took that number between the stop's check and its signal, which nothing
\* in the code can tell.
OthersUnharmed ==
    \A h \in harmed : h \in slipped \/ (h[1] \in Forced /\ h[2] = Outsider)

\* A daemon that a stop has signalled ends, at whatever point of its boot the
\* signal came.
SignalledEnds ==
    \A d \in Daemons : (d \in signalled) ~> ~Running(d)
=============================================================================
