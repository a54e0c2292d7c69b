-------------------------------- MODULE Entry --------------------------------
(***************************************************************************)
(* `loc mcp` (cmd/loc/mcp.go): the process a runtime launches only starts  *)
(* another and waits; that one is the server and holds the seat            *)
(* (internal/mcpserve/serve.go).  Both hear the signals a terminal or a    *)
(* runtime sends to the group; a runtime may as well signal the launched   *)
(* process alone, kill it, or close the pipe, which only the server reads. *)
(*                                                                         *)
(* A signal (TERM, INT, HUP) ends a process that has no handler yet, waits *)
(* in the one place of a handler's channel, and is nothing to a process    *)
(* that ignores it.  What the server does to the seat is in Seat; here it  *)
(* is one row, taken and given up.                                         *)
(***************************************************************************)
EXTENDS Naturals

CONSTANTS
    None,
    MaxSignals, \* bound: signals sent by the runtime
    MaxFaults   \* bound: kills, and calls that fail

ASSUME EntryAssumption ==
    /\ MaxSignals \in Nat /\ MaxFaults \in Nat
    /\ None \notin {"0", "1", "signal"}

VARIABLES
    pipe,       \* does the runtime hold its end of the server's stdin
    parent, child,
    inbox,      \* whose channel holds a signal
    ending,     \* how the child ended: its code ("1" for any but 0), or "signal"
    status,     \* the launched process's exit code
    row,        \* does the seat's row name this server
    wrong,      \* history: what may leave the row behind: "killed", "register", "leave"
    signals, faults

entryVars == <<pipe, parent, child, inbox, ending, status, row, wrong, signals, faults>>

EntryInit ==
    /\ pipe = TRUE /\ parent = "fresh" /\ child = "none" /\ inbox = {}
    /\ ending = None /\ status = None /\ row = FALSE /\ wrong = {}
    /\ signals = 0 /\ faults = 0

Fault == faults < MaxFaults /\ faults' = faults + 1
Ended(how) == child' = "over" /\ ending' = how

\* Mutant: the server stops its subscription when it decides to leave, which puts
\* the default disposition back.
BareAgain == {"fresh", "started", "boot", "leaving", "release"}

\* Where the default disposition of a signal is still in place.
Bare == {"fresh", "started", "boot"}

Heeding == {"waiting", "deps", "register", "ringing", "serving"}

\* A signal reaches the server.
Reaches ==
    /\ IF child \in Bare THEN Ended("signal") ELSE UNCHANGED <<child, ending>>
    /\ inbox' = (inbox \ {"parent"}) \cup (IF child \in Heeding THEN {"child"} ELSE {})

-----------------------------------------------------------------------------
(* The runtime.                                                            *)

LetsGo ==
    /\ pipe /\ pipe' = FALSE
    /\ UNCHANGED <<parent, child, inbox, ending, status, row, wrong, signals, faults>>

\* To the group, or to the process it launched alone.
Signals(group) ==
    LET hears == IF group THEN {"parent", "child"} ELSE {"parent"}
        at == [parent |-> parent, child |-> child]
    IN  /\ signals < MaxSignals /\ signals' = signals + 1
        /\ parent' = IF parent \in Bare THEN "killed" ELSE parent
        /\ IF group /\ child \in Bare THEN Ended("signal") ELSE UNCHANGED <<child, ending>>
        /\ inbox' = inbox \cup {p \in hears : at[p] \in Heeding}
        /\ UNCHANGED <<pipe, status, row, wrong, faults>>

KillsParent ==
    /\ parent \in {"fresh", "started", "waiting"} /\ Fault
    /\ parent' = "killed" /\ inbox' = inbox \ {"parent"}
    /\ UNCHANGED <<pipe, child, ending, status, row, wrong, signals>>

KillsChild ==
    /\ child \notin {"none", "over"} /\ Fault
    /\ Ended("signal") /\ inbox' = inbox \ {"child"} /\ wrong' = wrong \cup {"killed"}
    /\ UNCHANGED <<pipe, parent, status, row, signals>>

-----------------------------------------------------------------------------
(* The launched process.                                                   *)

selfCommand ==
    /\ parent = "fresh"
    /\ \/ parent' = "started" /\ child' = "boot" /\ UNCHANGED <<status, faults>>
       \/ parent' = "exited" /\ status' = "1" /\ Fault /\ UNCHANGED child
    /\ UNCHANGED <<pipe, inbox, ending, row, wrong, signals>>

Notifies ==
    /\ parent = "started" /\ parent' = "waiting"
    /\ UNCHANGED <<pipe, child, inbox, ending, status, row, wrong, signals, faults>>

\* Mutant: a signal is obeyed and not passed on.
Obeys ==
    /\ parent = "waiting" /\ "parent" \in inbox
    /\ parent' = "exited" /\ status' = "1" /\ inbox' = inbox \ {"parent"}
    /\ UNCHANGED <<pipe, child, ending, row, wrong, signals, faults>>

\* What is delivered is passed along, a second copy or not.
Forwards ==
    /\ parent = "waiting" /\ "parent" \in inbox
    /\ Reaches
    /\ UNCHANGED <<pipe, parent, status, row, wrong, signals, faults>>

childStatus(how) == IF how = "signal" THEN "1" ELSE how

mcpParent ==
    /\ parent = "waiting" /\ child = "over"
    /\ parent' = "exited" /\ status' = childStatus(ending) /\ inbox' = inbox \ {"parent"}
    /\ UNCHANGED <<pipe, child, ending, row, wrong, signals, faults>>

-----------------------------------------------------------------------------
(* The server.                                                             *)

\* The handler is installed before anything else.
mcpServe ==
    /\ child = "boot" /\ child' = "deps"
    /\ UNCHANGED <<pipe, parent, inbox, ending, status, row, wrong, signals, faults>>

\* Identity, version, provider; the listener; the preflight.  Any may refuse.
mcpDeps ==
    /\ child = "deps"
    /\ \/ child' = "register" /\ UNCHANGED <<inbox, ending>>
       \/ Ended("1") /\ inbox' = inbox \ {"child"}
    /\ UNCHANGED <<pipe, parent, status, row, wrong, signals, faults>>

\* A registration that fails may have written its row.
register ==
    /\ child = "register"
    /\ \/ child' = "ringing" /\ row' = TRUE /\ UNCHANGED <<inbox, ending, wrong, faults>>
       \/ Ended("1") /\ Fault /\ inbox' = inbox \ {"child"}
          /\ row' \in BOOLEAN /\ wrong' = wrong \cup {"register"}
    /\ UNCHANGED <<pipe, parent, status, signals>>

\* The bell is started, and rings for mail that waits before the server goes on:
\* it returns when the seat's notifier does.
startBell ==
    /\ child = "ringing" /\ child' = "serving"
    /\ UNCHANGED <<pipe, parent, inbox, ending, status, row, wrong, signals, faults>>

\* The end of the pipe, or a signal, which may have come at any time since the
\* handler; later ones are ignored for good.
wait ==
    /\ child = "serving" /\ (~pipe \/ "child" \in inbox)
    /\ child' = "leaving" /\ inbox' = inbox \ {"child"}
    /\ UNCHANGED <<pipe, parent, ending, status, row, wrong, signals, faults>>

\* The unsubscribe may fail or run out of time.
depart ==
    /\ child = "leaving" /\ child' = "release"
    /\ \/ row' = FALSE /\ UNCHANGED <<wrong, faults>>
       \/ Fault /\ wrong' = wrong \cup {"leave"} /\ row' \in BOOLEAN
    /\ UNCHANGED <<pipe, parent, inbox, ending, status, signals>>

releasePIDFile ==
    /\ child = "release" /\ Ended("0")
    /\ UNCHANGED <<pipe, parent, inbox, status, row, wrong, signals, faults>>

-----------------------------------------------------------------------------

Launched == selfCommand \/ Notifies \/ Forwards \/ mcpParent
Server == mcpServe \/ mcpDeps \/ register \/ wait \/ depart \/ releasePIDFile

EntryNext ==
    \/ LetsGo \/ KillsParent \/ KillsChild
    \/ \E group \in BOOLEAN : Signals(group)
    \/ Launched \/ Server \/ startBell

EntrySpec == EntryInit /\ [][EntryNext]_entryVars

\* Both processes go on; nothing is assumed of the runtime, nor of the notifier's
\* first ring, for tmux, herdr and the courier are run without a deadline.  Of the
\* launched process's two reasons to wake neither is put off for ever.
EntryFairSpec ==
    EntrySpec /\ WF_entryVars(Launched) /\ WF_entryVars(Forwards) /\ WF_entryVars(Server)

-----------------------------------------------------------------------------
(* Properties.                                                             *)

\* The processes, the channels and the codes keep their types; the launched process
\* exits with a code of its own or the child's, never with the one that says a
\* signal ended it.
EntryTypeOK ==
    /\ pipe \in BOOLEAN /\ row \in BOOLEAN
    /\ parent \in {"fresh", "started", "waiting", "exited", "killed"}
    /\ child \in {"none", "boot", "deps", "register", "ringing", "serving", "leaving",
                 "release", "over"}
    /\ inbox \subseteq {"parent", "child"}
    /\ ending \in {None, "0", "1", "signal"} /\ status \in {None, "0", "1"}
    /\ wrong \subseteq {"killed", "register", "leave"}
    /\ signals \in 0 .. MaxSignals /\ faults \in 0 .. MaxFaults

\* A signal strands no seat.  However many come, to whichever process and at
\* whatever moment of its life, a server that is over has left its row behind only
\* if it was killed outright, failed to register or failed to leave; and a launched
\* process that reports success has waited for a server that gave its seat up.
NothingStranded ==
    /\ child = "over" /\ row => wrong # {}
    /\ status = "0" => child = "over" /\ ending = "0" /\ (row => "leave" \in wrong)

\* What a handler has heard ends the server, unless its first ring never returns: the
\* server's own handler, and the launched process's unless that process is killed
\* before it passes the signal on.  So does the runtime letting go of the pipe, even
\* when the launched process was killed long before.
HeardEnds ==
    \/ <>[](child = "ringing")
    \/ /\ (child \notin {"none", "over"} /\ (~pipe \/ "child" \in inbox)) ~> (child = "over")
       /\ "parent" \in inbox ~> (child = "over" \/ parent = "killed")
=============================================================================
