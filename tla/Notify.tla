------------------------------- MODULE Notify -------------------------------
(***************************************************************************)
(* The notifiers (internal/mcpserve/notify.go, notify_herdr.go,            *)
(* courier.go): how one ring of a seat's bell reaches a pane, an agent, a  *)
(* session or a receiver, and what it says of itself to the bell.          *)
(*                                                                         *)
(* A ring is a run of calls to programs and people that move meanwhile,    *)
(* and the bell calls Ring with its lock free: a window that fires and a   *)
(* later try may be in it together.                                        *)
(*                                                                         *)
(* `there` is what the address leads to.  A pane is at a "prompt", in copy *)
(* "mode", a "shell", or "gone"; an agent "idle", "working", "blocked" at  *)
(* a dialog, or "gone"; a pane of the courier's holds a session or None; a *)
(* receiver is "ready", "busy", "holding", "redirect", "mute" or "down".   *)
(* Three places look to the guard like a seat at its prompt and are not: a *)
(* "mimic", a screen that shows both markers; an "other" agent's prompt, on *)
(* a pane whose id is stale; a "menu" that herdr reports as an idle agent.  *)
(* The text of a bell is not modelled, only where it has got to.           *)
(***************************************************************************)
EXTENDS Naturals, FiniteSets

CONSTANTS
    Rings,      \* calls of Ring
    Sessions,   \* agent sessions a courier may send to
    Named,      \* the one that carries the seat's session name
    None,
    Types,      \* listener types a deployment tries to register
    Window,     \* courierWindow, in ticks
    MaxTime,    \* bound: ticks of the clock
    MaxEvents,  \* bound: events of all couriers
    MaxFaults   \* bound: keystrokes and couriers that fail for no reason

ASSUME NotifyAssumption ==
    /\ Named \in Sessions /\ None \notin Sessions \cup Nat
    /\ None \notin {"", "no result", "no session", "wrong", "send failed",
                    "rang", "refused", "held", "failed"}
    /\ {Window, MaxTime, MaxEvents, MaxFaults} \subseteq Nat

VARIABLES
    seat,       \* the listener type and address registered, or None
    there,
    pc,         \* where each ring is
    result,     \* what it came to, in the bell's words
    reason,     \* what a courier's outcome said
    typed,      \* where the ring's line is
    moved,      \* history: rings during which the pane or agent changed
    now,
    last,       \* the courier's stamp for the seat, or None
    spawned,    \* history: when each ring spawned a courier
    stream,     \* the events each running courier has printed, whose order and
                \* number say nothing to the binary
    woken,      \* history: whom each courier that ended had woken: "nobody",
                \* "others", or the session the bell is for ("ours")
    faults

typing == <<typed, moved>>
told == <<woken, reason>>
couriers == <<last, spawned, stream, told>>
vars == <<seat, there, pc, result, typing, now, couriers, faults>>

ListenerTypes == {"tmux", "herdr", "claude", "webhook", "none"}
Addresses(type) ==
    CASE type = "tmux" -> {"", "pane"}
      [] type = "herdr" -> {"", "agent"}
      [] type = "claude" -> {"", "pane", "name", "target"}
      [] type = "webhook" -> {"", "loopback", "localhost", "remote"}
      [] OTHER -> {""}
Places(type) ==
    CASE type = "tmux" -> {"prompt", "mode", "shell", "gone", "mimic", "other"}
      [] type = "herdr" -> {"idle", "working", "blocked", "gone", "menu"}
      [] type = "claude" -> Sessions \cup {None}
      [] type = "webhook" -> {"ready", "busy", "holding", "redirect", "mute", "down"}
      [] OTHER -> {None}

\* No question a ring asks tells these from the seat's own prompt.
Lookalikes == {"mimic", "other", "menu"}

Init ==
    /\ seat = None /\ there = None
    /\ pc = [r \in Rings |-> "idle"] /\ result = [r \in Rings |-> None]
    /\ reason = [r \in Rings |-> None]
    /\ typed = [r \in Rings |-> "no"] /\ moved = {}
    /\ now = 0 /\ last = None /\ spawned = [r \in Rings |-> None]
    /\ stream = [r \in Rings |-> {}] /\ woken = [r \in Rings |-> "nobody"]
    /\ faults = 0

Fault == faults < MaxFaults /\ faults' = faults + 1
\* Only the courier looks at the clock.
Tick == seat # None /\ seat.type = "claude" /\ now < MaxTime /\ now' = now + 1
        /\ UNCHANGED <<seat, there, pc, result, typing, couriers, faults>>

Typing == {r \in Rings : pc[r] \in {"mode", "capture", "type", "enter", "ask", "prompt"}}
At(r, label) == pc[r] = label
Goto(r, label) == pc' = [pc EXCEPT ![r] = label] /\ UNCHANGED result
Ends(r, word) == pc' = [pc EXCEPT ![r] = "done"] /\ result' = [result EXCEPT ![r] = word]

-----------------------------------------------------------------------------
(* Registration refuses a type with no notifier, and an address its         *)
(* notifier could never use; a pane or a session is opaque to it.           *)

\* Mutant: any host will do.
AnyHost(address) == address # ""

loopbackHost(address) == address \in {"loopback", "localhost"}
webhookURL(address) == address # "" /\ loopbackHost(address)
validHerdrAddress(address) == address # ""

ValidListenerType(type) == type \in ListenerTypes
ValidListenerAddress(type, address) ==
    /\ type = "webhook" => webhookURL(address)
    /\ type = "herdr" => validHerdrAddress(address)

Registers(type, address) ==
    /\ seat = None
    /\ ValidListenerType(type) /\ ValidListenerAddress(type, address)
    /\ seat' = [type |-> type, address |-> address]
    /\ there' \in Places(type)
    /\ UNCHANGED <<pc, result, typing, now, couriers, faults>>

\* What is there changes under a ring's feet.  A program that leaves its prompt
\* for good takes what was in its box with it.
Moves ==
    /\ seat # None
    /\ there' \in Places(seat.type) \ {there}
    /\ moved' = moved \cup Typing
    /\ typed' = [r \in Rings |-> IF typed[r] = "box" /\ there' \in {"shell", "gone", "mimic", "other"}
                                 THEN "lost" ELSE typed[r]]
    /\ UNCHANGED <<seat, pc, result, now, couriers, faults>>

\* A person empties the box.
Clears ==
    /\ there = "prompt"
    /\ \E r \in Rings : typed[r] = "box"
    /\ moved' = moved \cup Typing
    /\ typed' = [r \in Rings |-> IF typed[r] = "box" THEN "lost" ELSE typed[r]]
    /\ UNCHANGED <<seat, there, pc, result, now, couriers, faults>>

\* The bell rings the notifier of its type; there is no other to fall back on.
newNotifier == [tmux |-> "mode", herdr |-> "ask", claude |-> "take", webhook |-> "dial"]

Begins(r) ==
    /\ seat # None /\ At(r, "idle")
    /\ CASE seat.type = "none" -> Ends(r, "rang")
         [] seat.type \in {"tmux", "claude"} /\ seat.address = "" -> Ends(r, "failed")
         [] OTHER -> Goto(r, newNotifier[seat.type])
    /\ UNCHANGED <<seat, there, typing, now, couriers, faults>>

-----------------------------------------------------------------------------
(* tmux: is a person reading, is it a prompt, the line, a pause, Enter.     *)

LooksAtMode(r) ==
    /\ At(r, "mode")
    /\ CASE there = "gone" -> Ends(r, "failed")
         [] there = "mode" -> Ends(r, "refused")
         [] OTHER -> Goto(r, "capture")
    /\ UNCHANGED <<seat, there, typing, now, couriers, faults>>

\* Copy mode over a prompt shows the prompt's markers, and other screens may.
isPrompt == there \in {"prompt", "mode"} \cup Lookalikes

Captures(r) ==
    /\ At(r, "capture")
    /\ CASE there = "gone" -> Ends(r, "failed")
         [] ~isPrompt /\ there # "gone" -> Ends(r, "refused")
         [] OTHER -> Goto(r, "type")
    /\ UNCHANGED <<seat, there, typing, now, couriers, faults>>

TypesLine(r) ==
    /\ At(r, "type")
    /\ IF there = "gone" THEN Ends(r, "failed") /\ UNCHANGED typed
       ELSE /\ Goto(r, "enter")
            /\ typed' = [typed EXCEPT ![r] = CASE there = "prompt" -> "box"
                                              [] there \in Lookalikes -> "misled"
                                              [] OTHER -> "astray"]
    /\ UNCHANGED <<seat, there, moved, now, couriers, faults>>

\* Enter takes everything in the box, other rings' lines with it.
Submitted == [q \in Rings |-> IF typed[q] = "box" THEN "submitted" ELSE typed[q]]

\* Mutant: a failed Enter is no failure of the ring.
EntersHopefully(r) ==
    /\ At(r, "enter") /\ Ends(r, "rang")
    /\ \/ Fault /\ UNCHANGED typed
       \/ typed' = (IF there = "prompt" THEN Submitted ELSE typed) /\ UNCHANGED faults
    /\ UNCHANGED <<seat, there, moved, now, couriers>>

Enters(r) ==
    /\ At(r, "enter")
    /\ \/ there = "gone" /\ Ends(r, "failed") /\ UNCHANGED <<typed, faults>>
       \/ there # "gone" /\ Fault /\ Ends(r, "failed") /\ UNCHANGED typed
       \/ there # "gone" /\ Ends(r, "rang") /\ UNCHANGED faults
          /\ typed' = IF there = "prompt" THEN Submitted ELSE typed
    /\ UNCHANGED <<seat, there, moved, now, couriers>>

-----------------------------------------------------------------------------
(* herdr: the agent's state, then the line, which herdr also submits.       *)

\* Mutant: a dialog is one more state the agent can be prompted in.
AsksWhetherWorking(r) ==
    /\ At(r, "ask")
    /\ CASE there = "gone" -> Ends(r, "failed")
         [] there = "working" -> Ends(r, "refused")
         [] OTHER -> Goto(r, "prompt")
    /\ UNCHANGED <<seat, there, typing, now, couriers, faults>>

Asks(r) ==
    /\ At(r, "ask")
    /\ CASE there = "gone" -> Ends(r, "failed")
         [] there \in {"working", "blocked"} -> Ends(r, "refused")
         [] OTHER -> Goto(r, "prompt")
    /\ UNCHANGED <<seat, there, typing, now, couriers, faults>>

Prompts(r) ==
    /\ At(r, "prompt")
    /\ IF there = "gone" THEN Ends(r, "failed") /\ UNCHANGED typed
       ELSE /\ Ends(r, "rang")
            /\ typed' = [typed EXCEPT ![r] = CASE there = "blocked" -> "astray"
                                              [] there \in Lookalikes -> "misled"
                                              [] OTHER -> "submitted"]
    /\ UNCHANGED <<seat, there, moved, now, couriers, faults>>

-----------------------------------------------------------------------------
(* claude: a courier session, at most one per window, and what it printed.  *)

\* Mutant: a courier that has ended leaves room for the next.
TakeUnlessRunning(r) ==
    /\ At(r, "take")
    /\ IF \E q \in Rings : At(q, "courier") THEN Ends(r, "rang") /\ UNCHANGED <<last, spawned>>
       ELSE /\ Goto(r, "courier")
            /\ last' = now /\ spawned' = [spawned EXCEPT ![r] = now]
    /\ UNCHANGED <<seat, there, typing, now, stream, told, faults>>

\* The stamp is taken before the courier runs; a ring inside the window is dropped,
\* and that is no error.
take(r) ==
    LET limited == last # None /\ now < last + Window IN
    /\ At(r, "take")
    /\ IF limited THEN Ends(r, "rang") /\ UNCHANGED <<last, spawned>>
       ELSE /\ Goto(r, "courier")
            /\ last' = now /\ spawned' = [spawned EXCEPT ![r] = now]
    /\ UNCHANGED <<seat, there, typing, now, stream, told, faults>>

\* The events of all running couriers: whose, and which of them.
Printed == UNION {{r} \X stream[r] : r \in Rings}
Count == Cardinality(Printed)
OfKind(out, kind) == {e \in out : e.kind = kind}

Prints(r, event) ==
    /\ At(r, "courier") /\ Count < MaxEvents
    /\ OfKind(stream[r], "result") = {}
    /\ stream' = [stream EXCEPT ![r] = @ \cup {event}]
    /\ UNCHANGED <<seat, there, pc, result, typing, now, last, spawned, told, faults>>

\* The courier is a model's session: it does these things in any order.  A send is
\* a call and its result, which says whether it was delivered, or may be missing;
\* whether it hit the session at a pane target is history, printed nowhere.  The session's
\* own result comes last, if it comes.
Lists(r) == Prints(r, [kind |-> "list", on |-> there])
Sends(r, s, success) ==
    Prints(r, [kind |-> "send", to |-> s, success |-> success,
               hit |-> seat.address = "target" /\ s = there])
Finishes(r, error) == Prints(r, [kind |-> "result", error |-> error])

\* A result with no "success": true is no send.
sendResult(call, success) == call.success = success

onPane(out, to) == \E e \in OfKind(out, "list") : e.on = to

\* A pane target is printed nowhere, so a confirmed send is all there is to go by: the
\* known gap of the code's own comment.
isAddressee(out, to) ==
    CASE seat.address = "pane" -> onPane(out, to)
      [] seat.address = "name" -> to = Named
      [] OTHER -> TRUE

\* Mutant: a call is as good as its result.
OutcomeByCalls(out) ==
    IF \E call \in OfKind(out, "send") : isAddressee(out, call.to) THEN "" ELSE "no result"

\* "" when a send to the addressee is proven, else why not.
courierOutcome(out) ==
    LET calls == OfKind(out, "send")
        finished == \E e \in OfKind(out, "result") : ~e.error
        sent == {c \in calls : sendResult(c, "true")}
        unsent == {c \in calls : sendResult(c, "false")}
        rang == {c \in sent : isAddressee(out, c.to)}
    IN  CASE calls = {} -> IF finished THEN "no session" ELSE "no result"
          [] rang # {} -> ""
          [] sent # {} /\ rang = {} -> "wrong"
          [] unsent # {} /\ sent = {} -> "send failed"
          [] OTHER -> "no result"

\* Whom a courier has woken.
Woken(out) ==
    LET reached == {e \in OfKind(out, "send") : e.success = "true"}
        Ours(e) == CASE seat.address = "pane" -> [kind |-> "list", on |-> e.to] \in out
                     [] seat.address = "name" -> e.to = Named
                     [] OTHER -> e.hit
    IN  CASE reached = {} -> "nobody"
          [] \E e \in reached : Ours(e) -> "ours"
          [] OTHER -> "others"

\* The courier ends, badly or well; its output may be one the binary cannot read.
CourierEnds(r) ==
    LET Reads(out) ==
            LET why == courierOutcome(out) IN
            /\ reason' = [reason EXCEPT ![r] = why]
            /\ Ends(r, IF why = "" THEN "rang" ELSE "failed")
    IN  /\ At(r, "courier")
        /\ \/ Reads(stream[r]) /\ UNCHANGED faults
           \/ stream[r] # {} /\ Reads({}) /\ Fault
           \/ Ends(r, "failed") /\ Fault /\ UNCHANGED reason
        /\ woken' = [woken EXCEPT ![r] = Woken(stream[r])]
        /\ stream' = [stream EXCEPT ![r] = {}]
        /\ UNCHANGED <<seat, there, typing, now, last, spawned>>

-----------------------------------------------------------------------------
(* webhook: one request to this machine, and the status of the answer.      *)

\* Where a name leads is the resolver's to say.
Peers(address) == IF address = "localhost" THEN {"here", "away"} ELSE {"here"}

loopbackPeer(peer) == peer = "here"

Dials(r) ==
    /\ At(r, "dial")
    /\ \E peer \in Peers(seat.address) :
          IF loopbackPeer(peer) /\ there # "down" THEN Goto(r, "waiting") ELSE Ends(r, "failed")
    /\ UNCHANGED <<seat, there, typing, now, couriers, faults>>

\* A redirect is an answer like any other, and a failed bell.
Answered(r) ==
    /\ At(r, "waiting") /\ there \notin {"mute", "down"}
    /\ Ends(r, CASE there = "holding" -> "held"
                 [] there = "ready" -> "rang"
                 [] there = "busy" -> "refused"
                 [] OTHER -> "failed")
    /\ UNCHANGED <<seat, there, typing, now, couriers, faults>>

\* Mutant: a client that gives up only when the connection does.
TimesOutIfDown(r) ==
    /\ At(r, "waiting") /\ there = "down" /\ Ends(r, "failed")
    /\ UNCHANGED <<seat, there, typing, now, couriers, faults>>

\* webhookTimeout; the receiver may have taken the bell all the same.
TimesOut(r) ==
    /\ At(r, "waiting") /\ Ends(r, "failed")
    /\ UNCHANGED <<seat, there, typing, now, couriers, faults>>

-----------------------------------------------------------------------------

CourierStep(r) ==
    \/ Lists(r) \/ CourierEnds(r)
    \/ \E s \in Sessions, success \in {"true", "false", "none"} : Sends(r, s, success)
    \/ \E error \in BOOLEAN : Finishes(r, error)
WebhookStep(r) == Dials(r) \/ Answered(r) \/ TimesOut(r)

Next ==
    \/ Tick \/ Moves \/ Clears
    \/ \E type \in Types : \E address \in Addresses(type) : Registers(type, address)
    \/ \E r \in Rings :
          \/ Begins(r)
          \/ LooksAtMode(r) \/ Captures(r) \/ TypesLine(r) \/ Enters(r)
          \/ Asks(r) \/ Prompts(r)
          \/ take(r) \/ CourierStep(r)
          \/ WebhookStep(r)

Spec == Init /\ [][Next]_vars

\* Only the webhook's calls carry a deadline.  tmux, herdr and claude are waited
\* for as long as they take, so nothing is assumed of them.
FairSpec == Spec /\ \A r \in Rings : WF_vars(WebhookStep(r))

-----------------------------------------------------------------------------
(* Properties.                                                             *)

\* The seat, the rings and the histories keep their types; what is registered
\* has a notifier that can use its address.
TypeOK ==
    /\ seat # None => /\ seat.type \in Types \cap ListenerTypes
                      /\ seat.address \in Addresses(seat.type)
                      /\ seat.type = "webhook" => seat.address \in {"loopback", "localhost"}
                      /\ there \in Places(seat.type)
    /\ \A r \in Rings : (pc[r] = "done") <=> (result[r] # None)
    /\ \A r \in Rings : result[r] \in {None, "rang", "refused", "held", "failed"}
    /\ \A r \in Rings : typed[r] \in {"no", "box", "lost", "submitted", "astray", "misled"}
    /\ moved \subseteq Rings /\ woken \in [Rings -> {"nobody", "others", "ours"}]
    /\ now \in 0 .. MaxTime /\ last \in {None} \cup 0 .. now
    /\ Count <= MaxEvents /\ faults \in 0 .. MaxFaults

\* A line is typed into a shell, into copy mode or into a dialog that herdr reports
\* only when the pane or the agent became one during the ring, after its first look.
\* Of a place the guard cannot tell from the seat's prompt nothing is claimed.
NothingAstray == \A r \in Rings : typed[r] = "astray" => r \in moved

\* What a ring tells the bell is so, with two rings in one pane and with a line an
\* earlier one left in the box.  A line it says it rang is not left there, but
\* submitted, unless the pane changed meanwhile or is one the guard cannot tell from
\* the seat's prompt; and a refusal or a held answer, which gives the breaker its
\* charge back, has typed nothing and spawned nobody.
ResultTrue ==
    \A r \in Rings :
        /\ result[r] = "rang" /\ seat.type \in {"tmux", "herdr"} /\ r \notin moved
              => typed[r] \in {"submitted", "misled"}
        /\ result[r] \in {"refused", "held"} => typed[r] = "no" /\ spawned[r] = None

\* A pane id and a session name are printed, so a session can be told by them; a pane
\* target is not, and there a courier that woke anybody counts.
Checkable == seat.address \in {"pane", "name"}
Delivered(who) == who = "ours" \/ (~Checkable /\ who = "others")

\* A courier's outcome is proven by its events.  A bell recorded as rung by one did
\* wake a session that was on the seat's pane at one of its listings, or the session
\* of the seat's name; at a pane target it woke somebody, and whom is not known.
\* "wrong" is said when it woke others only; and it is not said that nobody was
\* found, or that the sends failed, when someone was woken.
OutcomeProven ==
    \A r \in Rings :
        /\ reason[r] = "" => Delivered(woken[r])
        /\ reason[r] = "wrong" => woken[r] = "others" /\ Checkable
        /\ reason[r] \in {"no session", "send failed"} => woken[r] = "nobody"

\* A receiver that holds the connection does not hold the bell: every webhook ring
\* comes to a result.
RingEnds ==
    \A r \in Rings : (pc[r] \in {"dial", "waiting"}) ~> (pc[r] = "done")

\* Couriers are spaced, and "rang" says no more than that.  No two couriers of a seat
\* are spawned within a window of each other, rings that run together and couriers
\* that outlast the window included; and a ring that answers "rang" at such a seat
\* has woken the session the bell is for (at a pane target, somebody), or another
\* courier was spawned less than a window ago.  That other one may find nobody, before
\* this ring or after it.
CourierWindow ==
    [][/\ \A q, r \in Rings :
             q # r /\ spawned'[q] # None /\ spawned'[r] # None
                => spawned'[q] >= spawned'[r] + Window \/ spawned'[r] >= spawned'[q] + Window
       /\ \A r \in Rings :
             result[r] = None /\ result'[r] = "rang" /\ seat.type = "claude"
                => \/ Delivered(woken'[r])
                   \/ \E q \in Rings \ {r} : spawned[q] # None /\ now < spawned[q] + Window]_vars
=============================================================================
