---------------------------- MODULE NotifyProofs ----------------------------
(***************************************************************************)
(* What a ring types, answers and proves, for any number of rings, agents, *)
(* ticks and events.                                                       *)
(*                                                                         *)
(* A line goes astray, and a pane takes no line that was said to be rung,  *)
(* only after a change: so the invariant ties each step a ring has come to *)
(* to what its last look had seen, or to the change since.  A courier's    *)
(* answer is a matter of its output alone, and the spacing of couriers one *)
(* of the stamp, which is the last spawn's own time.  Events are counted   *)
(* as a set that stays finite, since it starts empty and grows by one.     *)
(***************************************************************************)
EXTENDS Notify, FiniteSetTheorems, TLAPS

Labels == {"idle", "mode", "capture", "type", "enter", "ask", "prompt", "take", "courier",
           "dial", "waiting", "done"}
Words == {None, "rang", "refused", "held", "failed"}
Reasons == {None, "", "no result", "no session", "wrong", "send failed"}
Events == [kind : {"list"}, on : Sessions \cup {None}]
            \cup [kind : {"send"}, to : Sessions, success : {"true", "false", "none"}, hit : BOOLEAN]
            \cup [kind : {"result"}, error : BOOLEAN]

Streamed == stream \in [Rings -> SUBSET Events]
Fates == {"no", "box", "lost", "submitted", "astray", "misled"}
Clocked ==
    /\ now \in Nat /\ last \in {None} \cup Nat
    /\ spawned \in [Rings -> {None} \cup Nat]
Typed ==
    /\ pc \in [Rings -> Labels] /\ result \in [Rings -> Words]
    /\ reason \in [Rings -> Reasons]
    /\ typed \in [Rings -> Fates]
    /\ woken \in [Rings -> {"nobody", "others", "ours"}]

\* What a seat leads to is a place of its type.
Placed == seat # None => seat.type \in ListenerTypes /\ there \in Places(seat.type)

\* The stamp is the last spawn's time.
Stamped ==
    /\ last # None => last <= now /\ \E q \in Rings : spawned[q] = last
    /\ \A q \in Rings : spawned[q] # None => last # None /\ spawned[q] <= last

\* A ring is in the notifier of its seat's type.
InItsNotifier(r) ==
    /\ pc[r] # "idle" => seat # None
    /\ pc[r] \in {"mode", "capture", "type", "enter"} => seat.type = "tmux"
    /\ pc[r] \in {"ask", "prompt"} => seat.type = "herdr"
    /\ pc[r] \in {"take", "courier"} => seat.type = "claude"
    /\ pc[r] \in {"dial", "waiting"} => seat.type = "webhook"

\* A ring past a look has seen what it looked for, or the place has changed since.
LookedAt(r) ==
    r \notin moved =>
        /\ pc[r] = "capture" => there # "mode"
        /\ pc[r] = "type" => there \in {"prompt"} \cup Lookalikes
        /\ pc[r] = "enter" => \/ there = "prompt" /\ typed[r] \in {"box", "submitted"}
                              \/ there \in Lookalikes /\ typed[r] = "misled"
        /\ pc[r] = "prompt" => there # "blocked"

\* A ring that is not over has answered nothing, one that has not come to its typing
\* has typed nothing, and one that has not taken the courier's turn spawned nobody.
Untouched(r) ==
    /\ pc[r] # "done" => result[r] = None /\ reason[r] = None
    /\ pc[r] \notin {"enter", "done"} => typed[r] = "no"
    /\ pc[r] \notin {"courier", "done"} => spawned[r] = None

\* The properties, of one ring: what it has typed and answered, and what it has proven.
Honest(r) ==
    /\ typed[r] = "astray" => r \in moved
    /\ result[r] = "rang" /\ seat.type \in {"tmux", "herdr"} /\ r \notin moved
          => typed[r] \in {"submitted", "misled"}
    /\ result[r] \in {"refused", "held"} => typed[r] = "no" /\ spawned[r] = None

Proven(r) ==
    /\ reason[r] = "" => Delivered(woken[r])
    /\ reason[r] = "wrong" => woken[r] = "others" /\ Checkable
    /\ reason[r] \in {"no session", "send failed"} => woken[r] = "nobody"

RInv(r) == InItsNotifier(r) /\ LookedAt(r) /\ Untouched(r) /\ Honest(r) /\ Proven(r)

NInv == Typed /\ Clocked /\ Streamed /\ Placed /\ Stamped /\ \A r \in Rings : RInv(r)

-----------------------------------------------------------------------------
(* The courier's output.                                                   *)

LEMMA NoneIsNoWord ==
    \A w \in {"", "no result", "no session", "wrong", "send failed",
             "rang", "refused", "held", "failed"} : w # None
  BY NotifyAssumption

\* What is read out of a courier's output agrees with whom it has woken.
LEMMA OutcomeAgrees ==
    ASSUME NEW out \in SUBSET Events
    PROVE  /\ courierOutcome(out) \in Reasons \ {None}
           /\ courierOutcome(out) = "" => Delivered(Woken(out))
           /\ courierOutcome(out) = "wrong" => Woken(out) = "others" /\ Checkable
           /\ courierOutcome(out) \in {"no session", "send failed"} => Woken(out) = "nobody"
           /\ Woken(out) \in {"nobody", "others", "ours"}
           /\ courierOutcome({}) = "no result"
<1> DEFINE calls == OfKind(out, "send")
           finished == \E e \in OfKind(out, "result") : ~e.error
           sent == {c \in calls : sendResult(c, "true")}
           unsent == {c \in calls : sendResult(c, "false")}
           rang == {c \in sent : isAddressee(out, c.to)}
           reached == {e \in OfKind(out, "send") : e.success = "true"}
           Ours(e) == CASE seat.address = "pane" -> [kind |-> "list", on |-> e.to] \in out
                        [] seat.address = "name" -> e.to = Named
                        [] OTHER -> e.hit
           ours == \E e \in reached : Ours(e)
<1>1. sent = reached /\ rang \subseteq sent /\ sent \subseteq calls /\ unsent \subseteq calls
  BY DEF sendResult
<1>2. Checkable => \A c \in sent : isAddressee(out, c.to) <=> Ours(c)
  <2>1. \A c \in sent : onPane(out, c.to) <=> [kind |-> "list", on |-> c.to] \in out
    BY DEF onPane, OfKind, Events
  <2>2. QED
    BY <2>1 DEF isAddressee, Checkable
<1>3. rang # {} => sent # {} /\ (Checkable => ours)
  BY <1>1, <1>2
<1>4. sent # {} /\ rang = {} => Checkable /\ ~ours
  <2>1. \A c \in sent : isAddressee(out, c.to) \/ Checkable
    BY DEF isAddressee, Checkable
  <2>2. QED
    BY <1>1, <1>2, <2>1
<1>5. Woken(out) = CASE reached = {} -> "nobody"
                     [] ours -> "ours"
                     [] OTHER -> "others"
  BY Zenon DEF Woken
<1>6. courierOutcome(out) =
         CASE calls = {} -> IF finished THEN "no session" ELSE "no result"
           [] rang # {} -> ""
           [] sent # {} /\ rang = {} -> "wrong"
           [] unsent # {} /\ sent = {} -> "send failed"
           [] OTHER -> "no result"
  BY Zenon DEF courierOutcome
<1>7. courierOutcome({}) = "no result"
  BY DEF courierOutcome, OfKind
<1>8. ours => sent # {}
  BY <1>1
<1>9. (rang # {} => calls # {}) /\ (sent # {} => calls # {}) /\ (unsent # {} => calls # {})
  BY <1>1
<1> HIDE DEF calls, finished, sent, unsent, rang, reached, Ours, ours
<1>10. Woken(out) \in {"nobody", "others", "ours"}
  BY <1>5
<1>11. CASE rang # {}
  <2>1. courierOutcome(out) = ""
    BY <1>1, <1>6, <1>9, <1>11
  <2>2. Delivered(Woken(out))
    BY <1>1, <1>3, <1>5, <1>11 DEF Delivered
  <2>3. QED
    BY <1>7, <1>10, <2>1, <2>2, NoneIsNoWord DEF Reasons
<1>12. CASE rang = {} /\ sent # {}
  <2>1. courierOutcome(out) = "wrong"
    BY <1>6, <1>9, <1>12
  <2>2. Woken(out) = "others" /\ Checkable
    BY <1>1, <1>4, <1>5, <1>12
  <2>3. QED
    BY <1>7, <2>1, <2>2, NoneIsNoWord DEF Reasons
<1>13. CASE rang = {} /\ sent = {}
  <2>1. courierOutcome(out) \in {"no session", "send failed", "no result"}
    BY <1>6, <1>13
  <2>2. Woken(out) = "nobody"
    BY <1>1, <1>5, <1>8, <1>13
  <2>3. QED
    BY <1>7, <2>1, <2>2, NoneIsNoWord DEF Reasons
<1>14. QED
  BY <1>11, <1>12, <1>13

-----------------------------------------------------------------------------
(* Every step keeps the invariant.                                         *)

LEMMA NInit == Init => NInv
<1> SUFFICES ASSUME Init PROVE NInv
  OBVIOUS
<1>1. Typed
  BY DEF Init, Typed, Fates, Labels, Words, Reasons
<1>2. Clocked /\ Streamed /\ Placed
  BY DEF Init, Clocked, Streamed, Placed
<1>3. Stamped
  BY DEF Init, Stamped
<1>4. ASSUME NEW r \in Rings PROVE RInv(r)
  BY <1>4, NoneIsNoWord DEF Init, RInv, InItsNotifier, LookedAt, Untouched, Honest, Proven
<1>5. QED
  BY <1>1, <1>2, <1>3, <1>4 DEF NInv

\* A ring whose own fields stay keeps its part, as long as the place does.
LEMMA Still ==
    ASSUME NEW q \in Rings, RInv(q), UNCHANGED <<seat, there>>,
           q \in moved' <=> q \in moved,
           pc'[q] = pc[q], result'[q] = result[q], reason'[q] = reason[q],
           typed'[q] = typed[q], woken'[q] = woken[q], spawned'[q] = spawned[q]
    PROVE  RInv(q)'
  BY DEF RInv, InItsNotifier, LookedAt, Untouched, Honest, Proven, Delivered, Checkable

\* Where there is no reason there is nothing to prove.
LEMMA Unproven ==
    \A r \in Rings : (reason[r] = None => Proven(r)) /\ (reason'[r] = None => Proven(r)')
  BY NoneIsNoWord DEF Proven

LEMMA NStep == NInv /\ [Next]_vars => NInv'
<1> SUFFICES ASSUME NInv, [Next]_vars PROVE NInv'
  OBVIOUS
<1> USE DEF NInv, Labels, Words, Reasons, typing, told, couriers
<1>1. ASSUME Tick PROVE NInv'
  <2>1. Typed' /\ Clocked' /\ Streamed' /\ Placed'
    <3>1. Typed' /\ Streamed' /\ Placed'
      BY <1>1 DEF Tick, Typed, Streamed, Placed
    <3>2. now \in Nat /\ now' = now + 1 /\ UNCHANGED <<last, spawned>>
      BY <1>1 DEF Tick, Clocked
    <3>3. Clocked'
      BY <3>2 DEF Clocked
    <3>4. QED
      BY <3>1, <3>3
  <2>2. Stamped'
    <3>1. now \in Nat /\ now' = now + 1 /\ UNCHANGED <<last, spawned>>
      BY <1>1 DEF Tick, Clocked
    <3>2. last # None => last \in Nat
      BY DEF Clocked
    <3>3. QED
      BY <3>1, <3>2 DEF Stamped
  <2>3. ASSUME NEW q \in Rings PROVE RInv(q)'
    BY <1>1, Still DEF Tick
  <2>4. QED
    BY <2>1, <2>2, <2>3
<1>2. ASSUME Moves PROVE NInv'
  <2>1. Typed' /\ Clocked' /\ Streamed' /\ Placed' /\ Stamped'
    BY <1>2 DEF Moves, Typed, Fates, Clocked, Streamed, Placed, Stamped
  <2>2. ASSUME NEW q \in Rings PROVE RInv(q)'
    <3>1. InItsNotifier(q)' /\ Untouched(q)'
      BY <1>2 DEF Moves, Typed, RInv, InItsNotifier, Untouched
    <3>2. LookedAt(q)'
      BY <1>2 DEF Moves, Typing, LookedAt
    <3>3. Honest(q)' /\ Proven(q)'
      BY <1>2 DEF Moves, Typed, RInv, Honest, Proven, Delivered, Checkable
    <3>4. QED
      BY <3>1, <3>2, <3>3 DEF RInv
  <2>3. QED
    BY <2>1, <2>2
<1>3. ASSUME Clears PROVE NInv'
  <2>1. Typed' /\ Clocked' /\ Streamed' /\ Placed' /\ Stamped'
    BY <1>3 DEF Clears, Typed, Fates, Clocked, Streamed, Placed, Stamped
  <2>2. ASSUME NEW q \in Rings PROVE RInv(q)'
    <3>1. InItsNotifier(q)' /\ Untouched(q)'
      BY <1>3 DEF Clears, Typed, RInv, InItsNotifier, Untouched
    <3>2. LookedAt(q)'
      BY <1>3 DEF Clears, Typing, LookedAt
    <3>3. Honest(q)' /\ Proven(q)'
      BY <1>3 DEF Clears, Typed, RInv, Honest, Proven, Delivered, Checkable
    <3>4. QED
      BY <3>1, <3>2, <3>3 DEF RInv
  <2>3. QED
    BY <2>1, <2>2
<1>4. ASSUME NEW type \in Types, NEW address \in Addresses(type), Registers(type, address)
      PROVE NInv'
  <2>1. Typed' /\ Clocked' /\ Streamed' /\ Stamped'
    BY <1>4 DEF Registers, Typed, Clocked, Streamed, Stamped
  <2>2. Placed'
    BY <1>4 DEF Registers, ValidListenerType, Placed
  <2>3. ASSUME NEW q \in Rings PROVE RInv(q)'
    <3>1. pc[q] = "idle"
      BY <1>4 DEF Registers, RInv, InItsNotifier
    <3>2. UNCHANGED <<pc, result, reason, typed, spawned, woken, moved>>
      BY <1>4 DEF Registers
    <3>3. result[q] = None /\ reason[q] = None /\ typed[q] = "no" /\ spawned[q] = None
      BY <3>1 DEF RInv, Untouched
    <3>4. Honest(q)' /\ Proven(q)'
      BY <3>2, <3>3, NoneIsNoWord, Unproven DEF Honest
    <3>5. InItsNotifier(q)' /\ LookedAt(q)' /\ Untouched(q)'
      BY <3>1, <3>2, <3>3 DEF InItsNotifier, LookedAt, Untouched
    <3>6. QED
      BY <3>4, <3>5 DEF RInv
  <2>4. QED
    BY <2>1, <2>2, <2>3
<1>5. ASSUME NEW r \in Rings, Begins(r) PROVE NInv'
  <2>1. /\ seat # None /\ pc[r] = "idle" /\ seat.type \in ListenerTypes
        /\ UNCHANGED <<seat, there, typed, moved, now, last, spawned, stream, woken, reason>>
        /\ result[r] = None /\ reason[r] = None /\ typed[r] = "no" /\ spawned[r] = None
    BY <1>5 DEF Begins, At, Placed, RInv, Untouched
  <2>2. \/ /\ pc' = [pc EXCEPT ![r] = "done"]
           /\ \/ result' = [result EXCEPT ![r] = "rang"] /\ seat.type = "none"
              \/ result' = [result EXCEPT ![r] = "failed"]
        \/ /\ pc' = [pc EXCEPT ![r] = newNotifier[seat.type]] /\ seat.type # "none"
           /\ UNCHANGED result
    BY <1>5 DEF Begins, Goto, Ends
  <2>3. seat.type # "none" =>
           \/ seat.type = "tmux" /\ newNotifier[seat.type] = "mode"
           \/ seat.type = "herdr" /\ newNotifier[seat.type] = "ask"
           \/ seat.type = "claude" /\ newNotifier[seat.type] = "take"
           \/ seat.type = "webhook" /\ newNotifier[seat.type] = "dial"
    BY <2>1 DEF ListenerTypes, newNotifier
  <2>4. Typed' /\ Clocked' /\ Streamed' /\ Placed' /\ Stamped'
    <3>1. Typed'
      <4>1. pc' \in [Rings -> Labels]
        BY <2>2, <2>3 DEF Typed
      <4>2. result' \in [Rings -> Words]
        BY <2>2 DEF Typed
      <4>3. QED
        BY <2>1, <4>1, <4>2 DEF Typed
    <3>2. Clocked' /\ Streamed' /\ Placed' /\ Stamped'
      BY <2>1 DEF Clocked, Streamed, Placed, Stamped
    <3>3. QED
      BY <3>1, <3>2
  <2>5. ASSUME NEW q \in Rings, q # r PROVE RInv(q)'
    BY <2>1, <2>2, <2>5, Still DEF Typed
  <2>6. InItsNotifier(r)' /\ Untouched(r)' /\ LookedAt(r)'
    <3>1. InItsNotifier(r)'
      BY <2>1, <2>2, <2>3 DEF Typed, InItsNotifier
    <3>2. Untouched(r)'
      BY <2>1, <2>2, <2>3 DEF Typed, Untouched
    <3>3. LookedAt(r)'
      BY <2>1, <2>2, <2>3 DEF Typed, LookedAt
    <3>4. QED
      BY <3>1, <3>2, <3>3
  <2>7. Honest(r)' /\ Proven(r)'
    BY <2>1, <2>2, NoneIsNoWord, Unproven DEF Typed, Honest
  <2>8. QED
    BY <2>4, <2>5, <2>6, <2>7 DEF RInv
<1>6. ASSUME NEW r \in Rings, LooksAtMode(r) PROVE NInv'
  <2>1. Typed'
    BY <1>6 DEF LooksAtMode, At, Goto, Ends, Typed, Placed
  <2>2. Clocked' /\ Streamed' /\ Placed' /\ Stamped'
    BY <1>6 DEF LooksAtMode, Clocked, Streamed, Placed, Stamped
  <2>3. ASSUME NEW q \in Rings, q # r PROVE RInv(q)'
    BY <1>6, <2>3, Still DEF LooksAtMode, At, Goto, Ends, Typed
  <2>4. InItsNotifier(r)' /\ Untouched(r)'
    BY <1>6 DEF LooksAtMode, At, Goto, Ends, Typed, RInv, InItsNotifier, Untouched
  <2>5. LookedAt(r)'
    BY <1>6 DEF LooksAtMode, At, Goto, Ends, Typed, Placed, Places, RInv, InItsNotifier, LookedAt
  <2>6. Honest(r)'
    BY <1>6, NoneIsNoWord
       DEF LooksAtMode, At, Goto, Ends, Typed, RInv, InItsNotifier, LookedAt, Untouched, Honest
  <2>7. Proven(r)'
    BY <1>6, Unproven DEF LooksAtMode, At, RInv, Untouched
  <2>8. QED
    BY <2>1, <2>2, <2>3, <2>4, <2>5, <2>6, <2>7 DEF RInv
<1>7. ASSUME NEW r \in Rings, Captures(r) PROVE NInv'
  <2>1. Typed'
    BY <1>7 DEF Captures, isPrompt, Lookalikes, At, Goto, Ends, Typed, Placed
  <2>2. Clocked' /\ Streamed' /\ Placed' /\ Stamped'
    BY <1>7 DEF Captures, isPrompt, Lookalikes, Clocked, Streamed, Placed, Stamped
  <2>3. ASSUME NEW q \in Rings, q # r PROVE RInv(q)'
    BY <1>7, <2>3, Still DEF Captures, isPrompt, Lookalikes, At, Goto, Ends, Typed
  <2>4. InItsNotifier(r)' /\ Untouched(r)'
    <3>1. InItsNotifier(r)'
      BY <1>7 DEF Captures, isPrompt, Lookalikes, At, Goto, Ends, Typed, RInv, InItsNotifier
    <3>2. Untouched(r)'
      BY <1>7 DEF Captures, isPrompt, Lookalikes, At, Goto, Ends, Typed, RInv, Untouched
    <3>3. QED
      BY <3>1, <3>2
  <2>5. LookedAt(r)'
    BY <1>7
       DEF Captures, isPrompt, Lookalikes, At, Goto, Ends, Typed, Placed, Places, RInv, InItsNotifier, LookedAt
  <2>6. Honest(r)'
    BY <1>7, NoneIsNoWord
       DEF Captures, isPrompt, Lookalikes, At, Goto, Ends, Typed, RInv, InItsNotifier, LookedAt, Untouched,
       Honest
  <2>7. Proven(r)'
    BY <1>7, Unproven DEF Captures, isPrompt, Lookalikes, At, RInv, Untouched
  <2>8. QED
    BY <2>1, <2>2, <2>3, <2>4, <2>5, <2>6, <2>7 DEF RInv
<1>8. ASSUME NEW r \in Rings, TypesLine(r) PROVE NInv'
  <2>1. Typed'
    BY <1>8 DEF TypesLine, At, Goto, Ends, Typed, Placed, Fates
  <2>2. Clocked' /\ Streamed' /\ Placed' /\ Stamped'
    BY <1>8 DEF TypesLine, Clocked, Streamed, Placed, Stamped
  <2>3. ASSUME NEW q \in Rings, q # r PROVE RInv(q)'
    BY <1>8, <2>3, Still DEF TypesLine, At, Goto, Ends, Typed
  <2>4. InItsNotifier(r)' /\ Untouched(r)'
    <3>1. /\ pc[r] = "type" /\ seat # None /\ seat.type = "tmux" /\ result[r] = None
          /\ reason[r] = None /\ spawned[r] = None /\ typed[r] = "no"
      BY <1>8 DEF TypesLine, At, RInv, InItsNotifier, Untouched
    <3>2. \/ pc'[r] = "done"
          \/ pc'[r] = "enter" /\ result'[r] = result[r]
      BY <1>8 DEF TypesLine, Goto, Ends, Typed
    <3>3. UNCHANGED <<seat, reason, spawned>> /\ (pc'[r] = "prompt" => UNCHANGED typed)
      BY <1>8, <3>2 DEF TypesLine
    <3>4. QED
      BY <3>1, <3>2, <3>3 DEF InItsNotifier, Untouched
  <2>5. LookedAt(r)'
    BY <1>8 DEF TypesLine, At, Goto, Ends, Typed, Placed, Places, RInv, InItsNotifier, LookedAt,
       Lookalikes
  <2>6. Honest(r)'
    BY <1>8, NoneIsNoWord
       DEF TypesLine, At, Goto, Ends, Typed, RInv, InItsNotifier, LookedAt, Untouched, Honest,
       Lookalikes
  <2>7. Proven(r)'
    BY <1>8, Unproven DEF TypesLine, At, RInv, Untouched
  <2>8. QED
    BY <2>1, <2>2, <2>3, <2>4, <2>5, <2>6, <2>7 DEF RInv
<1>9. ASSUME NEW r \in Rings, Enters(r) PROVE NInv'
  <2>1. /\ pc[r] = "enter" /\ seat # None /\ seat.type = "tmux"
        /\ result[r] = None /\ reason[r] = None /\ spawned[r] = None
        /\ r \notin moved => \/ there = "prompt" /\ typed[r] \in {"box", "submitted"}
                             \/ there \in Lookalikes /\ typed[r] = "misled"
    <3>1. pc[r] = "enter" /\ RInv(r)
      BY <1>9 DEF Enters, At
    <3>2. InItsNotifier(r) /\ Untouched(r) /\ LookedAt(r)
      BY <3>1 DEF RInv
    <3>3. QED
      BY <3>1, <3>2 DEF InItsNotifier, Untouched, LookedAt
  <2>2. /\ pc' = [pc EXCEPT ![r] = "done"]
        /\ UNCHANGED <<seat, there, moved, now, last, spawned, stream, woken, reason>>
        /\ \A q \in Rings : Submitted[q] = IF typed[q] = "box" THEN "submitted" ELSE typed[q]
        /\ Submitted \in [Rings -> Fates]
        /\ \/ result' = [result EXCEPT ![r] = "failed"] /\ UNCHANGED typed
           \/ result' = [result EXCEPT ![r] = "rang"]
              /\ typed' = IF there = "prompt" THEN Submitted ELSE typed
    <3>1. /\ \A q \in Rings : Submitted[q] = IF typed[q] = "box" THEN "submitted" ELSE typed[q]
          /\ Submitted \in [Rings -> Fates]
      BY DEF Submitted, Typed, Fates
    <3>2. QED
      BY <1>9, <3>1 DEF Enters, Ends
  <2>3. \A q \in Rings : typed'[q] = typed[q] \/ (typed[q] = "box" /\ typed'[q] = "submitted")
    <3>1. CASE typed' = typed
      BY <3>1
    <3>2. CASE typed' = Submitted
      <4>1. ASSUME NEW q \in Rings
            PROVE  typed'[q] = typed[q] \/ (typed[q] = "box" /\ typed'[q] = "submitted")
        <5>1. typed'[q] = IF typed[q] = "box" THEN "submitted" ELSE typed[q]
          BY <2>2, <3>2
        <5>2. QED
          BY <5>1
      <4>2. QED
        BY <4>1
    <3>3. QED
      BY <2>2, <3>1, <3>2
  <2>4. result'[r] = "rang" /\ r \notin moved => typed'[r] \in {"submitted", "misled"}
    <3>1. SUFFICES ASSUME result'[r] = "rang", r \notin moved
                   PROVE  typed'[r] \in {"submitted", "misled"}
      OBVIOUS
    <3>2. typed' = IF there = "prompt" THEN Submitted ELSE typed
      BY <2>1, <2>2, <3>1 DEF Typed
    <3>3. Submitted[r] = IF typed[r] = "box" THEN "submitted" ELSE typed[r]
      BY <2>2
    <3>4. QED
      BY <2>1, <3>1, <3>2, <3>3 DEF Lookalikes
  <2>5. Typed' /\ Clocked' /\ Streamed' /\ Placed' /\ Stamped'
    <3>1. typed' \in [Rings -> Fates]
      BY <2>2 DEF Typed
    <3>2. QED
      BY <2>2, <3>1 DEF Typed, Clocked, Streamed, Placed, Stamped
  <2>6. ASSUME NEW q \in Rings, q # r, typed'[q] = typed[q] PROVE RInv(q)'
    BY <2>2, <2>6, Still DEF Typed
  <2>7. ASSUME NEW q \in Rings, q # r, typed[q] = "box", typed'[q] = "submitted" PROVE RInv(q)'
    <3>1. /\ RInv(q) /\ pc'[q] = pc[q] /\ result'[q] = result[q] /\ reason'[q] = reason[q]
          /\ UNCHANGED <<seat, there, moved, woken, spawned>>
      BY <2>2, <2>7 DEF Typed
    <3>2. InItsNotifier(q)'
      BY <3>1 DEF RInv, InItsNotifier
    <3>3. LookedAt(q)'
      BY <2>7, <3>1 DEF RInv, LookedAt
    <3>4. Untouched(q)'
      BY <2>7, <3>1 DEF RInv, Untouched
    <3>5. Honest(q)'
      BY <2>7, <3>1 DEF RInv, Honest
    <3>6. Proven(q)'
      BY <3>1 DEF RInv, Proven, Delivered, Checkable
    <3>7. QED
      BY <3>2, <3>3, <3>4, <3>5, <3>6 DEF RInv
  <2>8. RInv(r)'
    <3>1. InItsNotifier(r)' /\ LookedAt(r)' /\ Untouched(r)'
      BY <2>1, <2>2 DEF Typed, InItsNotifier, LookedAt, Untouched
    <3>2. typed'[r] = "astray" => r \in moved
      BY <2>1, <2>3
    <3>3. result'[r] \in {"rang", "failed"}
      BY <2>2 DEF Typed
    <3>4. Honest(r)' /\ Proven(r)'
      BY <2>1, <2>2, <2>4, <3>2, <3>3, Unproven DEF Honest
    <3>5. QED
      BY <3>1, <3>4 DEF RInv
  <2>9. QED
    BY <2>3, <2>5, <2>6, <2>7, <2>8
<1>10. ASSUME NEW r \in Rings, Asks(r) PROVE NInv'
  <2>1. Typed'
    BY <1>10 DEF Asks, At, Goto, Ends, Typed, Placed
  <2>2. Clocked' /\ Streamed' /\ Placed' /\ Stamped'
    BY <1>10 DEF Asks, Clocked, Streamed, Placed, Stamped
  <2>3. ASSUME NEW q \in Rings, q # r PROVE RInv(q)'
    BY <1>10, <2>3, Still DEF Asks, At, Goto, Ends, Typed
  <2>4. InItsNotifier(r)' /\ Untouched(r)'
    <3>1. /\ pc[r] = "ask" /\ seat # None /\ seat.type = "herdr" /\ result[r] = None
          /\ reason[r] = None /\ spawned[r] = None /\ typed[r] = "no"
      BY <1>10 DEF Asks, At, RInv, InItsNotifier, Untouched
    <3>2. \/ pc'[r] = "done"
          \/ pc'[r] = "prompt" /\ result'[r] = result[r]
      BY <1>10 DEF Asks, Goto, Ends, Typed
    <3>3. UNCHANGED <<seat, reason, spawned>> /\ (pc'[r] = "prompt" => UNCHANGED typed)
      BY <1>10, <3>2 DEF Asks
    <3>4. QED
      BY <3>1, <3>2, <3>3 DEF InItsNotifier, Untouched
  <2>5. LookedAt(r)'
    BY <1>10 DEF Asks, At, Goto, Ends, Typed, Placed, Places, RInv, InItsNotifier, LookedAt
  <2>6. Honest(r)'
    BY <1>10, NoneIsNoWord
       DEF Asks, At, Goto, Ends, Typed, RInv, InItsNotifier, LookedAt, Untouched, Honest
  <2>7. Proven(r)'
    BY <1>10, Unproven DEF Asks, At, RInv, Untouched
  <2>8. QED
    BY <2>1, <2>2, <2>3, <2>4, <2>5, <2>6, <2>7 DEF RInv
<1>11. ASSUME NEW r \in Rings, Prompts(r) PROVE NInv'
  <2>1. Typed'
    BY <1>11 DEF Prompts, At, Goto, Ends, Typed, Placed, Fates
  <2>2. Clocked' /\ Streamed' /\ Placed' /\ Stamped'
    BY <1>11 DEF Prompts, Clocked, Streamed, Placed, Stamped
  <2>3. ASSUME NEW q \in Rings, q # r PROVE RInv(q)'
    BY <1>11, <2>3, Still DEF Prompts, At, Goto, Ends, Typed
  <2>4. InItsNotifier(r)' /\ Untouched(r)'
    BY <1>11 DEF Prompts, At, Goto, Ends, Typed, RInv, InItsNotifier, Untouched
  <2>5. LookedAt(r)'
    BY <1>11 DEF Prompts, At, Goto, Ends, Typed, Placed, Places, RInv, InItsNotifier, LookedAt
  <2>6. Honest(r)'
    BY <1>11, NoneIsNoWord
       DEF Prompts, At, Goto, Ends, Typed, RInv, InItsNotifier, LookedAt, Untouched, Honest,
       Lookalikes
  <2>7. Proven(r)'
    BY <1>11, Unproven DEF Prompts, At, RInv, Untouched
  <2>8. QED
    BY <2>1, <2>2, <2>3, <2>4, <2>5, <2>6, <2>7 DEF RInv
<1>12. ASSUME NEW r \in Rings, take(r) PROVE NInv'
  <2>1. Typed'
    BY <1>12 DEF take, At, Goto, Ends, Typed, Placed
  <2>2. Clocked' /\ Streamed' /\ Placed' /\ Stamped'
    <3>1. \/ UNCHANGED <<last, spawned>>
          \/ last' = now /\ spawned' = [spawned EXCEPT ![r] = now]
      BY <1>12 DEF take
    <3>2. UNCHANGED <<seat, there, now, stream>> /\ now \in Nat /\ None \notin Nat
      BY <1>12, NotifyAssumption DEF take, Clocked
    <3>3. CASE UNCHANGED <<last, spawned>>
      BY <3>2, <3>3 DEF Clocked, Streamed, Placed, Stamped
    <3>4. CASE last' = now /\ spawned' = [spawned EXCEPT ![r] = now]
      <4>1. now # None /\ spawned'[r] = last'
        BY <3>2, <3>4 DEF Clocked
      <4>2. ASSUME NEW q \in Rings, q # r, spawned[q] # None PROVE spawned[q] <= now
        <5>1. last # None /\ last <= now /\ spawned[q] <= last
          BY <4>2 DEF Stamped
        <5>2. last \in Nat /\ spawned[q] \in Nat
          BY <4>2, <5>1 DEF Clocked
        <5>3. QED
          BY <3>2, <5>1, <5>2
      <4>3. \A q \in Rings : q # r => spawned'[q] = spawned[q]
        BY <3>4 DEF Clocked
      <4>4. QED
        BY <3>2, <3>4, <4>1, <4>2, <4>3 DEF Clocked, Streamed, Placed, Stamped
    <3>5. QED
      BY <3>1, <3>3, <3>4
  <2>3. ASSUME NEW q \in Rings, q # r PROVE RInv(q)'
    <3>1. UNCHANGED <<seat, there, moved, reason, typed, woken>>
      BY <1>12 DEF take
    <3>2. pc'[q] = pc[q] /\ result'[q] = result[q]
      BY <1>12, <2>3 DEF take, Goto, Ends, Typed
    <3>3. spawned'[q] = spawned[q]
      BY <1>12, <2>3 DEF take, Clocked
    <3>4. QED
      BY <3>1, <3>2, <3>3, Still
  <2>4. InItsNotifier(r)' /\ Untouched(r)'
    <3>1. /\ pc[r] = "take" /\ seat # None /\ seat.type = "claude" /\ result[r] = None
          /\ reason[r] = None /\ typed[r] = "no"
      BY <1>12 DEF take, At, RInv, InItsNotifier, Untouched
    <3>2. \/ pc'[r] = "done"
          \/ pc'[r] = "courier" /\ result'[r] = result[r]
      BY <1>12 DEF take, Goto, Ends, Typed
    <3>3. UNCHANGED <<seat, reason, typed>>
      BY <1>12 DEF take
    <3>4. QED
      BY <3>1, <3>2, <3>3 DEF InItsNotifier, Untouched
  <2>5. LookedAt(r)'
    BY <1>12 DEF take, At, Goto, Ends, Typed, Placed, Places, RInv, InItsNotifier, LookedAt
  <2>6. Honest(r)'
    BY <1>12, NoneIsNoWord
       DEF take, At, Goto, Ends, Typed, RInv, InItsNotifier, LookedAt, Untouched, Honest
  <2>7. Proven(r)'
    BY <1>12, Unproven DEF take, At, RInv, Untouched
  <2>8. QED
    BY <2>1, <2>2, <2>3, <2>4, <2>5, <2>6, <2>7 DEF RInv
<1>13. ASSUME NEW r \in Rings, Dials(r) PROVE NInv'
  <2>1. Typed'
    BY <1>13 DEF Dials, Peers, loopbackPeer, At, Goto, Ends, Typed, Placed
  <2>2. Clocked' /\ Streamed' /\ Placed' /\ Stamped'
    BY <1>13 DEF Dials, Peers, loopbackPeer, Clocked, Streamed, Placed, Stamped
  <2>3. ASSUME NEW q \in Rings, q # r PROVE RInv(q)'
    BY <1>13, <2>3, Still DEF Dials, Peers, loopbackPeer, At, Goto, Ends, Typed
  <2>4. InItsNotifier(r)' /\ Untouched(r)'
    <3>1. /\ pc[r] = "dial" /\ seat # None /\ seat.type = "webhook" /\ result[r] = None
          /\ reason[r] = None /\ spawned[r] = None /\ typed[r] = "no"
      BY <1>13 DEF Dials, At, RInv, InItsNotifier, Untouched
    <3>2. \/ pc'[r] = "done"
          \/ pc'[r] = "waiting" /\ result'[r] = result[r]
      BY <1>13 DEF Dials, Goto, Ends, Typed
    <3>3. UNCHANGED <<seat, reason, spawned, typed>>
      BY <1>13 DEF Dials
    <3>4. QED
      BY <3>1, <3>2, <3>3 DEF InItsNotifier, Untouched
  <2>5. LookedAt(r)'
    BY <1>13 DEF Dials, Peers, loopbackPeer, At, Goto, Ends, Typed, Placed, Places, RInv,
       InItsNotifier, LookedAt
  <2>6. Honest(r)'
    BY <1>13, NoneIsNoWord DEF Dials, Peers, loopbackPeer, At, Goto, Ends, Typed, RInv,
       InItsNotifier, LookedAt, Untouched, Honest
  <2>7. Proven(r)'
    BY <1>13, Unproven DEF Dials, Peers, loopbackPeer, At, RInv, Untouched
  <2>8. QED
    BY <2>1, <2>2, <2>3, <2>4, <2>5, <2>6, <2>7 DEF RInv
<1>14. ASSUME NEW r \in Rings, Answered(r) PROVE NInv'
  <2>1. Typed'
    BY <1>14 DEF Answered, At, Goto, Ends, Typed, Placed
  <2>2. Clocked' /\ Streamed' /\ Placed' /\ Stamped'
    BY <1>14 DEF Answered, Clocked, Streamed, Placed, Stamped
  <2>3. ASSUME NEW q \in Rings, q # r PROVE RInv(q)'
    BY <1>14, <2>3, Still DEF Answered, At, Goto, Ends, Typed
  <2>4. InItsNotifier(r)' /\ Untouched(r)'
    BY <1>14 DEF Answered, At, Goto, Ends, Typed, RInv, InItsNotifier, Untouched
  <2>5. LookedAt(r)'
    BY <1>14 DEF Answered, At, Goto, Ends, Typed, Placed, Places, RInv, InItsNotifier, LookedAt
  <2>6. Honest(r)'
    BY <1>14, NoneIsNoWord
       DEF Answered, At, Goto, Ends, Typed, RInv, InItsNotifier, LookedAt, Untouched, Honest
  <2>7. Proven(r)'
    BY <1>14, Unproven DEF Answered, At, RInv, Untouched
  <2>8. QED
    BY <2>1, <2>2, <2>3, <2>4, <2>5, <2>6, <2>7 DEF RInv
<1>15. ASSUME NEW r \in Rings, TimesOut(r) PROVE NInv'
  <2>1. Typed'
    BY <1>15 DEF TimesOut, At, Goto, Ends, Typed, Placed
  <2>2. Clocked' /\ Streamed' /\ Placed' /\ Stamped'
    BY <1>15 DEF TimesOut, Clocked, Streamed, Placed, Stamped
  <2>3. ASSUME NEW q \in Rings, q # r PROVE RInv(q)'
    BY <1>15, <2>3, Still DEF TimesOut, At, Goto, Ends, Typed
  <2>4. InItsNotifier(r)' /\ Untouched(r)'
    BY <1>15 DEF TimesOut, At, Goto, Ends, Typed, RInv, InItsNotifier, Untouched
  <2>5. LookedAt(r)'
    BY <1>15 DEF TimesOut, At, Goto, Ends, Typed, Placed, Places, RInv, InItsNotifier, LookedAt
  <2>6. Honest(r)'
    BY <1>15, NoneIsNoWord
       DEF TimesOut, At, Goto, Ends, Typed, RInv, InItsNotifier, LookedAt, Untouched, Honest
  <2>7. Proven(r)'
    BY <1>15, Unproven DEF TimesOut, At, RInv, Untouched
  <2>8. QED
    BY <2>1, <2>2, <2>3, <2>4, <2>5, <2>6, <2>7 DEF RInv
<1>16. ASSUME NEW r \in Rings, NEW event \in Events, Prints(r, event) PROVE NInv'
  <2>1. stream' = [stream EXCEPT ![r] = stream[r] \cup {event}]
        /\ UNCHANGED <<seat, there, pc, result, reason, typed, woken, now, last, spawned>>
    BY <1>16 DEF Prints
  <2>2. Typed' /\ Clocked' /\ Streamed' /\ Placed' /\ Stamped'
    <3>1. stream[r] \cup {event} \in SUBSET Events
      BY DEF Streamed
    <3>2. QED
      BY <2>1, <3>1 DEF Typed, Clocked, Streamed, Placed, Stamped
  <2>3. ASSUME NEW q \in Rings PROVE RInv(q)'
    BY <1>16, Still DEF Prints
  <2>4. QED
    BY <2>2, <2>3
<1>17. ASSUME NEW r \in Rings, CourierEnds(r) PROVE NInv'
  <2> DEFINE out == stream[r]
  <2>1. out \in SUBSET Events
    BY DEF Streamed
  <2>2. seat.type = "claude" /\ reason[r] = None
    BY <1>17 DEF CourierEnds, At, RInv, InItsNotifier, Untouched
  <2>3. /\ pc' = [pc EXCEPT ![r] = "done"]
        /\ woken' = [woken EXCEPT ![r] = Woken(out)] /\ stream' = [stream EXCEPT ![r] = {}]
        /\ UNCHANGED <<seat, there, moved, typed, now, last, spawned>>
    BY <1>17 DEF CourierEnds, Ends
  <2>4. \E why \in {None, courierOutcome(out), courierOutcome({})} :
           /\ reason' = [reason EXCEPT ![r] = why]
           /\ result' = [result EXCEPT ![r] = IF why = "" THEN "rang" ELSE "failed"]
    <3>1. reason = [reason EXCEPT ![r] = None]
      BY <2>2 DEF Typed
    <3>2. QED
      BY <1>17, <3>1, NoneIsNoWord DEF CourierEnds, Ends
  <2>5. Woken(out) \in {"nobody", "others", "ours"}
    BY <2>1, OutcomeAgrees
  <2>6. PICK why \in {None, courierOutcome(out), "no result"} :
           /\ reason' = [reason EXCEPT ![r] = why]
           /\ result' = [result EXCEPT ![r] = IF why = "" THEN "rang" ELSE "failed"]
    BY <2>1, <2>4, OutcomeAgrees
  <2>7. /\ why \in Reasons
        /\ why = "" => Delivered(Woken(out))
        /\ why = "wrong" => Woken(out) = "others" /\ Checkable
        /\ why \in {"no session", "send failed"} => Woken(out) = "nobody"
    BY <2>1, <2>6, OutcomeAgrees, NoneIsNoWord
  <2> HIDE DEF out
  <2>8. Typed'
    BY <2>3, <2>5, <2>6, <2>7 DEF Typed
  <2>9. Clocked' /\ Streamed' /\ Placed' /\ Stamped'
    <3>1. Streamed'
      BY <2>3 DEF Streamed
    <3>2. QED
      BY <2>3, <3>1 DEF Clocked, Placed, Stamped
  <2>10. ASSUME NEW q \in Rings, q # r PROVE RInv(q)'
    BY <2>3, <2>6, <2>10, Still DEF Typed
  <2>11. pc'[r] = "done" /\ woken'[r] = Woken(out) /\ reason'[r] = why
         /\ result'[r] \in {"rang", "failed"}
    BY <2>3, <2>6 DEF Typed
  <2>12. typed[r] = "no" /\ pc[r] = "courier" /\ seat # None
    BY <1>17 DEF CourierEnds, At, RInv, InItsNotifier, Untouched
  <2>13. InItsNotifier(r)' /\ LookedAt(r)' /\ Untouched(r)'
    BY <2>3, <2>11, <2>12 DEF InItsNotifier, LookedAt, Untouched
  <2>14. Honest(r)' /\ Proven(r)'
    BY <2>2, <2>3, <2>7, <2>11, <2>12 DEF Honest, Proven, Delivered, Checkable
  <2>15. QED
    BY <2>8, <2>9, <2>10, <2>13, <2>14 DEF RInv
<1>18. CASE UNCHANGED vars
  <2>1. Typed' /\ Clocked' /\ Streamed' /\ Placed' /\ Stamped'
    BY <1>18 DEF vars, Typed, Clocked, Streamed, Placed, Stamped
  <2>2. ASSUME NEW q \in Rings PROVE RInv(q)'
    BY <1>18, Still DEF vars
  <2>3. QED
    BY <2>1, <2>2
<1>19. ASSUME NEW r \in Rings, CourierStep(r) PROVE NInv'
  <2>1. ASSUME Lists(r) PROVE NInv'
    <3>1. seat.type = "claude" /\ there \in Sessions \cup {None}
      BY <2>1 DEF Lists, Prints, At, RInv, InItsNotifier, Placed, Places
    <3>2. [kind |-> "list", on |-> there] \in Events
      BY <3>1 DEF Events
    <3>3. QED
      BY <1>16, <2>1, <3>2 DEF Lists
  <2>2. ASSUME NEW s \in Sessions, NEW success \in {"true", "false", "none"}, Sends(r, s, success)
        PROVE NInv'
    <3>1. \A hit \in BOOLEAN :
             [kind |-> "send", to |-> s, success |-> success, hit |-> hit] \in Events
      BY DEF Events
    <3>2. QED
      BY <1>16, <2>2, <3>1 DEF Sends
  <2>3. ASSUME NEW error \in BOOLEAN, Finishes(r, error) PROVE NInv'
    <3>1. [kind |-> "result", error |-> error] \in Events
      BY DEF Events
    <3>2. QED
      BY <1>16, <2>3, <3>1 DEF Finishes
  <2>4. QED
    BY <1>17, <1>19, <2>1, <2>2, <2>3 DEF CourierStep
<1>20. QED
  BY <1>1, <1>2, <1>3, <1>4, <1>5, <1>6, <1>7, <1>8, <1>9, <1>10, <1>11, <1>12, <1>13, <1>14,
     <1>15, <1>18, <1>19 DEF Next, WebhookStep

LEMMA NInvariance == Spec => []NInv
  BY NInit, NStep, PTL DEF Spec

\* A line goes into a shell, a copy mode or a dialog that can be told from a prompt
\* only after the place changed under the ring, for any number of rings.  Of places
\* that look like a prompt, or are reported as one, nothing is claimed.
THEOREM LineGoesWhereLooked == Spec => []NothingAstray
<1>1. NInv => NothingAstray
  BY DEF NInv, RInv, Honest, NothingAstray
<1>2. QED
  BY <1>1, NInvariance, PTL

\* What a ring answers the bell is so: a line it says it rang is submitted, and a
\* refusal or a held answer has typed nothing and spawned nobody.
THEOREM AnswersAreTrue == Spec => []ResultTrue
<1>1. NInv => ResultTrue
  BY DEF NInv, RInv, Honest, ResultTrue
<1>2. QED
  BY <1>1, NInvariance, PTL

\* A courier's outcome is what its output proves: whose session was woken where the
\* address is printed, and at a pane target only that somebody was.
THEOREM OutcomesProven == Spec => []OutcomeProven
<1>1. NInv => OutcomeProven
  BY DEF NInv, RInv, Proven, OutcomeProven
<1>2. QED
  BY <1>1, NInvariance, PTL

-----------------------------------------------------------------------------
(* Types and bounds.                                                       *)

\* A ring that is over has answered.
Answering == \A r \in Rings : pc[r] = "done" => result[r] # None

\* A registration has a notifier that can use its address.
Usable ==
    seat # None => /\ seat.type \in Types \cap ListenerTypes
                   /\ seat.address \in Addresses(seat.type)
                   /\ seat.type = "webhook" => seat.address \in {"loopback", "localhost"}

Bounded == moved \subseteq Rings /\ now <= MaxTime /\ faults \in 0 .. MaxFaults

\* What the couriers have printed stays within its bound, and so is finite.
Room == IsFiniteSet(Printed) /\ Count <= MaxEvents

\* The bounds are numbers.
LEMMA Limits == Window \in Nat /\ MaxTime \in Nat /\ MaxEvents \in Nat /\ MaxFaults \in Nat
  BY NotifyAssumption

\* The parts together are the module's types.
LEMMA TypesSuffice == NInv /\ Answering /\ Usable /\ Bounded /\ Room => TypeOK
<1> SUFFICES ASSUME NInv, Answering, Usable, Bounded, Room PROVE TypeOK
  OBVIOUS
<1>1. now \in 0 .. MaxTime /\ last \in {None} \cup 0 .. now
  BY Limits DEF NInv, Clocked, Stamped, Bounded
<1>2. \A r \in Rings : (pc[r] = "done") <=> (result[r] # None)
  BY DEF Answering, NInv, RInv, Untouched
<1>3. \A r \in Rings : /\ result[r] \in {None, "rang", "refused", "held", "failed"}
                       /\ typed[r] \in Fates
  BY DEF NInv, Typed, Words, Fates
<1>4. QED
  BY <1>1, <1>2, <1>3 DEF TypeOK, Fates, NInv, Typed, Placed, Usable, Bounded, Room

\* A ring ends only with a word.
LEMMA AnsweringStep == NInv /\ Answering /\ [Next]_vars => Answering'
<1> SUFFICES ASSUME NInv, Answering, [Next]_vars PROVE Answering'
  OBVIOUS
<1>1. pc \in [Rings -> Labels] /\ result \in [Rings -> Words]
  BY DEF NInv, Typed
<1>2. ASSUME NEW r \in Rings, NEW word \in {"rang", "refused", "held", "failed"}, Ends(r, word)
      PROVE  Answering'
  BY <1>1, <1>2, NoneIsNoWord DEF Ends, Answering
<1>3. ASSUME NEW r \in Rings, NEW label, label # "done", Goto(r, label) PROVE Answering'
  BY <1>1, <1>3 DEF Goto, Answering
<1>4. ASSUME UNCHANGED <<pc, result>> PROVE Answering'
  BY <1>4 DEF Answering
<1>5. ASSUME NEW r \in Rings, Begins(r) PROVE Answering'
  <2>1. newNotifier[seat.type] # "done" \/ ~(seat.type \in ListenerTypes \ {"none"})
    BY DEF newNotifier, ListenerTypes
  <2>2. seat.type \in ListenerTypes
    BY <1>5 DEF Begins, NInv, Placed
  <2>3. QED
    BY <1>2, <1>3, <1>5, <2>1, <2>2 DEF Begins
<1>6. ASSUME NEW r \in Rings, LooksAtMode(r) PROVE Answering'
  BY <1>2, <1>3, <1>6 DEF LooksAtMode
<1>7. ASSUME NEW r \in Rings, Captures(r) PROVE Answering'
  BY <1>2, <1>3, <1>7 DEF Captures
<1>8. ASSUME NEW r \in Rings, TypesLine(r) PROVE Answering'
  BY <1>2, <1>3, <1>8 DEF TypesLine
<1>9. ASSUME NEW r \in Rings, Enters(r) PROVE Answering'
  BY <1>2, <1>9 DEF Enters
<1>10. ASSUME NEW r \in Rings, Asks(r) PROVE Answering'
  BY <1>2, <1>3, <1>10 DEF Asks
<1>11. ASSUME NEW r \in Rings, Prompts(r) PROVE Answering'
  BY <1>2, <1>11 DEF Prompts
<1>12. ASSUME NEW r \in Rings, take(r) PROVE Answering'
  BY <1>2, <1>3, <1>12 DEF take
<1>13. ASSUME NEW r \in Rings, CourierStep(r) PROVE Answering'
  <2>1. CASE CourierEnds(r)
    BY <1>2, <2>1 DEF CourierEnds
  <2>2. CASE UNCHANGED <<pc, result>>
    BY <1>4, <2>2
  <2>3. QED
    BY <1>13, <2>1, <2>2 DEF CourierStep, Lists, Sends, Finishes, Prints
<1>14. ASSUME NEW r \in Rings, WebhookStep(r) PROVE Answering'
  BY <1>2, <1>3, <1>14 DEF WebhookStep, Dials, Answered, TimesOut
<1>15. ASSUME NEW type, NEW address, Registers(type, address) PROVE Answering'
  BY <1>4, <1>15 DEF Registers
<1>16. CASE Tick \/ Moves \/ Clears \/ UNCHANGED vars
  BY <1>4, <1>16 DEF Tick, Moves, Clears, vars
<1>17. QED
  BY <1>5, <1>6, <1>7, <1>8, <1>9, <1>10, <1>11, <1>12, <1>13, <1>14, <1>15, <1>16 DEF Next

\* What a step may do to the seat, the bounds and the couriers' output.
LEMMA BoundsStep ==
    NInv /\ Usable /\ Bounded /\ Room /\ [Next]_vars => Usable' /\ Bounded' /\ Room'
<1> SUFFICES ASSUME NInv, Usable, Bounded, Room, [Next]_vars PROVE Usable' /\ Bounded' /\ Room'
  OBVIOUS
<1>1. ASSUME UNCHANGED seat PROVE Usable'
  BY <1>1 DEF Usable, Addresses
<1>2. ASSUME UNCHANGED stream PROVE Room'
  BY <1>2 DEF Room, Count, Printed
<1>3. ASSUME UNCHANGED <<moved, now>>, faults' = faults \/ Fault PROVE Bounded'
  BY <1>3, Limits DEF Bounded, Fault
<1>4. ASSUME NEW r \in Rings, NEW event, Prints(r, event) PROVE Usable' /\ Bounded' /\ Room'
  <2>1. /\ stream' = [stream EXCEPT ![r] = stream[r] \cup {event}]
        /\ Count < MaxEvents /\ UNCHANGED <<seat, moved, now, faults>>
    BY <1>4 DEF Prints, typing
  <2>2. stream'[r] = stream[r] \cup {event} /\ \A q \in Rings \ {r} : stream'[q] = stream[q]
    BY <2>1 DEF NInv, Streamed
  <2>4. Printed' = Printed \cup {<<r, event>>}
    BY <2>2 DEF Printed
  <2>5. Cardinality(Printed) \in Nat
    BY FS_CardinalityType DEF Room
  <2>6. Room'
    <3>1. IsFiniteSet(Printed')
          /\ (Cardinality(Printed') = Cardinality(Printed)
                 \/ Cardinality(Printed') = Cardinality(Printed) + 1)
      BY <2>4, FS_AddElement DEF Room
    <3>2. QED
      BY <2>1, <2>5, <3>1, Limits DEF Room, Count
  <2>7. QED
    BY <1>1, <1>3, <2>1, <2>6
<1>5. ASSUME NEW r \in Rings, CourierEnds(r) PROVE Usable' /\ Bounded' /\ Room'
  <2>1. /\ stream' = [stream EXCEPT ![r] = {}]
        /\ UNCHANGED <<seat, moved, now>> /\ (faults' = faults \/ Fault)
    BY <1>5 DEF CourierEnds, typing
  <2>2. \A q \in Rings : stream'[q] \subseteq stream[q]
    BY <2>1 DEF NInv, Streamed
  <2>3. Printed' \subseteq Printed
    BY <2>2 DEF Printed
  <2>4. IsFiniteSet(Printed') /\ Cardinality(Printed') <= Cardinality(Printed)
    BY <2>3, FS_Subset DEF Room
  <2>5. Cardinality(Printed') \in Nat /\ Cardinality(Printed) \in Nat
    BY <2>4, FS_CardinalityType DEF Room
  <2>6. Room'
    BY <2>4, <2>5, Limits DEF Room, Count
  <2>7. QED
    BY <1>1, <1>3, <2>1, <2>6
<1>6. ASSUME NEW r \in Rings,
             \/ Begins(r) \/ LooksAtMode(r) \/ Captures(r) \/ TypesLine(r) \/ Enters(r)
             \/ Asks(r) \/ Prompts(r) \/ take(r) \/ WebhookStep(r)
      PROVE  Usable' /\ Bounded' /\ Room'
  <2>1. UNCHANGED <<seat, stream, moved, now>> /\ (faults' = faults \/ Fault)
    BY <1>6 DEF Begins, LooksAtMode, Captures, TypesLine, Enters, Asks, Prompts, take,
                WebhookStep, Dials, Answered, TimesOut, couriers, typing
  <2>2. QED
    BY <1>1, <1>2, <1>3, <2>1
<1>7. ASSUME Tick PROVE Usable' /\ Bounded' /\ Room'
  <2>1. UNCHANGED <<seat, stream, moved, faults>> /\ now < MaxTime /\ now' = now + 1
    BY <1>7 DEF Tick, couriers, typing
  <2>2. Bounded'
    BY <2>1, Limits DEF Bounded, NInv, Clocked
  <2>3. QED
    BY <1>1, <1>2, <2>1, <2>2
<1>8. ASSUME Moves \/ Clears PROVE Usable' /\ Bounded' /\ Room'
  <2>1. UNCHANGED <<seat, stream, now, faults>> /\ moved' = moved \cup Typing
    BY <1>8 DEF Moves, Clears, couriers
  <2>2. Bounded'
    BY <2>1 DEF Bounded, Typing
  <2>3. QED
    BY <1>1, <1>2, <2>1, <2>2
<1>9. ASSUME NEW type \in Types, NEW address \in Addresses(type), Registers(type, address)
      PROVE  Usable' /\ Bounded' /\ Room'
  <2>1. /\ UNCHANGED <<stream, moved, now, faults>>
        /\ seat' = [type |-> type, address |-> address] /\ type \in ListenerTypes
        /\ type = "webhook" => address \in {"loopback", "localhost"}
    BY <1>9 DEF Registers, ValidListenerType, ValidListenerAddress, webhookURL, loopbackHost,
                couriers, typing
  <2>2. Usable'
    BY <2>1 DEF Usable, Addresses
  <2>3. QED
    BY <1>2, <1>3, <2>1, <2>2
<1>10. CASE UNCHANGED vars
  BY <1>1, <1>2, <1>3, <1>10 DEF vars, couriers, typing
<1>11. QED
  BY <1>4, <1>5, <1>6, <1>7, <1>8, <1>9, <1>10 DEF Next, CourierStep, Lists, Sends, Finishes

\* The seat, the rings and the histories keep their types, what is registered has a
\* notifier that can use its address, and a ring is over exactly when it has
\* answered, for any number of rings, agents, ticks and events.
THEOREM TypeCorrect == Spec => []TypeOK
<1>1. Init => Answering /\ Usable /\ Bounded /\ Room
  <2> SUFFICES ASSUME Init PROVE Answering /\ Usable /\ Bounded /\ Room
    OBVIOUS
  <2>1. Printed = {}
    BY DEF Init, Printed
  <2>2. Room
    BY <2>1, FS_EmptySet, Limits DEF Room, Count
  <2>3. QED
    BY <2>2, Limits DEF Init, Answering, Usable, Bounded
<1>2. Spec => [](NInv /\ Answering /\ Usable /\ Bounded /\ Room)
  BY <1>1, NInit, NStep, AnsweringStep, BoundsStep, PTL DEF Spec
<1>3. QED
  BY <1>2, TypesSuffice, PTL

-----------------------------------------------------------------------------
(* The spacing of couriers.                                                *)

Spaced ==
    \A q, r \in Rings :
        q # r /\ spawned[q] # None /\ spawned[r] # None
            => spawned[q] >= spawned[r] + Window \/ spawned[r] >= spawned[q] + Window

\* A courier is spawned a window after every other.
LEMMA SpacedStep == NInv /\ Spaced /\ [Next]_vars => Spaced'
<1> SUFFICES ASSUME NInv, Spaced, [Next]_vars PROVE Spaced'
  OBVIOUS
<1>1. ASSUME NEW r \in Rings, take(r) PROVE Spaced'
  <2>1. CASE UNCHANGED spawned
    BY <2>1 DEF Spaced
  <2>2. CASE /\ spawned' = [spawned EXCEPT ![r] = now]
             /\ ~(last # None /\ now < last + Window)
    <3>1. ASSUME NEW q \in Rings, q # r, spawned[q] # None PROVE now >= spawned[q] + Window
      <4>1. last # None /\ spawned[q] <= last
        BY <3>1 DEF NInv, Stamped
      <4>2. last \in Nat /\ spawned[q] \in Nat /\ now \in Nat
        BY <3>1, <4>1 DEF NInv, Clocked
      <4>3. Window \in Nat
        BY NotifyAssumption
      <4>4. QED
        BY <2>2, <4>1, <4>2, <4>3
    <3>2. spawned'[r] = now /\ \A q \in Rings : q # r => spawned'[q] = spawned[q]
      BY <2>2 DEF NInv, Clocked
    <3>3. ASSUME NEW p \in Rings, NEW q \in Rings, p # q, spawned'[p] # None, spawned'[q] # None
          PROVE  spawned'[p] >= spawned'[q] + Window \/ spawned'[q] >= spawned'[p] + Window
      <4>1. CASE p = r
        BY <3>1, <3>2, <3>3, <4>1
      <4>2. CASE q = r
        BY <3>1, <3>2, <3>3, <4>2
      <4>3. CASE p # r /\ q # r
        BY <3>2, <3>3, <4>3 DEF Spaced
      <4>4. QED
        BY <4>1, <4>2, <4>3
    <3>4. QED
      BY <3>3 DEF Spaced
  <2>3. QED
    BY <1>1, <2>1, <2>2 DEF take
<1>2. CASE UNCHANGED spawned
  BY <1>2 DEF Spaced
<1>3. ASSUME NEW r \in Rings, CourierStep(r) PROVE UNCHANGED spawned
  BY <1>3 DEF CourierStep, Lists, Sends, Finishes, Prints, CourierEnds
<1>4. ASSUME NEW r \in Rings,
             \/ Begins(r) \/ LooksAtMode(r) \/ Captures(r) \/ TypesLine(r) \/ Enters(r)
             \/ Asks(r) \/ Prompts(r) \/ WebhookStep(r)
      PROVE  UNCHANGED spawned
  BY <1>4 DEF Begins, LooksAtMode, Captures, TypesLine, Enters, Asks, Prompts, WebhookStep,
              Dials, Answered, TimesOut, couriers
<1>5. CASE Tick \/ Moves \/ Clears \/ UNCHANGED vars
  BY <1>2, <1>5 DEF Tick, Moves, Clears, vars, couriers
<1>6. ASSUME NEW type \in Types, NEW address \in Addresses(type), Registers(type, address)
      PROVE UNCHANGED spawned
  BY <1>6 DEF Registers, couriers
<1>7. QED
  BY <1>1, <1>2, <1>3, <1>4, <1>5, <1>6 DEF Next

\* A ring that answers "rang" at a seat of couriers has woken the addressee, or a
\* courier was spawned within the window before it.
LEMMA RangStep ==
    ASSUME NInv, Next, NEW r \in Rings,
           result[r] = None, result'[r] = "rang", seat.type = "claude"
    PROVE  \/ Delivered(woken'[r])
           \/ \E q \in Rings \ {r} : spawned[q] # None /\ now < spawned[q] + Window
<1>1. result'[r] # result[r]
  BY NoneIsNoWord
<1>2. ASSUME NEW q \in Rings, NEW word, Ends(q, word) PROVE q = r /\ word = "rang"
  BY <1>1, <1>2 DEF Ends, NInv, Typed
<1>3. ASSUME NEW q \in Rings, take(q)
      PROVE \E p \in Rings \ {r} : spawned[p] # None /\ now < spawned[p] + Window
  <2>1. Ends(q, "rang") /\ last # None /\ now < last + Window
    BY <1>1, <1>3 DEF take, Goto
  <2>2. q = r /\ spawned[r] = None
    BY <1>2, <1>3, <2>1 DEF take, At, NInv, RInv, Untouched
  <2>3. PICK p \in Rings : spawned[p] = last
    BY <2>1 DEF NInv, Stamped
  <2>4. QED
    BY <2>1, <2>2, <2>3
<1>4. ASSUME NEW q \in Rings, CourierEnds(q) PROVE Delivered(woken'[r])
  <2>1. stream[q] \in SUBSET Events /\ reason[q] = None
    BY <1>4 DEF CourierEnds, At, NInv, Streamed, RInv, Untouched
  <2>2. courierOutcome({}) = "no result"
    BY <2>1, OutcomeAgrees
  <2>3. Ends(q, IF courierOutcome(stream[q]) = "" THEN "rang" ELSE "failed")
         \/ Ends(q, "failed")
    BY <1>4, <2>2 DEF CourierEnds
  <2>4. q = r /\ courierOutcome(stream[q]) = ""
    <3>1. ~Ends(q, "failed")
      BY <1>2
    <3>2. CASE courierOutcome(stream[q]) = ""
      <4>1. Ends(q, "rang")
        BY <2>3, <3>1, <3>2
      <4>2. QED
        BY <1>2, <3>2, <4>1
    <3>3. CASE courierOutcome(stream[q]) # ""
      BY <2>3, <3>1, <3>3
    <3>4. QED
      BY <3>2, <3>3
  <2>5. woken'[q] = Woken(stream[q])
    BY <1>4 DEF CourierEnds, NInv, Typed
  <2>6. QED
    BY <2>1, <2>4, <2>5, OutcomeAgrees
<1>5. ASSUME NEW q \in Rings, Begins(q) PROVE FALSE
  <2>1. Ends(q, "failed") \/ Goto(q, newNotifier[seat.type])
    BY <1>5 DEF Begins
  <2>2. ~Ends(q, "failed")
    BY <1>2
  <2>3. QED
    BY <1>1, <2>1, <2>2 DEF Goto
<1>6. ASSUME NEW q \in Rings,
             LooksAtMode(q) \/ Captures(q) \/ TypesLine(q) \/ Enters(q) \/ Asks(q) \/ Prompts(q)
             \/ WebhookStep(q)
      PROVE  FALSE
  <2>1. pc[q] \in {"mode", "capture", "type", "enter", "ask", "prompt", "dial", "waiting"}
    BY <1>6 DEF LooksAtMode, Captures, TypesLine, Enters, Asks, Prompts, WebhookStep, Dials,
                Answered, TimesOut, At
  <2>2. QED
    BY <2>1 DEF NInv, RInv, InItsNotifier
<1>7. ASSUME NEW q \in Rings, NEW event, Prints(q, event) PROVE FALSE
  BY <1>1, <1>7 DEF Prints
<1>8. CASE Tick \/ Moves \/ Clears
  BY <1>1, <1>8 DEF Tick, Moves, Clears
<1>9. ASSUME NEW type, NEW address, Registers(type, address) PROVE FALSE
  BY <1>1, <1>9 DEF Registers
<1>10. QED
  BY <1>3, <1>4, <1>5, <1>6, <1>7, <1>8, <1>9 DEF Next, CourierStep, Lists, Sends, Finishes

\* Couriers are spaced by the window, and "rang" says that this ring's own woke the
\* addressee or that the window is not over, for any number of rings and ticks.
THEOREM CouriersSpaced == Spec => CourierWindow
<1>1. Init => Spaced
  BY DEF Init, Spaced
<1>2. Spec => [](NInv /\ Spaced)
  BY <1>1, NInit, NStep, SpacedStep, PTL DEF Spec
<1>3. NInv /\ Spaced /\ Spaced' /\ [Next]_vars =>
         [/\ \A q, r \in Rings :
                q # r /\ spawned'[q] # None /\ spawned'[r] # None
                   => spawned'[q] >= spawned'[r] + Window \/ spawned'[r] >= spawned'[q] + Window
          /\ \A r \in Rings :
                result[r] = None /\ result'[r] = "rang" /\ seat.type = "claude"
                   => \/ Delivered(woken'[r])
                      \/ \E q \in Rings \ {r} : spawned[q] # None /\ now < spawned[q] + Window]_vars
  BY RangStep DEF Spaced
<1>4. QED
  BY <1>2, <1>3, PTL DEF Spec, CourierWindow
=============================================================================
