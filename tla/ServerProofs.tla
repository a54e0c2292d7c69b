---------------------------- MODULE ServerProofs ----------------------------
(***************************************************************************)
(* Theorems about the server process: its bell (Bell), and the process     *)
(* that launches it and brings it to its end (Entry).  The two share no    *)
(* state; each has a part of its own here.                                 *)
(***************************************************************************)
EXTENDS Bell, Entry, FiniteSetTheorems, TLAPS

-----------------------------------------------------------------------------
(* The bell.                                                               *)

\* A count of unread mail is a natural number: the queue is a finite set.
LEMMA CountIsNat ==
    ASSUME NEW S, S \subseteq Msgs
    PROVE  Cardinality(S) \in Nat
BY BellAssumption, FS_Subset, FS_CardinalityType

\* The names of a later try are senders.
LEMMA LaterNamesType ==
    ASSUME TypeOK, NEW n
    PROVE  laterNames(n) \subseteq Senders
BY DEF TypeOK, WindowType, StreakType, laterNames

\* The hours are the hours of the minutes.
LEMMA HourType ==
    ASSUME NEW m \in Minutes
    PROVE  Hour(m) \in Hours
BY BellAssumption DEF Hour, Hours, Minutes

\* Adding one to an entry of a table of counts leaves a table of counts.
LEMMA BumpType ==
    ASSUME NEW S, NEW f \in [S -> Nat], NEW i \in S
    PROVE  [f EXCEPT ![i] = @ + 1] \in [S -> Nat]
OBVIOUS

\* What a ring that keeps its charge writes has its types.
LEMMA PaidType ==
    ASSUME TypeOK, NEW t \in Threads, Paid(t)
    PROVE  /\ charge' \in [Threads -> Minutes]
           /\ rungMinute' \in [Minutes -> Nat] /\ rungHour' \in [Hours -> Nat]
<1>1. /\ charge[t] \in Minutes /\ 0 \in Minutes
      /\ Hour(charge[t]) \in Hours
  BY HourType, BellAssumption DEF Minutes, TypeOK, BreakerType
<1>2. charge' \in [Threads -> Minutes]
  BY <1>1 DEF Paid, TypeOK, BreakerType
<1>3. rungMinute' \in [Minutes -> Nat]
  BY <1>1, BumpType DEF Paid, TypeOK, BreakerType
<1>4. rungHour' \in [Hours -> Nat]
  BY <1>1, BumpType DEF Paid, TypeOK, BreakerType
<1>5. QED
  BY <1>2, <1>3, <1>4

\* Every step of the bell keeps every field in its type.
LEMMA TypeStep == TypeOK /\ [Next]_vars => TypeOK'
<1> SUFFICES ASSUME TypeOK, [Next]_vars PROVE TypeOK'
  OBVIOUS
<1> USE BellAssumption
<1> USE DEF vars, windowVars, streakVars, breakerVars, mediumVars, linkVars,
            threadVars, Goto, TypeOK, WindowType, StreakType,
            BreakerType, ThreadType, MediumType, FlagType, HistoryType
<1>1. ASSUME NEW m \in Msgs, Publish(m) PROVE TypeOK'
  <2>1. MediumType'
    BY <1>1 DEF Publish
  <2>2. HistoryType'
    BY <1>1 DEF Publish
  <2>3. WindowType' /\ StreakType' /\ BreakerType' /\ ThreadType' /\ FlagType'
    BY <1>1 DEF Publish
  <2>4. QED
    BY <2>1, <2>2, <2>3
<1>2. ASSUME NEW m \in Msgs, Take(m) PROVE TypeOK'
  <2>1. MediumType'
    BY <1>2 DEF Take
  <2>2. HistoryType'
    BY <1>2 DEF Take
  <2>3. WindowType' /\ StreakType' /\ BreakerType' /\ ThreadType' /\ FlagType'
    BY <1>2 DEF Take
  <2>4. QED
    BY <2>1, <2>2, <2>3
<1>3. ASSUME NEW m \in Msgs, arrived(m) PROVE TypeOK'
  <2>1. pending' \in Nat /\ senders' \subseteq Senders
    BY <1>3 DEF arrived, OpenWindow, note
  <2>2. timer' \in TimerStates /\ looseWindows' \in Nat
    BY <1>3 DEF arrived, OpenWindow, TimerStates
  <2>3. blind' \in BOOLEAN
    BY <1>3 DEF arrived, OpenWindow
  <2>4. MediumType' /\ HistoryType'
    BY <1>3 DEF arrived, OpenWindow
  <2>5. StreakType' /\ BreakerType' /\ ThreadType' /\ FlagType'
    BY <1>3 DEF arrived, OpenWindow
  <2>6. QED
    BY <2>1, <2>2, <2>3, <2>4, <2>5
<1>4. CASE LinkDown
  <2>1. MediumType'
    BY <1>4 DEF LinkDown
  <2>2. WindowType' /\ StreakType' /\ BreakerType' /\ ThreadType' /\ FlagType' /\ HistoryType'
    BY <1>4 DEF LinkDown
  <2>3. QED
    BY <2>1, <2>2
<1>5. CASE LinkUp
  <2>1. MediumType'
    BY <1>5 DEF LinkUp
  <2>2. WindowType' /\ StreakType' /\ BreakerType' /\ ThreadType' /\ FlagType' /\ HistoryType'
    BY <1>5 DEF LinkUp
  <2>3. QED
    BY <2>1, <2>2
<1>6. CASE Tick
  <2>1. MediumType'
    BY <1>6 DEF Tick, Minutes
  <2>2. WindowType' /\ StreakType' /\ BreakerType' /\ ThreadType' /\ FlagType' /\ HistoryType'
    BY <1>6 DEF Tick
  <2>3. QED
    BY <2>1, <2>2
<1>7. CASE disconnected
  <2>1. MediumType'
    BY <1>7 DEF disconnected
  <2>2. FlagType'
    BY <1>7 DEF disconnected
  <2>3. WindowType' /\ StreakType' /\ BreakerType' /\ ThreadType' /\ HistoryType'
    BY <1>7 DEF disconnected
  <2>4. QED
    BY <2>1, <2>2, <2>3
<1>8. CASE reconnected
  <2>1. ThreadType'
    BY <1>8 DEF reconnected, HeedReconnect, Threads, Labels
  <2>2. MediumType'
    BY <1>8 DEF reconnected, HeedReconnect, Threads, Labels
  <2>3. WindowType' /\ StreakType' /\ BreakerType' /\ FlagType' /\ HistoryType'
    BY <1>8 DEF reconnected, HeedReconnect
  <2>4. QED
    BY <2>1, <2>2, <2>3
<1>9. ASSUME NEW t \in Timers, TimerFires(t) PROVE TypeOK'
  <2>1. CASE WindowFires(t)
    <3>1. WindowType'
      BY <2>1 DEF WindowFires, TimerStates
    <3>2. ThreadType'
      BY <2>1 DEF WindowFires, TimerStarts, Threads, Labels
    <3>3. StreakType' /\ BreakerType' /\ MediumType' /\ FlagType' /\ HistoryType'
      BY <2>1 DEF WindowFires, TimerStarts
    <3>4. QED
      BY <3>1, <3>2, <3>3
  <2>2. CASE LooseWindowFires(t)
    <3>1. WindowType'
      BY <2>2 DEF LooseWindowFires, TimerStates
    <3>2. ThreadType'
      BY <2>2 DEF LooseWindowFires, TimerStarts, Threads, Labels
    <3>3. StreakType' /\ BreakerType' /\ MediumType' /\ FlagType' /\ HistoryType'
      BY <2>2 DEF LooseWindowFires, TimerStarts
    <3>4. QED
      BY <3>1, <3>2, <3>3
  <2>3. CASE TryFires(t)
    <3>1. StreakType'
      BY <2>3 DEF TryFires, TimerStates
    <3>2. ThreadType'
      BY <2>3 DEF TryFires, TimerStarts, Threads, Labels
    <3>3. WindowType' /\ BreakerType' /\ MediumType' /\ FlagType' /\ HistoryType'
      BY <2>3 DEF TryFires, TimerStarts
    <3>4. QED
      BY <3>1, <3>2, <3>3
  <2>4. CASE LooseTryFires(t)
    <3>1. StreakType'
      BY <2>4 DEF LooseTryFires, TimerStates
    <3>2. ThreadType'
      BY <2>4 DEF LooseTryFires, TimerStarts, Threads, Labels
    <3>3. WindowType' /\ BreakerType' /\ MediumType' /\ FlagType' /\ HistoryType'
      BY <2>4 DEF LooseTryFires, TimerStarts
    <3>4. QED
      BY <3>1, <3>2, <3>3
  <2>5. QED
    BY <1>9, <2>1, <2>2, <2>3, <2>4 DEF TimerFires
<1>10. ASSUME NEW t \in Threads, BacklogBegins(t) PROVE TypeOK'
  <2>1. ThreadType'
    BY <1>10 DEF BacklogBegins, Labels
  <2>2. FlagType'
    BY <1>10 DEF BacklogBegins, Labels
  <2>3. WindowType' /\ StreakType' /\ BreakerType' /\ MediumType' /\ HistoryType'
    BY <1>10 DEF BacklogBegins
  <2>4. QED
    BY <2>1, <2>2, <2>3
<1>11. ASSUME NEW t \in Threads, BacklogAsks(t) PROVE TypeOK'
  <2>1. ThreadType'
    BY <1>11 DEF BacklogAsks, UnreadAnswers, UnreadErrs, Labels
  <2>2. MediumType'
    BY <1>11 DEF BacklogAsks, UnreadAnswers, UnreadErrs, Labels
  <2>3. WindowType' /\ StreakType' /\ BreakerType' /\ FlagType' /\ HistoryType'
    BY <1>11 DEF BacklogAsks
  <2>4. QED
    BY <2>1, <2>2, <2>3
<1>12. ASSUME NEW t \in Threads, BacklogSets(t) PROVE TypeOK'
  <2> DEFINE n == Cardinality(look[t])
  <2>1. n \in Nat
    BY CountIsNat
  <2>2. pending' \in Nat /\ senders' \subseteq Senders
    BY <1>12, <2>1 DEF BacklogSets
  <2>3. timer' \in TimerStates /\ looseWindows' \in Nat
    BY <1>12 DEF BacklogSets, TimerStates
  <2>4. blind' \in BOOLEAN
    BY <1>12 DEF BacklogSets
  <2>5. ThreadType'
    BY <1>12 DEF BacklogSets, Labels
  <2>6. FlagType'
    BY <1>12 DEF BacklogSets
  <2>7. StreakType' /\ BreakerType' /\ MediumType' /\ HistoryType'
    BY <1>12 DEF BacklogSets
  <2>8. QED
    BY <2>2, <2>3, <2>4, <2>5, <2>6, <2>7
<1>13. ASSUME NEW t \in Threads, fire(t) PROVE TypeOK'
  <2>1. pending' \in Nat /\ senders' \subseteq Senders /\ blind' \in BOOLEAN
    BY <1>13 DEF fire, CloseWindow
  <2>2. timer' \in TimerStates /\ looseWindows' \in Nat
    BY <1>13 DEF fire, CloseWindow, StrayWindow, TimerStates
  <2>3. StreakType'
    BY <1>13 DEF fire, CloseWindow, TimerStates
  <2>4. pc' \in [Threads -> Labels] /\ look' = look /\ result' = result
    BY <1>13 DEF fire, CloseWindow, Labels
  <2>5. who' \in [Threads -> SUBSET Senders]
    BY <1>13 DEF fire, CloseWindow
  <2>6. HistoryType'
    BY <1>13 DEF fire, CloseWindow
  <2>7. BreakerType' /\ MediumType' /\ FlagType'
    BY <1>13 DEF fire, CloseWindow
  <2>8. QED
    BY <2>1, <2>2, <2>3, <2>4, <2>5, <2>6, <2>7
<1>14. ASSUME NEW t \in Threads, ring(t) PROVE TypeOK'
  <2>1. RolledMinuteN \in Nat /\ RolledHourN \in Nat
    BY DEF RolledMinuteN, RolledHourN
  <2>2. minuteN' \in Nat /\ hourN' \in Nat /\ minuteBucket' \in Minutes
    BY <1>14, <2>1 DEF ring
  <2>3. tripped' \in BOOLEAN
    BY <1>14 DEF ring, RolledTripped
  <2>4. /\ charge' \in [Threads -> Minutes]
        /\ rungMinute' = rungMinute /\ rungHour' = rungHour
    BY <1>14 DEF ring
  <2>5. ThreadType'
    BY <1>14 DEF ring, Suppress, Labels, Results
  <2>6. WindowType' /\ StreakType' /\ MediumType' /\ FlagType' /\ HistoryType'
    BY <1>14 DEF ring
  <2>7. QED
    BY <2>2, <2>3, <2>4, <2>5, <2>6
<1>15. ASSUME NEW t \in Threads, Notify(t) PROVE TypeOK'
  <2>1. /\ \/ UNCHANGED <<charge, rungMinute, rungHour>>
           \/ Paid(t)
        /\ UNCHANGED <<minuteBucket, minuteN, hourN, tripped>>
    BY <1>15 DEF Notify
  <2>2. BreakerType'
    BY <2>1, PaidType DEF BreakerType
  <2>3. ThreadType'
    BY <1>15 DEF Notify, Labels, Results
  <2>4. WindowType' /\ StreakType' /\ MediumType' /\ FlagType' /\ HistoryType'
    BY <1>15 DEF Notify
  <2>5. QED
    BY <2>2, <2>3, <2>4
<1>16. ASSUME NEW t \in Threads, giveBack(t) PROVE TypeOK'
  <2>1. BreakerType'
    BY <1>16 DEF giveBack, GivenBack, Labels, Minutes
  <2>2. ThreadType'
    BY <1>16 DEF giveBack, GivenBack, Labels, Minutes
  <2>3. WindowType' /\ StreakType' /\ MediumType' /\ FlagType' /\ HistoryType'
    BY <1>16 DEF giveBack, GivenBack
  <2>4. QED
    BY <2>1, <2>2, <2>3
<1>17. ASSUME NEW t \in Threads, counted(t) PROVE TypeOK'
  <2>1. StreakType'
    BY <1>17 DEF counted, Exhausts, Tried, StrayTry, Labels, Results, TimerStates
  <2>2. ThreadType'
    BY <1>17 DEF counted, Exhausts, Tried, StrayTry, Labels, Results, TimerStates
  <2>3. HistoryType'
    BY <1>17 DEF counted, Exhausts, Tried, StrayTry, Labels, Results, TimerStates
  <2>4. WindowType' /\ BreakerType' /\ MediumType' /\ FlagType'
    BY <1>17 DEF counted, Exhausts, Tried
  <2>5. QED
    BY <2>1, <2>2, <2>3, <2>4
<1>18. ASSUME NEW t \in Threads, GaveUp(t) PROVE TypeOK'
  <2>1. StreakType'
    BY <1>18 DEF GaveUp, clearStreak, Labels, TimerStates
  <2>2. ThreadType'
    BY <1>18 DEF GaveUp, clearStreak, Labels, TimerStates
  <2>3. WindowType' /\ BreakerType' /\ MediumType' /\ FlagType' /\ HistoryType'
    BY <1>18 DEF GaveUp, clearStreak
  <2>4. QED
    BY <2>1, <2>2, <2>3
<1>19. ASSUME NEW t \in Threads, again(t) PROVE TypeOK'
  <2>1. StreakType'
    BY <1>19 DEF again, StrayTry, Labels, TimerStates
  <2>2. ThreadType'
    BY <1>19 DEF again, StrayTry, Labels, TimerStates
  <2>3. WindowType' /\ BreakerType' /\ MediumType' /\ FlagType' /\ HistoryType'
    BY <1>19 DEF again
  <2>4. QED
    BY <2>1, <2>2, <2>3
<1>20. ASSUME NEW t \in Threads, AgainAsks(t) PROVE TypeOK'
  <2>1. ThreadType'
    BY <1>20 DEF AgainAsks, UnreadAnswers, UnreadErrs, Labels, Results
  <2>2. MediumType'
    BY <1>20 DEF AgainAsks, UnreadAnswers, UnreadErrs, Labels, Results
  <2>3. WindowType' /\ StreakType' /\ BreakerType' /\ FlagType' /\ HistoryType'
    BY <1>20 DEF AgainAsks
  <2>4. QED
    BY <2>1, <2>2, <2>3
<1>21. ASSUME NEW t \in Threads, Emptied(t) PROVE TypeOK'
  <2>1. ThreadType'
    BY <1>21 DEF Emptied, Labels
  <2>2. FlagType'
    BY <1>21 DEF Emptied, Labels
  <2>3. WindowType' /\ StreakType' /\ BreakerType' /\ MediumType' /\ HistoryType'
    BY <1>21 DEF Emptied
  <2>4. QED
    BY <2>1, <2>2, <2>3
<1>22. ASSUME NEW t \in Threads, endStreak(t) PROVE TypeOK'
  <2>1. StreakType'
    BY <1>22 DEF endStreak, clearStreak, Labels, TimerStates
  <2>2. ThreadType'
    BY <1>22 DEF endStreak, clearStreak, Labels, TimerStates
  <2>3. HistoryType'
    BY <1>22 DEF endStreak, clearStreak, Labels, TimerStates
  <2>4. WindowType' /\ BreakerType' /\ MediumType' /\ FlagType'
    BY <1>22 DEF endStreak, clearStreak
  <2>5. QED
    BY <2>1, <2>2, <2>3, <2>4
<1>23. ASSUME NEW t \in Threads, NameAgain(t) PROVE TypeOK'
  <2>1. ThreadType'
    BY <1>23, LaterNamesType DEF NameAgain, Labels
  <2>2. HistoryType'
    BY <1>23, LaterNamesType DEF NameAgain, Labels
  <2>3. WindowType' /\ StreakType' /\ BreakerType' /\ MediumType' /\ FlagType'
    BY <1>23 DEF NameAgain
  <2>4. QED
    BY <2>1, <2>2, <2>3
<1>24. CASE stop
  <2>1. WindowType'
    BY <1>24 DEF stop, clearStreak, Threads, Labels, TimerStates
  <2>2. StreakType'
    BY <1>24 DEF stop, clearStreak, Threads, Labels, TimerStates
  <2>3. ThreadType'
    BY <1>24 DEF stop, clearStreak, Threads, Labels, TimerStates
  <2>4. FlagType'
    BY <1>24 DEF stop, clearStreak, Threads, Labels, TimerStates
  <2>5. BreakerType' /\ MediumType' /\ HistoryType'
    BY <1>24 DEF stop, clearStreak
  <2>6. QED
    BY <2>1, <2>2, <2>3, <2>4, <2>5
<1>25. CASE Unwatch
  <2>1. ThreadType'
    BY <1>25 DEF Unwatch, Threads, Labels
  <2>2. MediumType'
    BY <1>25 DEF Unwatch, Threads, Labels
  <2>3. WindowType' /\ StreakType' /\ BreakerType' /\ FlagType' /\ HistoryType'
    BY <1>25 DEF Unwatch
  <2>4. QED
    BY <2>1, <2>2, <2>3
<1>26. ASSUME NEW t \in Threads, NotifyHangs(t) PROVE TypeOK'
  <2>1. BreakerType'
    BY <1>26, PaidType DEF NotifyHangs, BreakerType
  <2>2. ThreadType'
    BY <1>26 DEF NotifyHangs, Labels
  <2>3. WindowType' /\ StreakType' /\ MediumType' /\ FlagType' /\ HistoryType'
    BY <1>26 DEF NotifyHangs
  <2>4. QED
    BY <2>1, <2>2, <2>3
<1>27. CASE UNCHANGED vars
  BY <1>27
<1>28. QED
  BY <1>1, <1>2, <1>3, <1>4, <1>5, <1>6, <1>7, <1>8, <1>9, <1>10, <1>11, <1>12,
     <1>13, <1>14, <1>15, <1>16, <1>17, <1>18, <1>19, <1>20, <1>21, <1>22, <1>23, <1>24,
     <1>25, <1>26, <1>27 DEF Next, Step

\* Initially every field has its type.
LEMMA TypeInit == Init => TypeOK
<1> SUFFICES ASSUME Init PROVE TypeOK
  OBVIOUS
<1> USE BellAssumption
<1>1. WindowType /\ StreakType /\ FlagType
  BY DEF Init, WindowType, StreakType, FlagType, TimerStates
<1>2. BreakerType
  <2>1. 0 \in Minutes
    BY DEF Minutes
  <2>2. QED
    BY <2>1 DEF Init, BreakerType
<1>3. ThreadType
  BY DEF Init, ThreadType, Labels, Results
<1>4. MediumType /\ HistoryType
  BY DEF Init, MediumType, HistoryType, Minutes
<1>5. QED
  BY <1>1, <1>2, <1>3, <1>4 DEF TypeOK

\* The fields, the goroutines and the medium keep their types, and what waits
\* to be announced is in the queue.
THEOREM TypeCorrect == Spec => []TypeOK
<1>1. Init => TypeOK
  BY TypeInit
<1>2. TypeOK /\ [Next]_vars => TypeOK'
  BY TypeStep
<1>3. QED
  BY <1>1, <1>2, PTL DEF Spec

-----------------------------------------------------------------------------
\* NoLostWake is not inductive: an arrival that finds a timer in place arms
\* none, so a timer that has expired must still have its goroutine before fire.
FiredIsFiring == timer = "fired" => \E t \in Threads : pc[t] = "fire"
WakeInv == NoLostWake /\ FiredIsFiring

\* Every step keeps a ring coming for pending mail.
LEMMA WakeStep == TypeOK /\ WakeInv /\ [Next]_vars => WakeInv'
<1> SUFFICES ASSUME TypeOK, WakeInv, [Next]_vars PROVE WakeInv'
  OBVIOUS
<1> USE BellAssumption
<1> USE DEF vars, windowVars, streakVars, breakerVars, mediumVars, linkVars,
            threadVars, Goto, TypeOK, WindowType, StreakType,
            ThreadType, FlagType, WakeInv, NoLostWake, FiredIsFiring
<1>1. ASSUME NEW m \in Msgs, Publish(m) PROVE WakeInv'
  BY <1>1 DEF Publish
<1>2. ASSUME NEW m \in Msgs, Take(m) PROVE WakeInv'
  BY <1>2 DEF Take
<1>3. ASSUME NEW m \in Msgs, arrived(m) PROVE WakeInv'
  BY <1>3 DEF arrived, OpenWindow, TimerStates
<1>4. CASE LinkDown
  BY <1>4 DEF LinkDown
<1>5. CASE LinkUp
  BY <1>5 DEF LinkUp
<1>6. CASE Tick
  BY <1>6 DEF Tick
<1>7. CASE disconnected
  BY <1>7 DEF disconnected
<1>8. CASE reconnected
  BY <1>8 DEF reconnected, HeedReconnect, Threads
<1>9. ASSUME NEW t \in Timers, WindowFires(t) PROVE WakeInv'
  BY <1>9 DEF WindowFires, TimerStarts, Threads
<1>10. ASSUME NEW t \in Timers, LooseWindowFires(t) PROVE WakeInv'
  BY <1>10 DEF LooseWindowFires, TimerStarts, Threads
<1>11. ASSUME NEW t \in Timers, TryFires(t) PROVE WakeInv'
  BY <1>11 DEF TryFires, TimerStarts, Threads
<1>12. ASSUME NEW t \in Timers, LooseTryFires(t) PROVE WakeInv'
  BY <1>12 DEF LooseTryFires, TimerStarts, Threads
<1>13. ASSUME NEW t \in Threads, BacklogBegins(t) PROVE WakeInv'
  BY <1>13 DEF BacklogBegins
<1>14. ASSUME NEW t \in Threads, BacklogAsks(t) PROVE WakeInv'
  BY <1>14 DEF BacklogAsks
<1>15. ASSUME NEW t \in Threads, BacklogSets(t) PROVE WakeInv'
  BY <1>15 DEF BacklogSets
<1>16. ASSUME NEW t \in Threads, fire(t) PROVE WakeInv'
  BY <1>16 DEF fire, CloseWindow
<1>17. ASSUME NEW t \in Threads, ring(t) PROVE WakeInv'
  BY <1>17 DEF ring, Suppress
<1>18. ASSUME NEW t \in Threads, Notify(t) PROVE WakeInv'
  BY <1>18 DEF Notify
<1>19. ASSUME NEW t \in Threads, giveBack(t) PROVE WakeInv'
  BY <1>19 DEF giveBack, GivenBack
<1>20. ASSUME NEW t \in Threads, counted(t) PROVE WakeInv'
  BY <1>20 DEF counted, Exhausts, Tried, StrayTry
<1>21. ASSUME NEW t \in Threads, GaveUp(t) PROVE WakeInv'
  BY <1>21 DEF GaveUp, clearStreak
<1>22. ASSUME NEW t \in Threads, again(t) PROVE WakeInv'
  BY <1>22 DEF again, StrayTry
<1>23. ASSUME NEW t \in Threads, AgainAsks(t) PROVE WakeInv'
  BY <1>23 DEF AgainAsks
<1>24. ASSUME NEW t \in Threads, Emptied(t) PROVE WakeInv'
  BY <1>24 DEF Emptied
<1>25. ASSUME NEW t \in Threads, endStreak(t) PROVE WakeInv'
  BY <1>25 DEF endStreak, clearStreak
<1>26. ASSUME NEW t \in Threads, NameAgain(t) PROVE WakeInv'
  BY <1>26 DEF NameAgain
<1>27. CASE stop
  BY <1>27 DEF stop, clearStreak, Threads
<1>28. CASE Unwatch
  BY <1>28 DEF Unwatch, Threads
<1>29. ASSUME NEW t \in Threads, NotifyHangs(t) PROVE WakeInv'
  BY <1>29 DEF NotifyHangs
<1>30. CASE UNCHANGED vars
  BY <1>30
<1>31. QED
  BY <1>1, <1>2, <1>3, <1>4, <1>5, <1>6, <1>7, <1>8, <1>9, <1>10, <1>11, <1>12,
     <1>13, <1>14, <1>15, <1>16, <1>17, <1>18, <1>19, <1>20, <1>21, <1>22, <1>23, <1>24,
     <1>25, <1>26, <1>27, <1>28, <1>29, <1>30 DEF Next, Step, TimerFires

\* A counted arrival always has a ring coming, whatever the timers, the backlog
\* and the callbacks do to each other.
THEOREM WakeNeverLost == Spec => []NoLostWake
<1>1. Init => WakeInv
  BY DEF Init, WakeInv, NoLostWake, FiredIsFiring
<1>2. TypeOK /\ WakeInv /\ [Next]_vars => WakeInv'
  BY WakeStep
<1>3. WakeInv => NoLostWake
  BY DEF WakeInv
<1>4. QED
  BY <1>1, <1>2, <1>3, TypeCorrect, PTL DEF Spec

-----------------------------------------------------------------------------

\* Every step leaves an exhausted streak with a goroutine giving it up.
LEMMA ExhaustedStep == TypeOK /\ ExhaustedGivesUp /\ [Next]_vars => ExhaustedGivesUp'
<1> SUFFICES ASSUME TypeOK, ExhaustedGivesUp, [Next]_vars PROVE ExhaustedGivesUp'
  OBVIOUS
<1> USE BellAssumption
<1> USE DEF vars, windowVars, streakVars, breakerVars, mediumVars, linkVars,
            threadVars, Goto, TypeOK, WindowType, StreakType,
            ThreadType, FlagType, ExhaustedGivesUp
<1>1. ASSUME NEW m \in Msgs, Publish(m) PROVE ExhaustedGivesUp'
  BY <1>1 DEF Publish
<1>2. ASSUME NEW m \in Msgs, Take(m) PROVE ExhaustedGivesUp'
  BY <1>2 DEF Take
<1>3. ASSUME NEW m \in Msgs, arrived(m) PROVE ExhaustedGivesUp'
  BY <1>3 DEF arrived, OpenWindow, note
<1>4. CASE LinkDown
  BY <1>4 DEF LinkDown
<1>5. CASE LinkUp
  BY <1>5 DEF LinkUp
<1>6. CASE Tick
  BY <1>6 DEF Tick
<1>7. CASE disconnected
  BY <1>7 DEF disconnected
<1>8. CASE reconnected
  BY <1>8 DEF reconnected, HeedReconnect, Threads
<1>9. ASSUME NEW t \in Timers, WindowFires(t) PROVE ExhaustedGivesUp'
  BY <1>9 DEF WindowFires, TimerStarts, Threads
<1>10. ASSUME NEW t \in Timers, LooseWindowFires(t) PROVE ExhaustedGivesUp'
  BY <1>10 DEF LooseWindowFires, TimerStarts, Threads
<1>11. ASSUME NEW t \in Timers, TryFires(t) PROVE ExhaustedGivesUp'
  BY <1>11 DEF TryFires, TimerStarts, Threads
<1>12. ASSUME NEW t \in Timers, LooseTryFires(t) PROVE ExhaustedGivesUp'
  BY <1>12 DEF LooseTryFires, TimerStarts, Threads
<1>13. ASSUME NEW t \in Threads, BacklogBegins(t) PROVE ExhaustedGivesUp'
  BY <1>13 DEF BacklogBegins
<1>14. ASSUME NEW t \in Threads, BacklogAsks(t) PROVE ExhaustedGivesUp'
  BY <1>14 DEF BacklogAsks
<1>15. ASSUME NEW t \in Threads, BacklogSets(t) PROVE ExhaustedGivesUp'
  BY <1>15 DEF BacklogSets
<1>16. ASSUME NEW t \in Threads, fire(t) PROVE ExhaustedGivesUp'
  BY <1>16 DEF fire, CloseWindow
<1>17. ASSUME NEW t \in Threads, ring(t) PROVE ExhaustedGivesUp'
  BY <1>17 DEF ring, Suppress
<1>18. ASSUME NEW t \in Threads, Notify(t) PROVE ExhaustedGivesUp'
  BY <1>18 DEF Notify
<1>19. ASSUME NEW t \in Threads, giveBack(t) PROVE ExhaustedGivesUp'
  BY <1>19 DEF giveBack, GivenBack
<1>20. ASSUME NEW t \in Threads, counted(t) PROVE ExhaustedGivesUp'
  BY <1>20 DEF counted, Exhausts, Tried, StrayTry
<1>21. ASSUME NEW t \in Threads, GaveUp(t) PROVE ExhaustedGivesUp'
  BY <1>21 DEF GaveUp, clearStreak
<1>22. ASSUME NEW t \in Threads, again(t) PROVE ExhaustedGivesUp'
  BY <1>22 DEF again, StrayTry
<1>23. ASSUME NEW t \in Threads, AgainAsks(t) PROVE ExhaustedGivesUp'
  BY <1>23 DEF AgainAsks
<1>24. ASSUME NEW t \in Threads, Emptied(t) PROVE ExhaustedGivesUp'
  BY <1>24 DEF Emptied
<1>25. ASSUME NEW t \in Threads, endStreak(t) PROVE ExhaustedGivesUp'
  BY <1>25 DEF endStreak, clearStreak
<1>26. ASSUME NEW t \in Threads, NameAgain(t) PROVE ExhaustedGivesUp'
  BY <1>26 DEF NameAgain
<1>27. CASE stop
  BY <1>27 DEF stop, clearStreak, Threads
<1>28. CASE Unwatch
  BY <1>28 DEF Unwatch, Threads
<1>29. ASSUME NEW t \in Threads, NotifyHangs(t) PROVE ExhaustedGivesUp'
  BY <1>29 DEF NotifyHangs
<1>30. CASE UNCHANGED vars
  BY <1>30
<1>31. QED
  BY <1>1, <1>2, <1>3, <1>4, <1>5, <1>6, <1>7, <1>8, <1>9, <1>10, <1>11, <1>12,
     <1>13, <1>14, <1>15, <1>16, <1>17, <1>18, <1>19, <1>20, <1>21, <1>22, <1>23, <1>24,
     <1>25, <1>26, <1>27, <1>28, <1>29, <1>30 DEF Next, Step, TimerFires

\* An exhausted streak is always being given up by some goroutine.
THEOREM ExhaustedIsGivenUp == Spec => []ExhaustedGivesUp
<1>1. Init => ExhaustedGivesUp
  BY BellAssumption DEF Init, ExhaustedGivesUp
<1>2. TypeOK /\ ExhaustedGivesUp /\ [Next]_vars => ExhaustedGivesUp'
  BY ExhaustedStep
<1>3. QED
  BY <1>1, <1>2, TypeCorrect, PTL DEF Spec

-----------------------------------------------------------------------------

\* No step arms a timer of a stopped bell.
LEMMA StopStep == TypeOK /\ StopIsFinal /\ [Next]_vars => StopIsFinal'
<1> SUFFICES ASSUME TypeOK, StopIsFinal, [Next]_vars PROVE StopIsFinal'
  OBVIOUS
<1> USE BellAssumption
<1> USE DEF vars, windowVars, streakVars, breakerVars, mediumVars, linkVars,
            threadVars, Goto, TypeOK, WindowType, StreakType,
            ThreadType, FlagType, StopIsFinal
<1>1. ASSUME NEW m \in Msgs, Publish(m) PROVE StopIsFinal'
  BY <1>1 DEF Publish
<1>2. ASSUME NEW m \in Msgs, Take(m) PROVE StopIsFinal'
  BY <1>2 DEF Take
<1>3. ASSUME NEW m \in Msgs, arrived(m) PROVE StopIsFinal'
  BY <1>3 DEF arrived, OpenWindow, note
<1>4. CASE LinkDown
  BY <1>4 DEF LinkDown
<1>5. CASE LinkUp
  BY <1>5 DEF LinkUp
<1>6. CASE Tick
  BY <1>6 DEF Tick
<1>7. CASE disconnected
  BY <1>7 DEF disconnected
<1>8. CASE reconnected
  BY <1>8 DEF reconnected, HeedReconnect, Threads
<1>9. ASSUME NEW t \in Timers, WindowFires(t) PROVE StopIsFinal'
  BY <1>9 DEF WindowFires, TimerStarts, Threads
<1>10. ASSUME NEW t \in Timers, LooseWindowFires(t) PROVE StopIsFinal'
  BY <1>10 DEF LooseWindowFires, TimerStarts, Threads
<1>11. ASSUME NEW t \in Timers, TryFires(t) PROVE StopIsFinal'
  BY <1>11 DEF TryFires, TimerStarts, Threads
<1>12. ASSUME NEW t \in Timers, LooseTryFires(t) PROVE StopIsFinal'
  BY <1>12 DEF LooseTryFires, TimerStarts, Threads
<1>13. ASSUME NEW t \in Threads, BacklogBegins(t) PROVE StopIsFinal'
  BY <1>13 DEF BacklogBegins
<1>14. ASSUME NEW t \in Threads, BacklogAsks(t) PROVE StopIsFinal'
  BY <1>14 DEF BacklogAsks
<1>15. ASSUME NEW t \in Threads, BacklogSets(t) PROVE StopIsFinal'
  BY <1>15 DEF BacklogSets
<1>16. ASSUME NEW t \in Threads, fire(t) PROVE StopIsFinal'
  BY <1>16 DEF fire, CloseWindow
<1>17. ASSUME NEW t \in Threads, ring(t) PROVE StopIsFinal'
  BY <1>17 DEF ring, Suppress
<1>18. ASSUME NEW t \in Threads, Notify(t) PROVE StopIsFinal'
  BY <1>18 DEF Notify
<1>19. ASSUME NEW t \in Threads, giveBack(t) PROVE StopIsFinal'
  BY <1>19 DEF giveBack, GivenBack
<1>20. ASSUME NEW t \in Threads, counted(t) PROVE StopIsFinal'
  BY <1>20 DEF counted, Exhausts, Tried, StrayTry
<1>21. ASSUME NEW t \in Threads, GaveUp(t) PROVE StopIsFinal'
  BY <1>21 DEF GaveUp, clearStreak
<1>22. ASSUME NEW t \in Threads, again(t) PROVE StopIsFinal'
  BY <1>22 DEF again, StrayTry
<1>23. ASSUME NEW t \in Threads, AgainAsks(t) PROVE StopIsFinal'
  BY <1>23 DEF AgainAsks
<1>24. ASSUME NEW t \in Threads, Emptied(t) PROVE StopIsFinal'
  BY <1>24 DEF Emptied
<1>25. ASSUME NEW t \in Threads, endStreak(t) PROVE StopIsFinal'
  BY <1>25 DEF endStreak, clearStreak
<1>26. ASSUME NEW t \in Threads, NameAgain(t) PROVE StopIsFinal'
  BY <1>26 DEF NameAgain
<1>27. CASE stop
  BY <1>27 DEF stop, clearStreak, Threads
<1>28. CASE Unwatch
  BY <1>28 DEF Unwatch, Threads
<1>29. ASSUME NEW t \in Threads, NotifyHangs(t) PROVE StopIsFinal'
  BY <1>29 DEF NotifyHangs
<1>30. CASE UNCHANGED vars
  BY <1>30
<1>31. QED
  BY <1>1, <1>2, <1>3, <1>4, <1>5, <1>6, <1>7, <1>8, <1>9, <1>10, <1>11, <1>12,
     <1>13, <1>14, <1>15, <1>16, <1>17, <1>18, <1>19, <1>20, <1>21, <1>22, <1>23, <1>24,
     <1>25, <1>26, <1>27, <1>28, <1>29, <1>30 DEF Next, Step, TimerFires

\* A stopped bell never names a timer again.
THEOREM StoppedForGood == Spec => []StopIsFinal
<1>1. Init => StopIsFinal
  BY DEF Init, StopIsFinal
<1>2. TypeOK /\ StopIsFinal /\ [Next]_vars => StopIsFinal'
  BY StopStep
<1>3. QED
  BY <1>1, <1>2, TypeCorrect, PTL DEF Spec

-----------------------------------------------------------------------------
(* The breaker holds, for every cap, clock and set of goroutines.  What a   *)
(* bucket owes is what it has paid for and what rings under way are charged *)
(* to it; the counters of the code are what the current minute and hour     *)
(* owe.                                                                     *)

Paying == {"notify", "giveBack"}
PaysMinute(m) == {t \in Threads : pc[t] \in Paying /\ charge[t] = m}
PaysHour(h) == {t \in Threads : pc[t] \in Paying /\ Hour(charge[t]) = h}
MinuteDue(m) == rungMinute[m] + Cardinality(PaysMinute(m))
HourDue(h) == rungHour[h] + Cardinality(PaysHour(h))

MinuteInv ==
    /\ \A m \in Minutes : MinuteDue(m) <= PerMin
    /\ \A m \in Minutes : m > minuteBucket => MinuteDue(m) = 0
    /\ MinuteDue(minuteBucket) = minuteN
HourInv ==
    /\ \A h \in Hours : HourDue(h) <= PerHour
    /\ \A h \in Hours : h > Hour(minuteBucket) => HourDue(h) = 0
    /\ HourDue(Hour(minuteBucket)) = hourN
BreakerInv == minuteBucket <= clock /\ MinuteInv /\ HourInv

\* The goroutines are finitely many.
LEMMA ThreadsFinite == IsFiniteSet(Threads)
<1>1. IsFiniteSet({Main}) /\ IsFiniteSet({Link})
  BY FS_Singleton
<1>2. IsFiniteSet(Timers)
  BY BellAssumption
<1>3. IsFiniteSet({Main, Link})
  BY <1>1, FS_AddElement, {Main, Link} = {Main} \cup {Link}
<1>4. QED
  BY <1>2, <1>3, FS_Union DEF Threads

\* A later minute is in no earlier hour.
LEMMA HourMonotone ==
    ASSUME NEW m \in Minutes, NEW n \in Minutes, m <= n
    PROVE  Hour(m) <= Hour(n)
<1> DEFINE K == MinutesPerHour
<1>1. K \in Nat \ {0} /\ m \in Nat /\ n \in Nat
  BY BellAssumption DEF Minutes
<1>2. m = K * (m \div K) + (m % K) /\ n = K * (n \div K) + (n % K)
  BY <1>1
<1>3. m % K \in 0 .. K - 1 /\ n % K \in 0 .. K - 1
  BY <1>1
<1>4. m \div K \in Nat /\ n \div K \in Nat
  BY <1>1
<1>5. SUFFICES ASSUME n \div K < m \div K PROVE FALSE
  BY <1>4 DEF Hour
<1> DEFINE d == (m \div K) - (n \div K) - 1
<1>6. d \in Nat /\ m \div K = (n \div K) + 1 + d
  BY <1>4, <1>5
<1>7. K * (m \div K) = K * (n \div K) + K + K * d /\ K * d \in Nat
  BY <1>1, <1>4, <1>6
<1>8. QED
  BY <1>1, <1>2, <1>3, <1>4, <1>7

\* What a bucket owes is a number.
LEMMA DueType ==
    ASSUME TypeOK
    PROVE  /\ \A m \in Minutes : MinuteDue(m) \in Nat /\ IsFiniteSet(PaysMinute(m))
           /\ \A h \in Hours : HourDue(h) \in Nat /\ IsFiniteSet(PaysHour(h))
<1>1. ASSUME NEW S, S \subseteq Threads PROVE IsFiniteSet(S) /\ Cardinality(S) \in Nat
  BY <1>1, ThreadsFinite, FS_Subset, FS_CardinalityType
<1>2. \A m : IsFiniteSet(PaysMinute(m)) /\ Cardinality(PaysMinute(m)) \in Nat
  BY <1>1 DEF PaysMinute
<1>3. \A h : IsFiniteSet(PaysHour(h)) /\ Cardinality(PaysHour(h)) \in Nat
  BY <1>1 DEF PaysHour
<1>4. QED
  BY <1>2, <1>3 DEF TypeOK, BreakerType, MinuteDue, HourDue

\* A ring that is charged: the bucket that pays owes one more.
LEMMA ChargeOwes ==
    ASSUME TypeOK, NEW t \in Threads, NEW c \in Minutes, NEW label \in Paying,
           pc[t] \notin Paying, pc' = [pc EXCEPT ![t] = label],
           charge' = [charge EXCEPT ![t] = c], UNCHANGED <<rungMinute, rungHour>>
    PROVE  /\ \A m \in Minutes :
                 MinuteDue(m)' = IF m = c THEN MinuteDue(m) + 1 ELSE MinuteDue(m)
           /\ \A h \in Hours :
                 HourDue(h)' = IF h = Hour(c) THEN HourDue(h) + 1 ELSE HourDue(h)
<1> USE DEF TypeOK, ThreadType, BreakerType
<1>1. ASSUME NEW m \in Minutes
      PROVE MinuteDue(m)' = IF m = c THEN MinuteDue(m) + 1 ELSE MinuteDue(m)
  <2>1. CASE m = c
    <3>1. PaysMinute(m)' = PaysMinute(m) \cup {t} /\ t \notin PaysMinute(m)
      BY <2>1 DEF PaysMinute
    <3>2. Cardinality(PaysMinute(m)') = Cardinality(PaysMinute(m)) + 1
      BY <3>1, DueType, FS_AddElement
    <3>3. Cardinality(PaysMinute(m)) \in Nat
      BY DueType, FS_CardinalityType
    <3>4. QED
      BY <2>1, <3>2, <3>3 DEF MinuteDue
  <2>2. CASE m # c
    <3>1. PaysMinute(m)' = PaysMinute(m)
      BY <2>2 DEF PaysMinute
    <3>2. QED
      BY <2>2, <3>1 DEF MinuteDue
  <2>3. QED
    BY <2>1, <2>2
<1>2. ASSUME NEW h \in Hours
      PROVE HourDue(h)' = IF h = Hour(c) THEN HourDue(h) + 1 ELSE HourDue(h)
  <2>1. CASE h = Hour(c)
    <3>1. PaysHour(h)' = PaysHour(h) \cup {t} /\ t \notin PaysHour(h)
      BY <2>1 DEF PaysHour
    <3>2. Cardinality(PaysHour(h)') = Cardinality(PaysHour(h)) + 1
      BY <3>1, DueType, FS_AddElement
    <3>3. Cardinality(PaysHour(h)) \in Nat
      BY DueType, FS_CardinalityType
    <3>4. QED
      BY <2>1, <3>2, <3>3 DEF HourDue
  <2>2. CASE h # Hour(c)
    <3>1. PaysHour(h)' = PaysHour(h)
      BY <2>2 DEF PaysHour
    <3>2. QED
      BY <2>2, <3>1 DEF HourDue
  <2>3. QED
    BY <2>1, <2>2
<1>3. QED
  BY <1>1, <1>2

\* A charge that is settled: the bucket that paid owes one less.
LEMMA SettledOwes ==
    ASSUME TypeOK, NEW t \in Threads, NEW label \in Labels \ Paying,
           pc[t] \in Paying, pc' = [pc EXCEPT ![t] = label],
           charge' = [charge EXCEPT ![t] = 0]
    PROVE  /\ \A m \in Minutes :
                 Cardinality(PaysMinute(m))' = IF m = charge[t]
                     THEN Cardinality(PaysMinute(m)) - 1 ELSE Cardinality(PaysMinute(m))
           /\ \A h \in Hours :
                 Cardinality(PaysHour(h))' = IF h = Hour(charge[t])
                     THEN Cardinality(PaysHour(h)) - 1 ELSE Cardinality(PaysHour(h))
<1> USE DEF TypeOK, ThreadType, BreakerType
<1>1. ASSUME NEW m \in Minutes
      PROVE Cardinality(PaysMinute(m)') = IF m = charge[t]
                THEN Cardinality(PaysMinute(m)) - 1 ELSE Cardinality(PaysMinute(m))
  <2>1. CASE m = charge[t]
    <3>1. PaysMinute(m)' = PaysMinute(m) \ {t} /\ t \in PaysMinute(m)
      BY <2>1 DEF PaysMinute
    <3>2. IsFiniteSet(PaysMinute(m))
      BY DueType
    <3>3. Cardinality(PaysMinute(m) \ {t}) = Cardinality(PaysMinute(m)) - 1
      BY <3>1, <3>2, FS_RemoveElement
    <3>4. QED
      BY <2>1, <3>1, <3>3
  <2>2. CASE m # charge[t]
    <3>1. PaysMinute(m)' = PaysMinute(m)
      BY <2>2 DEF PaysMinute
    <3>2. QED
      BY <2>2, <3>1
  <2>3. QED
    BY <2>1, <2>2
<1>2. ASSUME NEW h \in Hours
      PROVE Cardinality(PaysHour(h)') = IF h = Hour(charge[t])
                THEN Cardinality(PaysHour(h)) - 1 ELSE Cardinality(PaysHour(h))
  <2>1. CASE h = Hour(charge[t])
    <3>1. PaysHour(h)' = PaysHour(h) \ {t} /\ t \in PaysHour(h)
      BY <2>1 DEF PaysHour
    <3>2. IsFiniteSet(PaysHour(h))
      BY DueType
    <3>3. Cardinality(PaysHour(h) \ {t}) = Cardinality(PaysHour(h)) - 1
      BY <3>1, <3>2, FS_RemoveElement
    <3>4. QED
      BY <2>1, <3>1, <3>3
  <2>2. CASE h # Hour(charge[t])
    <3>1. PaysHour(h)' = PaysHour(h)
      BY <2>2 DEF PaysHour
    <3>2. QED
      BY <2>2, <3>1
  <2>3. QED
    BY <2>1, <2>2
<1>3. QED
  BY <1>1, <1>2

\* What leaves the breaker and the rings under way alone keeps its invariant.
LEMMA Untouched ==
    ASSUME TypeOK, BreakerInv, UNCHANGED breakerVars, clock' >= clock, clock' \in Minutes,
           \A t \in Threads : pc'[t] \in Paying <=> pc[t] \in Paying
    PROVE  BreakerInv'
<1>1. \A m : PaysMinute(m)' = PaysMinute(m)
  BY DEF PaysMinute, breakerVars
<1>2. \A h : PaysHour(h)' = PaysHour(h)
  BY DEF PaysHour, breakerVars
<1>3. /\ \A m \in Minutes : MinuteDue(m)' = MinuteDue(m)
      /\ \A h \in Hours : HourDue(h)' = HourDue(h)
  BY <1>1, <1>2 DEF MinuteDue, HourDue, breakerVars
<1>4. minuteBucket \in Minutes /\ Hour(minuteBucket) \in Hours /\ clock \in Minutes
  BY HourType DEF TypeOK, BreakerType, MediumType
<1>5. MinuteInv'
  BY <1>3, <1>4 DEF BreakerInv, MinuteInv, breakerVars
<1>6. HourInv'
  BY <1>3, <1>4 DEF BreakerInv, HourInv, breakerVars
<1>7. minuteBucket' <= clock'
  BY <1>4 DEF BreakerInv, breakerVars, Minutes
<1>8. QED
  BY <1>5, <1>6, <1>7 DEF BreakerInv

\* The roll: the counters are what the clock's minute and hour owe, and no
\* later bucket owes anything.
LEMMA RollCounts ==
    ASSUME TypeOK, BreakerInv
    PROVE  /\ RolledMinuteN = MinuteDue(clock) /\ RolledHourN = HourDue(Hour(clock))
           /\ \A m \in Minutes : m > clock => MinuteDue(m) = 0
           /\ \A h \in Hours : h > Hour(clock) => HourDue(h) = 0
<1>1. minuteBucket \in Minutes /\ clock \in Minutes /\ minuteBucket <= clock
  BY DEF TypeOK, BreakerType, MediumType, BreakerInv
<1>2. Hour(minuteBucket) \in Hours /\ Hour(clock) \in Hours
  BY <1>1, HourType
<1>3. Hour(minuteBucket) <= Hour(clock)
  BY <1>1, HourMonotone
<1>4. Minutes \subseteq Nat /\ Hours \subseteq Nat
  BY DEF Minutes, Hours
<1> DEFINE old == Hour(minuteBucket) now == Hour(clock)
<1> old \in Nat /\ now \in Nat /\ old <= now
  BY <1>2, <1>3, <1>4
<1>5. RolledMinuteN = MinuteDue(clock)
  BY <1>1, <1>4 DEF RolledMinuteN, BreakerInv, MinuteInv
<1>6. RolledHourN = HourDue(Hour(clock))
  <2>1. CASE Hour(clock) = Hour(minuteBucket)
    BY <2>1 DEF RolledHourN, BreakerInv, HourInv
  <2>2. CASE Hour(clock) # Hour(minuteBucket)
    <3>1. now > old
      BY <2>2
    <3>2. HourDue(Hour(clock)) = 0
      BY <1>2, <3>1 DEF BreakerInv, HourInv
    <3>3. QED
      BY <2>2, <3>2 DEF RolledHourN
  <2>3. QED
    BY <2>1, <2>2
<1>7. \A m \in Minutes : m > clock => MinuteDue(m) = 0
  BY <1>1, <1>4 DEF BreakerInv, MinuteInv
<1>8. ASSUME NEW h \in Hours, h > Hour(clock) PROVE HourDue(h) = 0
  <2>1. h > old
    <3>1. h \in Nat /\ h > now
      BY <1>4, <1>8
    <3> HIDE DEF old, now
    <3>2. QED
      BY <3>1
  <2>2. QED
    BY <2>1 DEF BreakerInv, HourInv
<1>9. QED
  BY <1>5, <1>6, <1>7, <1>8

\* A ring that is let through is paid for by buckets below their caps.
LEMMA RingKeeps ==
    ASSUME TypeOK, BreakerInv, NEW t \in Threads, ring(t)
    PROVE  BreakerInv'
<1>1. minuteBucket \in Minutes /\ clock \in Minutes /\ Hour(clock) \in Hours
  BY HourType DEF TypeOK, BreakerType, MediumType
<1>2. clock' = clock /\ pc[t] = "ring" /\ pc \in [Threads -> Labels]
  BY DEF ring, mediumVars, TypeOK, ThreadType
<1>3. CASE stopped
  BY <1>1, <1>2, <1>3, Untouched DEF ring, Suppress, Goto, Paying, Minutes
<1>4. CASE ~stopped /\ OverCap
  <2>1. UNCHANGED <<charge, rungMinute, rungHour>> /\ minuteBucket' = clock
        /\ minuteN' = RolledMinuteN /\ hourN' = RolledHourN
    BY <1>4 DEF ring
  <2>2. \A s \in Threads : pc'[s] \in Paying <=> pc[s] \in Paying
    BY <1>2, <1>4 DEF ring, Suppress, Goto, Paying
  <2>3. /\ \A m : PaysMinute(m)' = PaysMinute(m)
        /\ \A h : PaysHour(h)' = PaysHour(h)
    BY <2>1, <2>2 DEF PaysMinute, PaysHour
  <2>4. /\ \A m \in Minutes : MinuteDue(m)' = MinuteDue(m)
        /\ \A h \in Hours : HourDue(h)' = HourDue(h)
    BY <2>1, <2>3 DEF MinuteDue, HourDue
  <2>5. MinuteInv'
    BY <1>1, <2>1, <2>4, RollCounts DEF BreakerInv, MinuteInv
  <2>6. HourInv'
    BY <1>1, <2>1, <2>4, RollCounts DEF BreakerInv, HourInv
  <2>7. QED
    BY <1>1, <1>2, <2>1, <2>5, <2>6 DEF BreakerInv, Minutes
<1>5. CASE ~stopped /\ ~OverCap
  <2>1. UNCHANGED <<rungMinute, rungHour>> /\ minuteBucket' = clock
        /\ minuteN' = RolledMinuteN + 1 /\ hourN' = RolledHourN + 1
        /\ charge' = [charge EXCEPT ![t] = clock] /\ pc' = [pc EXCEPT ![t] = "notify"]
    BY <1>5 DEF ring, Goto
  <2>2. RolledMinuteN < PerMin /\ RolledHourN < PerHour
    BY <1>1, <1>5, RollCounts, DueType, BellAssumption DEF OverCap
  <2>3. /\ \A m \in Minutes :
              MinuteDue(m)' = IF m = clock THEN MinuteDue(m) + 1 ELSE MinuteDue(m)
        /\ \A h \in Hours :
              HourDue(h)' = IF h = Hour(clock) THEN HourDue(h) + 1 ELSE HourDue(h)
    BY <1>1, <1>2, <2>1, ChargeOwes DEF Paying
  <2>4. MinuteInv'
    BY <1>1, <2>1, <2>2, <2>3, RollCounts, DueType, BellAssumption
    DEF BreakerInv, MinuteInv, Minutes
  <2>5. HourInv'
    BY <1>1, <2>1, <2>2, <2>3, RollCounts, DueType, BellAssumption
    DEF BreakerInv, HourInv, Hours
  <2>6. QED
    BY <1>1, <1>2, <2>1, <2>4, <2>5 DEF BreakerInv, Minutes
<1>6. QED
  BY <1>3, <1>4, <1>5

\* The notifier's answer, or none: what it rang is paid, what it refused stays charged.
LEMMA NotifyKeeps ==
    ASSUME TypeOK, BreakerInv, NEW t \in Threads, Notify(t) \/ NotifyHangs(t)
    PROVE  BreakerInv'
<1>1. minuteBucket \in Minutes /\ clock \in Minutes /\ Hour(minuteBucket) \in Hours
  BY HourType DEF TypeOK, BreakerType, MediumType
<1>2. clock' = clock /\ UNCHANGED <<minuteBucket, minuteN, hourN, tripped>>
      /\ pc[t] = "notify" /\ pc \in [Threads -> Labels]
  BY DEF Notify, NotifyHangs, mediumVars, TypeOK, ThreadType
<1>3. CASE Goto(t, "giveBack") /\ UNCHANGED <<charge, rungMinute, rungHour>>
  BY <1>1, <1>2, <1>3, Untouched DEF Goto, Paying, breakerVars, Minutes
<1>4. ASSUME NEW label \in {"counted", "idle", "hung"}, Goto(t, label), Paid(t)
      PROVE  BreakerInv'
  <2>1. pc' = [pc EXCEPT ![t] = label] /\ label \in Labels \ Paying
        /\ pc[t] \in Paying
    BY <1>2, <1>4 DEF Goto, Labels, Paying
  <2>2. /\ \A m \in Minutes :
              Cardinality(PaysMinute(m))' = IF m = charge[t]
                  THEN Cardinality(PaysMinute(m)) - 1 ELSE Cardinality(PaysMinute(m))
        /\ \A h \in Hours :
              Cardinality(PaysHour(h))' = IF h = Hour(charge[t])
                  THEN Cardinality(PaysHour(h)) - 1 ELSE Cardinality(PaysHour(h))
    BY <1>4, <2>1, SettledOwes DEF Paid
  <2>3. /\ \A m \in Minutes : Cardinality(PaysMinute(m)) \in Nat
        /\ \A h \in Hours : Cardinality(PaysHour(h)) \in Nat
    BY DueType, FS_CardinalityType
  <2>4. rungMinute \in [Minutes -> Nat] /\ rungHour \in [Hours -> Nat]
        /\ charge[t] \in Minutes /\ Hour(charge[t]) \in Hours
    BY HourType DEF TypeOK, BreakerType
  <2>5. \A m \in Minutes : MinuteDue(m)' = MinuteDue(m)
    BY <1>4, <2>2, <2>3, <2>4 DEF MinuteDue, Paid
  <2>6. \A h \in Hours : HourDue(h)' = HourDue(h)
    BY <1>4, <2>2, <2>3, <2>4 DEF HourDue, Paid
  <2>7. MinuteInv' /\ HourInv'
    BY <1>1, <1>2, <2>5, <2>6 DEF BreakerInv, MinuteInv, HourInv
  <2>8. QED
    BY <1>2, <2>7 DEF BreakerInv
<1>5. QED
  BY <1>3, <1>4 DEF Notify, NotifyHangs

\* A refund takes from a bucket what it owes for this ring, and from no other.
LEMMA RefundKeeps ==
    ASSUME TypeOK, BreakerInv, NEW t \in Threads, giveBack(t)
    PROVE  BreakerInv'
<1>1. minuteBucket \in Minutes /\ clock \in Minutes /\ Hour(minuteBucket) \in Hours
      /\ charge[t] \in Minutes /\ Hour(charge[t]) \in Hours
      /\ minuteN \in Nat /\ hourN \in Nat
  BY HourType DEF TypeOK, BreakerType, MediumType
<1>2. clock' = clock /\ UNCHANGED <<minuteBucket, tripped, rungMinute, rungHour>>
      /\ charge' = [charge EXCEPT ![t] = 0] /\ pc' = [pc EXCEPT ![t] = "counted"]
      /\ pc[t] \in Paying /\ "counted" \in Labels \ Paying
  BY DEF giveBack, Goto, mediumVars, Paying, Labels
<1>3. /\ \A m \in Minutes :
            Cardinality(PaysMinute(m))' = IF m = charge[t]
                THEN Cardinality(PaysMinute(m)) - 1 ELSE Cardinality(PaysMinute(m))
      /\ \A h \in Hours :
            Cardinality(PaysHour(h))' = IF h = Hour(charge[t])
                THEN Cardinality(PaysHour(h)) - 1 ELSE Cardinality(PaysHour(h))
  BY <1>2, SettledOwes
<1>4. /\ \A m \in Minutes : Cardinality(PaysMinute(m)) \in Nat /\ rungMinute[m] \in Nat
      /\ \A h \in Hours : Cardinality(PaysHour(h)) \in Nat /\ rungHour[h] \in Nat
  BY DueType, FS_CardinalityType DEF TypeOK, BreakerType
<1>5. \A m \in Minutes :
          MinuteDue(m)' = IF m = charge[t] THEN MinuteDue(m) - 1 ELSE MinuteDue(m)
  BY <1>2, <1>3, <1>4 DEF MinuteDue
<1>6. \A h \in Hours :
          HourDue(h)' = IF h = Hour(charge[t]) THEN HourDue(h) - 1 ELSE HourDue(h)
  BY <1>2, <1>3, <1>4 DEF HourDue
<1>7. MinuteDue(charge[t]) > 0 /\ HourDue(Hour(charge[t])) > 0
  <2>1. t \in PaysMinute(charge[t]) /\ t \in PaysHour(Hour(charge[t]))
    BY <1>2 DEF PaysMinute, PaysHour
  <2>2. Cardinality(PaysMinute(charge[t])) # 0 /\ Cardinality(PaysHour(Hour(charge[t]))) # 0
    BY <1>1, <2>1, DueType, FS_EmptySet
  <2>3. QED
    BY <1>1, <1>4, <2>2 DEF MinuteDue, HourDue
<1>8. minuteN' = IF minuteBucket = charge[t] THEN minuteN - 1 ELSE minuteN
  BY <1>1, <1>7 DEF giveBack, GivenBack, BreakerInv, MinuteInv
<1>9. hourN' = IF Hour(minuteBucket) = Hour(charge[t]) THEN hourN - 1 ELSE hourN
  BY <1>1, <1>7 DEF giveBack, GivenBack, BreakerInv, HourInv
<1>10. MinuteInv'
  BY <1>1, <1>2, <1>5, <1>7, <1>8, DueType, BellAssumption DEF BreakerInv, MinuteInv
<1>11. HourInv'
  BY <1>1, <1>2, <1>6, <1>7, <1>9, DueType, BellAssumption DEF BreakerInv, HourInv
<1>12. QED
  BY <1>2, <1>10, <1>11 DEF BreakerInv

-----------------------------------------------------------------------------

\* Every step keeps the breaker's invariant: three touch it, and the others
\* neither begin nor settle a ring.
LEMMA BreakerStep == TypeOK /\ BreakerInv /\ [Next]_vars => BreakerInv'
<1> SUFFICES ASSUME TypeOK, BreakerInv, [Next]_vars PROVE BreakerInv'
  OBVIOUS
<1> DEFINE Quiet == /\ UNCHANGED breakerVars /\ clock' >= clock
                    /\ \A s \in Threads : pc'[s] \in Paying <=> pc[s] \in Paying
<1>1. Quiet => BreakerInv'
  BY Untouched, TypeStep DEF TypeOK, MediumType
<1> USE BellAssumption
<1>2. clock \in Nat /\ pc \in [Threads -> Labels]
  BY DEF TypeOK, MediumType, ThreadType, Minutes
<1> USE DEF Goto, mediumVars, threadVars, Paying
<1>3. ASSUME NEW m \in Msgs, Publish(m) PROVE Quiet
  BY <1>2, <1>3 DEF Publish
<1>4. ASSUME NEW m \in Msgs, Take(m) PROVE Quiet
  BY <1>2, <1>4 DEF Take
<1>5. ASSUME NEW m \in Msgs, arrived(m) PROVE Quiet
  BY <1>2, <1>5 DEF arrived
<1>6. LinkDown => Quiet
  BY <1>2 DEF LinkDown
<1>7. LinkUp => Quiet
  BY <1>2 DEF LinkUp
<1>8. Tick => Quiet
  BY <1>2 DEF Tick
<1>9. disconnected => Quiet
  BY <1>2 DEF disconnected
<1>10. reconnected => Quiet
  BY <1>2 DEF reconnected, HeedReconnect, Threads
<1>11. ASSUME NEW t \in Timers, WindowFires(t) PROVE Quiet
  BY <1>2, <1>11 DEF WindowFires, TimerStarts, Threads
<1>12. ASSUME NEW t \in Timers, LooseWindowFires(t) PROVE Quiet
  BY <1>2, <1>12 DEF LooseWindowFires, TimerStarts, Threads
<1>13. ASSUME NEW t \in Timers, TryFires(t) PROVE Quiet
  BY <1>2, <1>13 DEF TryFires, TimerStarts, Threads
<1>14. ASSUME NEW t \in Timers, LooseTryFires(t) PROVE Quiet
  BY <1>2, <1>14 DEF LooseTryFires, TimerStarts, Threads
<1>15. ASSUME NEW t \in Threads, BacklogBegins(t) PROVE Quiet
  BY <1>2, <1>15 DEF BacklogBegins
<1>16. ASSUME NEW t \in Threads, BacklogAsks(t) PROVE Quiet
  BY <1>2, <1>16 DEF BacklogAsks
<1>17. ASSUME NEW t \in Threads, BacklogSets(t) PROVE Quiet
  BY <1>2, <1>17 DEF BacklogSets
<1>18. ASSUME NEW t \in Threads, fire(t) PROVE Quiet
  BY <1>2, <1>18 DEF fire
<1>19. ASSUME NEW t \in Threads, counted(t) PROVE Quiet
  BY <1>2, <1>19 DEF counted
<1>20. ASSUME NEW t \in Threads, GaveUp(t) PROVE Quiet
  BY <1>2, <1>20 DEF GaveUp
<1>21. ASSUME NEW t \in Threads, again(t) PROVE Quiet
  BY <1>2, <1>21 DEF again
<1>22. ASSUME NEW t \in Threads, AgainAsks(t) PROVE Quiet
  BY <1>2, <1>22 DEF AgainAsks
<1>23. ASSUME NEW t \in Threads, Emptied(t) PROVE Quiet
  BY <1>2, <1>23 DEF Emptied
<1>24. ASSUME NEW t \in Threads, endStreak(t) PROVE Quiet
  BY <1>2, <1>24 DEF endStreak
<1>25. ASSUME NEW t \in Threads, NameAgain(t) PROVE Quiet
  BY <1>2, <1>25 DEF NameAgain
<1>26. stop => Quiet
  BY <1>2 DEF stop, Threads
<1>27. Unwatch => Quiet
  BY <1>2 DEF Unwatch, Threads
<1>28. UNCHANGED vars => Quiet
  BY <1>2 DEF vars
<1> HIDE DEF Quiet
<1>29. QED
  BY <1>1, <1>3, <1>4, <1>5, <1>6, <1>7, <1>8, <1>9, <1>10, <1>11, <1>12, <1>13,
     <1>14, <1>15, <1>16, <1>17, <1>18, <1>19, <1>20, <1>21, <1>22, <1>23,
     <1>24, <1>25, <1>26, <1>27, <1>28,
     RingKeeps, NotifyKeeps, RefundKeeps DEF Next, Step, TimerFires

\* The bell starts with nothing rung and nothing charged.
LEMMA BreakerInit == Init => BreakerInv
<1> SUFFICES ASSUME Init PROVE BreakerInv
  OBVIOUS
<1>1. \A t \in Threads : pc[t] \notin Paying
  BY DEF Init, Paying
<1>2. (\A m : PaysMinute(m) = {}) /\ (\A h : PaysHour(h) = {})
  BY <1>1 DEF PaysMinute, PaysHour
<1>3. (\A m \in Minutes : MinuteDue(m) = 0) /\ (\A h \in Hours : HourDue(h) = 0)
  <2>1. /\ \A m : Cardinality(PaysMinute(m)) = 0
        /\ \A h : Cardinality(PaysHour(h)) = 0
    BY <1>2, FS_EmptySet
  <2>2. /\ \A m \in Minutes : rungMinute[m] = 0
        /\ \A h \in Hours : rungHour[h] = 0
    BY DEF Init
  <2>3. QED
    BY <2>1, <2>2 DEF MinuteDue, HourDue
<1>4. 0 \in Minutes /\ Hour(0) \in Hours
  BY BellAssumption, HourType DEF Minutes
<1>5. QED
  BY <1>3, <1>4, BellAssumption DEF Init, BreakerInv, MinuteInv, HourInv

\* No calendar minute and no calendar hour pays for more rings than its cap
\* (ring, roll and giveBack), however many rings are under way at once.
THEOREM BreakerHolds == Spec => []BreakerCap
<1>1. TypeOK /\ BreakerInv => BreakerCap
  <2> SUFFICES ASSUME TypeOK, BreakerInv PROVE BreakerCap
    OBVIOUS
  <2>1. /\ \A m \in Minutes : Cardinality(PaysMinute(m)) \in Nat /\ rungMinute[m] \in Nat
        /\ \A h \in Hours : Cardinality(PaysHour(h)) \in Nat /\ rungHour[h] \in Nat
    BY DueType, FS_CardinalityType DEF TypeOK, BreakerType
  <2>2. QED
    BY <2>1, BellAssumption
    DEF BreakerInv, MinuteInv, HourInv, MinuteDue, HourDue, BreakerCap
<1>2. QED
  BY <1>1, BreakerInit, BreakerStep, TypeCorrect, PTL DEF Spec

-----------------------------------------------------------------------------
(* The launched process and the server: no signal strands a seat, for any  *)
(* number of signals and faults.                                           *)
(*                                                                         *)
(* NothingStranded speaks of a server that is over.  What leads there is a *)
(* chain: before it registers it has no row, between the registration and  *)
(* the goodbye no signal ends it, and its goodbye keeps the row only with  *)
(* the failure noted.                                                      *)

Alive == child # "over"

EInv ==
    /\ parent = "fresh" => child = "none"
    /\ child \in {"none", "boot", "deps", "register"} => ~row
    /\ Alive => ending = None
    /\ child = "release" /\ row => "leave" \in wrong
    /\ ending = "0" /\ row => "leave" \in wrong
    /\ NothingStranded

LEMMA EntryTypeInit == EntryInit => EntryTypeOK
<1> SUFFICES ASSUME EntryInit PROVE EntryTypeOK
  OBVIOUS
<1>1. pipe \in BOOLEAN /\ row \in BOOLEAN
  BY Zenon DEF EntryInit
<1>2. inbox \subseteq {"parent", "child"} /\ wrong \subseteq {"killed", "register", "leave"}
  BY DEF EntryInit
<1>3. signals \in 0 .. MaxSignals /\ faults \in 0 .. MaxFaults
  BY EntryAssumption DEF EntryInit
<1>4. QED
  BY <1>1, <1>2, <1>3 DEF EntryInit, EntryTypeOK

LEMMA EntryTypeStep == EntryTypeOK /\ [EntryNext]_entryVars => EntryTypeOK'
<1> SUFFICES ASSUME EntryTypeOK, [EntryNext]_entryVars PROVE EntryTypeOK'
  OBVIOUS
<1> USE EntryAssumption DEF EntryTypeOK
<1>1. ASSUME LetsGo PROVE EntryTypeOK'
  BY <1>1 DEF LetsGo
<1>2. ASSUME KillsParent PROVE EntryTypeOK'
  BY <1>2 DEF KillsParent, Fault
<1>3. ASSUME KillsChild PROVE EntryTypeOK'
  BY <1>3 DEF KillsChild, Fault, Ended
<1>4. ASSUME NEW group \in BOOLEAN, Signals(group) PROVE EntryTypeOK'
  <2>1. inbox' \subseteq {"parent", "child"}
    BY <1>4 DEF Signals
  <2>2. /\ parent' \in {parent, "killed"}
        /\ \/ child' = child /\ ending' = ending
           \/ child' = "over" /\ ending' = "signal"
        /\ signals < MaxSignals /\ signals' = signals + 1
        /\ UNCHANGED <<pipe, status, row, wrong, faults>>
    BY <1>4 DEF Signals, Ended
  <2>3. QED
    BY <2>1, <2>2
<1>5. ASSUME selfCommand PROVE EntryTypeOK'
  BY <1>5 DEF selfCommand, Fault
<1>6. ASSUME Notifies PROVE EntryTypeOK'
  BY <1>6 DEF Notifies
<1>7. ASSUME Forwards PROVE EntryTypeOK'
  BY <1>7 DEF Forwards, Reaches, Ended
<1>8. ASSUME mcpParent PROVE EntryTypeOK'
  <2>1. parent' = "exited" /\ status' = childStatus(ending) /\ inbox' = inbox \ {"parent"}
    BY <1>8 DEF mcpParent
  <2>2. status' \in {None, "0", "1"}
    BY <2>1 DEF childStatus
  <2>3. QED
    BY <1>8, <2>1, <2>2 DEF mcpParent
<1>9. ASSUME mcpServe PROVE EntryTypeOK'
  BY <1>9 DEF mcpServe
<1>10. ASSUME mcpDeps PROVE EntryTypeOK'
  BY <1>10 DEF mcpDeps, Ended
<1>11. ASSUME register PROVE EntryTypeOK'
  <2>1. row' \in BOOLEAN
    BY <1>11, Zenon DEF register
  <2>2. /\ child' \in {"ringing", "over"} /\ ending' \in {ending, "1"} /\ inbox' \subseteq inbox
        /\ wrong' \subseteq wrong \cup {"register"} /\ faults' \in 0 .. MaxFaults
        /\ UNCHANGED <<pipe, parent, status, signals>>
    BY <1>11 DEF register, Ended, Fault
  <2>3. QED
    BY <2>1, <2>2
<1>12. ASSUME wait PROVE EntryTypeOK'
  BY <1>12 DEF wait
<1>13. ASSUME depart PROVE EntryTypeOK'
  <2>1. row' \in BOOLEAN
    BY <1>13, Zenon DEF depart
  <2>2. /\ child' = "release" /\ wrong' \subseteq wrong \cup {"leave"} /\ faults' \in 0 .. MaxFaults
        /\ UNCHANGED <<pipe, parent, inbox, ending, status, signals>>
    BY <1>13 DEF depart, Fault
  <2>3. QED
    BY <2>1, <2>2
<1>14. ASSUME releasePIDFile PROVE EntryTypeOK'
  BY <1>14 DEF releasePIDFile, Ended
<1>15. ASSUME startBell PROVE EntryTypeOK'
  BY <1>15 DEF startBell
<1>16. CASE UNCHANGED entryVars
  BY <1>16 DEF entryVars
<1>17. QED
  BY <1>1, <1>2, <1>3, <1>4, <1>5, <1>6, <1>7, <1>8, <1>9, <1>10, <1>11, <1>12, <1>13, <1>14, <1>15,
     <1>16 DEF EntryNext, Launched, Server

\* The processes, the channels and the codes keep their types, for any number of
\* signals and faults.
THEOREM EntryTypeCorrect == EntrySpec => []EntryTypeOK
  BY EntryTypeInit, EntryTypeStep, PTL DEF EntrySpec

LEMMA EntryStep == EntryTypeOK /\ EInv /\ [EntryNext]_entryVars => EInv'
<1> SUFFICES ASSUME EntryTypeOK, EInv, [EntryNext]_entryVars PROVE EInv'
  OBVIOUS
<1> USE EntryAssumption DEF EInv, NothingStranded, Alive
<1>1. ASSUME LetsGo PROVE EInv'
  BY <1>1 DEF LetsGo
<1>2. ASSUME KillsParent PROVE EInv'
  BY <1>2 DEF KillsParent, Fault
<1>3. ASSUME KillsChild PROVE EInv'
  BY <1>3 DEF KillsChild, Fault, Ended, EntryTypeOK
<1>4. ASSUME NEW group \in BOOLEAN, Signals(group) PROVE EInv'
  \* A signal ends only a server that has not registered.
  <2>1. /\ parent' \in {parent, "killed"}
        /\ \/ child' = child /\ ending' = ending
           \/ child \in {"fresh", "started", "boot"} /\ child' = "over" /\ ending' = "signal"
        /\ UNCHANGED <<status, row, wrong>>
    BY <1>4 DEF Signals, Ended, Bare
  <2>2. QED
    BY <2>1 DEF EntryTypeOK
<1>5. ASSUME selfCommand PROVE EInv'
  BY <1>5 DEF selfCommand, Fault
<1>6. ASSUME Notifies PROVE EInv'
  BY <1>6 DEF Notifies
<1>7. ASSUME Forwards PROVE EInv'
  BY <1>7 DEF Forwards, Reaches, Ended, Bare, EntryTypeOK
<1>8. ASSUME mcpParent PROVE EInv'
  BY <1>8 DEF mcpParent, childStatus
<1>9. ASSUME mcpServe PROVE EInv'
  BY <1>9 DEF mcpServe
<1>10. ASSUME mcpDeps PROVE EInv'
  BY <1>10 DEF mcpDeps, Ended
<1>11. ASSUME register PROVE EInv'
  BY <1>11 DEF register, Ended, Fault
<1>12. ASSUME wait PROVE EInv'
  BY <1>12 DEF wait
<1>13. ASSUME depart PROVE EInv'
  BY <1>13 DEF depart, Fault
<1>14. ASSUME releasePIDFile PROVE EInv'
  BY <1>14 DEF releasePIDFile, Ended
<1>15. ASSUME startBell PROVE EInv'
  BY <1>15 DEF startBell
<1>16. CASE UNCHANGED entryVars
  BY <1>16 DEF entryVars
<1>17. QED
  BY <1>1, <1>2, <1>3, <1>4, <1>5, <1>6, <1>7, <1>8, <1>9, <1>10, <1>11, <1>12, <1>13, <1>14, <1>15,
     <1>16 DEF EntryNext, Launched, Server

\* However many signals come, and to whom, a server that is over has left its row
\* behind only by a kill, a failed registration or a failed goodbye.
THEOREM SignalsStrandNothing == EntrySpec => []NothingStranded
<1>1. EntryInit => EInv
  BY EntryAssumption DEF EntryInit, EInv, NothingStranded, Alive
<1>2. EInv => NothingStranded
  BY DEF EInv
<1>3. QED
  BY <1>1, <1>2, EntryTypeInit, EntryTypeStep, EntryStep, PTL DEF EntrySpec
=============================================================================
