---------------------------- MODULE HermesProofs ----------------------------
(* What holds of the Hermes adapter for any mail, bells, calls and faults.  *)
EXTENDS Hermes, TLAPS

(***************************************************************************)
(* The invariant.  A read that has a message in its hand has printed it to *)
(* this drain, a drain that reaps has no read left and one that spawns a   *)
(* read has no lines yet, what is passed on was never declined and is      *)
(* passed on in one place, what counts as seen went somewhere, and a close *)
(* that has stopped waiting left nothing but late drains.                  *)
(***************************************************************************)
PrintedToUs == hand # None => child = "run" /\ hand \in pipe \cup lines
Reaped == task = "reap" => child = "none"
NothingYet == task = "exec" => lines = {}
OnePlace == todo \cap Declined = {} /\ (task # "pass" => todo = {})
SeenWent == seen \subseteq passed \cup named \cup {current}
StoppedOrLate == gate = "gather" => task = "none" \/ cancelled \/ late
CancelledRuns == cancelled => task # "spawned"

Reading == PrintedToUs /\ Reaped /\ NothingYet /\ TakenIsFound
Passing == OnePlace /\ SeenWent /\ PassedOrNamed
Closing == StoppedOrLate /\ CancelledRuns /\ ClosedIsQuiet

IInv == TypeOK /\ Reading /\ Passing /\ Closing

-----------------------------------------------------------------------------
(* The types.  What is passed on next was never declined, because nothing that *)
(* waits behind it was.                                                        *)
LEMMA MailTyped ==
  ASSUME IInv, [Next]_vars PROVE MailType'
<1> USE HermesAssumption DEF IInv, TypeOK, MailType, TaskType, Passing, OnePlace, Reading,
      PrintedToUs, reading, mail, drain, link
<1>1. ASSUME NEW m \in Msgs, Prints(m) PROVE MailType'
  BY <1>1 DEF Prints
<1>2. CASE Acks
  BY <1>2 DEF Acks
<1>3. CASE Exits
  BY <1>3 DEF Exits
<1>4. CASE requestDrain
  BY <1>4 DEF requestDrain
<1>5. CASE drainLoop
  BY <1>5 DEF drainLoop, DrainAt, Begins, Elsewhere
<1>6. CASE Spawns
  BY <1>6 DEF Spawns, DrainAt, Stops, Fault, Elsewhere
<1>7. CASE Spawned
  BY <1>7 DEF Spawned, DrainAt, Elsewhere
<1>8. ASSUME NEW m \in Msgs, collect(m) PROVE MailType'
  BY <1>8 DEF collect, DrainAt, Elsewhere
<1>9. CASE TimesOut
  BY <1>9 DEF TimesOut, DrainAt, KillsRead, Elsewhere
<1>10. CASE drainOnce
  BY <1>10 DEF drainOnce, DrainAt, writeInboxLog, Fault, PassesOn, LoopEnds, Begins, Stops,
     Elsewhere
<1>11. CASE onMessage
  BY <1>11 DEF onMessage, DrainAt, Fault, PassesOn, LoopEnds, Begins, Stops, Elsewhere
<1>12. CASE drainStopped
  BY <1>12 DEF drainStopped, Stops, notPassedOn, KillsRead, writtenAtStop, writeInboxLog, Fault
<1>13. CASE connect
  BY <1>13 DEF connect, Call, Close, Goto, Still
<1>14. CASE disconnect
  BY <1>14 DEF disconnect, Call, Close, Goto, Still
<1>15. CASE cancelTasks
  BY <1>15 DEF cancelTasks, Goto, Still
<1>16. CASE closeListener
  BY <1>16 DEF closeListener, tasksEnded, Goto, Still
<1>17. CASE openBellListener
  BY <1>17 DEF openBellListener, Goto, Close, Fault, Still
<1>18. CASE takeSeat
  BY <1>18 DEF takeSeat, Goto, Close, Fault, Still
<1>19. CASE waitRegistered
  BY <1>19 DEF waitRegistered, Goto, Close, Still
<1>20. CASE markConnected
  BY <1>20 DEF markConnected, Goto, Still
<1>21. CASE SetsHandler
  BY <1>21 DEF SetsHandler
<1>22. CASE Registers
  BY <1>22 DEF Registers, Still
<1>23. CASE followSeat
  BY <1>23 DEF followSeat, Fault, Still
<1>24. CASE UNCHANGED vars
  BY <1>24 DEF vars
<1> QED
  BY <1>1, <1>2, <1>3, <1>4, <1>5, <1>6, <1>7, <1>8, <1>9, <1>10, <1>11, <1>12, <1>13, <1>14,
     <1>15, <1>16, <1>17, <1>18, <1>19, <1>20, <1>21, <1>22, <1>23, <1>24 DEF Next, Drain, Gateway

-----------------------------------------------------------------------------
(* A drain that is nowhere has no read and no lines. *)
LEMMA TaskTyped ==
  ASSUME IInv, [Next]_vars PROVE TaskType'
<1> USE HermesAssumption DEF IInv, TypeOK, TaskType, Reading, Reaped, NothingYet, Closing,
      CancelledRuns, reading, mail, drain, link
<1>1. ASSUME NEW m \in Msgs, Prints(m) PROVE TaskType'
  BY <1>1 DEF Prints
<1>2. CASE Acks
  BY <1>2 DEF Acks
<1>3. CASE Exits
  BY <1>3 DEF Exits
<1>4. CASE requestDrain
  BY <1>4 DEF requestDrain
<1>5. CASE drainLoop
  BY <1>5 DEF drainLoop, DrainAt, Begins, Elsewhere
<1>6. CASE Spawns
  <2>1. /\ task = "exec" /\ ~cancelled /\ child = "none" /\ lines = {}
        /\ lines' = lines /\ cancelled' = cancelled
    BY <1>6 DEF Spawns, DrainAt, Elsewhere
  <2>2. CASE child' = "run" /\ task' = task /\ draining' = draining
    BY <2>1, <2>2
  <2>3. CASE Stops /\ child' = child
    BY <2>1, <2>3 DEF Stops
  <2> QED
    BY <1>6, <2>2, <2>3 DEF Spawns
<1>7. CASE Spawned
  BY <1>7 DEF Spawned, DrainAt, Elsewhere
<1>8. ASSUME NEW m \in Msgs, collect(m) PROVE TaskType'
  BY <1>8 DEF collect, DrainAt, Elsewhere
<1>9. CASE TimesOut
  BY <1>9 DEF TimesOut, DrainAt, KillsRead, Elsewhere
<1>10. CASE drainOnce
  BY <1>10 DEF drainOnce, DrainAt, writeInboxLog, Fault, PassesOn, LoopEnds, Begins, Stops,
     Elsewhere
<1>11. CASE onMessage
  BY <1>11 DEF onMessage, DrainAt, Fault, PassesOn, LoopEnds, Begins, Stops, Elsewhere
<1>12. CASE drainStopped
  BY <1>12 DEF drainStopped, Stops, notPassedOn, KillsRead, writtenAtStop, writeInboxLog, Fault
<1>13. CASE connect
  BY <1>13 DEF connect, Call, Close, Goto, Still
<1>14. CASE disconnect
  BY <1>14 DEF disconnect, Call, Close, Goto, Still
<1>15. CASE cancelTasks
  BY <1>15 DEF cancelTasks, Goto, Still
<1>16. CASE closeListener
  BY <1>16 DEF closeListener, tasksEnded, Goto, Still
<1>17. CASE openBellListener
  BY <1>17 DEF openBellListener, Goto, Close, Fault, Still
<1>18. CASE takeSeat
  BY <1>18 DEF takeSeat, Goto, Close, Fault, Still
<1>19. CASE waitRegistered
  BY <1>19 DEF waitRegistered, Goto, Close, Still
<1>20. CASE markConnected
  BY <1>20 DEF markConnected, Goto, Still
<1>21. CASE SetsHandler
  BY <1>21 DEF SetsHandler
<1>22. CASE Registers
  BY <1>22 DEF Registers, Still
<1>23. CASE followSeat
  BY <1>23 DEF followSeat, Fault, Still
<1>24. CASE UNCHANGED vars
  BY <1>24 DEF vars
<1> QED
  BY <1>1, <1>2, <1>3, <1>4, <1>5, <1>6, <1>7, <1>8, <1>9, <1>10, <1>11, <1>12, <1>13, <1>14,
     <1>15, <1>16, <1>17, <1>18, <1>19, <1>20, <1>21, <1>22, <1>23, <1>24 DEF Next, Drain, Gateway

-----------------------------------------------------------------------------
(* The flags. *)
LEMMA FlagTyped ==
  ASSUME IInv, [Next]_vars PROVE FlagType'
<1> USE HermesAssumption DEF IInv, TypeOK, FlagType, reading, mail, drain, link
<1>1. ASSUME NEW m \in Msgs, Prints(m) PROVE FlagType'
  BY <1>1 DEF Prints
<1>2. CASE Acks
  BY <1>2 DEF Acks
<1>3. CASE Exits
  BY <1>3 DEF Exits
<1>4. CASE requestDrain
  BY <1>4 DEF requestDrain
<1>5. CASE drainLoop
  BY <1>5 DEF drainLoop, DrainAt, Begins, Elsewhere
<1>6. CASE Spawns
  BY <1>6 DEF Spawns, DrainAt, Stops, Fault, Elsewhere
<1>7. CASE Spawned
  BY <1>7 DEF Spawned, DrainAt, Elsewhere
<1>8. ASSUME NEW m \in Msgs, collect(m) PROVE FlagType'
  BY <1>8 DEF collect, DrainAt, Elsewhere
<1>9. CASE TimesOut
  BY <1>9 DEF TimesOut, DrainAt, KillsRead, Elsewhere
<1>10. CASE drainOnce
  BY <1>10 DEF drainOnce, DrainAt, writeInboxLog, Fault, PassesOn, LoopEnds, Begins, Stops,
     Elsewhere
<1>11. CASE onMessage
  BY <1>11 DEF onMessage, DrainAt, Fault, PassesOn, LoopEnds, Begins, Stops, Elsewhere
<1>12. CASE drainStopped
  BY <1>12 DEF drainStopped, Stops, notPassedOn, KillsRead, writtenAtStop, writeInboxLog, Fault
<1>13. CASE connect
  BY <1>13 DEF connect, Call, Close, Goto, Still
<1>14. CASE disconnect
  BY <1>14 DEF disconnect, Call, Close, Goto, Still
<1>15. CASE cancelTasks
  BY <1>15 DEF cancelTasks, Goto, Still
<1>16. CASE closeListener
  BY <1>16 DEF closeListener, tasksEnded, Goto, Still
<1>17. CASE openBellListener
  BY <1>17 DEF openBellListener, Goto, Close, Fault, Still
<1>18. CASE takeSeat
  BY <1>18 DEF takeSeat, Goto, Close, Fault, Still
<1>19. CASE waitRegistered
  BY <1>19 DEF waitRegistered, Goto, Close, Still
<1>20. CASE markConnected
  BY <1>20 DEF markConnected, Goto, Still
<1>21. CASE SetsHandler
  BY <1>21 DEF SetsHandler
<1>22. CASE Registers
  BY <1>22 DEF Registers, Still
<1>23. CASE followSeat
  BY <1>23 DEF followSeat, Fault, Still
<1>24. CASE UNCHANGED vars
  BY <1>24 DEF vars
<1> QED
  BY <1>1, <1>2, <1>3, <1>4, <1>5, <1>6, <1>7, <1>8, <1>9, <1>10, <1>11, <1>12, <1>13, <1>14,
     <1>15, <1>16, <1>17, <1>18, <1>19, <1>20, <1>21, <1>22, <1>23, <1>24 DEF Next, Drain, Gateway

-----------------------------------------------------------------------------
(* The gateway's call and the server. *)
LEMMA LinkTyped ==
  ASSUME IInv, [Next]_vars PROVE LinkType'
<1> USE HermesAssumption DEF IInv, TypeOK, LinkType, reading, mail, drain, link
<1>1. ASSUME NEW m \in Msgs, Prints(m) PROVE LinkType'
  BY <1>1 DEF Prints
<1>2. CASE Acks
  BY <1>2 DEF Acks
<1>3. CASE Exits
  BY <1>3 DEF Exits
<1>4. CASE requestDrain
  BY <1>4 DEF requestDrain
<1>5. CASE drainLoop
  BY <1>5 DEF drainLoop, DrainAt, Begins, Elsewhere
<1>6. CASE Spawns
  BY <1>6 DEF Spawns, DrainAt, Stops, Fault, Elsewhere
<1>7. CASE Spawned
  BY <1>7 DEF Spawned, DrainAt, Elsewhere
<1>8. ASSUME NEW m \in Msgs, collect(m) PROVE LinkType'
  BY <1>8 DEF collect, DrainAt, Elsewhere
<1>9. CASE TimesOut
  BY <1>9 DEF TimesOut, DrainAt, KillsRead, Elsewhere
<1>10. CASE drainOnce
  BY <1>10 DEF drainOnce, DrainAt, writeInboxLog, Fault, PassesOn, LoopEnds, Begins, Stops,
     Elsewhere
<1>11. CASE onMessage
  BY <1>11 DEF onMessage, DrainAt, Fault, PassesOn, LoopEnds, Begins, Stops, Elsewhere
<1>12. CASE drainStopped
  BY <1>12 DEF drainStopped, Stops, notPassedOn, KillsRead, writtenAtStop, writeInboxLog, Fault
<1>13. CASE connect
  BY <1>13 DEF connect, Call, Close, Goto, Still
<1>14. CASE disconnect
  BY <1>14 DEF disconnect, Call, Close, Goto, Still
<1>15. CASE cancelTasks
  BY <1>15 DEF cancelTasks, Goto, Still
<1>16. CASE closeListener
  BY <1>16 DEF closeListener, tasksEnded, Goto, Still
<1>17. CASE openBellListener
  BY <1>17 DEF openBellListener, Goto, Close, Fault, Still
<1>18. CASE takeSeat
  BY <1>18 DEF takeSeat, Goto, Close, Fault, Still
<1>19. CASE waitRegistered
  BY <1>19 DEF waitRegistered, Goto, Close, Still
<1>20. CASE markConnected
  BY <1>20 DEF markConnected, Goto, Still
<1>21. CASE SetsHandler
  BY <1>21 DEF SetsHandler
<1>22. CASE Registers
  BY <1>22 DEF Registers, Still
<1>23. CASE followSeat
  BY <1>23 DEF followSeat, Fault, Still
<1>24. CASE UNCHANGED vars
  BY <1>24 DEF vars
<1> QED
  BY <1>1, <1>2, <1>3, <1>4, <1>5, <1>6, <1>7, <1>8, <1>9, <1>10, <1>11, <1>12, <1>13, <1>14,
     <1>15, <1>16, <1>17, <1>18, <1>19, <1>20, <1>21, <1>22, <1>23, <1>24 DEF Next, Drain, Gateway

-----------------------------------------------------------------------------
(* What left the queue was in the hand of a read that had printed it to us. *)
LEMMA ReadingKept ==
  ASSUME IInv, [Next]_vars PROVE Reading'
<1> USE HermesAssumption DEF IInv, TypeOK, Reading, TaskType, PrintedToUs, Reaped, NothingYet,
      TakenIsFound, reading, mail, drain, link
<1>1. ASSUME NEW m \in Msgs, Prints(m) PROVE Reading'
  BY <1>1 DEF Prints
<1>2. CASE Acks
  BY <1>2 DEF Acks
<1>3. CASE Exits
  BY <1>3 DEF Exits
<1>4. CASE requestDrain
  BY <1>4 DEF requestDrain
<1>5. CASE drainLoop
  BY <1>5 DEF drainLoop, DrainAt, Begins, Elsewhere
<1>6. CASE Spawns
  BY <1>6 DEF Spawns, DrainAt, Stops, Fault, Elsewhere
<1>7. CASE Spawned
  BY <1>7 DEF Spawned, DrainAt, Elsewhere
<1>8. ASSUME NEW m \in Msgs, collect(m) PROVE Reading'
  BY <1>8 DEF collect, DrainAt, Elsewhere
<1>9. CASE TimesOut
  BY <1>9 DEF TimesOut, DrainAt, KillsRead, Elsewhere
<1>10. CASE drainOnce
  BY <1>10 DEF drainOnce, DrainAt, writeInboxLog, Fault, PassesOn, LoopEnds, Begins, Stops,
     Elsewhere
<1>11. CASE onMessage
  BY <1>11 DEF onMessage, DrainAt, Fault, PassesOn, LoopEnds, Begins, Stops, Elsewhere
<1>12. CASE drainStopped
  BY <1>12 DEF drainStopped, Stops, notPassedOn, KillsRead, writtenAtStop, writeInboxLog, Fault
<1>13. CASE connect
  BY <1>13 DEF connect, Call, Close, Goto, Still
<1>14. CASE disconnect
  BY <1>14 DEF disconnect, Call, Close, Goto, Still
<1>15. CASE cancelTasks
  BY <1>15 DEF cancelTasks, Goto, Still
<1>16. CASE closeListener
  BY <1>16 DEF closeListener, tasksEnded, Goto, Still
<1>17. CASE openBellListener
  BY <1>17 DEF openBellListener, Goto, Close, Fault, Still
<1>18. CASE takeSeat
  BY <1>18 DEF takeSeat, Goto, Close, Fault, Still
<1>19. CASE waitRegistered
  BY <1>19 DEF waitRegistered, Goto, Close, Still
<1>20. CASE markConnected
  BY <1>20 DEF markConnected, Goto, Still
<1>21. CASE SetsHandler
  BY <1>21 DEF SetsHandler
<1>22. CASE Registers
  BY <1>22 DEF Registers, Still
<1>23. CASE followSeat
  BY <1>23 DEF followSeat, Fault, Still
<1>24. CASE UNCHANGED vars
  BY <1>24 DEF vars
<1> QED
  BY <1>1, <1>2, <1>3, <1>4, <1>5, <1>6, <1>7, <1>8, <1>9, <1>10, <1>11, <1>12, <1>13, <1>14,
     <1>15, <1>16, <1>17, <1>18, <1>19, <1>20, <1>21, <1>22, <1>23, <1>24 DEF Next, Drain, Gateway

-----------------------------------------------------------------------------
(* What a drain skips counts as seen, and what counts as seen went somewhere. *)
LEMMA PassingKept ==
  ASSUME IInv, [Next]_vars PROVE Passing'
<1> USE HermesAssumption DEF IInv, TypeOK, Passing, MailType, TaskType, OnePlace, SeenWent,
      PassedOrNamed, reading, mail, drain, link
<1>1. ASSUME NEW m \in Msgs, Prints(m) PROVE Passing'
  BY <1>1 DEF Prints
<1>2. CASE Acks
  BY <1>2 DEF Acks
<1>3. CASE Exits
  BY <1>3 DEF Exits
<1>4. CASE requestDrain
  BY <1>4 DEF requestDrain
<1>5. CASE drainLoop
  BY <1>5 DEF drainLoop, DrainAt, Begins, Elsewhere
<1>6. CASE Spawns
  BY <1>6 DEF Spawns, DrainAt, Stops, Fault, Elsewhere
<1>7. CASE Spawned
  BY <1>7 DEF Spawned, DrainAt, Elsewhere
<1>8. ASSUME NEW m \in Msgs, collect(m) PROVE Passing'
  BY <1>8 DEF collect, DrainAt, Elsewhere
<1>9. CASE TimesOut
  BY <1>9 DEF TimesOut, DrainAt, KillsRead, Elsewhere
<1>10. CASE drainOnce
  BY <1>10 DEF drainOnce, DrainAt, writeInboxLog, Fault, PassesOn, LoopEnds, Begins, Stops,
     Elsewhere
<1>11. CASE onMessage
  BY <1>11 DEF onMessage, DrainAt, Fault, PassesOn, LoopEnds, Begins, Stops, Elsewhere
<1>12. CASE drainStopped
  BY <1>12 DEF drainStopped, Stops, notPassedOn, KillsRead, writtenAtStop, writeInboxLog, Fault
<1>13. CASE connect
  BY <1>13 DEF connect, Call, Close, Goto, Still
<1>14. CASE disconnect
  BY <1>14 DEF disconnect, Call, Close, Goto, Still
<1>15. CASE cancelTasks
  BY <1>15 DEF cancelTasks, Goto, Still
<1>16. CASE closeListener
  BY <1>16 DEF closeListener, tasksEnded, Goto, Still
<1>17. CASE openBellListener
  BY <1>17 DEF openBellListener, Goto, Close, Fault, Still
<1>18. CASE takeSeat
  BY <1>18 DEF takeSeat, Goto, Close, Fault, Still
<1>19. CASE waitRegistered
  BY <1>19 DEF waitRegistered, Goto, Close, Still
<1>20. CASE markConnected
  BY <1>20 DEF markConnected, Goto, Still
<1>21. CASE SetsHandler
  BY <1>21 DEF SetsHandler
<1>22. CASE Registers
  BY <1>22 DEF Registers, Still
<1>23. CASE followSeat
  BY <1>23 DEF followSeat, Fault, Still
<1>24. CASE UNCHANGED vars
  BY <1>24 DEF vars
<1> QED
  BY <1>1, <1>2, <1>3, <1>4, <1>5, <1>6, <1>7, <1>8, <1>9, <1>10, <1>11, <1>12, <1>13, <1>14,
     <1>15, <1>16, <1>17, <1>18, <1>19, <1>20, <1>21, <1>22, <1>23, <1>24 DEF Next, Drain, Gateway

-----------------------------------------------------------------------------
(* A close waits for every task it has cancelled. *)
LEMMA ClosingKept ==
  ASSUME IInv, [Next]_vars PROVE Closing'
<1> USE HermesAssumption DEF IInv, TypeOK, Closing, TaskType, StoppedOrLate, CancelledRuns,
      ClosedIsQuiet, reading, mail, drain, link
<1>1. ASSUME NEW m \in Msgs, Prints(m) PROVE Closing'
  BY <1>1 DEF Prints
<1>2. CASE Acks
  BY <1>2 DEF Acks
<1>3. CASE Exits
  BY <1>3 DEF Exits
<1>4. CASE requestDrain
  BY <1>4 DEF requestDrain
<1>5. CASE drainLoop
  BY <1>5 DEF drainLoop, DrainAt, Begins, Elsewhere
<1>6. CASE Spawns
  BY <1>6 DEF Spawns, DrainAt, Stops, Fault, Elsewhere
<1>7. CASE Spawned
  BY <1>7 DEF Spawned, DrainAt, Elsewhere
<1>8. ASSUME NEW m \in Msgs, collect(m) PROVE Closing'
  BY <1>8 DEF collect, DrainAt, Elsewhere
<1>9. CASE TimesOut
  BY <1>9 DEF TimesOut, DrainAt, KillsRead, Elsewhere
<1>10. CASE drainOnce
  BY <1>10 DEF drainOnce, DrainAt, writeInboxLog, Fault, PassesOn, LoopEnds, Begins, Stops,
     Elsewhere
<1>11. CASE onMessage
  BY <1>11 DEF onMessage, DrainAt, Fault, PassesOn, LoopEnds, Begins, Stops, Elsewhere
<1>12. CASE drainStopped
  BY <1>12 DEF drainStopped, Stops, notPassedOn, KillsRead, writtenAtStop, writeInboxLog, Fault
<1>13. CASE connect
  BY <1>13 DEF connect, Call, Close, Goto, Still
<1>14. CASE disconnect
  BY <1>14 DEF disconnect, Call, Close, Goto, Still
<1>15. CASE cancelTasks
  BY <1>15 DEF cancelTasks, Goto, Still
<1>16. CASE closeListener
  BY <1>16 DEF closeListener, tasksEnded, Goto, Still
<1>17. CASE openBellListener
  BY <1>17 DEF openBellListener, Goto, Close, Fault, Still
<1>18. CASE takeSeat
  BY <1>18 DEF takeSeat, Goto, Close, Fault, Still
<1>19. CASE waitRegistered
  BY <1>19 DEF waitRegistered, Goto, Close, Still
<1>20. CASE markConnected
  BY <1>20 DEF markConnected, Goto, Still
<1>21. CASE SetsHandler
  BY <1>21 DEF SetsHandler
<1>22. CASE Registers
  BY <1>22 DEF Registers, Still
<1>23. CASE followSeat
  BY <1>23 DEF followSeat, Fault, Still
<1>24. CASE UNCHANGED vars
  BY <1>24 DEF vars
<1> QED
  BY <1>1, <1>2, <1>3, <1>4, <1>5, <1>6, <1>7, <1>8, <1>9, <1>10, <1>11, <1>12, <1>13, <1>14,
     <1>15, <1>16, <1>17, <1>18, <1>19, <1>20, <1>21, <1>22, <1>23, <1>24 DEF Next, Drain, Gateway

-----------------------------------------------------------------------------
LEMMA InitHolds == Init => IInv
  BY HermesAssumption DEF Init, IInv, TypeOK, MailType, TaskType, FlagType,
     LinkType, Reading, PrintedToUs, Reaped, NothingYet, TakenIsFound,
     Passing, OnePlace, SeenWent, PassedOrNamed, Closing, StoppedOrLate, CancelledRuns, ClosedIsQuiet

LEMMA Inductive == Spec => []IInv
<1>1. IInv /\ [Next]_vars => IInv'
    BY MailTyped, TaskTyped, FlagTyped, LinkTyped, ReadingKept, PassingKept, ClosingKept DEF IInv,
     TypeOK
<1> QED
  BY InitHolds, <1>1, PTL DEF Spec

\* The adapter's flags, tasks and mail keep their types, for any mail, bells, calls
\* and faults (adapter.py, the fields of LocAdapter).
THEOREM TypeCorrect == Spec => []TypeOK
  BY Inductive, PTL DEF IInv

\* Mail taken from the queue is in the inbox log or with the drain that will write
\* it, but for a read that was given up and a write that failed (adapter.py:376-391).
THEOREM TakenIsNeverLost == Spec => []TakenIsFound
<1>1. IInv => TakenIsFound
  BY DEF IInv, Reading
<1> QED
  BY Inductive, <1>1, PTL

\* Mail that was read has gone to Hermes, is named as not passed on, or is still in
\* the drain's hands (adapter.py:396-413).
THEOREM NoneUnaccounted == Spec => []PassedOrNamed
<1>1. IInv => PassedOrNamed
  BY DEF IInv, Passing
<1> QED
  BY Inductive, <1>1, PTL

\* A close leaves no drain and no read behind, but for a drain that a bell began
\* while the close was waiting (adapter.py:312-326).
THEOREM CloseLeavesNone == Spec => []ClosedIsQuiet
<1>1. IInv => ClosedIsQuiet
  BY DEF IInv, Closing
<1> QED
  BY Inductive, <1>1, PTL
=============================================================================
