--------------------------- MODULE GoalWakeProofs ---------------------------
(***************************************************************************)
(* Safety of GoalWake for any number of callers, sprints and restarts.     *)
(***************************************************************************)
EXTENDS GoalWake, TLAPS

(* Which callers can be at which step.                                     *)
StepsByKind ==
  \A c \in Callers :
    /\ pc[c] \in {"discover", "startLock", "start", "startRun", "sprints",
                  "compact", "restart", "restartRun"} => c \in Pollers
    /\ pc[c] \in {"claim", "revert"} => c \in Claimants
    /\ pc[c] = "listed" => c \in Reconcilers

(* A caller that has picked a sprint still knows it.                       *)
Picked(c) ==
  \/ c \in Claimants /\ pc[c] \in {"claim", "lock", "wake", "run", "revert"}
  \/ c \in Reconcilers /\ pc[c] \in {"listed", "lock", "wake", "run"}

TargetsPicked == \A c \in Callers : Picked(c) => target[c] \in Sprints

(* The wake lock is held from its acquisition to the end of the run.       *)
LockHeld ==
  \A c \in Callers :
    pc[c] \in {"start", "startRun", "wake", "run"} => lock = c

(* Nothing runs in a process that is down.                                 *)
DownIdle ==
  ~up => ~booting /\ orphan = 0 /\ \A c \in Callers : pc[c] = "idle"

(* What makes the boot sweep safe without the lock: a goal still quiet when*)
(* the sweep reads has no owner in this process, and the owners that come  *)
(* later claim sprints above the orphaned one.                             *)
SweepSafe ==
  /\ booting => orphan = 0 /\ (quiet => \A c \in Callers : ~Owns(c))
  /\ orphan > rearmed => orphan <= lastWoken
  /\ orphan # 0 => \A c \in Callers : Owns(c) => orphan < target[c]

(* The sprints of reconciling callers are in the in-flight set.            *)
InFlightHeld ==
  \A c \in Callers : Reconciling(c) => target[c] \in inFlight

WakeInv ==
  /\ TypeOK /\ StepsByKind /\ TargetsPicked /\ LockHeld /\ DownIdle
  /\ SweepSafe /\ WakeOwned /\ InFlightHeld /\ ReconcileOnce

(* Bounds on the constants, as the provers need them.                      *)
LEMMA Bounds == MaxSprint \in Nat /\ MaxStarts \in Nat /\ MaxEdits \in Nat
BY GoalAssumption

(* The kinds of callers are disjoint.                                      *)
LEMMA Disjoint ==
  /\ Claimants \cap Reconcilers = {} /\ Claimants \cap Commenters = {}
  /\ Reconcilers \cap Commenters = {} /\ Pollers \cap Executors = {}
  /\ None \notin Callers
BY GoalAssumption DEF Claimants, Callers

(* The goal row, the tasks and the process stay well formed: a mark only   *)
(* moves to a sprint some caller picked, or just below it.                 *)
LEMMA GoalTyping ==
  ASSUME GoalTyped, CallsTyped, StepsByKind, TargetsPicked, [Next]_vars
  PROVE  GoalTyped'
<1>. USE Bounds DEF GoalTyped, CallsTyped, StepsByKind, TargetsPicked, Picked,
    Sprints, goalVars, taskVars, procVars, callVars, reconVars, histVars
<1>1. ASSUME NEW c \in Callers, CallStep(c)  PROVE  GoalTyped'
  <2>1. CASE Poll(c)
    BY <2>1 DEF Poll, Goto, GotoFor, ZeroProgress
  <2>2. CASE Discover(c)
    BY <2>2 DEF Discover, Goto, GotoFor
  <2>3. CASE LockForStart(c)
    BY <2>3 DEF LockForStart, Goto, GotoFor, LockFree
  <2>4. CASE StartSupervisor(c)
    BY <2>4 DEF StartSupervisor, Goto, GotoFor, NextStep, Unlock
  <2>5. CASE StartEnds(c)
    BY <2>5 DEF StartEnds, Goto, GotoFor, RunOver, Unlock
  <2>6. CASE FindSprint(c)
    BY <2>6 DEF FindSprint, Goto, GotoFor, Due, Settled, Claimants
  <2>7. CASE ClaimWake(c)
    <3>1. target[c] \in 1..MaxSprint  BY <2>7 DEF ClaimWake
    <3>2. lastWoken' \in 0..MaxSprint  BY <2>7, <3>1 DEF ClaimWake
    <3>. QED BY <2>7, <3>2 DEF ClaimWake
  <2>8. CASE Reconcile(c)
    BY <2>8 DEF Reconcile, Goto, GotoFor, ToReconcile
  <2>9. CASE ReconcileNext(c)
    BY <2>9 DEF ReconcileNext, Goto, GotoFor, Untried
  <2>10. CASE Comment(c)
    BY <2>10 DEF Comment, Goto, GotoFor, Progress
  <2>11. CASE TryLock(c)
    BY <2>11 DEF TryLock, Goto, GotoFor, LockFree, AfterWake, EndInFlight
  <2>12. CASE LockThrows(c)
    BY <2>12 DEF LockThrows, Goto, GotoFor, Fail, EndInFlight, Unlock
  <2>13. CASE Wake(c)
    BY <2>13 DEF Wake, Goto, GotoFor
  <2>14. CASE WakeSucceeds(c)
    BY <2>14 DEF WakeSucceeds, Goto, GotoFor, RunOver, AfterWake, EndInFlight
  <2>15. CASE WakeFails(c)
    BY <2>15 DEF WakeFails, Goto, GotoFor, Fail, RunOver, EndInFlight, Unlock
  <2>16. CASE Revert(c)
    BY <2>16 DEF Revert, Goto, GotoFor, StillMarked, Before, AfterWake
  <2>17. CASE Compact(c)
    BY <2>17 DEF Compact, Goto, GotoFor
  <2>18. CASE Plan(c)
    <3>1. PICK s \in Sprints :
             sprint' = [sprint EXCEPT ![s] = "open"] /\ newest' = s
      BY <2>18 DEF Plan
    <3>2. s \in 0..MaxSprint  OBVIOUS
    <3>3. sprint' \in [1..MaxSprint -> {"none", "open", "settled"}]  BY <3>1
    <3>. QED BY <2>18, <3>1, <3>2, <3>3 DEF Plan
  <2>19. CASE WriteDoc(c)
    BY <2>19 DEF WriteDoc, Progress
  <2>20. CASE CloseGoal(c)
    BY <2>20 DEF CloseGoal
  <2>. QED BY <1>1, <2>1, <2>2, <2>3, <2>4, <2>5, <2>6, <2>7, <2>8, <2>9,
      <2>10, <2>11, <2>12, <2>13, <2>14, <2>15, <2>16, <2>17, <2>18, <2>19,
      <2>20 DEF CallStep
<1>2. ASSUME NEW s \in Sprints, Settle(s)  PROVE  GoalTyped'
  <2>1. s \in 0..MaxSprint  OBVIOUS
  <2>2. sprint' \in [1..MaxSprint -> {"none", "open", "settled"}]
    BY <1>2 DEF Settle
  <2>3. edits' \in 0..MaxEdits  BY <1>2 DEF Settle
  <2>. QED BY <1>2, <2>1, <2>2, <2>3 DEF Settle
<1>3. ASSUME NEW s \in Sprints, Reopen(s)  PROVE  GoalTyped'
  <2>1. s \in 0..MaxSprint  OBVIOUS
  <2>2. sprint' \in [1..MaxSprint -> {"none", "open", "settled"}]
    BY <1>3 DEF Reopen
  <2>3. edits' \in 0..MaxEdits  BY <1>3 DEF Reopen
  <2>. QED BY <1>3, <2>1, <2>2, <2>3 DEF Reopen
<1>4. CASE GoalAges
  BY <1>4 DEF GoalAges
<1>5. CASE TasksAge
  BY <1>5 DEF TasksAge
<1>6. CASE Start
  BY <1>6 DEF Start
<1>7. CASE BootScan
  <2>1. orphan' \in 0..MaxSprint  BY <1>7 DEF BootScan
  <2>. QED BY <1>7, <2>1 DEF BootScan
<1>8. CASE BootRevert
  BY <1>8 DEF BootRevert, StillMarked, Before
<1>9. CASE Crash
  <2>1. orphan' \in 0..MaxSprint  BY <1>9 DEF Crash
  <2>. QED BY <1>9, <2>1 DEF Crash
<1>10. CASE UNCHANGED vars
  BY <1>10 DEF vars
<1>11. CASE Respond
  <2>1. edits' \in 0..MaxEdits  BY <1>11 DEF Respond
  <2>2. /\ goal' = "active" /\ session' = FALSE /\ quiet' = FALSE
        /\ docs' = TRUE
        /\ UNCHANGED <<lastWoken, sprint, newest, tasksQuiet, procVars,
                       rearmed>>
    BY <1>11 DEF Respond
  <2>. QED BY <2>1, <2>2, Zenon
<1>12. CASE Stop
  <2>1. edits' \in 0..MaxEdits  BY <1>12 DEF Stop
  <2>2. session' \in BOOLEAN  BY <1>12 DEF Stop
  <2>3. /\ goal' = "over" /\ quiet' = FALSE
        /\ UNCHANGED <<lastWoken, taskVars, procVars, rearmed>>
    BY <1>12 DEF Stop
  <2>. QED BY <2>1, <2>2, <2>3, Zenon
<1>13. CASE WakeGoal
  <2>1. edits' \in 0..MaxEdits  BY <1>13 DEF WakeGoal
  <2>2. lastWoken' \in 0..MaxSprint /\ rearmed' \in 0..MaxSprint
    BY <1>13 DEF WakeGoal
  <2>3. quiet' = FALSE /\ UNCHANGED <<goal, session, taskVars, procVars>>
    BY <1>13 DEF WakeGoal
  <2>. QED BY <2>1, <2>2, <2>3, Zenon
<1>14. CASE GoalTouched
  BY <1>14 DEF GoalTouched
<1>. QED BY <1>1, <1>2, <1>3, <1>4, <1>5, <1>6, <1>7, <1>8, <1>9, <1>10,
    <1>11, <1>12, <1>13, <1>14 DEF Next

(* A call moves between known steps.                                       *)
LEMMA CallTyping ==
  ASSUME CallsTyped, StepsByKind, [Next]_vars
  PROVE  CallsTyped'
<1>. USE Bounds DEF CallsTyped, StepsByKind, Steps, Sprints, goalVars,
    taskVars, procVars, callVars, reconVars, histVars
<1>1. ASSUME NEW c \in Callers, CallStep(c)  PROVE  CallsTyped'
  <2>1. CASE Poll(c)
    BY <2>1 DEF Poll, Goto, GotoFor, ZeroProgress
  <2>2. CASE Discover(c)
    BY <2>2 DEF Discover, Goto, GotoFor
  <2>3. CASE LockForStart(c)
    BY <2>3 DEF LockForStart, Goto, GotoFor, LockFree
  <2>4. CASE StartSupervisor(c)
    BY <2>4 DEF StartSupervisor, Goto, GotoFor, NextStep, Unlock
  <2>5. CASE StartEnds(c)
    BY <2>5 DEF StartEnds, Goto, GotoFor, RunOver, Unlock
  <2>6. CASE FindSprint(c)
    BY <2>6 DEF FindSprint, Goto, GotoFor, Due, Settled, Claimants
  <2>7. CASE ClaimWake(c)
    BY <2>7 DEF ClaimWake, Goto, GotoFor, Unclaimed
  <2>8. CASE Reconcile(c)
    BY <2>8 DEF Reconcile, Goto, GotoFor, ToReconcile
  <2>9. CASE ReconcileNext(c)
    BY <2>9 DEF ReconcileNext, Goto, GotoFor, Untried
  <2>10. CASE Comment(c)
    BY <2>10 DEF Comment, Goto, GotoFor, Progress
  <2>11. CASE TryLock(c)
    BY <2>11 DEF TryLock, Goto, GotoFor, LockFree, AfterWake, EndInFlight
  <2>12. CASE LockThrows(c)
    BY <2>12 DEF LockThrows, Goto, GotoFor, Fail, EndInFlight, Unlock
  <2>13. CASE Wake(c)
    BY <2>13 DEF Wake, Goto, GotoFor
  <2>14. CASE WakeSucceeds(c)
    BY <2>14 DEF WakeSucceeds, Goto, GotoFor, RunOver, AfterWake, EndInFlight
  <2>15. CASE WakeFails(c)
    BY <2>15 DEF WakeFails, Goto, GotoFor, Fail, RunOver, EndInFlight, Unlock
  <2>16. CASE Revert(c)
    BY <2>16 DEF Revert, Goto, GotoFor, StillMarked, Before, AfterWake
  <2>17. CASE Compact(c)
    BY <2>17 DEF Compact, Goto, GotoFor
  <2>18. CASE Plan(c)
    BY <2>18 DEF Plan, Progress
  <2>19. CASE WriteDoc(c)
    BY <2>19 DEF WriteDoc, Progress
  <2>20. CASE CloseGoal(c)
    BY <2>20 DEF CloseGoal
  <2>. QED BY <1>1, <2>1, <2>2, <2>3, <2>4, <2>5, <2>6, <2>7, <2>8, <2>9,
      <2>10, <2>11, <2>12, <2>13, <2>14, <2>15, <2>16, <2>17, <2>18, <2>19,
      <2>20 DEF CallStep
<1>2. ASSUME NEW s \in Sprints, Settle(s)  PROVE  CallsTyped'
  BY <1>2 DEF Settle
<1>3. ASSUME NEW s \in Sprints, Reopen(s)  PROVE  CallsTyped'
  BY <1>3 DEF Reopen
<1>4. CASE GoalAges
  BY <1>4 DEF GoalAges
<1>5. CASE TasksAge
  BY <1>5 DEF TasksAge
<1>6. CASE Start
  BY <1>6 DEF Start
<1>7. CASE BootScan
  BY <1>7 DEF BootScan, Orphaned, Settled
<1>8. CASE BootRevert
  BY <1>8 DEF BootRevert, StillMarked, Before
<1>9. CASE Crash
  BY <1>9 DEF Crash
<1>10. CASE UNCHANGED vars
  BY <1>10 DEF vars
<1>11. CASE Respond
  BY <1>11 DEF Respond, Progress
<1>12. CASE Stop
  BY <1>12 DEF Stop
<1>13. CASE WakeGoal
  BY <1>13 DEF WakeGoal
<1>14. CASE GoalTouched
  BY <1>14 DEF GoalTouched
<1>. QED BY <1>1, <1>2, <1>3, <1>4, <1>5, <1>6, <1>7, <1>8, <1>9, <1>10,
    <1>11, <1>12, <1>13, <1>14 DEF Next

(* Lock, reconciliation state and history stay well formed.                *)
LEMMA RunTyping ==
  ASSUME CallsTyped, StepsByKind, TargetsPicked, RunsTyped, [Next]_vars
  PROVE  RunsTyped'
<1>. USE Disjoint DEF CallsTyped, RunsTyped, StepsByKind, TargetsPicked,
    Picked, Callers, Claimants, Sprints, Settled, goalVars, taskVars, procVars,
    callVars, reconVars, histVars
<1>1. ASSUME NEW c \in Callers, CallStep(c)  PROVE  RunsTyped'
  <2>1. CASE Poll(c)
    BY <2>1 DEF Poll, Goto, GotoFor, ZeroProgress
  <2>2. CASE Discover(c)
    BY <2>2 DEF Discover, Goto, GotoFor
  <2>3. CASE LockForStart(c)
    BY <2>3 DEF LockForStart, Goto, GotoFor, LockFree
  <2>4. CASE StartSupervisor(c)
    BY <2>4 DEF StartSupervisor, Goto, GotoFor, NextStep, Unlock
  <2>5. CASE StartEnds(c)
    BY <2>5 DEF StartEnds, Goto, GotoFor, RunOver, Unlock
  <2>6. CASE FindSprint(c)
    BY <2>6 DEF FindSprint, Goto, GotoFor, Due, Settled, Claimants
  <2>7. CASE ClaimWake(c)
    BY <2>7 DEF ClaimWake, Goto, GotoFor, Unclaimed
  <2>8. CASE Reconcile(c)
    BY <2>8 DEF Reconcile, Goto, GotoFor, ToReconcile
  <2>9. CASE ReconcileNext(c)
    <3>1. target[c] \in Sprints  BY <2>9 DEF ReconcileNext
    <3>2. inFlight' = inFlight \/ inFlight' = inFlight \cup {target[c]}
      BY <2>9 DEF ReconcileNext
    <3>3. inFlight' \in SUBSET Sprints  BY <3>1, <3>2
    <3>. QED BY <2>9, <3>3 DEF ReconcileNext
  <2>10. CASE Comment(c)
    BY <2>10 DEF Comment, Goto, GotoFor, Progress
  <2>11. CASE TryLock(c)
    BY <2>11 DEF TryLock, Goto, GotoFor, LockFree, AfterWake, EndInFlight
  <2>12. CASE LockThrows(c)
    BY <2>12 DEF LockThrows, Goto, GotoFor, Fail, EndInFlight, Unlock
  <2>13. CASE Wake(c)
    BY <2>13 DEF Wake, Goto, GotoFor
  <2>14. CASE WakeSucceeds(c)
    BY <2>14 DEF WakeSucceeds, Goto, GotoFor, RunOver, AfterWake, EndInFlight
  <2>15. CASE WakeFails(c)
    BY <2>15 DEF WakeFails, Goto, GotoFor, Fail, RunOver, EndInFlight, Unlock
  <2>16. CASE Revert(c)
    BY <2>16 DEF Revert, Goto, GotoFor, StillMarked, Before, AfterWake
  <2>17. CASE Compact(c)
    BY <2>17 DEF Compact, Goto, GotoFor
  <2>18. CASE Plan(c)
    BY <2>18 DEF Plan, Progress
  <2>19. CASE WriteDoc(c)
    BY <2>19 DEF WriteDoc, Progress
  <2>20. CASE CloseGoal(c)
    BY <2>20 DEF CloseGoal
  <2>. QED BY <1>1, <2>1, <2>2, <2>3, <2>4, <2>5, <2>6, <2>7, <2>8, <2>9,
      <2>10, <2>11, <2>12, <2>13, <2>14, <2>15, <2>16, <2>17, <2>18, <2>19,
      <2>20 DEF CallStep
<1>2. ASSUME NEW s \in Sprints, Settle(s)  PROVE  RunsTyped'
  BY <1>2 DEF Settle
<1>3. ASSUME NEW s \in Sprints, Reopen(s)  PROVE  RunsTyped'
  BY <1>3 DEF Reopen
<1>4. CASE GoalAges
  BY <1>4 DEF GoalAges
<1>5. CASE TasksAge
  BY <1>5 DEF TasksAge
<1>6. CASE Start
  BY <1>6 DEF Start
<1>7. CASE BootScan
  BY <1>7 DEF BootScan, Orphaned, Settled
<1>8. CASE BootRevert
  BY <1>8 DEF BootRevert, StillMarked, Before
<1>9. CASE Crash
  BY <1>9 DEF Crash
<1>10. CASE UNCHANGED vars
  BY <1>10 DEF vars
<1>11. CASE Respond
  BY <1>11 DEF Respond, Progress
<1>12. CASE Stop
  BY <1>12 DEF Stop
<1>13. CASE WakeGoal
  BY <1>13 DEF WakeGoal
<1>14. CASE GoalTouched
  BY <1>14 DEF GoalTouched
<1>. QED BY <1>1, <1>2, <1>3, <1>4, <1>5, <1>6, <1>7, <1>8, <1>9, <1>10,
    <1>11, <1>12, <1>13, <1>14 DEF Next

(* Only callers of the right kind reach a step, and one that picked a sprint *)
(* keeps it.                                                               *)
LEMMA Placing ==
  ASSUME CallsTyped, StepsByKind, TargetsPicked, [Next]_vars
  PROVE  (StepsByKind /\ TargetsPicked)'
<1>. USE Disjoint DEF CallsTyped, StepsByKind, TargetsPicked, Picked, Callers,
    Claimants, Sprints, goalVars, taskVars, procVars, callVars, reconVars,
    histVars
<1>1. ASSUME NEW c \in Callers, CallStep(c)  PROVE  (StepsByKind /\
    TargetsPicked)'
  <2>1. CASE Poll(c)
    BY <2>1 DEF Poll, Goto, GotoFor, ZeroProgress
  <2>2. CASE Discover(c)
    BY <2>2 DEF Discover, Goto, GotoFor
  <2>3. CASE LockForStart(c)
    BY <2>3 DEF LockForStart, Goto, GotoFor, LockFree
  <2>4. CASE StartSupervisor(c)
    BY <2>4 DEF StartSupervisor, Goto, GotoFor, NextStep, Unlock
  <2>5. CASE StartEnds(c)
    BY <2>5 DEF StartEnds, Goto, GotoFor, RunOver, Unlock
  <2>6. CASE FindSprint(c)
    BY <2>6 DEF FindSprint, Goto, GotoFor, Due, Settled, Claimants
  <2>7. CASE ClaimWake(c)
    BY <2>7 DEF ClaimWake, Goto, GotoFor, Unclaimed
  <2>8. CASE Reconcile(c)
    BY <2>8 DEF Reconcile, Goto, GotoFor, ToReconcile
  <2>9. CASE ReconcileNext(c)
    BY <2>9 DEF ReconcileNext, Goto, GotoFor, Untried
  <2>10. CASE Comment(c)
    BY <2>10 DEF Comment, Goto, GotoFor, Progress
  <2>11. CASE TryLock(c)
    BY <2>11 DEF TryLock, Goto, GotoFor, LockFree, AfterWake, EndInFlight
  <2>12. CASE LockThrows(c)
    BY <2>12 DEF LockThrows, Goto, GotoFor, Fail, EndInFlight, Unlock
  <2>13. CASE Wake(c)
    BY <2>13 DEF Wake, Goto, GotoFor
  <2>14. CASE WakeSucceeds(c)
    BY <2>14 DEF WakeSucceeds, Goto, GotoFor, RunOver, AfterWake, EndInFlight
  <2>15. CASE WakeFails(c)
    BY <2>15 DEF WakeFails, Goto, GotoFor, Fail, RunOver, EndInFlight, Unlock
  <2>16. CASE Revert(c)
    BY <2>16 DEF Revert, Goto, GotoFor, StillMarked, Before, AfterWake
  <2>17. CASE Compact(c)
    BY <2>17 DEF Compact, Goto, GotoFor
  <2>18. CASE Plan(c)
    BY <2>18 DEF Plan, Progress
  <2>19. CASE WriteDoc(c)
    BY <2>19 DEF WriteDoc, Progress
  <2>20. CASE CloseGoal(c)
    BY <2>20 DEF CloseGoal
  <2>. QED BY <1>1, <2>1, <2>2, <2>3, <2>4, <2>5, <2>6, <2>7, <2>8, <2>9,
      <2>10, <2>11, <2>12, <2>13, <2>14, <2>15, <2>16, <2>17, <2>18, <2>19,
      <2>20 DEF CallStep
<1>2. ASSUME NEW s \in Sprints, Settle(s)  PROVE  (StepsByKind /\
    TargetsPicked)'
  BY <1>2 DEF Settle
<1>3. ASSUME NEW s \in Sprints, Reopen(s)  PROVE  (StepsByKind /\
    TargetsPicked)'
  BY <1>3 DEF Reopen
<1>4. CASE GoalAges
  BY <1>4 DEF GoalAges
<1>5. CASE TasksAge
  BY <1>5 DEF TasksAge
<1>6. CASE Start
  BY <1>6 DEF Start
<1>7. CASE BootScan
  BY <1>7 DEF BootScan, Orphaned, Settled
<1>8. CASE BootRevert
  BY <1>8 DEF BootRevert, StillMarked, Before
<1>9. CASE Crash
  BY <1>9 DEF Crash
<1>10. CASE UNCHANGED vars
  BY <1>10 DEF vars
<1>11. CASE Respond
  BY <1>11 DEF Respond, Progress
<1>12. CASE Stop
  BY <1>12 DEF Stop
<1>13. CASE WakeGoal
  BY <1>13 DEF WakeGoal
<1>14. CASE GoalTouched
  BY <1>14 DEF GoalTouched
<1>. QED BY <1>1, <1>2, <1>3, <1>4, <1>5, <1>6, <1>7, <1>8, <1>9, <1>10,
    <1>11, <1>12, <1>13, <1>14 DEF Next

(* The lock is taken only when free and given up only by its holder.       *)
LEMMA Locking ==
  ASSUME CallsTyped, RunsTyped, StepsByKind, LockHeld, [Next]_vars
  PROVE  LockHeld'
<1>. USE Disjoint DEF CallsTyped, RunsTyped, LockHeld, StepsByKind, goalVars,
    taskVars, procVars, callVars, reconVars, histVars
<1>1. ASSUME NEW c \in Callers, CallStep(c)  PROVE  LockHeld'
  <2>1. CASE Poll(c)
    BY <2>1 DEF Poll, Goto, GotoFor, ZeroProgress
  <2>2. CASE Discover(c)
    BY <2>2 DEF Discover, Goto, GotoFor
  <2>3. CASE LockForStart(c)
    BY <2>3 DEF LockForStart, Goto, GotoFor, LockFree
  <2>4. CASE StartSupervisor(c)
    BY <2>4 DEF StartSupervisor, Goto, GotoFor, NextStep, Unlock
  <2>5. CASE StartEnds(c)
    BY <2>5 DEF StartEnds, Goto, GotoFor, RunOver, Unlock
  <2>6. CASE FindSprint(c)
    BY <2>6 DEF FindSprint, Goto, GotoFor, Due, Settled, Claimants
  <2>7. CASE ClaimWake(c)
    BY <2>7 DEF ClaimWake, Goto, GotoFor, Unclaimed
  <2>8. CASE Reconcile(c)
    BY <2>8 DEF Reconcile, Goto, GotoFor, ToReconcile
  <2>9. CASE ReconcileNext(c)
    BY <2>9 DEF ReconcileNext, Goto, GotoFor, Untried
  <2>10. CASE Comment(c)
    BY <2>10 DEF Comment, Goto, GotoFor, Progress
  <2>11. CASE TryLock(c)
    BY <2>11 DEF TryLock, Goto, GotoFor, LockFree, AfterWake, EndInFlight
  <2>12. CASE LockThrows(c)
    BY <2>12 DEF LockThrows, Goto, GotoFor, Fail, EndInFlight, Unlock
  <2>13. CASE Wake(c)
    BY <2>13 DEF Wake, Goto, GotoFor
  <2>14. CASE WakeSucceeds(c)
    BY <2>14 DEF WakeSucceeds, Goto, GotoFor, RunOver, AfterWake, EndInFlight
  <2>15. CASE WakeFails(c)
    BY <2>15 DEF WakeFails, Goto, GotoFor, Fail, RunOver, EndInFlight, Unlock
  <2>16. CASE Revert(c)
    BY <2>16 DEF Revert, Goto, GotoFor, StillMarked, Before, AfterWake
  <2>17. CASE Compact(c)
    BY <2>17 DEF Compact, Goto, GotoFor
  <2>18. CASE Plan(c)
    BY <2>18 DEF Plan, Progress
  <2>19. CASE WriteDoc(c)
    BY <2>19 DEF WriteDoc, Progress
  <2>20. CASE CloseGoal(c)
    BY <2>20 DEF CloseGoal
  <2>. QED BY <1>1, <2>1, <2>2, <2>3, <2>4, <2>5, <2>6, <2>7, <2>8, <2>9,
      <2>10, <2>11, <2>12, <2>13, <2>14, <2>15, <2>16, <2>17, <2>18, <2>19,
      <2>20 DEF CallStep
<1>2. ASSUME NEW s \in Sprints, Settle(s)  PROVE  LockHeld'
  BY <1>2 DEF Settle
<1>3. ASSUME NEW s \in Sprints, Reopen(s)  PROVE  LockHeld'
  BY <1>3 DEF Reopen
<1>4. CASE GoalAges
  BY <1>4 DEF GoalAges
<1>5. CASE TasksAge
  BY <1>5 DEF TasksAge
<1>6. CASE Start
  BY <1>6 DEF Start
<1>7. CASE BootScan
  BY <1>7 DEF BootScan, Orphaned, Settled
<1>8. CASE BootRevert
  BY <1>8 DEF BootRevert, StillMarked, Before
<1>9. CASE Crash
  BY <1>9 DEF Crash
<1>10. CASE UNCHANGED vars
  BY <1>10 DEF vars
<1>11. CASE Respond
  BY <1>11 DEF Respond, Progress
<1>12. CASE Stop
  BY <1>12 DEF Stop
<1>13. CASE WakeGoal
  BY <1>13 DEF WakeGoal
<1>14. CASE GoalTouched
  BY <1>14 DEF GoalTouched
<1>. QED BY <1>1, <1>2, <1>3, <1>4, <1>5, <1>6, <1>7, <1>8, <1>9, <1>10,
    <1>11, <1>12, <1>13, <1>14 DEF Next

(* A crash clears what the process held.                                   *)
LEMMA Dying ==
  ASSUME GoalTyped, CallsTyped, DownIdle, [Next]_vars
  PROVE  DownIdle'
<1>. USE Disjoint DEF GoalTyped, CallsTyped, DownIdle, goalVars, taskVars,
    procVars, callVars, reconVars, histVars
<1>1. ASSUME NEW c \in Callers, CallStep(c)  PROVE  DownIdle'
  <2>1. CASE Poll(c)
    BY <2>1 DEF Poll, Goto, GotoFor, ZeroProgress
  <2>2. CASE Discover(c)
    BY <2>2 DEF Discover, Goto, GotoFor
  <2>3. CASE LockForStart(c)
    BY <2>3 DEF LockForStart, Goto, GotoFor, LockFree
  <2>4. CASE StartSupervisor(c)
    BY <2>4 DEF StartSupervisor, Goto, GotoFor, NextStep, Unlock
  <2>5. CASE StartEnds(c)
    BY <2>5 DEF StartEnds, Goto, GotoFor, RunOver, Unlock
  <2>6. CASE FindSprint(c)
    BY <2>6 DEF FindSprint, Goto, GotoFor, Due, Settled, Claimants
  <2>7. CASE ClaimWake(c)
    BY <2>7 DEF ClaimWake, Goto, GotoFor, Unclaimed
  <2>8. CASE Reconcile(c)
    BY <2>8 DEF Reconcile, Goto, GotoFor, ToReconcile
  <2>9. CASE ReconcileNext(c)
    BY <2>9 DEF ReconcileNext, Goto, GotoFor, Untried
  <2>10. CASE Comment(c)
    BY <2>10 DEF Comment, Goto, GotoFor, Progress
  <2>11. CASE TryLock(c)
    BY <2>11 DEF TryLock, Goto, GotoFor, LockFree, AfterWake, EndInFlight
  <2>12. CASE LockThrows(c)
    BY <2>12 DEF LockThrows, Goto, GotoFor, Fail, EndInFlight, Unlock
  <2>13. CASE Wake(c)
    BY <2>13 DEF Wake, Goto, GotoFor
  <2>14. CASE WakeSucceeds(c)
    BY <2>14 DEF WakeSucceeds, Goto, GotoFor, RunOver, AfterWake, EndInFlight
  <2>15. CASE WakeFails(c)
    BY <2>15 DEF WakeFails, Goto, GotoFor, Fail, RunOver, EndInFlight, Unlock
  <2>16. CASE Revert(c)
    BY <2>16 DEF Revert, Goto, GotoFor, StillMarked, Before, AfterWake
  <2>17. CASE Compact(c)
    BY <2>17 DEF Compact, Goto, GotoFor
  <2>18. CASE Plan(c)
    BY <2>18 DEF Plan, Progress
  <2>19. CASE WriteDoc(c)
    BY <2>19 DEF WriteDoc, Progress
  <2>20. CASE CloseGoal(c)
    BY <2>20 DEF CloseGoal
  <2>. QED BY <1>1, <2>1, <2>2, <2>3, <2>4, <2>5, <2>6, <2>7, <2>8, <2>9,
      <2>10, <2>11, <2>12, <2>13, <2>14, <2>15, <2>16, <2>17, <2>18, <2>19,
      <2>20 DEF CallStep
<1>2. ASSUME NEW s \in Sprints, Settle(s)  PROVE  DownIdle'
  BY <1>2 DEF Settle
<1>3. ASSUME NEW s \in Sprints, Reopen(s)  PROVE  DownIdle'
  BY <1>3 DEF Reopen
<1>4. CASE GoalAges
  BY <1>4 DEF GoalAges
<1>5. CASE TasksAge
  BY <1>5 DEF TasksAge
<1>6. CASE Start
  BY <1>6 DEF Start
<1>7. CASE BootScan
  BY <1>7 DEF BootScan, Orphaned, Settled
<1>8. CASE BootRevert
  BY <1>8 DEF BootRevert, StillMarked, Before
<1>9. CASE Crash
  BY <1>9 DEF Crash
<1>10. CASE UNCHANGED vars
  BY <1>10 DEF vars
<1>11. CASE Respond
  BY <1>11 DEF Respond, Progress
<1>12. CASE Stop
  BY <1>12 DEF Stop
<1>13. CASE WakeGoal
  BY <1>13 DEF WakeGoal
<1>14. CASE GoalTouched
  BY <1>14 DEF GoalTouched
<1>. QED BY <1>1, <1>2, <1>3, <1>4, <1>5, <1>6, <1>7, <1>8, <1>9, <1>10,
    <1>11, <1>12, <1>13, <1>14 DEF Next

(* A step that adds no owner and moves none keeps both, if it leaves the   *)
(* marks and the sweep alone.                                              *)
LEMMA OwnersStay ==
  ASSUME SweepSafe, WakeOwned, UNCHANGED <<lastWoken, procVars, rearmed>>,
      quiet' => quiet,
      \A d \in Callers : Owns(d)' => Owns(d) /\ target'[d] = target[d]
  PROVE  (SweepSafe /\ WakeOwned)'
<1>1. SweepSafe'
  BY DEF SweepSafe, procVars
<1>2. WakeOwned'
  BY DEF WakeOwned
<1>. QED BY <1>1, <1>2

(* Ownership of a sprint: a claim lies above every mark that is owned, a   *)
(* revert lowers the mark only from its own sprint, and the boot sweep only*)
(* below every owner.                                                      *)
LEMMA Owning ==
  ASSUME GoalTyped, CallsTyped, StepsByKind, TargetsPicked, DownIdle,
      SweepSafe, WakeOwned, [Next]_vars
  PROVE  (SweepSafe /\ WakeOwned)'
<1>. USE Bounds, Disjoint DEF GoalTyped, CallsTyped, StepsByKind,
    TargetsPicked, Picked, DownIdle, SweepSafe, WakeOwned, Owns, Callers,
    Claimants, Sprints, goalVars, taskVars, procVars, callVars, reconVars,
    histVars
<1>1. ASSUME NEW c \in Callers, CallStep(c)  PROVE  (SweepSafe /\ WakeOwned)'
  <2>1. CASE Poll(c)
    BY <2>1 DEF Poll, Goto, GotoFor, ZeroProgress
  <2>2. CASE Discover(c)
    <3>1. UNCHANGED <<lastWoken, procVars, rearmed>> /\ (quiet' => quiet)
      BY <2>2 DEF Discover
    <3>2. \A d \in Callers : Owns(d)' => Owns(d) /\ target'[d] = target[d]
      BY <2>2 DEF Discover, Goto, GotoFor
    <3>. QED BY ONLY SweepSafe, WakeOwned, <3>1, <3>2, OwnersStay
  <2>3. CASE LockForStart(c)
    <3>1. UNCHANGED <<lastWoken, procVars, rearmed>> /\ (quiet' => quiet)
      BY <2>3 DEF LockForStart
    <3>2. \A d \in Callers : Owns(d)' => Owns(d) /\ target'[d] = target[d]
      BY <2>3 DEF LockForStart, Goto, GotoFor, LockFree
    <3>. QED BY ONLY SweepSafe, WakeOwned, <3>1, <3>2, OwnersStay
  <2>4. CASE StartSupervisor(c)
    <3>1. UNCHANGED <<lastWoken, procVars, rearmed>> /\ (quiet' => quiet)
      BY <2>4 DEF StartSupervisor
    <3>2. \A d \in Callers : Owns(d)' => Owns(d) /\ target'[d] = target[d]
      BY <2>4 DEF StartSupervisor, Goto, GotoFor, NextStep, Unlock
    <3>. QED BY ONLY SweepSafe, WakeOwned, <3>1, <3>2, OwnersStay
  <2>5. CASE StartEnds(c)
    <3>1. UNCHANGED <<lastWoken, procVars, rearmed>> /\ (quiet' => quiet)
      BY <2>5 DEF StartEnds
    <3>2. \A d \in Callers : Owns(d)' => Owns(d) /\ target'[d] = target[d]
      BY <2>5 DEF StartEnds, Goto, GotoFor, RunOver, Unlock
    <3>. QED BY ONLY SweepSafe, WakeOwned, <3>1, <3>2, OwnersStay
  <2>6. CASE FindSprint(c)
    <3>1. UNCHANGED <<lastWoken, procVars, rearmed>> /\ (quiet' => quiet)
      BY <2>6 DEF FindSprint
    <3>2. \A d \in Callers : Owns(d)' => Owns(d) /\ target'[d] = target[d]
      BY <2>6 DEF FindSprint, Goto, GotoFor
    <3>. QED BY ONLY SweepSafe, WakeOwned, <3>1, <3>2, OwnersStay
  <2>7. CASE ClaimWake(c)
    <3>1. CASE ~Unclaimed(target[c])
      <4>1. UNCHANGED <<lastWoken, procVars, rearmed>> /\ (quiet' => quiet)
        BY <2>7, <3>1 DEF ClaimWake
      <4>2. \A d \in Callers : Owns(d)' => Owns(d) /\ target'[d] = target[d]
        BY <2>7, <3>1 DEF ClaimWake, Goto, GotoFor
      <4>. QED BY ONLY SweepSafe, WakeOwned, <4>1, <4>2, OwnersStay
    <3>2. CASE Unclaimed(target[c])
      <4>1. /\ target[c] \in Sprints /\ lastWoken < target[c]
            /\ lastWoken' = target[c] /\ quiet' = FALSE
            /\ target' = target /\ UNCHANGED <<procVars, rearmed>>
        BY <2>7, <3>2 DEF ClaimWake, Goto, GotoFor, Unclaimed
      <4>2. \A d \in Callers : Owns(d)' => d = c \/ Owns(d)
        BY <2>7, <3>2 DEF ClaimWake, Goto, GotoFor
      <4>3. \A d \in Callers : Owns(d) => target[d] <= lastWoken
        BY DEF Owns
      <4>4. \A d \in Callers : Owns(d)' => target[d] > rearmed
        BY <4>1
      <4>5. WakeOwned'
        BY <4>1, <4>2, <4>3
      <4>6. SweepSafe'
        BY <4>1, <4>2, <4>3, <4>4
      <4>. QED BY <4>5, <4>6
    <3>. QED BY <3>1, <3>2
  <2>8. CASE Reconcile(c)
    <3>1. UNCHANGED <<lastWoken, procVars, rearmed>> /\ (quiet' => quiet)
      BY <2>8 DEF Reconcile
    <3>2. \A d \in Callers : Owns(d)' => Owns(d) /\ target'[d] = target[d]
      BY <2>8 DEF Reconcile, Goto, GotoFor
    <3>. QED BY ONLY SweepSafe, WakeOwned, <3>1, <3>2, OwnersStay
  <2>9. CASE ReconcileNext(c)
    <3>1. UNCHANGED <<lastWoken, procVars, rearmed>> /\ (quiet' => quiet)
      BY <2>9 DEF ReconcileNext
    <3>2. \A d \in Callers : Owns(d)' => Owns(d) /\ target'[d] = target[d]
      BY <2>9 DEF ReconcileNext, Goto, GotoFor
    <3>. QED BY ONLY SweepSafe, WakeOwned, <3>1, <3>2, OwnersStay
  <2>10. CASE Comment(c)
    <3>1. UNCHANGED <<lastWoken, procVars, rearmed>> /\ (quiet' => quiet)
      BY <2>10 DEF Comment
    <3>2. \A d \in Callers : Owns(d)' => Owns(d) /\ target'[d] = target[d]
      BY <2>10 DEF Comment, Goto, GotoFor
    <3>. QED BY ONLY SweepSafe, WakeOwned, <3>1, <3>2, OwnersStay
  <2>11. CASE TryLock(c)
    <3>1. UNCHANGED <<lastWoken, procVars, rearmed>> /\ (quiet' => quiet)
      BY <2>11 DEF TryLock
    <3>2. \A d \in Callers : Owns(d)' => Owns(d) /\ target'[d] = target[d]
      BY <2>11 DEF TryLock, Goto, GotoFor, AfterWake
    <3>. QED BY ONLY SweepSafe, WakeOwned, <3>1, <3>2, OwnersStay
  <2>12. CASE LockThrows(c)
    <3>1. UNCHANGED <<lastWoken, procVars, rearmed>> /\ (quiet' => quiet)
      BY <2>12 DEF LockThrows
    <3>2. \A d \in Callers : Owns(d)' => Owns(d) /\ target'[d] = target[d]
      BY <2>12 DEF LockThrows, Goto, GotoFor, Fail
    <3>. QED BY ONLY SweepSafe, WakeOwned, <3>1, <3>2, OwnersStay
  <2>13. CASE Wake(c)
    <3>1. UNCHANGED <<lastWoken, procVars, rearmed>> /\ (quiet' => quiet)
      BY <2>13 DEF Wake
    <3>2. \A d \in Callers : Owns(d)' => Owns(d) /\ target'[d] = target[d]
      BY <2>13 DEF Wake, Goto, GotoFor
    <3>. QED BY ONLY SweepSafe, WakeOwned, <3>1, <3>2, OwnersStay
  <2>14. CASE WakeSucceeds(c)
    <3>1. UNCHANGED <<lastWoken, procVars, rearmed>> /\ (quiet' => quiet)
      BY <2>14 DEF WakeSucceeds
    <3>2. \A d \in Callers : Owns(d)' => Owns(d) /\ target'[d] = target[d]
      BY <2>14 DEF WakeSucceeds, Goto, GotoFor, AfterWake
    <3>. QED BY ONLY SweepSafe, WakeOwned, <3>1, <3>2, OwnersStay
  <2>15. CASE WakeFails(c)
    <3>1. UNCHANGED <<lastWoken, procVars, rearmed>> /\ (quiet' => quiet)
      BY <2>15 DEF WakeFails
    <3>2. \A d \in Callers : Owns(d)' => Owns(d) /\ target'[d] = target[d]
      BY <2>15 DEF WakeFails, Goto, GotoFor, Fail
    <3>. QED BY ONLY SweepSafe, WakeOwned, <3>1, <3>2, OwnersStay
  <2>16. CASE Revert(c)
    <3>1. /\ target[c] \in Sprints /\ c \in Claimants /\ pc[c] = "revert"
          /\ UNCHANGED <<procVars, quiet, rearmed>>
      BY <2>16 DEF Revert
    <3>2. \A d \in Callers :
            Owns(d)' => d # c /\ Owns(d) /\ target'[d] = target[d]
      BY <2>16 DEF Revert, Goto, GotoFor, AfterWake
    <3>3. CASE UNCHANGED lastWoken
      <4>1. UNCHANGED <<lastWoken, procVars, rearmed>> /\ (quiet' => quiet)
        BY <3>1, <3>3
      <4>2. \A d \in Callers : Owns(d)' => Owns(d) /\ target'[d] = target[d]
        BY <3>2
      <4>. QED BY ONLY SweepSafe, WakeOwned, <4>1, <4>2, OwnersStay
    <3>4. CASE lastWoken = target[c] /\ lastWoken' = target[c] - 1
      <4>1. Owns(c) <=> target[c] > rearmed
        BY <3>1
      <4>2. \A d \in Callers : Owns(d)' => target[d] <= lastWoken'
        <5>. SUFFICES ASSUME NEW d \in Callers, Owns(d)'
                      PROVE  target[d] <= lastWoken'
          OBVIOUS
        <5>1. /\ d # c /\ Owns(d) /\ target[d] <= lastWoken
              /\ target[d] > rearmed
          BY <3>2
        <5>2. target[d] # target[c]
          BY <3>4, <4>1, <5>1
        <5>. QED BY <3>4, <5>1, <5>2
      <4>3. WakeOwned'
        BY <3>2, <4>2
      <4>4. orphan > rearmed => orphan <= lastWoken'
        BY <3>4, <4>1
      <4>5. SweepSafe'
        BY <3>1, <3>2, <4>4
      <4>. QED BY <4>3, <4>5
    <3>. QED BY <2>16, <3>3, <3>4 DEF Revert, StillMarked, Before
  <2>17. CASE Compact(c)
    <3>1. UNCHANGED <<lastWoken, procVars, rearmed>> /\ (quiet' => quiet)
      BY <2>17 DEF Compact
    <3>2. \A d \in Callers : Owns(d)' => Owns(d) /\ target'[d] = target[d]
      BY <2>17 DEF Compact, Goto, GotoFor
    <3>. QED BY ONLY SweepSafe, WakeOwned, <3>1, <3>2, OwnersStay
  <2>18. CASE Plan(c)
    BY <2>18 DEF Plan, Progress
  <2>19. CASE WriteDoc(c)
    BY <2>19 DEF WriteDoc, Progress
  <2>20. CASE CloseGoal(c)
    BY <2>20 DEF CloseGoal
  <2>. QED BY <1>1, <2>1, <2>2, <2>3, <2>4, <2>5, <2>6, <2>7, <2>8, <2>9,
      <2>10, <2>11, <2>12, <2>13, <2>14, <2>15, <2>16, <2>17, <2>18, <2>19,
      <2>20 DEF CallStep
<1>2. ASSUME NEW s \in Sprints, Settle(s)  PROVE  (SweepSafe /\ WakeOwned)'
  BY <1>2 DEF Settle
<1>3. ASSUME NEW s \in Sprints, Reopen(s)  PROVE  (SweepSafe /\ WakeOwned)'
  BY <1>3 DEF Reopen
<1>4. CASE GoalAges
  BY <1>4 DEF GoalAges
<1>5. CASE TasksAge
  BY <1>5 DEF TasksAge
<1>6. CASE Start
  BY <1>6 DEF Start
<1>7. CASE BootScan
  BY <1>7 DEF BootScan, Orphaned, Settled
<1>8. CASE BootRevert
  BY <1>8 DEF BootRevert, StillMarked, Before
<1>9. CASE Crash
  BY <1>9 DEF Crash
<1>10. CASE UNCHANGED vars
  BY <1>10 DEF vars
<1>11. CASE Respond
  BY <1>11 DEF Respond, Progress
<1>12. CASE Stop
  BY <1>12 DEF Stop
<1>13. CASE WakeGoal
  BY <1>13 DEF WakeGoal
<1>14. CASE GoalTouched
  BY <1>14 DEF GoalTouched
<1>. QED BY <1>1, <1>2, <1>3, <1>4, <1>5, <1>6, <1>7, <1>8, <1>9, <1>10,
    <1>11, <1>12, <1>13, <1>14 DEF Next

(* A reconciling caller keeps its sprint in the in-flight set until it ends, *)
(* and a fired sprint is not taken again.                                  *)
LEMMA InFlight ==
  ASSUME CallsTyped, StepsByKind, TargetsPicked, InFlightHeld, ReconcileOnce,
      [Next]_vars
  PROVE  (InFlightHeld /\ ReconcileOnce)'
<1>. USE Disjoint DEF CallsTyped, StepsByKind, TargetsPicked, Picked,
    InFlightHeld, ReconcileOnce, Reconciling, Callers, Claimants, goalVars,
    taskVars, procVars, callVars, reconVars, histVars
<1>1. ASSUME NEW c \in Callers, CallStep(c)  PROVE  (InFlightHeld /\
    ReconcileOnce)'
  <2>1. CASE Poll(c)
    BY <2>1 DEF Poll, Goto, GotoFor, ZeroProgress
  <2>2. CASE Discover(c)
    BY <2>2 DEF Discover, Goto, GotoFor
  <2>3. CASE LockForStart(c)
    BY <2>3 DEF LockForStart, Goto, GotoFor, LockFree
  <2>4. CASE StartSupervisor(c)
    BY <2>4 DEF StartSupervisor, Goto, GotoFor, NextStep, Unlock
  <2>5. CASE StartEnds(c)
    BY <2>5 DEF StartEnds, Goto, GotoFor, RunOver, Unlock
  <2>6. CASE FindSprint(c)
    BY <2>6 DEF FindSprint, Goto, GotoFor, Due, Settled, Claimants
  <2>7. CASE ClaimWake(c)
    BY <2>7 DEF ClaimWake, Goto, GotoFor, Unclaimed
  <2>8. CASE Reconcile(c)
    BY <2>8 DEF Reconcile, Goto, GotoFor, ToReconcile
  <2>9. CASE ReconcileNext(c)
    BY <2>9 DEF ReconcileNext, Goto, GotoFor, Untried
  <2>10. CASE Comment(c)
    BY <2>10 DEF Comment, Goto, GotoFor, Progress
  <2>11. CASE TryLock(c)
    BY <2>11 DEF TryLock, Goto, GotoFor, LockFree, AfterWake, EndInFlight
  <2>12. CASE LockThrows(c)
    BY <2>12 DEF LockThrows, Goto, GotoFor, Fail, EndInFlight, Unlock
  <2>13. CASE Wake(c)
    BY <2>13 DEF Wake, Goto, GotoFor
  <2>14. CASE WakeSucceeds(c)
    BY <2>14 DEF WakeSucceeds, Goto, GotoFor, RunOver, AfterWake, EndInFlight
  <2>15. CASE WakeFails(c)
    BY <2>15 DEF WakeFails, Goto, GotoFor, Fail, RunOver, EndInFlight, Unlock
  <2>16. CASE Revert(c)
    BY <2>16 DEF Revert, Goto, GotoFor, StillMarked, Before, AfterWake
  <2>17. CASE Compact(c)
    BY <2>17 DEF Compact, Goto, GotoFor
  <2>18. CASE Plan(c)
    BY <2>18 DEF Plan, Progress
  <2>19. CASE WriteDoc(c)
    BY <2>19 DEF WriteDoc, Progress
  <2>20. CASE CloseGoal(c)
    BY <2>20 DEF CloseGoal
  <2>. QED BY <1>1, <2>1, <2>2, <2>3, <2>4, <2>5, <2>6, <2>7, <2>8, <2>9,
      <2>10, <2>11, <2>12, <2>13, <2>14, <2>15, <2>16, <2>17, <2>18, <2>19,
      <2>20 DEF CallStep
<1>2. ASSUME NEW s \in Sprints, Settle(s)  PROVE  (InFlightHeld /\
    ReconcileOnce)'
  BY <1>2 DEF Settle
<1>3. ASSUME NEW s \in Sprints, Reopen(s)  PROVE  (InFlightHeld /\
    ReconcileOnce)'
  BY <1>3 DEF Reopen
<1>4. CASE GoalAges
  BY <1>4 DEF GoalAges
<1>5. CASE TasksAge
  BY <1>5 DEF TasksAge
<1>6. CASE Start
  BY <1>6 DEF Start
<1>7. CASE BootScan
  BY <1>7 DEF BootScan, Orphaned, Settled
<1>8. CASE BootRevert
  BY <1>8 DEF BootRevert, StillMarked, Before
<1>9. CASE Crash
  BY <1>9 DEF Crash
<1>10. CASE UNCHANGED vars
  BY <1>10 DEF vars
<1>11. CASE Respond
  BY <1>11 DEF Respond, Progress
<1>12. CASE Stop
  BY <1>12 DEF Stop
<1>13. CASE WakeGoal
  BY <1>13 DEF WakeGoal
<1>14. CASE GoalTouched
  BY <1>14 DEF GoalTouched
<1>. QED BY <1>1, <1>2, <1>3, <1>4, <1>5, <1>6, <1>7, <1>8, <1>9, <1>10,
    <1>11, <1>12, <1>13, <1>14 DEF Next

-----------------------------------------------------------------------------
(* The initial states satisfy the invariant.                               *)
LEMMA InitInv == Init => WakeInv
<1>. SUFFICES ASSUME Init  PROVE WakeInv
  OBVIOUS
<1>. USE Bounds, Disjoint DEF Init
<1>1. TypeOK
  <2>1. GoalTyped
    <3>1. sprint \in [1..MaxSprint -> {"none", "open", "settled"}]
      BY DEF Sprints
    <3>2. 0 \in 0..MaxSprint /\ 0 \in 0..MaxStarts /\ 0 \in 0..MaxEdits
      OBVIOUS
    <3>3. TRUE \in BOOLEAN /\ FALSE \in BOOLEAN  OBVIOUS
    <3>. QED BY <3>1, <3>2, <3>3, Zenon DEF GoalTyped, Sprints
  <2>2. CallsTyped  BY DEF CallsTyped, Steps
  <2>3. RunsTyped  BY DEF RunsTyped
  <2>. QED BY <2>1, <2>2, <2>3 DEF TypeOK
<1>2. StepsByKind /\ TargetsPicked /\ LockHeld
  BY DEF StepsByKind, TargetsPicked, Picked, LockHeld
<1>3. DownIdle /\ SweepSafe
  BY DEF DownIdle, SweepSafe
<1>4. WakeOwned /\ InFlightHeld /\ ReconcileOnce
  BY DEF WakeOwned, Owns, InFlightHeld, ReconcileOnce, Reconciling
<1>. QED BY <1>1, <1>2, <1>3, <1>4 DEF WakeInv

(* Every step preserves it.                                                *)
LEMMA StepInv == WakeInv /\ [Next]_vars => WakeInv'
BY GoalTyping, CallTyping, RunTyping, Placing, Locking, Dying, Owning, InFlight
   DEF WakeInv, TypeOK

(* Every reachable state of GoalWake satisfies the inductive invariant.    *)
THEOREM WakeInvariant == Spec => []WakeInv
BY InitInv, StepInv, PTL DEF Spec

(* The state of the goal row, the lock and the calls is well formed.       *)
THEOREM WakeTypeCorrect == Spec => []TypeOK
<1>1. WakeInv => TypeOK  BY DEF WakeInv
<1>. QED BY WakeInvariant, <1>1, PTL

(* Starts, sprint wakes and comment wakes of one goal never overlap: the   *)
(* advisory lock names one running call. The unlocked compaction restart   *)
(* is the exception.                                                       *)
THEOREM OneSupervisorHolds == Spec => []OneSupervisor
<1>1. WakeInv => OneSupervisor
  BY DEF WakeInv, LockHeld, OneSupervisor, Running
<1>. QED BY WakeInvariant, <1>1, PTL

(* A claimed sprint wake belongs to one caller until it succeeds or is     *)
(* taken back, across detectors with stale lists, failed claims, crashes   *)
(* and the unlocked boot sweep.                                            *)
THEOREM WakeOwnedHolds == Spec => []WakeOwned
<1>1. WakeInv => WakeOwned  BY DEF WakeInv
<1>. QED BY WakeInvariant, <1>1, PTL

(* Overlapping reconciliation passes never wake a goal for the same sprint *)
(* at once, nor again after a success.                                     *)
THEOREM ReconcileOnceHolds == Spec => []ReconcileOnce
<1>1. WakeInv => ReconcileOnce  BY DEF WakeInv
<1>. QED BY WakeInvariant, <1>1, PTL

-----------------------------------------------------------------------------
(* Refinement: last_woken_sprint is a mark that its owner alone moves.     *)

LEMMA OwnersSame ==
  ASSUME \A d \in Callers : /\ Owns(d)' <=> Owns(d)
                            /\ Owns(d) => target'[d] = target[d]
  PROVE  Owned' = Owned
BY DEF Owned

LEMMA OwnerLeaves ==
  ASSUME NEW c \in Callers, Owns(c), ~Owns(c)',
         \A d \in Callers \ {c} : /\ Owns(d)' <=> Owns(d)
                                  /\ Owns(d) => target'[d] = target[d]
  PROVE  <<c, target[c]>> \in Owned /\ Owned' = Owned \ {<<c, target[c]>>}
BY DEF Owned

LEMMA OwnerComes ==
  ASSUME NEW c \in Callers, ~Owns(c), Owns(c)',
         \A d \in Callers \ {c} : /\ Owns(d)' <=> Owns(d)
                                  /\ Owns(d) => target'[d] = target[d]
  PROVE  Owned' = Owned \cup {<<c, target'[c]>>} /\ \A o \in Owned : o[1] # c
BY DEF Owned

(* A step of c that leaves the mark alone keeps its wake or is done with it. *)
LEMMA MarkLeftAlone ==
  ASSUME NEW c \in Callers, UNCHANGED <<lastWoken, rearmed>>,
         Owns(c)' => Owns(c) /\ target'[c] = target[c],
         \A d \in Callers \ {c} : pc'[d] = pc[d] /\ target'[d] = target[d]
  PROVE  [Mark!Done]_(Mark!vars)
<1>1. \A d \in Callers \ {c} : (Owns(d)' <=> Owns(d)) /\ target'[d] = target[d]
  BY DEF Owns
<1>2. CASE Owns(c) /\ ~Owns(c)'
  BY <1>1, <1>2, OwnerLeaves DEF Mark!Done
<1>3. CASE Owns(c)' <=> Owns(c)
  BY <1>1, <1>3, OwnersSame DEF Mark!vars
<1>. QED BY <1>2, <1>3

LEMMA MarkInit == Init => Mark!Init
BY DEF Init, Mark!Init, Owned, Owns

LEMMA MarkClaim ==
  ASSUME WakeInv, NEW c \in Callers, ClaimWake(c)
  PROVE  [Mark!Raise \/ Mark!Loose]_(Mark!vars)
<1>. USE DEF WakeInv, TypeOK, CallsTyped, GoalTyped
<1>1. /\ pc[c] = "claim" /\ c \in Claimants /\ target[c] \in Sprints /\ ~Owns(c)
      /\ UNCHANGED rearmed
  BY DEF ClaimWake, StepsByKind, TargetsPicked, Picked, Owns, Goto, GotoFor, histVars
<1>2. \A d \in Callers \ {c} : (Owns(d)' <=> Owns(d)) /\ target'[d] = target[d]
  BY <1>1 DEF ClaimWake, Owns, Goto, GotoFor
<1>3. CASE ~Unclaimed(target[c])
  <2>1. ~Owns(c)' /\ UNCHANGED lastWoken
    BY <1>1, <1>3 DEF ClaimWake, Owns, Goto, GotoFor
  <2>. QED BY <1>1, <1>2, <2>1, OwnersSame DEF Mark!vars
<1>4. CASE Unclaimed(target[c])
  <2>1. lastWoken < target[c] /\ lastWoken' = target[c] /\ pc'[c] = "lock" /\ target'[c] = target[c]
    BY <1>1, <1>4 DEF ClaimWake, Unclaimed, Goto, GotoFor
  <2>2. Owns(c)' <=> target[c] > rearmed
    BY <1>1, <2>1 DEF Owns
  <2>3. CASE target[c] > rearmed
    <3>1. Owned' = Owned \cup {<<c, target[c]>>} /\ \A o \in Owned : o[1] # c
      BY <1>1, <1>2, <2>1, <2>2, <2>3, OwnerComes
    <3>2. rearmed < target[c]
      BY <1>1, <2>3 DEF Sprints
    <3>. QED BY <1>1, <2>1, <3>1, <3>2 DEF Mark!Raise
  <2>4. CASE ~(target[c] > rearmed)
    <3>1. Owned' = Owned
      BY <1>1, <1>2, <2>2, <2>4, OwnersSame
    <3>2. lastWoken <= rearmed /\ lastWoken' <= rearmed
      BY <1>1, <2>1, <2>4, Bounds DEF Sprints
    <3>. QED BY <1>1, <3>1, <3>2 DEF Mark!Loose
  <2>. QED BY <2>3, <2>4
<1>. QED BY <1>3, <1>4

LEMMA MarkRevert ==
  ASSUME WakeInv, NEW c \in Callers, Revert(c)
  PROVE  [Mark!PutBack \/ Mark!Done \/ Mark!Loose]_(Mark!vars)
<1>. USE DEF WakeInv, TypeOK, CallsTyped, GoalTyped
<1>1. /\ pc[c] = "revert" /\ c \in Claimants /\ target[c] \in Sprints
      /\ UNCHANGED rearmed /\ ~Owns(c)'
      /\ \A d \in Callers \ {c} : pc'[d] = pc[d] /\ target'[d] = target[d]
  BY DEF Revert, StepsByKind, TargetsPicked, Picked, Owns, Goto, GotoFor, AfterWake, histVars
<1>2. CASE UNCHANGED lastWoken
  BY <1>1, <1>2, MarkLeftAlone
<1>3. CASE lastWoken = target[c] /\ lastWoken' = lastWoken - 1
  <2>1. \A d \in Callers \ {c} : (Owns(d)' <=> Owns(d)) /\ target'[d] = target[d]
    BY <1>1 DEF Owns
  <2>2. CASE Owns(c)
    <3>1. <<c, target[c]>> \in Owned /\ Owned' = Owned \ {<<c, target[c]>>}
      BY <1>1, <2>1, <2>2, OwnerLeaves
    <3>. QED BY <1>1, <1>3, <3>1 DEF Mark!PutBack
  <2>3. CASE ~Owns(c)
    <3>1. Owned' = Owned
      BY <1>1, <2>1, <2>3, OwnersSame
    <3>2. lastWoken <= rearmed /\ lastWoken' <= rearmed
      BY <1>1, <1>3, <2>3, Bounds DEF Owns, Sprints
    <3>. QED BY <1>1, <3>1, <3>2 DEF Mark!Loose
  <2>. QED BY <2>2, <2>3
<1>. QED BY <1>2, <1>3 DEF Revert, StillMarked, Before

(* The boot sweep takes no lock; what it lowers, nobody owns. *)
LEMMA MarkBootRevert ==
  ASSUME WakeInv, BootRevert
  PROVE  [Mark!Sweep \/ Mark!Loose]_(Mark!vars)
<1>. USE DEF WakeInv, TypeOK, GoalTyped
<1>1. Owned' = Owned /\ UNCHANGED rearmed /\ orphan \in Sprints
  BY OwnersSame DEF BootRevert, callVars, histVars, Owns
<1>2. CASE UNCHANGED lastWoken
  BY <1>1, <1>2 DEF Mark!vars
<1>3. CASE lastWoken = orphan /\ lastWoken' = lastWoken - 1
  <2>1. \A d \in Callers : ~Owns(d)
    <3>. SUFFICES ASSUME NEW d \in Callers, Owns(d) PROVE FALSE
      OBVIOUS
    <3>1. orphan < target[d] /\ target[d] <= lastWoken
      BY <1>1 DEF SweepSafe, WakeOwned, Sprints, CallsTyped
    <3>. QED BY <1>1, <1>3, <3>1 DEF Sprints, CallsTyped
  <2>2. Owned = {}
    BY <2>1 DEF Owned
  <2>3. CASE lastWoken > rearmed
    BY <1>1, <1>3, <2>2, <2>3 DEF Mark!Sweep
  <2>4. CASE ~(lastWoken > rearmed)
    <3>1. lastWoken <= rearmed /\ lastWoken' <= rearmed
      BY <1>1, <1>3, <2>4, Bounds DEF Sprints
    <3>. QED BY <1>1, <3>1 DEF Mark!Loose
  <2>. QED BY <2>3, <2>4
<1>. QED BY <1>2, <1>3 DEF BootRevert, StillMarked, Before

LEMMA MarkWakeGoal ==
  ASSUME WakeInv, WakeGoal
  PROVE  Mark!Reset
<1>. USE DEF WakeInv, TypeOK, GoalTyped, CallsTyped
<1>1. /\ lastWoken' = 0 /\ rearmed' = IF lastWoken > rearmed THEN lastWoken ELSE rearmed
      /\ UNCHANGED <<pc, target>>
  BY DEF WakeGoal, callVars
<1>2. \A d \in Callers : ~Owns(d)'
  <2>. SUFFICES ASSUME NEW d \in Callers, Owns(d)' PROVE FALSE
    OBVIOUS
  <2>1. target[d] > rearmed'
    BY <1>1 DEF Owns
  <2>2. target[d] > rearmed
    BY <1>1, <2>1, Bounds
  <2>3. target[d] <= lastWoken
    BY <1>1, <2>2, Bounds DEF Owns, WakeOwned
  <2>. QED BY <1>1, <2>1, <2>3, Bounds
<1>3. Owned' = {}
  BY <1>2 DEF Owned
<1>. QED BY <1>1, <1>3 DEF Mark!Reset

LEMMA MarkCall ==
  ASSUME WakeInv, NEW c \in Callers, CallStep(c)
  PROVE  [Mark!Next]_(Mark!vars)
<1>. USE DEF WakeInv, TypeOK, CallsTyped
<1>1. CASE ClaimWake(c)
  BY <1>1, MarkClaim DEF Mark!Next
<1>2. CASE Revert(c)
  BY <1>2, MarkRevert DEF Mark!Next
<1>3. CASE Plan(c) \/ WriteDoc(c) \/ CloseGoal(c)
  <2>1. UNCHANGED <<lastWoken, rearmed, pc, target>>
    BY <1>3 DEF Plan, WriteDoc, CloseGoal, goalVars, histVars, callVars
  <2>. QED BY <2>1, MarkLeftAlone DEF Mark!Next, Owns
<1>4. CASE ~ClaimWake(c) /\ ~Revert(c) /\ ~(Plan(c) \/ WriteDoc(c) \/ CloseGoal(c))
  <2>1. UNCHANGED <<lastWoken, rearmed>>
    BY <1>4 DEF CallStep, Poll, Discover, LockForStart, StartSupervisor, StartEnds, FindSprint,
       Reconcile, ReconcileNext, Comment, TryLock, LockThrows, Wake, WakeSucceeds, WakeFails,
       Compact, goalVars, histVars
  <2>2. \A d \in Callers \ {c} : pc'[d] = pc[d] /\ target'[d] = target[d]
    BY <1>4 DEF CallStep, Poll, Discover, LockForStart, StartSupervisor, StartEnds, FindSprint,
       Reconcile, ReconcileNext, Comment, TryLock, LockThrows, Wake, WakeSucceeds, WakeFails,
       Compact, Fail, Goto, GotoFor
  <2>3. Owns(c)' => Owns(c) /\ target'[c] = target[c]
    <3>1. CASE c \notin Claimants
      BY <3>1 DEF Owns
    <3>2. CASE c \in Claimants
      <4>1. ~Reconcile(c) /\ ~ReconcileNext(c) /\ ~Comment(c)
        BY <3>2, Disjoint DEF Reconcile, ReconcileNext, Comment, StepsByKind
      <4>2. pc'[c] \in {"lock", "wake", "run", "revert"} =>
              /\ pc[c] \in {"lock", "wake", "run", "revert"} /\ target'[c] = target[c]
        BY <1>4, <3>2, <4>1 DEF CallStep, Poll, Discover, LockForStart, StartSupervisor, StartEnds,
           FindSprint, TryLock, LockThrows, Wake, WakeSucceeds, WakeFails, Compact, Fail, Goto,
           GotoFor, NextStep, AfterWake
      <4>. QED BY <2>1, <4>2 DEF Owns
    <3>. QED BY <3>1, <3>2
  <2>. QED BY <2>1, <2>2, <2>3, MarkLeftAlone DEF Mark!Next
<1>. QED BY <1>1, <1>2, <1>3, <1>4

LEMMA MarkStep == WakeInv /\ [Next]_vars => [Mark!Next]_(Mark!vars)
<1>. SUFFICES ASSUME WakeInv, [Next]_vars PROVE [Mark!Next]_(Mark!vars)
  OBVIOUS
<1>1. CASE \E c \in Callers : CallStep(c)
  BY <1>1, MarkCall
<1>2. CASE BootRevert
  BY <1>2, MarkBootRevert DEF Mark!Next
<1>3. CASE WakeGoal
  BY <1>3, MarkWakeGoal DEF Mark!Next
<1>4. CASE Crash
  <2>1. UNCHANGED <<lastWoken, rearmed>> /\ \A d \in Callers : pc'[d] = "idle"
    BY <1>4 DEF Crash, goalVars
  <2>2. Owned' = {}
    BY <2>1 DEF Owned, Owns
  <2>. QED BY <2>1, <2>2 DEF Mark!Next, Mark!Crash
<1>5. CASE \/ \E s \in Sprints : Settle(s) \/ Reopen(s)
           \/ Respond \/ Stop \/ GoalTouched \/ GoalAges \/ TasksAge \/ Start \/ BootScan
           \/ UNCHANGED vars
  <2>1. UNCHANGED <<lastWoken, rearmed, pc, target>>
    BY <1>5 DEF Settle, Reopen, Respond, Stop, GoalTouched, GoalAges, TasksAge, Start, BootScan,
       vars, goalVars, histVars, callVars
  <2>2. Owned' = Owned
    BY <2>1 DEF Owned, Owns
  <2>. QED BY <2>1, <2>2 DEF Mark!vars
<1>. QED BY <1>1, <1>2, <1>3, <1>4, <1>5 DEF Next

(* The claim of a sprint, its revert, the boot sweep and wake_goal keep    *)
(* the rules of a mark that its owner alone moves, for any number of       *)
(* callers, sprints and restarts.                                          *)
THEOREM MarkHolds == Spec => MarkImplemented
BY MarkInit, MarkStep, WakeInvariant, PTL DEF Spec, MarkImplemented, Mark!Spec

-----------------------------------------------------------------------------
(* Nothing is left behind.                                                 *)

Holding(c) == pc[c] \in {"start", "startRun", "wake", "run"}

(* A call that takes a step keeps, or gives back, what was its own.        *)
LEMMA CallLeaves ==
  ASSUME CallsTyped, RunsTyped, NothingLeftBehind, NEW c \in Callers,
         \A d \in Callers \ {c} : pc'[d] = pc[d] /\ target'[d] = target[d],
         \/ lock' = lock /\ (lock = c => Holding(c)')
         \/ lock' = c /\ Holding(c)'
         \/ lock' = None,
         \A s \in inFlight' : \/ s \in inFlight /\ ~(Reconciling(c) /\ target[c] = s)
                              \/ Reconciling(c)' /\ target'[c] = s
  PROVE  NothingLeftBehind'
<1>1. ASSUME lock' # None PROVE pc'[lock'] \in {"start", "startRun", "wake", "run"}
  BY <1>1 DEF NothingLeftBehind, Holding, RunsTyped
<1>2. ASSUME NEW s \in inFlight' PROVE \E d \in Callers : Reconciling(d)' /\ target'[d] = s
  <2>1. CASE Reconciling(c)' /\ target'[c] = s
    BY <2>1
  <2>2. CASE s \in inFlight /\ ~(Reconciling(c) /\ target[c] = s)
    <3>1. PICK d \in Callers : Reconciling(d) /\ target[d] = s
      BY <2>2 DEF NothingLeftBehind
    <3>. QED BY <2>2, <3>1 DEF Reconciling
  <2>. QED BY <1>2, <2>1, <2>2
<1>. QED BY <1>1, <1>2 DEF NothingLeftBehind

LEMMA CallLeft ==
  ASSUME WakeInv, NothingLeftBehind, NEW c \in Callers, CallStep(c)
  PROVE  NothingLeftBehind'
<1>. USE Disjoint DEF WakeInv, TypeOK, CallsTyped, RunsTyped, StepsByKind, Goto, GotoFor, Holding,
     Reconciling, goalVars, taskVars, procVars, callVars, reconVars, histVars
<1>0. lock = c => Holding(c)
  BY DEF NothingLeftBehind
<1>1. CASE Poll(c) \/ Discover(c) \/ FindSprint(c) \/ ClaimWake(c) \/ Revert(c) \/ Compact(c)
  BY <1>0, <1>1, CallLeaves DEF Poll, Discover, FindSprint, ClaimWake, Revert, Compact, Claimants
<1>2. CASE LockForStart(c)
  BY <1>0, <1>2, CallLeaves DEF LockForStart
<1>3. CASE StartSupervisor(c) \/ StartEnds(c)
  BY <1>0, <1>3, CallLeaves DEF StartSupervisor, StartEnds, NextStep, Unlock, RunOver
<1>4. CASE Reconcile(c) \/ ReconcileNext(c) \/ Comment(c)
  BY <1>0, <1>4, CallLeaves DEF Reconcile, ReconcileNext, Comment
<1>5. CASE TryLock(c)
  BY <1>0, <1>5, CallLeaves DEF TryLock, LockFree, AfterWake, EndInFlight
<1>6. CASE LockThrows(c) \/ WakeFails(c)
  BY <1>0, <1>6, CallLeaves DEF LockThrows, WakeFails, Fail, EndInFlight, Unlock, RunOver
<1>7. CASE Wake(c)
  BY <1>0, <1>7, CallLeaves DEF Wake
<1>8. CASE WakeSucceeds(c)
  BY <1>0, <1>8, CallLeaves DEF WakeSucceeds, EndInFlight, RunOver
<1>9. CASE Plan(c) \/ WriteDoc(c) \/ CloseGoal(c)
  BY <1>0, <1>9, CallLeaves DEF Plan, WriteDoc, CloseGoal
<1>. QED BY <1>1, <1>2, <1>3, <1>4, <1>5, <1>6, <1>7, <1>8, <1>9 DEF CallStep

(* Whatever fails, throws or dies, the wake lock and the entries of        *)
(* inFlight belong to a call at work, for any number of callers.           *)
THEOREM NothingLeftHolds == Spec => []NothingLeftBehind
<1>1. Init => NothingLeftBehind
  BY DEF Init, NothingLeftBehind
<1>2. WakeInv /\ NothingLeftBehind /\ [Next]_vars => NothingLeftBehind'
  <2>. SUFFICES ASSUME WakeInv, NothingLeftBehind, [Next]_vars PROVE NothingLeftBehind'
    OBVIOUS
  <2>1. CASE \E c \in Callers : CallStep(c)
    BY <2>1, CallLeft
  <2>2. CASE Crash
    BY <2>2 DEF Crash, NothingLeftBehind
  <2>3. CASE \/ \E s \in Sprints : Settle(s) \/ Reopen(s)
             \/ Respond \/ Stop \/ WakeGoal \/ GoalTouched \/ GoalAges \/ TasksAge \/ Start
             \/ BootScan \/ BootRevert \/ UNCHANGED vars
    <3>1. UNCHANGED <<lock, inFlight, pc, target>>
      BY <2>3 DEF Settle, Reopen, Respond, Stop, WakeGoal, GoalTouched, GoalAges, TasksAge, Start,
         BootScan, BootRevert, vars, callVars, reconVars
    <3>. QED BY <3>1 DEF NothingLeftBehind, Reconciling
  <2>. QED BY <2>1, <2>2, <2>3 DEF Next
<1>. QED BY <1>1, <1>2, WakeInvariant, PTL DEF Spec
=============================================================================
