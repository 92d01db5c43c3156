------------------------------ MODULE GoalWake ------------------------------
(***************************************************************************)
(* The goal supervisor of one goal: who may start it and who may wake it.  *)
(* The lifecycle poll, the immediate check at the end of an execution, the *)
(* reconciliation pass, the boot sweep and owner comments all act on the   *)
(* same goal row: they claim a settled sprint by raising last_woken_sprint,*)
(* run the supervisor under a per-goal advisory lock, and lower the mark   *)
(* again when the wake fails.                                              *)
(*                                                                         *)
(* Goals share nothing but time: while a caller waits for the supervisors  *)
(* of other goals it holds the list it read before, so reading the list    *)
(* and acting on it are separate steps.                                    *)
(***************************************************************************)
EXTENDS Integers, FiniteSets

CONSTANTS
  Pollers,       \* overlapping runGoalLifecycleCheck calls
  Executors,     \* executeTask calls that reach the immediate check
  Reconcilers,   \* overlapping reconciliation passes
  Commenters,    \* overlapping handleNewGoalComment calls
  MaxSprint,     \* bound: sprints the supervisor plans
  MaxStarts,     \* bound: starts of the dispatcher
  MaxEdits,      \* bound: edits from outside (owner, budget, hive supervisor)
  Overlap,       \* may the supervisor plan a sprint before the last settled?
  CompactAfter,  \* completed sprints after which the session is compacted
  None

ASSUME GoalAssumption ==
  /\ MaxSprint \in Nat /\ MaxStarts \in Nat /\ MaxEdits \in Nat
  /\ CompactAfter \in Nat \ {0} /\ Overlap \in BOOLEAN
  /\ Pollers \cap (Executors \cup Reconcilers \cup Commenters) = {}
  /\ Executors \cap (Reconcilers \cup Commenters) = {}
  /\ Reconcilers \cap Commenters = {}
  /\ None \notin Pollers \cup Executors \cup Reconcilers \cup Commenters

Claimants == Pollers \cup Executors       \* they claim sprints
Callers == Claimants \cup Reconcilers \cup Commenters
Sprints == 1..MaxSprint

VARIABLES
  goal,        \* goals.status: active, parked (an answer opens it), over
  session,     \* goals.session_id is set
  lastWoken,   \* goals.last_woken_sprint
  quiet,       \* goals.updated_at is older than staleAfterMinutes
  sprint,      \* tasks of each sprint: none, some open, all settled
  newest,      \* sprint of the task updated last
  tasksQuiet,  \* that update is older than two minutes
  docs,        \* a goal document, comment or decision exists
  lock,        \* advisory lock hivewright:goal-supervisor-wake
  up, starts,  \* the dispatcher process
  booting,     \* its boot sweep has not read yet
  orphan,      \* the sprint the sweep found orphaned, or 0
  pc, target,  \* one call: its step, and the sprint it acts on
  progressed,  \* something durable has appeared since its run began
  inFlight, fired, \* SupervisorWakeReconciliationState
  edits,       \* bound: edits so far
  rearmed,     \* history: last sprint whose mark wake_goal has lowered
  saw,         \* history: settled sprints the run of a call can see
  informed     \* history: settlements some successful run has seen

goalVars == <<goal, session, lastWoken, quiet>>
taskVars == <<sprint, newest, tasksQuiet, docs>>
procVars == <<up, starts, booting, orphan>>
callVars == <<pc, target, progressed>>
reconVars == <<inFlight, fired>>
histVars == <<edits, rearmed, saw, informed>>
vars == <<goal, session, lastWoken, quiet, sprint, newest, tasksQuiet, docs,
          lock, up, starts, booting, orphan, pc, target, progressed, inFlight,
          fired, edits, rearmed, saw, informed>>

Steps == {"idle", "discover", "startLock", "start", "startRun", "sprints",
          "claim", "lock", "wake", "run", "revert", "compact", "restart",
          "restartRun", "listed"}

GoalTyped ==
  /\ goal \in {"active", "parked", "over"} /\ session \in BOOLEAN /\ quiet \in BOOLEAN
  /\ lastWoken \in 0..MaxSprint
  /\ sprint \in [Sprints -> {"none", "open", "settled"}]
  /\ newest \in 0..MaxSprint /\ tasksQuiet \in BOOLEAN /\ docs \in BOOLEAN
  /\ up \in BOOLEAN /\ starts \in 0..MaxStarts
  /\ booting \in BOOLEAN /\ orphan \in 0..MaxSprint
  /\ edits \in 0..MaxEdits /\ rearmed \in 0..MaxSprint

CallsTyped ==
  /\ pc \in [Callers -> Steps]
  /\ target \in [Callers -> 0..MaxSprint]

RunsTyped ==
  /\ lock \in Callers \cup {None}
  /\ progressed \in [Callers -> BOOLEAN]
  /\ inFlight \in SUBSET Sprints /\ fired \in SUBSET Sprints
  /\ saw \in [Callers -> SUBSET Sprints] /\ informed \in SUBSET Sprints

TypeOK == GoalTyped /\ CallsTyped /\ RunsTyped

Init ==
  /\ goal = "active" /\ session = FALSE /\ lastWoken = 0 /\ quiet = FALSE
  /\ sprint = [s \in Sprints |-> "none"]
  /\ newest = 0 /\ tasksQuiet = FALSE /\ docs = FALSE
  /\ lock = None
  /\ up = FALSE /\ starts = 0 /\ booting = FALSE /\ orphan = 0
  /\ pc = [c \in Callers |-> "idle"]
  /\ target = [c \in Callers |-> 0]
  /\ progressed = [c \in Callers |-> FALSE]
  /\ inFlight = {} /\ fired = {}
  /\ edits = 0 /\ rearmed = 0
  /\ saw = [c \in Callers |-> {}] /\ informed = {}

-----------------------------------------------------------------------------
(* Queries.                                                                *)

active == goal = "active"
Open == {s \in Sprints : sprint[s] = "open"}
Settled == {s \in Sprints : sprint[s] = "settled"}
Later(s) == {u \in Sprints : u > s /\ sprint[u] # "none"}

(* findCompletedSprintsForWakeUp. *)
Due(s) ==
  /\ active /\ session
  /\ s \in Settled /\ lastWoken < s /\ Later(s) = {}

(* findOrphanedWakeUps: no check of the wake lock. *)
Orphaned(s) ==
  /\ active /\ session /\ quiet
  /\ s \in Settled /\ lastWoken = s /\ Later(s) = {}

(* findSupervisorWakeReconciliationCandidates. *)
ToReconcile(s) ==
  /\ active /\ session /\ tasksQuiet
  /\ newest = s /\ lastWoken = s
  /\ Open = {} /\ Later(s) = {}

ZeroProgress == Open \cup Settled = {} /\ ~docs

LockAlways(c) == TRUE
LockFree(c) == lock = None

UnguardedMark(s) == TRUE
Unclaimed(s) == lastWoken < s

StillMarked(s) == lastWoken = s

Before(s) == s - 1

GotoFor(c, step, s) ==
  /\ pc' = [pc EXCEPT ![c] = step]
  /\ target' = [target EXCEPT ![c] = s]
Goto(c, step) ==
  GotoFor(c, step, IF step \in {"idle", "compact"} THEN 0 ELSE target[c])

(* A run that is over leaves nothing behind in its call.                   *)
RunOver(c) ==
  /\ progressed' = [progressed EXCEPT ![c] = FALSE]
  /\ saw' = [saw EXCEPT ![c] = {}]

Running(c) == pc[c] \in {"startRun", "run", "restartRun"}

(* What hasProgressed compares: a start run counts what appears while it   *)
(* lasts, whoever adds it.                                                 *)
Progress ==
  progressed' = [c \in Callers |->
                   progressed[c] \/ pc[c] \in {"startRun", "restartRun"}]

(* Where a call goes once its wake is over: only the poll goes on.         *)
AfterWake(c) == IF c \in Pollers THEN "compact" ELSE "idle"

(* The reconciliation's finally block.                                     *)
KeptInFlight(c) == UNCHANGED inFlight
EndInFlight(c) ==
  inFlight' = IF c \in Reconcilers THEN inFlight \ {target[c]} ELSE inFlight

-----------------------------------------------------------------------------
(* runGoalLifecycleCheck.                                                  *)

(* It starts with recoverStaleZeroProgressGoals, one statement that takes  *)
(* the wake lock for its own transaction.                                  *)
Poll(c) ==
  /\ up /\ c \in Pollers /\ pc[c] = "idle"
  /\ IF active /\ session /\ quiet /\ ZeroProgress /\ lock = None
     THEN session' = FALSE /\ quiet' = FALSE
     ELSE UNCHANGED <<session, quiet>>
  /\ Goto(c, "discover")
  /\ UNCHANGED <<goal, lastWoken, taskVars, lock, procVars, progressed,
                 reconVars, histVars>>

(* findNewGoals. *)
Discover(c) ==
  /\ pc[c] = "discover"
  /\ Goto(c, IF active /\ ~session THEN "startLock" ELSE "sprints")
  /\ UNCHANGED <<goalVars, taskVars, lock, procVars, progressed, reconVars,
                 histVars>>

LockForStart(c) ==
  /\ pc[c] = "startLock"
  /\ IF LockFree(c)
     THEN lock' = c /\ Goto(c, "start")
     ELSE UNCHANGED lock /\ Goto(c, "sprints")
  /\ UNCHANGED <<goalVars, taskVars, procVars, progressed, reconVars,
                 histVars>>

(* startGoalSupervisor up to the run: claimGoalSupervisorStart, then the   *)
(* disk gate, which gives the claim back, or an exception, which does not. *)
(* The compaction restart takes the same path without the lock.            *)
NextStep(c) == IF pc[c] = "start" THEN "sprints" ELSE "idle"
Unlock(c) == lock' = IF lock = c THEN None ELSE lock

StartSupervisor(c) ==
  /\ pc[c] \in {"start", "restart"}
  /\ \/ /\ active /\ ~session
        /\ session' = TRUE /\ quiet' = FALSE
        /\ Goto(c, IF pc[c] = "start" THEN "startRun" ELSE "restartRun")
        /\ saw' = [saw EXCEPT ![c] = Settled]
        /\ UNCHANGED lock
     \/ /\ active /\ ~session
        /\ session' \in BOOLEAN /\ quiet' = FALSE
        /\ Goto(c, NextStep(c)) /\ Unlock(c)
        /\ UNCHANGED saw
     \/ /\ ~active \/ session
        /\ Goto(c, NextStep(c)) /\ Unlock(c)
        /\ UNCHANGED <<session, quiet, saw>>
  /\ UNCHANGED <<goal, lastWoken, taskVars, procVars, progressed, reconVars,
                 edits, rearmed, informed>>

(* The start run ends: finalizeGoalSupervisorStart keeps the session if the*)
(* goal has closed or something durable has appeared since the claim; a    *)
(* failed run, or one without progress, gives the session up; an exception *)
(* changes nothing.                                                        *)
StartEnds(c) ==
  /\ pc[c] \in {"startRun", "restartRun"}
  /\ \/ /\ progressed[c] \/ ~active
        /\ informed' = informed \cup saw[c]
        /\ UNCHANGED <<session, quiet>>
     \/ /\ active /\ session
        /\ session' = FALSE /\ quiet' = FALSE
        /\ UNCHANGED informed
     \/ UNCHANGED <<session, quiet, informed>>
  /\ Unlock(c) /\ RunOver(c)
  /\ Goto(c, IF pc[c] = "startRun" THEN "sprints" ELSE "idle")
  /\ UNCHANGED <<goal, lastWoken, taskVars, procVars, reconVars, edits, rearmed>>

(* findCompletedSprintsForWakeUp; the immediate check enters here and looks*)
(* for the sprint of its own task.                                         *)
FindSprint(c) ==
  /\ \/ pc[c] = "sprints"
     \/ up /\ c \in Executors /\ pc[c] = "idle" /\ Open \cup Settled # {}
  /\ \/ \E s \in Sprints : /\ Due(s) /\ GotoFor(c, "claim", s)
     \/ /\ c \in Executors \/ \A s \in Sprints : ~Due(s)
        /\ Goto(c, "idle")
  /\ UNCHANGED <<goalVars, taskVars, lock, procVars, progressed, reconVars,
                 histVars>>

(* claimSprintWakeUp: the conditional UPDATE decides who wakes.            *)
ClaimWake(c) ==
  /\ pc[c] = "claim"
  /\ IF Unclaimed(target[c])
     THEN lastWoken' = target[c] /\ quiet' = FALSE /\ Goto(c, "lock")
     ELSE UNCHANGED <<lastWoken, quiet>> /\ Goto(c, "idle")
  /\ UNCHANGED <<goal, session, taskVars, lock, procVars, progressed,
                 reconVars, histVars>>

-----------------------------------------------------------------------------
(* The other callers of the wake.                                          *)

(* The reconciliation pass lists its candidates ...                        *)
Reconcile(c) ==
  /\ up /\ c \in Reconcilers /\ pc[c] = "idle"
  /\ \E s \in Sprints : ToReconcile(s) /\ GotoFor(c, "listed", s)
  /\ UNCHANGED <<goalVars, taskVars, lock, procVars, progressed, reconVars,
                 histVars>>

(* ... and comes to this goal's candidate later.                           *)
NotTried(s) == s \notin fired
Untried(s) == s \notin fired \cup inFlight

ReconcileNext(c) ==
  /\ pc[c] = "listed"
  /\ IF Untried(target[c])
     THEN inFlight' = inFlight \cup {target[c]} /\ Goto(c, "lock")
     ELSE UNCHANGED inFlight /\ Goto(c, "idle")
  /\ UNCHANGED <<goalVars, taskVars, lock, procVars, progressed, fired,
                 histVars>>

(* An owner comment, and handleNewGoalComment up to the lock. Which of the *)
(* comments a wake handles is left out.                                    *)
Comment(c) ==
  /\ up /\ c \in Commenters /\ pc[c] = "idle" /\ active /\ session
  /\ docs' = TRUE /\ Progress
  /\ Goto(c, "lock")
  /\ UNCHANGED <<goalVars, sprint, newest, tasksQuiet, lock, procVars,
                 reconVars, histVars>>

-----------------------------------------------------------------------------
(* withGoalSupervisorWakeLock and the supervisor run.                      *)

(* Not acquired: a sprint wake is coalesced, the mark stays (wakeOk).      *)
TryLock(c) ==
  /\ pc[c] = "lock"
  /\ IF LockFree(c)
     THEN lock' = c /\ Goto(c, "wake") /\ UNCHANGED inFlight
     ELSE UNCHANGED lock /\ Goto(c, AfterWake(c)) /\ EndInFlight(c)
  /\ UNCHANGED <<goalVars, taskVars, procVars, progressed, fired, histVars>>

(* Where a failed wake leaves a call. *)
Fail(c) ==
  /\ Goto(c, IF c \in Claimants THEN "revert" ELSE "idle")
  /\ EndInFlight(c)
  /\ Unlock(c)

(* reserve() or the lock query throws. *)
LockThrows(c) ==
  /\ pc[c] = "lock" /\ Fail(c)
  /\ UNCHANGED <<goalVars, taskVars, procVars, progressed, fired, histVars>>

(* wakeUpSupervisor: read the session, build the prompt, pass the disk     *)
(* gate, spawn.                                                            *)
Wake(c) ==
  /\ pc[c] = "wake" /\ session
  /\ Goto(c, "run")
  /\ saw' = [saw EXCEPT ![c] = Settled]
  /\ UNCHANGED <<goalVars, taskVars, lock, procVars, progressed, reconVars,
                 edits, rearmed, informed>>

WakeSucceeds(c) ==
  /\ pc[c] = "run"
  /\ informed' = informed \cup saw[c]
  /\ fired' = IF c \in Reconcilers THEN fired \cup {target[c]} ELSE fired
  /\ EndInFlight(c)
  /\ lock' = None /\ RunOver(c)
  /\ Goto(c, AfterWake(c))
  /\ UNCHANGED <<goalVars, taskVars, procVars, edits, rearmed>>

WakeFails(c) ==
  /\ pc[c] \in {"wake", "run"} /\ Fail(c) /\ RunOver(c)
  /\ UNCHANGED <<goalVars, taskVars, procVars, fired, edits, rearmed, informed>>

(* revertSprintWakeUp, after the lock was released. When its query fails   *)
(* the whole check is over, and the mark stays.                            *)
Revert(c) ==
  /\ pc[c] = "revert"
  /\ \/ /\ StillMarked(target[c]) /\ lastWoken' = Before(target[c])
        /\ Goto(c, AfterWake(c))
     \/ /\ ~StillMarked(target[c]) /\ Goto(c, AfterWake(c))
        /\ UNCHANGED lastWoken
     \/ Goto(c, "idle") /\ UNCHANGED lastWoken
  /\ UNCHANGED <<goal, session, quiet, taskVars, lock, procVars,
                 progressed, reconVars, histVars>>

(* The compaction check of the poll counts sprints with a completed task;  *)
(* terminateGoalSupervisor, and then a start that does not take the wake   *)
(* lock.                                                                   *)
Compact(c) ==
  /\ pc[c] = "compact"
  /\ \/ /\ Cardinality(Open \cup Settled) >= CompactAfter
        /\ session' = FALSE /\ Goto(c, "restart")
     \/ UNCHANGED session /\ Goto(c, "idle")
  /\ UNCHANGED <<goal, lastWoken, quiet, taskVars, lock, procVars,
                 progressed, reconVars, histVars>>

-----------------------------------------------------------------------------
(* The supervisor, through its tools: each call proves that the session of *)
(* the goal is the caller's, and all sessions of a goal have one name.     *)

Plan(c) ==
  /\ Running(c) /\ active /\ session
  /\ Overlap \/ Open = {}
  /\ \E s \in Sprints :
       /\ sprint[s] = "none" /\ Later(s) = {}
       /\ \A u \in Sprints : u < s => sprint[u] # "none"
       /\ sprint' = [sprint EXCEPT ![s] = "open"]
       /\ newest' = s
  /\ tasksQuiet' = FALSE
  /\ Progress
  /\ UNCHANGED <<goalVars, docs, lock, procVars, pc, target, reconVars,
                 histVars>>

WriteDoc(c) ==
  /\ Running(c) /\ active /\ session
  /\ docs' = TRUE
  /\ Progress
  /\ UNCHANGED <<goalVars, sprint, newest, tasksQuiet, lock, procVars, pc,
                 target, reconVars, histVars>>

(* completeGoal clears the session and cancels the tasks still open. *)
CloseGoal(c) ==
  /\ Running(c) /\ active /\ session
  /\ goal' = "parked" /\ session' = FALSE /\ quiet' = FALSE
  /\ sprint' = [s \in Sprints |->
                  IF sprint[s] = "open" THEN "settled" ELSE sprint[s]]
  /\ UNCHANGED <<lastWoken, newest, tasksQuiet, docs, lock, procVars, callVars,
                 reconVars, histVars>>

-----------------------------------------------------------------------------
(* The rest of the system.                                                 *)

(* The last open task of sprint s ends. *)
Settle(s) ==
  /\ sprint[s] = "open"
  /\ sprint' = [sprint EXCEPT ![s] = "settled"]
  /\ newest' = s /\ tasksQuiet' = FALSE
  /\ informed' = informed \ {s}
  /\ saw' = [c \in Callers |-> saw[c] \ {s}]
  /\ UNCHANGED <<goalVars, docs, lock, procVars, callVars, reconVars, edits, rearmed>>

(* An answered decision puts a settled task back to pending.               *)
Reopen(s) ==
  /\ sprint[s] = "settled" /\ edits < MaxEdits
  /\ edits' = edits + 1
  /\ sprint' = [sprint EXCEPT ![s] = "open"]
  /\ newest' = s /\ tasksQuiet' = FALSE
  /\ UNCHANGED <<goalVars, docs, lock, procVars, callVars, reconVars, rearmed,
                 saw, informed>>

(* The owner answers a decision of the goal: a comment, and a new session, *)
(* whoever is running in the old one.                                      *)
Respond ==
  /\ goal \in {"active", "parked"} /\ edits < MaxEdits
  /\ edits' = edits + 1
  /\ goal' = "active" /\ session' = FALSE /\ quiet' = FALSE
  /\ docs' = TRUE /\ Progress
  /\ UNCHANGED <<lastWoken, sprint, newest, tasksQuiet, lock, procVars, pc,
                 target, reconVars, rearmed, saw, informed>>

(* The budget pauses the goal, or it is abandoned and loses its session.   *)
Stop ==
  /\ goal # "over" /\ edits < MaxEdits
  /\ edits' = edits + 1
  /\ goal' = "over" /\ session' \in {session, FALSE} /\ quiet' = FALSE
  /\ UNCHANGED <<lastWoken, taskVars, lock, procVars, callVars, reconVars,
                 rearmed, saw, informed>>

(* The hive supervisor's wake_goal lowers the mark, owned or not.          *)
WakeGoal ==
  /\ edits < MaxEdits
  /\ edits' = edits + 1
  /\ rearmed' = IF lastWoken > rearmed THEN lastWoken ELSE rearmed
  /\ lastWoken' = 0 /\ quiet' = FALSE
  /\ UNCHANGED <<goal, session, taskVars, lock, procVars, callVars, reconVars,
                 saw, informed>>

(* The owner's edits, the budget evaluation and the outcome touch the row. *)
GoalTouched ==
  /\ quiet /\ quiet' = FALSE
  /\ UNCHANGED <<goal, session, lastWoken, taskVars, lock, procVars,
                 callVars, reconVars, histVars>>

(* Ten minutes pass; not before the boot sweep has read.                   *)
GoalAges ==
  /\ ~quiet /\ ~booting
  /\ quiet' = TRUE
  /\ UNCHANGED <<goal, session, lastWoken, taskVars, lock, procVars,
                 callVars, reconVars, histVars>>

TasksAge ==
  /\ ~tasksQuiet /\ tasksQuiet' = TRUE
  /\ UNCHANGED <<goalVars, sprint, newest, docs, lock, procVars, callVars,
                 reconVars, histVars>>

Start ==
  /\ ~up /\ starts < MaxStarts
  /\ up' = TRUE /\ starts' = starts + 1 /\ booting' = TRUE
  /\ UNCHANGED <<goalVars, taskVars, lock, orphan, callVars, reconVars,
                 histVars>>

(* The boot sweep, which runs beside the first poll. *)
BootScan ==
  /\ up /\ booting /\ booting' = FALSE
  /\ \/ \E s \in Sprints : Orphaned(s) /\ orphan' = s
     \/ (\A s \in Sprints : ~Orphaned(s)) /\ orphan' = 0
  /\ UNCHANGED <<goalVars, taskVars, lock, up, starts, callVars, reconVars,
                 histVars>>

BootRevert ==
  /\ up /\ orphan \in Sprints
  /\ \/ StillMarked(orphan) /\ lastWoken' = Before(orphan)
     \/ ~StillMarked(orphan) /\ UNCHANGED lastWoken
  /\ orphan' = 0
  /\ UNCHANGED <<goal, session, quiet, taskVars, lock, up, starts, booting,
                 callVars, reconVars, histVars>>

(* The dispatcher dies with its supervisor children; its connections close,*)
(* so the lock is free; the reconciliation state is lost.                  *)
Crash ==
  /\ up /\ starts < MaxStarts
  /\ up' = FALSE /\ booting' = FALSE /\ orphan' = 0
  /\ lock' = None
  /\ pc' = [c \in Callers |-> "idle"]
  /\ target' = [c \in Callers |-> 0]
  /\ progressed' = [c \in Callers |-> FALSE] /\ saw' = [c \in Callers |-> {}]
  /\ inFlight' = {} /\ fired' = {}
  /\ UNCHANGED <<goalVars, taskVars, starts, edits, rearmed, informed>>

-----------------------------------------------------------------------------
CallStep(c) ==
  \/ Poll(c) \/ Discover(c) \/ LockForStart(c) \/ StartSupervisor(c)
  \/ StartEnds(c) \/ FindSprint(c) \/ ClaimWake(c) \/ Reconcile(c)
  \/ ReconcileNext(c) \/ Comment(c) \/ TryLock(c) \/ LockThrows(c) \/ Wake(c)
  \/ WakeSucceeds(c) \/ WakeFails(c) \/ Revert(c) \/ Compact(c)
  \/ Plan(c) \/ WriteDoc(c) \/ CloseGoal(c)

Next ==
  \/ \E c \in Callers : CallStep(c)
  \/ \E s \in Sprints : Settle(s) \/ Reopen(s)
  \/ Respond \/ Stop \/ WakeGoal \/ GoalTouched
  \/ GoalAges \/ TasksAge \/ Start \/ BootScan \/ BootRevert \/ Crash

Spec == Init /\ [][Next]_vars

(* The timers keep firing, an await returns, a run ends (runCodex kills it *)
(* after four hours) and, if runs never stop, one of them succeeds. Tasks  *)
(* need not settle and owners need not comment.                            *)
Fairness ==
  /\ WF_vars(Start) /\ WF_vars(BootScan) /\ WF_vars(BootRevert)
  /\ WF_vars(GoalAges) /\ WF_vars(TasksAge)
  /\ \A c \in Callers :
       /\ WF_vars(Poll(c)) /\ WF_vars(Discover(c)) /\ WF_vars(LockForStart(c))
       /\ WF_vars(StartSupervisor(c)) /\ WF_vars(StartEnds(c))
       /\ WF_vars(pc[c] # "idle" /\ FindSprint(c))
       /\ WF_vars(ClaimWake(c)) /\ WF_vars(Reconcile(c))
       /\ WF_vars(ReconcileNext(c)) /\ WF_vars(TryLock(c) \/ LockThrows(c))
       /\ WF_vars(Wake(c) \/ WakeSucceeds(c) \/ WakeFails(c))
       /\ SF_vars(TryLock(c)) /\ SF_vars(Wake(c)) /\ SF_vars(WakeSucceeds(c))
       /\ WF_vars(Revert(c)) /\ WF_vars(Compact(c))

LiveSpec == Spec /\ Fairness

-----------------------------------------------------------------------------
(* Properties.                                                             *)

(* The wake lock admits one supervisor run at a time: a start, a sprint    *)
(* wake from any of its three detectors and a comment wake never overlap.  *)
(* Only the compaction restart, which takes no lock, can run beside one.   *)
OneSupervisor ==
  \A c, d \in Callers :
    Running(c) /\ Running(d) /\ c # d => "restartRun" \in {pc[c], pc[d]}

(* A sprint wake has one owner between its claim and its revert, although  *)
(* detectors act on lists that are old and failed claims are taken back;   *)
(* and nobody lowers the mark under an owner: neither the revert of        *)
(* another sprint nor the boot sweep. The hive supervisor's wake_goal does,*)
(* so the sprints it has put back are left out.                            *)
Owns(c) ==
  /\ c \in Claimants /\ pc[c] \in {"lock", "wake", "run", "revert"}
  /\ target[c] > rearmed

WakeOwned ==
  \A c \in Callers : Owns(c) =>
    /\ lastWoken >= target[c]
    /\ \A d \in Callers \ {c} : Owns(d) => target[d] # target[c]

(* So last_woken_sprint is a mark that its owner alone moves, as long as   *)
(* nobody forces it.                                                       *)
Owned == {<<c, target[c]>> : c \in {d \in Callers : Owns(d)}}
Mark == INSTANCE SprintMark WITH mark <- lastWoken, owners <- Owned, reset <- rearmed
MarkImplemented == Mark!Spec

(* Overlapping reconciliation passes hold a sprint one at a time, and once *)
(* a reconciliation wake has succeeded the process never repeats it.       *)
Reconciling(c) == c \in Reconcilers /\ pc[c] \in {"lock", "wake", "run"}

ReconcileOnce ==
  \A c \in Callers : Reconciling(c) =>
    /\ target[c] \notin fired
    /\ \A d \in Callers \ {c} : Reconciling(d) => target[d] # target[c]

(* What makes later callers turn away is always somebody's who is at work: *)
(* a lock that outlived its wake would coalesce every wake of the goal, an *)
(* inFlight entry that outlived its pass would hide its sprint from every  *)
(* reconciliation to come.                                                 *)
NothingLeftBehind ==
  /\ lock # None => pc[lock] \in {"start", "startRun", "wake", "run"}
  /\ \A s \in inFlight : \E c \in Callers : Reconciling(c) /\ target[c] = s

(* No settled sprint is forgotten: while it is the last one, some run that *)
(* can see it succeeds, whatever wakes were coalesced, failed or lost in a *)
(* crash.                                                                  *)
Waiting(s) ==
  /\ active /\ session /\ s \in Settled /\ Later(s) = {}
  /\ s \notin informed

SettledSeen == \A s \in Sprints : Waiting(s) ~> ~Waiting(s)

(* Immediate check: the claim "prevents immediate, timer, comment, and     *)
(* reconciliation paths from planning the same next sprint in parallel".   *)
NoParallelPlanning ==
  \A c, d \in Callers : Running(c) /\ Running(d) => c = d
=============================================================================
