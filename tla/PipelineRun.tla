----------------------------- MODULE PipelineRun -----------------------------
(***************************************************************************)
(* One run of a pipeline: its steps are tasks that are created one after   *)
(* the other. Completing a step's task completes the step and creates the  *)
(* next one in the same transaction; a task that may not be retried fails  *)
(* the step, the run and itself in another one. Executions, reviews, the   *)
(* watchdog and the owner act on the tasks at the same time; the two       *)
(* transactions lock the step run, the run and the task, in this order.    *)
(*                                                                         *)
(* The run belongs to a goal. The claim's choice of a task is TaskClaim's, *)
(* what a failure does beyond the run FailureFlow's, the review's rows     *)
(* QualityReview's.                                                        *)
(***************************************************************************)
EXTENDS Naturals, Sequences, FiniteSets

CONSTANTS
  Calls,        \* what can be under way at a time: executions, reviews and
                \* the watchdog's handling of a row
  N,            \* steps of the template
  Reviewed,     \* the steps with qa_required
  StepRetries,  \* max_retries of a step
  MaxRetries,   \* config.maxRetries
  RetryCap,     \* QA_RETRY_CAP
  MaxUpsets     \* bound: crashes, failed inserts, cancellations, questions, answers

ASSUME PipelineAssumption ==
  /\ IsFiniteSet(Calls)
  /\ N \in Nat \ {0} /\ Reviewed \subseteq 1..N
  /\ StepRetries \in Nat /\ MaxRetries \in Nat /\ RetryCap \in Nat /\ MaxUpsets \in Nat

Steps == 1..N

VARIABLES
  run, current,    \* pipeline_runs.status and current_step_id, 0 for NULL
  step,            \* pipeline_step_runs.status of each step
  task, retries,   \* tasks.status and retry_count of each step's task
  reviews, dead,   \* each task's open [QA] children; the tasks that had one
                   \* end without a verdict
  pc, on,          \* what each call does, and for which step
  got,             \* how many of its transaction's locks it has
  seen,            \* what its SELECT ... FOR UPDATE said of the step and run
  cancel,          \* the step whose task the cancel route has found open
  upsets

runVars   == <<run, current, step>>
taskVars  == <<task, retries, reviews, dead>>
actorVars == <<pc, on, got, seen>>
vars == <<runVars, taskVars, actorVars, cancel, upsets>>

RunStates  == {"none", "active", "complete", "failed"}
StepStates == {"none", "pending", "running", "complete", "failed"}
TaskStates == {"none", "pending", "active", "in_review", "blocked", "completed", "failed", "cancelled"}
Transactions == {"complete", "pass", "fail"}
Activities == {"idle", "claim", "work", "submit", "review", "close", "release", "requeue", "giveup"}
              \cup Transactions

TypeOK ==
  /\ run \in RunStates /\ current \in 0..N
  /\ step \in [Steps -> StepStates] /\ task \in [Steps -> TaskStates]
  /\ retries \in [Steps -> Nat] /\ reviews \in [Steps -> Nat] /\ dead \subseteq Steps
  /\ pc \in [Calls -> Activities] /\ on \in [Calls -> 0..N]
  /\ got \in [Calls -> 0..2] /\ seen \in [Calls -> BOOLEAN]
  /\ \A a \in Calls : /\ pc[a] # "idle" => on[a] \in Steps
                      /\ pc[a] \notin Transactions \cup {"claim"} => got[a] = 0
                      /\ pc[a] = "claim" => got[a] = 1
  /\ cancel \in 0..N /\ upsets \in 0..MaxUpsets

Init ==
  /\ run = "none" /\ current = 0
  /\ step = [s \in Steps |-> "none"] /\ task = [s \in Steps |-> "none"]
  /\ retries = [s \in Steps |-> 0] /\ reviews = [s \in Steps |-> 0] /\ dead = {}
  /\ pc = [a \in Calls |-> "idle"] /\ on = [a \in Calls |-> 0]
  /\ got = [a \in Calls |-> 0] /\ seen = [a \in Calls |-> FALSE]
  /\ cancel = 0 /\ upsets = 0

-----------------------------------------------------------------------------
(* Row locks: which row a transaction locks first, second and third. The   *)
(* claim takes the row of the task, then that of the step run if it is     *)
(* still pending. The last lock and the commit are one step.               *)
TaskFirst(a) ==
  CASE pc[a] = "claim"             -> <<"task", "step">>
    [] pc[a] = "complete"          -> <<"task", "step", "run">>
    [] pc[a] \in {"pass", "fail"}  -> <<"step", "run", "task">>
    [] OTHER                       -> <<>>
LockOrder(a) ==
  CASE pc[a] = "claim"          -> <<"task", "step">>
    [] pc[a] \in Transactions   -> <<"step", "run", "task">>
    [] OTHER                    -> <<>>

Holds(a, row) == \E i \in 1..got[a] : LockOrder(a)[i] = row

(* b has the lock of the row that a would take. *)
HeldBy(b, row, a) == b # a /\ Holds(b, row) /\ (row = "run" \/ on[b] = on[a])
Free(row, a) == \A b \in Calls : ~HeldBy(b, row, a)

Next1(a) == LockOrder(a)[got[a] + 1]
Locking(a) == got[a] < Len(LockOrder(a))
Needed(a) == pc[a] = "claim" => step[on[a]] = "pending"
LastLock(a) == Locking(a) /\ got[a] + 1 = Len(LockOrder(a)) /\ (Needed(a) => Free(Next1(a), a))

(* A statement of its own on the row of the task waits for the lock too. *)
TaskFree(s) == \A b \in Calls : ~(on[b] = s /\ Holds(b, "task"))

Goes(a, activity) == /\ pc' = [pc EXCEPT ![a] = activity] /\ got' = [got EXCEPT ![a] = 0]
                     /\ seen' = [seen EXCEPT ![a] = FALSE] /\ UNCHANGED on
Ends(a) == /\ pc' = [pc EXCEPT ![a] = "idle"] /\ on' = [on EXCEPT ![a] = 0]
           /\ got' = [got EXCEPT ![a] = 0] /\ seen' = [seen EXCEPT ![a] = FALSE]
Begins(a, activity, s) ==
  /\ pc[a] = "idle" /\ pc' = [pc EXCEPT ![a] = activity] /\ on' = [on EXCEPT ![a] = s]
  /\ UNCHANGED <<got, seen>>
SetTask(s, status) == task' = [task EXCEPT ![s] = status]

restVars == <<cancel, upsets>>

(* What failPipelineRunFromTask asks of the two locked rows. *)
StepOpen(s) == step[s] \in {"pending", "running"}
UnstartedOnly(s) == run = "active" /\ current = s /\ step[s] = "pending"
Eligible(s) == run = "active" /\ current = s /\ StepOpen(s)

Acquire(a) ==
  /\ pc[a] \in Transactions /\ got[a] + 1 < Len(LockOrder(a)) /\ Free(Next1(a), a)
  /\ got' = [got EXCEPT ![a] = @ + 1] /\ seen' = [seen EXCEPT ![a] = Eligible(on[a])]
  /\ UNCHANGED <<runVars, taskVars, pc, on, restVars>>

-----------------------------------------------------------------------------
(* startPipelineRun, and the claim of a step's task.                       *)
StartRun ==
  /\ run = "none" /\ run' = "active" /\ current' = 1
  /\ step' = [step EXCEPT ![1] = "pending"] /\ SetTask(1, "pending")
  /\ UNCHANGED <<retries, reviews, dead, actorVars, restVars>>

ClaimTask(a, s) ==
  /\ task[s] = "pending" /\ TaskFree(s)
  /\ pc[a] = "idle" /\ pc' = [pc EXCEPT ![a] = "claim"] /\ on' = [on EXCEPT ![a] = s]
  /\ got' = [got EXCEPT ![a] = 1] /\ UNCHANGED seen
  /\ UNCHANGED <<runVars, taskVars, restVars>>

MarkAlways(a) ==
  /\ pc[a] = "claim" /\ LastLock(a)
  /\ SetTask(on[a], "active") /\ step' = [step EXCEPT ![on[a]] = "running"]
  /\ Goes(a, "work")
  /\ UNCHANGED <<run, current, retries, reviews, dead, restVars>>
MarkRunning(a) ==
  /\ pc[a] = "claim" /\ LastLock(a)
  /\ SetTask(on[a], "active")
  /\ step' = IF step[on[a]] = "pending" THEN [step EXCEPT ![on[a]] = "running"] ELSE step
  /\ Goes(a, "work")
  /\ UNCHANGED <<run, current, retries, reviews, dead, restVars>>

-----------------------------------------------------------------------------
(* The end of an execution: completeTask (its output meets the contract or *)
(* not, or lacks the proof of a deployment), routeToQa, or a failure.      *)
Deliver(a) ==
  /\ pc[a] = "work" /\ on[a] \notin Reviewed
  /\ Goes(a, "complete") \/ Goes(a, "fail")
  /\ UNCHANGED <<runVars, taskVars, restVars>>

BlockTask(a) ==
  /\ pc[a] = "work" /\ TaskFree(on[a]) /\ SetTask(on[a], "blocked")
  /\ on[a] \notin Reviewed /\ Ends(a)
  /\ UNCHANGED <<runVars, retries, reviews, dead, restVars>>

(* routeToQa commits the row's status before it inserts the [QA] child. *)
RouteToQa(a) ==
  /\ pc[a] = "work" /\ on[a] \in Reviewed /\ TaskFree(on[a])
  /\ SetTask(on[a], "in_review") /\ Goes(a, "submit")
  /\ UNCHANGED <<runVars, retries, reviews, dead, restVars>>
Submit(a) ==
  /\ pc[a] = "submit" /\ reviews' = [reviews EXCEPT ![on[a]] = @ + 1]
  /\ Ends(a)
  /\ UNCHANGED <<runVars, task, retries, dead, restVars>>

(* The insert raises an error, which executeTask only logs. *)
SubmitFails(a) ==
  /\ upsets < MaxUpsets /\ upsets' = upsets + 1
  /\ pc[a] = "submit" /\ Ends(a)
  /\ UNCHANGED <<runVars, taskVars, cancel>>

(* handleTaskFailure: a report of the agent fails the task (a doctor looks *)
(* at it), anything else is retried while retry_count allows it.           *)
Handling(s) == {"giveup"} \cup (IF retries[s] < MaxRetries THEN {"release"} ELSE {})

ReportFailure(a) ==
  /\ pc[a] = "work" /\ \E h \in Handling(on[a]) : Goes(a, h)
  /\ UNCHANGED <<runVars, taskVars, restVars>>

(* The watchdog takes a row for stuck, whether its execution lives or not, *)
(* and gives up a task that nobody resolves: one that is blocked, or in    *)
(* review with a review that ended without a verdict.                      *)
FlagStuck(w, s) ==
  /\ task[s] = "active"
  /\ \E h \in Handling(s) : Begins(w, h, s)
  /\ UNCHANGED <<runVars, taskVars, restVars>>

FlagDeadEnd(w, s) ==
  /\ task[s] = "blocked" \/ (task[s] = "in_review" /\ s \in dead)
  /\ Begins(w, "giveup", s)
  /\ UNCHANGED <<runVars, taskVars, restVars>>

(* releaseTask: the step's own limit fails the run, below it the row goes  *)
(* back by its id. Without an active run there is no limit.                *)
OverStepLimit(s) == run = "active" /\ retries[s] >= StepRetries

ReadRules(a) ==
  /\ pc[a] = "release" /\ Goes(a, IF OverStepLimit(on[a]) THEN "fail" ELSE "requeue")
  /\ UNCHANGED <<runVars, taskVars, restVars>>

Requeue(a) ==
  /\ pc[a] = "requeue" /\ TaskFree(on[a])
  /\ SetTask(on[a], "pending") /\ retries' = [retries EXCEPT ![on[a]] = @ + 1]
  /\ Ends(a)
  /\ UNCHANGED <<runVars, reviews, dead, restVars>>

(* failTask, markUnresolvable, and the watchdog's own update. *)
GiveUp(a) ==
  /\ pc[a] = "giveup" /\ TaskFree(on[a]) /\ SetTask(on[a], "failed")
  /\ Ends(a)
  /\ UNCHANGED <<runVars, retries, reviews, dead, restVars>>

-----------------------------------------------------------------------------
(* The review of a delivery: a pass is the completing transaction.         *)
Reviewers(s) == {a \in Calls : pc[a] \in {"review", "pass", "close"} /\ on[a] = s}

BeginReview(a, s) ==
  /\ Cardinality(Reviewers(s)) < reviews[s]
  /\ Begins(a, "review", s)
  /\ UNCHANGED <<runVars, taskVars, restVars>>

ReviewDies(a) ==
  /\ pc[a] = "review" /\ Ends(a)
  /\ reviews' = [reviews EXCEPT ![on[a]] = @ - 1] /\ dead' = dead \cup {on[a]}
  /\ UNCHANGED <<runVars, task, retries, restVars>>

Pass(a) ==
  /\ pc[a] = "review" /\ Goes(a, "pass")
  /\ UNCHANGED <<runVars, taskVars, restVars>>

(* A verdict that is not a pass, or a pass without the proof of a          *)
(* deployment, is applied to the row by its id.                            *)
Reject(a) ==
  LET s == on[a] IN
  /\ pc[a] = "review" /\ TaskFree(s)
  /\ \/ /\ retries[s] < RetryCap /\ SetTask(s, "pending")
        /\ retries' = [retries EXCEPT ![s] = @ + 1]
     \/ /\ retries[s] >= RetryCap /\ SetTask(s, "failed") /\ UNCHANGED retries
     \/ SetTask(s, "blocked") /\ UNCHANGED retries
  /\ Goes(a, "close")
  /\ UNCHANGED <<runVars, reviews, dead, restVars>>

(* The verdict has been applied; the [QA] child is completed after it. *)
Close(a) ==
  /\ pc[a] = "close" /\ Ends(a)
  /\ reviews' = [reviews EXCEPT ![on[a]] = @ - 1]
  /\ UNCHANGED <<runVars, task, retries, dead, restVars>>

-----------------------------------------------------------------------------
(* The three transactions, at their last lock.                             *)

(* advancePipelineRunFromTaskInTransaction raises an error when the run is *)
(* over, and the unique index of (run, step) when the next step exists.    *)
RunMayBeOver(s) == s < N => step[s + 1] = "none"
MayAdvance(s) == run = "active" /\ (s < N => step[s + 1] = "none")

CurrentAfter(s) == IF s = N THEN 0 ELSE s + 1

(* completeTask leaves a completed row alone; processQaResult does not.    *)
Completes(a) == \/ pc[a] = "complete" /\ task[on[a]] # "completed"
                \/ pc[a] = "pass"

Advance(a) ==
  LET s == on[a] IN
  /\ LastLock(a) /\ Completes(a) /\ MayAdvance(s)
  /\ run' = (IF s = N THEN "complete" ELSE "active") /\ current' = CurrentAfter(s)
  /\ step' = [t \in Steps |-> IF t = s THEN "complete" ELSE IF t = s + 1 THEN "pending" ELSE step[t]]
  /\ task' = [t \in Steps |-> IF t = s THEN "completed" ELSE IF t = s + 1 THEN "pending" ELSE task[t]]
  /\ IF pc[a] = "pass" THEN Goes(a, "close") ELSE Ends(a)
  /\ UNCHANGED <<retries, reviews, dead, restVars>>

(* The error rolls back the update of the task and ends the call: the [QA] *)
(* child of a pass stays open.                                             *)
ThrowsLate(a) ==
  /\ LastLock(a) /\ Completes(a) /\ ~MayAdvance(on[a])
  /\ SetTask(on[a], "completed") /\ Ends(a)
  /\ UNCHANGED <<runVars, retries, reviews, dead, restVars>>
Throws(a) ==
  /\ LastLock(a) /\ Completes(a) /\ ~MayAdvance(on[a])
  /\ Ends(a)
  /\ UNCHANGED <<runVars, taskVars, restVars>>

AlreadyCompleted(a) ==
  /\ LastLock(a) /\ pc[a] = "complete" /\ task[on[a]] = "completed"
  /\ Ends(a)
  /\ UNCHANGED <<runVars, taskVars, restVars>>

FailStep(a) ==
  LET s == on[a] IN
  /\ LastLock(a) /\ pc[a] = "fail" /\ seen[a] /\ task[s] \in {"pending", "active"}
  /\ step' = IF StepOpen(s) THEN [step EXCEPT ![s] = "failed"] ELSE step
  /\ run' = IF run = "active" /\ current = s THEN "failed" ELSE run
  /\ SetTask(s, "failed") /\ Ends(a)
  /\ UNCHANGED <<current, retries, reviews, dead, restVars>>

NotEligible(a) ==
  /\ LastLock(a) /\ pc[a] = "fail" /\ ~(seen[a] /\ task[on[a]] \in {"pending", "active"})
  /\ Ends(a)
  /\ UNCHANGED <<runVars, taskVars, restVars>>

-----------------------------------------------------------------------------
(* Around the run: the owner, the agent's questions, crashes.              *)

(* The cancel route reads, then writes by id. *)
CancelCheck(s) ==
  /\ cancel = 0 /\ upsets < MaxUpsets /\ task[s] \in {"pending", "active"}
  /\ cancel' = s /\ upsets' = upsets + 1
  /\ UNCHANGED <<runVars, taskVars, actorVars>>

CancelWrite ==
  /\ cancel # 0 /\ TaskFree(cancel) /\ SetTask(cancel, "cancelled") /\ cancel' = 0
  /\ UNCHANGED <<runVars, retries, reviews, dead, actorVars, upsets>>

(* An agent at work asks for a decision, which blocks its task; it works on. *)
Ask(a) ==
  /\ upsets < MaxUpsets /\ upsets' = upsets + 1
  /\ pc[a] = "work" /\ TaskFree(on[a]) /\ SetTask(on[a], "blocked")
  /\ UNCHANGED <<runVars, retries, reviews, dead, actorVars, cancel>>

(* The owner answers, or a doctor puts a failed task back. *)
Reopen(s) ==
  /\ upsets < MaxUpsets /\ upsets' = upsets + 1
  /\ task[s] \in {"blocked", "failed"} /\ TaskFree(s) /\ SetTask(s, "pending")
  /\ retries' = [retries EXCEPT ![s] = 0]
  /\ UNCHANGED <<runVars, reviews, dead, actorVars, cancel>>

(* The dispatcher dies: what it had not committed is rolled back, and the  *)
(* next one begins with recoverInterruptedActiveTasks.                     *)
Crash ==
  /\ upsets < MaxUpsets /\ upsets' = upsets + 1
  /\ pc' = [a \in Calls |-> "idle"] /\ on' = [a \in Calls |-> 0]
  /\ got' = [a \in Calls |-> 0] /\ seen' = [a \in Calls |-> FALSE]
  /\ task' = [s \in Steps |-> IF task[s] = "active" THEN "pending" ELSE task[s]]
  /\ UNCHANGED <<runVars, retries, reviews, dead, cancel>>

-----------------------------------------------------------------------------
CallStep(a) ==
  \/ MarkRunning(a)
  \/ Deliver(a) \/ BlockTask(a) \/ RouteToQa(a) \/ Submit(a) \/ SubmitFails(a) \/ ReportFailure(a)
  \/ ReadRules(a) \/ Requeue(a) \/ GiveUp(a)
  \/ Pass(a) \/ Reject(a) \/ Close(a) \/ ReviewDies(a)
  \/ Acquire(a) \/ Advance(a) \/ Throws(a) \/ AlreadyCompleted(a)
  \/ FailStep(a) \/ NotEligible(a)

TakeUp(s) ==
  \E a \in Calls : ClaimTask(a, s) \/ BeginReview(a, s) \/ FlagStuck(a, s) \/ FlagDeadEnd(a, s)

Next ==
  \/ StartRun \/ CancelWrite \/ Crash
  \/ \E a \in Calls : CallStep(a) \/ Ask(a)
  \/ \E s \in Steps : TakeUp(s) \/ CancelCheck(s) \/ Reopen(s)

Spec == Init /\ [][Next]_vars

(* Executions end (the adapters' timeouts), awaits return, locks are given *)
(* in turn; claim loop and watchdog find work again and again.             *)
Fairness ==
  /\ WF_vars(StartRun) /\ WF_vars(CancelWrite)
  /\ \A a \in Calls : SF_vars(CallStep(a))
  /\ SF_vars(\E a \in Calls, s \in Steps : ClaimTask(a, s))
  /\ SF_vars(\E a \in Calls, s \in Steps : BeginReview(a, s))
  /\ SF_vars(\E a \in Calls, s \in Steps : FlagDeadEnd(a, s))

FairSpec == Spec /\ Fairness

-----------------------------------------------------------------------------
(* Properties.                                                             *)

(* The rows of the run agree: the steps before the current one are         *)
(* complete, it is open, the ones after it do not exist; a run ends with   *)
(* all of them complete, or with the current one failed.                   *)
StepsBefore(s) == \A t \in Steps : /\ t < s => step[t] = "complete"
                                   /\ t > s => step[t] = "none"
StepsInOrder ==
  /\ run = "none" => \A t \in Steps : step[t] = "none"
  /\ run \in {"active", "failed"} => current \in Steps /\ StepsBefore(current)
  /\ run = "active" => StepOpen(current)
  /\ run = "failed" => step[current] = "failed"
  /\ run = "complete" => \A t \in Steps : step[t] = "complete"

(* A completed task has handed on: completion and advance commit together  *)
(* or not at all ("rolls back task completion when next step-run insertion *)
(* fails", tests/dispatcher/task-claimer.test.ts).                         *)
CompletedHandsOn == \A s \in Steps : task[s] = "completed" => step[s] = "complete"

(* A run that has ended keeps its outcome: whoever finishes late, after a  *)
(* failure or a completion by another execution, changes nothing of it.    *)
OutcomeStays == [][(run \in {"complete", "failed"}) => UNCHANGED runVars]_vars

(* To the rest of the system a run is a line of steps: whatever overlaps   *)
(* and whatever dies, each step is offered once, by the commit that        *)
(* completes the task of the one before; nothing that comes late moves a   *)
(* run that has ended.                                                     *)
Line == INSTANCE StepLine WITH
  status <- run, at <- current,
  offered <- {s \in Steps : task[s] # "none"},
  handed <- {s \in Steps : step[s] = "complete"},
  delivered <- {s \in Steps : task[s] = "completed"}
LineImplemented == Line!Spec

(* No transactions wait for each other: "never take task -> pipeline locks *)
(* in one path and pipeline -> task locks in the other" (service.ts). The  *)
(* claim does take them the other way round, but only the first claim of a *)
(* task waits for its step, and nobody else is at work on that step yet.   *)
WaitsFor(a, b) == Locking(a) /\ Needed(a) /\ HeldBy(b, Next1(a), a)
NoLockCycle ==
  \A S \in (SUBSET Calls) \ {{}} : \E a \in S : \A b \in S : ~WaitsFor(a, b)

(* A run ends, unless the task of its current step was blocked, cancelled  *)
(* or given up, since nothing of the code tells the run, or routeToQa was  *)
(* cut off between its two commits: no sweep looks for a row in review     *)
(* that has no review.                                                     *)
Parked == current # 0 /\ task[current] \in {"blocked", "cancelled", "failed"}
Unreviewed ==
  /\ upsets # 0 /\ current # 0 /\ task[current] = "in_review"
  /\ reviews[current] = 0 /\ current \notin dead
  /\ \A a \in Calls : ~(pc[a] = "submit" /\ on[a] = current)
RunEnds == run = "active" ~> (run # "active" \/ Parked \/ Unreviewed)

-----------------------------------------------------------------------------
(* Statements the code does not keep.                                      *)

(* "completion-vs-failure races serialize on pipeline_step_runs"           *)
(* (service.ts): a completed step's task stays completed.                  *)
CompletedStays ==
  [][\A s \in Steps : task[s] = "completed" => task'[s] = "completed"]_vars

(* A run that has ended has no task that can be claimed. *)
EndedIsIdle ==
  run \in {"complete", "failed"} => \A s \in Steps : task[s] \notin {"pending", "active"}
=============================================================================
