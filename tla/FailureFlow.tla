----------------------------- MODULE FailureFlow -----------------------------
(***************************************************************************)
(* What happens to one task that fails: handleTaskFailureAndDoctor, run by *)
(* the executions of the task and by the watchdog; the doctor tasks it     *)
(* creates and what their diagnoses do to the task; the fallback doctor;   *)
(* the recovery budget of the failure family; the environment repair child *)
(* and the hand-back of the blocked task; the watchdog's rescue of blocked *)
(* tasks; the runtime guard and the disk gate, which block it as well; the *)
(* owner's cancel route; a dispatcher that dies in between.                *)
(*                                                                         *)
(* No two statements of a handler share a transaction unless an action     *)
(* below says so. The task belongs to no goal: tasks of a goal leave this  *)
(* flow through the supervisor replan.                                     *)
(***************************************************************************)
EXTENDS Integers, FiniteSets

CONSTANTS
  Executors,     \* executions of the task that can be under way at a time
  Watchdogs,     \* dispatchers whose watchdog runs
  Doctors,       \* doctor tasks, in the order they are created in
  MaxRetries,    \* config.maxRetries
  LegacyRetries, \* the legacy shim's own limit, 3
  MaxAttempts,   \* config.maxDoctorAttempts
  DoctorLimit,   \* doctorTasksPerFailureFamily
  DecisionLimit, \* openRecoveryDecisionsPerFailureFamily
  SplitSize, ReplaceLimit,  \* sub-tasks of a split, and how many are allowed
  Categories,    \* bound: how an execution may fail
  Diagnoses,     \* bound: what a doctor may answer
  MaxUpsets      \* bounds the crashes, cancellations, interruptions and
                 \* refused claims together

ASSUME FailureAssumption ==
  /\ IsFiniteSet(Executors) /\ IsFiniteSet(Watchdogs) /\ IsFiniteSet(Doctors)
  /\ Executors # {} /\ Executors \cap Watchdogs = {}
  /\ MaxRetries \in Nat /\ LegacyRetries \in Nat /\ MaxAttempts \in Nat
  /\ DoctorLimit \in Nat /\ DecisionLimit \in Nat
  /\ SplitSize \in Nat \ {0} /\ ReplaceLimit \in Nat
  /\ Categories \subseteq {"retry", "agent", "env"}
  /\ MaxUpsets \in Nat

ASSUME DoctorsAssumption == Doctors \subseteq Nat

Handlers == Executors \cup Watchdogs

VARIABLES
  status, retries, attempts,  \* tasks.status, retry_count, doctor_attempts
  at, cat,       \* each handler: its next statement, the failure category
  doctor,        \* each doctor task: its row and its execution's next step
  fallback,      \* doctor tasks created as the runtime fallback
  repair,        \* the environment repair child; "done": it has ended, in
                 \* success or not; "fixed": in success since the task was
                 \* last blocked
  decisions,     \* open decisions of the family
  guarded,       \* the task has an open decision of the runtime guard
  replaced,      \* replacement tasks of the family
  left,          \* each doctor: sub-tasks its split has still to insert
  cancel,        \* the cancel route's next statement
  upsets         \* how many of the bounded events there were

taskVars == <<status, retries, attempts>>
famVars  == <<doctor, fallback, repair, decisions, replaced, left>>
splitVars == <<replaced, left>>
restVars == <<guarded, cancel, upsets>>
vars == <<status, retries, attempts, at, cat, doctor, fallback, repair,
          decisions, replaced, left, guarded, cancel, upsets>>

(* "disk": blocked by the disk gate, which the row's reason says. *)
Statuses == {"pending", "active", "blocked", "disk", "failed", "unresolvable",
             "cancelled", "completed"}
HandlerSteps == {"idle", "run", "read", "retry", "giveup", "budget", "park",
                 "fail", "find", "insert", "block", "findfix", "insertfix"}
(* "crashed", "falling" and "guarding" are closed rows whose execution has *)
(* a statement left.                                                       *)
Working == {"active", "retrying", "escalating", "deciding", "splitting",
            "spawning", "fixing", "blocking", "applied"}
DoctorSteps == Working \cup {"none", "pending", "crashed", "falling", "guarding", "gone"}

TypeOK ==
  /\ status \in Statuses /\ retries \in Nat /\ attempts \in Nat
  /\ at \in [Handlers -> HandlerSteps]
  /\ cat \in [Handlers -> {"retry", "agent", "env"}]
  /\ doctor \in [Doctors -> DoctorSteps]
  /\ fallback \subseteq Doctors
  /\ repair \in {"none", "open", "done", "fixed"}
  /\ decisions \in Nat /\ replaced \in Nat /\ left \in [Doctors -> Nat]
  /\ guarded \in BOOLEAN /\ cancel \in {"idle", "checked"} /\ upsets \in 0..MaxUpsets

Init ==
  /\ status = "pending" /\ retries = 0 /\ attempts = 0
  /\ at = [h \in Handlers |-> "idle"] /\ cat = [h \in Handlers |-> "retry"]
  /\ doctor = [d \in Doctors |-> "none"] /\ fallback = {}
  /\ repair = "none" /\ decisions = 0 /\ replaced = 0
  /\ left = [d \in Doctors |-> 0]
  /\ guarded = FALSE /\ cancel = "idle" /\ upsets = 0

-----------------------------------------------------------------------------
(* The family.                                                             *)

Created == {d \in Doctors : doctor[d] # "none"}
Open(d) == doctor[d] \in Working \cup {"pending"}
OpenDoctors == {d \in Doctors : Open(d)}
RepairOpen == repair = "open"

(* recoveryBudgetViolations finds none. *)
WithinAfter(newDoctors, newDecisions, newTasks) ==
  /\ Cardinality(Created) <= DoctorLimit
  /\ decisions < DecisionLimit /\ replaced + newTasks <= ReplaceLimit
Within(newDoctors, newDecisions, newTasks) ==
  /\ Cardinality(Created) + newDoctors <= DoctorLimit
  /\ decisions < DecisionLimit
  /\ decisions + newDecisions <= DecisionLimit
  /\ replaced + newTasks <= ReplaceLimit

NextDoctor == {d \in Doctors \ Created : \A e \in Doctors \ Created : d <= e}

NewDoctor(isFallback) ==
  \E d \in NextDoctor :
    /\ doctor' = [doctor EXCEPT ![d] = "pending"]
    /\ fallback' = IF isFallback THEN fallback \cup {d} ELSE fallback

(* Rows blocked again do not take an earlier repair for theirs. *)
BlockAs(why) ==
  /\ status' = why
  /\ repair' = IF repair = "fixed" THEN "done" ELSE repair
BlockTask == BlockAs("blocked")

Goto(h, step) == at' = [at EXCEPT ![h] = step]

-----------------------------------------------------------------------------
(* Executions and the watchdog.                                            *)

Claim(h) ==
  /\ h \in Executors /\ at[h] = "idle" /\ status = "pending"
  /\ status' = "active" /\ Goto(h, "run")
  /\ UNCHANGED <<retries, attempts, cat, famVars, restVars>>

(* completeTask asks for nothing but status <> 'completed'. *)
Succeed(h) ==
  /\ at[h] = "run"
  /\ status' = "completed" /\ Goto(h, "idle")
  /\ UNCHANGED <<retries, attempts, cat, famVars, restVars>>

Report(h, c) ==
  /\ at[h] = "run" /\ c \in Categories
  /\ cat' = [cat EXCEPT ![h] = c] /\ Goto(h, "read")
  /\ UNCHANGED <<taskVars, famVars, restVars>>

(* The runtime guard stops an execution: the task is blocked behind a      *)
(* decision, and left as it is if the guard's last one is still open.      *)
Interrupt(h) ==
  /\ at[h] = "run" /\ Goto(h, "idle")
  /\ \/ guarded /\ UNCHANGED <<status, repair, guarded, upsets>>
     \/ /\ ~guarded /\ upsets < MaxUpsets /\ upsets' = upsets + 1
        /\ BlockTask /\ guarded' = TRUE
  /\ UNCHANGED <<retries, attempts, cat, doctor, fallback, decisions, splitVars, cancel>>

(* The disk gate refuses what the loop has claimed, or its check fails.    *)
Refuse(h) ==
  /\ at[h] = "run" /\ Goto(h, "idle")
  /\ upsets < MaxUpsets /\ upsets' = upsets + 1
  /\ BlockAs("disk") \/ BlockTask
  /\ UNCHANGED <<retries, attempts, cat, doctor, fallback, decisions, splitVars, guarded, cancel>>

(* findStuckTasks: the execution behind the row is not stopped. *)
FindStuck(h) ==
  /\ h \in Watchdogs /\ at[h] = "idle" /\ status = "active"
  /\ cat' = [cat EXCEPT ![h] = "retry"] /\ Goto(h, "read")
  /\ UNCHANGED <<taskVars, famVars, restVars>>

(* findStuckBlockedTasks: no child and no decision of the runtime guard    *)
(* that could resolve it.                                                  *)
NoRepair == repair = "none" /\ OpenDoctors = {} /\ ~guarded
Unresolved == ~RepairOpen /\ repair # "fixed" /\ OpenDoctors = {} /\ ~guarded
FindBlocked(h) ==
  /\ h \in Watchdogs /\ at[h] = "idle" /\ status = "blocked" /\ Unresolved
  /\ cat' = [cat EXCEPT ![h] = "retry"] /\ Goto(h, "read")
  /\ UNCHANGED <<taskVars, famVars, restVars>>

-----------------------------------------------------------------------------
(* handleTaskFailureAndDoctor.                                             *)

RetryWrongCounter == attempts < MaxRetries
HasRetry == retries < MaxRetries
HasAttempt == attempts < MaxAttempts

NextStep(h) ==
  IF cat[h] = "env" THEN "block"
  ELSE IF ~HasAttempt THEN "giveup"
  ELSE IF cat[h] = "agent" THEN "budget"
  ELSE IF HasRetry THEN "retry" ELSE "giveup"

Read(h) ==
  /\ at[h] = "read" /\ Goto(h, NextStep(h))
  /\ cat' = [cat EXCEPT ![h] = "retry"]
  /\ UNCHANGED <<taskVars, famVars, restVars>>

(* releaseTask. *)
RetryForgotten == retries' = retries
RetriesLeft == retries' = retries - 1
CountRetry == retries' = retries + 1
Retry(h) ==
  /\ at[h] = "retry"
  /\ status' = "pending" /\ CountRetry /\ Goto(h, "idle")
  /\ UNCHANGED <<attempts, cat, famVars, restVars>>

(* markUnresolvable, and the update of parkTaskIfRecoveryBudgetExceeded. *)
GiveUp(h) ==
  /\ at[h] \in {"giveup", "park"}
  /\ status' = "unresolvable" /\ Goto(h, "idle")
  /\ UNCHANGED <<retries, attempts, cat, famVars, restVars>>

Budget(h) ==
  /\ at[h] = "budget"
  /\ Goto(h, IF Within(1, 0, 0) THEN "fail" ELSE "park")
  /\ UNCHANGED <<taskVars, cat, famVars, restVars>>

Fail(h) ==
  /\ at[h] = "fail"
  /\ status' = "failed" /\ Goto(h, "find")
  /\ UNCHANGED <<retries, attempts, cat, famVars, restVars>>

(* createDoctorTask: an open doctor task is taken for this failure's. *)
FindDoctor(h) ==
  /\ at[h] = "find"
  /\ Goto(h, IF OpenDoctors = {} THEN "insert" ELSE "idle")
  /\ UNCHANGED <<taskVars, cat, famVars, restVars>>

InsertDoctor(h) ==
  /\ at[h] = "insert"
  /\ NewDoctor(FALSE) /\ Goto(h, "idle")
  /\ UNCHANGED <<taskVars, cat, repair, decisions, splitVars, restVars>>

Block(h) ==
  /\ at[h] = "block"
  /\ BlockTask /\ Goto(h, "findfix")
  /\ UNCHANGED <<retries, attempts, cat, doctor, fallback, decisions, splitVars, restVars>>

FindRepair(h) ==
  /\ at[h] = "findfix"
  /\ Goto(h, IF RepairOpen THEN "idle" ELSE "insertfix")
  /\ UNCHANGED <<taskVars, cat, famVars, restVars>>

InsertRepair(h) ==
  /\ at[h] = "insertfix"
  /\ repair' = "open" /\ Goto(h, "idle")
  /\ UNCHANGED <<taskVars, cat, doctor, fallback, decisions, splitVars, restVars>>

-----------------------------------------------------------------------------
(* A doctor task runs and its diagnosis is applied to the failed task.     *)

Become(d, step) == doctor' = [doctor EXCEPT ![d] = step]

DoctorClaim(d) ==
  /\ doctor[d] = "pending" /\ Become(d, "active")
  /\ UNCHANGED <<taskVars, at, cat, fallback, repair, decisions, splitVars, restVars>>

(* rewrite_brief, reassign, reclassify to another role. *)
Rework(d) ==
  /\ "rework" \in Diagnoses /\ doctor[d] = "active" /\ Become(d, "applied")
  /\ status' = "pending" /\ retries' = 0 /\ attempts' = attempts + 1
  /\ UNCHANGED <<at, cat, fallback, repair, decisions, splitVars, restVars>>

(* convert-to-goal, and a reclassify that finds no other role. *)
ToGoal(d) ==
  /\ "goal" \in Diagnoses /\ doctor[d] = "active" /\ Become(d, "applied")
  /\ status' = "cancelled" /\ attempts' = attempts + 1
  /\ UNCHANGED <<retries, at, cat, fallback, repair, decisions, splitVars, restVars>>

(* Output that does not parse: one transaction. *)
Malformed(d) ==
  /\ "malformed" \in Diagnoses /\ doctor[d] = "active" /\ Become(d, "applied")
  /\ status' = "unresolvable" /\ decisions' = decisions + 1
  /\ UNCHANGED <<retries, attempts, at, cat, fallback, repair, splitVars, restVars>>

(* Actions that ask the budget first, and park the task when it is spent.  *)
Ask(d, diagnosis, step, ok) ==
  /\ diagnosis \in Diagnoses /\ doctor[d] = "active"
  /\ Become(d, IF ok THEN step ELSE "applied")
  /\ status' = IF ok THEN status ELSE "unresolvable"
  /\ UNCHANGED <<retries, attempts, at, cat, fallback, repair, decisions, splitVars, restVars>>

AskBudget(d) ==
  \/ Ask(d, "escalate", "escalating", Within(0, 1, 0))
  \/ Ask(d, "split", "splitting", Within(0, 0, SplitSize))
  \/ Ask(d, "fix", "fixing", Within(1, 0, 0))

Escalate(d) ==
  /\ doctor[d] = "escalating" /\ Become(d, "deciding")
  /\ status' = "unresolvable"
  /\ UNCHANGED <<retries, attempts, at, cat, fallback, repair, decisions, splitVars, restVars>>

(* The decision of an escalation, of the recursion guard and of a fallback *)
(* doctor that crashed.                                                    *)
Decide(d) ==
  /\ doctor[d] \in {"deciding", "guarding"}
  /\ Become(d, IF doctor[d] = "deciding" THEN "applied" ELSE "gone")
  /\ decisions' = decisions + 1
  /\ UNCHANGED <<taskVars, at, cat, fallback, repair, splitVars, restVars>>

(* split_task: the task is cancelled, then its sub-tasks are inserted one   *)
(* by one.                                                                 *)
Split(d) ==
  /\ doctor[d] = "splitting" /\ Become(d, "spawning")
  /\ status' = "cancelled" /\ left' = [left EXCEPT ![d] = SplitSize]
  /\ UNCHANGED <<retries, attempts, at, cat, fallback, repair, decisions, replaced, restVars>>

Spawn(d) ==
  /\ doctor[d] = "spawning" /\ left[d] > 0
  /\ replaced' = replaced + 1 /\ left' = [left EXCEPT ![d] = @ - 1]
  /\ Become(d, IF left[d] = 1 THEN "applied" ELSE "spawning")
  /\ UNCHANGED <<taskVars, at, cat, fallback, repair, decisions, restVars>>

(* fix_environment inserts the repair task first and blocks the task then. *)
(* A repair created by the doctor counts as a replacement.                 *)
FixInsert(d) ==
  /\ doctor[d] = "fixing" /\ Become(d, "blocking")
  /\ repair' = "open"
  /\ replaced' = IF RepairOpen THEN replaced ELSE replaced + 1
  /\ UNCHANGED <<taskVars, at, cat, fallback, decisions, left, restVars>>

FixBlock(d) ==
  /\ doctor[d] = "blocking" /\ Become(d, "applied")
  /\ BlockTask /\ attempts' = attempts + 1
  /\ UNCHANGED <<retries, at, cat, fallback, decisions, splitVars, restVars>>

(* No JSON block: the legacy shim retries fixable failures, and leaves the *)
(* task failed otherwise. It knows a doctor task by its title, which the   *)
(* fallback's is not.                                                      *)
LegacyRead(d) ==
  /\ "legacy" \in Diagnoses /\ doctor[d] = "active"
  /\ \/ d \notin fallback /\ retries < LegacyRetries /\ Become(d, "retrying")
     \/ Become(d, "applied")
  /\ UNCHANGED <<taskVars, at, cat, fallback, repair, decisions, splitVars, restVars>>

LegacyRetry(d) ==
  /\ doctor[d] = "retrying" /\ Become(d, "applied")
  /\ status' = "pending" /\ retries' = retries + 1
  /\ UNCHANGED <<attempts, at, cat, fallback, repair, decisions, splitVars, restVars>>

Close(d) ==
  /\ doctor[d] = "applied" /\ Become(d, "gone")
  /\ UNCHANGED <<taskVars, at, cat, fallback, repair, decisions, splitVars, restVars>>

(* The doctor task itself fails: its runtime crashed, or the recursion     *)
(* guard takes it; either marks it unresolvable first.                     *)
DoctorFails(d) ==
  /\ "dies" \in Diagnoses /\ doctor[d] = "active"
  /\ \E step \in {"crashed", "guarding"} : Become(d, step)
  /\ UNCHANGED <<taskVars, at, cat, fallback, repair, decisions, splitVars, restVars>>

FindFallback(d) ==
  /\ doctor[d] = "crashed"
  /\ Become(d, IF d \in fallback THEN "guarding"
               ELSE IF fallback = {} THEN "falling" ELSE "gone")
  /\ UNCHANGED <<taskVars, at, cat, fallback, repair, decisions, splitVars, restVars>>

InsertFallback(d) ==
  /\ doctor[d] = "falling"
  /\ \E f \in NextDoctor :
       /\ doctor' = [doctor EXCEPT ![f] = "pending", ![d] = "gone"]
       /\ fallback' = fallback \cup {f}
  /\ UNCHANGED <<taskVars, at, cat, repair, decisions, splitVars, restVars>>

-----------------------------------------------------------------------------
(* The environment repair, the owner and the dispatcher's process.         *)

StillBlocked == status \in {"blocked", "disk"}
RepairEnds ==
  /\ RepairOpen
  /\ repair' \in {"done"} \cup IF StillBlocked THEN {"fixed"} ELSE {}
  /\ UNCHANGED <<taskVars, at, cat, doctor, fallback, decisions, splitVars, restVars>>

(* The repair's own completion, or a later sweep of the watchdog, hands    *)
(* the task back; the update looks for 'blocked' itself.                   *)
Resume ==
  /\ repair = "fixed" /\ StillBlocked
  /\ status' = "pending" /\ repair' = "done"
  /\ UNCHANGED <<retries, attempts, at, cat, doctor, fallback, decisions, splitVars, restVars>>

(* The claim loop finds the disk healthy again. *)
DiskRecover ==
  /\ status = "disk" /\ status' = "pending"
  /\ UNCHANGED <<retries, attempts, at, cat, famVars, restVars>>

(* The resolver or the owner closes the guard's decision: no answer puts   *)
(* the task back but the one of PATCH /api/decisions/[id], by its id.      *)
CloseGuard ==
  /\ guarded /\ guarded' = FALSE
  /\ status' \in {status, "pending"}
  /\ UNCHANGED <<retries, attempts, at, cat, famVars, cancel, upsets>>

CancelCheck ==
  /\ cancel = "idle" /\ upsets < MaxUpsets /\ status \in {"pending", "active"}
  /\ cancel' = "checked" /\ upsets' = upsets + 1
  /\ UNCHANGED <<taskVars, at, cat, famVars, guarded>>

CancelWrite ==
  /\ cancel = "checked" /\ cancel' = "idle"
  /\ status' = "cancelled"
  /\ UNCHANGED <<retries, attempts, at, cat, famVars, guarded, upsets>>

(* The dispatcher dies; its successor requeues the rows left active.       *)
Crash ==
  /\ upsets < MaxUpsets /\ upsets' = upsets + 1
  /\ at' = [h \in Handlers |-> "idle"] /\ cat' = [h \in Handlers |-> "retry"]
  /\ doctor' = [d \in Doctors |->
       IF doctor[d] \in Working THEN "pending"
       ELSE IF doctor[d] \in {"crashed", "falling", "guarding"} THEN "gone"
       ELSE doctor[d]]
  /\ left' = [d \in Doctors |-> 0]
  /\ status' = IF status = "active" THEN "pending" ELSE status
  /\ UNCHANGED <<retries, attempts, fallback, repair, decisions, replaced, guarded, cancel>>

-----------------------------------------------------------------------------
HandlerStep(h) ==
  \/ Read(h) \/ Retry(h) \/ GiveUp(h) \/ Budget(h) \/ Fail(h)
  \/ FindDoctor(h) \/ InsertDoctor(h) \/ Block(h) \/ FindRepair(h) \/ InsertRepair(h)
RunEnds(h) ==
  Succeed(h) \/ Interrupt(h) \/ Refuse(h) \/ \E c \in Categories : Report(h, c)
Diagnose(d) ==
  \/ Rework(d) \/ ToGoal(d) \/ Malformed(d) \/ AskBudget(d)
  \/ LegacyRead(d) \/ DoctorFails(d)
DoctorStep(d) ==
  \/ Escalate(d) \/ Decide(d) \/ Split(d) \/ Spawn(d) \/ FixInsert(d) \/ FixBlock(d)
  \/ LegacyRetry(d) \/ Close(d) \/ FindFallback(d) \/ InsertFallback(d)

(* Nothing is under way, and nothing will start by itself. *)
AtRest ==
  /\ \A h \in Handlers : at[h] = "idle"
  /\ OpenDoctors = {} /\ ~RepairOpen /\ cancel = "idle"
  /\ status \notin {"pending", "active"}
Rest == AtRest /\ UNCHANGED vars

Next ==
  \/ \E h \in Handlers :
       Claim(h) \/ RunEnds(h) \/ FindStuck(h) \/ FindBlocked(h) \/ HandlerStep(h)
  \/ \E d \in Doctors : DoctorClaim(d) \/ Diagnose(d) \/ DoctorStep(d)
  \/ RepairEnds \/ Resume \/ DiskRecover \/ CloseGuard \/ CancelCheck \/ CancelWrite \/ Crash
  \/ Rest

Spec == Init /\ [][Next]_vars

(* Pending tasks are claimed, executions and doctors end (the watchdog and *)
(* the adapters' timeouts see to it), handlers run on, and the watchdog's  *)
(* timer looks at active and blocked tasks. Nobody has to answer the guard *)
(* or to free the disk.                                                    *)
Fairness ==
  /\ WF_vars(\E h \in Executors : Claim(h))
  /\ \A h \in Handlers : WF_vars(RunEnds(h) \/ HandlerStep(h))
  /\ SF_vars(\E h \in Watchdogs : FindBlocked(h))
  /\ WF_vars(\E h \in Watchdogs : FindStuck(h))
  /\ \A d \in Doctors : WF_vars(DoctorClaim(d) \/ Diagnose(d) \/ DoctorStep(d))
  /\ WF_vars(RepairEnds) /\ WF_vars(Resume)

FairSpec == Spec /\ Fairness

-----------------------------------------------------------------------------
(* Who may have tested retry_count and not yet incremented it.             *)
Releasing == {h \in Handlers : at[h] = "retry"}
LegacyRetrying == {d \in Doctors : doctor[d] = "retrying"}
Incrementers == IF "legacy" \in Diagnoses
                THEN Cardinality(Handlers) + Cardinality(Doctors)
                ELSE Cardinality(Handlers)

(* The limit of retries, maxRetries or the legacy shim's, is overrun by no *)
(* more than the failures that are handled at the same time: releaseTask   *)
(* adds to retry_count blindly, after a read made earlier by               *)
(* handleTaskFailure.                                                      *)
RetryLimit == IF "legacy" \in Diagnoses /\ LegacyRetries > MaxRetries
              THEN LegacyRetries ELSE MaxRetries
RetryBound ==
  retries + Cardinality(Releasing) + Cardinality(LegacyRetrying)
    <= RetryLimit - 1 + Incrementers

(* The recovery budget bounds the doctor tasks of the family, up to the    *)
(* failures of it handled at the same time: the count is taken two         *)
(* statements before the insert. The runtime fallback does not ask it.     *)
DoctorsOnTheWay == {h \in Executors : at[h] \in {"fail", "find", "insert"}}
DoctorBound ==
  Cardinality(Created \ fallback) + Cardinality(DoctorsOnTheWay)
    <= DoctorLimit - 1 + Cardinality(Executors)

(* A blocked task does not stay blocked: a repair that ends hands it back, *)
(* and the watchdog takes it when the repair died, or ended before the     *)
(* task was blocked ("the parent freezes forever. This catches that case", *)
(* watchdog.ts). Only an open decision of the runtime guard may hold it.   *)
BlockedResolved == status = "blocked" ~> (status # "blocked" \/ guarded)

(* Retries and diagnoses are counted, so a task that fails again and again *)
(* comes to rest, unless its environment is repaired again and again,      *)
(* since nothing counts the repairs of shouldCreateDirectEnvironmentFix-   *)
(* Task, or the guard's decision stays open or the disk full.              *)
Settled == status \in {"completed", "cancelled", "unresolvable", "failed"}
Settles == <>[]Settled \/ []<>RepairOpen \/ <>[](guarded \/ status = "disk")

(* failure-handler.ts: "handles the failure and creates a doctor task if   *)
(* needed". A task left failed has a doctor, or a handler about to create  *)
(* one.                                                                    *)
FailedIsTended ==
  status = "failed" => \/ OpenDoctors # {}
                       \/ \E h \in Handlers : at[h] \in {"find", "insert"}

(* doctor/index.ts: "a half-applied split (parent cancelled + only some    *)
(* subtasks inserted) can no longer happen": none is left out.             *)
SplitWhole == [][\A d \in Doctors : left'[d] < left[d] => replaced' = replaced + 1]_vars

(* tasks/[id]/cancel/route.ts: a task that is neither pending nor active   *)
(* "cannot be cancelled".                                                  *)
OnlyLiveCancelled ==
  [][cancel = "checked" /\ cancel' = "idle" => status \in {"pending", "active"}]_vars
=============================================================================
