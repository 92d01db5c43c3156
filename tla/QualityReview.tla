---------------------------- MODULE QualityReview ----------------------------
(***************************************************************************)
(* Quality review of one task that asks for it: an execution delivers and  *)
(* routes the task to review (the row, then a [QA] child), the child's     *)
(* verdict is applied to the task (completed, reworked, blocked, or past   *)
(* the cap a replan for the goal's supervisor or a decision for the        *)
(* owner), the child is closed by a later statement, the watchdog rescues  *)
(* a task whose review died and a task blocked too long, the owner answers *)
(* the decision, and a dispatcher dies in between.                         *)
(*                                                                         *)
(* What a failing execution or review does in detail is FailureFlow's; the *)
(* budget of the family counts the replans and open decisions made here.   *)
(***************************************************************************)
EXTENDS Integers, FiniteSets

CONSTANTS
  Workers,       \* executions of the task that can be under way at a time
  MaxReviews,    \* bound: deliveries, and [QA] children
  RetryCap,      \* QA_RETRY_CAP
  MaxRetries,    \* config.maxRetries
  ReplanLimit,   \* replacementTasksPerFailureFamily
  DecisionLimit, \* openRecoveryDecisionsPerFailureFamily
  Kinds,         \* "goal": the task belongs to a goal; "direct": it does not
  Faults,        \* "crash": the dispatcher dies; "overrun": the watchdog
                 \* releases a row whose execution runs on; "revive": a
                 \* doctor reworks a failed review
  MaxFaults,     \* bound: how many of them
  MaxAnswers     \* bound: answers of the owner

ASSUME ReviewAssumption ==
  /\ IsFiniteSet(Workers) /\ Workers # {}
  /\ MaxReviews \in Nat /\ RetryCap \in Nat /\ MaxRetries \in Nat
  /\ ReplanLimit \in Nat /\ DecisionLimit \in Nat
  /\ Kinds \subseteq {"goal", "direct"} /\ Faults \subseteq {"crash", "overrun", "revive"}
  /\ MaxFaults \in Nat /\ MaxAnswers \in Nat

Reviews == 1..MaxReviews   \* in the order of created_at
Watchdog == 0
Handlers == Reviews \cup {Watchdog}

VARIABLES
  kind,             \* whether the task has a goal
  status, retries,  \* tasks.status, retry_count
  version,          \* deliverables so far; the last one is the current one
  work, ships,      \* each execution: its next step, the version it delivered
  review,           \* each [QA] child's row
  subject,          \* the version it was created for
  step, read,       \* each handler's next statement; the retry_count it read
  replans, replan,  \* [Replan] tasks so far; whether one is open
  decisions,        \* the owner's decisions that are open
  answering,        \* answers recorded and not yet applied to the task
  passed,           \* history: version of the last pass that was applied
  calm,             \* history: no crash, no row released under its execution
                    \* or its review, no review revived
  faults, answers

rowVars    == <<kind, status, retries>>
workVars   == <<version, work, ships>>
reviewVars == <<review, subject>>
stepVars   == <<step, read>>
familyVars == <<replans, replan, decisions, answering>>
countVars  == <<faults, answers>>
vars == <<kind, status, retries, version, work, ships, review, subject, step,
          read, replans, replan, decisions, answering, passed, calm, faults,
          answers>>

(* The two limits on one counter: the greater one is its bound. *)
Tries == IF MaxRetries < RetryCap THEN RetryCap ELSE MaxRetries

TypeOK ==
  /\ kind \in Kinds
  /\ status \in {"pending", "active", "in_review", "blocked", "failed",
                 "unresolvable", "completed", "cancelled"}
  /\ retries \in 0..Tries /\ version \in 0..MaxReviews
  /\ work \in [Workers -> {"idle", "run", "submit"}]
  /\ ships \in [Workers -> 0..MaxReviews]
  /\ review \in [Reviews -> {"none", "pending", "active", "failed", "dead", "completed"}]
  /\ subject \in [Reviews -> 0..MaxReviews]
  /\ step \in [Handlers -> {"idle", "judge", "pass", "block", "read", "rework",
                            "cap", "fail", "release", "find", "insert", "decide", "close"}]
  /\ read \in [Reviews -> 0..RetryCap]
  /\ replans \in Nat /\ replan \in {"none", "open", "done"}
  /\ decisions \in Nat /\ answering \in 0..MaxAnswers
  /\ passed \in 0..MaxReviews /\ calm \in BOOLEAN
  /\ faults \in 0..MaxFaults /\ answers \in 0..MaxAnswers

Init ==
  /\ kind \in Kinds /\ status = "pending" /\ retries = 0 /\ version = 0
  /\ work = [w \in Workers |-> "idle"] /\ ships = [w \in Workers |-> 0]
  /\ review = [r \in Reviews |-> "none"] /\ subject = [r \in Reviews |-> 0]
  /\ step = [h \in Handlers |-> "idle"] /\ read = [r \in Reviews |-> 0]
  /\ replans = 0 /\ replan = "none" /\ decisions = 0 /\ answering = 0
  /\ passed = 0 /\ calm = TRUE
  /\ faults = 0 /\ answers = 0

Created == {r \in Reviews : review[r] # "none"}
OpenReviews == {r \in Reviews : review[r] \in {"pending", "active"}}
Fault(f) == f \in Faults /\ faults < MaxFaults /\ faults' = faults + 1 /\ calm' = FALSE
Goto(h, s) == step' = [step EXCEPT ![h] = s]

-----------------------------------------------------------------------------
(* The task's executions.                                                  *)

ClaimableInReview == status \in {"pending", "in_review"}
Claimable == status = "pending"

Claim(w) ==
  /\ work[w] = "idle" /\ Claimable
  /\ status' = "active" /\ work' = [work EXCEPT ![w] = "run"]
  /\ UNCHANGED <<kind, retries, version, ships, reviewVars, stepVars, familyVars,
                 passed, calm, countVars>>

(* routeToQa: the row first. *)
Route(w) ==
  /\ work[w] = "run" /\ version < MaxReviews
  /\ status' = "in_review" /\ version' = version + 1
  /\ ships' = [ships EXCEPT ![w] = version + 1]
  /\ work' = [work EXCEPT ![w] = "submit"]
  /\ UNCHANGED <<kind, retries, reviewVars, stepVars, familyVars, passed, calm, countVars>>

(* Then the [QA] child. *)
Submit(w) ==
  /\ work[w] = "submit"
  /\ \E r \in Reviews \ Created :
       /\ \A q \in Reviews : q < r => q \in Created
       /\ review' = [review EXCEPT ![r] = "pending"]
       /\ subject' = [subject EXCEPT ![r] = ships[w]]
  /\ work' = [work EXCEPT ![w] = "idle"]
  /\ UNCHANGED <<rowVars, version, ships, stepVars, familyVars, passed, calm, countVars>>

(* A retry, or the end of the task once none is left. *)
Release ==
  IF retries < MaxRetries
    THEN status' = "pending" /\ retries' = retries + 1
    ELSE status' = "unresolvable" /\ UNCHANGED retries

(* An execution cannot start or times out. *)
WorkFails(w) ==
  /\ work[w] = "run"
  /\ Release /\ work' = [work EXCEPT ![w] = "idle"]
  /\ UNCHANGED <<kind, version, ships, reviewVars, stepVars, familyVars, passed,
                 calm, countVars>>

(* The watchdog releases an active row; the execution is not stopped. *)
Overrun ==
  /\ Fault("overrun") /\ status = "active"
  /\ Release
  /\ UNCHANGED <<kind, workVars, reviewVars, stepVars, familyVars, passed, answers>>

-----------------------------------------------------------------------------
(* A review.                                                               *)

ReviewClaim(r) ==
  /\ review[r] = "pending" /\ review' = [review EXCEPT ![r] = "active"]
  /\ Goto(r, "judge")
  /\ UNCHANGED <<rowVars, workVars, subject, read, familyVars, passed, calm, countVars>>

(* parseQaVerdict: pass, fail, or neither. *)
Judge(r) ==
  /\ step[r] = "judge"
  /\ \E s \in {"pass", "read", "block"} : Goto(r, s)
  /\ UNCHANGED <<rowVars, workVars, reviewVars, read, familyVars, passed, calm, countVars>>

(* The review's own execution fails for good; a doctor may look at it.     *)
ReviewFails(r) ==
  /\ step[r] = "judge" /\ Goto(r, "idle")
  /\ \E s \in {"failed", "dead"} : review' = [review EXCEPT ![r] = s]
  /\ UNCHANGED <<rowVars, workVars, subject, read, familyVars, passed, calm, countVars>>

Revive(r) ==
  /\ Fault("revive") /\ review[r] = "failed"
  /\ review' = [review EXCEPT ![r] = "pending"]
  /\ UNCHANGED <<rowVars, workVars, subject, stepVars, familyVars, passed, answers>>

-----------------------------------------------------------------------------
(* processQaResult. No statement asks for the task's status.               *)

(* A pass completes the task in one transaction. *)
Pass(r) ==
  /\ step[r] = "pass" /\ Goto(r, "close")
  /\ status' = "completed" /\ passed' = subject[r]
  /\ UNCHANGED <<kind, retries, workVars, reviewVars, read, familyVars, calm, countVars>>

(* No verdict; or a pass without the proof of a deployment. *)
Block(r) ==
  /\ step[r] \in {"block", "pass"} /\ Goto(r, "close")
  /\ status' = "blocked"
  /\ UNCHANGED <<kind, retries, workVars, reviewVars, read, familyVars, passed,
                 calm, countVars>>

MayRework(n) == n < RetryCap

ReadCount(r) ==
  /\ step[r] = "read"
  /\ read' = [read EXCEPT ![r] = IF MayRework(retries) THEN retries ELSE 0]
  /\ Goto(r, IF MayRework(retries) THEN "rework" ELSE "cap")
  /\ UNCHANGED <<rowVars, workVars, reviewVars, familyVars, passed, calm, countVars>>

ReworkUncounted(r) ==
  /\ step[r] = "rework" /\ Goto(r, "close")
  /\ status' = "pending" /\ retries' = read[r]
  /\ read' = [read EXCEPT ![r] = 0]
  /\ UNCHANGED <<kind, workVars, reviewVars, familyVars, passed, calm, countVars>>

(* The count that was read, plus one. *)
Rework(r) ==
  /\ step[r] = "rework" /\ Goto(r, "close")
  /\ status' = "pending" /\ retries' = read[r] + 1
  /\ read' = [read EXCEPT ![r] = 0]
  /\ UNCHANGED <<kind, workVars, reviewVars, familyVars, passed, calm, countVars>>

(* The cap: a goal's task fails, a direct one asks the decision budget.    *)
Cap(r) ==
  /\ step[r] = "cap"
  /\ \/ kind = "goal" /\ status' = "failed" /\ Goto(r, "find")
     \/ kind = "direct" /\ decisions >= DecisionLimit
          /\ status' = "unresolvable" /\ Goto(r, "close")
     \/ kind = "direct" /\ decisions < DecisionLimit
          /\ UNCHANGED status /\ Goto(r, "decide")
  /\ UNCHANGED <<kind, retries, workVars, reviewVars, read, familyVars, passed,
                 calm, countVars>>

(* createDirectTaskQaCapDecision: one transaction. *)
Decide(r) ==
  /\ step[r] = "decide" /\ Goto(r, "close")
  /\ status' = "blocked" /\ decisions' = decisions + 1
  /\ UNCHANGED <<kind, retries, workVars, reviewVars, read, replans, replan, answering,
                 passed, calm, countVars>>

(* completeTask of the [QA] child. *)
Close(r) ==
  /\ step[r] = "close" /\ Goto(r, "idle")
  /\ review' = [review EXCEPT ![r] = "completed"]
  /\ UNCHANGED <<rowVars, workVars, subject, read, familyVars, passed, calm, countVars>>

-----------------------------------------------------------------------------
(* notifyGoalSupervisorOfQaFailure, of a verdict or of the watchdog.       *)

After(h) == IF h = Watchdog THEN "idle" ELSE "close"

(* A replan that is open is taken for this failure's; the budget parks the *)
(* task when its replans are spent or a decision of its is open.           *)
MayReplan == replans < ReplanLimit /\ decisions < DecisionLimit
FindReplan(h) ==
  /\ step[h] = "find"
  /\ \/ replan = "open" /\ Goto(h, After(h)) /\ UNCHANGED status
     \/ replan # "open" /\ MayReplan /\ Goto(h, "insert") /\ UNCHANGED status
     \/ replan # "open" /\ ~MayReplan
          /\ Goto(h, After(h)) /\ status' = "unresolvable"
  /\ UNCHANGED <<kind, retries, workVars, reviewVars, read, familyVars, passed,
                 calm, countVars>>

InsertReplan(h) ==
  /\ step[h] = "insert" /\ Goto(h, After(h))
  /\ replans' = replans + 1 /\ replan' = "open"
  /\ UNCHANGED <<rowVars, workVars, reviewVars, read, decisions, answering, passed,
                 calm, countVars>>

ReplanEnds ==
  /\ replan = "open" /\ replan' = "done"
  /\ UNCHANGED <<rowVars, workVars, reviewVars, stepVars, replans, decisions, answering,
                 passed, calm, countVars>>

-----------------------------------------------------------------------------
(* The watchdog, the owner and the dispatcher's process.                   *)

(* findDeadEndReviewTasks: some review of the task has failed or died.     *)
AnyReview == Created
DeadOnly == {r \in Reviews : review[r] = "dead"}
DeadEnds == {r \in Reviews : review[r] \in {"failed", "dead"}}
FindDeadEnd ==
  /\ step[Watchdog] = "idle" /\ kind = "goal" /\ status = "in_review" /\ DeadEnds # {}
  /\ Goto(Watchdog, "fail")
  /\ UNCHANGED <<rowVars, workVars, reviewVars, read, familyVars, passed, calm, countVars>>

(* findStuckBlockedTasks: blocked for hours, and no child is at work. Only *)
(* a decision of the runtime guard counts as one that is under way.        *)
FindBlocked ==
  /\ step[Watchdog] = "idle" /\ status = "blocked" /\ OpenReviews = {} /\ replan # "open"
  /\ Goto(Watchdog, IF kind = "goal" THEN "fail" ELSE "release")
  /\ UNCHANGED <<rowVars, workVars, reviewVars, read, familyVars, passed, calm, countVars>>

(* Both writes follow a list that may be old; neither asks for the status. *)
WatchdogReleases ==
  /\ step[Watchdog] = "release" /\ Goto(Watchdog, "idle")
  /\ Release /\ calm' = (calm /\ status = "blocked")
  /\ UNCHANGED <<kind, workVars, reviewVars, read, familyVars, passed, countVars>>

WatchdogFails ==
  /\ step[Watchdog] = "fail" /\ Goto(Watchdog, "find")
  /\ status' = "failed"
  /\ UNCHANGED <<kind, retries, workVars, reviewVars, read, familyVars, passed,
                 calm, countVars>>

(* The owner answers: the decision first, then the task, which is retried  *)
(* or abandoned if it is blocked by now.                                   *)
Answer ==
  /\ decisions > 0 /\ answers < MaxAnswers
  /\ decisions' = decisions - 1 /\ answers' = answers + 1 /\ answering' = answering + 1
  /\ UNCHANGED <<rowVars, workVars, reviewVars, stepVars, replans, replan, passed,
                 calm, faults>>

ApplyAnswer ==
  /\ answering > 0 /\ answering' = answering - 1
  /\ \/ status = "blocked" /\ status' = "pending" /\ retries' = 0
     \/ status = "blocked" /\ status' = "cancelled" /\ UNCHANGED retries
     \/ status # "blocked" /\ UNCHANGED <<status, retries>>
  /\ UNCHANGED <<kind, workVars, reviewVars, stepVars, replans, replan, decisions,
                 passed, calm, countVars>>

(* The dispatcher dies; its successor requeues the rows left active, and   *)
(* nothing else: a task in review whose child was not inserted stays so.   *)
Crash ==
  /\ Fault("crash")
  /\ work' = [w \in Workers |-> "idle"]
  /\ step' = [h \in Handlers |-> "idle"]
  /\ read' = [r \in Reviews |-> 0]
  /\ review' = [r \in Reviews |-> IF review[r] = "active" THEN "pending" ELSE review[r]]
  /\ status' = IF status = "active" THEN "pending" ELSE status
  /\ UNCHANGED <<kind, retries, version, ships, subject, familyVars, passed, answers>>

-----------------------------------------------------------------------------
WorkEnds(w) == Route(w) \/ WorkFails(w)
ReviewEnds(r) == Judge(r) \/ ReviewFails(r)
HandlerStep(h) == FindReplan(h) \/ InsertReplan(h)
VerdictStep(r) ==
  \/ Pass(r) \/ Block(r) \/ ReadCount(r) \/ Rework(r) \/ Cap(r) \/ Decide(r)
  \/ Close(r) \/ HandlerStep(r)
WatchdogStep == WatchdogFails \/ WatchdogReleases \/ HandlerStep(Watchdog)

(* Nothing will start by itself, or the bound on deliveries is reached.    *)
Rest ==
  /\ \A h \in Handlers : step[h] = "idle"
  /\ OpenReviews = {} /\ (status # "pending" \/ version = MaxReviews)
  /\ UNCHANGED vars

Next ==
  \/ \E w \in Workers : Claim(w) \/ WorkEnds(w) \/ Submit(w)
  \/ \E r \in Reviews : ReviewClaim(r) \/ ReviewEnds(r) \/ VerdictStep(r) \/ Revive(r)
  \/ Overrun \/ ReplanEnds \/ FindDeadEnd \/ FindBlocked \/ WatchdogStep
  \/ Answer \/ ApplyAnswer \/ Crash \/ Rest

Spec == Init /\ [][Next]_vars

(* Pending rows are claimed, executions end and their statements are       *)
(* answered, the watchdog's timer looks at every row in review or blocked. *)
(* Nobody makes the owner answer or a doctor revive a review.              *)
Fairness ==
  /\ WF_vars(\E w \in Workers : Claim(w))
  /\ \A w \in Workers : WF_vars(WorkEnds(w)) /\ WF_vars(Submit(w))
  /\ \A r \in Reviews :
       WF_vars(ReviewClaim(r)) /\ WF_vars(ReviewEnds(r)) /\ WF_vars(VerdictStep(r))
  /\ WF_vars(FindDeadEnd) /\ WF_vars(FindBlocked) /\ WF_vars(WatchdogStep)
  /\ WF_vars(ReplanEnds)

FairSpec == Spec /\ Fairness

-----------------------------------------------------------------------------
(* A task is completed by a pass on the deliverable it has now, never by a *)
(* verdict on an earlier one, as long as no row was released under its     *)
(* execution, no failed review revived and no dispatcher died.             *)
CompletedReviewed == calm /\ status = "completed" => passed = version

(* To the rest of the system a task under review is made and judged in     *)
(* turn, although its row, its reviews and its watchdog are written one    *)
(* after the other and few of the writes look at what they replace.        *)
StageOf(s) ==
  CASE s = "pending" -> "todo"
    [] s = "active" -> "making"
    [] s = "in_review" -> "judging"
    [] s = "blocked" -> "asked"
    [] s = "completed" -> "done"
    [] OTHER -> "dropped"
Work == INSTANCE ReviewedWork WITH
  stage <- StageOf(status), made <- version, accepted <- passed
WorkImplemented == Work!Spec

(* Reworks and retries are counted together, so the deliveries of a task   *)
(* are bounded: every one but the first is paid for by a retry or by an    *)
(* answer of the owner, under the same conditions.                         *)
DeliveriesPaid == calm => version <= (Tries + 1) * (answers + 1)

(* A task in review with a child that is at work, or that failed, does not *)
(* stay in review: the verdict is applied or the watchdog rescues the task *)
(* ("Without this the goal silently freezes", index.ts). The watchdog asks *)
(* for a goal, so a direct task whose review died is left out.             *)
Answerable ==
  \/ OpenReviews # {}
  \/ kind = "goal" /\ \E r \in Reviews : review[r] \in {"failed", "dead"}
ReviewAnswered == (status = "in_review" /\ Answerable) ~> (status # "in_review" \/ ~Answerable)

(* watchdog.ts: the tasks rescued from blocked have "no resolving doctor   *)
(* or owner-decision child task in flight".                                *)
AwaitsOwner == [][FindBlocked => decisions = 0]_vars
==============================================================================
