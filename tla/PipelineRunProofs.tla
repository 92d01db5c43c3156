-------------------------- MODULE PipelineRunProofs --------------------------
(***************************************************************************)
(* Theorems about PipelineRun, for every template, every set of calls and  *)
(* every limit.                                                            *)
(***************************************************************************)
EXTENDS PipelineRun, FiniteSetTheorems, TLAPS

(* The parts of TypeOK: the rows, and the calls. *)
RowsOK ==
  /\ run \in RunStates /\ current \in 0..N
  /\ step \in [Steps -> StepStates] /\ task \in [Steps -> TaskStates]
  /\ retries \in [Steps -> Nat] /\ reviews \in [Steps -> Nat] /\ dead \subseteq Steps
  /\ cancel \in 0..N /\ upsets \in 0..MaxUpsets
CallsOK ==
  /\ pc \in [Calls -> Activities] /\ on \in [Calls -> 0..N]
  /\ got \in [Calls -> 0..2] /\ seen \in [Calls -> BOOLEAN]
  /\ \A a \in Calls : /\ pc[a] # "idle" => on[a] \in Steps
                      /\ pc[a] \notin Transactions \cup {"claim"} => got[a] = 0
                      /\ pc[a] = "claim" => got[a] = 1

LEMMA TypeParts == TypeOK <=> RowsOK /\ CallsOK
  BY DEF TypeOK, RowsOK, CallsOK

(* The rows of steps that have been at work, and who may be at work on them. *)
Begun(s) == step[s] \notin {"none", "pending"}
BegunInv ==
  /\ \A s \in Steps : /\ task[s] # "none" => step[s] # "none"
                      /\ task[s] \notin {"none", "pending", "cancelled"} => Begun(s)
                      /\ reviews[s] # 0 => Begun(s)
  /\ \A a \in Calls : /\ pc[a] # "idle" => step[on[a]] # "none"
                      /\ pc[a] \notin {"idle", "claim"} => Begun(on[a])
  /\ cancel # 0 => step[cancel] # "none"

(* One transaction at a time has the run, and what it saw still holds. *)
HasRun(a) == pc[a] \in Transactions /\ got[a] = 2
LockInv ==
  /\ \A a, b \in Calls : HasRun(a) /\ HasRun(b) => a = b
  /\ \A a \in Calls : HasRun(a) /\ seen[a] => Eligible(on[a])

(* Every review at work is one of the [QA] children: none is counted away twice. *)
ReviewsCounted == \A s \in Steps : Cardinality(Reviewers(s)) <= reviews[s]
TypeInv == TypeOK /\ ReviewsCounted

RunInv == TypeInv /\ StepsInOrder /\ CompletedHandsOn /\ BegunInv /\ LockInv

-----------------------------------------------------------------------------
(* What the sequences of locks say.                                        *)

LEMMA Orders ==
  ASSUME NEW a \in Calls
  PROVE  /\ pc[a] = "claim" => LockOrder(a) = <<"task", "step">>
         /\ pc[a] \in Transactions => LockOrder(a) = <<"step", "run", "task">>
         /\ pc[a] \notin Transactions \cup {"claim"} => LockOrder(a) = <<>>
  BY DEF LockOrder, Transactions

LEMMA LocksHeld ==
  ASSUME TypeOK, NEW a \in Calls
  PROVE  /\ Holds(a, "task") <=> pc[a] = "claim"
         /\ Holds(a, "step") <=> pc[a] \in Transactions /\ got[a] # 0
         /\ Holds(a, "run") <=> HasRun(a)
<1>1. got[a] \in 0..2
  BY DEF TypeOK
<1>2. CASE pc[a] = "claim"
  <2>1. got[a] = 1 /\ pc[a] \notin Transactions
    BY <1>2 DEF TypeOK, Transactions
  <2> QED
    BY <1>2, <2>1, Orders DEF Holds, HasRun
<1>3. CASE pc[a] \in Transactions
  <2>1. pc[a] # "claim"
    BY <1>3 DEF Transactions
  <2> QED
    BY <1>1, <1>3, <2>1, Orders DEF Holds, HasRun
<1>4. CASE pc[a] \notin Transactions \cup {"claim"}
  <2>1. got[a] = 0
    BY <1>4 DEF TypeOK
  <2> QED
    BY <1>4, <2>1 DEF Holds, HasRun
<1> QED
  BY <1>2, <1>3, <1>4

LEMMA NextLock ==
  ASSUME TypeOK, NEW a \in Calls
  PROVE  /\ Locking(a) => pc[a] \in Transactions \cup {"claim"}
         /\ pc[a] = "claim" => Next1(a) = "step"
         /\ pc[a] \in Transactions =>
              Next1(a) = IF got[a] = 0 THEN "step" ELSE IF got[a] = 1 THEN "run" ELSE "task"
         /\ LastLock(a) => pc[a] = "claim" \/ HasRun(a)
         /\ pc[a] \in Transactions => (got[a] + 1 < Len(LockOrder(a)) <=> got[a] # 2)
<1>1. got[a] \in 0..2
  BY DEF TypeOK
<1>2. CASE pc[a] = "claim"
  <2>1. got[a] = 1 /\ pc[a] \notin Transactions
    BY <1>2 DEF TypeOK, Transactions
  <2> QED
    BY <1>2, <2>1, Orders DEF Next1, Locking, LastLock
<1>3. CASE pc[a] \in Transactions
  <2>1. pc[a] # "claim" /\ LockOrder(a) = <<"step", "run", "task">>
    BY <1>3, Orders DEF Transactions
  <2> QED
    BY <1>1, <1>3, <2>1 DEF Next1, Locking, LastLock, HasRun
<1>4. CASE pc[a] \notin Transactions \cup {"claim"}
  <2>1. LockOrder(a) = <<>> /\ got[a] = 0
    BY <1>4, Orders DEF TypeOK
  <2> QED
    BY <1>4, <2>1 DEF Locking, LastLock
<1> QED
  BY <1>2, <1>3, <1>4

-----------------------------------------------------------------------------
(* TypeOK is inductive with the count of the reviews.                      *)

LEMMA TypeInit == Init => TypeOK
  BY PipelineAssumption DEF Init, TypeOK, Steps, RunStates, StepStates, TaskStates,
                            Activities, Transactions

(* How a call's own variables change: it goes on, ends or begins. *)
LEMMA CallMoves ==
  ASSUME CallsOK, NEW a \in Calls,
         \/ \E x \in Activities \ {"idle", "claim"} : pc[a] # "idle" /\ Goes(a, x)
         \/ Ends(a)
         \/ \E x \in Activities \ {"idle", "claim"}, s \in Steps : Begins(a, x, s)
  PROVE  CallsOK'
<1> USE DEF CallsOK, Steps, Activities, Transactions
<1>1. ASSUME NEW x \in Activities \ {"idle", "claim"}, pc[a] # "idle", Goes(a, x)
      PROVE  CallsOK'
  BY <1>1 DEF Goes
<1>2. CASE Ends(a)
  BY <1>2, PipelineAssumption DEF Ends
<1>3. ASSUME NEW x \in Activities \ {"idle", "claim"}, NEW s \in Steps, Begins(a, x, s)
      PROVE  CallsOK'
  BY <1>3 DEF Begins
<1> QED
  BY <1>1, <1>2, <1>3

LEMMA HandlingType == ASSUME NEW s PROVE Handling(s) \subseteq {"giveup", "release"}
  BY DEF Handling

LEMMA CallsNext ==
  ASSUME TypeOK, [Next]_vars
  PROVE  CallsOK'
<1>0. CallsOK
  BY TypeParts
<1> USE DEF Activities, Transactions
<1>1. CASE UNCHANGED actorVars
  BY <1>0, <1>1 DEF actorVars, CallsOK
<1>2. ASSUME NEW a \in Calls, CallStep(a) PROVE CallsOK'
  <2>1. CASE MarkRunning(a)
    BY <1>0, <2>1, CallMoves DEF MarkRunning
  <2>2. CASE Deliver(a) \/ Pass(a) \/ ReadRules(a) \/ RouteToQa(a) \/ Reject(a)
    <3>1. pc[a] # "idle"
          /\ \E x \in {"complete", "pass", "fail", "requeue", "submit", "close"} : Goes(a, x)
      BY <2>2 DEF Deliver, Pass, ReadRules, RouteToQa, Reject
    <3> QED
      BY <1>0, <3>1, CallMoves
  <2>3. CASE ReportFailure(a)
    <3>1. pc[a] # "idle" /\ \E x \in {"giveup", "release"} : Goes(a, x)
      BY <2>3, HandlingType DEF ReportFailure
    <3> QED
      BY <1>0, <3>1, CallMoves
  <2>4. CASE \/ BlockTask(a) \/ Submit(a) \/ SubmitFails(a) \/ Requeue(a) \/ GiveUp(a)
             \/ Close(a) \/ ReviewDies(a) \/ Advance(a) \/ Throws(a) \/ AlreadyCompleted(a)
             \/ FailStep(a) \/ NotEligible(a)
    <3>1. Ends(a) \/ (pc[a] # "idle" /\ Goes(a, "close"))
      BY <2>4 DEF BlockTask, Submit, SubmitFails, Requeue, GiveUp, Close, ReviewDies, Advance,
                  Throws, AlreadyCompleted, FailStep, NotEligible
    <3> QED
      BY <1>0, <3>1, CallMoves
  <2>5. CASE Acquire(a)
    <3>1. pc[a] \in Transactions /\ got[a] # 2 /\ got[a] \in 0..2
      BY <2>5, NextLock DEF Acquire, TypeOK
    <3>2. Eligible(on[a]) \in BOOLEAN
      BY DEF Eligible, StepOpen
    <3> QED
      BY <1>0, <2>5, <3>1, <3>2 DEF Acquire, CallsOK
  <2> QED
    BY <1>2, <2>1, <2>2, <2>3, <2>4, <2>5 DEF CallStep
<1>3. ASSUME NEW s \in Steps, TakeUp(s) PROVE CallsOK'
  <2> PICK a \in Calls : ClaimTask(a, s) \/ BeginReview(a, s) \/ FlagStuck(a, s) \/ FlagDeadEnd(a, s)
    BY <1>3 DEF TakeUp
  <2>1. CASE ClaimTask(a, s)
    BY <1>0, <2>1 DEF ClaimTask, CallsOK, Steps
  <2>2. CASE BeginReview(a, s) \/ FlagDeadEnd(a, s)
    <3>1. \E x \in {"review", "giveup"} : Begins(a, x, s)
      BY <2>2 DEF BeginReview, FlagDeadEnd
    <3> QED
      BY <1>0, <3>1, CallMoves
  <2>3. CASE FlagStuck(a, s)
    <3>1. \E x \in {"giveup", "release"} : Begins(a, x, s)
      BY <2>3, HandlingType DEF FlagStuck
    <3> QED
      BY <1>0, <3>1, CallMoves
  <2> QED
    BY <2>1, <2>2, <2>3
<1>4. CASE Crash
  BY <1>0, <1>4, PipelineAssumption DEF Crash, CallsOK
<1>5. CASE \/ StartRun \/ CancelWrite \/ \E a \in Calls : Ask(a)
           \/ \E s \in Steps : CancelCheck(s) \/ Reopen(s)
  BY <1>1, <1>5 DEF StartRun, CancelWrite, Ask, CancelCheck, Reopen
<1>6. CASE UNCHANGED vars
  BY <1>1, <1>6 DEF vars
<1> QED
  BY <1>2, <1>3, <1>4, <1>5, <1>6 DEF Next

LEMMA ReviewersFinite ==
  ASSUME NEW s
  PROVE  IsFiniteSet(Reviewers(s)) /\ Cardinality(Reviewers(s)) \in Nat
<1>1. Reviewers(s) \subseteq Calls
  BY DEF Reviewers
<1> QED
  BY <1>1, PipelineAssumption, FS_Subset, FS_CardinalityType

LEMMA CountInit == Init => ReviewsCounted
<1> SUFFICES ASSUME Init, NEW s \in Steps PROVE Cardinality(Reviewers(s)) <= reviews[s]
  BY DEF ReviewsCounted
<1>1. Reviewers(s) = {}
  BY DEF Init, Reviewers
<1> QED
  BY <1>1, FS_EmptySet DEF Init

Reviewing(a) == pc[a] \in {"review", "pass", "close"}

(* A step's reviewers and its count: fewer reviewers, one that ends, one that begins. *)
LEMMA FewerReviewers ==
  ASSUME TypeInv, NEW s \in Steps, Reviewers(s)' \subseteq Reviewers(s),
         reviews'[s] \in Nat, reviews'[s] >= reviews[s]
  PROVE  Cardinality(Reviewers(s))' <= reviews'[s]
<1>1. /\ Cardinality(Reviewers(s)') <= Cardinality(Reviewers(s))
      /\ Cardinality(Reviewers(s)') \in Nat /\ Cardinality(Reviewers(s)) \in Nat
  BY ReviewersFinite, FS_Subset, FS_CardinalityType
<1>2. Cardinality(Reviewers(s)) <= reviews[s] /\ reviews[s] \in Nat
  BY DEF TypeInv, ReviewsCounted, TypeOK
<1> QED
  BY <1>1, <1>2

LEMMA ReviewerEnds ==
  ASSUME TypeInv, NEW a \in Calls, NEW s \in Steps,
         Reviewing(a), on[a] = s, Ends(a)
  PROVE  /\ reviews[s] - 1 \in Nat /\ Cardinality(Reviewers(s))' <= reviews[s] - 1
         /\ \A t \in Steps : Reviewers(t)' \subseteq Reviewers(t)
<1>1. pc'[a] = "idle" /\ \A b \in Calls \ {a} : pc'[b] = pc[b] /\ on'[b] = on[b]
  BY DEF Ends, TypeInv, TypeOK
<1>2. a \in Reviewers(s) /\ \A t \in Steps : Reviewers(t)' \subseteq Reviewers(t)
  BY <1>1 DEF Reviewers, Reviewing
<1>3. Reviewers(s)' \subseteq Reviewers(s) \ {a}
  BY <1>1 DEF Reviewers
<1>4. /\ IsFiniteSet(Reviewers(s) \ {a})
      /\ Cardinality(Reviewers(s) \ {a}) = Cardinality(Reviewers(s)) - 1
  BY <1>2, ReviewersFinite, FS_RemoveElement
<1>5. /\ Cardinality(Reviewers(s)') <= Cardinality(Reviewers(s)) - 1
      /\ Cardinality(Reviewers(s)') \in Nat /\ Cardinality(Reviewers(s)) \in Nat
  BY <1>3, <1>4, ReviewersFinite, FS_Subset, FS_CardinalityType
<1>6. Cardinality(Reviewers(s)) <= reviews[s] /\ reviews[s] \in Nat
  BY DEF TypeInv, ReviewsCounted, TypeOK
<1> QED
  BY <1>2, <1>5, <1>6

LEMMA ReviewerBegins ==
  ASSUME TypeInv, NEW a \in Calls, NEW s \in Steps, BeginReview(a, s)
  PROVE  ReviewsCounted'
<1>1. /\ pc[a] = "idle" /\ pc'[a] = "review" /\ on'[a] = s /\ reviews' = reviews
      /\ \A b \in Calls \ {a} : pc'[b] = pc[b] /\ on'[b] = on[b]
  BY DEF BeginReview, Begins, taskVars, TypeInv, TypeOK
<1>2. SUFFICES ASSUME NEW t \in Steps PROVE Cardinality(Reviewers(t))' <= reviews'[t]
  BY DEF ReviewsCounted
<1>3. CASE t = s
  <2>1. Reviewers(s)' = Reviewers(s) \cup {a} /\ a \notin Reviewers(s)
    BY <1>1 DEF Reviewers
  <2>2. Cardinality(Reviewers(s) \cup {a}) = Cardinality(Reviewers(s)) + 1
    BY <2>1, ReviewersFinite, FS_AddElement
  <2>3. Cardinality(Reviewers(s)) < reviews[s] /\ reviews[s] \in Nat /\ Cardinality(Reviewers(s)) \in Nat
    BY ReviewersFinite DEF BeginReview, TypeInv, TypeOK
  <2>4. Cardinality(Reviewers(s)') = Cardinality(Reviewers(s)) + 1
    BY <2>1, <2>2
  <2> QED
    BY <1>1, <1>3, <2>3, <2>4
<1>4. CASE t # s
  <2>1. Reviewers(t)' \subseteq Reviewers(t)
    BY <1>1, <1>4 DEF Reviewers
  <2> QED
    BY <1>1, <2>1, FewerReviewers DEF TypeInv, TypeOK
<1> QED
  BY <1>3, <1>4

(* Calls that are not reviews, before and after, leave the reviewers alone. *)
LEMMA OtherCalls ==
  ASSUME TypeInv, NEW a \in Calls, NEW t \in Steps,
         ~Reviewing(a)', \A b \in Calls \ {a} : pc'[b] = pc[b] /\ on'[b] = on[b]
  PROVE  Reviewers(t)' \subseteq Reviewers(t)
  BY DEF Reviewers, Reviewing

LEMMA SetTaskType ==
  ASSUME RowsOK, NEW s \in Steps, NEW x \in TaskStates, SetTask(s, x)
  PROVE  task' \in [Steps -> TaskStates]
  BY DEF SetTask, RowsOK

LEMMA CallAlone ==
  ASSUME TypeOK, NEW a \in Calls,
         CallStep(a) \/ \E s \in Steps : ClaimTask(a, s) \/ BeginReview(a, s)
                                         \/ FlagStuck(a, s) \/ FlagDeadEnd(a, s)
  PROVE  \A b \in Calls \ {a} : pc'[b] = pc[b] /\ on'[b] = on[b]
<1>1. CASE \/ \E x : Goes(a, x)
           \/ Ends(a) \/ \E x, s : Begins(a, x, s)
  BY <1>1 DEF Goes, Ends, Begins, TypeOK
<1>2. CASE CallStep(a)
  <2>1. CASE Acquire(a)
    BY <2>1 DEF Acquire
  <2>2. CASE \/ BlockTask(a) \/ Submit(a) \/ SubmitFails(a) \/ Requeue(a) \/ GiveUp(a)
             \/ Close(a) \/ ReviewDies(a) \/ Advance(a) \/ Throws(a) \/ AlreadyCompleted(a)
             \/ FailStep(a) \/ NotEligible(a)
    BY <1>1, <2>2 DEF BlockTask, Submit, SubmitFails, Requeue, GiveUp, Close, ReviewDies, Advance,
                      Throws, AlreadyCompleted, FailStep, NotEligible
  <2>3. CASE \/ MarkRunning(a) \/ Deliver(a) \/ RouteToQa(a) \/ ReportFailure(a)
             \/ ReadRules(a) \/ Pass(a) \/ Reject(a)
    BY <1>1, <2>3 DEF MarkRunning, Deliver, RouteToQa, ReportFailure, ReadRules, Pass, Reject
  <2> QED
    BY <1>2, <2>1, <2>2, <2>3 DEF CallStep
<1>3. ASSUME NEW s \in Steps, ClaimTask(a, s) \/ BeginReview(a, s) \/ FlagStuck(a, s) \/ FlagDeadEnd(a, s)
      PROVE  \A b \in Calls \ {a} : pc'[b] = pc[b] /\ on'[b] = on[b]
  <2>1. CASE ClaimTask(a, s)
    BY <2>1 DEF ClaimTask, TypeOK
  <2>2. CASE BeginReview(a, s) \/ FlagStuck(a, s) \/ FlagDeadEnd(a, s)
    BY <1>1, <2>2 DEF BeginReview, FlagStuck, FlagDeadEnd
  <2> QED
    BY <1>3, <2>1, <2>2
<1> QED
  BY <1>2, <1>3

(* A call's step keeps the rows well formed and its reviews counted. *)
LEMMA RowsCall ==
  ASSUME TypeInv, NEW a \in Calls, CallStep(a)
  PROVE  RowsOK' /\ ReviewsCounted'
<1>0. /\ RowsOK /\ TypeOK
      /\ \A b \in Calls \ {a} : pc'[b] = pc[b] /\ on'[b] = on[b]
  BY TypeParts, CallAlone DEF TypeInv
<1> USE <1>0
<1>1. ASSUME ~Reviewing(a)', \A t \in Steps : reviews'[t] \in Nat /\ reviews'[t] >= reviews[t]
      PROVE  ReviewsCounted'
  BY <1>1, OtherCalls, FewerReviewers DEF ReviewsCounted
<1>2. ASSUME Reviewing(a), Ends(a), NEW s \in Steps, on[a] = s,
             reviews' = [reviews EXCEPT ![s] = @ - 1]
      PROVE  ReviewsCounted' /\ reviews' \in [Steps -> Nat]
  <2>1. reviews[s] - 1 \in Nat /\ Cardinality(Reviewers(s))' <= reviews[s] - 1
    BY <1>2, ReviewerEnds DEF Reviewing
  <2>2. \A t \in Steps : Reviewers(t)' \subseteq Reviewers(t)
    BY <1>2, ReviewerEnds DEF Reviewing
  <2>3. reviews' \in [Steps -> Nat] /\ reviews'[s] = reviews[s] - 1
    BY <1>2, <2>1 DEF RowsOK
  <2>4. ASSUME NEW t \in Steps \ {s} PROVE Cardinality(Reviewers(t))' <= reviews'[t]
    <3>1. reviews'[t] = reviews[t] /\ reviews[t] \in Nat
      BY <1>2 DEF RowsOK
    <3> QED
      BY <2>2, <3>1, FewerReviewers
  <2> QED
    BY <2>1, <2>3, <2>4 DEF ReviewsCounted
<1>3. CASE \/ Deliver(a) \/ ReportFailure(a) \/ ReadRules(a)
  <2>1. UNCHANGED <<runVars, taskVars, restVars>> /\ ~Reviewing(a)'
    BY <1>3, HandlingType DEF Deliver, ReportFailure, ReadRules, Goes, Reviewing, TypeOK
  <2> QED
    BY <1>1, <2>1 DEF RowsOK, runVars, taskVars, restVars
<1>4. CASE Pass(a) \/ Acquire(a)
  <2>1. UNCHANGED <<runVars, taskVars, restVars>>
    BY <1>4 DEF Pass, Acquire
  <2>2. \A t \in Steps : Reviewers(t)' \subseteq Reviewers(t)
    BY <1>4 DEF Pass, Acquire, Goes, Reviewers, TypeOK
  <2> QED
    BY <2>1, <2>2, FewerReviewers DEF ReviewsCounted, RowsOK, runVars, taskVars, restVars
<1>5. CASE Throws(a) \/ AlreadyCompleted(a) \/ NotEligible(a)
  <2>1. UNCHANGED <<runVars, taskVars, restVars>> /\ ~Reviewing(a)'
    BY <1>5 DEF Throws, AlreadyCompleted, NotEligible, Ends, Reviewing, TypeOK
  <2> QED
    BY <1>1, <2>1 DEF RowsOK, runVars, taskVars, restVars
<1>6. CASE MarkRunning(a)
  <2>1. on[a] \in Steps /\ ~Reviewing(a)' /\ UNCHANGED <<run, current, retries, reviews, dead, restVars>>
    BY <1>6 DEF MarkRunning, Goes, Reviewing, TypeOK
  <2>2. task' \in [Steps -> TaskStates]
    BY <1>6, <2>1, SetTaskType DEF MarkRunning, TaskStates
  <2>3. step' \in [Steps -> StepStates]
    BY <1>6, <2>1 DEF MarkRunning, RowsOK, StepStates
  <2> QED
    BY <1>1, <2>1, <2>2, <2>3 DEF RowsOK, restVars
<1>7. CASE BlockTask(a) \/ RouteToQa(a) \/ Requeue(a) \/ GiveUp(a)
  <2>1. on[a] \in Steps /\ ~Reviewing(a)' /\ UNCHANGED <<runVars, reviews, dead, restVars>>
    BY <1>7 DEF BlockTask, RouteToQa, Requeue, GiveUp, Goes, Ends, Reviewing, TypeOK
  <2>2. task' \in [Steps -> TaskStates]
    BY <1>7, <2>1, SetTaskType DEF BlockTask, RouteToQa, Requeue, GiveUp, TaskStates
  <2>3. retries' \in [Steps -> Nat]
    BY <1>7, <2>1 DEF BlockTask, RouteToQa, Requeue, GiveUp, RowsOK
  <2> QED
    BY <1>1, <2>1, <2>2, <2>3 DEF RowsOK, runVars, restVars
<1>8. CASE Submit(a) \/ SubmitFails(a)
  <2>1. on[a] \in Steps /\ ~Reviewing(a)' /\ UNCHANGED <<runVars, task, retries, dead, cancel>>
    BY <1>8 DEF Submit, SubmitFails, Ends, Reviewing, TypeOK, taskVars, restVars
  <2>2. reviews' \in [Steps -> Nat] /\ \A t \in Steps : reviews'[t] >= reviews[t]
    BY <1>8, <2>1 DEF Submit, SubmitFails, RowsOK, taskVars
  <2>3. upsets' \in 0..MaxUpsets
    BY <1>8, PipelineAssumption DEF Submit, SubmitFails, RowsOK, restVars
  <2> QED
    BY <1>1, <2>1, <2>2, <2>3 DEF RowsOK, runVars
<1>9. CASE ReviewDies(a)
  <2>1. /\ on[a] \in Steps /\ Reviewing(a) /\ Ends(a) /\ reviews' = [reviews EXCEPT ![on[a]] = @ - 1]
        /\ UNCHANGED <<runVars, task, retries, restVars>>
    BY <1>9 DEF ReviewDies, Reviewing, TypeOK
  <2>2. dead' \subseteq Steps
    BY <1>9, <2>1 DEF ReviewDies, RowsOK
  <2> QED
    BY <1>2, <2>1, <2>2 DEF RowsOK, runVars, restVars
<1>10. CASE Reject(a)
  <2>1. on[a] \in Steps /\ UNCHANGED <<runVars, reviews, dead, restVars>>
    BY <1>10 DEF Reject, TypeOK
  <2>2. task' \in [Steps -> TaskStates] /\ retries' \in [Steps -> Nat]
    BY <1>10, <2>1, SetTaskType DEF Reject, TaskStates, RowsOK
  <2>3. \A t \in Steps : Reviewers(t)' \subseteq Reviewers(t)
    BY <1>10 DEF Reject, Goes, Reviewers, TypeOK
  <2> QED
    BY <2>1, <2>2, <2>3, FewerReviewers DEF ReviewsCounted, RowsOK, runVars, restVars
<1>11. CASE Close(a)
  <2>1. /\ on[a] \in Steps /\ Reviewing(a) /\ Ends(a) /\ reviews' = [reviews EXCEPT ![on[a]] = @ - 1]
        /\ UNCHANGED <<runVars, task, retries, dead, restVars>>
    BY <1>11 DEF Close, Reviewing, TypeOK
  <2> QED
    BY <1>2, <2>1 DEF RowsOK, runVars, restVars
<1>12. CASE Advance(a)
  <2>1. on[a] \in Steps /\ pc[a] \in {"complete", "pass"} /\ UNCHANGED <<retries, reviews, dead, restVars>>
    BY <1>12 DEF Advance, Completes, TypeOK
  <2>2. run' \in RunStates /\ current' \in 0..N
    BY <1>12, <2>1, PipelineAssumption DEF Advance, CurrentAfter, RunStates, Steps
  <2>3. step' \in [Steps -> StepStates] /\ task' \in [Steps -> TaskStates]
    BY <1>12 DEF Advance, StepStates, TaskStates, RowsOK
  <2>4. \A t \in Steps : Reviewers(t)' \subseteq Reviewers(t)
    BY <1>12 DEF Advance, Goes, Ends, Reviewers, TypeOK
  <2> QED
    BY <2>1, <2>2, <2>3, <2>4, FewerReviewers DEF ReviewsCounted, RowsOK, restVars
<1>13. CASE FailStep(a)
  <2>1. on[a] \in Steps /\ ~Reviewing(a)' /\ UNCHANGED <<current, retries, reviews, dead, restVars>>
    BY <1>13 DEF FailStep, Ends, Reviewing, TypeOK, Transactions
  <2>2. task' \in [Steps -> TaskStates]
    BY <1>13, <2>1, SetTaskType DEF FailStep, TaskStates
  <2>3. step' \in [Steps -> StepStates] /\ run' \in RunStates
    BY <1>13, <2>1 DEF FailStep, RowsOK, StepStates, RunStates
  <2> QED
    BY <1>1, <2>1, <2>2, <2>3 DEF RowsOK, restVars
<1> QED
  BY <1>3, <1>4, <1>5, <1>6, <1>7, <1>8, <1>9, <1>10, <1>11, <1>12, <1>13 DEF CallStep

LEMMA SameReviewers ==
  ASSUME TypeInv, reviews' = reviews, \A t \in Steps : Reviewers(t)' \subseteq Reviewers(t)
  PROVE  ReviewsCounted'
  BY FewerReviewers DEF ReviewsCounted, TypeInv, TypeOK

LEMMA RowsTakeUp ==
  ASSUME TypeInv, NEW s \in Steps, TakeUp(s)
  PROVE  RowsOK' /\ ReviewsCounted'
<1>0. RowsOK /\ TypeOK
  BY TypeParts DEF TypeInv
<1> USE <1>0
<1> PICK a \in Calls : ClaimTask(a, s) \/ BeginReview(a, s) \/ FlagStuck(a, s) \/ FlagDeadEnd(a, s)
  BY DEF TakeUp
<1>1. UNCHANGED <<runVars, taskVars, restVars>>
  BY DEF ClaimTask, BeginReview, FlagStuck, FlagDeadEnd
<1>2. CASE BeginReview(a, s)
  BY <1>1, <1>2, ReviewerBegins DEF RowsOK, runVars, taskVars, restVars
<1>3. CASE ClaimTask(a, s) \/ FlagStuck(a, s) \/ FlagDeadEnd(a, s)
  <2>1. \A b \in Calls \ {a} : pc'[b] = pc[b] /\ on'[b] = on[b]
    BY <1>3, CallAlone
  <2>2. ~Reviewing(a)'
    BY <1>3, HandlingType DEF ClaimTask, FlagStuck, FlagDeadEnd, Begins, Reviewing, TypeOK
  <2> QED
    BY <1>1, <2>1, <2>2, OtherCalls, SameReviewers DEF RowsOK, runVars, taskVars, restVars
<1> QED
  BY <1>2, <1>3

LEMMA RowsOther ==
  ASSUME TypeInv,
         \/ StartRun \/ CancelWrite \/ Crash \/ \E a \in Calls : Ask(a)
         \/ \E s \in Steps : CancelCheck(s) \/ Reopen(s)
         \/ UNCHANGED vars
  PROVE  RowsOK' /\ ReviewsCounted'
<1>0. RowsOK /\ TypeOK
  BY TypeParts DEF TypeInv
<1> USE <1>0
<1>1. ASSUME UNCHANGED actorVars, reviews' = reviews PROVE ReviewsCounted'
  BY <1>1, SameReviewers DEF actorVars, Reviewers
<1>2. CASE StartRun
  <2>1. 1 \in Steps
    BY PipelineAssumption DEF Steps
  <2>2. task' \in [Steps -> TaskStates]
    BY <1>2, <2>1, SetTaskType DEF StartRun, TaskStates
  <2>3. step' \in [Steps -> StepStates] /\ run' \in RunStates /\ current' \in 0..N
    BY <1>2, <2>1 DEF StartRun, RowsOK, StepStates, RunStates, Steps
  <2> QED
    BY <1>1, <1>2, <2>2, <2>3 DEF StartRun, RowsOK, restVars
<1>3. CASE CancelWrite
  <2>1. cancel \in Steps
    BY <1>3 DEF CancelWrite, RowsOK, Steps
  <2>2. task' \in [Steps -> TaskStates]
    BY <1>3, <2>1, SetTaskType DEF CancelWrite, TaskStates
  <2> QED
    BY <1>1, <1>3, <2>2, PipelineAssumption DEF CancelWrite, RowsOK, runVars
<1>4. CASE Crash
  <2>1. task' \in [Steps -> TaskStates] /\ upsets' \in 0..MaxUpsets
    BY <1>4, PipelineAssumption DEF Crash, RowsOK, TaskStates
  <2>2. \A t \in Steps : Reviewers(t)' \subseteq Reviewers(t)
    BY <1>4 DEF Crash, Reviewers
  <2> QED
    BY <1>4, <2>1, <2>2, SameReviewers DEF Crash, RowsOK, runVars
<1>5. ASSUME NEW a \in Calls, Ask(a) PROVE RowsOK' /\ ReviewsCounted'
  <2>1. task' \in [Steps -> TaskStates] /\ upsets' \in 0..MaxUpsets
    BY <1>5, SetTaskType, PipelineAssumption DEF Ask, RowsOK, TypeOK, TaskStates
  <2> QED
    BY <1>1, <1>5, <2>1 DEF Ask, RowsOK, runVars
<1>6. ASSUME NEW s \in Steps, CancelCheck(s) PROVE RowsOK' /\ ReviewsCounted'
  <2>1. cancel' \in 0..N /\ upsets' \in 0..MaxUpsets
    BY <1>6, PipelineAssumption DEF CancelCheck, RowsOK, Steps
  <2> QED
    BY <1>1, <1>6, <2>1 DEF CancelCheck, RowsOK, runVars, taskVars
<1>7. ASSUME NEW s \in Steps, Reopen(s) PROVE RowsOK' /\ ReviewsCounted'
  <2>1. /\ task' \in [Steps -> TaskStates] /\ upsets' \in 0..MaxUpsets
        /\ retries' \in [Steps -> Nat]
    BY <1>7, SetTaskType, PipelineAssumption DEF Reopen, RowsOK, TaskStates
  <2> QED
    BY <1>1, <1>7, <2>1 DEF Reopen, RowsOK, runVars
<1>8. CASE UNCHANGED vars
  BY <1>1, <1>8 DEF vars, runVars, taskVars, RowsOK
<1> QED
  BY <1>2, <1>3, <1>4, <1>5, <1>6, <1>7, <1>8

LEMMA TypeNext == TypeInv /\ [Next]_vars => TypeInv'
<1> SUFFICES ASSUME TypeInv, [Next]_vars PROVE TypeInv'
  OBVIOUS
<1>1. CallsOK'
  BY CallsNext DEF TypeInv
<1>2. RowsOK' /\ ReviewsCounted'
  BY RowsCall, RowsTakeUp, RowsOther DEF Next
<1>3. TypeOK'
  BY <1>1, <1>2 DEF TypeOK, RowsOK, CallsOK
<1> QED
  BY <1>2, <1>3 DEF TypeInv

(* Every reachable state of a run is well formed, for any limits: no step  *)
(* beyond the template's last becomes the current one, and no review is    *)
(* closed that is not open.                                                *)
THEOREM TypeCorrect == Spec => []TypeOK
<1>1. Init => TypeInv
  BY TypeInit, CountInit DEF TypeInv
<1>2. TypeInv => TypeOK
  BY DEF TypeInv
<1> QED
  BY <1>1, <1>2, TypeNext, PTL DEF Spec

-----------------------------------------------------------------------------
(* RunInv is inductive. First the step runs: what a step has reached stays *)
(* reached, and only these four actions write them.                        *)

LEMMA CurrentIsLast ==
  ASSUME RunInv, NEW a \in Calls, LastLock(a), Completes(a), MayAdvance(on[a])
  PROVE  run = "active" /\ on[a] \in Steps /\ current = on[a] /\ StepOpen(on[a])
<1>1. run = "active" /\ pc[a] # "idle" /\ on[a] \in Steps
  BY DEF MayAdvance, Completes, RunInv, TypeInv, TypeOK
<1>2. current \in Steps /\ StepsBefore(current) /\ StepOpen(current) /\ step[on[a]] # "none"
  BY <1>1 DEF RunInv, StepsInOrder, BegunInv
<1>3. on[a] <= current
  BY <1>1, <1>2 DEF StepsBefore, Steps
<1>4. ~(on[a] < current)
  <2> SUFFICES ASSUME on[a] < current PROVE FALSE
    OBVIOUS
  <2>1. on[a] + 1 \in Steps /\ on[a] < N /\ on[a] + 1 <= current
    BY <1>1, <1>2, PipelineAssumption DEF Steps
  <2>2. step[on[a] + 1] # "none"
    BY <1>2, <2>1 DEF StepsBefore, StepOpen, Steps
  <2> QED
    BY <2>1, <2>2 DEF MayAdvance
<1> QED
  BY <1>1, <1>2, <1>3, <1>4 DEF Steps

LEMMA PendingIsCurrent ==
  ASSUME RunInv, NEW s \in Steps, step[s] = "pending"
  PROVE  run = "active" /\ s = current
<1>1. run \in RunStates
  BY DEF RunInv, TypeInv, TypeOK
<1>2. run \notin {"none", "complete"}
  BY DEF RunInv, StepsInOrder
<1>3. current \in Steps /\ StepsBefore(current)
  BY <1>1, <1>2 DEF RunInv, StepsInOrder, RunStates
<1>4. s = current
  BY <1>3 DEF StepsBefore, Steps
<1> QED
  BY <1>1, <1>2, <1>4 DEF RunInv, StepsInOrder, RunStates

LEMMA FailsCurrent ==
  ASSUME RunInv, NEW a \in Calls, FailStep(a)
  PROVE  /\ run = "active" /\ on[a] \in Steps /\ current = on[a] /\ StepOpen(on[a]) /\ HasRun(a)
         /\ run' = "failed" /\ current' = current /\ step' = [step EXCEPT ![on[a]] = "failed"]
<1>1. HasRun(a) /\ seen[a] /\ pc[a] = "fail"
  BY NextLock DEF FailStep, RunInv, TypeInv
<1>2. Eligible(on[a]) /\ on[a] \in Steps
  BY <1>1 DEF RunInv, LockInv, TypeInv, TypeOK
<1> QED
  BY <1>1, <1>2 DEF FailStep, Eligible

LEMMA RunWriters ==
  ASSUME [Next]_vars
  PROVE  \/ UNCHANGED runVars \/ StartRun
         \/ \E a \in Calls : MarkRunning(a) \/ Advance(a) \/ FailStep(a)
<1>1. ASSUME NEW a \in Calls,
             \/ Deliver(a) \/ BlockTask(a) \/ RouteToQa(a) \/ Submit(a) \/ SubmitFails(a)
             \/ ReportFailure(a) \/ ReadRules(a) \/ Requeue(a) \/ GiveUp(a)
             \/ Pass(a) \/ Reject(a) \/ Close(a) \/ ReviewDies(a)
             \/ Acquire(a) \/ Throws(a) \/ AlreadyCompleted(a) \/ NotEligible(a) \/ Ask(a)
      PROVE UNCHANGED runVars
  BY <1>1 DEF Deliver, BlockTask, RouteToQa,
     Submit, SubmitFails, Close, ReportFailure, ReadRules, Requeue, GiveUp, Pass,
              Reject, ReviewDies, Acquire, Throws, AlreadyCompleted, NotEligible, Ask
<1>2. ASSUME \/ CancelWrite \/ Crash \/ UNCHANGED vars
             \/ \E s \in Steps : TakeUp(s) \/ CancelCheck(s) \/ Reopen(s)
      PROVE UNCHANGED runVars
  BY <1>2 DEF CancelWrite, Crash, vars, TakeUp, ClaimTask, BeginReview, FlagStuck, FlagDeadEnd,
              CancelCheck, Reopen
<1> QED
  BY <1>1, <1>2 DEF Next, CallStep

LEMMA OrderNext ==
  ASSUME RunInv, [Next]_vars
  PROVE  StepsInOrder'
<1>1. CASE UNCHANGED runVars
  BY <1>1 DEF RunInv, StepsInOrder, StepsBefore, StepOpen, runVars
<1>2. CASE StartRun
  <2>1. 1 \in Steps /\ \A t \in Steps : step[t] = "none" /\ ~(t < 1)
    BY <1>2, PipelineAssumption DEF StartRun, RunInv, StepsInOrder, Steps
  <2>2. step'[1] = "pending" /\ \A t \in Steps \ {1} : step'[t] = "none"
    BY <1>2, <2>1 DEF StartRun, RunInv, TypeInv, TypeOK
  <2> QED
    BY <1>2, <2>1, <2>2 DEF StartRun, StepsInOrder, StepsBefore, StepOpen, Steps
<1>3. ASSUME NEW a \in Calls, MarkRunning(a) PROVE StepsInOrder'
  <2>1. CASE step[on[a]] # "pending"
    <3>1. UNCHANGED runVars
      BY <1>3, <2>1 DEF MarkRunning, runVars
    <3> QED
      BY <1>1, <3>1
  <2>2. CASE step[on[a]] = "pending"
    <3>1. on[a] \in Steps
      BY <1>3 DEF MarkRunning, RunInv, TypeInv, TypeOK
    <3>2. run = "active" /\ current = on[a]
      BY <2>2, <3>1, PendingIsCurrent
    <3>3. run' = run /\ current' = current /\ step' = [step EXCEPT ![current] = "running"]
      BY <1>3, <2>2, <3>2 DEF MarkRunning
    <3>4. step'[current] = "running" /\ \A t \in Steps \ {current} : step'[t] = step[t]
      BY <3>1, <3>2, <3>3 DEF RunInv, TypeInv, TypeOK
    <3> QED
      BY <3>1, <3>2, <3>3, <3>4 DEF RunInv, StepsInOrder, StepsBefore, StepOpen, Steps
  <2> QED
    BY <2>1, <2>2
<1>4. ASSUME NEW a \in Calls, Advance(a) PROVE StepsInOrder'
  <2>1. run = "active" /\ on[a] \in Steps /\ current = on[a]
    BY <1>4, CurrentIsLast DEF Advance
  <2>2. StepsBefore(current)
    BY <2>1 DEF RunInv, StepsInOrder
  <2>3. \A t \in Steps : step'[t] = IF t = current THEN "complete"
                                    ELSE IF t = current + 1 THEN "pending" ELSE step[t]
    BY <1>4, <2>1 DEF Advance
  <2>4. CASE current = N
    <3>1. run' = "complete"
      BY <1>4, <2>1, <2>4 DEF Advance
    <3>2. \A t \in Steps : step'[t] = "complete"
      BY <2>1, <2>2, <2>3, <2>4, PipelineAssumption DEF StepsBefore, Steps
    <3> QED
      BY <3>1, <3>2 DEF StepsInOrder
  <2>5. CASE current # N
    <3>1. run' = "active" /\ current' = current + 1 /\ current + 1 \in Steps
      BY <1>4, <2>1, <2>5, PipelineAssumption DEF Advance, CurrentAfter, Steps
    <3>2. step'[current + 1] = "pending"
      BY <2>1, <2>3, <3>1 DEF Steps
    <3>3. \A t \in Steps : /\ t < current + 1 => step'[t] = "complete"
                           /\ t > current + 1 => step'[t] = "none"
      BY <2>1, <2>2, <2>3, <3>1 DEF StepsBefore, Steps
    <3> QED
      BY <3>1, <3>2, <3>3 DEF StepsInOrder, StepsBefore, StepOpen
  <2> QED
    BY <2>4, <2>5
<1>5. ASSUME NEW a \in Calls, FailStep(a) PROVE StepsInOrder'
  <2>1. run = "active" /\ current \in Steps /\ run' = "failed" /\ current' = current
    BY <1>5, FailsCurrent
  <2>2. step'[current] = "failed" /\ \A t \in Steps \ {current} : step'[t] = step[t]
    BY <1>5, FailsCurrent DEF RunInv, TypeInv, TypeOK
  <2> QED
    BY <2>1, <2>2 DEF RunInv, StepsInOrder, StepsBefore, Steps
<1> QED
  BY <1>1, <1>2, <1>3, <1>4, <1>5, RunWriters

(* What a step has reached. *)
LEMMA StepsKept ==
  ASSUME RunInv, [Next]_vars, NEW s \in Steps
  PROVE  /\ step[s] # "none" => step'[s] # "none"
         /\ Begun(s) => Begun(s)'
         /\ step[s] = "complete" => step'[s] = "complete"
<1> USE DEF Begun
<1>1. CASE UNCHANGED runVars
  BY <1>1 DEF runVars
<1>2. CASE StartRun
  <2>1. step[s] = "none"
    BY <1>2 DEF StartRun, RunInv, StepsInOrder
  <2> QED
    BY <2>1
<1>3. ASSUME NEW a \in Calls, MarkRunning(a)
      PROVE step'[s] = step[s] \/ (step[s] = "pending" /\ step'[s] = "running")
  BY <1>3 DEF MarkRunning, RunInv, TypeInv, TypeOK
<1>4. ASSUME NEW a \in Calls, Advance(a)
      PROVE step'[s] = step[s] \/ step[s] = "none" \/ step'[s] = "complete"
  <2>1. on[a] \in Steps /\ current = on[a] /\ current \in Steps
    BY <1>4, CurrentIsLast DEF Advance
  <2>2. s = on[a] + 1 => step[s] = "none"
    BY <1>4, <2>1, PipelineAssumption DEF Advance, MayAdvance, Steps
  <2>3. step'[s] = IF s = on[a] THEN "complete" ELSE IF s = on[a] + 1 THEN "pending" ELSE step[s]
    BY <1>4 DEF Advance
  <2> QED
    BY <2>2, <2>3
<1>5. ASSUME NEW a \in Calls, FailStep(a)
      PROVE step'[s] = step[s] \/ (StepOpen(s) /\ step'[s] = "failed")
  BY <1>5, FailsCurrent DEF RunInv, TypeInv, TypeOK
<1> QED
  BY <1>1, <1>2, <1>3, <1>4, <1>5, RunWriters DEF StepOpen

(* A completed task has handed on. *)
LEMMA CompletedNext ==
  ASSUME RunInv, [Next]_vars
  PROVE  CompletedHandsOn'
<1> SUFFICES ASSUME NEW s \in Steps, task'[s] = "completed" PROVE step'[s] = "complete"
  BY DEF CompletedHandsOn
<1>1. CASE task[s] = "completed"
  BY <1>1, StepsKept DEF RunInv, CompletedHandsOn
<1>2. ASSUME NEW a \in Calls, Advance(a) PROVE task'[s] = "completed" => step'[s] = "complete" \/ task[s] = "completed"
  <2>1. /\ task'[s] = IF s = on[a] THEN "completed" ELSE IF s = on[a] + 1 THEN "pending" ELSE task[s]
        /\ s = on[a] => step'[s] = "complete"
    BY <1>2 DEF Advance
  <2> QED
    BY <2>1
<1>3. ASSUME \E t, x : x # "completed" /\ SetTask(t, x) PROVE task'[s] = "completed" => task[s] = "completed"
  BY <1>3 DEF SetTask, RunInv, TypeInv, TypeOK
<1>4. ASSUME NEW a \in Calls, CallStep(a) \/ Ask(a), ~Advance(a)
      PROVE  task' = task \/ \E t, x : x # "completed" /\ SetTask(t, x)
  BY <1>4 DEF CallStep, MarkRunning, Deliver, BlockTask, RouteToQa,
     Submit, SubmitFails, Close, ReportFailure, ReadRules,
              Requeue, GiveUp, Pass, Reject, ReviewDies, Acquire, Throws, AlreadyCompleted,
              FailStep, NotEligible, Ask, taskVars
<1>5. ASSUME StartRun \/ CancelWrite \/ UNCHANGED vars
             \/ \E t \in Steps : TakeUp(t) \/ CancelCheck(t) \/ Reopen(t)
      PROVE  task' = task \/ \E t, x : x # "completed" /\ SetTask(t, x)
  BY <1>5 DEF StartRun, CancelWrite, vars, taskVars, TakeUp, ClaimTask, BeginReview, FlagStuck,
              FlagDeadEnd, CancelCheck, Reopen
<1>6. ASSUME Crash PROVE task'[s] = "completed" => task[s] = "completed"
  BY <1>6 DEF Crash
<1> QED
  BY <1>1, <1>2, <1>3, <1>4, <1>5, <1>6 DEF Next

(* The run's lock. *)
LEMMA RunLockKept ==
  ASSUME TypeOK, TypeOK', [Next]_vars, ~\E a \in Calls : Acquire(a), NEW b \in Calls
  PROVE  HasRun(b)' => HasRun(b) /\ on'[b] = on[b] /\ seen'[b] = seen[b]
<1> USE DEF HasRun, Transactions
<1>1. CASE UNCHANGED actorVars
  BY <1>1 DEF actorVars
<1>0. CallsOK
  BY TypeParts
<1>2. ASSUME NEW a \in Calls, \E x : Goes(a, x)
      PROVE HasRun(b)' => HasRun(b) /\ on'[b] = on[b] /\ seen'[b] = seen[b]
  <2>1. /\ got'[a] = 0 /\ on' = on
        /\ \A c \in Calls \ {a} : got'[c] = got[c] /\ pc'[c] = pc[c] /\ seen'[c] = seen[c]
    BY <1>0, <1>2 DEF Goes, CallsOK
  <2> QED
    BY <2>1
<1>3. ASSUME NEW a \in Calls, Ends(a)
      PROVE HasRun(b)' => HasRun(b) /\ on'[b] = on[b] /\ seen'[b] = seen[b]
  BY <1>0, <1>3 DEF Ends, CallsOK
<1>4. ASSUME NEW a \in Calls, \E x, s : Begins(a, x, s)
      PROVE HasRun(b)' => HasRun(b) /\ on'[b] = on[b] /\ seen'[b] = seen[b]
  <2>1. /\ got'[a] = 0
        /\ \A c \in Calls \ {a} : /\ got'[c] = got[c] /\ pc'[c] = pc[c]
                                  /\ seen'[c] = seen[c] /\ on'[c] = on[c]
    BY <1>0, <1>4 DEF Begins, CallsOK
  <2> QED
    BY <2>1
<1>5. ASSUME NEW a \in Calls, NEW s, ClaimTask(a, s)
      PROVE HasRun(b)' => HasRun(b) /\ on'[b] = on[b] /\ seen'[b] = seen[b]
  BY <1>5 DEF ClaimTask, TypeOK
<1>6. ASSUME Crash PROVE ~HasRun(b)'
  BY <1>6 DEF Crash
<1>7. ASSUME NEW a \in Calls, CallStep(a), ~Acquire(a) PROVE Ends(a) \/ \E x : Goes(a, x)
  BY <1>7 DEF CallStep, MarkRunning, Deliver, BlockTask, RouteToQa,
     Submit, SubmitFails, Close, ReportFailure, ReadRules,
              Requeue, GiveUp, Pass, Reject, ReviewDies, Advance, Throws, AlreadyCompleted,
              FailStep, NotEligible
<1>8. ASSUME NEW s \in Steps, TakeUp(s)
      PROVE \E a \in Calls : ClaimTask(a, s) \/ \E x : Begins(a, x, s)
  BY <1>8 DEF TakeUp, BeginReview, FlagStuck, FlagDeadEnd
<1>9. ASSUME \/ StartRun \/ CancelWrite \/ \E a \in Calls : Ask(a)
             \/ \E s \in Steps : CancelCheck(s) \/ Reopen(s)
             \/ UNCHANGED vars
      PROVE UNCHANGED actorVars
  BY <1>9 DEF StartRun, CancelWrite, Ask, CancelCheck, Reopen, vars
<1> QED
  BY <1>1, <1>2, <1>3, <1>4, <1>5, <1>6, <1>7, <1>8, <1>9 DEF Next

LEMMA LockNext ==
  ASSUME RunInv, [Next]_vars
  PROVE  LockInv'
<1>0. TypeOK /\ TypeOK'
  BY TypeNext DEF RunInv, TypeInv
<1>1. ASSUME NEW a \in Calls, Acquire(a) PROVE LockInv'
  <2>1. /\ pc' = pc /\ on' = on /\ UNCHANGED runVars /\ pc[a] \in Transactions
        /\ \A b \in Calls \ {a} : got'[b] = got[b] /\ seen'[b] = seen[b]
        /\ got'[a] = got[a] + 1 /\ seen'[a] = Eligible(on[a])
    BY <1>0, <1>1 DEF Acquire, TypeOK
  <2>2. got[a] = 1 => \A b \in Calls \ {a} : ~HasRun(b)
    <3> SUFFICES ASSUME got[a] = 1, NEW b \in Calls \ {a}, HasRun(b) PROVE FALSE
      OBVIOUS
    <3>1. Holds(b, "run") /\ Next1(a) = "run"
      BY <1>0, <2>1, LocksHeld, NextLock
    <3> QED
      BY <1>1, <3>1 DEF Acquire, Free, HeldBy
  <2>3. got'[a] = 2 => got[a] = 1
    BY <1>0, <2>1 DEF TypeOK
  <2>4. \A b \in Calls : Eligible(on[b])' <=> Eligible(on[b])
    BY <2>1 DEF Eligible, StepOpen, runVars
  <2> QED
    BY <2>1, <2>2, <2>3, <2>4 DEF LockInv, HasRun, RunInv
<1>2. ASSUME ~\E a \in Calls : Acquire(a) PROVE LockInv'
  <2>1. \A b \in Calls : HasRun(b)' => HasRun(b) /\ on'[b] = on[b] /\ seen'[b] = seen[b]
    BY <1>0, <1>2, RunLockKept
  <2>2. ASSUME NEW b \in Calls, HasRun(b)', seen[b] PROVE Eligible(on[b])'
    <3>1. HasRun(b) /\ Eligible(on[b]) /\ on'[b] = on[b] /\ on[b] \in Steps
      BY <2>1, <2>2 DEF RunInv, LockInv, TypeOK, TypeInv, HasRun, Transactions
    <3>2. CASE UNCHANGED runVars
      BY <3>1, <3>2 DEF runVars, Eligible, StepOpen
    <3>3. CASE StartRun
      BY <3>1, <3>3 DEF StartRun, Eligible
    <3>4. ASSUME NEW a \in Calls, MarkRunning(a) PROVE Eligible(on[b])'
      <4>1. run' = run /\ current' = current /\ step'[on[b]] \in {step[on[b]], "running"}
        BY <1>0, <3>1, <3>4 DEF MarkRunning, TypeOK
      <4> QED
        BY <3>1, <4>1 DEF Eligible, StepOpen
    <3>5. ASSUME NEW a \in Calls, Advance(a) \/ FailStep(a) PROVE FALSE
      <4>1. HasRun(a)
        BY <1>0, <3>5, NextLock DEF Advance, FailStep, Completes, Transactions
      <4>2. a = b
        BY <3>1, <4>1 DEF RunInv, LockInv
      <4>3. pc'[a] \in {"idle", "close"}
        BY <1>0, <3>5 DEF Advance, FailStep, Goes, Ends, TypeOK
      <4> QED
        BY <2>2, <4>2, <4>3 DEF HasRun, Transactions
    <3> QED
      BY <3>2, <3>3, <3>4, <3>5, RunWriters
  <2>3. \A b \in Calls : HasRun(b)' /\ seen'[b] => Eligible(on[b])'
    BY <2>1, <2>2
  <2>4. \A a, b \in Calls : HasRun(a)' /\ HasRun(b)' => a = b
    BY <2>1 DEF RunInv, LockInv
  <2> QED
    BY <2>3, <2>4 DEF LockInv
<1> QED
  BY <1>1, <1>2

(* A call at work is at work on a step that has begun. *)
LEMMA BegunCall ==
  ASSUME RunInv, NEW a \in Calls, CallStep(a)
  PROVE  /\ on[a] \in Steps /\ pc[a] # "idle" /\ step[on[a]] # "none"
         /\ MarkRunning(a) \/ (pc[a] \notin {"idle", "claim"} /\ Begun(on[a]))
<1>1. MarkRunning(a) => pc[a] = "claim"
  BY DEF MarkRunning
<1>2. CASE ~MarkRunning(a)
  <2>1. pc[a] \notin {"idle", "claim"}
    BY <1>2 DEF CallStep, Deliver, BlockTask, RouteToQa,
       Submit, SubmitFails, Close, ReportFailure, ReadRules, Requeue,
                GiveUp, Pass, Reject, ReviewDies, Acquire, Advance, Completes, Throws,
                AlreadyCompleted, FailStep, NotEligible, Transactions
  <2> QED
    BY <2>1 DEF RunInv, BegunInv, TypeInv, TypeOK
<1> QED
  BY <1>1, <1>2 DEF RunInv, BegunInv, TypeInv, TypeOK

RowBegun(s) == /\ task[s] # "none" => step[s] # "none"
               /\ task[s] \notin {"none", "pending", "cancelled"} => Begun(s)
               /\ reviews[s] # 0 => Begun(s)

LEMMA RowsBegun ==
  ASSUME RunInv, [Next]_vars, NEW s \in Steps
  PROVE  RowBegun(s)'
<1>0. /\ RowBegun(s) /\ TypeOK
      /\ step[s] # "none" => step'[s] # "none"
      /\ Begun(s) => Begun(s)'
  BY StepsKept DEF RunInv, BegunInv, RowBegun, TypeInv
<1> USE DEF RowBegun
<1>1. CASE task'[s] = task[s] /\ reviews'[s] = reviews[s]
  BY <1>0, <1>1
<1>2. CASE Begun(s)'
  BY <1>2 DEF Begun
<1>3. CASE task'[s] \in {"pending", "cancelled"} /\ step'[s] # "none" /\ reviews'[s] = reviews[s]
  BY <1>0, <1>3
<1>4. ASSUME NEW a \in Calls, CallStep(a), ~MarkRunning(a), ~Advance(a)
      PROVE  Begun(s)' \/ (task'[s] = task[s] /\ reviews'[s] = reviews[s])
  <2>1. CASE on[a] = s
    BY <1>0, <1>4, <2>1, BegunCall
  <2>2. CASE on[a] # s
    BY <1>0, <1>4, <2>2 DEF CallStep, Deliver, BlockTask, RouteToQa,
       Submit, SubmitFails, Close, ReportFailure, ReadRules,
       Requeue, GiveUp, Pass, Reject, ReviewDies, Acquire, Throws, AlreadyCompleted, FailStep,
       NotEligible, SetTask, taskVars, TypeOK
  <2> QED
    BY <2>1, <2>2
<1>5. ASSUME NEW a \in Calls, MarkRunning(a)
      PROVE  Begun(s)' \/ (task'[s] = task[s] /\ reviews'[s] = reviews[s])
  <2>1. CASE on[a] = s
    <3>1. step[s] # "none" /\ step'[s] = IF step[s] = "pending" THEN "running" ELSE step[s]
      BY <1>0, <1>5, <2>1, BegunCall DEF MarkRunning, TypeOK, CallStep
    <3> QED
      BY <3>1 DEF Begun
  <2>2. CASE on[a] # s
    BY <1>0, <1>5, <2>2 DEF MarkRunning, SetTask, TypeOK
  <2> QED
    BY <2>1, <2>2
<1>6. ASSUME NEW a \in Calls, Advance(a) PROVE RowBegun(s)'
  <2>1. /\ step'[s] = IF s = on[a] THEN "complete" ELSE IF s = on[a] + 1 THEN "pending" ELSE step[s]
        /\ task'[s] = IF s = on[a] THEN "completed" ELSE IF s = on[a] + 1 THEN "pending" ELSE task[s]
        /\ s # on[a] => reviews'[s] = reviews[s]
    BY <1>0, <1>6 DEF Advance, TypeOK
  <2>2. CASE s = on[a]
    BY <1>2, <2>1, <2>2 DEF Begun
  <2>3. CASE s # on[a]
    BY <1>1, <1>3, <2>1, <2>3
  <2> QED
    BY <2>2, <2>3
<1>7. CASE StartRun
  <2>1. /\ reviews' = reviews
        /\ s = 1 => task'[s] = "pending" /\ step'[s] = "pending"
        /\ s # 1 => task'[s] = task[s]
    BY <1>0, <1>7 DEF StartRun, SetTask, TypeOK
  <2> QED
    BY <1>1, <1>3, <2>1
<1>8. CASE Crash
  <2>1. reviews' = reviews /\ task'[s] = IF task[s] = "active" THEN "pending" ELSE task[s]
    BY <1>8 DEF Crash
  <2> QED
    BY <1>0, <1>1, <1>3, <2>1
<1>9. CASE CancelWrite
  <2>1. /\ reviews' = reviews
        /\ s # cancel => task'[s] = task[s]
    BY <1>0, <1>9 DEF CancelWrite, SetTask, TypeOK
  <2>2. s = cancel => task'[s] = "cancelled" /\ step[s] # "none"
    BY <1>0, <1>9 DEF CancelWrite, SetTask, TypeOK, RunInv, BegunInv
  <2> QED
    BY <1>0, <1>1, <1>3, <2>1, <2>2
<1>10. ASSUME NEW a \in Calls, Ask(a) PROVE Begun(s)' \/ (task'[s] = task[s] /\ reviews'[s] = reviews[s])
  <2>1. on[a] = s => Begun(s)
    BY <1>10 DEF Ask, RunInv, BegunInv
  <2>2. /\ reviews' = reviews
        /\ on[a] # s => task'[s] = task[s]
    BY <1>0, <1>10 DEF Ask, SetTask, TypeOK
  <2> QED
    BY <1>0, <1>10, <2>1, <2>2 DEF Ask
<1>11. ASSUME NEW t \in Steps, Reopen(t) PROVE RowBegun(s)'
  <2>1. /\ reviews' = reviews
        /\ s # t => task'[s] = task[s]
    BY <1>0, <1>11 DEF Reopen, SetTask, TypeOK
  <2>2. s = t => task'[s] = "pending" /\ step[s] # "none"
    BY <1>0, <1>11 DEF Reopen, SetTask, TypeOK
  <2> QED
    BY <1>0, <1>1, <1>3, <2>1, <2>2 DEF Reopen
<1>12. ASSUME UNCHANGED vars \/ \E t \in Steps : TakeUp(t) \/ CancelCheck(t)
       PROVE  task' = task /\ reviews' = reviews
  BY <1>12 DEF vars, taskVars, TakeUp, ClaimTask, BeginReview, FlagStuck, FlagDeadEnd, CancelCheck
<1> QED
  BY <1>1, <1>2, <1>4, <1>5, <1>6, <1>7, <1>8, <1>9, <1>10, <1>11, <1>12 DEF Next

LEMMA CallsBegun ==
  ASSUME RunInv, [Next]_vars, NEW b \in Calls
  PROVE  /\ pc'[b] # "idle" => step'[on'[b]] # "none"
         /\ pc'[b] \notin {"idle", "claim"} => step'[on'[b]] \notin {"none", "pending"}
<1>0. /\ TypeOK /\ TypeInv
      /\ pc[b] # "idle" => on[b] \in Steps /\ step[on[b]] # "none"
      /\ pc[b] \notin {"idle", "claim"} => Begun(on[b])
  BY DEF RunInv, BegunInv, TypeInv, TypeOK
<1> USE DEF Begun
<1>1. CASE pc'[b] = pc[b] /\ on'[b] = on[b]
  BY <1>0, <1>1, StepsKept
<1>2. CASE CallStep(b)
  <2>1. pc'[b] = "idle" \/ on'[b] = on[b]
    BY <1>0, <1>2 DEF CallStep, MarkRunning, Deliver, BlockTask, RouteToQa,
       Submit, SubmitFails, Close, ReportFailure,
       ReadRules, Requeue, GiveUp, Pass, Reject, ReviewDies, Acquire, Advance, Throws,
       AlreadyCompleted, FailStep, NotEligible, Goes, Ends, TypeOK
  <2>2. on[b] \in Steps /\ step[on[b]] # "none"
    BY <1>2, BegunCall
  <2>3. CASE MarkRunning(b)
    <3>1. step'[on[b]] = IF step[on[b]] = "pending" THEN "running" ELSE step[on[b]]
      BY <1>0, <2>2, <2>3 DEF MarkRunning, TypeOK
    <3> QED
      BY <2>1, <2>2, <3>1
  <2>4. CASE ~MarkRunning(b)
    BY <1>2, <2>1, <2>2, <2>4, BegunCall, StepsKept
  <2> QED
    BY <2>3, <2>4
<1>3. ASSUME NEW a \in Calls \ {b},
             CallStep(a) \/ \E s \in Steps : ClaimTask(a, s) \/ BeginReview(a, s)
                                             \/ FlagStuck(a, s) \/ FlagDeadEnd(a, s)
      PROVE  pc'[b] = pc[b] /\ on'[b] = on[b]
  BY <1>0, <1>3, CallAlone
<1>4. ASSUME NEW s \in Steps, ClaimTask(b, s)
      PROVE  pc'[b] = "claim" /\ on'[b] = s /\ s \in Steps /\ step[s] # "none"
  BY <1>0, <1>4 DEF ClaimTask, TypeOK, RunInv, BegunInv
<1>5. ASSUME NEW s \in Steps, BeginReview(b, s) \/ FlagStuck(b, s) \/ FlagDeadEnd(b, s)
      PROVE  on'[b] = s /\ Begun(s)
  <2>1. task[s] \in {"active", "blocked", "in_review"} \/ reviews[s] # 0
    <3>1. Cardinality(Reviewers(s)) \in Nat /\ reviews[s] \in Nat
      BY <1>0, ReviewersFinite DEF TypeOK
    <3> QED
      BY <1>5, <3>1 DEF BeginReview, FlagStuck, FlagDeadEnd
  <2>2. on'[b] = s
    BY <1>0, <1>5 DEF BeginReview, FlagStuck, FlagDeadEnd, Begins, TypeOK
  <2> QED
    BY <2>1, <2>2 DEF RunInv, BegunInv
<1>6. CASE Crash
  BY <1>6 DEF Crash
<1>7. ASSUME \/ StartRun \/ CancelWrite \/ \E a \in Calls : Ask(a)
             \/ \E s \in Steps : CancelCheck(s) \/ Reopen(s)
             \/ UNCHANGED vars
      PROVE pc' = pc /\ on' = on
  BY <1>7 DEF StartRun, CancelWrite, Ask, CancelCheck, Reopen, vars, actorVars
<1>8. ASSUME NEW s \in Steps, TakeUp(s)
      PROVE /\ pc'[b] # "idle" => step'[on'[b]] # "none"
            /\ pc'[b] \notin {"idle", "claim"} => step'[on'[b]] \notin {"none", "pending"}
  <2> PICK a \in Calls : ClaimTask(a, s) \/ BeginReview(a, s) \/ FlagStuck(a, s) \/ FlagDeadEnd(a, s)
    BY <1>8 DEF TakeUp
  <2>1. CASE a # b
    BY <1>1, <1>3, <2>1
  <2>2. CASE a = b
    BY <1>4, <1>5, <2>2, StepsKept
  <2> QED
    BY <2>1, <2>2
<1> QED
  BY <1>1, <1>2, <1>3, <1>6, <1>7, <1>8 DEF Next

LEMMA BegunNext ==
  ASSUME RunInv, [Next]_vars
  PROVE  BegunInv'
<1>1. TypeOK
  BY DEF RunInv, TypeInv
<1>2. cancel' # 0 => step'[cancel'] # "none"
  <2>1. CASE cancel' = cancel
    <3>1. cancel # 0 => cancel \in Steps /\ step[cancel] # "none"
      BY <1>1 DEF RunInv, BegunInv, TypeOK, Steps
    <3> QED
      BY <2>1, <3>1, StepsKept
  <2>2. ASSUME NEW s \in Steps, CancelCheck(s) PROVE cancel' = s /\ step[s] # "none"
    BY <2>2 DEF CancelCheck, RunInv, BegunInv
  <2>3. ASSUME CancelWrite PROVE cancel' = 0
    BY <2>3 DEF CancelWrite
  <2>4. ASSUME NEW a \in Calls, CallStep(a) \/ Ask(a) PROVE cancel' = cancel
    BY <2>4 DEF CallStep, MarkRunning, Deliver, BlockTask, RouteToQa,
       Submit, SubmitFails, Close, ReportFailure, ReadRules,
       Requeue, GiveUp, Pass, Reject, ReviewDies, Acquire, Advance, Throws, AlreadyCompleted,
       FailStep, NotEligible, Ask, restVars
  <2>5. ASSUME StartRun \/ Crash \/ UNCHANGED vars \/ \E s \in Steps : TakeUp(s) \/ Reopen(s)
        PROVE  cancel' = cancel
    BY <2>5 DEF StartRun, Crash, vars, restVars, TakeUp, ClaimTask, BeginReview, FlagStuck,
                FlagDeadEnd, Reopen
  <2> QED
    BY <2>1, <2>2, <2>3, <2>4, <2>5, StepsKept DEF Next
<1> QED
  BY <1>2, RowsBegun, CallsBegun DEF BegunInv, RowBegun, Begun

LEMMA InvNext == RunInv /\ [Next]_vars => RunInv'
<1> SUFFICES ASSUME RunInv, [Next]_vars PROVE RunInv'
  OBVIOUS
<1>1. TypeInv'
  BY TypeNext DEF RunInv
<1> QED
  BY <1>1, OrderNext, CompletedNext, BegunNext, LockNext DEF RunInv

LEMMA InvInit == Init => RunInv
<1> SUFFICES ASSUME Init PROVE RunInv
  OBVIOUS
<1>1. TypeInv
  BY TypeInit, CountInit DEF TypeInv
<1>2. StepsInOrder /\ CompletedHandsOn
  BY DEF Init, StepsInOrder, CompletedHandsOn
<1>3. BegunInv /\ LockInv
  BY DEF Init, BegunInv, LockInv, HasRun, Transactions
<1> QED
  BY <1>1, <1>2, <1>3 DEF RunInv

LEMMA InvHolds == Spec => []RunInv
  BY InvInit, InvNext, PTL DEF Spec

-----------------------------------------------------------------------------
(* The rows of a run agree at all times, whatever completions, failures,   *)
(* reviews, cancellations and crashes overlap: the steps before the        *)
(* current one are complete, the ones after it do not exist.               *)
THEOREM StepsInOrderHolds == Spec => []StepsInOrder
<1>1. RunInv => StepsInOrder
  BY DEF RunInv
<1> QED
  BY <1>1, InvHolds, PTL

(* A completed task has handed on: its step is complete in the same commit. *)
THEOREM CompletedHandsOnHolds == Spec => []CompletedHandsOn
<1>1. RunInv => CompletedHandsOn
  BY DEF RunInv
<1> QED
  BY <1>1, InvHolds, PTL

(* A run that has ended keeps its outcome and all of its step runs. *)
THEOREM OutcomeStaysHolds == Spec => OutcomeStays
<1>1. ASSUME RunInv, [Next]_vars, run \in {"complete", "failed"} PROVE UNCHANGED runVars
  <2>1. ~StartRun
    BY <1>1 DEF StartRun
  <2>2. ASSUME NEW a \in Calls, MarkRunning(a) PROVE UNCHANGED runVars
    <3>1. on[a] \in Steps
      BY <1>1, <2>2 DEF MarkRunning, RunInv, TypeInv, TypeOK
    <3>2. step[on[a]] # "pending"
      BY <1>1, <3>1, PendingIsCurrent
    <3> QED
      BY <2>2, <3>2 DEF MarkRunning, runVars
  <2>3. ASSUME NEW a \in Calls PROVE ~Advance(a) /\ ~FailStep(a)
    BY <1>1, <2>3, CurrentIsLast, FailsCurrent DEF Advance
  <2> QED
    BY <1>1, <2>1, <2>2, <2>3, RunWriters
<1>2. RunInv /\ [Next]_vars => [(run \in {"complete", "failed"}) => UNCHANGED runVars]_vars
  BY <1>1
<1> QED
  BY <1>2, InvHolds, PTL DEF Spec, OutcomeStays

(* No set of calls waits for each other's row locks, whatever they do:     *)
(* claims wait for nobody, and the transactions take the rows in one order. *)
THEOREM NoLockCycleHolds == Spec => []NoLockCycle
<1>1. ASSUME RunInv PROVE NoLockCycle
  <2>0. TypeOK
    BY <1>1 DEF RunInv, TypeInv
  <2> SUFFICES ASSUME NEW S \in (SUBSET Calls) \ {{}}
               PROVE  \E a \in S : \A b \in S : ~WaitsFor(a, b)
    BY DEF NoLockCycle
  <2>1. ASSUME NEW a \in Calls, NEW b \in Calls, pc[a] = "claim" PROVE ~WaitsFor(a, b)
    <3> SUFFICES ASSUME WaitsFor(a, b) PROVE FALSE
      OBVIOUS
    <3>1. step[on[a]] = "pending" /\ HeldBy(b, "step", a)
      BY <2>0, <2>1, NextLock DEF WaitsFor, Needed
    <3>2. pc[b] \in Transactions /\ on[b] = on[a]
      BY <2>0, <3>1, LocksHeld DEF HeldBy
    <3> QED
      BY <1>1, <3>1, <3>2 DEF RunInv, BegunInv, Begun, Transactions
  <2>2. ASSUME NEW a \in Calls, NEW b \in Calls, pc[b] # "claim", WaitsFor(a, b)
        PROVE  /\ pc[a] \in Transactions /\ pc[b] \in Transactions
               /\ (got[a] = 0 /\ got[b] # 0) \/ (got[a] = 1 /\ got[b] = 2)
    <3>1. /\ pc[a] \in Transactions
          /\ HeldBy(b, IF got[a] = 0 THEN "step" ELSE IF got[a] = 1 THEN "run" ELSE "task", a)
      BY <2>0, <2>1, <2>2, NextLock DEF WaitsFor
    <3>2. got[a] \in 0..2
      BY <2>0 DEF TypeOK
    <3> QED
      BY <2>0, <2>2, <3>1, <3>2, LocksHeld DEF HeldBy, HasRun
  <2>3. CASE \E a \in S : pc[a] = "claim"
    BY <2>1, <2>3
  <2>4. CASE \A a \in S : pc[a] # "claim"
    <3>1. CASE \E a \in S : got[a] = 2
      BY <2>2, <2>4, <3>1
    <3>2. CASE ~(\E a \in S : got[a] = 2) /\ \E a \in S : got[a] = 1
      BY <2>2, <2>4, <3>2
    <3>3. CASE \A a \in S : got[a] = 0
      <4>1. PICK a \in S : TRUE
        OBVIOUS
      <4>2. \A b \in S : ~WaitsFor(a, b)
        BY <2>2, <2>4, <3>3
      <4> QED
        BY <4>2
    <3> QED
      BY <2>0, <3>1, <3>2, <3>3 DEF TypeOK
  <2> QED
    BY <2>3, <2>4
<1> QED
  BY <1>1, InvHolds, PTL

-----------------------------------------------------------------------------
(* The run implements the line of steps. A step that exists has its task.  *)

Offered == \A s \in Steps : step[s] # "none" <=> task[s] # "none"

(* Who writes the tasks: Advance, or something that touches one that is    *)
(* there and does not complete it.                                         *)
LEMMA TaskWriters ==
  ASSUME RunInv, Offered, [Next]_vars, ~StartRun, ~\E a \in Calls : Advance(a), NEW s \in Steps
  PROVE  /\ task'[s] # "none" <=> task[s] # "none"
         /\ task'[s] = "completed" => task[s] = "completed"
<1>1. ASSUME NEW t \in Steps, task[t] # "none", NEW x, x \notin {"none", "completed"}, SetTask(t, x)
      PROVE  /\ task'[s] # "none" <=> task[s] # "none"
             /\ task'[s] = "completed" => task[s] = "completed"
  BY <1>1 DEF SetTask, RunInv, TypeInv, TypeOK
<1>2. ASSUME NEW a \in Calls, CallStep(a) \/ Ask(a)
      PROVE  task' = task \/ \E x : x \notin {"none", "completed"} /\ SetTask(on[a], x) /\ pc[a] # "idle"
  <2>1. ~Advance(a)
    OBVIOUS
  <2>2. LastLock(a) => pc[a] # "idle"
    BY NextLock DEF RunInv, TypeInv, HasRun, Transactions
  <2> QED
    BY <1>2, <2>1, <2>2 DEF CallStep, MarkRunning, Deliver, BlockTask, RouteToQa,
       Submit, SubmitFails, Close, ReportFailure,
       ReadRules, Requeue, GiveUp, Pass, Reject, ReviewDies, Acquire, Throws, AlreadyCompleted,
       FailStep, NotEligible, Ask, taskVars
<1>3. ASSUME NEW a \in Calls, pc[a] # "idle" PROVE on[a] \in Steps /\ task[on[a]] # "none"
  <2>1. on[a] \in Steps /\ step[on[a]] # "none"
    BY <1>3 DEF RunInv, TypeInv, TypeOK, BegunInv
  <2> QED
    BY <2>1 DEF Offered
<1>4. CASE \E a \in Calls : CallStep(a) \/ Ask(a)
  BY <1>1, <1>2, <1>3, <1>4
<1>5. CASE CancelWrite
  <2>1. cancel \in Steps /\ task[cancel] # "none"
    BY <1>5, PipelineAssumption DEF CancelWrite, RunInv, TypeInv, TypeOK, BegunInv, Offered, Steps
  <2> QED
    BY <1>1, <1>5, <2>1 DEF CancelWrite
<1>6. ASSUME NEW t \in Steps, Reopen(t)
      PROVE  /\ task'[s] # "none" <=> task[s] # "none"
             /\ task'[s] = "completed" => task[s] = "completed"
  BY <1>1, <1>6 DEF Reopen
<1>7. CASE Crash
  BY <1>7 DEF Crash
<1>8. ASSUME UNCHANGED vars \/ \E t \in Steps : TakeUp(t) \/ CancelCheck(t) PROVE UNCHANGED task
  BY <1>8 DEF vars, taskVars, TakeUp, ClaimTask, BeginReview, FlagStuck, FlagDeadEnd, CancelCheck
<1> QED
  BY <1>4, <1>5, <1>6, <1>7, <1>8 DEF Next

(* The step runs come into being with their tasks. *)
LEMMA StepWriters ==
  ASSUME RunInv, [Next]_vars, ~StartRun, ~\E a \in Calls : Advance(a), NEW s \in Steps
  PROVE  /\ step'[s] # "none" <=> step[s] # "none"
         /\ step'[s] = "complete" <=> step[s] = "complete"
<1>1. CASE UNCHANGED runVars
  BY <1>1 DEF runVars
<1>2. ASSUME NEW a \in Calls, MarkRunning(a)
      PROVE step'[s] = step[s] \/ (step[s] = "pending" /\ step'[s] = "running")
  BY <1>2 DEF MarkRunning, RunInv, TypeInv, TypeOK
<1>3. ASSUME NEW a \in Calls, FailStep(a)
      PROVE step'[s] = step[s] \/ (StepOpen(s) /\ step'[s] = "failed")
  BY <1>3, FailsCurrent DEF RunInv, TypeInv, TypeOK
<1> QED
  BY <1>1, <1>2, <1>3, RunWriters DEF StepOpen

(* The commit that completes a task. *)
LEMMA AdvanceRows ==
  ASSUME RunInv, NEW a \in Calls, Advance(a)
  PROVE  /\ run = "active" /\ current \in Steps /\ current = on[a]
         /\ \A t \in Steps : step'[t] = IF t = current THEN "complete"
                                         ELSE IF t = current + 1 THEN "pending" ELSE step[t]
         /\ \A t \in Steps : task'[t] = IF t = current THEN "completed"
                                         ELSE IF t = current + 1 THEN "pending" ELSE task[t]
         /\ \A t \in Steps : t = current + 1 => step[t] = "none"
         /\ current = N => run' = "complete" /\ current' = 0
         /\ current # N => run' = "active" /\ current' = current + 1 /\ current + 1 \in Steps
         /\ step[current] # "none"
<1>1. run = "active" /\ on[a] \in Steps /\ current = on[a] /\ StepOpen(current)
  BY CurrentIsLast DEF Advance
<1>2. StepsBefore(current)
  BY <1>1 DEF RunInv, StepsInOrder
<1>3. \A t \in Steps : t = current + 1 => step[t] = "none"
  BY <1>1, <1>2 DEF StepsBefore, Steps
<1>4. current # N => current + 1 \in Steps
  BY <1>1, PipelineAssumption DEF Steps
<1> QED
  BY <1>1, <1>3, <1>4 DEF Advance, CurrentAfter, StepOpen

LEMMA OfferedNext == RunInv /\ Offered /\ [Next]_vars => Offered'
<1> SUFFICES ASSUME RunInv, Offered, [Next]_vars, NEW s \in Steps
             PROVE  step'[s] # "none" <=> task'[s] # "none"
  BY DEF Offered
<1>1. CASE StartRun
  BY <1>1 DEF StartRun, SetTask, Offered, RunInv, TypeInv, TypeOK
<1>2. ASSUME NEW a \in Calls, Advance(a) PROVE step'[s] # "none" <=> task'[s] # "none"
  BY <1>2, AdvanceRows DEF Offered
<1>3. CASE ~StartRun /\ ~\E a \in Calls : Advance(a)
  BY <1>3, StepWriters, TaskWriters DEF Offered
<1> QED
  BY <1>1, <1>2, <1>3

LEMMA LineInit == Init => Offered /\ Line!Init
  BY DEF Init, Offered, Line!Init

LEMMA LineHandOn ==
  ASSUME RunInv, Offered, NEW a \in Calls, Advance(a)
  PROVE  Line!HandOn
<1>1. {s \in Steps : step'[s] = "complete"} = {s \in Steps : step[s] = "complete"} \cup {current}
  BY AdvanceRows
<1>2. {s \in Steps : task'[s] = "completed"} = {s \in Steps : task[s] = "completed"} \cup {current}
  <2>1. \A t \in Steps : t = current + 1 => task[t] = "none"
    BY AdvanceRows DEF Offered
  <2> QED
    BY <2>1, AdvanceRows
<1>3. CASE current = N
  <2>1. \A t \in Steps : t # current + 1
    BY <1>3, AdvanceRows, PipelineAssumption DEF Steps
  <2>2. {s \in Steps : task'[s] # "none"} = {s \in Steps : task[s] # "none"}
    BY <2>1, AdvanceRows DEF Offered
  <2> QED
    BY <1>1, <1>2, <1>3, <2>2, AdvanceRows DEF Line!HandOn
<1>4. CASE current # N
  <2>1. current + 1 \in Steps /\ step[current + 1] = "none" /\ current # current + 1
    BY <1>4, AdvanceRows DEF Steps
  <2>2. current + 1 \notin {s \in Steps : task[s] # "none"}
    BY <2>1 DEF Offered
  <2>3. {s \in Steps : task'[s] # "none"} = {s \in Steps : task[s] # "none"} \cup {current + 1}
    BY <2>1, AdvanceRows DEF Offered
  <2> QED
    BY <1>1, <1>2, <1>4, <2>2, <2>3, AdvanceRows DEF Line!HandOn
<1> QED
  BY <1>3, <1>4

LEMMA LineStep == RunInv /\ Offered /\ [Next]_vars => [Line!Next]_(Line!vars)
<1> SUFFICES ASSUME RunInv, Offered, [Next]_vars PROVE Line!Next
  OBVIOUS
<1>1. ASSUME NEW a \in Calls, Advance(a) PROVE Line!Next
  BY <1>1, LineHandOn DEF Line!Next
<1>2. CASE StartRun
  <2>1. \A s \in Steps : step[s] = "none" /\ task[s] = "none"
    BY <1>2 DEF StartRun, RunInv, StepsInOrder, Offered
  <2>2. 1 \in Steps
    BY PipelineAssumption DEF Steps
  <2>3. \A s \in Steps : /\ task'[s] = IF s = 1 THEN "pending" ELSE "none"
                         /\ step'[s] = IF s = 1 THEN "pending" ELSE "none"
    BY <1>2, <2>1 DEF StartRun, SetTask, RunInv, TypeInv, TypeOK
  <2>4. {s \in Steps : task'[s] # "none"} = {1}
    BY <2>2, <2>3
  <2>5. /\ {s \in Steps : step'[s] = "complete"} = {s \in Steps : step[s] = "complete"}
        /\ {s \in Steps : task'[s] = "completed"} \subseteq {s \in Steps : task[s] = "completed"}
    BY <2>1, <2>3
  <2> QED
    BY <1>2, <2>4, <2>5 DEF StartRun, Line!Next, Line!Start
<1>3. CASE ~StartRun /\ ~\E a \in Calls : Advance(a)
  <2>1. /\ {s \in Steps : task'[s] # "none"} = {s \in Steps : task[s] # "none"}
        /\ {s \in Steps : step'[s] = "complete"} = {s \in Steps : step[s] = "complete"}
        /\ {s \in Steps : task'[s] = "completed"} \subseteq {s \in Steps : task[s] = "completed"}
    BY <1>3, StepWriters, TaskWriters
  <2>2. \/ UNCHANGED <<run, current>>
        \/ run = "active" /\ run' = "failed" /\ UNCHANGED current
    BY <1>3, RunWriters, FailsCurrent DEF runVars, MarkRunning
  <2> QED
    BY <2>1, <2>2 DEF Line!Next, Line!Fail, Line!Stand
<1> QED
  BY <1>1, <1>2, <1>3

(* A run implements the line: one commit completes a step's task, its step *)
(* and offers the next, whatever overlaps, throws or dies.                 *)
THEOREM LineHolds == Spec => LineImplemented
<1>1. Init => Offered /\ Line!Init
  BY LineInit
<1> QED
  BY <1>1, LineStep, OfferedNext, InvHolds, PTL DEF Spec, LineImplemented, Line!Spec
==============================================================================
