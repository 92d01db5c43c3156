------------------------- MODULE QualityReviewProofs -------------------------
(***************************************************************************)
(* Theorems about QualityReview, for every number of executions, reviews,  *)
(* faults and answers and every limit.                                     *)
(***************************************************************************)
EXTENDS QualityReview, TLAPS

(* What the code relies on without asking for it, as long as all is calm:  *)
(* an execution or a review holds the task, one at a time, and none does   *)
(* while the row says pending, blocked or completed.                       *)
Executing(w) == work[w] # "idle"
Verdicts == {"judge", "pass", "block", "read", "rework", "cap", "decide"}
UnderReview(r) == review[r] = "pending" \/ step[r] \in Verdicts

OneAtATime ==
  /\ \A v, w \in Workers : Executing(v) /\ Executing(w) => v = w
  /\ \A q, r \in Reviews : UnderReview(q) /\ UnderReview(r) => q = r
  /\ \A w \in Workers, r \in Reviews : ~(Executing(w) /\ UnderReview(r))
Quiet == (\A w \in Workers : ~Executing(w)) /\ (\A r \in Reviews : ~UnderReview(r))
HeldByNobody == status \in {"pending", "blocked", "completed"} => Quiet
Current ==
  /\ \A w \in Workers : work[w] = "submit" => ships[w] = version
  /\ \A r \in Reviews : UnderReview(r) => subject[r] = version
ReviewInv ==
  calm => OneAtATime /\ HeldByNobody /\ Current /\ (status = "completed" => passed = version)

(* What the statements of one handler carry from step to step.             *)
StepInv ==
  /\ \A r \in Reviews : step[r] = "rework" => read[r] < RetryCap
  /\ \A r \in Reviews : step[r] # "idle" => review[r] = "active"
  /\ answering <= answers

-----------------------------------------------------------------------------
(* Types.                                                                  *)

LEMMA ReviewsAreNumbers == Reviews \subseteq Nat /\ Watchdog \notin Reviews
  BY ReviewAssumption DEF Reviews, Watchdog

LEMMA TriesIsLimit ==
  /\ Tries \in Nat
  /\ \A n \in 0..RetryCap : n < RetryCap => n + 1 \in 0..Tries
  /\ \A n \in 0..Tries : n < MaxRetries => n + 1 \in 0..Tries
  BY ReviewAssumption DEF Tries

LEMMA ReviewTypeInit == Init => TypeOK /\ StepInv
<1> SUFFICES ASSUME Init PROVE TypeOK /\ StepInv
  OBVIOUS
<1>1. 0 \in 0..MaxFaults /\ 0 \in 0..MaxAnswers /\ 0 \in 0..MaxReviews /\ 0 \in 0..RetryCap
  BY ReviewAssumption
<1>2. 0 \in 0..Tries
  BY TriesIsLimit
<1>3. Reviews \subseteq Handlers
  BY DEF Handlers
<1> QED
  BY <1>1, <1>2, <1>3 DEF Init, TypeOK, StepInv

LEMMA ReleaseType ==
  ASSUME TypeOK, Release
  PROVE  status' \in {"pending", "unresolvable"} /\ retries' \in 0..Tries
  BY TriesIsLimit DEF Release, TypeOK

LEMMA FaultType ==
  ASSUME TypeOK, NEW f, Fault(f)
  PROVE  faults' \in 0..MaxFaults /\ calm' = FALSE
  BY ReviewAssumption DEF Fault, TypeOK

LEMMA WorkType ==
  ASSUME TypeOK, StepInv, NEW w \in Workers, Claim(w) \/ WorkEnds(w) \/ Submit(w)
  PROVE  TypeOK' /\ StepInv'
<1> USE DEF TypeOK, StepInv, rowVars, reviewVars, stepVars, familyVars, countVars
<1>1. CASE Claim(w)
  BY <1>1 DEF Claim
<1>2. CASE Route(w)
  <2>1. version + 1 \in 0..MaxReviews
    BY <1>2, ReviewAssumption DEF Route
  <2> QED
    BY <1>2, <2>1 DEF Route
<1>3. CASE WorkFails(w)
  BY <1>3, ReleaseType DEF WorkFails
<1>4. CASE Submit(w)
  <2>1. PICK r \in Reviews \ Created :
          /\ review' = [review EXCEPT ![r] = "pending"]
          /\ subject' = [subject EXCEPT ![r] = ships[w]]
    BY <1>4 DEF Submit
  <2>2. step[r] = "idle"
    BY <2>1 DEF Created
  <2>3. ships[w] \in 0..MaxReviews
    OBVIOUS
  <2> QED
    BY <1>4, <2>1, <2>2, <2>3 DEF Submit
<1> QED
  BY <1>1, <1>2, <1>3, <1>4 DEF WorkEnds

LEMMA ReviewType ==
  ASSUME TypeOK, StepInv, NEW r \in Reviews,
         ReviewClaim(r) \/ ReviewEnds(r) \/ Revive(r) \/ Close(r)
  PROVE  TypeOK' /\ StepInv'
<1> USE DEF TypeOK, StepInv, Goto, rowVars, workVars, reviewVars, stepVars, familyVars,
            countVars, Handlers
<1>1. CASE ReviewClaim(r)
  BY <1>1 DEF ReviewClaim
<1>2. CASE Judge(r)
  BY <1>2 DEF Judge
<1>3. CASE ReviewFails(r)
  BY <1>3 DEF ReviewFails
<1>4. CASE Revive(r)
  BY <1>4, FaultType DEF Revive
<1>5. CASE Close(r)
  BY <1>5 DEF Close
<1> QED
  BY <1>1, <1>2, <1>3, <1>4, <1>5 DEF ReviewEnds

LEMMA VerdictType ==
  ASSUME TypeOK, StepInv, NEW r \in Reviews,
         Pass(r) \/ Block(r) \/ ReadCount(r) \/ Rework(r) \/ Cap(r) \/ Decide(r)
  PROVE  TypeOK' /\ StepInv'
<1> USE DEF TypeOK, StepInv, Goto, workVars, reviewVars, familyVars, countVars, Handlers
<1>1. CASE Pass(r)
  BY <1>1 DEF Pass
<1>2. CASE Block(r)
  BY <1>2 DEF Block
<1>3. CASE ReadCount(r)
  <2>1. MayRework(retries) => retries \in 0..RetryCap /\ retries < RetryCap
    BY ReviewAssumption DEF MayRework
  <2>2. 0 \in 0..RetryCap
    BY ReviewAssumption
  <2>3. read' \in [Reviews -> 0..RetryCap]
    BY <1>3, <2>1, <2>2 DEF ReadCount
  <2>4. ASSUME NEW q \in Reviews, step'[q] = "rework" PROVE read'[q] < RetryCap
    BY <1>3, <2>1, <2>4 DEF ReadCount
  <2> QED
    BY <1>3, <2>3, <2>4 DEF ReadCount, rowVars
<1>4. CASE Rework(r)
  <2>1. 0 \in 0..RetryCap
    BY ReviewAssumption
  <2>2. retries' \in 0..Tries
    BY <1>4, TriesIsLimit DEF Rework
  <2>3. ASSUME NEW q \in Reviews, step'[q] = "rework" PROVE read'[q] < RetryCap
    BY <1>4, <2>3 DEF Rework
  <2> QED
    BY <1>4, <2>1, <2>2, <2>3 DEF Rework
<1>5. CASE Cap(r)
  BY <1>5 DEF Cap
<1>6. CASE Decide(r)
  BY <1>6 DEF Decide
<1> QED
  BY <1>1, <1>2, <1>3, <1>4, <1>5, <1>6

LEMMA HandlerType ==
  ASSUME TypeOK, StepInv, NEW h \in Handlers, HandlerStep(h)
  PROVE  TypeOK' /\ StepInv'
<1> USE DEF TypeOK, StepInv, Goto, After, rowVars, workVars, reviewVars, familyVars, countVars,
            Handlers
<1>1. CASE FindReplan(h)
  BY <1>1 DEF FindReplan
<1>2. CASE InsertReplan(h)
  BY <1>2 DEF InsertReplan
<1> QED
  BY <1>1, <1>2 DEF HandlerStep

LEMMA OutsideType ==
  ASSUME TypeOK, StepInv,
         \/ Overrun \/ ReplanEnds \/ FindDeadEnd \/ FindBlocked \/ WatchdogFails
         \/ WatchdogReleases \/ Answer \/ ApplyAnswer \/ Crash \/ Rest
  PROVE  TypeOK' /\ StepInv'
<1> USE DEF TypeOK, StepInv, Goto, rowVars, workVars, reviewVars, stepVars, familyVars,
            countVars, Handlers
<1>1. CASE Overrun
  BY <1>1, ReleaseType, FaultType DEF Overrun
<1>2. CASE ReplanEnds
  BY <1>2 DEF ReplanEnds
<1>3. CASE FindDeadEnd
  BY <1>3, ReviewsAreNumbers DEF FindDeadEnd
<1>4. CASE FindBlocked
  BY <1>4, ReviewsAreNumbers DEF FindBlocked
<1>5. CASE WatchdogFails
  BY <1>5, ReviewsAreNumbers DEF WatchdogFails
<1>6. CASE WatchdogReleases
  BY <1>6, ReleaseType, ReviewsAreNumbers DEF WatchdogReleases
<1>7. CASE Answer
  BY <1>7, ReviewAssumption DEF Answer
<1>8. CASE ApplyAnswer
  <2>1. 0 \in 0..Tries
    BY TriesIsLimit
  <2> QED
    BY <1>8, <2>1, ReviewAssumption DEF ApplyAnswer
<1>9. CASE Crash
  <2>1. 0 \in 0..RetryCap
    BY ReviewAssumption
  <2> QED
    BY <1>9, <2>1, FaultType DEF Crash
<1>10. CASE Rest
  BY <1>10 DEF Rest, vars
<1> QED
  BY <1>1, <1>2, <1>3, <1>4, <1>5, <1>6, <1>7, <1>8, <1>9, <1>10

LEMMA ReviewTypeStep == TypeOK /\ StepInv /\ [Next]_vars => TypeOK' /\ StepInv'
<1> SUFFICES ASSUME TypeOK, StepInv, [Next]_vars PROVE TypeOK' /\ StepInv'
  OBVIOUS
<1>1. CASE UNCHANGED vars
  BY <1>1 DEF vars, TypeOK, StepInv
<1>2. ASSUME NEW w \in Workers, Claim(w) \/ WorkEnds(w) \/ Submit(w)
      PROVE  TypeOK' /\ StepInv'
  BY <1>2, WorkType
<1>3. ASSUME NEW r \in Reviews, ReviewClaim(r) \/ ReviewEnds(r) \/ VerdictStep(r) \/ Revive(r)
      PROVE  TypeOK' /\ StepInv'
  BY <1>3, ReviewType, VerdictType, HandlerType DEF VerdictStep, Handlers
<1>4. CASE Overrun \/ ReplanEnds \/ FindDeadEnd \/ FindBlocked \/ WatchdogStep
            \/ Answer \/ ApplyAnswer \/ Crash \/ Rest
  BY <1>4, OutsideType, HandlerType DEF WatchdogStep, Handlers
<1> QED
  BY <1>1, <1>2, <1>3, <1>4 DEF Next

(* The type of the review of a task: its row, its executions, its reviews  *)
(* and their statements, and that both limits bound retry_count.           *)
THEOREM ReviewTypeCorrect == Spec => []TypeOK
<1>1. TypeOK /\ StepInv /\ [Next]_vars => (TypeOK /\ StepInv)'
  BY ReviewTypeStep
<1> QED
  BY <1>1, ReviewTypeInit, PTL DEF Spec

-----------------------------------------------------------------------------
(* One execution or one review holds the task.                             *)

LEMMA ReviewInvInit == Init => ReviewInv
<1> SUFFICES ASSUME Init PROVE ReviewInv
  OBVIOUS
<1>1. Reviews \subseteq Handlers
  BY DEF Handlers
<1> QED
  BY <1>1 DEF Init, ReviewInv, OneAtATime, HeldByNobody, Quiet, Current, Executing,
     UnderReview, Verdicts

(* A step that moves none of the rows and verdicts.                        *)
LEMMA ReviewInvKept ==
  ASSUME TypeOK, ReviewInv, calm' => calm,
         UNCHANGED <<version, work, ships, subject, passed>>,
         \A r \in Reviews : UnderReview(r)' => UnderReview(r),
         \/ status' = status
         \/ status' \notin {"pending", "blocked", "completed"}
         \/ (calm' => status = "blocked") /\ status' # "completed"
  PROVE  ReviewInv'
<1> SUFFICES ASSUME calm' PROVE (OneAtATime /\ HeldByNobody /\ Current
                                /\ (status = "completed" => passed = version))'
  BY DEF ReviewInv
<1>1. calm /\ OneAtATime /\ HeldByNobody /\ Current /\ (status = "completed" => passed = version)
  BY DEF ReviewInv
<1>2. OneAtATime' /\ Current' /\ (Quiet => Quiet')
  BY <1>1 DEF OneAtATime, Current, Quiet, Executing
<1>3. HeldByNobody'
  BY <1>1, <1>2 DEF HeldByNobody
<1>4. (status = "completed" => passed = version)'
  BY <1>1
<1> QED
  BY <1>2, <1>3, <1>4

LEMMA WorkKeeps ==
  ASSUME TypeOK, ReviewInv, NEW w \in Workers, Claim(w) \/ WorkEnds(w) \/ Submit(w)
  PROVE  ReviewInv'
<1> USE DEF TypeOK, OneAtATime, HeldByNobody, Quiet, Current, Executing, UnderReview,
            rowVars, reviewVars, stepVars
<1> SUFFICES ASSUME calm' PROVE (OneAtATime /\ HeldByNobody /\ Current
                                /\ (status = "completed" => passed = version))'
  BY DEF ReviewInv
<1>0. calm /\ OneAtATime /\ HeldByNobody /\ Current /\ (status = "completed" => passed = version)
  BY DEF ReviewInv, Claim, WorkEnds, Route, WorkFails, Submit
<1>1. CASE Claim(w)
  BY <1>0, <1>1 DEF Claim, Claimable
<1>2. CASE Route(w)
  BY <1>0, <1>2 DEF Route
<1>3. CASE WorkFails(w)
  <2>1. status' \in {"pending", "unresolvable"}
    BY <1>3, ReleaseType DEF WorkFails
  <2> QED
    BY <1>0, <1>3, <2>1 DEF WorkFails
<1>4. CASE Submit(w)
  <2>1. PICK r \in Reviews \ Created :
          /\ review' = [review EXCEPT ![r] = "pending"]
          /\ subject' = [subject EXCEPT ![r] = ships[w]]
    BY <1>4 DEF Submit
  <2>2. \A q \in Reviews : ~UnderReview(q)
    BY <1>0, <1>4 DEF Submit
  <2>3. \A q \in Reviews : UnderReview(q)' => q = r
    BY <1>4, <2>1, <2>2 DEF Submit
  <2>4. \A v \in Workers : ~Executing(v)'
    BY <1>0, <1>4 DEF Submit
  <2>5. subject'[r] = version' /\ status' = status /\ status \notin {"pending", "blocked", "completed"}
    BY <1>0, <1>4, <2>1 DEF Submit
  <2> QED
    BY <2>3, <2>4, <2>5
<1> QED
  BY <1>1, <1>2, <1>3, <1>4 DEF WorkEnds

LEMMA ReviewKeeps ==
  ASSUME TypeOK, ReviewInv, NEW r \in Reviews,
         ReviewClaim(r) \/ ReviewEnds(r) \/ Revive(r) \/ Close(r)
  PROVE  ReviewInv'
<1> USE DEF TypeOK, Goto, UnderReview, Verdicts, Handlers, rowVars, workVars, reviewVars,
            stepVars
<1>1. CASE ReviewClaim(r)
  BY <1>1, ReviewInvKept DEF ReviewClaim
<1>2. CASE Judge(r)
  BY <1>2, ReviewInvKept DEF Judge
<1>3. CASE ReviewFails(r)
  BY <1>3, ReviewInvKept DEF ReviewFails
<1>4. CASE Revive(r)
  BY <1>4, FaultType DEF Revive, ReviewInv
<1>5. CASE Close(r)
  BY <1>5, ReviewInvKept DEF Close
<1> QED
  BY <1>1, <1>2, <1>3, <1>4, <1>5 DEF ReviewEnds

(* A verdict that is applied leaves nothing under review. *)
LEMMA VerdictEnds ==
  ASSUME TypeOK, StepInv, ReviewInv, calm, NEW r \in Reviews, step[r] \in Verdicts,
         UNCHANGED <<work, review>>, step' = [step EXCEPT ![r] = "close"]
  PROVE  Quiet' /\ subject[r] = version
<1>1. OneAtATime /\ Current /\ UnderReview(r)
  BY DEF ReviewInv, UnderReview
<1>2. \A w \in Workers : ~Executing(w)
  BY <1>1 DEF OneAtATime
<1>3. \A q \in Reviews : UnderReview(q) => q = r
  BY <1>1 DEF OneAtATime
<1>4. review[r] = "active"
  BY DEF StepInv, Verdicts
<1>5. \A q \in Reviews : ~UnderReview(q)'
  BY <1>3, <1>4 DEF UnderReview, Verdicts, TypeOK, Handlers
<1> QED
  BY <1>1, <1>2, <1>5 DEF Quiet, Executing, Current

(* Nothing holds the task any more: the row may say what it likes, and     *)
(* "completed" if the pass was on the current deliverable.                 *)
LEMMA QuietKeeps ==
  ASSUME Quiet', status' = "completed" => passed' = version'
  PROVE  ReviewInv'
  BY DEF Quiet, ReviewInv, OneAtATime, HeldByNobody, Current, Executing

LEMMA VerdictKeeps ==
  ASSUME TypeOK, StepInv, ReviewInv, NEW r \in Reviews,
         Pass(r) \/ Block(r) \/ ReadCount(r) \/ Rework(r) \/ Cap(r) \/ Decide(r)
  PROVE  ReviewInv'
<1> USE DEF Goto, Verdicts, workVars, reviewVars
<1>0. SUFFICES ASSUME calm PROVE ReviewInv'
  BY DEF ReviewInv, Pass, Block, ReadCount, Rework, Cap, Decide
<1>1. CASE Pass(r)
  BY <1>0, <1>1, VerdictEnds, QuietKeeps DEF Pass
<1>2. CASE Block(r)
  BY <1>0, <1>2, VerdictEnds, QuietKeeps DEF Block
<1>3. CASE ReadCount(r)
  BY <1>3, ReviewInvKept DEF ReadCount, rowVars, UnderReview, TypeOK, Handlers
<1>4. CASE Rework(r)
  BY <1>0, <1>4, VerdictEnds, QuietKeeps DEF Rework
<1>5. CASE Cap(r)
  BY <1>5, ReviewInvKept DEF Cap, UnderReview, TypeOK, Handlers
<1>6. CASE Decide(r)
  BY <1>0, <1>6, VerdictEnds, QuietKeeps DEF Decide
<1> QED
  BY <1>1, <1>2, <1>3, <1>4, <1>5, <1>6

LEMMA HandlerKeeps ==
  ASSUME TypeOK, ReviewInv, NEW h \in Handlers, HandlerStep(h)
  PROVE  ReviewInv'
<1> USE DEF TypeOK, Goto, After, UnderReview, Verdicts, rowVars, workVars, reviewVars, Handlers
<1>1. CASE FindReplan(h)
  BY <1>1, ReviewInvKept DEF FindReplan
<1>2. CASE InsertReplan(h)
  BY <1>2, ReviewInvKept DEF InsertReplan
<1> QED
  BY <1>1, <1>2 DEF HandlerStep

LEMMA OutsideKeeps ==
  ASSUME TypeOK, ReviewInv,
         \/ Overrun \/ ReplanEnds \/ FindDeadEnd \/ FindBlocked \/ WatchdogFails
         \/ WatchdogReleases \/ Answer \/ ApplyAnswer \/ Crash \/ Rest
  PROVE  ReviewInv'
<1> USE DEF TypeOK, Goto, UnderReview, Verdicts, rowVars, workVars, reviewVars, stepVars,
            Handlers
<1>1. CASE Overrun
  BY <1>1, FaultType DEF Overrun, ReviewInv
<1>2. CASE ReplanEnds
  BY <1>2, ReviewInvKept DEF ReplanEnds
<1>3. CASE FindDeadEnd
  BY <1>3, ReviewInvKept, ReviewsAreNumbers DEF FindDeadEnd
<1>4. CASE FindBlocked
  BY <1>4, ReviewInvKept, ReviewsAreNumbers DEF FindBlocked
<1>5. CASE WatchdogFails
  BY <1>5, ReviewInvKept, ReviewsAreNumbers DEF WatchdogFails
<1>6. CASE WatchdogReleases
  <2>1. status' \in {"pending", "unresolvable"}
    BY <1>6, ReleaseType DEF WatchdogReleases
  <2> QED
    BY <1>6, <2>1, ReviewInvKept, ReviewsAreNumbers DEF WatchdogReleases
<1>7. CASE Answer
  BY <1>7, ReviewInvKept DEF Answer
<1>8. CASE ApplyAnswer
  BY <1>8, ReviewInvKept DEF ApplyAnswer
<1>9. CASE Crash
  BY <1>9, FaultType DEF Crash, ReviewInv
<1>10. CASE Rest
  BY <1>10, ReviewInvKept DEF Rest, vars
<1> QED
  BY <1>1, <1>2, <1>3, <1>4, <1>5, <1>6, <1>7, <1>8, <1>9, <1>10

LEMMA ReviewInvStep == TypeOK /\ StepInv /\ ReviewInv /\ [Next]_vars => ReviewInv'
<1> SUFFICES ASSUME TypeOK, StepInv, ReviewInv, [Next]_vars PROVE ReviewInv'
  OBVIOUS
<1>1. CASE UNCHANGED vars
  BY <1>1, ReviewInvKept DEF vars, UnderReview
<1>2. ASSUME NEW w \in Workers, Claim(w) \/ WorkEnds(w) \/ Submit(w) PROVE ReviewInv'
  BY <1>2, WorkKeeps
<1>3. ASSUME NEW r \in Reviews, ReviewClaim(r) \/ ReviewEnds(r) \/ VerdictStep(r) \/ Revive(r)
      PROVE  ReviewInv'
  BY <1>3, ReviewKeeps, VerdictKeeps, HandlerKeeps DEF VerdictStep, Handlers
<1>4. CASE Overrun \/ ReplanEnds \/ FindDeadEnd \/ FindBlocked \/ WatchdogStep
            \/ Answer \/ ApplyAnswer \/ Crash \/ Rest
  BY <1>4, OutsideKeeps, HandlerKeeps DEF WatchdogStep, Handlers
<1> QED
  BY <1>1, <1>2, <1>3, <1>4 DEF Next

(* As long as no row is released under its execution or its review, no     *)
(* review is revived and no dispatcher dies, a completed task was passed   *)
(* on the deliverable it has: processQaResult asks neither for the status  *)
(* nor for the deliverable, and relies on one holder of the task at a time.*)
THEOREM CompletedReviewedHolds == Spec => []CompletedReviewed
<1>1. Init => TypeOK /\ StepInv /\ ReviewInv
  BY ReviewTypeInit, ReviewInvInit
<1>2. TypeOK /\ StepInv /\ ReviewInv /\ [Next]_vars => (TypeOK /\ StepInv /\ ReviewInv)'
  BY ReviewTypeStep, ReviewInvStep
<1>3. ReviewInv => CompletedReviewed
  BY DEF ReviewInv, CompletedReviewed
<1> QED
  BY <1>1, <1>2, <1>3, PTL DEF Spec

-----------------------------------------------------------------------------
(* Every delivery is paid for.                                             *)

(* What the answers that have reached the task allow.                      *)
Paid == (Tries + 1) * (answers - answering)

(* The task waits for its next delivery.                                   *)
Undelivered == status = "pending" \/ \E w \in Workers : work[w] = "run"

(* The count that a rework writes is the one it read, plus one.            *)
PaidInv ==
  calm => /\ version <= Paid + retries + 1
          /\ Undelivered => version <= Paid + retries
          /\ \A r \in Reviews : step[r] = "rework" => read[r] = retries

LEMMA PaidIsNat ==
  ASSUME TypeOK, StepInv
  PROVE  /\ Paid \in Nat /\ retries \in Nat /\ version \in Nat
         /\ answers \in Nat /\ answering \in Nat /\ answers - answering \in Nat
<1>1. answers \in Nat /\ answering \in Nat /\ answering <= answers /\ Tries + 1 \in Nat
  BY TriesIsLimit, ReviewAssumption DEF TypeOK, StepInv
<1>2. \A m, n \in Nat : m * n \in Nat
  OBVIOUS
<1>3. answers - answering \in Nat
  BY <1>1
<1>4. Paid \in Nat
  BY <1>1, <1>2, <1>3 DEF Paid
<1> QED
  BY <1>1, <1>3, <1>4, ReviewAssumption, TriesIsLimit DEF TypeOK

(* A step that neither delivers nor counts. *)
LEMMA PaidKept ==
  ASSUME PaidInv, calm' => calm, UNCHANGED <<version, retries, answers, answering>>,
         Undelivered' => Undelivered,
         \A r \in Reviews : step'[r] = "rework" => step[r] = "rework" /\ read'[r] = read[r]
  PROVE  PaidInv'
<1>1. Paid' = Paid
  BY DEF Paid
<1> QED
  BY <1>1 DEF PaidInv

(* A step that counts a retry, or ends the task, with no rework under way. *)
LEMMA PaidCounted ==
  ASSUME TypeOK, StepInv, PaidInv, calm' => calm,
         UNCHANGED <<version, answers, answering>>,
         \/ retries' = retries + 1
         \/ retries' = retries /\ ~Undelivered'
         \/ retries' = retries /\ Undelivered,
         \A r \in Reviews : calm' => step'[r] # "rework"
  PROVE  PaidInv'
<1>1. Paid' = Paid
  BY DEF Paid
<1> QED
  BY <1>1, PaidIsNat DEF PaidInv

LEMMA WorkPays ==
  ASSUME TypeOK, StepInv, ReviewInv, PaidInv, NEW w \in Workers,
         Claim(w) \/ WorkEnds(w) \/ Submit(w)
  PROVE  PaidInv'
<1>1. CASE Claim(w)
  BY <1>1, PaidKept DEF Claim, Claimable, Undelivered, stepVars, familyVars, countVars
<1>2. CASE Submit(w)
  BY <1>2, PaidKept DEF Submit, Undelivered, rowVars, stepVars, familyVars, countVars, TypeOK
<1>3. CASE Route(w)
  <2>1. /\ version' = version + 1 /\ UNCHANGED <<calm, retries, step, read, answers, answering>>
        /\ Undelivered
    BY <1>3 DEF Route, Undelivered, stepVars, familyVars, countVars
  <2>2. calm => ~Undelivered'
    <3>1. calm => \A v \in Workers : v # w => work[v] # "run"
      BY <1>3 DEF ReviewInv, OneAtATime, Executing, Route
    <3> QED
      BY <1>3, <3>1 DEF Route, Undelivered, TypeOK
  <2>3. Paid' = Paid
    BY <2>1 DEF Paid
  <2> QED
    BY <2>1, <2>2, <2>3, PaidIsNat DEF PaidInv
<1>4. CASE WorkFails(w)
  <2>1. calm => \A r \in Reviews : step'[r] # "rework"
    BY <1>4 DEF WorkFails, ReviewInv, OneAtATime, Executing, UnderReview, Verdicts, stepVars
  <2>2. /\ UNCHANGED <<version, answers, answering, calm>> /\ Undelivered
        /\ retries' = retries + 1 \/ retries' = retries
    BY <1>4 DEF WorkFails, Release, Undelivered, familyVars, countVars
  <2> QED
    BY <2>1, <2>2, PaidCounted
<1> QED
  BY <1>1, <1>2, <1>3, <1>4 DEF WorkEnds

LEMMA ReviewPays ==
  ASSUME TypeOK, StepInv, ReviewInv, PaidInv, NEW r \in Reviews,
         ReviewClaim(r) \/ ReviewEnds(r) \/ VerdictStep(r) \/ Revive(r)
  PROVE  PaidInv'
<1> USE DEF Goto, Handlers
<1>1. CASE Revive(r)
  BY <1>1, FaultType DEF Revive, PaidInv
<1>2. CASE ReviewClaim(r) \/ ReviewEnds(r) \/ Close(r)
  BY <1>2, PaidKept DEF ReviewClaim, ReviewEnds, Judge, ReviewFails, Close, Undelivered,
     rowVars, workVars, reviewVars, familyVars, countVars, TypeOK
<1>3. CASE Pass(r) \/ Block(r) \/ Cap(r) \/ Decide(r)
  BY <1>3, PaidKept DEF Pass, Block, Cap, Decide, Undelivered,
     rowVars, workVars, reviewVars, familyVars, countVars, TypeOK
<1>4. CASE HandlerStep(r)
  BY <1>4, PaidKept DEF HandlerStep, FindReplan, InsertReplan, After, Undelivered,
     rowVars, workVars, reviewVars, familyVars, countVars, TypeOK
<1>5. CASE ReadCount(r)
  <2>1. UNCHANGED <<calm, status, work, version, retries, answers, answering>>
    BY <1>5 DEF ReadCount, rowVars, workVars, familyVars, countVars
  <2>2. \A q \in Reviews : step'[q] = "rework" =>
          IF q = r THEN read'[q] = retries ELSE step[q] = "rework" /\ read'[q] = read[q]
    BY <1>5 DEF ReadCount, TypeOK
  <2>3. Paid' = Paid /\ (Undelivered' <=> Undelivered)
    BY <2>1 DEF Paid, Undelivered
  <2> QED
    BY <2>1, <2>2, <2>3 DEF PaidInv
<1>6. CASE Rework(r)
  <2>1. calm => retries' = retries + 1
    BY <1>6 DEF Rework, PaidInv
  <2>2. calm => \A q \in Reviews : step'[q] # "rework"
    <3>1. calm => \A q \in Reviews : q # r => step[q] # "rework"
      BY <1>6 DEF Rework, ReviewInv, OneAtATime, UnderReview, Verdicts
    <3> QED
      BY <1>6, <3>1 DEF Rework, TypeOK
  <2>3. UNCHANGED <<version, answers, answering, calm>>
    BY <1>6 DEF Rework, workVars, familyVars, countVars
  <2> QED
    BY <2>1, <2>2, <2>3, PaidCounted DEF PaidInv
<1> QED
  BY <1>1, <1>2, <1>3, <1>4, <1>5, <1>6 DEF VerdictStep

(* An answer reaches a blocked task: the count of retries starts again.    *)
LEMMA AnswerPays ==
  ASSUME TypeOK, StepInv, ReviewInv, PaidInv, ApplyAnswer
  PROVE  PaidInv'
<1>1. /\ UNCHANGED <<version, work, step, read, calm, answers>>
      /\ answering' = answering - 1
  BY DEF ApplyAnswer, workVars, stepVars, countVars
<1>2. Paid' = Paid + (Tries + 1)
  <2>1. \A k \in Nat, a, b \in Nat : k * (a - (b - 1)) = k * (a - b) + k
    OBVIOUS
  <2>2. Tries + 1 \in Nat /\ answers \in Nat /\ answering \in Nat
    BY PaidIsNat, TriesIsLimit
  <2> QED
    BY <1>1, <2>1, <2>2 DEF Paid
<1>3. retries <= Tries /\ Tries \in Nat
  BY TriesIsLimit DEF TypeOK
<1>4. CASE status = "blocked"
  <2>1. calm => /\ \A r \in Reviews : step'[r] # "rework"
                /\ \A w \in Workers : work'[w] # "run"
    BY <1>1, <1>4 DEF ReviewInv, HeldByNobody, Quiet, Executing, UnderReview, Verdicts
  <2>2. retries' \in {0, retries}
    BY <1>4 DEF ApplyAnswer
  <2> QED
    BY <1>1, <1>2, <1>3, <2>1, <2>2, PaidIsNat DEF PaidInv
<1>5. CASE status # "blocked"
  <2>1. UNCHANGED <<status, retries>>
    BY <1>5 DEF ApplyAnswer
  <2>2. Undelivered' <=> Undelivered
    BY <1>1, <2>1 DEF Undelivered
  <2> QED
    BY <1>1, <1>2, <1>3, <2>1, <2>2, PaidIsNat DEF PaidInv
<1> QED
  BY <1>4, <1>5

LEMMA OutsidePays ==
  ASSUME TypeOK, StepInv, ReviewInv, PaidInv,
         \/ Overrun \/ ReplanEnds \/ FindDeadEnd \/ FindBlocked \/ WatchdogStep
         \/ Answer \/ ApplyAnswer \/ Crash \/ Rest
  PROVE  PaidInv'
<1> USE DEF Goto, Handlers
<1>1. CASE Overrun \/ Crash
  BY <1>1, FaultType DEF Overrun, Crash, PaidInv
<1>2. CASE ReplanEnds \/ Rest
  BY <1>2, PaidKept DEF ReplanEnds, Rest, vars, Undelivered, rowVars, workVars, stepVars,
     countVars
<1>3. CASE FindDeadEnd \/ FindBlocked
  BY <1>3, PaidKept, ReviewsAreNumbers DEF FindDeadEnd, FindBlocked, Undelivered, rowVars,
     workVars, familyVars, countVars, TypeOK
<1>4. CASE HandlerStep(Watchdog)
  BY <1>4, PaidKept, ReviewsAreNumbers DEF HandlerStep, FindReplan, InsertReplan, After,
     Undelivered, rowVars, workVars, reviewVars, familyVars, countVars, TypeOK
<1>5. CASE WatchdogFails
  BY <1>5, PaidKept, ReviewsAreNumbers DEF WatchdogFails, Undelivered, workVars,
     familyVars, countVars, TypeOK
<1>6. CASE WatchdogReleases
  <2>1. calm' => calm /\ \A r \in Reviews : step'[r] # "rework"
    BY <1>6, ReviewsAreNumbers DEF WatchdogReleases, ReviewInv, HeldByNobody, Quiet,
       UnderReview, Verdicts, TypeOK
  <2>2. calm' => \A w \in Workers : work'[w] # "run"
    BY <1>6 DEF WatchdogReleases, ReviewInv, HeldByNobody, Quiet, Executing, workVars
  <2>3. UNCHANGED <<version, answers, answering>>
    BY <1>6 DEF WatchdogReleases, workVars, familyVars, countVars
  <2>4. CASE ~calm'
    BY <2>4 DEF PaidInv
  <2>5. CASE calm' /\ retries' = retries + 1
    BY <2>1, <2>3, <2>5, PaidCounted
  <2>6. CASE calm' /\ retries' = retries /\ status' = "unresolvable"
    <3>1. ~Undelivered'
      BY <2>2, <2>6 DEF Undelivered
    <3> QED
      BY <2>1, <2>3, <2>6, <3>1, PaidCounted
  <2> QED
    BY <1>6, <2>4, <2>5, <2>6 DEF WatchdogReleases, Release
<1>7. CASE Answer
  <2>1. Paid' = Paid
    <3>1. answers' - answering' = answers - answering
      BY <1>7, PaidIsNat DEF Answer
    <3> QED
      BY <3>1 DEF Paid
  <2>2. UNCHANGED <<calm, status, work, version, retries, step, read>>
    BY <1>7 DEF Answer, rowVars, workVars, stepVars
  <2> QED
    BY <2>1, <2>2 DEF PaidInv, Undelivered
<1>8. CASE ApplyAnswer
  BY <1>8, AnswerPays
<1> QED
  BY <1>1, <1>2, <1>3, <1>4, <1>5, <1>6, <1>7, <1>8 DEF WatchdogStep

(* Reworks, retries and answers pay for every delivery but the first, for  *)
(* every limit, as long as all is calm.                                    *)
THEOREM DeliveriesPaidHolds == Spec => []DeliveriesPaid
<1> DEFINE Inv == TypeOK /\ StepInv /\ ReviewInv /\ PaidInv
<1>1. Init => Inv
  <2> SUFFICES ASSUME Init PROVE PaidInv
    BY ReviewTypeInit, ReviewInvInit
  <2>1. version = 0 /\ retries = 0 /\ \A r \in Reviews : step[r] # "rework"
    BY DEF Init, Handlers
  <2> QED
    BY <2>1, ReviewTypeInit, PaidIsNat DEF PaidInv
<1>2. Inv /\ [Next]_vars => Inv'
  <2> SUFFICES ASSUME Inv, [Next]_vars PROVE PaidInv'
    BY ReviewTypeStep, ReviewInvStep
  <2>1. CASE UNCHANGED vars
    BY <2>1, PaidKept DEF vars, Undelivered
  <2>2. CASE Next
    BY <2>2, WorkPays, ReviewPays, OutsidePays DEF Next
  <2> QED
    BY <2>1, <2>2
<1>3. Inv => DeliveriesPaid
  <2> SUFFICES ASSUME Inv, calm PROVE version <= (Tries + 1) * (answers + 1)
    BY DEF DeliveriesPaid
  <2>1. version <= Paid + retries + 1 /\ retries <= Tries /\ Tries \in Nat
    BY TriesIsLimit DEF PaidInv, TypeOK
  <2>2. \A k, a, b \in Nat : k * (a - b) + k + k * b = k * (a + 1) /\ k * b \in Nat
    OBVIOUS
  <2>3. Paid + (Tries + 1) <= (Tries + 1) * (answers + 1)
    <3>1. /\ Paid + (Tries + 1) + (Tries + 1) * answering = (Tries + 1) * (answers + 1)
          /\ (Tries + 1) * answering \in Nat
      BY <2>1, <2>2, PaidIsNat DEF Paid
    <3> QED
      BY <2>1, <3>1, PaidIsNat
  <2> QED
    BY <2>1, <2>3, PaidIsNat, TriesIsLimit, ReviewAssumption
<1> QED
  BY <1>1, <1>2, <1>3, PTL DEF Spec

-----------------------------------------------------------------------------
(* A task under review is made and judged in turn.                         *)

GivenUp == status \in {"failed", "unresolvable", "cancelled"}

(* Who works on the task agrees with the row; a review that has failed     *)
(* leaves nobody at work and a row that waits; and what the watchdog and   *)
(* the replan are about to write, they write over a row that waits or has  *)
(* been given up. Only a direct task has a decision.                       *)
InReview ==
  /\ \A w \in Workers : work[w] = "run" => status = "active"
  /\ \A w \in Workers : work[w] = "submit" => status = "in_review"
  /\ \A r \in Reviews : UnderReview(r) => status = "in_review"
DeadEnded == DeadEnds # {} => Quiet /\ (status = "in_review" \/ GivenUp)
OneWay ==
  /\ kind = "goal" => decisions = 0 /\ answering = 0
  /\ \A r \in Reviews : step[r] = "decide" => kind = "direct"
  /\ \A h \in Handlers : step[h] \in {"find", "insert"} => GivenUp
  /\ step[Watchdog] = "fail" =>
       kind = "goal" /\ Quiet /\ (status \in {"in_review", "blocked"} \/ GivenUp)
FlowInv == calm => InReview /\ DeadEnded /\ OneWay

LEMMA Stages ==
  /\ StageOf("pending") = "todo" /\ StageOf("active") = "making"
  /\ StageOf("in_review") = "judging" /\ StageOf("blocked") = "asked"
  /\ StageOf("completed") = "done"
  /\ \A s \in {"failed", "unresolvable", "cancelled"} : StageOf(s) = "dropped"
  BY DEF StageOf

LEMMA FlowInit == Init => FlowInv /\ Work!Init
<1> SUFFICES ASSUME Init PROVE FlowInv /\ Work!Init
  OBVIOUS
<1>1. Reviews \subseteq Handlers /\ Watchdog \in Handlers
  BY DEF Handlers
<1>2. Work!Init
  BY Stages DEF Init, Work!Init
<1>3. FlowInv
  BY <1>1 DEF Init, FlowInv, InReview, DeadEnded, OneWay, UnderReview, Verdicts, DeadEnds
<1> QED
  BY <1>2, <1>3

(* Who holds the task holds it against everyone who could write its row.   *)
LEMMA ExecutionAlone ==
  ASSUME ReviewInv, FlowInv, calm, NEW w \in Workers, work[w] # "idle",
         work[w] \in {"run", "submit"}
  PROVE  /\ \A v \in Workers : v # w => work[v] = "idle"
         /\ \A r \in Reviews : ~UnderReview(r)
         /\ status = IF work[w] = "run" THEN "active" ELSE "in_review"
         /\ DeadEnds = {} /\ step[Watchdog] # "fail"
         /\ \A h \in Handlers : step[h] \notin {"find", "insert"}
<1>1. ~Quiet /\ status \in {"active", "in_review"} /\ ~GivenUp
  BY DEF FlowInv, InReview, Quiet, Executing, GivenUp
<1> QED
  BY <1>1 DEF ReviewInv, OneAtATime, Executing, FlowInv, InReview, DeadEnded, OneWay

LEMMA ReviewAlone ==
  ASSUME ReviewInv, FlowInv, calm, NEW r \in Reviews, UnderReview(r)
  PROVE  /\ \A q \in Reviews : UnderReview(q) => q = r
         /\ \A w \in Workers : work[w] = "idle"
         /\ status = "in_review" /\ DeadEnds = {} /\ step[Watchdog] # "fail"
         /\ \A h \in Handlers : step[h] \notin {"find", "insert"}
<1>1. ~Quiet /\ status = "in_review" /\ ~GivenUp
  BY DEF FlowInv, InReview, Quiet, GivenUp
<1> QED
  BY <1>1 DEF ReviewInv, OneAtATime, Executing, FlowInv, InReview, DeadEnded, OneWay

(* A step that keeps all this, and is a step of the abstract task. *)
FlowStep == FlowInv' /\ [Work!Next]_(Work!vars)

(* A step that moves neither the row nor anybody who could write it.       *)
LEMMA FlowKept ==
  ASSUME FlowInv, UNCHANGED <<kind, status, version, passed, calm, work>>,
         (decisions' = decisions /\ answering' = answering) \/ kind = "direct",
         \A r \in Reviews : UnderReview(r)' => UnderReview(r),
         DeadEnds' \subseteq DeadEnds,
         \A r \in Reviews : step'[r] = "decide" => step[r] = "decide" \/ kind = "direct",
         \A h \in Handlers : step'[h] \in {"find", "insert"} => step[h] \in {"find", "insert"},
         step'[Watchdog] = "fail" => step[Watchdog] = "fail"
  PROVE  FlowStep
<1>1. Work!vars' = Work!vars
  BY DEF Work!vars
<1>2. Quiet => Quiet'
  BY DEF Quiet, Executing
<1>3. InReview => InReview'
  BY DEF InReview
<1>4. DeadEnded => DeadEnded'
  BY <1>2 DEF DeadEnded, GivenUp
<1>5. OneWay => OneWay'
  BY <1>2 DEF OneWay, GivenUp
<1> QED
  BY <1>1, <1>3, <1>4, <1>5 DEF FlowInv, FlowStep

(* Nobody is at work on the task afterwards, and nothing was left over.    *)
LEMMA FlowFree ==
  ASSUME Quiet', DeadEnds' = {}, step'[Watchdog] # "fail",
         kind' = "goal" => decisions' = 0 /\ answering' = 0,
         \A h \in Handlers : step'[h] \notin {"find", "insert"}
  PROVE  FlowInv'
  BY DEF FlowInv, InReview, DeadEnded, OneWay, Quiet, Executing, UnderReview, Verdicts

(* From then on nothing is promised.                                       *)
LEMMA FlowUpset == ASSUME calm' = FALSE PROVE FlowStep
  BY DEF FlowInv, Work!Next, FlowStep

LEMMA WorkFlow ==
  ASSUME TypeOK, StepInv, ReviewInv, FlowInv, NEW w \in Workers,
         Claim(w) \/ WorkEnds(w) \/ Submit(w)
  PROVE  FlowStep
<1> USE DEF TypeOK, Handlers
<1>0. calm' = calm
  BY DEF Claim, WorkEnds, Route, WorkFails, Submit
<1>1. CASE ~calm
  BY <1>0, <1>1, FlowUpset DEF TypeOK
<1>2. CASE calm /\ Claim(w)
  <2>1. Quiet /\ status = "pending" /\ OneWay /\ DeadEnds = {}
    BY <1>2 DEF ReviewInv, FlowInv, DeadEnded, HeldByNobody, Claim, Claimable, GivenUp
  <2>2. /\ status' = "active" /\ UNCHANGED <<kind, version, passed, calm, review, step,
                                             decisions, answering>>
        /\ work' = [work EXCEPT ![w] = "run"]
    BY <1>2 DEF Claim, reviewVars, stepVars, familyVars
  <2>3. InReview' /\ DeadEnded' /\ OneWay'
    BY <2>1, <2>2 DEF InReview, DeadEnded, OneWay, DeadEnds, Quiet, Executing, UnderReview, GivenUp
  <2>4. Work!Begin
    BY <2>1, <2>2, Stages DEF Work!Begin, Work!Goes
  <2> QED
    BY <1>0, <1>2, <2>3, <2>4 DEF FlowInv, Work!Next, FlowStep
<1>3. CASE calm /\ Route(w)
  <2>1. /\ work[w] = "run" /\ status' = "in_review" /\ version' = version + 1
        /\ work' = [work EXCEPT ![w] = "submit"]
        /\ UNCHANGED <<kind, passed, calm, review, step, decisions, answering>>
    BY <1>3 DEF Route, reviewVars, stepVars, familyVars
  <2>2. InReview' /\ DeadEnded' /\ OneWay'
    BY <1>3, <2>1, ExecutionAlone DEF InReview, DeadEnded, OneWay, DeadEnds, UnderReview, FlowInv
  <2>3. Work!Deliver
    BY <1>3, <2>1, ExecutionAlone, Stages DEF Work!Deliver
  <2> QED
    BY <1>0, <1>3, <2>2, <2>3 DEF FlowInv, Work!Next, FlowStep
<1>4. CASE calm /\ WorkFails(w)
  <2>1. /\ work[w] = "run" /\ status' \in {"pending", "unresolvable"}
        /\ work' = [work EXCEPT ![w] = "idle"]
        /\ UNCHANGED <<kind, version, passed, calm, review, step, decisions, answering>>
    BY <1>4, ReleaseType DEF WorkFails, reviewVars, stepVars, familyVars
  <2>2. FlowInv'
    BY <1>4, <2>1, ExecutionAlone, FlowFree DEF Quiet, Executing, UnderReview, DeadEnds,
       FlowInv, OneWay
  <2>3. Work!GiveUp
    BY <1>4, <2>1, ExecutionAlone, Stages DEF Work!GiveUp, Work!Goes
  <2> QED
    BY <1>0, <1>4, <2>2, <2>3 DEF Work!Next, FlowStep
<1>5. CASE calm /\ Submit(w)
  <2>1. /\ work[w] = "submit" /\ work' = [work EXCEPT ![w] = "idle"]
        /\ UNCHANGED <<kind, status, version, passed, calm, step, decisions, answering>>
    BY <1>5 DEF Submit, rowVars, stepVars, familyVars
  <2>2. DeadEnds' = {}
    <3>1. PICK r \in Reviews \ Created : review' = [review EXCEPT ![r] = "pending"]
      BY <1>5 DEF Submit
    <3> QED
      BY <1>5, <2>1, <3>1, ExecutionAlone DEF DeadEnds
  <2>3. InReview' /\ DeadEnded' /\ OneWay'
    BY <1>5, <2>1, <2>2, ExecutionAlone DEF InReview, DeadEnded, OneWay, FlowInv
  <2> QED
    BY <1>5, <2>1, <2>3 DEF FlowInv, Work!vars, FlowStep
<1> QED
  BY <1>1, <1>2, <1>3, <1>4, <1>5 DEF WorkEnds

LEMMA ReviewFlow ==
  ASSUME TypeOK, StepInv, ReviewInv, FlowInv, NEW r \in Reviews,
         ReviewClaim(r) \/ ReviewEnds(r) \/ Revive(r) \/ Close(r)
  PROVE  FlowStep
<1> USE DEF TypeOK, Handlers, Goto, UnderReview, Verdicts, DeadEnds, rowVars, workVars, reviewVars,
            familyVars
<1>1. CASE ReviewClaim(r) \/ Judge(r) \/ Close(r)
  BY <1>1, FlowKept, ReviewsAreNumbers DEF ReviewClaim, Judge, Close
<1>2. CASE Revive(r)
  BY <1>2, FaultType, FlowUpset DEF Revive
<1>3. CASE ReviewFails(r) /\ ~calm
  BY <1>3, FlowUpset DEF ReviewFails
<1>4. CASE ReviewFails(r) /\ calm
  <2>1. /\ step[r] = "judge" /\ step' = [step EXCEPT ![r] = "idle"] /\ review'[r] \notin {"pending"}
        /\ \A q \in Reviews : q # r => review'[q] = review[q]
        /\ UNCHANGED <<kind, status, version, passed, calm, work, decisions, answering>>
    BY <1>4 DEF ReviewFails
  <2>2. Quiet' /\ status' = "in_review"
    BY <1>4, <2>1, ReviewAlone DEF Quiet, Executing
  <2>3. step'[Watchdog] # "fail" /\ \A h \in Handlers : step'[h] \notin {"find", "insert"}
    BY <1>4, <2>1, ReviewAlone, ReviewsAreNumbers
  <2>4. InReview' /\ DeadEnded' /\ OneWay'
    BY <1>4, <2>1, <2>2, <2>3, ReviewAlone DEF InReview, DeadEnded, OneWay, FlowInv, Quiet, Executing
  <2> QED
    BY <2>1, <2>4 DEF FlowInv, Work!vars, FlowStep
<1> QED
  BY <1>1, <1>2, <1>3, <1>4 DEF ReviewEnds

(* A verdict is applied and nobody is left at work. *)
LEMMA VerdictFrees ==
  ASSUME TypeOK, StepInv, ReviewInv, FlowInv, calm, NEW r \in Reviews, step[r] \in Verdicts,
         step' = [step EXCEPT ![r] = "close"], UNCHANGED <<kind, work, review, answering>>,
         decisions' = decisions \/ kind = "direct"
  PROVE  FlowInv' /\ status = "in_review"
<1>1. UnderReview(r)
  BY DEF UnderReview
<1>2. Quiet'
  BY VerdictEnds
<1>3. DeadEnds' = {} /\ step'[Watchdog] # "fail"
  BY <1>1, ReviewAlone, ReviewsAreNumbers DEF DeadEnds, TypeOK, Handlers
<1>4. \A h \in Handlers : step'[h] \notin {"find", "insert"}
  BY <1>1, ReviewAlone DEF TypeOK
<1>5. kind' = "goal" => decisions' = 0 /\ answering' = 0
  BY DEF FlowInv, OneWay
<1> QED
  BY <1>1, <1>2, <1>3, <1>4, <1>5, ReviewAlone, FlowFree

LEMMA VerdictFlow ==
  ASSUME TypeOK, StepInv, ReviewInv, FlowInv, NEW r \in Reviews,
         Pass(r) \/ Block(r) \/ ReadCount(r) \/ Rework(r) \/ Cap(r) \/ Decide(r)
  PROVE  FlowStep
<1> USE DEF Goto, workVars, reviewVars, familyVars
<1>0. UNCHANGED calm
  BY DEF Pass, Block, ReadCount, Rework, Cap, Decide
<1>1. CASE ~calm
  BY <1>0, <1>1, FlowUpset DEF TypeOK
<1>2. CASE calm /\ Pass(r)
  <2>1. FlowInv' /\ status = "in_review" /\ subject[r] = version
    BY <1>2, VerdictFrees, VerdictEnds DEF Pass, Verdicts
  <2>2. Work!Accept
    BY <1>2, <2>1, Stages DEF Pass, Work!Accept
  <2> QED
    BY <1>0, <1>2, <2>1, <2>2 DEF Work!Next, FlowStep
<1>3. CASE calm /\ (Block(r) \/ Rework(r) \/ Decide(r))
  <2>1. FlowInv' /\ status = "in_review" /\ status' \in {"blocked", "pending"}
    <3>1. OneWay
      BY <1>3 DEF FlowInv
    <3> QED
      BY <1>3, <3>1, VerdictFrees DEF Block, Rework, Decide, Verdicts, OneWay
  <2>2. Work!Return
    BY <1>3, <2>1, Stages DEF Block, Rework, Decide, Work!Return, Work!Goes
  <2> QED
    BY <1>0, <1>3, <2>1, <2>2 DEF Work!Next, FlowStep
<1>4. CASE ReadCount(r)
  BY <1>4, FlowKept, ReviewsAreNumbers DEF ReadCount, UnderReview, Verdicts, DeadEnds, TypeOK,
     Handlers, rowVars
<1>5. CASE calm /\ Cap(r)
  <2>1. UnderReview(r) /\ step[r] = "cap"
    BY <1>5 DEF Cap, UnderReview, Verdicts
  <2>2. CASE status' = "unresolvable" /\ step' = [step EXCEPT ![r] = "close"]
    <3>1. FlowInv' /\ status = "in_review"
      BY <1>5, <2>1, <2>2, VerdictFrees DEF Cap, Verdicts
    <3>2. Work!Return
      BY <1>5, <2>2, <3>1, Stages DEF Cap, Work!Return, Work!Goes
    <3> QED
      BY <1>0, <1>5, <3>1, <3>2 DEF Work!Next, FlowStep
  <2>3. CASE kind = "goal" /\ status' = "failed" /\ step' = [step EXCEPT ![r] = "find"]
    <3>1. review[r] = "active" /\ \A q \in Reviews : ~UnderReview(q)'
      BY <1>5, <2>1, <2>3, ReviewAlone DEF Cap, UnderReview, Verdicts, StepInv, TypeOK, Handlers
    <3>2. (\A w \in Workers : work'[w] = "idle") /\ DeadEnds' = {} /\ step'[Watchdog] # "fail"
      BY <1>5, <2>1, <2>3, ReviewAlone, ReviewsAreNumbers DEF Cap, DeadEnds, TypeOK, Handlers
    <3>3. InReview' /\ DeadEnded' /\ GivenUp'
      BY <2>3, <3>1, <3>2 DEF InReview, DeadEnded, GivenUp
    <3>4. OneWay'
      BY <1>5, <2>3, <3>1, <3>2, <3>3 DEF Cap, OneWay, FlowInv, UnderReview, Verdicts, TypeOK
    <3>5. Work!Return
      BY <1>5, <2>1, <2>3, ReviewAlone, Stages DEF Cap, Work!Return, Work!Goes
    <3> QED
      BY <1>0, <1>5, <3>3, <3>4, <3>5 DEF FlowInv, Work!Next, FlowStep
  <2>4. CASE kind = "direct" /\ UNCHANGED status /\ step' = [step EXCEPT ![r] = "decide"]
    BY <1>5, <2>1, <2>4, FlowKept, ReviewsAreNumbers DEF Cap, UnderReview, Verdicts, DeadEnds,
       TypeOK, Handlers
  <2> QED
    BY <1>5, <2>2, <2>3, <2>4 DEF Cap
<1> QED
  BY <1>1, <1>2, <1>3, <1>4, <1>5

LEMMA HandlerFlow ==
  ASSUME TypeOK, StepInv, ReviewInv, FlowInv, NEW h \in Handlers, HandlerStep(h)
  PROVE  FlowStep
<1> USE DEF Goto, After, TypeOK, workVars, reviewVars, familyVars, rowVars, UnderReview, Verdicts,
            DeadEnds, Handlers
<1>1. CASE InsertReplan(h)
  BY <1>1, FlowKept, ReviewsAreNumbers DEF InsertReplan
<1>2. CASE FindReplan(h) /\ UNCHANGED status
  BY <1>2, FlowKept, ReviewsAreNumbers DEF FindReplan
<1>3. CASE FindReplan(h) /\ status' # status /\ ~calm
  BY <1>3, FlowUpset DEF FindReplan
<1>4. CASE FindReplan(h) /\ status' # status /\ calm
  <2>1. /\ step[h] = "find" /\ step' = [step EXCEPT ![h] = After(h)]
        /\ status' = "unresolvable"
        /\ UNCHANGED <<kind, version, passed, calm, work, review, decisions, answering>>
    BY <1>4 DEF FindReplan
  <2>2. GivenUp /\ InReview /\ DeadEnded /\ OneWay
    BY <1>4, <2>1 DEF FlowInv, OneWay
  <2>3. (\A w \in Workers : work[w] = "idle") /\ \A r \in Reviews : ~UnderReview(r)
    BY <2>2 DEF InReview, GivenUp
  <2>4. InReview' /\ DeadEnded' /\ OneWay'
    BY <1>4, <2>1, <2>2, <2>3, ReviewsAreNumbers DEF InReview, DeadEnded, OneWay, GivenUp, Quiet,
       Executing
  <2>5. UNCHANGED Work!vars
    BY <1>4, <2>1, <2>2, Stages DEF Work!vars, GivenUp
  <2> QED
    BY <2>4, <2>5 DEF FlowInv, FlowStep
<1> QED
  BY <1>1, <1>2, <1>3, <1>4 DEF HandlerStep, FindReplan

LEMMA WatchdogFlow ==
  ASSUME TypeOK, StepInv, ReviewInv, FlowInv,
         FindDeadEnd \/ FindBlocked \/ WatchdogFails \/ WatchdogReleases
  PROVE  FlowStep
<1> USE DEF Goto, TypeOK, workVars, reviewVars, familyVars, rowVars
<1>0. Watchdog \in Handlers /\ Watchdog \notin Reviews
  BY ReviewsAreNumbers DEF Handlers
<1>1. \A r \in Reviews : step'[r] = step[r]
  BY <1>0 DEF FindDeadEnd, FindBlocked, WatchdogFails, WatchdogReleases, Handlers
<1>2. /\ UNCHANGED <<kind, version, passed, work, review, decisions, answering>>
      /\ (\A r \in Reviews : UnderReview(r)' <=> UnderReview(r)) /\ DeadEnds' = DeadEnds
  BY <1>1 DEF FindDeadEnd, FindBlocked, WatchdogFails, WatchdogReleases, UnderReview, DeadEnds
<1>3. Quiet' <=> Quiet
  BY <1>2 DEF Quiet, Executing
<1>4. CASE ~calm /\ calm' = FALSE
  BY <1>4, FlowUpset
<1>5. CASE calm /\ FindDeadEnd
  <2>1. /\ kind = "goal" /\ status = "in_review" /\ DeadEnds # {} /\ UNCHANGED <<status, calm>>
        /\ step' = [step EXCEPT ![Watchdog] = "fail"]
    BY <1>5 DEF FindDeadEnd
  <2>2. InReview' /\ DeadEnded' /\ OneWay'
    BY <1>0, <1>1, <1>2, <1>3, <1>5, <2>1 DEF InReview, DeadEnded, OneWay, FlowInv, GivenUp
  <2> QED
    BY <1>2, <2>1, <2>2 DEF FlowInv, Work!vars, FlowStep
<1>6. CASE calm /\ FindBlocked
  <2>1. /\ status = "blocked" /\ UNCHANGED <<status, calm>>
        /\ step' = [step EXCEPT ![Watchdog] = IF kind = "goal" THEN "fail" ELSE "release"]
    BY <1>6 DEF FindBlocked
  <2>2. Quiet
    BY <1>6, <2>1 DEF ReviewInv, HeldByNobody
  <2>3. InReview' /\ DeadEnded' /\ OneWay'
    BY <1>0, <1>1, <1>2, <1>3, <1>6, <2>1, <2>2 DEF InReview, DeadEnded, OneWay, FlowInv, GivenUp
  <2> QED
    BY <1>2, <2>1, <2>3 DEF FlowInv, Work!vars, FlowStep
<1>7. CASE calm /\ WatchdogFails
  <2>1. /\ step[Watchdog] = "fail" /\ status' = "failed" /\ UNCHANGED calm
        /\ step' = [step EXCEPT ![Watchdog] = "find"]
    BY <1>7 DEF WatchdogFails
  <2>2. Quiet /\ (status \in {"in_review", "blocked"} \/ GivenUp)
    BY <1>7, <2>1 DEF FlowInv, OneWay
  <2>3. InReview' /\ DeadEnded' /\ OneWay'
    BY <1>0, <1>1, <1>2, <1>3, <1>7, <2>1, <2>2 DEF InReview, DeadEnded, OneWay, FlowInv,
       GivenUp, Quiet, Executing
  <2>4. StageOf(status') = "dropped" /\ UNCHANGED <<version, passed, calm>>
    BY <1>2, <2>1, Stages
  <2>5. CASE GivenUp
    <3>1. StageOf(status) = "dropped"
      BY <2>5, Stages DEF GivenUp
    <3> QED
      BY <2>3, <2>4, <3>1 DEF FlowInv, Work!vars, FlowStep
  <2>6. CASE status \in {"in_review", "blocked"}
    <3>1. StageOf(status) \in {"judging", "asked"}
      BY <2>6, Stages
    <3> QED
      BY <1>7, <2>3, <2>4, <3>1 DEF FlowInv, Work!Next, Work!Return, Work!Resume, Work!Goes, FlowStep
  <2> QED
    BY <2>2, <2>5, <2>6
<1>8. CASE calm /\ WatchdogReleases /\ status # "blocked"
  BY <1>8, FlowUpset DEF WatchdogReleases
<1>9. CASE calm /\ WatchdogReleases /\ status = "blocked"
  <2>1. /\ status' \in {"pending", "unresolvable"} /\ calm'
        /\ step[Watchdog] = "release" /\ step' = [step EXCEPT ![Watchdog] = "idle"]
    BY <1>9, ReleaseType DEF WatchdogReleases
  <2>2. Quiet' /\ DeadEnds' = {}
    BY <1>2, <1>3, <1>9 DEF ReviewInv, HeldByNobody, FlowInv, DeadEnded, GivenUp
  <2>3. \A h \in Handlers : step'[h] \notin {"find", "insert"}
    BY <1>9, <2>1 DEF FlowInv, OneWay, GivenUp
  <2>4. FlowInv'
    BY <1>0, <1>2, <1>9, <2>1, <2>2, <2>3, FlowFree DEF FlowInv, OneWay
  <2>5. Work!Resume
    BY <1>2, <1>9, <2>1, Stages DEF Work!Resume, Work!Goes
  <2> QED
    BY <1>9, <2>1, <2>4, <2>5 DEF Work!Next, FlowStep
<1> QED
  BY <1>4, <1>5, <1>6, <1>7, <1>8, <1>9 DEF FindDeadEnd, FindBlocked, WatchdogFails, WatchdogReleases

LEMMA OutsideFlow ==
  ASSUME TypeOK, StepInv, ReviewInv, FlowInv,
         Overrun \/ ReplanEnds \/ Answer \/ ApplyAnswer \/ Crash \/ Rest
  PROVE  FlowStep
<1> USE DEF rowVars, workVars, reviewVars, stepVars, UnderReview, DeadEnds
<1>1. CASE Overrun \/ Crash
  BY <1>1, FaultType, FlowUpset DEF Overrun, Crash
<1>2. CASE ReplanEnds \/ Rest
  BY <1>2, FlowKept DEF ReplanEnds, Rest, vars
<1>3. CASE ~calm /\ (Answer \/ ApplyAnswer)
  BY <1>3, FlowUpset DEF Answer, ApplyAnswer, TypeOK
<1>4. CASE calm /\ Answer
  <2>1. kind = "direct"
    <3>1. decisions > 0 /\ (kind = "goal" => decisions = 0)
      BY <1>4 DEF Answer, FlowInv, OneWay
    <3> QED
      BY <3>1, ReviewAssumption DEF TypeOK
  <2> QED
    BY <1>4, <2>1, FlowKept DEF Answer
<1>5. CASE calm /\ ApplyAnswer
  <2>1. kind = "direct" /\ UNCHANGED <<kind, version, passed, calm, work, review, step>>
    <3>1. answering > 0 /\ (kind = "goal" => answering = 0)
      BY <1>5 DEF ApplyAnswer, FlowInv, OneWay
    <3> QED
      BY <1>5, <3>1, ReviewAssumption DEF TypeOK, ApplyAnswer
  <2>2. CASE UNCHANGED status
    BY <2>1, <2>2, FlowKept
  <2>3. CASE status = "blocked" /\ status' \in {"pending", "cancelled"}
    <3>1. Quiet /\ DeadEnds = {} /\ OneWay /\ ~GivenUp
      BY <1>5, <2>3 DEF ReviewInv, HeldByNobody, FlowInv, DeadEnded, GivenUp
    <3>2. FlowInv'
      BY <2>1, <3>1, FlowFree DEF OneWay, Quiet, Executing
    <3>3. Work!Resume
      BY <2>1, <2>3, Stages DEF Work!Resume, Work!Goes
    <3> QED
      BY <1>5, <2>1, <3>2, <3>3 DEF Work!Next, FlowStep
  <2> QED
    BY <1>5, <2>2, <2>3 DEF ApplyAnswer
<1> QED
  BY <1>1, <1>2, <1>3, <1>4, <1>5

(* To the rest of the system quality review is one thing after the other:  *)
(* a deliverable is made, judged, and accepted, returned or put to the     *)
(* owner, and a task that is done or given up is left alone. The watchdog, *)
(* the replan and the owner's answer write the same row from lists that    *)
(* may be old; as long as all is calm, they find the row they have seen.   *)
THEOREM WorkHolds == Spec => WorkImplemented
<1> DEFINE Inv == TypeOK /\ StepInv /\ ReviewInv /\ FlowInv
<1>1. Init => Inv /\ Work!Init
  BY ReviewTypeInit, ReviewInvInit, FlowInit
<1>2. Inv /\ [Next]_vars => Inv' /\ [Work!Next]_(Work!vars)
  <2> SUFFICES ASSUME Inv, [Next]_vars PROVE FlowStep
    BY ReviewTypeStep, ReviewInvStep DEF FlowStep
  <2>1. CASE UNCHANGED vars
    BY <2>1, FlowKept DEF vars, UnderReview, DeadEnds
  <2>2. ASSUME NEW w \in Workers, Claim(w) \/ WorkEnds(w) \/ Submit(w) PROVE FlowStep
    BY <2>2, WorkFlow
  <2>3. ASSUME NEW r \in Reviews, ReviewClaim(r) \/ ReviewEnds(r) \/ VerdictStep(r) \/ Revive(r)
        PROVE  FlowStep
    BY <2>3, ReviewFlow, VerdictFlow, HandlerFlow DEF VerdictStep, Handlers
  <2>4. CASE Overrun \/ ReplanEnds \/ FindDeadEnd \/ FindBlocked \/ WatchdogStep
              \/ Answer \/ ApplyAnswer \/ Crash \/ Rest
    BY <2>4, WatchdogFlow, OutsideFlow, HandlerFlow DEF WatchdogStep, Handlers
  <2> QED
    BY <2>1, <2>2, <2>3, <2>4 DEF Next
<1> QED
  BY <1>1, <1>2, PTL DEF Spec, WorkImplemented, Work!Spec
==============================================================================
