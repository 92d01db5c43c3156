-------------------------- MODULE FailureFlowProofs --------------------------
(***************************************************************************)
(* Theorems about FailureFlow, for every number of executions, watchdogs,  *)
(* doctor tasks, crashes, cancellations, interruptions and refused claims  *)
(* and every limit.                                                        *)
(***************************************************************************)
EXTENDS FailureFlow, FiniteSetTheorems, TLAPS

LEMMA HandlersFinite == IsFiniteSet(Handlers)
  BY FailureAssumption, FS_Union DEF Handlers

-----------------------------------------------------------------------------
(* TypeOK is inductive on its own.                                         *)

LEMMA FlowTypeInit == Init => TypeOK
<1> SUFFICES ASSUME Init PROVE TypeOK
  OBVIOUS
<1>1. upsets \in 0..MaxUpsets
  BY FailureAssumption DEF Init
<1> QED
  BY <1>1 DEF Init, TypeOK, Statuses, HandlerSteps, DoctorSteps

LEMMA RunType ==
  ASSUME TypeOK, NEW h \in Handlers,
         \/ Claim(h) \/ Succeed(h) \/ (\E c \in Categories : Report(h, c))
         \/ FindStuck(h) \/ FindBlocked(h) \/ Interrupt(h) \/ Refuse(h)
  PROVE  TypeOK'
<1> USE DEF TypeOK, Goto, Statuses, HandlerSteps, famVars, splitVars, restVars, taskVars
<1>1. CASE Claim(h)
  BY <1>1 DEF Claim
<1>2. CASE Succeed(h)
  BY <1>2 DEF Succeed
<1>3. ASSUME NEW c \in Categories, Report(h, c) PROVE TypeOK'
  BY <1>3, FailureAssumption DEF Report
<1>4. CASE FindStuck(h)
  BY <1>4 DEF FindStuck
<1>5. CASE FindBlocked(h)
  BY <1>5 DEF FindBlocked
<1>6. CASE Interrupt(h)
  <2>1. upsets' \in 0..MaxUpsets
    BY <1>6, FailureAssumption DEF Interrupt
  <2> QED
    BY <1>6, <2>1 DEF Interrupt, BlockTask, BlockAs
<1>7. CASE Refuse(h)
  <2>1. upsets' \in 0..MaxUpsets
    BY <1>7, FailureAssumption DEF Refuse
  <2> QED
    BY <1>7, <2>1 DEF Refuse, BlockTask, BlockAs
<1> QED
  BY <1>1, <1>2, <1>3, <1>4, <1>5, <1>6, <1>7

LEMMA HandlerType ==
  ASSUME TypeOK, NEW h \in Handlers, HandlerStep(h)
  PROVE  TypeOK'
<1> USE DEF TypeOK, Goto, Statuses, HandlerSteps, famVars, splitVars, restVars, taskVars
<1>1. CASE Read(h)
  <2>1. NextStep(h) \in HandlerSteps
    BY DEF NextStep
  <2> QED
    BY <1>1, <2>1 DEF Read
<1>2. CASE Retry(h)
  BY <1>2 DEF Retry, CountRetry
<1>3. CASE GiveUp(h)
  BY <1>3 DEF GiveUp
<1>4. CASE Budget(h)
  BY <1>4 DEF Budget
<1>5. CASE Fail(h)
  BY <1>5 DEF Fail
<1>6. CASE FindDoctor(h)
  BY <1>6 DEF FindDoctor
<1>7. CASE InsertDoctor(h)
  <2>1. PICK d \in Doctors \ Created :
          /\ doctor' = [doctor EXCEPT ![d] = "pending"] /\ fallback' = fallback
    BY <1>7 DEF InsertDoctor, NewDoctor, NextDoctor
  <2> QED
    BY <1>7, <2>1 DEF InsertDoctor, DoctorSteps
<1>8. CASE Block(h)
  BY <1>8 DEF Block, BlockTask, BlockAs
<1>9. CASE FindRepair(h)
  BY <1>9 DEF FindRepair
<1>10. CASE InsertRepair(h)
  BY <1>10 DEF InsertRepair
<1> QED
  BY <1>1, <1>2, <1>3, <1>4, <1>5, <1>6, <1>7, <1>8, <1>9, <1>10 DEF HandlerStep

LEMMA DiagnoseType ==
  ASSUME TypeOK, NEW d \in Doctors, DoctorClaim(d) \/ Diagnose(d)
  PROVE  TypeOK'
<1> USE DEF TypeOK, Become, Statuses, DoctorSteps, Working, splitVars, restVars, taskVars
<1>1. CASE DoctorClaim(d)
  BY <1>1 DEF DoctorClaim
<1>2. CASE Rework(d)
  BY <1>2 DEF Rework
<1>3. CASE ToGoal(d)
  BY <1>3 DEF ToGoal
<1>4. CASE Malformed(d)
  BY <1>4 DEF Malformed
<1>5. ASSUME NEW diagnosis, NEW step \in {"escalating", "splitting", "fixing"},
             NEW ok, Ask(d, diagnosis, step, ok)
      PROVE  TypeOK'
  BY <1>5 DEF Ask
<1>6. CASE AskBudget(d)
  BY <1>5, <1>6 DEF AskBudget
<1>7. CASE LegacyRead(d)
  BY <1>7 DEF LegacyRead
<1>8. CASE DoctorFails(d)
  BY <1>8 DEF DoctorFails
<1> QED
  BY <1>1, <1>2, <1>3, <1>4, <1>6, <1>7, <1>8 DEF Diagnose

LEMMA DoctorType ==
  ASSUME TypeOK, NEW d \in Doctors, DoctorStep(d)
  PROVE  TypeOK'
<1> USE DEF TypeOK, Become, Statuses, DoctorSteps, Working, splitVars, restVars, taskVars
<1>1. CASE Escalate(d)
  BY <1>1 DEF Escalate
<1>2. CASE Decide(d)
  BY <1>2 DEF Decide
<1>3. CASE Split(d)
  BY <1>3, FailureAssumption DEF Split
<1>4. CASE Spawn(d)
  <2>1. left[d] - 1 \in Nat
    BY <1>4 DEF Spawn
  <2> QED
    BY <1>4, <2>1 DEF Spawn
<1>5. CASE FixInsert(d)
  BY <1>5 DEF FixInsert
<1>6. CASE FixBlock(d)
  BY <1>6 DEF FixBlock, BlockTask, BlockAs
<1>7. CASE LegacyRetry(d)
  BY <1>7 DEF LegacyRetry
<1>8. CASE Close(d)
  BY <1>8 DEF Close
<1>9. CASE FindFallback(d)
  BY <1>9 DEF FindFallback
<1>10. CASE InsertFallback(d)
  BY <1>10 DEF InsertFallback, NextDoctor
<1> QED
  BY <1>1, <1>2, <1>3, <1>4, <1>5, <1>6, <1>7, <1>8, <1>9, <1>10 DEF DoctorStep

LEMMA OtherType ==
  ASSUME TypeOK,
         \/ RepairEnds \/ Resume \/ DiskRecover \/ CloseGuard
         \/ CancelCheck \/ CancelWrite \/ Crash
  PROVE  TypeOK'
<1> USE DEF TypeOK, Statuses, famVars, splitVars, restVars, taskVars
<1>1. CASE RepairEnds
  BY <1>1 DEF RepairEnds
<1>2. CASE Resume
  BY <1>2 DEF Resume
<1>3. CASE CancelCheck
  <2>1. upsets' \in 0..MaxUpsets
    BY <1>3, FailureAssumption DEF CancelCheck
  <2> QED
    BY <1>3, <2>1 DEF CancelCheck
<1>4. CASE CancelWrite
  BY <1>4 DEF CancelWrite
<1>5. CASE Crash
  <2>1. upsets' \in 0..MaxUpsets
    BY <1>5, FailureAssumption DEF Crash
  <2>2. at' \in [Handlers -> HandlerSteps] /\ cat' \in [Handlers -> {"retry", "agent", "env"}]
    BY <1>5 DEF Crash, HandlerSteps
  <2>3. doctor' \in [Doctors -> DoctorSteps]
    BY <1>5 DEF Crash, DoctorSteps
  <2> QED
    BY <1>5, <2>1, <2>2, <2>3 DEF Crash
<1>6. CASE DiskRecover
  BY <1>6 DEF DiskRecover
<1>7. CASE CloseGuard
  BY <1>7 DEF CloseGuard
<1> QED
  BY <1>1, <1>2, <1>3, <1>4, <1>5, <1>6, <1>7

(* The rows, the handlers' and doctors' steps and the counters keep their  *)
(* types: retry_count never goes below zero.                               *)
THEOREM FlowTypeCorrect == Spec => []TypeOK
<1>1. TypeOK /\ [Next]_vars => TypeOK'
  <2> SUFFICES ASSUME TypeOK, [Next]_vars PROVE TypeOK'
    OBVIOUS
  <2>1. CASE Next
    BY <2>1, RunType, HandlerType, DiagnoseType, DoctorType, OtherType
       DEF Next, RunEnds, Rest, AtRest, vars, TypeOK
  <2>2. CASE UNCHANGED vars
    BY <2>2 DEF vars, TypeOK
  <2> QED
    BY <2>1, <2>2
<1> QED
  BY <1>1, FlowTypeInit, PTL DEF Spec

-----------------------------------------------------------------------------
(* RetryBound is inductive, given that legacy retries need the legacy      *)
(* diagnosis.                                                              *)

NoStrayLegacy == "legacy" \notin Diagnoses => LegacyRetrying = {}

RetryInv == TypeOK /\ NoStrayLegacy /\ RetryBound

LEMMA CountersFinite ==
  /\ IsFiniteSet(Releasing) /\ Cardinality(Releasing) \in Nat
  /\ Cardinality(Releasing) <= Cardinality(Handlers)
  /\ IsFiniteSet(LegacyRetrying) /\ Cardinality(LegacyRetrying) \in Nat
  /\ Cardinality(LegacyRetrying) <= Cardinality(Doctors)
  /\ Cardinality(Handlers) \in Nat /\ Cardinality(Doctors) \in Nat
  /\ Incrementers \in Nat /\ RetryLimit \in Nat /\ MaxRetries <= RetryLimit
  /\ "legacy" \in Diagnoses => LegacyRetries <= RetryLimit
  /\ MaxRetries \in Nat /\ LegacyRetries \in Nat
<1>1. Releasing \subseteq Handlers /\ LegacyRetrying \subseteq Doctors
  BY DEF Releasing, LegacyRetrying
<1>2. Cardinality(Handlers) \in Nat /\ Cardinality(Doctors) \in Nat
  BY HandlersFinite, FailureAssumption, FS_CardinalityType
<1> QED
  BY <1>1, <1>2, HandlersFinite, FailureAssumption, FS_Subset, FS_CardinalityType
     DEF Incrementers, RetryLimit

(* Whoever may count in the next state, the counter was below the limit.   *)
LEMMA PrimedBound ==
  ASSUME NoStrayLegacy', retries' \in Nat, retries' < RetryLimit
  PROVE  RetryBound'
<1>1. /\ Cardinality(Releasing') \in Nat
      /\ Cardinality(Releasing') <= Cardinality(Handlers)
      /\ Cardinality(LegacyRetrying') \in Nat
      /\ Cardinality(LegacyRetrying') <= Cardinality(Doctors)
  <2>1. Releasing' \subseteq Handlers /\ LegacyRetrying' \subseteq Doctors
    BY DEF Releasing, LegacyRetrying, Handlers
  <2> QED
    BY <2>1, HandlersFinite, FailureAssumption, FS_Subset, FS_CardinalityType
<1>2. CASE "legacy" \in Diagnoses
  BY <1>1, <1>2, CountersFinite DEF RetryBound, RetryLimit, Incrementers, Handlers
<1>3. CASE "legacy" \notin Diagnoses
  <2>1. Cardinality(LegacyRetrying') = 0
    BY <1>3, FS_EmptySet DEF NoStrayLegacy
  <2> QED
    BY <1>1, <1>3, <2>1, CountersFinite DEF RetryBound, RetryLimit, Incrementers, Handlers
<1> QED
  BY <1>2, <1>3

(* A step that counts nothing and after which nobody new may count.        *)
LEMMA RetriesKept ==
  ASSUME RetryInv, retries' \in Nat, retries' <= retries,
         Releasing' \subseteq Releasing, LegacyRetrying' \subseteq LegacyRetrying
  PROVE  NoStrayLegacy' /\ RetryBound'
<1>1. NoStrayLegacy'
  BY DEF RetryInv, NoStrayLegacy
<1>2. /\ Cardinality(Releasing') <= Cardinality(Releasing)
      /\ Cardinality(LegacyRetrying') <= Cardinality(LegacyRetrying)
      /\ Cardinality(Releasing') \in Nat /\ Cardinality(LegacyRetrying') \in Nat
  BY CountersFinite, FS_Subset, FS_CardinalityType
<1>3. Incrementers' = Incrementers /\ RetryLimit' = RetryLimit
  BY DEF Incrementers, RetryLimit
<1> QED
  BY <1>1, <1>2, <1>3, CountersFinite DEF RetryInv, RetryBound, TypeOK

LEMMA HandlerRetries ==
  ASSUME RetryInv, TypeOK', NEW h \in Handlers,
         Claim(h) \/ RunEnds(h) \/ FindStuck(h) \/ FindBlocked(h) \/ HandlerStep(h)
  PROVE  NoStrayLegacy' /\ RetryBound'
<1> USE DEF RetryInv
<1>1. LegacyRetrying' \subseteq LegacyRetrying
  BY DEF LegacyRetrying, TypeOK, Claim, RunEnds, Succeed, Report, Interrupt,
         Refuse, FindStuck, FindBlocked, HandlerStep, Read, Retry, GiveUp, Budget, Fail, FindDoctor,
         InsertDoctor, NewDoctor, Block, FindRepair, InsertRepair, famVars
<1>2. CASE Read(h)
  <2>1. retries' = retries /\ at' = [at EXCEPT ![h] = NextStep(h)]
    BY <1>2 DEF Read, Goto, taskVars
  <2>2. CASE NextStep(h) = "retry"
    <3>1. retries < MaxRetries
      BY <2>2 DEF NextStep, HasRetry
    <3>2. retries' \in Nat /\ retries' < RetryLimit
      BY <2>1, <3>1, CountersFinite DEF TypeOK
    <3>3. NoStrayLegacy'
      BY <1>1 DEF NoStrayLegacy
    <3> QED
      BY <3>2, <3>3, PrimedBound
  <2>3. CASE NextStep(h) # "retry"
    <3>1. Releasing' \subseteq Releasing
      BY <2>1, <2>3 DEF Releasing, TypeOK
    <3> QED
      BY <1>1, <2>1, <3>1, RetriesKept DEF TypeOK
  <2> QED
    BY <2>2, <2>3
<1>3. CASE Retry(h)
  <2>1. /\ retries' = retries + 1 /\ h \in Releasing
        /\ Releasing' = Releasing \ {h}
    BY <1>3 DEF Retry, CountRetry, Goto, Releasing, TypeOK
  <2>2. /\ Cardinality(Releasing') = Cardinality(Releasing) - 1
        /\ Cardinality(Releasing') \in Nat
    BY <2>1, CountersFinite, FS_RemoveElement, FS_CardinalityType
  <2>3. /\ Cardinality(LegacyRetrying') <= Cardinality(LegacyRetrying)
        /\ Cardinality(LegacyRetrying') \in Nat
    BY <1>1, CountersFinite, FS_Subset, FS_CardinalityType
  <2>4. Incrementers' = Incrementers /\ RetryLimit' = RetryLimit
    BY DEF Incrementers, RetryLimit
  <2>5. RetryBound'
    BY <2>1, <2>2, <2>3, <2>4, CountersFinite DEF RetryBound, TypeOK
  <2> QED
    BY <1>1, <2>5 DEF NoStrayLegacy
<1>4. CASE ~Read(h) /\ ~Retry(h)
  <2>1. retries' = retries
    BY <1>4 DEF Claim, RunEnds, Succeed, Report, Interrupt, Refuse, FindStuck, FindBlocked,
         HandlerStep, GiveUp, Budget, Fail, FindDoctor, InsertDoctor, Block,
         FindRepair, InsertRepair, taskVars
  <2>2. Releasing' \subseteq Releasing
    <3>1. PICK step \in HandlerSteps \ {"retry"} : at' = [at EXCEPT ![h] = step]
      BY <1>4 DEF Claim, RunEnds, Succeed, Report, Interrupt, Refuse, FindStuck, FindBlocked,
         HandlerStep, GiveUp, Budget, Fail, FindDoctor, InsertDoctor, Block,
         FindRepair, InsertRepair, Goto, HandlerSteps
    <3> QED
      BY <3>1 DEF Releasing, TypeOK
  <2> QED
    BY <1>1, <2>1, <2>2, RetriesKept DEF TypeOK
<1> QED
  BY <1>2, <1>3, <1>4

LEMMA DoctorRetries ==
  ASSUME RetryInv, TypeOK', NEW d \in Doctors,
         DoctorClaim(d) \/ Diagnose(d) \/ DoctorStep(d)
  PROVE  NoStrayLegacy' /\ RetryBound'
<1> USE DEF RetryInv
<1>1. Releasing' = Releasing
  BY DEF Releasing, DoctorClaim, Diagnose, DoctorStep, Rework, ToGoal, Malformed,
         AskBudget, Ask, LegacyRead, DoctorFails, Escalate, Decide, Split, Spawn,
         FixInsert, FixBlock, LegacyRetry, Close, FindFallback, InsertFallback
<1>2. CASE LegacyRead(d) /\ doctor' = [doctor EXCEPT ![d] = "retrying"]
           /\ retries < LegacyRetries
  <2>1. retries' \in Nat /\ retries' < RetryLimit
    BY <1>2, CountersFinite DEF LegacyRead, taskVars, TypeOK
  <2>2. NoStrayLegacy'
    BY <1>2 DEF LegacyRead, NoStrayLegacy
  <2> QED
    BY <2>1, <2>2, PrimedBound
<1>3. CASE LegacyRetry(d)
  <2>1. /\ retries' = retries + 1 /\ d \in LegacyRetrying
        /\ LegacyRetrying' = LegacyRetrying \ {d}
    BY <1>3 DEF LegacyRetry, Become, LegacyRetrying, TypeOK
  <2>2. /\ Cardinality(LegacyRetrying') = Cardinality(LegacyRetrying) - 1
        /\ Cardinality(LegacyRetrying') \in Nat
    BY <2>1, CountersFinite, FS_RemoveElement, FS_CardinalityType
  <2>3. Incrementers' = Incrementers /\ RetryLimit' = RetryLimit
    BY DEF Incrementers, RetryLimit
  <2>4. RetryBound'
    BY <1>1, <2>1, <2>2, <2>3, CountersFinite DEF RetryBound, TypeOK
  <2> QED
    BY <2>1, <2>4 DEF NoStrayLegacy
<1>4. CASE ~LegacyRetry(d) /\ ~(LegacyRead(d) /\ retries < LegacyRetries
                                /\ doctor' = [doctor EXCEPT ![d] = "retrying"])
  <2>1. retries' \in Nat /\ retries' <= retries
    <3>1. retries' = retries \/ retries' = 0
      BY <1>4 DEF DoctorClaim, Diagnose, DoctorStep, Rework, ToGoal, Malformed,
         AskBudget, Ask, LegacyRead, DoctorFails, Escalate, Decide, Split, Spawn,
         FixInsert, FixBlock, Close, FindFallback, InsertFallback, taskVars
    <3> QED
      BY <3>1 DEF TypeOK
  <2>2. LegacyRetrying' \subseteq LegacyRetrying
    <3>1. CASE InsertFallback(d)
      BY <3>1 DEF InsertFallback, LegacyRetrying, TypeOK
    <3>2. CASE \E step : step # "retrying" /\ doctor' = [doctor EXCEPT ![d] = step]
      BY <3>2 DEF LegacyRetrying, TypeOK
    <3>3. InsertFallback(d) \/
            \E step : step # "retrying" /\ doctor' = [doctor EXCEPT ![d] = step]
      BY <1>4 DEF DoctorClaim, Diagnose, DoctorStep, Rework, ToGoal, Malformed,
         AskBudget, Ask, LegacyRead, DoctorFails, Escalate, Decide, Split,
         Spawn, FixInsert, FixBlock, Close, FindFallback, Become
    <3> QED
      BY <3>1, <3>2, <3>3
  <2> QED
    BY <1>1, <2>1, <2>2, RetriesKept
<1> QED
  BY <1>2, <1>3, <1>4

LEMMA OtherRetries ==
  ASSUME RetryInv,
         \/ RepairEnds \/ Resume \/ DiskRecover \/ CloseGuard
         \/ CancelCheck \/ CancelWrite \/ Crash
  PROVE  NoStrayLegacy' /\ RetryBound'
<1>1. retries' = retries
  BY DEF RepairEnds, Resume, DiskRecover, CloseGuard, CancelCheck, CancelWrite,
         Crash, taskVars
<1>2. Releasing' \subseteq Releasing
  BY DEF RetryInv, TypeOK, Releasing, RepairEnds, Resume, DiskRecover, CloseGuard,
         CancelCheck, CancelWrite, Crash
<1>3. LegacyRetrying' \subseteq LegacyRetrying
  BY DEF RetryInv, TypeOK, LegacyRetrying, RepairEnds, Resume, DiskRecover,
         CloseGuard, CancelCheck, CancelWrite, Crash, famVars, Working
<1> QED
  BY <1>1, <1>2, <1>3, RetriesKept DEF RetryInv, TypeOK

(* retry_count overruns its limit, maxRetries or that of the legacy shim,  *)
(* by no more than the failures, and the legacy diagnoses, that are        *)
(* handled at the same time: releaseTask adds to it blindly, after         *)
(* handleTaskFailure's earlier read.                                       *)
THEOREM RetryBoundHolds == Spec => []RetryBound
<1>1. Init => NoStrayLegacy /\ RetryBound
  <2> SUFFICES ASSUME Init PROVE NoStrayLegacy /\ RetryBound
    OBVIOUS
  <2>1. Releasing = {} /\ LegacyRetrying = {} /\ retries = 0
    BY DEF Init, Releasing, LegacyRetrying
  <2>2. Cardinality(Releasing) = 0 /\ Cardinality(LegacyRetrying) = 0
    BY <2>1, FS_EmptySet
  <2>3. Handlers # {}
    BY FailureAssumption DEF Handlers
  <2>4. Cardinality(Handlers) >= 1
    BY <2>3, HandlersFinite, FS_EmptySet, FS_CardinalityType
  <2> QED
    BY <2>1, <2>2, <2>4, CountersFinite DEF NoStrayLegacy, RetryBound, Incrementers
<1>2. TypeOK' /\ RetryInv /\ [Next]_vars => NoStrayLegacy' /\ RetryBound'
  <2> SUFFICES ASSUME TypeOK', RetryInv, [Next]_vars
               PROVE  NoStrayLegacy' /\ RetryBound'
    OBVIOUS
  <2>1. CASE UNCHANGED vars
    BY <2>1, RetriesKept DEF vars, RetryInv, TypeOK, Releasing, LegacyRetrying
  <2>2. CASE Next
    BY <2>1, <2>2, HandlerRetries, DoctorRetries, OtherRetries DEF Next, Rest
  <2> QED
    BY <2>1, <2>2
<1> QED
  BY <1>1, <1>2, FlowTypeCorrect, PTL DEF Spec, RetryInv

-----------------------------------------------------------------------------
(* DoctorBound is inductive, given that the watchdog reports nothing that  *)
(* asks for a doctor.                                                      *)

WatchdogRetries ==
  \A h \in Watchdogs :
    /\ cat[h] = "retry"
    /\ at[h] \in {"idle", "read", "retry", "giveup"}

FamilyInv == TypeOK /\ WatchdogRetries /\ DoctorBound

Counted == Created \ fallback

LEMMA FamilyFinite ==
  /\ IsFiniteSet(Counted) /\ Cardinality(Counted) \in Nat
  /\ IsFiniteSet(DoctorsOnTheWay) /\ Cardinality(DoctorsOnTheWay) \in Nat
  /\ Cardinality(Executors) \in Nat /\ DoctorLimit \in Nat
<1>1. Counted \subseteq Doctors /\ DoctorsOnTheWay \subseteq Executors
  BY DEF Counted, Created, DoctorsOnTheWay
<1> QED
  BY <1>1, FailureAssumption, FS_Subset, FS_CardinalityType

(* A step that adds neither a counted doctor nor one on its way.           *)
LEMMA DoctorsKept ==
  ASSUME FamilyInv, Counted' \subseteq Counted,
         DoctorsOnTheWay' \subseteq DoctorsOnTheWay
  PROVE  DoctorBound'
<1>1. /\ Cardinality(Counted') <= Cardinality(Counted)
      /\ Cardinality(DoctorsOnTheWay') <= Cardinality(DoctorsOnTheWay)
      /\ Cardinality(Counted') \in Nat /\ Cardinality(DoctorsOnTheWay') \in Nat
  BY FamilyFinite, FS_Subset, FS_CardinalityType
<1> QED
  BY <1>1, FamilyFinite DEF FamilyInv, DoctorBound, Counted

(* The budget has room: whatever is on its way fits.                       *)
LEMMA BudgetDoctors ==
  ASSUME FamilyInv, NEW h \in Handlers, Budget(h)
  PROVE  DoctorBound'
<1>1. Counted' = Counted
  BY DEF Budget, famVars, Counted, Created
<1>2. CASE Within(1, 0, 0)
  <2>1. Cardinality(Created) + 1 <= DoctorLimit
    BY <1>2 DEF Within
  <2>2. /\ Cardinality(Counted) <= Cardinality(Created)
        /\ Cardinality(Created) \in Nat
    <3>1. Created \subseteq Doctors /\ Counted \subseteq Created
      BY DEF Created, Counted
    <3> QED
      BY <3>1, FailureAssumption, FS_Subset, FS_CardinalityType
  <2>3. /\ Cardinality(DoctorsOnTheWay') <= Cardinality(Executors)
        /\ Cardinality(DoctorsOnTheWay') \in Nat
    <3>1. DoctorsOnTheWay' \subseteq Executors
      BY DEF DoctorsOnTheWay
    <3> QED
      BY <3>1, FailureAssumption, FS_Subset, FS_CardinalityType
  <2>4. Cardinality(Counted') + Cardinality(DoctorsOnTheWay')
          <= DoctorLimit - 1 + Cardinality(Executors)
    BY <1>1, <2>1, <2>2, <2>3, FamilyFinite
  <2> QED
    BY <2>4 DEF DoctorBound, Counted
<1>3. CASE ~Within(1, 0, 0)
  <2>1. DoctorsOnTheWay' \subseteq DoctorsOnTheWay
    BY <1>3 DEF Budget, Goto, DoctorsOnTheWay, FamilyInv, TypeOK
  <2> QED
    BY <1>1, <2>1, DoctorsKept
<1> QED
  BY <1>2, <1>3

LEMMA InsertDoctors ==
  ASSUME FamilyInv, NEW h \in Handlers, InsertDoctor(h)
  PROVE  DoctorBound'
<1> USE DEF FamilyInv
<1>1. PICK d \in Doctors \ Created :
        /\ doctor' = [doctor EXCEPT ![d] = "pending"] /\ fallback' = fallback
  BY DEF InsertDoctor, NewDoctor, NextDoctor
<1>2. h \in Executors /\ h \in DoctorsOnTheWay
  BY DEF InsertDoctor, WatchdogRetries, Handlers, DoctorsOnTheWay
<1>3. DoctorsOnTheWay' = DoctorsOnTheWay \ {h}
  BY <1>2 DEF InsertDoctor, Goto, DoctorsOnTheWay, TypeOK
<1>4. Counted' \subseteq Counted \cup {d}
  BY <1>1 DEF Counted, Created, TypeOK
<1>5. /\ Cardinality(DoctorsOnTheWay') = Cardinality(DoctorsOnTheWay) - 1
      /\ Cardinality(DoctorsOnTheWay') \in Nat
  BY <1>2, <1>3, FamilyFinite, FS_RemoveElement, FS_CardinalityType
<1>6. /\ Cardinality(Counted') <= Cardinality(Counted) + 1
      /\ Cardinality(Counted') \in Nat
  <2>1. /\ IsFiniteSet(Counted \cup {d})
        /\ Cardinality(Counted \cup {d}) = IF d \in Counted
             THEN Cardinality(Counted) ELSE Cardinality(Counted) + 1
    BY FamilyFinite, FS_AddElement
  <2>2. /\ Cardinality(Counted') <= Cardinality(Counted \cup {d})
        /\ Cardinality(Counted') \in Nat
    BY <1>4, <2>1, FS_Subset, FS_CardinalityType
  <2> QED
    BY <2>1, <2>2, FamilyFinite
<1>7. Cardinality(Counted') + Cardinality(DoctorsOnTheWay')
        <= DoctorLimit - 1 + Cardinality(Executors)
  BY <1>5, <1>6, FamilyFinite DEF DoctorBound, Counted
<1> QED
  BY <1>7 DEF DoctorBound, Counted

LEMMA HandlerDoctors ==
  ASSUME FamilyInv, NEW h \in Handlers,
         Claim(h) \/ RunEnds(h) \/ FindStuck(h) \/ FindBlocked(h) \/ HandlerStep(h)
  PROVE  WatchdogRetries' /\ DoctorBound'
<1> USE DEF FamilyInv
<1>1. WatchdogRetries'
  <2>1. CASE h \notin Watchdogs
    <3>1. \A w \in Watchdogs : cat'[w] = cat[w] /\ at'[w] = at[w]
      BY <2>1 DEF Claim, RunEnds, Succeed, Report, Interrupt, Refuse, FindStuck, FindBlocked,
         HandlerStep, Read, Retry, GiveUp, Budget, Fail, FindDoctor, InsertDoctor,
         Block, FindRepair, InsertRepair, Goto, TypeOK, Handlers
    <3> QED
      BY <3>1 DEF WatchdogRetries
  <2>2. CASE h \in Watchdogs
    <3>1. /\ h \notin Executors /\ cat[h] = "retry"
          /\ at[h] \in {"idle", "read", "retry", "giveup"}
      BY <2>2, FailureAssumption DEF WatchdogRetries
    <3>2. PICK step \in {"idle", "read", "retry", "giveup"} :
            at' = [at EXCEPT ![h] = step]
      BY <3>1 DEF Claim, RunEnds, Succeed, Report, Interrupt, Refuse, FindStuck, FindBlocked,
         HandlerStep, Read, NextStep, Retry, GiveUp, Budget, Fail, FindDoctor,
         InsertDoctor, Block, FindRepair, InsertRepair, Goto
    <3>3. cat' = cat \/ cat' = [cat EXCEPT ![h] = "retry"]
      BY <3>1 DEF Claim, RunEnds, Succeed, Report, Interrupt, Refuse, FindStuck, FindBlocked,
         HandlerStep, Read, Retry, GiveUp, Budget, Fail, FindDoctor,
         InsertDoctor, Block, FindRepair, InsertRepair
    <3> QED
      BY <2>2, <3>2, <3>3 DEF WatchdogRetries, TypeOK, Handlers
  <2> QED
    BY <2>1, <2>2
<1>2. CASE ~Budget(h) /\ ~InsertDoctor(h)
  <2>1. Counted' = Counted
    BY <1>2 DEF Claim, RunEnds, Succeed, Report, Interrupt, Refuse, FindStuck, FindBlocked,
       HandlerStep, Read, Retry, GiveUp, Fail, FindDoctor, Block, FindRepair,
       InsertRepair, famVars, Counted, Created
  <2>2. DoctorsOnTheWay' \subseteq DoctorsOnTheWay
    <3>1. PICK step : /\ at' = [at EXCEPT ![h] = step]
                      /\ step \in {"fail", "find", "insert"} =>
                           at[h] \in {"fail", "find", "insert"}
      BY <1>2 DEF Claim, RunEnds, Succeed, Report, Interrupt, Refuse, FindStuck, FindBlocked,
         HandlerStep, Read, NextStep, Retry, GiveUp, Fail, FindDoctor, Block,
         FindRepair, InsertRepair, Goto
    <3> QED
      BY <3>1 DEF DoctorsOnTheWay, TypeOK
  <2> QED
    BY <1>1, <2>1, <2>2, DoctorsKept
<1>3. CASE Budget(h)
  BY <1>1, <1>3, BudgetDoctors
<1>4. CASE InsertDoctor(h)
  BY <1>1, <1>4, InsertDoctors
<1> QED
  BY <1>2, <1>3, <1>4

LEMMA DiagnosisDoctors ==
  ASSUME FamilyInv, NEW d \in Doctors,
         DoctorClaim(d) \/ Diagnose(d) \/ DoctorStep(d)
  PROVE  WatchdogRetries' /\ DoctorBound'
<1> USE DEF FamilyInv
<1>1. UNCHANGED <<at, cat>>
  BY DEF DoctorClaim, Diagnose, DoctorStep, Rework, ToGoal, Malformed,
     AskBudget, Ask, LegacyRead, DoctorFails, Escalate, Decide, Split, Spawn,
     FixInsert, FixBlock, LegacyRetry, Close, FindFallback, InsertFallback
<1>2. Counted' \subseteq Counted
  <2>1. CASE InsertFallback(d)
    BY <2>1 DEF InsertFallback, Counted, Created, TypeOK
  <2>2. CASE \E step : doctor[d] # "none" /\ fallback' = fallback
                       /\ doctor' = [doctor EXCEPT ![d] = step]
    BY <2>2 DEF Counted, Created, TypeOK
  <2>3. InsertFallback(d) \/
          \E step : doctor[d] # "none" /\ fallback' = fallback
                    /\ doctor' = [doctor EXCEPT ![d] = step]
    BY DEF DoctorClaim, Diagnose, DoctorStep, Rework, ToGoal, Malformed,
       AskBudget, Ask, LegacyRead, DoctorFails, Escalate, Decide, Split, Spawn,
       FixInsert, FixBlock, LegacyRetry, Close, FindFallback, Become
  <2> QED
    BY <2>1, <2>2, <2>3
<1>3. WatchdogRetries' /\ DoctorsOnTheWay' = DoctorsOnTheWay
  BY <1>1 DEF WatchdogRetries, DoctorsOnTheWay
<1> QED
  BY <1>2, <1>3, DoctorsKept

LEMMA OtherDoctors ==
  ASSUME FamilyInv,
         \/ RepairEnds \/ Resume \/ DiskRecover \/ CloseGuard
         \/ CancelCheck \/ CancelWrite \/ Crash
  PROVE  WatchdogRetries' /\ DoctorBound'
<1> USE DEF FamilyInv
<1>1. Counted' \subseteq Counted
  BY DEF RepairEnds, Resume, DiskRecover, CloseGuard, CancelCheck, CancelWrite, Crash,
         famVars, Counted, Created, TypeOK, Working
<1>2. DoctorsOnTheWay' \subseteq DoctorsOnTheWay
  BY DEF RepairEnds, Resume, DiskRecover, CloseGuard, CancelCheck, CancelWrite, Crash,
         DoctorsOnTheWay, Handlers
<1>3. WatchdogRetries'
  BY DEF RepairEnds, Resume, DiskRecover, CloseGuard, CancelCheck, CancelWrite, Crash,
         WatchdogRetries, Handlers, famVars, restVars
<1> QED
  BY <1>1, <1>2, <1>3, DoctorsKept

(* The recovery budget bounds the doctor tasks of a failure family, up to  *)
(* the failures that are handled at the same time: parkTaskIfRecovery-     *)
(* BudgetExceeded counts two statements before createDoctorTask inserts.   *)
THEOREM DoctorBoundHolds == Spec => []DoctorBound
<1>1. Init => WatchdogRetries /\ DoctorBound
  <2> SUFFICES ASSUME Init PROVE WatchdogRetries /\ DoctorBound
    OBVIOUS
  <2>1. Counted = {} /\ DoctorsOnTheWay = {} /\ WatchdogRetries
    BY DEF Init, Counted, Created, DoctorsOnTheWay, WatchdogRetries, Handlers
  <2>2. Cardinality(Counted) = 0 /\ Cardinality(DoctorsOnTheWay) = 0
    BY <2>1, FS_EmptySet
  <2>3. Cardinality(Executors) >= 1
    BY FailureAssumption, FS_EmptySet, FS_CardinalityType
  <2> QED
    BY <2>1, <2>2, <2>3, FamilyFinite DEF DoctorBound, Counted
<1>2. TypeOK' /\ FamilyInv /\ [Next]_vars => FamilyInv'
  <2> SUFFICES ASSUME TypeOK', FamilyInv, [Next]_vars
               PROVE  WatchdogRetries' /\ DoctorBound'
    BY DEF FamilyInv
  <2>1. CASE UNCHANGED vars
    BY <2>1, DoctorsKept
       DEF vars, FamilyInv, Counted, Created, DoctorsOnTheWay, WatchdogRetries
  <2>2. CASE Next
    BY <2>1, <2>2, HandlerDoctors, DiagnosisDoctors, OtherDoctors DEF Next, Rest
  <2> QED
    BY <2>1, <2>2
<1> QED
  BY <1>1, <1>2, FlowTypeCorrect, PTL DEF Spec, FamilyInv
==============================================================================
