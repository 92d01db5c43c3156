------------------------ MODULE ExternalActionProofs ------------------------
(***************************************************************************)
(* Theorems about ExternalAction, for every number of calls, clicks,       *)
(* decisions and faults and every set of policies.                         *)
(***************************************************************************)
EXTENDS ExternalAction, TLAPS

-----------------------------------------------------------------------------
(* Types.                                                                  *)

LEMMA ActionTypeInit == Init => TypeOK
<1> SUFFICES ASSUME Init PROVE TypeOK
  OBVIOUS
<1>1. 0 \in 0..MaxCalls /\ 0 \in 0..MaxFaults
  BY ActionAssumption
<1> QED
  BY <1>1 DEF Init, TypeOK, States, Steps

LEMMA CallerType ==
  ASSUME TypeOK, NEW c \in Callers, Find(c) \/ CallerStep(c)
  PROVE  TypeOK'
<1> USE DEF TypeOK, Goto, States, Steps, Calls, rowVars, histVars, answerVars
<1>1. CASE Find(c)
  BY <1>1, ActionAssumption DEF Find, Starts
<1>2. CASE Insert(c)
  <2>1. state' \in States /\ policy' \in Policies \cup {"none"}
    BY <1>2 DEF Insert, NewRow
  <2>2. link' \in Decisions \cup {None}
        /\ decision' \in [Decisions -> {"none", "open", "approved", "rejected", "closed"}]
    BY <1>2 DEF Insert, OpenDecision
  <2>3. step' \in [Calls -> Steps] /\ said' \subseteq Policies
    BY <1>2 DEF Insert
  <2> QED
    BY <1>2, <2>1, <2>2, <2>3 DEF Insert
<1>3. CASE Link(c)
  BY <1>3 DEF Link, OpenDecision
<1> QED
  BY <1>1, <1>2, <1>3 DEF CallerStep

LEMMA OwnerType ==
  ASSUME TypeOK, NEW o \in Owners, Respond(o) \/ OwnerStep(o)
  PROVE  TypeOK'
<1> USE DEF TypeOK, Goto, States, Steps, Calls, rowVars, histVars, answerVars
<1>1. CASE Respond(o)
  BY <1>1, ActionAssumption DEF Respond, Starts
<1>2. CASE Resolve(o)
  BY <1>2 DEF Resolve
<1>3. CASE Load(o)
  BY <1>3 DEF Load
<1>4. CASE Refuse(o)
  BY <1>4 DEF Refuse
<1> QED
  BY <1>1, <1>2, <1>3, <1>4 DEF OwnerStep

LEMMA PatchType == TypeOK /\ Patch => TypeOK'
  BY ActionAssumption DEF TypeOK, Patch, rowVars, histVars

LEMMA ExecutionType ==
  ASSUME TypeOK, NEW p \in Calls, ExecutionStep(p) \/ RecordFails(p) \/ Die(p)
  PROVE  TypeOK'
<1> USE DEF TypeOK, Goto, Fault, States, Steps, rowVars, histVars, answerVars
<1>1. CASE Claim(p)
  BY <1>1 DEF Claim
<1>2. CASE Check(p)
  BY <1>2 DEF Check
<1>3. CASE Invoke(p)
  BY <1>3 DEF Invoke
<1>4. CASE Record(p)
  BY <1>4 DEF Record
<1>5. CASE RecordFails(p)
  BY <1>5, ActionAssumption DEF RecordFails
<1>6. CASE Die(p)
  BY <1>6, ActionAssumption DEF Die
<1> QED
  BY <1>1, <1>2, <1>3, <1>4, <1>5, <1>6 DEF ExecutionStep

LEMMA ActionTypeStep == TypeOK /\ [Next]_vars => TypeOK'
<1> SUFFICES ASSUME TypeOK, [Next]_vars PROVE TypeOK'
  OBVIOUS
<1>1. CASE UNCHANGED vars
  BY <1>1 DEF vars, TypeOK
<1> QED
  BY <1>1, CallerType, OwnerType, PatchType, ExecutionType DEF Next

(* The type of a row, its decisions and the calls at work on it: the       *)
(* states are those of the column's check constraint that the code writes. *)
THEOREM ActionTypeCorrect == Spec => []TypeOK
  BY ActionTypeInit, ActionTypeStep, PTL DEF Spec

-----------------------------------------------------------------------------
(* Safety. As long as the policies agree, one call at most is between its  *)
(* claim and its result, and the row says so; nothing has acted before     *)
(* that, and whoever is about to claim has been allowed to.                *)

Executing(p) == step[p] \in {"check", "invoke", "ok", "bad"}

Approved == \E d \in Decisions : decision[d] = "approved"
Allowed == policy = "allow" \/ (policy = "require_approval" /\ Approved)

RowInv ==
  /\ state = "none" => policy = "none" /\ \A p \in Calls : step[p] \in {"idle", "insert"}
  /\ state # "none" => policy \in said
  /\ policy = "require_approval" <=> link # None

CallInv ==
  /\ \A p \in Calls : step[p] # "link"
  /\ \A p \in Calls : Executing(p) => state = "executing"
  /\ \A p, q \in Calls : Executing(p) /\ Executing(q) => p = q
  /\ \A o \in Owners : step[o] \in {"approve", "reject", "load"} => answers[o] \in Decisions

EffectInv ==
  /\ effects <= 1
  /\ state \notin {"executing", "succeeded", "failed"} => effects = 0
  /\ \A p \in Calls : step[p] \in {"check", "invoke"} => effects = 0

AllowedInv ==
  /\ state \in {"executing", "succeeded", "failed"} => Allowed
  /\ \A p \in Calls : step[p] = "claim" => Allowed

ActionInv == Agreed => RowInv /\ CallInv /\ EffectInv /\ AllowedInv

LEMMA ActionInvInit == Init => ActionInv
  BY DEF Init, ActionInv, RowInv, CallInv, EffectInv, AllowedInv, Executing, Calls

(* What the policies have said once they have said for good.               *)
LEMMA AgreedBefore ==
  ASSUME [Next]_vars, Agreed'
  PROVE  Agreed
<1>1. said \subseteq said'
  BY DEF Next, vars, histVars, rowVars, CallerStep, OwnerStep, ExecutionStep, Find, Insert, Link,
         Respond, Resolve, Patch, Load, Refuse, Claim, Check, Invoke, Record, RecordFails, Die
<1> QED
  BY <1>1 DEF Agreed

LEMMA InsertSafe ==
  ASSUME TypeOK, RowInv, CallInv, EffectInv, AllowedInv, Agreed', NEW c \in Callers, Insert(c)
  PROVE  (RowInv /\ CallInv /\ EffectInv /\ AllowedInv)'
<1> USE DEF TypeOK, Calls, Goto
<1>1. PICK p \in Policies :
        /\ said' = said \cup {p}
        /\ \/ p = "block" /\ NewRow("blocked", p) /\ Goto(c, "idle")
              /\ UNCHANGED <<link, decision>>
           \/ p = "allow" /\ NewRow("approved", p) /\ Goto(c, "claim")
              /\ UNCHANGED <<link, decision>>
           \/ p = "require_approval" /\ state = "none" /\ NewRow("awaiting_approval", p)
              /\ Goto(c, "idle") /\ \E d \in Decisions : OpenDecision(d)
           \/ p = "require_approval" /\ state # "none"
              /\ Goto(c, IF link = None THEN "link" ELSE "idle")
              /\ UNCHANGED <<rowVars, decision>>
  BY DEF Insert
<1>2. UNCHANGED <<answers, effects>> /\ step[c] = "insert"
  BY DEF Insert
<1>3. state # "none" => policy = p
  BY <1>1 DEF Agreed, RowInv
<1>4. CASE state = "none"
  <2>1. /\ \A q \in Calls : q # c => step'[q] = step[q]
        /\ step'[c] = IF p = "allow" THEN "claim" ELSE "idle"
        /\ policy' = p
        /\ state' \in {"blocked", "approved", "awaiting_approval"}
    BY <1>1, <1>4 DEF NewRow
  <2>2. p = "require_approval" <=> link' # None
    BY <1>1, <1>4 DEF OpenDecision, RowInv, Decisions, None
  <2>3. \A q \in Calls : step'[q] \in {"idle", "insert"} \/ q = c
    BY <2>1, <1>4 DEF RowInv
  <2>4. effects = 0
    BY <1>4 DEF EffectInv
  <2>5. RowInv'
    BY <1>1, <2>1, <2>2 DEF RowInv
  <2>6. CallInv'
    BY <1>2, <2>1, <2>3 DEF CallInv, Executing
  <2>7. EffectInv'
    BY <1>2, <2>1, <2>4 DEF EffectInv
  <2>8. AllowedInv'
    BY <2>1, <2>3 DEF AllowedInv, Allowed
  <2> QED
    BY <2>5, <2>6, <2>7, <2>8
<1>5. CASE state # "none"
  <2>1. UNCHANGED <<state, policy, link, decision>>
    BY <1>1, <1>5 DEF NewRow, rowVars
  <2>2. /\ \A q \in Calls : q # c => step'[q] = step[q]
        /\ step'[c] = IF p = "allow" THEN "claim" ELSE "idle"
    BY <1>1, <1>3, <1>5 DEF RowInv
  <2>3. RowInv'
    BY <1>1, <1>5, <2>1 DEF RowInv
  <2>4. CallInv'
    BY <1>2, <2>1, <2>2 DEF CallInv, Executing
  <2>5. EffectInv'
    BY <1>2, <2>1, <2>2 DEF EffectInv
  <2>6. AllowedInv'
    BY <1>3, <1>5, <2>1, <2>2 DEF AllowedInv, Allowed, Approved
  <2> QED
    BY <2>3, <2>4, <2>5, <2>6
<1> QED
  BY <1>4, <1>5

LEMMA CallerSafe ==
  ASSUME TypeOK, RowInv, CallInv, EffectInv, AllowedInv, Agreed',
         NEW c \in Callers, Find(c) \/ CallerStep(c)
  PROVE  (RowInv /\ CallInv /\ EffectInv /\ AllowedInv)'
<1> USE DEF TypeOK, Calls, Goto, rowVars, histVars, answerVars
<1>1. CASE Find(c)
  <2>1. /\ UNCHANGED <<state, policy, link, decision, answers, said, effects>>
        /\ \A q \in Calls : q # c => step'[q] = step[q]
    BY <1>1 DEF Find
  <2>2. \/ state = "none" /\ step'[c] = "insert"
        \/ policy = "allow" /\ state # "none" /\ step'[c] = "claim"
    BY <1>1 DEF Find, Resumable, Claimable
  <2>3. RowInv' /\ CallInv' /\ EffectInv'
    BY <2>1, <2>2 DEF RowInv, CallInv, EffectInv, Executing
  <2>4. AllowedInv'
    BY <2>1, <2>2 DEF AllowedInv, Allowed, Approved
  <2> QED
    BY <2>3, <2>4
<1>2. CASE Insert(c)
  BY <1>2, InsertSafe
<1>3. ~Link(c)
  BY DEF Link, CallInv
<1> QED
  BY <1>1, <1>2, <1>3 DEF CallerStep

LEMMA OwnerSafe ==
  ASSUME TypeOK, RowInv, CallInv, EffectInv, AllowedInv,
         NEW o \in Owners, Respond(o) \/ OwnerStep(o)
  PROVE  (RowInv /\ CallInv /\ EffectInv /\ AllowedInv)'
<1> USE DEF TypeOK, Calls, Goto, rowVars, histVars, answerVars
<1>1. /\ UNCHANGED <<policy, link, said, effects>>
      /\ \A q \in Calls : q # o => step'[q] = step[q]
      /\ \A q \in Owners : q # o => answers'[q] = answers[q]
  BY DEF OwnerStep, Respond, Resolve, Load, Refuse
<1>2. step'[o] \in {"idle", "approve", "reject", "load", "refuse", "claim"}
  BY DEF OwnerStep, Respond, Resolve, Load, Refuse
<1>3. link # None => link \in Decisions
  OBVIOUS
<1>4. step'[o] \in {"approve", "reject", "load"} => answers'[o] \in Decisions
  BY <1>3 DEF OwnerStep, Respond, Resolve, Load, Refuse, CallInv
<1>5. state # "none"
  BY DEF OwnerStep, Respond, Resolve, Load, Refuse, RowInv
<1>6. state' = state \/ (state' = "rejected" /\ Claimable)
  BY DEF OwnerStep, Respond, Resolve, Load, Refuse
<1>7. Approved => Approved'
  BY DEF OwnerStep, Respond, Resolve, Load, Refuse, Approved
<1>8. step'[o] = "claim" => Allowed'
  <2> SUFFICES ASSUME step'[o] = "claim" PROVE Allowed'
    OBVIOUS
  <2>1. Load(o) /\ link = answers[o] /\ decision[link] = "approved"
    BY DEF OwnerStep, Respond, Resolve, Load, Refuse
  <2>2. link \in Decisions /\ link # None /\ UNCHANGED decision
    BY <2>1 DEF Load, CallInv, Decisions, None
  <2> QED
    BY <1>1, <2>1, <2>2 DEF Allowed, Approved, RowInv
<1>9. RowInv'
  BY <1>1, <1>5, <1>6 DEF RowInv
<1>10. CallInv'
  BY <1>1, <1>2, <1>4, <1>6 DEF CallInv, Executing, Claimable
<1>11. EffectInv'
  BY <1>1, <1>2, <1>6 DEF EffectInv, Claimable
<1>12. AllowedInv'
  BY <1>1, <1>2, <1>6, <1>7, <1>8 DEF AllowedInv, Allowed
<1> QED
  BY <1>9, <1>10, <1>11, <1>12

(* Closing a decision approves nothing and takes no approval back. *)
LEMMA PatchSafe ==
  ASSUME TypeOK, RowInv, CallInv, EffectInv, AllowedInv, Patch
  PROVE  (RowInv /\ CallInv /\ EffectInv /\ AllowedInv)'
<1>1. UNCHANGED <<state, policy, link, step, answers, said, effects>>
  BY DEF Patch, rowVars, histVars
<1>2. Approved => Approved'
  BY DEF Patch, Approved, TypeOK
<1> QED
  BY <1>1, <1>2 DEF RowInv, CallInv, EffectInv, AllowedInv, Allowed, Executing

LEMMA ExecutionSafe ==
  ASSUME TypeOK, RowInv, CallInv, EffectInv, AllowedInv,
         NEW p \in Calls, ExecutionStep(p) \/ RecordFails(p) \/ Die(p)
  PROVE  (RowInv /\ CallInv /\ EffectInv /\ AllowedInv)'
<1> USE DEF TypeOK, Goto, rowVars, histVars, answerVars
<1>1. /\ UNCHANGED <<policy, link, decision, answers, said>>
      /\ \A q \in Calls : q # p => step'[q] = step[q]
  BY DEF ExecutionStep, Claim, Check, Invoke, Record, RecordFails, Die
<1>2. Owners \subseteq Calls
  BY DEF Calls
<1>3. Allowed' <=> Allowed
  BY <1>1 DEF Allowed, Approved
<1>4. CASE Claim(p)
  <2>1. \/ Claimable /\ state' = "executing" /\ step'[p] = "check"
        \/ UNCHANGED state /\ step'[p] = "idle"
    BY <1>4 DEF Claim
  <2>2. UNCHANGED effects /\ Allowed /\ state # "none"
    BY <1>4 DEF Claim, AllowedInv, RowInv
  <2>3. RowInv'
    BY <1>1, <2>1, <2>2 DEF RowInv
  <2>4. CallInv'
    BY <1>1, <1>2, <2>1 DEF CallInv, Executing, Claimable
  <2>5. EffectInv'
    BY <1>1, <2>1, <2>2 DEF EffectInv, Claimable
  <2>6. AllowedInv'
    BY <1>1, <1>3, <2>1, <2>2 DEF AllowedInv
  <2> QED
    BY <2>3, <2>4, <2>5, <2>6
<1>5. CASE Check(p) \/ Invoke(p) \/ RecordFails(p) \/ Die(p)
  <2>1. UNCHANGED state /\ step[p] # "idle"
    BY <1>5 DEF Check, Invoke, RecordFails, Die
  <2>2. step'[p] \in {"check", "invoke", "ok", "bad"} => Executing(p)
    BY <1>5 DEF Check, Invoke, RecordFails, Die, Executing
  <2>3. step'[p] \in {"idle", "invoke", "ok", "bad"}
    BY <1>5 DEF Check, Invoke, RecordFails, Die
  <2>4. \/ UNCHANGED effects /\ (step'[p] = "invoke" => step[p] = "check")
        \/ step[p] = "invoke" /\ effects' = effects + 1 /\ step'[p] \in {"ok", "bad"}
    BY <1>5 DEF Check, Invoke, RecordFails, Die
  <2>5. RowInv'
    BY <1>1, <2>1, <2>3, <2>2 DEF RowInv, Executing
  <2>6. CallInv'
    BY <1>1, <1>2, <2>1, <2>2, <2>3 DEF CallInv, Executing
  <2>7. EffectInv'
    BY <1>1, <2>1, <2>3, <2>4 DEF EffectInv, CallInv, Executing
  <2>8. AllowedInv'
    BY <1>1, <1>3, <2>1, <2>3 DEF AllowedInv
  <2> QED
    BY <2>5, <2>6, <2>7, <2>8
<1>6. CASE Record(p)
  <2>1. /\ Executing(p) /\ state = "executing"
        /\ state' \in {"succeeded", "failed"} /\ step'[p] = "idle" /\ UNCHANGED effects
    BY <1>6 DEF Record, Executing, CallInv
  <2>2. \A q \in Calls : ~Executing(q)'
    BY <1>1, <2>1 DEF CallInv, Executing
  <2>3. RowInv'
    BY <1>1, <2>1 DEF RowInv
  <2>4. CallInv'
    BY <1>1, <1>2, <2>1, <2>2 DEF CallInv
  <2>5. EffectInv'
    BY <1>1, <2>1, <2>2 DEF EffectInv, Executing
  <2>6. AllowedInv'
    BY <1>1, <1>3, <2>1 DEF AllowedInv
  <2> QED
    BY <2>3, <2>4, <2>5, <2>6
<1> QED
  BY <1>4, <1>5, <1>6 DEF ExecutionStep

LEMMA ActionInvStep == TypeOK /\ ActionInv /\ [Next]_vars => ActionInv'
<1> SUFFICES ASSUME TypeOK, ActionInv, [Next]_vars, Agreed'
             PROVE  (RowInv /\ CallInv /\ EffectInv /\ AllowedInv)'
  BY DEF ActionInv
<1>1. RowInv /\ CallInv /\ EffectInv /\ AllowedInv
  BY AgreedBefore DEF ActionInv
<1>2. CASE UNCHANGED vars
  BY <1>1, <1>2 DEF vars, rowVars, histVars, RowInv, CallInv, EffectInv, AllowedInv, Allowed,
                    Approved, Executing
<1> QED
  BY <1>1, <1>2, CallerSafe, OwnerSafe, PatchSafe, ExecutionSafe DEF Next

LEMMA FinalStep ==
  TypeOK /\ ActionInv /\ [Next]_vars => [Agreed' /\ state \in Finished => state' = state]_vars
<1> SUFFICES ASSUME TypeOK, ActionInv, Next, Agreed', state \in Finished
             PROVE  state' = state
  BY DEF vars, rowVars
<1>1. RowInv /\ CallInv
  BY AgreedBefore DEF ActionInv
<1>2. CASE \E c \in Callers : Find(c) \/ CallerStep(c)
  BY <1>1, <1>2 DEF CallerStep, Find, Insert, NewRow, Link, CallInv, Finished, rowVars, Calls
<1>3. CASE \E o \in Owners : Respond(o) \/ OwnerStep(o)
  BY <1>3 DEF OwnerStep, Respond, Resolve, Load, Refuse, Claimable, Finished, rowVars
<1>4. CASE \E p \in Calls : ExecutionStep(p) \/ RecordFails(p) \/ Die(p)
  BY <1>1, <1>4 DEF ExecutionStep, Claim, Check, Invoke, Record, RecordFails, Die, Claimable,
                    Finished, rowVars, CallInv, Executing
<1> QED
  BY <1>2, <1>3, <1>4 DEF Next, Patch, rowVars

LEMMA ActionSafe == Spec => [](TypeOK /\ ActionInv)
  BY ActionTypeInit, ActionTypeStep, ActionInvInit, ActionInvStep, PTL DEF Spec

(* The connector acts at most once for a key.                              *)
THEOREM RunsOnceHolds == Spec => []RunsOnce
<1>1. ActionInv => RunsOnce
  BY DEF ActionInv, EffectInv, RunsOnce
<1> QED
  BY <1>1, ActionSafe, PTL

(* It acts only on what the policies allow or the owner has approved.      *)
THEOREM RunsAllowedHolds == Spec => []RunsAllowed
<1>1. TypeOK /\ ActionInv => RunsAllowed
  BY DEF TypeOK, ActionInv, EffectInv, AllowedInv, Allowed, Approved, RunsAllowed
<1> QED
  BY <1>1, ActionSafe, PTL

(* The outcome in a finished row is never written over.                    *)
THEOREM OutcomeFinalHolds == Spec => OutcomeFinal
  BY ActionSafe, FinalStep, PTL DEF Spec, OutcomeFinal

-----------------------------------------------------------------------------
(* Refinement. As long as the policies agree there is one decision, which  *)
(* is open only while the row waits for it; a rejection is carried out     *)
(* after the decision is resolved, and a success is what the connector has *)
(* done.                                                                   *)

AnswerInv ==
  /\ \A d \in Decisions : decision[d] # "none" => d = link
  /\ \A d \in Decisions : decision[d] = "open" => state = "awaiting_approval"
  /\ \A o \in Owners : step[o] = "refuse" =>
       answers[o] \in Decisions /\ Resolved(answers[o])
  /\ \A p \in Calls : step[p] = "ok" => effects = 1

SafeInv == RowInv /\ CallInv /\ EffectInv /\ AllowedInv

LEMMA AnswerInit == Init => AnswerInv
  BY DEF Init, AnswerInv, Calls

(* While the row waits for the owner, nobody is at work on it. *)
LEMMA OpenWaits ==
  ASSUME TypeOK, SafeInv, AnswerInv, NEW d \in Decisions, decision[d] = "open"
  PROVE  /\ d = link /\ policy = "require_approval" /\ state = "awaiting_approval"
         /\ ~Answered("approved") /\ ~Answered("rejected")
  BY DEF AnswerInv, SafeInv, RowInv, Answered, Decisions, None

LEMMA NoDecision ==
  ASSUME TypeOK, SafeInv, AnswerInv, policy # "require_approval"
  PROVE  /\ \A d \in Decisions : decision[d] = "none"
         /\ \A a : a # "none" => ~Answered(a)
  BY DEF AnswerInv, SafeInv, RowInv, Answered, Decisions, None

(* What the statements of the callers do to the row and its decisions. *)
LEMMA CallerRow ==
  ASSUME TypeOK, SafeInv, AnswerInv, Agreed', NEW c \in Callers, Find(c) \/ CallerStep(c)
  PROVE  /\ UNCHANGED effects
         /\ \A p \in Calls : step'[p] = step[p] \/ step'[p] \in {"idle", "insert", "claim"}
         /\ \/ UNCHANGED <<state, policy, link, decision>>
            \/ /\ state = "none" /\ UNCHANGED <<link, decision>>
               /\ \/ state' = "blocked" /\ policy' = "block"
                  \/ state' = "approved" /\ policy' = "allow"
            \/ /\ state = "none" /\ state' = "awaiting_approval" /\ policy' = "require_approval"
               /\ \E d \in Decisions : OpenDecision(d)
<1> USE DEF Goto, Calls, TypeOK
<1>1. CASE Find(c)
  BY <1>1 DEF Find, rowVars, histVars, answerVars
<1>2. CASE Insert(c)
  <2>1. PICK p \in Policies :
          /\ said' = said \cup {p}
          /\ \/ p = "block" /\ NewRow("blocked", p) /\ Goto(c, "idle")
                /\ UNCHANGED <<link, decision>>
             \/ p = "allow" /\ NewRow("approved", p) /\ Goto(c, "claim")
                /\ UNCHANGED <<link, decision>>
             \/ p = "require_approval" /\ state = "none" /\ NewRow("awaiting_approval", p)
                /\ Goto(c, "idle") /\ \E d \in Decisions : OpenDecision(d)
             \/ p = "require_approval" /\ state # "none"
                /\ Goto(c, IF link = None THEN "link" ELSE "idle")
                /\ UNCHANGED <<rowVars, decision>>
    BY <1>2 DEF Insert
  <2>2. UNCHANGED effects
    BY <1>2 DEF Insert
  <2>3. state # "none" => policy = p
    BY <2>1 DEF Agreed, SafeInv, RowInv
  <2>4. \A q \in Calls : step'[q] = step[q] \/ step'[q] \in {"idle", "insert", "claim"}
    BY <2>1, <2>3 DEF SafeInv, RowInv
  <2> QED
    BY <2>1, <2>2, <2>4 DEF NewRow, rowVars
<1>3. ~Link(c)
  BY DEF Link, SafeInv, CallInv
<1> QED
  BY <1>1, <1>2, <1>3 DEF CallerStep

LEMMA CallerAnswers ==
  ASSUME TypeOK, SafeInv, AnswerInv, Agreed', NEW c \in Callers, Find(c) \/ CallerStep(c)
  PROVE  AnswerInv' /\ [One!Answer]_(One!vars)
<1>1. \A p \in Calls : /\ step'[p] = "refuse" => step[p] = "refuse"
                       /\ step'[p] = "ok" => step[p] = "ok"
  BY CallerRow
<1>2. UNCHANGED <<effects, answers>> /\ Owners \subseteq Calls
  BY CallerRow DEF Calls, Find, CallerStep, Insert, Link
<1>0. Agreed
  BY DEF Agreed, Find, CallerStep, Insert, Link, histVars
<1>3. CASE UNCHANGED <<state, policy, link, decision>>
  <2>1. AnswerInv'
    BY <1>1, <1>2, <1>3 DEF AnswerInv, Resolved
  <2>2. UNCHANGED One!vars
    BY <1>0, <1>2, <1>3 DEF One!vars, Answered
  <2> QED
    BY <2>1, <2>2
<1>4. CASE state = "none"
  <2>1. policy = "none" /\ \A d \in Decisions : decision[d] = "none"
    BY <1>4, NoDecision DEF SafeInv, RowInv
  <2>2. \A p \in Calls : step'[p] \notin {"refuse", "ok"}
    BY <1>1, <1>4 DEF SafeInv, RowInv
  <2>3. \A d \in Decisions : decision'[d] \in {"none", "open"}
    BY <2>1, CallerRow DEF OpenDecision, TypeOK
  <2>4. ~Answered("approved") /\ ~Answered("rejected")
    BY <2>1 DEF Answered
  <2>5. ~Answered("approved")' /\ ~Answered("rejected")'
    BY <2>3 DEF Answered
  <2>6. CASE UNCHANGED <<link, decision>> /\ state' # "none"
    <3>1. AnswerInv'
      BY <1>2, <2>1, <2>2, <2>6 DEF AnswerInv
    <3>2. \/ state' = "blocked" /\ policy' = "block"
          \/ state' = "approved" /\ policy' = "allow"
      BY <1>4, <2>1, <2>6, CallerRow DEF OpenDecision, TypeOK
    <3> QED
      BY <1>0, <1>2, <1>4, <2>1, <2>4, <2>5, <3>1, <3>2 DEF One!Answer
  <2>7. CASE \E d \in Decisions : OpenDecision(d) /\ state' = "awaiting_approval" /\ policy' = "require_approval"
    <3>1. AnswerInv'
      BY <1>2, <2>1, <2>2, <2>7 DEF AnswerInv, OpenDecision, TypeOK
    <3>2. UNCHANGED One!vars
      BY <1>0, <1>2, <1>4, <2>1, <2>4, <2>5, <2>7 DEF One!vars
    <3> QED
      BY <3>1, <3>2
  <2> QED
    BY <1>3, <1>4, <2>6, <2>7, CallerRow
<1> QED
  BY <1>3, <1>4, CallerRow

LEMMA OwnerAnswers ==
  ASSUME TypeOK, SafeInv, AnswerInv, Agreed', NEW o \in Owners, Respond(o) \/ OwnerStep(o)
  PROVE  AnswerInv' /\ [One!Answer \/ One!Reject]_(One!vars)
<1> USE DEF TypeOK, Calls, Goto, rowVars, histVars, answerVars
<1>1. /\ UNCHANGED <<policy, link, said, effects>>
      /\ \A q \in Calls : q # o => step'[q] = step[q]
      /\ \A q \in Owners : q # o => answers'[q] = answers[q]
      /\ step'[o] # "ok"
  BY DEF OwnerStep, Respond, Resolve, Load, Refuse
<1>2. Agreed
  BY <1>1 DEF Agreed
<1>3. CASE Resolve(o) /\ decision[answers[o]] = "open"
  <2> DEFINE d == answers[o]
             a == IF step[o] = "approve" THEN "approved" ELSE "rejected"
  <2>1. d \in Decisions
    BY <1>3 DEF Resolve, SafeInv, CallInv
  <2>2. decision' = [decision EXCEPT ![d] = a] /\ UNCHANGED <<state, answers>>
    BY <1>3 DEF Resolve
  <2>3. /\ d = link /\ policy = "require_approval" /\ state = "awaiting_approval"
        /\ ~Answered("approved") /\ ~Answered("rejected")
    BY <1>3, <2>1, OpenWaits
  <2>4. decision'[d] = a /\ \A e \in Decisions : e # d => decision'[e] = decision[e]
    BY <2>1, <2>2
  <2>5. \A x \in {"approved", "rejected"} : Answered(x)' <=> x = a
    BY <2>1, <2>3, <2>4 DEF Answered
  <2>6. AnswerInv'
    <3>1. \A e \in Decisions : Resolved(e) => Resolved(e)'
      BY <2>4 DEF Resolved
    <3>2. step'[o] = "refuse" => answers[o] \in Decisions /\ Resolved(answers[o])'
      BY <2>1, <2>2, <2>4 DEF Resolved
    <3>3. \A q \in Owners : step'[q] = "refuse" =>
            answers[q] \in Decisions /\ Resolved(answers[q])'
      BY <1>1, <2>2, <3>1, <3>2 DEF AnswerInv
    <3> QED
      BY <1>1, <2>2, <2>3, <2>4, <3>3 DEF AnswerInv
  <2>7. One!Answer
    BY <1>1, <2>2, <2>3, <2>5 DEF One!Answer
  <2> QED
    BY <2>6, <2>7
<1>4. CASE Refuse(o) /\ state' # state
  <2>1. /\ Claimable /\ state' = "rejected" /\ UNCHANGED decision /\ step'[o] = "idle"
        /\ link = answers[o] /\ Resolved(link)
    BY <1>4 DEF Refuse, AnswerInv
  <2>2. link # None
    BY <1>4, <2>1 DEF Refuse, AnswerInv, Decisions, None
  <2>3. policy = "require_approval" /\ \A e \in Decisions : decision[e] # "open"
    BY <2>1, <2>2 DEF AnswerInv, Resolved, SafeInv, RowInv
  <2>4. Answered("approved")' = Answered("approved") /\ Answered("rejected")' = Answered("rejected")
    BY <2>1 DEF Answered
  <2>5. AnswerInv'
    BY <1>1, <2>1, <2>3 DEF AnswerInv, Resolved
  <2>6. One!Reject
    BY <1>1, <2>1, <2>3, <2>4 DEF One!Reject, Claimable
  <2> QED
    BY <2>5, <2>6
<1>5. CASE UNCHANGED <<state, decision>>
  <2>1. step'[o] = "refuse" => answers'[o] \in Decisions /\ Resolved(answers'[o])
    <3>1. CASE Respond(o)
      BY <1>5, <3>1 DEF Respond, Starts, None
    <3>2. CASE OwnerStep(o)
      BY <1>5, <3>2 DEF OwnerStep, Resolve, Load, Refuse, SafeInv, CallInv
    <3> QED
      BY <3>1, <3>2
  <2>2. AnswerInv'
    BY <1>1, <1>5, <2>1 DEF AnswerInv, Resolved
  <2>3. UNCHANGED One!vars
    BY <1>1, <1>2, <1>5 DEF One!vars, Answered
  <2> QED
    BY <2>2, <2>3
<1> QED
  BY <1>3, <1>4, <1>5 DEF OwnerStep, Respond, Resolve, Load, Refuse

(* A decision that is closed answers nothing yet. *)
LEMMA PatchAnswers ==
  ASSUME TypeOK, SafeInv, AnswerInv, Agreed, Patch
  PROVE  AnswerInv' /\ UNCHANGED One!vars
<1>1. UNCHANGED <<state, policy, link, step, answers, said, effects>>
  BY DEF Patch, rowVars, histVars
<1>2. \A d \in Decisions :
        /\ decision'[d] = IF decision[d] = "open" THEN decision'[d] ELSE decision[d]
        /\ decision[d] = "open" => decision'[d] \in {"open", "closed"}
  BY DEF Patch, TypeOK
<1>3. AnswerInv'
  BY <1>1, <1>2 DEF AnswerInv, Resolved, TypeOK
<1>4. /\ Answered("approved")' = Answered("approved")
      /\ Answered("rejected")' = Answered("rejected")
  BY <1>2 DEF Answered
<1> QED
  BY <1>1, <1>3, <1>4 DEF One!vars, Agreed

LEMMA ExecutionAnswers ==
  ASSUME TypeOK, SafeInv, AnswerInv, Agreed', NEW p \in Calls,
         ExecutionStep(p) \/ RecordFails(p) \/ Die(p)
  PROVE  AnswerInv' /\ [One!Execute \/ One!Act \/ One!End]_(One!vars)
<1> USE DEF TypeOK, Goto, rowVars, histVars, answerVars
<1>1. /\ UNCHANGED <<policy, link, decision, answers, said>>
      /\ \A q \in Calls : q # p => step'[q] = step[q]
      /\ step'[p] # "refuse"
  BY DEF ExecutionStep, Claim, Check, Invoke, Record, RecordFails, Die
<1>2. Agreed /\ (Answered("approved")' = Answered("approved")) /\ (Answered("rejected")' = Answered("rejected"))
  BY <1>1 DEF Agreed, Answered
<1>3. Owners \subseteq Calls
  BY DEF Calls
<1>4. CASE Claim(p) /\ Claimable
  <2>1. state' = "executing" /\ UNCHANGED effects /\ step'[p] = "check" /\ Allowed
    BY <1>4 DEF Claim, SafeInv, AllowedInv
  <2>2. \A d \in Decisions : decision[d] # "open"
    BY <2>1, NoDecision, OpenWaits DEF Allowed, Approved, Answered
  <2>3. AnswerInv'
    BY <1>1, <1>3, <2>1, <2>2 DEF AnswerInv, Resolved
  <2>4. One!Execute
    BY <1>1, <1>2, <1>4, <2>1 DEF One!Execute, Claimable, Allowed, Approved, Answered
  <2> QED
    BY <2>3, <2>4
<1>5. CASE Invoke(p) /\ effects' # effects
  <2>1. UNCHANGED state /\ effects = 0 /\ effects' = 1 /\ state = "executing"
    BY <1>5 DEF Invoke, SafeInv, EffectInv, CallInv, Executing
  <2>2. AnswerInv'
    BY <1>1, <1>3, <2>1 DEF AnswerInv, Resolved
  <2>3. One!Act
    BY <1>1, <1>2, <2>1 DEF One!Act
  <2> QED
    BY <2>2, <2>3
<1>6. CASE Record(p)
  <2>1. /\ state = "executing" /\ UNCHANGED effects /\ step'[p] = "idle"
        /\ state' = "failed" \/ (state' = "succeeded" /\ effects = 1)
    BY <1>6 DEF Record, SafeInv, CallInv, Executing, AnswerInv
  <2>2. \A d \in Decisions : decision[d] # "open"
    BY <2>1 DEF AnswerInv
  <2>3. AnswerInv'
    BY <1>1, <1>3, <2>1, <2>2 DEF AnswerInv, Resolved
  <2>4. One!End
    BY <1>1, <1>2, <2>1 DEF One!End
  <2> QED
    BY <2>3, <2>4
<1>7. CASE UNCHANGED <<state, effects>> /\ ~Record(p)
  <2>1. step'[p] # "ok"
    BY <1>7 DEF ExecutionStep, Claim, Check, Invoke, RecordFails, Die
  <2>2. AnswerInv'
    BY <1>1, <1>3, <1>7, <2>1 DEF AnswerInv, Resolved
  <2>3. UNCHANGED One!vars
    BY <1>1, <1>2, <1>7 DEF One!vars
  <2> QED
    BY <2>2, <2>3
<1> QED
  BY <1>4, <1>5, <1>6, <1>7 DEF ExecutionStep, Claim, Check, Invoke, RecordFails, Die

LEMMA OneInit == Init => One!Init
  BY DEF Init, One!Init, Agreed, Answered

LEMMA OneStep ==
  TypeOK /\ ActionInv /\ (Agreed => AnswerInv) /\ [Next]_vars
    => (Agreed => AnswerInv)' /\ [One!Next]_(One!vars)
<1> SUFFICES ASSUME TypeOK, ActionInv, Agreed => AnswerInv, [Next]_vars
             PROVE  (Agreed => AnswerInv)' /\ [One!Next]_(One!vars)
  OBVIOUS
<1>1. CASE ~Agreed'
  BY <1>1 DEF One!Next
<1>2. CASE Agreed'
  <2>1. Agreed /\ SafeInv /\ AnswerInv
    BY <1>2, AgreedBefore DEF ActionInv, SafeInv
  <2>2. CASE UNCHANGED vars
    BY <2>1, <2>2 DEF vars, rowVars, histVars, AnswerInv, Resolved, Answered, One!vars, Agreed
  <2>3. CASE \E c \in Callers : Find(c) \/ CallerStep(c)
    BY <1>2, <2>1, <2>3, CallerAnswers DEF One!Next
  <2>4. CASE \E o \in Owners : Respond(o) \/ OwnerStep(o)
    BY <1>2, <2>1, <2>4, OwnerAnswers DEF One!Next
  <2>5. CASE \E p \in Calls : ExecutionStep(p) \/ RecordFails(p) \/ Die(p)
    BY <1>2, <2>1, <2>5, ExecutionAnswers DEF One!Next
  <2>6. CASE Patch
    BY <2>1, <2>6, PatchAnswers
  <2> QED
    BY <2>2, <2>3, <2>4, <2>5, <2>6 DEF Next
<1> QED
  BY <1>1, <1>2

(* All calls with one key are one action: it is answered once, acts once   *)
(* after a yes, succeeds only if it has acted, and how it ended stays.     *)
THEOREM OneActionHolds == Spec => OneActionImplemented
<1>1. Init => (Agreed => AnswerInv) /\ One!Init
  BY AnswerInit, OneInit
<1> QED
  BY <1>1, OneStep, ActionSafe, PTL DEF Spec, OneActionImplemented, One!Spec
==============================================================================
