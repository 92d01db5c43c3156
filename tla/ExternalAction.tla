--------------------------- MODULE ExternalAction ---------------------------
(***************************************************************************)
(* One external action: the calls of requestExternalAction that carry its  *)
(* idempotency key, the owner's answers to the decisions that ask for its  *)
(* approval, on either of the routes that take them, and the connector it  *)
(* is sent through. All meet in one row of external_action_requests; no    *)
(* statement holds it for longer than itself, and only the claim and the   *)
(* rejection ask for the state they replace.                               *)
(***************************************************************************)
EXTENDS Integers, FiniteSets

CONSTANTS
  Callers,       \* calls of requestExternalAction that can be under way
  Owners,        \* calls of the decision's respond route
  Policies,      \* what the hive's policies may say of the action
  MaxDecisions,  \* bound: approval decisions
  MaxCalls,      \* bound: calls of every kind
  MaxFaults      \* bound: calls that die, results that cannot be written

ASSUME ActionAssumption ==
  /\ IsFiniteSet(Callers) /\ IsFiniteSet(Owners) /\ Callers \cap Owners = {}
  /\ Policies \subseteq {"allow", "require_approval", "block"}
  /\ MaxDecisions \in Nat \ {0} /\ MaxCalls \in Nat /\ MaxFaults \in Nat

Calls == Callers \cup Owners
Decisions == 1..MaxDecisions
None == 0

VARIABLES
  state,           \* of the row; "none": not inserted
  policy,          \* policy_snapshot.decision
  link,            \* decision_id
  decision,        \* each decision's status and selected_option_key;
                   \* "closed": resolved without a key
  words,           \* each decision's owner_response
  step,            \* each call's next statement
  answers,         \* the decision an owner's call answers
  said,            \* history: what the policies have said
  effects,         \* history: times the connector has acted
  calls, faults

rowVars  == <<state, policy, link>>
answerVars == <<decision, words>>
histVars == <<said, effects>>
vars == <<state, policy, link, decision, words, step, answers, said, effects, calls, faults>>

States == {"none", "blocked", "approved", "awaiting_approval", "rejected", "executing",
           "succeeded", "failed"}
Steps == {"idle", "insert", "link", "approve", "reject", "load", "refuse", "claim",
          "check", "invoke", "ok", "bad"}

TypeOK ==
  /\ state \in States /\ policy \in Policies \cup {"none"}
  /\ link \in Decisions \cup {None}
  /\ decision \in [Decisions -> {"none", "open", "approved", "rejected", "closed"}]
  /\ words \in [Decisions -> {"none", "approve", "reject", "other"}]
  /\ step \in [Calls -> Steps] /\ answers \in [Owners -> Decisions \cup {None}]
  /\ said \subseteq Policies /\ effects \in Nat
  /\ calls \in 0..MaxCalls /\ faults \in 0..MaxFaults

Init ==
  /\ state = "none" /\ policy = "none" /\ link = None
  /\ decision = [d \in Decisions |-> "none"] /\ words = [d \in Decisions |-> "none"]
  /\ step = [p \in Calls |-> "idle"] /\ answers = [o \in Owners |-> None]
  /\ said = {} /\ effects = 0 /\ calls = 0 /\ faults = 0

Goto(p, s) == step' = [step EXCEPT ![p] = s]
Starts(p) == step[p] = "idle" /\ calls < MaxCalls /\ calls' = calls + 1
Fault == faults < MaxFaults /\ faults' = faults + 1

ClaimableAgain == state \in {"awaiting_approval", "approved", "executing"}
ClaimableFailed == state \in {"awaiting_approval", "approved", "failed"}
Claimable == state \in {"awaiting_approval", "approved"}

Finished == {"succeeded", "failed", "rejected", "blocked"}

-----------------------------------------------------------------------------
(* requestExternalAction. A call that finds the row in another state       *)
(* returns it and changes nothing.                                         *)

ResumableAny == Claimable
Resumable == policy = "allow" /\ Claimable

Find(c) ==
  /\ Starts(c)
  /\ \/ state = "none" /\ Goto(c, "insert")
     \/ Resumable /\ Goto(c, "claim")
  /\ UNCHANGED <<rowVars, answerVars, answers, histVars, faults>>

(* The row of the call, unless another has inserted one with this key.     *)
NewRow(s, p) ==
  IF state = "none" THEN state' = s /\ policy' = p ELSE UNCHANGED <<state, policy>>

OpenDecision(d) ==
  /\ decision[d] = "none" /\ \A e \in Decisions : e < d => decision[e] # "none"
  /\ decision' = [decision EXCEPT ![d] = "open"] /\ link' = d

Insert(c) ==
  /\ step[c] = "insert"
  /\ \E p \in Policies :
       /\ said' = said \cup {p}
       /\ \/ p = "block" /\ NewRow("blocked", p) /\ Goto(c, "idle")
             /\ UNCHANGED <<link, decision>>
          \/ p = "allow" /\ NewRow("approved", p) /\ Goto(c, "claim")
             /\ UNCHANGED <<link, decision>>
          \/ p = "require_approval" /\ state = "none" /\ NewRow("awaiting_approval", p)
             /\ Goto(c, "idle") /\ \E d \in Decisions : OpenDecision(d)
          \/ p = "require_approval" /\ state # "none"
             /\ Goto(c, IF link = None THEN "link" ELSE "idle")
             /\ UNCHANGED <<rowVars, decision>>
  /\ UNCHANGED <<words, answers, effects, calls, faults>>

(* A decision for the row that another call inserted, whatever its state.  *)
Link(c) ==
  /\ step[c] = "link" /\ Goto(c, "idle")
  /\ \E d \in Decisions : OpenDecision(d)
  /\ state' = "awaiting_approval"
  /\ UNCHANGED <<policy, words, answers, histVars, calls, faults>>

-----------------------------------------------------------------------------
(* The owner answers; a resolved decision takes again the answer that its  *)
(* option or its words record.                                             *)

Resolved(d) == decision[d] \notin {"none", "open"}

Respond(o) ==
  /\ Starts(o) /\ link # None /\ answers' = [answers EXCEPT ![o] = link]
  /\ \/ decision[link] = "open" /\ \E a \in {"approve", "reject"} : Goto(o, a)
     \/ Resolved(link) /\ (decision[link] = "approved" \/ words[link] = "approve")
          /\ Goto(o, "load")
     \/ Resolved(link) /\ (decision[link] = "rejected" \/ words[link] = "reject")
          /\ Goto(o, "refuse")
  /\ UNCHANGED <<rowVars, answerVars, histVars, faults>>

(* The first answer resolves the decision; a later one is refused (409).   *)
Resolve(o) ==
  /\ step[o] \in {"approve", "reject"}
  /\ LET d == answers[o] approves == step[o] = "approve" IN
       \/ /\ decision[d] = "open"
          /\ decision' = [decision EXCEPT ![d] = IF approves THEN "approved" ELSE "rejected"]
          /\ words' = [words EXCEPT ![d] = step[o]]
          /\ Goto(o, IF approves THEN "load" ELSE "refuse")
       \/ /\ decision[d] # "open" /\ UNCHANGED answerVars /\ Goto(o, "idle")
  /\ UNCHANGED <<rowVars, answers, histVars, calls, faults>>

(* PATCH /api/decisions/[id] writes any words into the decision, resolved  *)
(* before or not, selects no option and does nothing about the action.     *)
Patch ==
  /\ calls < MaxCalls /\ calls' = calls + 1
  /\ \E d \in Decisions, w \in {"approve", "reject", "other"} :
       /\ decision[d] # "none" /\ words' = [words EXCEPT ![d] = w]
       /\ decision' = [decision EXCEPT ![d] = IF @ = "open" THEN "closed" ELSE @]
  /\ UNCHANGED <<rowVars, step, answers, histVars, faults>>

WaitingToo == Finished \cup {"awaiting_approval"}
Closed == Finished

(* executeApprovedExternalAction. *)
Load(o) ==
  /\ step[o] = "load"
  /\ Goto(o, IF link = answers[o] /\ state \notin Closed /\ decision[link] = "approved"
               THEN "claim" ELSE "idle")
  /\ UNCHANGED <<rowVars, answerVars, answers, histVars, calls, faults>>

(* rejectExternalAction. *)
Refuse(o) ==
  /\ step[o] = "refuse" /\ Goto(o, "idle")
  /\ state' = IF link = answers[o] /\ Claimable THEN "rejected" ELSE state
  /\ UNCHANGED <<policy, link, answerVars, answers, histVars, calls, faults>>

-----------------------------------------------------------------------------
(* The claim and the execution, of either kind of call.                    *)

Claim(p) ==
  /\ step[p] = "claim"
  /\ \/ Claimable /\ state' = "executing" /\ Goto(p, "check")
     \/ ~Claimable /\ UNCHANGED state /\ Goto(p, "idle")
  /\ UNCHANGED <<policy, link, answerVars, answers, histVars, calls, faults>>

(* The payload, the installation and its credential; the state once more.  *)
Check(p) ==
  /\ step[p] = "check"
  /\ \/ state \in {"approved", "executing"} /\ Goto(p, "invoke")
     \/ Goto(p, "bad")
  /\ UNCHANGED <<rowVars, answerVars, answers, histVars, calls, faults>>

(* The connector acts or does not, and may report an error in either case. *)
Invoke(p) ==
  /\ step[p] = "invoke"
  /\ \/ effects' = effects + 1 /\ \E s \in {"ok", "bad"} : Goto(p, s)
     \/ UNCHANGED effects /\ Goto(p, "bad")
  /\ UNCHANGED <<rowVars, answerVars, answers, said, calls, faults>>

Record(p) ==
  /\ step[p] \in {"ok", "bad"} /\ Goto(p, "idle")
  /\ state' = IF step[p] = "ok" THEN "succeeded" ELSE "failed"
  /\ UNCHANGED <<policy, link, answerVars, answers, histVars, calls, faults>>

(* The result cannot be written: a success is recorded as a failure then,  *)
(* and a failure not at all.                                               *)
RecordFails(p) ==
  /\ step[p] \in {"ok", "bad"} /\ Fault
  /\ Goto(p, IF step[p] = "ok" THEN "bad" ELSE "idle")
  /\ UNCHANGED <<rowVars, answerVars, answers, histVars, calls>>

(* A call dies with its process; nothing looks at its row again.           *)
Die(p) ==
  /\ step[p] # "idle" /\ Fault /\ Goto(p, "idle")
  /\ UNCHANGED <<rowVars, answerVars, answers, histVars, calls>>

-----------------------------------------------------------------------------
CallerStep(c) == Insert(c) \/ Link(c)
OwnerStep(o) == Resolve(o) \/ Load(o) \/ Refuse(o)
ExecutionStep(p) == Claim(p) \/ Check(p) \/ Invoke(p) \/ Record(p)

Next ==
  \/ \E c \in Callers : Find(c) \/ CallerStep(c)
  \/ \E o \in Owners : Respond(o) \/ OwnerStep(o)
  \/ Patch
  \/ \E p \in Calls : ExecutionStep(p) \/ RecordFails(p) \/ Die(p)

Spec == Init /\ [][Next]_vars

(* A call that has begun is carried on; nobody has to make one.            *)
Fairness ==
  /\ \A c \in Callers : WF_vars(CallerStep(c))
  /\ \A o \in Owners : WF_vars(OwnerStep(o))
  /\ \A p \in Calls : WF_vars(ExecutionStep(p))

FairSpec == Spec /\ Fairness

-----------------------------------------------------------------------------
(* The calls with one key have got one answer from the policies.           *)
Agreed == \A p, q \in said : p = q

(* "Execute the external action once." The connector acts at most once for *)
(* a key, however often the calls and the owner's clicks are repeated and  *)
(* wherever a call dies, as long as the policies do not change their mind  *)
(* while calls are under way.                                              *)
RunsOnce == Agreed => effects <= 1

(* "Do not execute the external action." Nothing acts before the owner has *)
(* approved it, where approval is required, and never what was rejected or *)
(* blocked.                                                                *)
RunsAllowed ==
  Agreed /\ effects > 0 =>
    \/ policy = "allow"
    \/ policy = "require_approval" /\ \E d \in Decisions : decision[d] = "approved"

(* What a finished row says does not change: no retry, late answer or late *)
(* result writes over it.                                                  *)
OutcomeFinal == [][Agreed' /\ state \in Finished => state' = state]_vars

(* To the rest of the system all calls with the key are one action:        *)
(* answered once, carried out once, and then over.                         *)
Answered(a) == \E d \in Decisions : decision[d] = a
One == INSTANCE OneAction WITH
  agreed <- Agreed,
  answer <- IF policy = "allow" \/ Answered("approved") THEN "yes"
            ELSE IF policy = "block" \/ Answered("rejected") \/ state = "rejected"
                 THEN "no" ELSE "none",
  stage  <- IF state \in {"none", "approved", "awaiting_approval"} THEN "open" ELSE state,
  acted  <- effects
OneActionImplemented == One!Spec

(* What the owner approved is done with, one way or the other, unless a    *)
(* call died or a result was lost. A decision closed without an option     *)
(* approves nothing, whatever its words are.                               *)
ApprovalCarriedOut ==
  (Agreed /\ \E d \in Decisions : link = d /\ decision[d] = "approved")
    ~> (state \in Finished \/ faults > 0 \/ ~Agreed)
==============================================================================
