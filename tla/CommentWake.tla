----------------------------- MODULE CommentWake -----------------------------
(***************************************************************************)
(* The queue of comments that wake the supervisor of one goal. A comment is*)
(* announced by NOTIFY and, in case that is lost, found again by the poll. *)
(* A handler claims it, runs the supervisor under the wake lock of the     *)
(* goal (GoalWake has the other users of that lock), and then marks the    *)
(* comment woken or gives the claim back. A claim older than ten minutes   *)
(* may be taken over while nobody holds the lock.                          *)
(*                                                                         *)
(* A claim is identified by the time it was made. token[c] names the       *)
(* handler whose copy of that time still equals the one in the row: none   *)
(* when the handler is gone, or when the time had microseconds, which a    *)
(* Date does not keep.                                                     *)
(***************************************************************************)
EXTENDS Naturals

CONSTANTS
  Comments,       \* comments of the goal
  BySupervisor,   \* the supervisor's own
  Handlers,       \* overlapping handleNewGoalComment calls
  MaxStarts,      \* bound: starts of the dispatcher
  None, Other, Unmatched

ASSUME CommentAssumption ==
  /\ BySupervisor \subseteq Comments
  /\ MaxStarts \in Nat
  /\ None \notin Handlers \cup Comments
  /\ Other \notin Handlers \cup {None}
  /\ Unmatched \notin Handlers \cup {None}

VARIABLES
  goal,             \* goals.status: active, parked (an answer opens it), over
  session,          \* goals.session_id is set
  status,           \* goal_comments.supervisor_wake_status
  token,            \* who can still name supervisor_wake_claimed_at
  old,              \* claims older than claimStaleAfterMinutes
  lock,             \* the goal's wake lock; Other: held by another wake
  up, starts,       \* the dispatcher process
  notes,            \* notifications under way
  pc, at,           \* one handler: its step and its comment
  heard             \* history: a run on the comment succeeded and was reported

goalVars == <<goal, session>>
rowVars  == <<status, token, old>>
procVars == <<up, starts, notes>>
callVars == <<pc, at>>
vars == <<goal, session, status, token, old, lock, up, starts, notes,
          pc, at, heard>>

Steps == {"idle", "read", "skip", "claim", "lock", "run", "mark", "release",
          "caughtEarly", "caught"}

TypeOK ==
  /\ goal \in {"active", "parked", "over"} /\ session \in BOOLEAN
  /\ status \in [Comments -> {"absent", "pending", "claimed", "woken", "skipped"}]
  /\ token \in [Comments -> Handlers \cup {None, Unmatched}]
  /\ old \in SUBSET Comments
  /\ lock \in {h \in Handlers : pc[h] = "run"} \cup {None, Other}
  /\ up \in BOOLEAN /\ starts \in 0..MaxStarts
  /\ notes \in SUBSET Comments
  /\ pc \in [Handlers -> Steps]
  /\ at \in [Handlers -> Comments \cup {None}]
  /\ heard \in SUBSET Comments

Init ==
  /\ goal = "active" /\ session = FALSE
  /\ status = [c \in Comments |-> "absent"]
  /\ token = [c \in Comments |-> None]
  /\ old = {} /\ lock = None
  /\ up = FALSE /\ starts = 0
  /\ notes = {}
  /\ pc = [h \in Handlers |-> "idle"]
  /\ at = [h \in Handlers |-> None]
  /\ heard = {}

-----------------------------------------------------------------------------
(* Guards of the queries.                                                  *)

active == goal = "active"

StaleAnyhow(c) == status[c] = "claimed" /\ c \in old
NeverStale(c) == FALSE
Stale(c) == status[c] = "claimed" /\ c \in old /\ lock = None

(* findPendingGoalCommentWakes, and the WHERE of claimGoalCommentWake.     *)
Candidate(c) ==
  /\ c \notin BySupervisor /\ active /\ session
  /\ status[c] = "pending" \/ Stale(c)

Mine(h) == status[at[h]] = "claimed" /\ token[at[h]] = h

SkipAny(c) == TRUE
MaySkip(c) == status[c] # "woken"

Goto(h, step) == pc' = [pc EXCEPT ![h] = step] /\ UNCHANGED at

(* The call is over; a claim it leaves behind matches nobody's copy.       *)
Leave(h) ==
  /\ pc' = [pc EXCEPT ![h] = "idle"]
  /\ at' = [at EXCEPT ![h] = None]
Forget(tok, h) == [c \in Comments |-> IF tok[c] = h THEN Unmatched ELSE tok[c]]

(* The row leaves the claimed state, if the condition holds; h is done.    *)
Settle(h, cond, s) ==
  /\ status' = IF cond THEN [status EXCEPT ![at[h]] = s] ELSE status
  /\ token' = Forget(IF cond THEN [token EXCEPT ![at[h]] = None] ELSE token, h)
  /\ old' = IF cond THEN old \ {at[h]} ELSE old
  /\ Leave(h)

-----------------------------------------------------------------------------
(* handleNewGoalComment.                                                   *)

Begin(h, c) ==
  /\ up /\ pc[h] = "idle"
  /\ pc' = [pc EXCEPT ![h] = "read"]
  /\ at' = [at EXCEPT ![h] = c]

(* NOTIFY arrives. *)
Deliver(h) ==
  \E c \in notes :
    /\ Begin(h, c) /\ notes' = notes \ {c}
    /\ UNCHANGED <<goalVars, rowVars, lock, up, starts, heard>>

(* processPendingGoalCommentWakes comes to c of its list. *)
Poll(h, c) ==
  /\ Candidate(c) /\ Begin(h, c)
  /\ UNCHANGED <<goalVars, rowVars, lock, procVars, heard>>

(* The comment and its goal; without a session it is left for later.       *)
Read(h) ==
  /\ pc[h] = "read"
  /\ \/ (at[h] \in BySupervisor \/ ~active) /\ Goto(h, "skip")
     \/ at[h] \notin BySupervisor /\ active /\ session /\ Goto(h, "claim")
     \/ at[h] \notin BySupervisor /\ active /\ ~session /\ Leave(h)
  /\ UNCHANGED <<goalVars, rowVars, lock, procVars, heard>>

(* markGoalCommentWakeSkipped, without a token. *)
Skip(h) ==
  /\ pc[h] = "skip"
  /\ Settle(h, MaySkip(at[h]), "skipped")
  /\ UNCHANGED <<goalVars, lock, procVars, heard>>

(* claimGoalCommentWake. *)
Claim(h) ==
  /\ pc[h] = "claim"
  /\ \/ /\ Candidate(at[h])
        /\ status' = [status EXCEPT ![at[h]] = "claimed"]
        /\ \E t \in {h, Unmatched} : token' = [token EXCEPT ![at[h]] = t]
        /\ old' = old \ {at[h]}
        /\ Goto(h, "lock")
     \/ ~Candidate(at[h]) /\ Leave(h) /\ UNCHANGED rowVars
  /\ UNCHANGED <<goalVars, lock, procVars, heard>>

(* The lock, the session that wakeUpSupervisorOnComment reads, the run.    *)
TryLock(h) ==
  /\ pc[h] = "lock"
  /\ IF lock = None /\ session
     THEN lock' = h /\ Goto(h, "run")
     ELSE UNCHANGED lock /\ Goto(h, "release")
  /\ UNCHANGED <<goalVars, rowVars, procVars, heard>>

Unlock(h) == lock' = IF lock = h THEN None ELSE lock

RunSucceeds(h) ==
  /\ pc[h] = "run"
  /\ Goto(h, "mark")
  /\ Unlock(h)
  /\ UNCHANGED <<goalVars, rowVars, procVars, heard>>

(* The wake reports an error; or it, or the unlock after it, throws.       *)
RunFails(h) ==
  /\ pc[h] = "run"
  /\ \/ Goto(h, "release") \/ Goto(h, "caught")
  /\ Unlock(h)
  /\ UNCHANGED <<goalVars, rowVars, procVars, heard>>

(* markGoalCommentWakeProcessed and releaseGoalCommentWakeClaim.           *)
Mark(h) ==
  /\ pc[h] = "mark"
  /\ Settle(h, Mine(h), "woken")
  /\ heard' = heard \cup {at[h]}
  /\ UNCHANGED <<goalVars, lock, procVars>>

Release(h) ==
  /\ pc[h] = "release"
  /\ Settle(h, Mine(h), "pending")
  /\ UNCHANGED <<goalVars, lock, procVars, heard>>

(* A query throws. *)
Throws(h) ==
  /\ \/ pc[h] \in {"read", "skip", "claim"} /\ Goto(h, "caughtEarly")
     \/ pc[h] \in {"lock", "mark", "release"} /\ Goto(h, "caught")
  /\ UNCHANGED <<goalVars, rowVars, lock, procVars, heard>>

(* The catch block: before a claim is made there is no token to compare,   *)
(* and the release takes any claim. It may throw, too.                     *)
Caught(h) ==
  /\ \/ /\ pc[h] = "caught" /\ Settle(h, Mine(h), "pending")
     \/ /\ pc[h] = "caughtEarly"
        /\ Settle(h, status[at[h]] = "claimed", "pending")
     \/ pc[h] \in {"caught", "caughtEarly"} /\ Settle(h, FALSE, "pending")
  /\ UNCHANGED <<goalVars, lock, procVars, heard>>

-----------------------------------------------------------------------------
(* The rest of the system.                                                 *)

(* A comment is added, and the trigger notifies who listens.               *)
Post(c) ==
  /\ status[c] = "absent"
  /\ status' = [status EXCEPT ![c] = "pending"]
  /\ notes' = IF up THEN notes \cup {c} ELSE notes
  /\ UNCHANGED <<token, old, lock, up, starts, callVars, heard>>

Comment(c) == Post(c) /\ UNCHANGED goalVars

(* The owner answers a decision: a comment, and a goal without a session.  *)
Respond(c) ==
  /\ Post(c) /\ c \notin BySupervisor /\ goal \in {"active", "parked"}
  /\ goal' = "active" /\ session' = FALSE

(* Ten minutes pass since the claim. *)
ClaimAges(c) ==
  /\ status[c] = "claimed" /\ c \notin old
  /\ old' = old \cup {c}
  /\ UNCHANGED <<goalVars, status, token, lock, procVars, callVars, heard>>

(* Another start or wake of this goal. *)
OtherTakes ==
  /\ up /\ lock = None /\ lock' = Other
  /\ UNCHANGED <<goalVars, rowVars, procVars, callVars, heard>>

OtherFrees ==
  /\ lock = Other /\ lock' = None
  /\ UNCHANGED <<goalVars, rowVars, procVars, callVars, heard>>

(* The session is claimed by a start, or given up. *)
SessionChanges ==
  /\ active /\ session' = ~session
  /\ UNCHANGED <<goal, rowVars, lock, procVars, callVars, heard>>

(* The supervisor closes the goal; or it is paused, or abandoned.          *)
GoalStops ==
  \/ /\ active /\ goal' = "parked" /\ session' = FALSE
     /\ UNCHANGED <<rowVars, lock, procVars, callVars, heard>>
  \/ /\ goal # "over" /\ goal' = "over" /\ session' \in {session, FALSE}
     /\ UNCHANGED <<rowVars, lock, procVars, callVars, heard>>

Start ==
  /\ ~up /\ starts < MaxStarts
  /\ up' = TRUE /\ starts' = starts + 1
  /\ UNCHANGED <<goalVars, rowVars, lock, notes, callVars, heard>>

Crash ==
  /\ up /\ starts < MaxStarts
  /\ up' = FALSE
  /\ lock' = None
  /\ notes' = {}
  /\ token' = [c \in Comments |-> IF token[c] = None THEN None ELSE Unmatched]
  /\ pc' = [h \in Handlers |-> "idle"]
  /\ at' = [h \in Handlers |-> None]
  /\ UNCHANGED <<goalVars, status, old, starts, heard>>

-----------------------------------------------------------------------------
HandlerStep(h) ==
  \/ Deliver(h) \/ Read(h) \/ Skip(h) \/ Claim(h)
  \/ TryLock(h) \/ RunSucceeds(h) \/ RunFails(h) \/ Mark(h)
  \/ Release(h) \/ Throws(h) \/ Caught(h)
  \/ \E c \in Comments : Poll(h, c)

Next ==
  \/ \E h \in Handlers : HandlerStep(h)
  \/ \E c \in Comments : Comment(c) \/ Respond(c) \/ ClaimAges(c)
  \/ OtherTakes \/ OtherFrees \/ SessionChanges \/ GoalStops
  \/ Start \/ Crash

Spec == Init /\ [][Next]_vars

(* The poll comes back to every candidate, an await returns, a run ends,   *)
(* and the other users of the lock give it back. A comment that is tried   *)
(* again and again meets, in the end, working queries and a run that       *)
(* succeeds. The other wakes end, too, as a goal has finitely many sprints *)
(* and each is woken a bounded number of times.                            *)
OthersEnd == <>[][~OtherTakes]_vars

Tried(c) ==
  /\ SF_vars(\E h \in Handlers : at[h] = c /\ Read(h))
  /\ SF_vars(\E h \in Handlers : at[h] = c /\ Claim(h))
  /\ SF_vars(\E h \in Handlers : at[h] = c /\ TryLock(h))
  /\ SF_vars(\E h \in Handlers : at[h] = c /\ RunSucceeds(h))
  /\ SF_vars(\E h \in Handlers : at[h] = c /\ Mark(h))

Fairness ==
  /\ WF_vars(Start) /\ WF_vars(OtherFrees) /\ OthersEnd
  /\ \A c \in Comments : WF_vars(ClaimAges(c)) /\ Tried(c)
  /\ \A c \in Comments : WF_vars(\E h \in Handlers : Poll(h, c))
  /\ \A h \in Handlers : WF_vars(pc[h] # "idle" /\ HandlerStep(h))

LiveSpec == Spec /\ Fairness

-----------------------------------------------------------------------------
(* Properties.                                                             *)

(* No waiting comment on a goal with a supervisor is lost: notifications,  *)
(* claims of dead or failing handlers, a lock held by other wakes and      *)
(* releases that match no row all end in a run that has the comment.       *)
Unheard(c) ==
  /\ active /\ session /\ c \notin BySupervisor
  /\ status[c] \in {"pending", "claimed"} /\ c \notin heard

CommentHeard == \A c \in Comments : Unheard(c) ~> ~Unheard(c)

(* A claim is taken over as stale only if no supervisor run on that        *)
(* comment is going on, however long it lasts.                             *)
ReclaimsIdle(h) ==
  /\ pc[h] = "claim" /\ pc'[h] = "lock"
  /\ status[at[h]] = "claimed"
  => \A g \in Handlers : ~(pc[g] = "run" /\ at[g] = at[h])

ReclaimIdle == [][\A h \in Handlers : ReclaimsIdle(h)]_vars

(* A comment that was woken or skipped stays so: neither a handler that    *)
(* read the goal before, nor a late release, nor one that lost its claim   *)
(* changes it again.                                                       *)
StaysTerminal(c) ==
  status[c] \in {"woken", "skipped"} => status'[c] = status[c]

TerminalFinal == [][\A c \in Comments : StaysTerminal(c)]_vars

(* goal-lifecycle.test.ts: a wake that was marked processed can not be     *)
(* claimed again.                                                          *)
ClaimsUnheard(h) ==
  pc[h] = "claim" /\ pc'[h] = "lock" => at[h] \notin heard

WokenOnce == [][\A h \in Handlers : ClaimsUnheard(h)]_vars
=============================================================================
