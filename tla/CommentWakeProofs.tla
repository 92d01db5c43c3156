-------------------------- MODULE CommentWakeProofs --------------------------
(***************************************************************************)
(* Safety of CommentWake for any number of comments, handlers and restarts.*)
(***************************************************************************)
EXTENDS CommentWake, TLAPS

(* A handler that is busy has a comment, and one that runs the supervisor  *)
(* holds the lock.                                                         *)
Placed ==
  \A h \in Handlers :
    /\ pc[h] # "idle" => at[h] \in Comments
    /\ pc[h] = "run" => lock = h

CommentInv == TypeOK /\ Placed

(* The row, the lock and the calls stay well formed.                       *)
LEMMA CommentTyping ==
  ASSUME TypeOK, Placed, [Next]_vars
  PROVE  TypeOK'
<1>. USE CommentAssumption DEF TypeOK, Placed, Steps, goalVars, rowVars, procVars, callVars
<1>1. ASSUME NEW h \in Handlers, HandlerStep(h)  PROVE  TypeOK'
  <2>1. CASE Deliver(h)
    BY <2>1 DEF Deliver, Begin
  <2>2. CASE Read(h)
    BY <2>2 DEF Read, Goto, Leave
  <2>3. CASE Skip(h)
    BY <2>3 DEF Skip, Settle, Forget, Leave
  <2>4. CASE Claim(h)
    BY <2>4 DEF Claim, Goto, Leave
  <2>5. CASE TryLock(h)
    BY <2>5 DEF TryLock, Goto
  <2>6. CASE RunSucceeds(h)
    BY <2>6 DEF RunSucceeds, Goto, Unlock
  <2>7. CASE RunFails(h)
    BY <2>7 DEF RunFails, Goto, Unlock
  <2>8. CASE Mark(h)
    BY <2>8 DEF Mark, Settle, Forget, Leave
  <2>9. CASE Release(h)
    BY <2>9 DEF Release, Settle, Forget, Leave
  <2>10. CASE Throws(h)
    BY <2>10 DEF Throws, Goto
  <2>11. CASE Caught(h)
    BY <2>11 DEF Caught, Settle, Forget, Leave
  <2>12. CASE \E c \in Comments : Poll(h, c)
    BY <2>12 DEF Poll, Begin
  <2>. QED BY <1>1, <2>1, <2>2, <2>3, <2>4, <2>5, <2>6, <2>7, <2>8, <2>9, <2>10, <2>11, <2>12
    DEF HandlerStep
<1>2. ASSUME NEW c \in Comments, Comment(c)  PROVE  TypeOK'
  BY <1>2 DEF Comment, Post
<1>3. ASSUME NEW c \in Comments, Respond(c)  PROVE  TypeOK'
  BY <1>3 DEF Respond, Post
<1>4. ASSUME NEW c \in Comments, ClaimAges(c)  PROVE  TypeOK'
  BY <1>4 DEF ClaimAges
<1>5. CASE OtherTakes
  BY <1>5 DEF OtherTakes
<1>6. CASE OtherFrees
  BY <1>6 DEF OtherFrees
<1>7. CASE SessionChanges
  BY <1>7 DEF SessionChanges
<1>8. CASE GoalStops
  BY <1>8 DEF GoalStops
<1>9. CASE Start
  BY <1>9 DEF Start
<1>10. CASE Crash
  BY <1>10 DEF Crash
<1>11. CASE UNCHANGED vars
  BY <1>11 DEF vars
<1>. QED BY <1>1, <1>2, <1>3, <1>4, <1>5, <1>6, <1>7, <1>8, <1>9, <1>10, <1>11
    DEF Next

(* A handler keeps its comment, and the lock while it runs.                *)
LEMMA Placing ==
  ASSUME TypeOK, Placed, [Next]_vars
  PROVE  Placed'
<1>. USE CommentAssumption DEF TypeOK, Placed, goalVars, rowVars, procVars, callVars
<1>1. ASSUME NEW h \in Handlers, HandlerStep(h)  PROVE  Placed'
  <2>1. CASE Deliver(h)
    BY <2>1 DEF Deliver, Begin
  <2>2. CASE Read(h)
    BY <2>2 DEF Read, Goto, Leave
  <2>3. CASE Skip(h)
    BY <2>3 DEF Skip, Settle, Forget, Leave
  <2>4. CASE Claim(h)
    BY <2>4 DEF Claim, Goto, Leave
  <2>5. CASE TryLock(h)
    BY <2>5 DEF TryLock, Goto
  <2>6. CASE RunSucceeds(h)
    BY <2>6 DEF RunSucceeds, Goto, Unlock
  <2>7. CASE RunFails(h)
    BY <2>7 DEF RunFails, Goto, Unlock
  <2>8. CASE Mark(h)
    BY <2>8 DEF Mark, Settle, Forget, Leave
  <2>9. CASE Release(h)
    BY <2>9 DEF Release, Settle, Forget, Leave
  <2>10. CASE Throws(h)
    BY <2>10 DEF Throws, Goto
  <2>11. CASE Caught(h)
    BY <2>11 DEF Caught, Settle, Forget, Leave
  <2>12. CASE \E c \in Comments : Poll(h, c)
    BY <2>12 DEF Poll, Begin
  <2>. QED BY <1>1, <2>1, <2>2, <2>3, <2>4, <2>5, <2>6, <2>7, <2>8, <2>9, <2>10, <2>11, <2>12
    DEF HandlerStep
<1>2. ASSUME NEW c \in Comments, Comment(c)  PROVE  Placed'
  BY <1>2 DEF Comment, Post
<1>3. ASSUME NEW c \in Comments, Respond(c)  PROVE  Placed'
  BY <1>3 DEF Respond, Post
<1>4. ASSUME NEW c \in Comments, ClaimAges(c)  PROVE  Placed'
  BY <1>4 DEF ClaimAges
<1>5. CASE OtherTakes
  BY <1>5 DEF OtherTakes
<1>6. CASE OtherFrees
  BY <1>6 DEF OtherFrees
<1>7. CASE SessionChanges
  BY <1>7 DEF SessionChanges
<1>8. CASE GoalStops
  BY <1>8 DEF GoalStops
<1>9. CASE Start
  BY <1>9 DEF Start
<1>10. CASE Crash
  BY <1>10 DEF Crash
<1>11. CASE UNCHANGED vars
  BY <1>11 DEF vars
<1>. QED BY <1>1, <1>2, <1>3, <1>4, <1>5, <1>6, <1>7, <1>8, <1>9, <1>10, <1>11
    DEF Next

(* A claim of a claimed comment needs the lock to be free.                 *)
LEMMA Reclaiming ==
  ASSUME TypeOK, Placed, [Next]_vars
  PROVE  \A k \in Handlers : ReclaimsIdle(k)
<1>. USE CommentAssumption DEF TypeOK, Placed, ReclaimsIdle, goalVars, rowVars, procVars, callVars
<1>1. ASSUME NEW h \in Handlers, HandlerStep(h)  PROVE  \A k \in Handlers : ReclaimsIdle(k)
  <2>1. CASE Deliver(h)
    BY <2>1 DEF Deliver, Begin
  <2>2. CASE Read(h)
    BY <2>2 DEF Read, Goto, Leave
  <2>3. CASE Skip(h)
    BY <2>3 DEF Skip, Settle, Forget, Leave
  <2>4. CASE Claim(h)
    BY <2>4 DEF Claim, Goto, Leave, Candidate, Stale
  <2>5. CASE TryLock(h)
    BY <2>5 DEF TryLock, Goto
  <2>6. CASE RunSucceeds(h)
    BY <2>6 DEF RunSucceeds, Goto, Unlock
  <2>7. CASE RunFails(h)
    BY <2>7 DEF RunFails, Goto, Unlock
  <2>8. CASE Mark(h)
    BY <2>8 DEF Mark, Settle, Forget, Leave
  <2>9. CASE Release(h)
    BY <2>9 DEF Release, Settle, Forget, Leave
  <2>10. CASE Throws(h)
    BY <2>10 DEF Throws, Goto
  <2>11. CASE Caught(h)
    BY <2>11 DEF Caught, Settle, Forget, Leave
  <2>12. CASE \E c \in Comments : Poll(h, c)
    BY <2>12 DEF Poll, Begin
  <2>. QED BY <1>1, <2>1, <2>2, <2>3, <2>4, <2>5, <2>6, <2>7, <2>8, <2>9, <2>10, <2>11, <2>12
    DEF HandlerStep
<1>2. ASSUME NEW c \in Comments, Comment(c)  PROVE  \A k \in Handlers : ReclaimsIdle(k)
  BY <1>2 DEF Comment, Post
<1>3. ASSUME NEW c \in Comments, Respond(c)  PROVE  \A k \in Handlers : ReclaimsIdle(k)
  BY <1>3 DEF Respond, Post
<1>4. ASSUME NEW c \in Comments, ClaimAges(c)  PROVE  \A k \in Handlers : ReclaimsIdle(k)
  BY <1>4 DEF ClaimAges
<1>5. CASE OtherTakes
  BY <1>5 DEF OtherTakes
<1>6. CASE OtherFrees
  BY <1>6 DEF OtherFrees
<1>7. CASE SessionChanges
  BY <1>7 DEF SessionChanges
<1>8. CASE GoalStops
  BY <1>8 DEF GoalStops
<1>9. CASE Start
  BY <1>9 DEF Start
<1>10. CASE Crash
  BY <1>10 DEF Crash
<1>11. CASE UNCHANGED vars
  BY <1>11 DEF vars
<1>. QED BY <1>1, <1>2, <1>3, <1>4, <1>5, <1>6, <1>7, <1>8, <1>9, <1>10, <1>11
    DEF Next

(* Every write to a row that is woken or skipped leaves it as it is.       *)
LEMMA Finishing ==
  ASSUME TypeOK, Placed, [Next]_vars
  PROVE  \A d \in Comments : StaysTerminal(d)
<1>. USE CommentAssumption DEF TypeOK, Placed, StaysTerminal, goalVars, rowVars, procVars, callVars
<1>1. ASSUME NEW h \in Handlers, HandlerStep(h)  PROVE  \A d \in Comments : StaysTerminal(d)
  <2>1. CASE Deliver(h)
    BY <2>1 DEF Deliver, Begin
  <2>2. CASE Read(h)
    BY <2>2 DEF Read, Goto, Leave
  <2>3. CASE Skip(h)
    BY <2>3 DEF Skip, Settle, MaySkip
  <2>4. CASE Claim(h)
    BY <2>4 DEF Claim, Goto, Leave, Candidate, Stale
  <2>5. CASE TryLock(h)
    BY <2>5 DEF TryLock, Goto
  <2>6. CASE RunSucceeds(h)
    BY <2>6 DEF RunSucceeds, Goto, Unlock
  <2>7. CASE RunFails(h)
    BY <2>7 DEF RunFails, Goto, Unlock
  <2>8. CASE Mark(h)
    BY <2>8 DEF Mark, Settle, Mine
  <2>9. CASE Release(h)
    BY <2>9 DEF Release, Settle, Mine
  <2>10. CASE Throws(h)
    BY <2>10 DEF Throws, Goto
  <2>11. CASE Caught(h)
    BY <2>11 DEF Caught, Settle, Mine
  <2>12. CASE \E c \in Comments : Poll(h, c)
    BY <2>12 DEF Poll, Begin
  <2>. QED BY <1>1, <2>1, <2>2, <2>3, <2>4, <2>5, <2>6, <2>7, <2>8, <2>9, <2>10, <2>11, <2>12
    DEF HandlerStep
<1>2. ASSUME NEW c \in Comments, Comment(c)  PROVE  \A d \in Comments : StaysTerminal(d)
  BY <1>2 DEF Comment, Post
<1>3. ASSUME NEW c \in Comments, Respond(c)  PROVE  \A d \in Comments : StaysTerminal(d)
  BY <1>3 DEF Respond, Post
<1>4. ASSUME NEW c \in Comments, ClaimAges(c)  PROVE  \A d \in Comments : StaysTerminal(d)
  BY <1>4 DEF ClaimAges
<1>5. CASE OtherTakes
  BY <1>5 DEF OtherTakes
<1>6. CASE OtherFrees
  BY <1>6 DEF OtherFrees
<1>7. CASE SessionChanges
  BY <1>7 DEF SessionChanges
<1>8. CASE GoalStops
  BY <1>8 DEF GoalStops
<1>9. CASE Start
  BY <1>9 DEF Start
<1>10. CASE Crash
  BY <1>10 DEF Crash
<1>11. CASE UNCHANGED vars
  BY <1>11 DEF vars
<1>. QED BY <1>1, <1>2, <1>3, <1>4, <1>5, <1>6, <1>7, <1>8, <1>9, <1>10, <1>11
    DEF Next

-----------------------------------------------------------------------------
(* The initial states satisfy the invariant, and every step preserves it.  *)
LEMMA CommentInit == Init => CommentInv
<1>. SUFFICES ASSUME Init  PROVE CommentInv
  OBVIOUS
<1>1. 0 \in 0..MaxStarts  BY CommentAssumption
<1>2. TypeOK
  BY <1>1, Zenon DEF Init, TypeOK, Steps
<1>3. Placed
  BY DEF Init, Placed
<1>. QED BY <1>2, <1>3 DEF CommentInv

LEMMA CommentStep == CommentInv /\ [Next]_vars => CommentInv'
BY CommentTyping, Placing DEF CommentInv

THEOREM CommentInvariant == Spec => []CommentInv
BY CommentInit, CommentStep, PTL DEF Spec

(* Rows, lock and calls of the comment queue are well formed; the lock is  *)
(* held by no handler that is not running the supervisor.                  *)
THEOREM CommentTypeCorrect == Spec => []TypeOK
<1>1. CommentInv => TypeOK  BY DEF CommentInv
<1>. QED BY CommentInvariant, <1>1, PTL

(* The takeover of a stale claim never meets a live run on that comment,   *)
(* however many handlers there are and however long the run lasts.         *)
THEOREM ReclaimIdleHolds == Spec => ReclaimIdle
<1>1. CommentInv /\ [Next]_vars => [\A h \in Handlers : ReclaimsIdle(h)]_vars
  BY Reclaiming DEF CommentInv
<1>. QED BY CommentInvariant, <1>1, PTL DEF Spec, ReclaimIdle

(* No handler, however late, changes a comment that was woken or skipped.  *)
THEOREM TerminalFinalHolds == Spec => TerminalFinal
<1>1. CommentInv /\ [Next]_vars => [\A c \in Comments : StaysTerminal(c)]_vars
  BY Finishing DEF CommentInv
<1>. QED BY CommentInvariant, <1>1, PTL DEF Spec, TerminalFinal
=============================================================================
