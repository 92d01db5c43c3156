--------------------------- MODULE TaskClaimProofs ---------------------------
(***************************************************************************)
(* Theorems about TaskClaim, for every set of tasks, roles, limits,        *)
(* dispatchers and overlapping calls.                                      *)
(***************************************************************************)
EXTENDS TaskClaim, FiniteSetTheorems, TLAPS

(* TypeOK is inductive on its own. *)
LEMMA TypeInit == Init => TypeOK
  BY TaskAssumption DEF Init, TypeOK, Pids, NoPid, Statuses, Claimers

LEMMA ClaimerPair ==
  ASSUME NEW c \in Claimers
  PROVE  c[1] \in Dispatchers /\ c[2] \in Calls /\ c = <<c[1], c[2]>>
  BY DEF Claimers

(* Counting up one entry of a counter per task, whatever the key. *)
LEMMA CountUp ==
  ASSUME NEW f \in [Tasks -> Nat], NEW x
  PROVE  [f EXCEPT ![x] = @ + 1] \in [Tasks -> Nat]
<1>1. CASE x \in Tasks
  <2>1. f[x] + 1 \in Nat
    BY <1>1
  <2> QED
    BY <1>1, <2>1
<1>2. CASE x \notin Tasks
  BY <1>2
<1> QED
  BY <1>1, <1>2

LEMMA FreeLocksType ==
  ASSUME TypeOK, NEW c
  PROVE  FreeLocks(c) \in [Roles -> Claimers \cup {None}]
  BY DEF FreeLocks, TypeOK

LEMMA LeaveType ==
  ASSUME TypeOK, NEW c \in Claimers, Leave(c)
  PROVE  TypeOK'
  BY FreeLocksType, ClaimerPair
     DEF Leave, FlagCleared, TypeOK, dbVars, procVars, execVars, auxVars

LEMMA CallType ==
  ASSUME TypeOK, NEW c \in Claimers, Enter(c) \/ CallStep(c) \/ ClaimThrows(c)
  PROVE  TypeOK'
<1> USE TaskAssumption
<1>0. c[1] \in Dispatchers
  BY ClaimerPair
<1> USE <1>0
<1>1. CASE Enter(c)
  BY <1>1 DEF Enter, TypeOK, dbVars, procVars, loopVars, execVars, auxVars
<1>2. CASE ReadCap(c)
  BY <1>2 DEF ReadCap, TypeOK, dbVars, procVars, execVars, auxVars
<1>3. CASE DiskRecover(c)
  <2>1. status' \in [Tasks -> Statuses]
    BY <1>3 DEF DiskRecover, TypeOK, Statuses
  <2>2. owner' \in [Tasks -> Pids \cup {NoPid}]
    BY <1>3 DEF DiskRecover, TypeOK
  <2>3. ready' \in SUBSET Tasks
    BY <1>3 DEF DiskRecover, TypeOK
  <2> QED
    BY <1>3, <2>1, <2>2, <2>3 DEF DiskRecover, TypeOK, procVars, loopVars,
                                  execVars, auxVars
<1>4. CASE BeginClaim(c)
  <2>1. Candidates \in SUBSET Tasks
    BY DEF Candidates
  <2> QED
    BY <1>4, <2>1 DEF BeginClaim, TypeOK, dbVars, procVars, loopVars,
                      execVars, auxVars
<1>5. CASE LoopExit(c) \/ NothingClaimed(c) \/ ClaimThrows(c)
  BY <1>5, LeaveType DEF LoopExit, NothingClaimed, ClaimThrows
<1>6. CASE TryRoleLock(c)
  <2>1. PICK t \in Tasks :
          \/ /\ roleLock' = [roleLock EXCEPT ![RoleOf[t]] = c]
             /\ pc' = [pc EXCEPT ![c] = "update"]
             /\ UNCHANGED todo
          \/ /\ todo' = [todo EXCEPT ![c] = @ \ {t}]
             /\ UNCHANGED <<roleLock, pc>>
    BY <1>6 DEF TryRoleLock
  <2>2. roleLock' \in [Roles -> Claimers \cup {None}]
    <3>1. roleLock \in [Roles -> Claimers \cup {None}]
      BY DEF TypeOK
    <3> QED
      BY <2>1, <3>1
  <2>4. todo' \in [Claimers -> SUBSET Tasks]
    <3>1. todo \in [Claimers -> SUBSET Tasks]
      BY DEF TypeOK
    <3> QED
      BY <2>1, <3>1
  <2>3. pc' \in [Claimers -> {"idle", "cap", "disk", "loop", "roles",
                              "update", "commit", "gate"}]
    BY <2>1 DEF TypeOK
  <2> QED
    BY <1>6, <2>2, <2>3, <2>4 DEF TryRoleLock, TypeOK, dbVars, procVars, loopVars,
                            execVars, auxVars
<1>7. CASE UpdateRole(c)
  <2>1. picked' \in [Claimers -> Tasks \cup {None}]
    BY <1>7 DEF UpdateRole, TypeOK
  <2>2. todo' \in [Claimers -> SUBSET Tasks]
    <3>1. todo \in [Claimers -> SUBSET Tasks]
      BY DEF TypeOK
    <3> QED
      BY <1>7, <3>1 DEF UpdateRole
  <2>3. pc' \in [Claimers -> {"idle", "cap", "disk", "loop", "roles",
                              "update", "commit", "gate"}]
    BY <1>7 DEF UpdateRole, TypeOK
  <2> QED
    BY <1>7, <2>1, <2>2, <2>3 DEF UpdateRole, TypeOK, dbVars, procVars,
                                  loopVars, execVars, auxVars
<1>8. CASE Commit(c)
  BY <1>8, FreeLocksType
     DEF Commit, TypeOK, Statuses, procVars, loopVars, execVars
<1>9. CASE GateBlock(c)
  <2>1. status' \in [Tasks -> Statuses]
    BY <1>9 DEF GateBlock, TypeOK, Statuses
  <2> QED
    BY <1>9, <2>1 DEF GateBlock, TypeOK, procVars, loopVars, execVars, auxVars
<1>10. CASE GateAllow(c)
  <2>1. runs' \in [Dispatchers -> [Tasks -> Nat]]
    <3>1. runs \in [Dispatchers -> [Tasks -> Nat]]
      BY DEF TypeOK
    <3>2. runs[c[1]] \in [Tasks -> Nat]
      BY <3>1
    <3>3. [runs[c[1]] EXCEPT ![picked[c]] = @ + 1] \in [Tasks -> Nat]
      BY <3>2, CountUp
    <3>4. runs' = [runs EXCEPT ![c[1]] = [runs[c[1]] EXCEPT ![picked[c]] = @ + 1]]
      BY <1>10 DEF GateAllow
    <3> QED
      BY <3>1, <3>3, <3>4
  <2>2. activeTasks' \in [Dispatchers -> Nat]
    BY <1>10 DEF GateAllow, TypeOK
  <2> QED
    BY <1>10, <2>1, <2>2 DEF GateAllow, TypeOK, dbVars, procVars, auxVars
<1> QED
  BY <1>1, <1>2, <1>3, <1>4, <1>5, <1>6, <1>7, <1>8, <1>9, <1>10 DEF CallStep

LEMMA ReleaseType ==
  ASSUME TypeOK, NEW t \in Tasks, Release(t)
  PROVE  /\ status' \in [Tasks -> Statuses]
         /\ owner' \in [Tasks -> Pids \cup {NoPid}]
         /\ ready' \in SUBSET Tasks
<1>1. CASE status' = [status EXCEPT ![t] = "pending"]
  BY <1>1 DEF Release, TypeOK, Statuses
<1>2. CASE status' = [status EXCEPT ![t] = "done"]
  BY <1>2 DEF Release, TypeOK, Statuses
<1>3. CASE UNCHANGED <<status, owner, ready>>
  BY <1>3 DEF TypeOK
<1> QED
  BY <1>1, <1>2, <1>3 DEF Release

LEMMA DispatcherType ==
  ASSUME TypeOK, NEW d \in Dispatchers, DispatcherStep(d)
  PROVE  TypeOK'
<1> USE TaskAssumption
<1>1. CASE ExecEnd(d)
  BY <1>1 DEF ExecEnd, TypeOK, dbVars, procVars, callVars, auxVars
<1>2. CASE Start(d)
  BY <1>2 DEF Start, TypeOK, Pids, dbVars, loopVars, callVars, execVars, auxVars
<1>3. CASE RecoverScan(d)
  <2>1. recov' \in [Dispatchers -> SUBSET (Tasks \X Pids)]
    BY <1>3 DEF RecoverScan, TypeOK
  <2> QED
    BY <1>3, <2>1 DEF RecoverScan, TypeOK, dbVars, loopVars, callVars, execVars
<1>4. CASE RecoverDone(d)
  BY <1>4 DEF RecoverDone, TypeOK, dbVars, loopVars, callVars, execVars
<1>5. CASE DrainRequest(d) \/ Shutdown(d)
  BY <1>5 DEF DrainRequest, Shutdown, TypeOK, dbVars, loopVars, callVars,
              execVars, auxVars
<1>6. CASE Exit(d)
  <2>1. /\ roleLock' \in [Roles -> Claimers \cup {None}]
        /\ todo' \in [Claimers -> SUBSET Tasks]
        /\ picked' \in [Claimers -> Tasks \cup {None}]
    BY <1>6 DEF Exit, TypeOK
  <2>2. pc' \in [Claimers -> {"idle", "cap", "disk", "loop", "roles",
                              "update", "commit", "gate"}]
    BY <1>6 DEF Exit, TypeOK
  <2>3. runs' \in [Dispatchers -> [Tasks -> Nat]]
    BY <1>6 DEF Exit, TypeOK
  <2> QED
    BY <1>6, <2>1, <2>2, <2>3 DEF Exit, TypeOK, NoPid, dbVars
<1>7. ASSUME NEW t \in Tasks, ExecWrite(d, t)
      PROVE  TypeOK'
  <2>1. /\ status' \in [Tasks -> Statuses]
        /\ owner' \in [Tasks -> Pids \cup {NoPid}]
        /\ ready' \in SUBSET Tasks
    <3>1. CASE Release(t)
      BY <3>1, ReleaseType
    <3>2. CASE ~Release(t)
      <4>1. PICK s \in Outcomes \ {"pending"} :
              /\ status' = [status EXCEPT ![t] = s]
              /\ UNCHANGED <<owner, ready>>
        BY <1>7, <3>2 DEF ExecWrite, Outcome
      <4>2. s \in Statuses
        BY DEF Statuses
      <4> QED
        BY <4>1, <4>2 DEF TypeOK
    <3> QED
      BY <3>1, <3>2
  <2>2. runs' \in [Dispatchers -> [Tasks -> Nat]]
    BY <1>7 DEF ExecWrite, TypeOK
  <2>3. ending' \in [Dispatchers -> Nat]
    BY <1>7 DEF ExecWrite, TypeOK
  <2> QED
    BY <1>7, <2>1, <2>2, <2>3 DEF ExecWrite, TypeOK, procVars, loopVars,
                                  callVars, auxVars
<1>8. ASSUME NEW t \in Tasks, ExecThrows(d, t)
      PROVE  TypeOK'
  <2>1. runs' \in [Dispatchers -> [Tasks -> Nat]]
    BY <1>8 DEF ExecThrows, TypeOK
  <2>2. ending' \in [Dispatchers -> Nat]
    BY <1>8 DEF ExecThrows, TypeOK
  <2> QED
    BY <1>8, <2>1, <2>2 DEF ExecThrows, TypeOK, dbVars, procVars, loopVars,
                            callVars, auxVars
<1>9. ASSUME NEW t \in Tasks, RecoverTask(d, t)
      PROVE  TypeOK'
  <2>1. /\ status' \in [Tasks -> Statuses]
        /\ owner' \in [Tasks -> Pids \cup {NoPid}]
        /\ ready' \in SUBSET Tasks
    <3>1. \/ /\ status' = [status EXCEPT ![t] = "pending"]
             /\ owner' = [owner EXCEPT ![t] = NoPid]
             /\ ready' = ready \cup {t}
          \/ UNCHANGED <<status, owner, ready>>
      BY <1>9 DEF RecoverTask
    <3>2. [status EXCEPT ![t] = "pending"] \in [Tasks -> Statuses]
      BY DEF TypeOK, Statuses
    <3>3. [owner EXCEPT ![t] = NoPid] \in [Tasks -> Pids \cup {NoPid}]
      BY DEF TypeOK
    <3>4. ready \cup {t} \in SUBSET Tasks
      BY DEF TypeOK
    <3> QED
      BY <3>1, <3>2, <3>3, <3>4 DEF TypeOK
  <2>2. recov' \in [Dispatchers -> SUBSET (Tasks \X Pids)]
    BY <1>9 DEF RecoverTask, TypeOK
  <2> QED
    BY <1>9, <2>1, <2>2 DEF RecoverTask, TypeOK, procVars, loopVars, callVars,
                            execVars
<1>10. ASSUME NEW t \in Tasks, WatchdogFlag(d, t)
       PROVE  TypeOK'
  BY <1>10 DEF WatchdogFlag, TypeOK, dbVars, procVars, loopVars, callVars, execVars
<1>11. ASSUME NEW t \in Tasks, WatchdogHandle(d, t)
       PROVE  TypeOK'
  <2>1. /\ status' \in [Tasks -> Statuses]
        /\ owner' \in [Tasks -> Pids \cup {NoPid}]
        /\ ready' \in SUBSET Tasks
    BY <1>11, ReleaseType DEF WatchdogHandle
  <2> QED
    BY <1>11, <2>1 DEF WatchdogHandle, TypeOK, procVars, loopVars, callVars, execVars
<1> QED
  BY <1>1, <1>2, <1>3, <1>4, <1>5, <1>6, <1>7, <1>8, <1>9, <1>10, <1>11
     DEF DispatcherStep

LEMMA RowType ==
  ASSUME TypeOK, NEW t \in Tasks, RowStep(t)
  PROVE  TypeOK'
<1>1. CASE OwnerOverride(t)
  <2>1. status' \in [Tasks -> Statuses]
    BY <1>1 DEF OwnerOverride, TypeOK, Statuses
  <2> QED
    BY <1>1, <2>1 DEF OwnerOverride, TypeOK, procVars, loopVars, callVars, execVars
<1>2. CASE Resume(t)
  BY <1>2 DEF Resume, TypeOK, Statuses, procVars, loopVars, callVars, execVars,
              auxVars
<1>3. CASE BecomeReady(t) \/ BecomeUnready(t)
  BY <1>3 DEF BecomeReady, BecomeUnready, TypeOK, procVars, loopVars, callVars,
              execVars, auxVars
<1> QED
  BY <1>1, <1>2, <1>3 DEF RowStep

(* Every reachable state is well typed: in particular the slot counters    *)
(* never go below zero.                                                    *)
THEOREM TypeCorrect == Spec => []TypeOK
<1>1. TypeOK /\ [Next]_vars => TypeOK'
  <2> SUFFICES ASSUME TypeOK, [Next]_vars PROVE TypeOK'
    OBVIOUS
  <2>1. CASE Next
    BY <2>1, CallType, DispatcherType, RowType DEF Next
  <2>2. CASE UNCHANGED vars
    BY <2>2 DEF vars, TypeOK
  <2> QED
    BY <2>1, <2>2
<1> QED
  BY TypeInit, <1>1, PTL DEF Spec

-----------------------------------------------------------------------------
(* The role limit.                                                         *)

CapInv == TypeOK /\ LocksHeld /\ TakenWithinLimit

LEMMA TakenFinite ==
  ASSUME NEW r
  PROVE  IsFiniteSet(Taken(r)) /\ Cardinality(Taken(r)) \in Nat
  BY TaskAssumption, FS_Subset, FS_CardinalityType DEF Taken

(* A step that takes no new task keeps the limit. *)
LEMMA NoNewTask ==
  ASSUME TakenWithinLimit,
         \A t \in Tasks : (status[t] = "active" \/ RowLocked(t))'
                            => (status[t] = "active" \/ RowLocked(t))
  PROVE  TakenWithinLimit'
<1> SUFFICES ASSUME NEW r \in Roles
             PROVE  Cardinality(Taken(r))' <= Limit[r]
  BY DEF TakenWithinLimit
<1>1. Taken(r)' \subseteq Taken(r)
  BY DEF Taken
<1>2. Cardinality(Taken(r)') <= Cardinality(Taken(r))
  BY <1>1, TakenFinite, FS_Subset
<1>3. Cardinality(Taken(r)') \in Nat /\ Limit[r] \in Nat
  BY <1>1, TakenFinite, FS_Subset, FS_CardinalityType, TaskAssumption
<1> QED
  BY <1>2, <1>3, TakenFinite DEF TakenWithinLimit

(* Claimers that still hold a claim keep it and their locks. *)
LEMMA LocksKept ==
  ASSUME LocksHeld,
         \A c \in Claimers : pc'[c] \in {"update", "commit"} =>
           /\ pc'[c] = pc[c] /\ todo'[c] = todo[c] /\ picked'[c] = picked[c]
           /\ \A r \in Roles : roleLock[r] = c => roleLock'[r] = c
  PROVE  LocksHeld'
<1> SUFFICES ASSUME NEW c \in Claimers
             PROVE  /\ pc'[c] = "commit" =>
                         /\ picked'[c] \in Tasks
                         /\ roleLock'[RoleOf[picked'[c]]] = c
                    /\ pc'[c] = "update" =>
                         \A t \in Tasks : IsFirst(t, todo'[c])
                                           => roleLock'[RoleOf[t]] = c
  BY DEF LocksHeld, IsFirst
<1>1. \A t \in Tasks : RoleOf[t] \in Roles
  BY TaskAssumption
<1>2. CASE pc'[c] = "commit"
  BY <1>1, <1>2 DEF LocksHeld
<1>3. CASE pc'[c] = "update"
  BY <1>1, <1>3 DEF LocksHeld
<1> QED
  BY <1>2, <1>3

(* A step that touches neither rows nor claims keeps locks and limit. *)
LEMMA ClaimsUntouched ==
  ASSUME LocksHeld, TakenWithinLimit,
         \A t \in Tasks : status'[t] = "active" => status[t] = "active",
         UNCHANGED <<roleLock, pc, todo, picked>>
  PROVE  LocksHeld' /\ TakenWithinLimit'
<1>1. LocksHeld'
  BY DEF LocksHeld, IsFirst
<1>2. \A t : RowLocked(t)' = RowLocked(t)
  BY DEF RowLocked
<1> QED
  BY <1>1, <1>2, NoNewTask

LEMMA DispatcherCap ==
  ASSUME CapInv, NEW d \in Dispatchers, DispatcherStep(d)
  PROVE  LocksHeld' /\ TakenWithinLimit'
<1> USE DEF CapInv
<1>1. CASE Exit(d)
  <2>1. \A c \in Claimers : pc'[c] \in {"update", "commit"} =>
          /\ pc'[c] = pc[c] /\ todo'[c] = todo[c] /\ picked'[c] = picked[c]
          /\ c[1] # d
    BY <1>1 DEF Exit, TypeOK
  <2>2. \A r \in Roles, c \in Claimers :
          roleLock[r] = c /\ c[1] # d => roleLock'[r] = c
    BY <1>1 DEF Exit, TypeOK
  <2>3. LocksHeld'
    BY <2>1, <2>2, LocksKept
  <2>4. \A t \in Tasks : RowLocked(t)' => RowLocked(t)
    BY <2>1 DEF RowLocked
  <2>5. status' = status
    BY <1>1 DEF Exit, dbVars
  <2> QED
    BY <2>3, <2>4, <2>5, NoNewTask
<1>2. CASE ~Exit(d)
  <2>1. UNCHANGED <<roleLock, pc, todo, picked>>
    BY <1>2 DEF DispatcherStep, ExecEnd, Start, RecoverScan, RecoverDone,
         DrainRequest, Shutdown, ExecWrite, ExecThrows, RecoverTask,
         WatchdogFlag, WatchdogHandle, callVars
  <2>2. \A t \in Tasks : status'[t] = "active" => status[t] = "active"
    <3>1. CASE UNCHANGED status
      BY <3>1
    <3>2. CASE \E t \in Tasks, s \in Outcomes \cup {"pending", "done"} :
                 status' = [status EXCEPT ![t] = s]
      BY <3>2, TaskAssumption DEF TypeOK
    <3> QED
      BY <1>2, <3>1, <3>2 DEF DispatcherStep, ExecEnd, Start, RecoverScan,
           RecoverDone, DrainRequest, Shutdown, ExecWrite, ExecThrows,
           RecoverTask, WatchdogFlag, WatchdogHandle, Outcome, Release, dbVars
  <2> QED
    BY <2>1, <2>2, ClaimsUntouched
<1> QED
  BY <1>1, <1>2

LEMMA RowCap ==
  ASSUME CapInv, NEW t \in Tasks, RowStep(t)
  PROVE  LocksHeld' /\ TakenWithinLimit'
<1>1. UNCHANGED <<roleLock, pc, todo, picked>>
  BY DEF RowStep, OwnerOverride, Resume, BecomeReady, BecomeUnready, callVars
<1>2. \A u \in Tasks : status'[u] = "active" => status[u] = "active"
  BY DEF CapInv, TypeOK, RowStep, OwnerOverride, Resume, BecomeReady, BecomeUnready
<1> QED
  BY <1>1, <1>2, ClaimsUntouched DEF CapInv

LEMMA OneFirst ==
  ASSUME NEW S \in SUBSET Tasks, NEW t, NEW u, IsFirst(t, S), IsFirst(u, S)
  PROVE  t = u
<1>1. t \in Nat /\ u \in Nat /\ t <= u /\ u <= t
  BY TaskAssumption DEF IsFirst
<1> QED
  BY <1>1

(* Giving back c's locks disturbs no other claimer's. *)
LEMMA LocksFreed ==
  ASSUME CapInv, NEW c \in Claimers, roleLock' = FreeLocks(c),
         NEW s \in {"idle", "gate"}, pc' = [pc EXCEPT ![c] = s],
         \A e \in Claimers : e # c => todo'[e] = todo[e] /\ picked'[e] = picked[e]
  PROVE  LocksHeld'
<1>1. pc'[c] = s /\ \A e \in Claimers : e # c => pc'[e] = pc[e]
  BY DEF CapInv, TypeOK
<1>2. \A r \in Roles, e \in Claimers :
        roleLock[r] = e /\ e # c => roleLock'[r] = e
  BY DEF FreeLocks, CapInv, TypeOK
<1> QED
  BY <1>1, <1>2, LocksKept DEF CapInv

LEMMA LeaveCap ==
  ASSUME CapInv, NEW c \in Claimers, Leave(c)
  PROVE  LocksHeld' /\ TakenWithinLimit'
<1>1. \A e \in Claimers :
        e # c => todo'[e] = todo[e] /\ picked'[e] = picked[e] /\ pc'[e] = pc[e]
  BY DEF Leave, CapInv, TypeOK
<1>2. LocksHeld'
  BY <1>1, LocksFreed DEF Leave
<1>3. pc'[c] = "idle"
  BY DEF Leave, CapInv, TypeOK
<1>4. \A t \in Tasks : RowLocked(t)' => RowLocked(t)
  BY <1>1, <1>3 DEF RowLocked
<1>5. status' = status
  BY DEF Leave, dbVars
<1> QED
  BY <1>2, <1>4, <1>5, NoNewTask DEF CapInv

(* The claim itself: under the role lock no other claim of the role is     *)
(* pending, so the counted active rows are all the role's taken tasks.     *)
LEMMA TakeCap ==
  ASSUME CapInv, NEW c \in Claimers, UpdateRole(c)
  PROVE  LocksHeld' /\ TakenWithinLimit'
<1> USE DEF CapInv
<1>1. PICK t \in Tasks :
        /\ IsFirst(t, todo[c])
        /\ \/ /\ Takeable(RoleOf[t]) = {}
              /\ todo' = [todo EXCEPT ![c] = @ \ {t}]
              /\ pc' = [pc EXCEPT ![c] = "roles"]
              /\ UNCHANGED picked
           \/ /\ \E u \in Tasks :
                   /\ IsFirst(u, Takeable(RoleOf[t]))
                   /\ picked' = [picked EXCEPT ![c] = u]
              /\ pc' = [pc EXCEPT ![c] = "commit"]
              /\ UNCHANGED todo
  BY DEF UpdateRole
<1>2. pc[c] = "update" /\ status' = status /\ roleLock' = roleLock
  BY DEF UpdateRole, dbVars
<1>3. \A e \in Claimers : e # c =>
        pc'[e] = pc[e] /\ todo'[e] = todo[e] /\ picked'[e] = picked[e]
  BY <1>1 DEF TypeOK
<1>4. CASE pc' = [pc EXCEPT ![c] = "roles"] /\ UNCHANGED picked
  <2>1. pc'[c] = "roles"
    BY <1>4 DEF TypeOK
  <2>2. LocksHeld'
    BY <1>2, <1>3, <2>1 DEF LocksHeld, IsFirst
  <2>3. \A u \in Tasks : RowLocked(u)' => RowLocked(u)
    BY <1>3, <2>1 DEF RowLocked
  <2> QED
    BY <1>2, <2>2, <2>3, NoNewTask
<1>5. ASSUME NEW u \in Tasks, IsFirst(u, Takeable(RoleOf[t])),
             picked' = [picked EXCEPT ![c] = u],
             pc' = [pc EXCEPT ![c] = "commit"], UNCHANGED todo
      PROVE  LocksHeld' /\ TakenWithinLimit'
  <2>1. /\ RoleOf[u] = RoleOf[t] /\ RoleOf[t] \in Roles
        /\ Cardinality(Active(RoleOf[t])) < Limit[RoleOf[t]]
    BY <1>5, TaskAssumption DEF IsFirst, Takeable
  <2>2. roleLock[RoleOf[t]] = c
    BY <1>1, <1>2 DEF LocksHeld
  <2>3. pc'[c] = "commit" /\ picked'[c] = u
    BY <1>5 DEF TypeOK
  <2>4. LocksHeld'
    BY <1>2, <1>3, <2>1, <2>2, <2>3 DEF LocksHeld, IsFirst
  <2>5. \A v \in Tasks : RowLocked(v)' => RowLocked(v) \/ v = u
    BY <1>3, <2>3 DEF RowLocked
  <2>6. ASSUME NEW r \in Roles PROVE Cardinality(Taken(r)') <= Limit[r]
    <3>1. CASE r # RoleOf[t]
      <4>1. Taken(r)' \subseteq Taken(r)
        BY <3>1, <1>2, <2>1, <2>5 DEF Taken
      <4>2. /\ Cardinality(Taken(r)') <= Cardinality(Taken(r))
            /\ Cardinality(Taken(r)') \in Nat /\ Limit[r] \in Nat
        BY <4>1, TakenFinite, FS_Subset, FS_CardinalityType, TaskAssumption
      <4> QED
        BY <4>2, TakenFinite DEF TakenWithinLimit
    <3>2. CASE r = RoleOf[t]
      <4>1. \A v \in Tasks : RoleOf[v] = r => ~RowLocked(v)
        BY <3>2, <1>2, <2>2 DEF RowLocked, LocksHeld
      <4>2. Taken(r)' \subseteq Active(r) \cup {u}
        BY <4>1, <1>2, <2>5 DEF Taken, Active
      <4>3. IsFiniteSet(Active(r))
        BY TaskAssumption, FS_Subset DEF Active
      <4>4. /\ IsFiniteSet(Active(r) \cup {u})
            /\ Cardinality(Active(r) \cup {u}) <= Cardinality(Active(r)) + 1
            /\ Cardinality(Active(r)) \in Nat
        <5>1. Cardinality(Active(r) \cup {u}) =
                IF u \in Active(r) THEN Cardinality(Active(r))
                                  ELSE Cardinality(Active(r)) + 1
          BY <4>3, FS_AddElement
        <5>2. IsFiniteSet(Active(r) \cup {u})
          BY <4>3, FS_AddElement
        <5>3. Cardinality(Active(r)) \in Nat
          BY <4>3, FS_CardinalityType
        <5> QED
          BY <5>1, <5>2, <5>3
      <4>5. /\ Cardinality(Taken(r)') <= Cardinality(Active(r) \cup {u})
            /\ Cardinality(Taken(r)') \in Nat
            /\ Cardinality(Active(r) \cup {u}) \in Nat
        BY <4>2, <4>4, FS_Subset, FS_CardinalityType
      <4> QED
        BY <4>4, <4>5, <2>1, <3>2, TaskAssumption
    <3> QED
      BY <3>1, <3>2
  <2> QED
    BY <2>4, <2>6 DEF TakenWithinLimit
<1> QED
  BY <1>1, <1>4, <1>5

LEMMA TryLockCap ==
  ASSUME CapInv, NEW c \in Claimers, TryRoleLock(c)
  PROVE  LocksHeld' /\ TakenWithinLimit'
<1> USE DEF CapInv
<1>1. pc[c] = "roles" /\ picked' = picked /\ status' = status
  BY DEF TryRoleLock, dbVars
<1>2. PICK t \in Tasks :
        /\ IsFirst(t, todo[c])
        /\ \/ /\ roleLock[RoleOf[t]] \in {None, c}
              /\ roleLock' = [roleLock EXCEPT ![RoleOf[t]] = c]
              /\ pc' = [pc EXCEPT ![c] = "update"]
              /\ UNCHANGED todo
           \/ /\ todo' = [todo EXCEPT ![c] = @ \ {t}]
              /\ UNCHANGED <<roleLock, pc>>
  BY DEF TryRoleLock, LockFree
<1>3. \A u \in Tasks : RowLocked(u)' => RowLocked(u)
  BY <1>1, <1>2 DEF RowLocked, TypeOK
<1>4. TakenWithinLimit'
  BY <1>1, <1>3, NoNewTask
<1>5. CASE /\ roleLock[RoleOf[t]] \in {None, c}
           /\ roleLock' = [roleLock EXCEPT ![RoleOf[t]] = c]
           /\ pc' = [pc EXCEPT ![c] = "update"]
           /\ UNCHANGED todo
  <2>1. pc'[c] = "update" /\ \A e \in Claimers : e # c => pc'[e] = pc[e]
    BY <1>5 DEF TypeOK
  <2>2. RoleOf[t] \in Roles /\ roleLock'[RoleOf[t]] = c
    BY <1>5, TaskAssumption DEF TypeOK
  <2>3. \A r \in Roles, e \in Claimers :
          e # c /\ roleLock[r] = e => roleLock'[r] = e
    BY <1>5, TaskAssumption DEF TypeOK, Claimers
  <2>4. ASSUME NEW e \in Claimers
        PROVE  /\ pc'[e] = "commit" =>
                    picked'[e] \in Tasks /\ roleLock'[RoleOf[picked'[e]]] = e
               /\ pc'[e] = "update" =>
                    \A u \in Tasks : IsFirst(u, todo'[e]) => roleLock'[RoleOf[u]] = e
    <3>1. CASE e = c
      <4>1. \A u \in Tasks : IsFirst(u, todo'[c]) => u = t
        BY <1>2, <1>5, OneFirst DEF TypeOK
      <4> QED
        BY <3>1, <2>1, <2>2, <4>1
    <3>2. CASE e # c
      <4>1. \A u \in Tasks : RoleOf[u] \in Roles
        BY TaskAssumption
      <4> QED
        BY <3>2, <2>1, <2>3, <4>1, <1>1, <1>5 DEF LocksHeld
    <3> QED
      BY <3>1, <3>2
  <2>5. LocksHeld'
    BY <2>4 DEF LocksHeld, IsFirst
  <2> QED
    BY <2>5, <1>4
<1>6. CASE todo' = [todo EXCEPT ![c] = @ \ {t}] /\ UNCHANGED <<roleLock, pc>>
  <2>1. \A e \in Claimers : e # c => todo'[e] = todo[e]
    BY <1>6 DEF TypeOK
  <2>2. LocksHeld'
    BY <2>1, <1>1, <1>6, LocksKept
  <2> QED
    BY <2>2, <1>4
<1> QED
  BY <1>2, <1>5, <1>6

LEMMA CommitCap ==
  ASSUME CapInv, NEW c \in Claimers, Commit(c)
  PROVE  LocksHeld' /\ TakenWithinLimit'
<1> USE DEF CapInv
<1>1. /\ pc[c] = "commit" /\ picked' = picked
      /\ \A e \in Claimers : e # c => todo'[e] = todo[e]
      /\ pc' = [pc EXCEPT ![c] = "gate"] /\ roleLock' = FreeLocks(c)
  BY DEF Commit, TypeOK
<1>2. LocksHeld'
  BY <1>1, LocksFreed
<1>3. \A t \in Tasks : RowLocked(t)' => RowLocked(t)
  BY <1>1 DEF RowLocked, TypeOK
<1>4. \A t \in Tasks : status'[t] = "active" => status[t] = "active" \/ RowLocked(t)
  BY <1>1 DEF Commit, TypeOK, RowLocked
<1> QED
  BY <1>2, <1>3, <1>4, NoNewTask

LEMMA CallCap ==
  ASSUME CapInv, NEW c \in Claimers, Enter(c) \/ CallStep(c) \/ ClaimThrows(c)
  PROVE  LocksHeld' /\ TakenWithinLimit'
<1> USE DEF CapInv
<1>1. CASE LoopExit(c) \/ NothingClaimed(c) \/ ClaimThrows(c)
  BY <1>1, LeaveCap DEF LoopExit, NothingClaimed, ClaimThrows
<1>2. CASE TryRoleLock(c) \/ UpdateRole(c) \/ Commit(c)
  BY <1>2, TryLockCap, TakeCap, CommitCap
<1>3. CASE \/ Enter(c) \/ ReadCap(c) \/ DiskRecover(c) \/ BeginClaim(c)
           \/ GateBlock(c) \/ GateAllow(c)
  <2>1. PICK s \in {"cap", "disk", "loop", "roles"} : pc' = [pc EXCEPT ![c] = s]
    BY <1>3 DEF Enter, ReadCap, DiskRecover, BeginClaim, GateBlock, GateAllow
  <2>2. pc'[c] \notin {"update", "commit"}
        /\ \A e \in Claimers : e # c => pc'[e] = pc[e]
    BY <2>1 DEF TypeOK
  <2>3. \A e \in Claimers :
          e # c => todo'[e] = todo[e] /\ picked'[e] = picked[e]
    BY <1>3 DEF Enter, ReadCap, DiskRecover, BeginClaim, GateBlock, GateAllow, TypeOK
  <2>4. roleLock' = roleLock
    BY <1>3 DEF Enter, ReadCap, DiskRecover, BeginClaim, GateBlock, GateAllow
  <2>5. LocksHeld'
    BY <2>2, <2>3, <2>4, LocksKept
  <2>6. \A t \in Tasks : RowLocked(t)' => RowLocked(t)
    BY <2>2, <2>3 DEF RowLocked
  <2>7. \A t \in Tasks : status'[t] = "active" => status[t] = "active"
    BY <1>3 DEF Enter, ReadCap, DiskRecover, BeginClaim, GateBlock, GateAllow,
                TypeOK, dbVars
  <2> QED
    BY <2>5, <2>6, <2>7, NoNewTask
<1> QED
  BY <1>1, <1>2, <1>3 DEF CallStep

(* No role ever exceeds its concurrency_limit, with any number of          *)
(* dispatchers, overlapping calls, crashes, restarts and overrides.        *)
THEOREM RoleCapHolds == Spec => []RoleCapRespected
<1>1. Init => LocksHeld /\ TakenWithinLimit
  <2> SUFFICES ASSUME Init PROVE LocksHeld /\ TakenWithinLimit
    OBVIOUS
  <2>1. LocksHeld
    BY DEF Init, LocksHeld
  <2>2. \A r : Taken(r) = {}
    BY DEF Init, Taken, RowLocked
  <2> QED
    BY <2>1, <2>2, FS_EmptySet, TaskAssumption DEF TakenWithinLimit
<1>2. CapInv /\ [Next]_vars => LocksHeld' /\ TakenWithinLimit'
  <2> SUFFICES ASSUME CapInv, [Next]_vars
               PROVE  LocksHeld' /\ TakenWithinLimit'
    OBVIOUS
  <2>1. CASE Next
    BY <2>1, CallCap, DispatcherCap, RowCap DEF Next
  <2>2. CASE UNCHANGED vars
    BY <2>2, ClaimsUntouched DEF vars, CapInv
  <2> QED
    BY <2>1, <2>2
<1>3. CapInv => RoleCapRespected
  <2> SUFFICES ASSUME CapInv, NEW r \in Roles
               PROVE  Cardinality(Active(r)) <= Limit[r]
    BY DEF RoleCapRespected
  <2>1. Active(r) \subseteq Taken(r)
    BY DEF Active, Taken
  <2>2. /\ Cardinality(Active(r)) <= Cardinality(Taken(r))
        /\ Cardinality(Active(r)) \in Nat
    BY <2>1, TakenFinite, FS_Subset, FS_CardinalityType
  <2> QED
    BY <2>2, TakenFinite, TaskAssumption DEF CapInv, TakenWithinLimit
<1> QED
  BY <1>1, <1>2, <1>3, TypeCorrect, PTL DEF Spec, CapInv

-----------------------------------------------------------------------------
(* TaskClaim implements TaskQueue.                                         *)

(* A row that a claim has updated and not committed is still pending: the  *)
(* other writers wait for its lock, and no other claim takes it.           *)
PickedPending ==
  \A c \in Claimers : pc[c] = "commit" => status[picked[c]] = "pending"

QueueInv == CapInv /\ PickedPending

-----------------------------------------------------------------------------
(* PickedPending is inductive.                                             *)

LEMMA PickedKept ==
  ASSUME PickedPending,
         \A c \in Claimers :
           pc'[c] = "commit" => pc[c] = "commit" /\ picked'[c] = picked[c],
         \A t : RowLocked(t) /\ status[t] = "pending" => status'[t] = "pending"
  PROVE  PickedPending'
  BY DEF PickedPending, RowLocked

LEMMA CallPicked ==
  ASSUME QueueInv, NEW c \in Claimers, Enter(c) \/ CallStep(c) \/ ClaimThrows(c)
  PROVE  PickedPending'
<1> USE DEF QueueInv, CapInv
<1>1. CASE UpdateRole(c)
  <2>1. status' = status /\ \A e \in Claimers : e # c =>
          pc'[e] = pc[e] /\ picked'[e] = picked[e]
    BY <1>1 DEF UpdateRole, dbVars, TypeOK
  <2>2. pc'[c] = "commit" => status[picked'[c]] = "pending"
    BY <1>1 DEF UpdateRole, IsFirst, Takeable, Claimable, TypeOK
  <2> QED
    BY <2>1, <2>2 DEF PickedPending
<1>2. CASE Commit(c)
  <2>1. /\ status' = [status EXCEPT ![picked[c]] = "active"] /\ picked' = picked
        /\ pc[c] = "commit" /\ pc' = [pc EXCEPT ![c] = "gate"]
    BY <1>2 DEF Commit
  <2>2. ASSUME NEW e \in Claimers, pc'[e] = "commit"
        PROVE  status'[picked'[e]] = "pending"
    <3>1. e # c /\ pc[e] = "commit"
      BY <2>1, <2>2 DEF TypeOK
    <3>2. picked[e] # picked[c] /\ picked[e] \in Tasks
      BY <2>1, <3>1 DEF LocksHeld
    <3> QED
      BY <2>1, <3>1, <3>2 DEF PickedPending, TypeOK
  <2> QED
    BY <2>2 DEF PickedPending
<1>3. CASE DiskRecover(c) \/ GateBlock(c)
  <2>1. \A e \in Claimers :
          pc'[e] = "commit" => pc[e] = "commit" /\ picked'[e] = picked[e]
    BY <1>3 DEF DiskRecover, GateBlock, TypeOK
  <2>2. \A t : RowLocked(t) /\ status[t] = "pending" => status'[t] = "pending"
    BY <1>3 DEF DiskRecover, GateBlock, TypeOK, RowLocked, LocksHeld
  <2> QED
    BY <2>1, <2>2, PickedKept
<1>4. CASE ~(UpdateRole(c) \/ Commit(c) \/ DiskRecover(c) \/ GateBlock(c))
  <2>1. status' = status
    BY <1>4 DEF CallStep, Enter, ReadCap, BeginClaim, LoopExit, NothingClaimed,
                ClaimThrows, Leave, TryRoleLock, GateAllow, dbVars
  <2>2. \A e \in Claimers :
          pc'[e] = "commit" => pc[e] = "commit" /\ picked'[e] = picked[e]
    BY <1>4 DEF CallStep, Enter, ReadCap, BeginClaim, LoopExit, NothingClaimed,
                ClaimThrows, Leave, TryRoleLock, GateAllow, TypeOK
  <2> QED
    BY <2>1, <2>2, PickedKept
<1> QED
  BY <1>1, <1>2, <1>3, <1>4

LEMMA DispatcherPicked ==
  ASSUME QueueInv, NEW d \in Dispatchers, DispatcherStep(d)
  PROVE  PickedPending'
<1> USE DEF QueueInv, CapInv
<1>1. \A e \in Claimers :
        pc'[e] = "commit" => pc[e] = "commit" /\ picked'[e] = picked[e]
  <2>1. CASE Exit(d)
    BY <2>1 DEF Exit, TypeOK
  <2>2. CASE ~Exit(d)
    BY <2>2 DEF DispatcherStep, ExecEnd, Start, RecoverScan, RecoverDone,
         DrainRequest, Shutdown, ExecWrite, ExecThrows, RecoverTask,
         WatchdogFlag, WatchdogHandle, callVars
  <2> QED
    BY <2>1, <2>2
<1>2. \A t : RowLocked(t) /\ status[t] = "pending" => status'[t] = "pending"
  <2>1. CASE UNCHANGED status
    BY <2>1
  <2>2. CASE \E t \in Tasks : ~RowLocked(t) /\ \E s : status' = [status EXCEPT ![t] = s]
    BY <2>2 DEF TypeOK
  <2>3. UNCHANGED status
        \/ \E t \in Tasks : ~RowLocked(t) /\ \E s : status' = [status EXCEPT ![t] = s]
    BY DEF DispatcherStep, Exit, ExecEnd, Start, RecoverScan, RecoverDone,
         DrainRequest, Shutdown, ExecWrite, ExecThrows, RecoverTask,
         WatchdogFlag, WatchdogHandle, Outcome, Release, dbVars
  <2> QED
    BY <2>1, <2>2, <2>3
<1> QED
  BY <1>1, <1>2, PickedKept

LEMMA RowPicked ==
  ASSUME QueueInv, NEW t \in Tasks, RowStep(t)
  PROVE  PickedPending'
<1>1. UNCHANGED <<pc, picked>>
  BY DEF RowStep, OwnerOverride, Resume, BecomeReady, BecomeUnready, callVars
<1>2. CASE ~RowLocked(t) /\ \E s : status' = [status EXCEPT ![t] = s]
  <2>1. \A u : RowLocked(u) /\ status[u] = "pending" => status'[u] = "pending"
    BY <1>2 DEF QueueInv, CapInv, TypeOK
  <2> QED
    BY <1>1, <2>1, PickedKept DEF QueueInv
<1>3. CASE UNCHANGED status
  BY <1>1, <1>3, PickedKept DEF QueueInv
<1> QED
  BY <1>2, <1>3 DEF RowStep, OwnerOverride, Resume, BecomeReady, BecomeUnready

-----------------------------------------------------------------------------
(* Every step is a step of the queue, or changes nothing it can see.       *)

LEMMA SameStatus ==
  ASSUME UNCHANGED status
  PROVE  UNCHANGED Queue!vars
  BY DEF Queue!vars

(* A row that is rewritten, to anything but active. *)
LEMMA OneRow ==
  ASSUME TypeOK, NEW t, NEW s \in Statuses \ {"active"},
         status' = [status EXCEPT ![t] = s]
  PROVE  [Queue!Next]_(Queue!vars)
<1> DEFINE waiting == {u \in Tasks : status[u] = "pending"}
           leased  == {u \in Tasks : status[u] = "active"}
<1>1. CASE t \notin Tasks \/ status[t] = s
  BY <1>1, SameStatus DEF TypeOK
<1>2. CASE t \in Tasks /\ status[t] # s
  <2>1. \A u \in Tasks : u # t => status'[u] = status[u]
    BY DEF TypeOK
  <2>2. status'[t] = s
    BY <1>2 DEF TypeOK
  <2>3. CASE status[t] = "active"
    <3>1. leased' = leased \ {t} /\ waiting' \in {waiting, waiting \cup {t}}
      BY <1>2, <2>1, <2>2, <2>3
    <3> QED
      BY <1>2, <2>3, <3>1 DEF Queue!Next, Queue!GiveBack
  <2>4. CASE status[t] = "pending"
    <3>1. leased' = leased /\ waiting' = waiting \ {t}
      BY <1>2, <2>1, <2>2, <2>4
    <3> QED
      BY <1>2, <2>4, <3>1 DEF Queue!Next, Queue!SetAside
  <2>5. CASE status[t] \notin {"active", "pending"} /\ s = "pending"
    <3>1. leased' = leased /\ waiting' = waiting \cup {t}
      BY <1>2, <2>1, <2>2, <2>5
    <3>2. {t} \in SUBSET Tasks /\ {t} \cap (waiting \cup leased) = {}
      BY <1>2, <2>5
    <3> QED
      BY <3>1, <3>2 DEF Queue!Next, Queue!Queue
  <2>6. CASE status[t] \notin {"active", "pending"} /\ s # "pending"
    <3>1. leased' = leased /\ waiting' = waiting
      BY <1>2, <2>1, <2>2, <2>6
    <3> QED
      BY <3>1 DEF Queue!vars
  <2> QED
    BY <2>3, <2>4, <2>5, <2>6
<1> QED
  BY <1>1, <1>2

(* The instance has a copy of the library's Cardinality. *)
LEMMA SameCardinality ==
  ASSUME NEW S
  PROVE  Queue!Cardinality(S) = Cardinality(S)
  BY DEF Queue!Cardinality, Cardinality

(* The commit of a claim is the lease. *)
LEMMA CommitLeases ==
  ASSUME QueueInv, NEW c \in Claimers, Commit(c)
  PROVE  Queue!Next
<1> USE DEF QueueInv, CapInv
<1> DEFINE t == picked[c]
           r == RoleOf[t]
           waiting == {u \in Tasks : status[u] = "pending"}
           leased  == {u \in Tasks : status[u] = "active"}
<1>1. /\ t \in Tasks /\ status[t] = "pending" /\ r \in Roles /\ RowLocked(t)
      /\ status' = [status EXCEPT ![t] = "active"]
  BY TaskAssumption DEF Commit, LocksHeld, PickedPending, RowLocked
<1>2. \A u \in Tasks : status'[u] = IF u = t THEN "active" ELSE status[u]
  BY <1>1 DEF TypeOK
<1>3. waiting' = waiting \ {t} /\ leased' = leased \cup {t}
  BY <1>1, <1>2
<1>4. Cardinality({u \in leased : RoleOf[u] = r}) < Limit[r]
  <2> DEFINE A == {u \in leased : RoleOf[u] = r}
  <2>1. IsFiniteSet(A) /\ t \notin A
    BY <1>1, TaskAssumption, FS_Subset
  <2>2. /\ Cardinality(A \cup {t}) = Cardinality(A) + 1
        /\ IsFiniteSet(A \cup {t})
    BY <2>1, FS_AddElement
  <2>3. A \cup {t} \subseteq Taken(r)
    BY <1>1 DEF Taken
  <2>4. Cardinality(A \cup {t}) <= Cardinality(Taken(r))
    BY <2>3, TakenFinite, FS_Subset
  <2>5. /\ Cardinality(A) \in Nat /\ Cardinality(Taken(r)) \in Nat
        /\ Limit[r] \in Nat /\ Cardinality(Taken(r)) <= Limit[r]
    BY <1>1, <2>1, TakenFinite, FS_CardinalityType, TaskAssumption
       DEF TakenWithinLimit
  <2> QED
    BY <2>2, <2>4, <2>5
<1>5. Queue!Cardinality({u \in leased : RoleOf[u] = RoleOf[t]}) < Limit[RoleOf[t]]
  BY <1>4, SameCardinality
<1> QED
  BY <1>1, <1>3, <1>5 DEF Queue!Next, Queue!Lease

LEMMA CallQueue ==
  ASSUME QueueInv, NEW c \in Claimers, Enter(c) \/ CallStep(c) \/ ClaimThrows(c)
  PROVE  [Queue!Next]_(Queue!vars)
<1> USE DEF QueueInv, CapInv
<1>1. CASE Commit(c)
  BY <1>1, CommitLeases
<1>2. CASE DiskRecover(c)
  <2> DEFINE S == {t \in Tasks : status[t] = "disk_blocked"}
             waiting == {u \in Tasks : status[u] = "pending"}
             leased  == {u \in Tasks : status[u] = "active"}
  <2>1. CASE status' = [t \in Tasks |-> IF status[t] = "disk_blocked"
                                        THEN "pending" ELSE status[t]]
    <3>1. waiting' = waiting \cup S /\ leased' = leased
      BY <2>1
    <3>2. S \in SUBSET Tasks /\ S \cap (waiting \cup leased) = {}
      OBVIOUS
    <3> QED
      BY <3>1, <3>2 DEF Queue!Next, Queue!Queue
  <2>2. CASE UNCHANGED status
    BY <2>2, SameStatus
  <2> QED
    BY <1>2, <2>1, <2>2 DEF DiskRecover
<1>3. CASE GateBlock(c)
  BY <1>3, OneRow DEF GateBlock, Statuses
<1>4. CASE ~(Commit(c) \/ DiskRecover(c) \/ GateBlock(c))
  <2>1. UNCHANGED status
    BY <1>4 DEF CallStep, Enter, ReadCap, BeginClaim, LoopExit, NothingClaimed,
                ClaimThrows, Leave, TryRoleLock, UpdateRole, GateAllow, dbVars
  <2> QED
    BY <2>1, SameStatus
<1> QED
  BY <1>1, <1>2, <1>3, <1>4

LEMMA DispatcherQueue ==
  ASSUME QueueInv, NEW d \in Dispatchers, DispatcherStep(d)
  PROVE  [Queue!Next]_(Queue!vars)
<1>1. CASE UNCHANGED status
  BY <1>1, SameStatus
<1>2. CASE \E t \in Tasks, s \in Statuses \ {"active"} :
             status' = [status EXCEPT ![t] = s]
  BY <1>2, OneRow DEF QueueInv, CapInv
<1>3. UNCHANGED status \/ \E t \in Tasks, s \in Statuses \ {"active"} :
                            status' = [status EXCEPT ![t] = s]
  BY TaskAssumption DEF DispatcherStep, Exit, ExecEnd, Start, RecoverScan,
     RecoverDone, DrainRequest, Shutdown, ExecWrite, ExecThrows, RecoverTask,
     WatchdogFlag, WatchdogHandle, Outcome, Release, dbVars, Statuses
<1> QED
  BY <1>1, <1>2, <1>3

LEMMA RowQueue ==
  ASSUME QueueInv, NEW t \in Tasks, RowStep(t)
  PROVE  [Queue!Next]_(Queue!vars)
<1>1. CASE UNCHANGED status
  BY <1>1, SameStatus
<1>2. CASE \E s \in {"pending", "done"} : status' = [status EXCEPT ![t] = s]
  BY <1>2, OneRow DEF QueueInv, CapInv, Statuses
<1> QED
  BY <1>1, <1>2 DEF RowStep, OwnerOverride, Resume, BecomeReady, BecomeUnready

(* Any number of dispatchers that race for the rows, crash, restart and    *)
(* overlap lease tasks as one atomic queue would: claimNextTask.           *)
THEOREM ClaimImplementsQueue == Spec => QueueImplemented
<1>1. Init => CapInv /\ PickedPending
  <2> SUFFICES ASSUME Init PROVE LocksHeld /\ TakenWithinLimit /\ PickedPending
    BY TypeInit DEF CapInv
  <2>1. LocksHeld /\ PickedPending
    BY DEF Init, LocksHeld, PickedPending
  <2>2. \A r : Taken(r) = {}
    BY DEF Init, Taken, RowLocked
  <2> QED
    BY <2>1, <2>2, FS_EmptySet, TaskAssumption DEF TakenWithinLimit
<1>2. Init => Queue!Init
  BY DEF Init, Queue!Init
<1>3. TypeOK' /\ QueueInv /\ [Next]_vars => QueueInv'
  <2> SUFFICES ASSUME TypeOK', QueueInv, [Next]_vars
               PROVE  LocksHeld' /\ TakenWithinLimit' /\ PickedPending'
    BY DEF QueueInv, CapInv
  <2>1. CASE Next
    BY <2>1, CallCap, DispatcherCap, RowCap, CallPicked, DispatcherPicked,
       RowPicked DEF Next, QueueInv
  <2>2. CASE UNCHANGED vars
    BY <2>2, ClaimsUntouched, PickedKept DEF vars, QueueInv, CapInv
  <2> QED
    BY <2>1, <2>2
<1>4. QueueInv /\ [Next]_vars => [Queue!Next]_(Queue!vars)
  <2> SUFFICES ASSUME QueueInv, [Next]_vars PROVE [Queue!Next]_(Queue!vars)
    OBVIOUS
  <2>1. CASE Next
    BY <2>1, CallQueue, DispatcherQueue, RowQueue DEF Next
  <2>2. CASE UNCHANGED vars
    BY <2>2, SameStatus DEF vars
  <2> QED
    BY <2>1, <2>2
<1> QED
  BY <1>1, <1>2, <1>3, <1>4, TypeCorrect, PTL
     DEF Spec, QueueImplemented, Queue!Spec, QueueInv
-----------------------------------------------------------------------------
(* RunningIsOwned.                                                         *)

(* A number belongs to one process, and a process that is down has nothing *)
(* under way.                                                              *)
PidsDistinct ==
  /\ \A t \in Tasks : owner[t] <= starts
  /\ \A d \in Dispatchers :
       /\ pid[d] <= starts
       /\ phase[d] = "down" <=> pid[d] = NoPid
       /\ phase[d] = "down" => /\ \A t \in Tasks : runs[d][t] = 0
                               /\ \A k \in Calls : pc[<<d, k>>] = "idle"
  /\ \A d, e \in Dispatchers : d # e /\ pid[d] # NoPid => pid[d] # pid[e]

(* A number that recovery has found dead never comes back.                 *)
FoundDead ==
  \A d \in Dispatchers : \A tp \in recov[d] :
    tp[2] <= starts /\ \A e \in Dispatchers : pid[e] # tp[2]

OwnInv == QueueInv /\ PidsDistinct /\ FoundDead /\ RunningIsOwned

Works(d, t) ==
  \/ runs[d][t] > 0
  \/ \E k \in Calls : pc[<<d, k>>] = "gate" /\ picked[<<d, k>>] = t

LEMMA WorkerOwns ==
  ASSUME RunningIsOwned, NEW t \in Tasks \ overridden, NEW d \in Dispatchers, Works(d, t)
  PROVE  status[t] = "active" /\ owner[t] = pid[d]
<1>1. CASE runs[d][t] > 0
  BY <1>1 DEF RunningIsOwned
<1>2. CASE \E k \in Calls : pc[<<d, k>>] = "gate" /\ picked[<<d, k>>] = t
  BY <1>2 DEF RunningIsOwned
<1> QED
  BY <1>1, <1>2 DEF Works

LEMMA WorkerUp ==
  ASSUME TypeOK, PidsDistinct, NEW t \in Tasks, NEW d \in Dispatchers, Works(d, t)
  PROVE  phase[d] # "down" /\ pid[d] # NoPid
<1>1. phase[d] # "down"
  <2>1. CASE runs[d][t] > 0
    BY <2>1 DEF PidsDistinct
  <2>2. CASE \E k \in Calls : pc[<<d, k>>] = "gate"
    BY <2>2 DEF PidsDistinct
  <2> QED
    BY <2>1, <2>2 DEF Works
<1> QED
  BY <1>1 DEF PidsDistinct

(* Two that work on a task nobody has rewritten are one: the row names it. *)
LEMMA OneWorker ==
  ASSUME OwnInv, NEW t \in Tasks \ overridden,
         NEW d \in Dispatchers, NEW e \in Dispatchers, Works(d, t), Works(e, t)
  PROVE  d = e /\ status[t] = "active" /\ owner[t] = pid[d] /\ pid[d] # NoPid
<1> USE DEF OwnInv, QueueInv, CapInv
<1>1. status[t] = "active" /\ owner[t] = pid[d] /\ owner[t] = pid[e]
  BY WorkerOwns
<1>2. pid[d] # NoPid
  BY WorkerUp
<1> QED
  BY <1>1, <1>2 DEF PidsDistinct

(* A step after which whoever works on a task worked on it before, under   *)
(* the same number and with the row as it was, keeps RunningIsOwned.       *)
LEMMA OwnedKept ==
  ASSUME TypeOK, TypeOK', RunningIsOwned, overridden \subseteq overridden',
         \A d \in Dispatchers, t \in Tasks : runs'[d][t] <= runs[d][t],
         \A c \in Claimers :
           pc'[c] = "gate" => pc[c] = "gate" /\ picked'[c] = picked[c],
         \A t \in Tasks \ overridden', d \in Dispatchers :
           Works(d, t) /\ Works(d, t)' =>
             status'[t] = status[t] /\ owner'[t] = owner[t] /\ pid'[d] = pid[d]
  PROVE  RunningIsOwned'
<1> SUFFICES ASSUME NEW t \in Tasks \ overridden', NEW d \in Dispatchers
             PROVE  /\ runs'[d][t] > 0 =>
                         runs'[d][t] = 1 /\ status'[t] = "active" /\ owner'[t] = pid'[d]
                    /\ \A k \in Calls : pc'[<<d, k>>] = "gate" /\ picked'[<<d, k>>] = t =>
                         /\ runs'[d][t] = 0 /\ status'[t] = "active" /\ owner'[t] = pid'[d]
                         /\ \A j \in Calls \ {k} :
                              ~(pc'[<<d, j>>] = "gate" /\ picked'[<<d, j>>] = t)
  BY DEF RunningIsOwned
<1>1. runs[d][t] \in Nat /\ runs'[d][t] \in Nat /\ runs'[d][t] <= runs[d][t]
  BY DEF TypeOK
<1>0. Works(d, t)' => Works(d, t)
  <2>1. runs'[d][t] > 0 => runs[d][t] > 0
    BY <1>1
  <2>2. \A k \in Calls : <<d, k>> \in Claimers
    BY DEF Claimers
  <2> QED
    BY <2>1, <2>2 DEF Works
<1>2. CASE runs'[d][t] > 0
  <2>1. Works(d, t)' /\ runs[d][t] > 0
    BY <1>1, <1>2 DEF Works
  <2>2. \A k \in Calls : ~(pc[<<d, k>>] = "gate" /\ picked[<<d, k>>] = t)
    BY <2>1 DEF RunningIsOwned
  <2> QED
    BY <1>0, <1>1, <2>1, <2>2 DEF RunningIsOwned, Claimers
<1>3. CASE runs'[d][t] = 0
  <2> SUFFICES ASSUME NEW k \in Calls, pc'[<<d, k>>] = "gate", picked'[<<d, k>>] = t
               PROVE  /\ status'[t] = "active" /\ owner'[t] = pid'[d]
                      /\ \A j \in Calls \ {k} :
                           ~(pc'[<<d, j>>] = "gate" /\ picked'[<<d, j>>] = t)
    BY <1>3
  <2>1. Works(d, t)' /\ pc[<<d, k>>] = "gate" /\ picked[<<d, k>>] = t
    BY DEF Works, Claimers
  <2> QED
    BY <1>0, <2>1 DEF RunningIsOwned, Claimers
<1> QED
  BY <1>1, <1>2, <1>3

-----------------------------------------------------------------------------
(* PidsDistinct and FoundDead.                                             *)

LEMMA CallPids ==
  ASSUME OwnInv, TypeOK', NEW c \in Claimers, Enter(c) \/ CallStep(c) \/ ClaimThrows(c)
  PROVE  PidsDistinct' /\ FoundDead'
<1> USE DEF OwnInv, QueueInv, CapInv
<1>1. UNCHANGED <<phase, pid, starts, recov>>
  BY DEF CallStep, Enter, ReadCap, DiskRecover, BeginClaim, LoopExit, NothingClaimed,
         ClaimThrows, Leave, TryRoleLock, UpdateRole, Commit, GateBlock, GateAllow,
         procVars, auxVars
<1>2. PICK s : pc' = [pc EXCEPT ![c] = s] \/ pc' = pc
  BY DEF CallStep, Enter, ReadCap, DiskRecover, BeginClaim, LoopExit, NothingClaimed,
         ClaimThrows, Leave, TryRoleLock, UpdateRole, Commit, GateBlock, GateAllow
<1>3. phase[c[1]] # "down"
  <2>1. pc[c] # "idle" \/ Alive(c[1])
    BY DEF CallStep, Enter, ReadCap, DiskRecover, BeginClaim, LoopExit, NothingClaimed,
           ClaimThrows, TryRoleLock, UpdateRole, Commit, GateBlock, GateAllow, MayStart
  <2> QED
    BY <2>1, ClaimerPair DEF Alive, PidsDistinct
<1>4. \A t \in Tasks : owner'[t] <= starts
  <2>1. CASE Commit(c)
    <3>1. pid[c[1]] <= starts
      BY ClaimerPair DEF PidsDistinct
    <3> QED
      BY <2>1, <3>1 DEF Commit, PidsDistinct, TypeOK
  <2>2. CASE DiskRecover(c)
    <3>1. \A t \in Tasks : owner'[t] = owner[t] \/ owner'[t] = 0
      BY <2>2 DEF DiskRecover, NoPid
    <3>2. 0 <= starts
      BY DEF TypeOK
    <3> QED
      BY <3>1, <3>2 DEF PidsDistinct
  <2>3. CASE ~Commit(c) /\ ~DiskRecover(c)
    <3>1. owner' = owner
      BY <2>3 DEF CallStep, Enter, ReadCap, BeginClaim, LoopExit, NothingClaimed,
         ClaimThrows, Leave, TryRoleLock, UpdateRole, GateBlock, GateAllow, dbVars
    <3> QED
      BY <3>1 DEF PidsDistinct
  <2> QED
    BY <2>1, <2>2, <2>3
<1>5. \A d \in Dispatchers : phase[d] = "down" =>
        /\ \A t \in Tasks : runs'[d][t] = 0
        /\ \A k \in Calls : pc'[<<d, k>>] = "idle"
  <2> SUFFICES ASSUME NEW d \in Dispatchers, phase[d] = "down"
               PROVE  /\ \A t \in Tasks : runs'[d][t] = 0
                      /\ \A k \in Calls : pc'[<<d, k>>] = "idle"
    OBVIOUS
  <2>1. d # c[1]
    BY <1>3
  <2>2. \A k \in Calls : pc'[<<d, k>>] = pc[<<d, k>>]
    <3>1. \A k \in Calls : <<d, k>> # c /\ <<d, k>> \in Claimers
      BY <2>1 DEF Claimers
    <3> QED
      BY <1>2, <3>1 DEF TypeOK
  <2>3. runs'[d] = runs[d]
    <3>1. CASE GateAllow(c)
      BY <2>1, <3>1 DEF GateAllow, TypeOK
    <3>2. CASE ~GateAllow(c)
      BY <3>2 DEF CallStep, Enter, ReadCap, DiskRecover, BeginClaim, LoopExit,
         NothingClaimed, ClaimThrows, Leave, TryRoleLock, UpdateRole, Commit,
         GateBlock, execVars
    <3> QED
      BY <3>1, <3>2
  <2> QED
    BY <2>2, <2>3 DEF PidsDistinct
<1> QED
  BY <1>1, <1>4, <1>5 DEF PidsDistinct, FoundDead

LEMMA DispatcherPids ==
  ASSUME OwnInv, TypeOK', NEW d \in Dispatchers, DispatcherStep(d)
  PROVE  PidsDistinct' /\ FoundDead'
<1> USE DEF OwnInv, QueueInv, CapInv
<1>1. CASE Start(d)
  <2>1. /\ starts' = starts + 1 /\ starts \in Nat
        /\ UNCHANGED <<owner, runs, pc, recov>>
        /\ \A e \in Dispatchers :
             /\ pid'[e] = IF e = d THEN starts + 1 ELSE pid[e]
             /\ phase'[e] = IF e = d THEN "starting" ELSE phase[e]
    BY <1>1 DEF Start, TypeOK, dbVars, execVars, callVars, auxVars
  <2>2. /\ \A e \in Dispatchers : pid[e] \in Nat /\ pid[e] <= starts
        /\ \A t \in Tasks : owner[t] \in Nat
        /\ \A e \in Dispatchers : \A tp \in recov[e] : tp[2] \in Nat
    BY DEF TypeOK, PidsDistinct, Pids, NoPid
  <2>3. PidsDistinct'
    BY <2>1, <2>2 DEF PidsDistinct, NoPid
  <2> QED
    BY <2>1, <2>2, <2>3 DEF FoundDead
<1>2. CASE Exit(d)
  <2>1. /\ UNCHANGED <<owner, starts>>
        /\ \A e \in Dispatchers :
             /\ pid'[e] = IF e = d THEN NoPid ELSE pid[e]
             /\ phase'[e] = IF e = d THEN "down" ELSE phase[e]
             /\ recov'[e] \subseteq recov[e]
             /\ \A t \in Tasks : runs'[e][t] = IF e = d THEN 0 ELSE runs[e][t]
             /\ \A k \in Calls :
                  pc'[<<e, k>>] = IF e = d THEN "idle" ELSE pc[<<e, k>>]
    BY <1>2 DEF Exit, TypeOK, dbVars, Claimers
  <2>2. starts \in Nat
    BY DEF TypeOK
  <2>3. PidsDistinct'
    BY <2>1, <2>2 DEF PidsDistinct, NoPid
  <2>4. \A e \in Dispatchers : \A tp \in recov[e] : tp[2] # NoPid
    BY DEF TypeOK, Pids, NoPid
  <2> QED
    BY <2>1, <2>3, <2>4 DEF FoundDead
<1>3. CASE RecoverScan(d)
  <2>1. PICK reused :
          recov' = [recov EXCEPT ![d] =
            {tp \in Tasks \X Pids :
               /\ status[tp[1]] = "active" /\ owner[tp[1]] = tp[2]
               /\ tp[2] # pid[d] /\ ~PidAlive(tp[2], reused)}]
    BY <1>3 DEF RecoverScan
  <2>2. /\ UNCHANGED <<owner, starts, pid, runs, pc>>
        /\ phase[d] = "starting" /\ phase' = [phase EXCEPT ![d] = "recovering"]
    BY <1>3 DEF RecoverScan, dbVars, execVars, callVars
  <2>3. ASSUME NEW e \in Dispatchers, NEW tp \in recov'[e]
        PROVE  tp[2] <= starts /\ \A f \in Dispatchers : pid[f] # tp[2]
    <3>1. CASE e = d
      <4>1. tp[1] \in Tasks /\ owner[tp[1]] = tp[2] /\ ~PidAlive(tp[2], reused)
        BY <2>1, <2>3, <3>1 DEF TypeOK
      <4> QED
        BY <4>1 DEF PidAlive, PidsDistinct
    <3>2. CASE e # d
      BY <2>1, <2>3, <3>2 DEF FoundDead, TypeOK
    <3> QED
      BY <3>1, <3>2
  <2>4. PidsDistinct'
    BY <2>2 DEF PidsDistinct, TypeOK
  <2> QED
    BY <2>2, <2>3, <2>4 DEF FoundDead
<1>4. CASE ~(Start(d) \/ Exit(d) \/ RecoverScan(d))
  <2>1. UNCHANGED <<pid, starts, pc>>
    BY <1>4 DEF DispatcherStep, ExecEnd, RecoverDone, DrainRequest, Shutdown,
       ExecWrite, ExecThrows, RecoverTask, WatchdogFlag, WatchdogHandle,
       procVars, callVars
  <2>2. \A e \in Dispatchers : phase'[e] = "down" <=> phase[e] = "down"
    BY <1>4 DEF DispatcherStep, ExecEnd, RecoverDone, DrainRequest, Shutdown,
       ExecWrite, ExecThrows, RecoverTask, WatchdogFlag, WatchdogHandle,
       procVars, TypeOK
  <2>3. \A e \in Dispatchers : recov'[e] \subseteq recov[e]
    <3>1. CASE RecoverDone(d)
      BY <3>1 DEF RecoverDone, TypeOK
    <3>2. ASSUME NEW t \in Tasks, RecoverTask(d, t)
          PROVE  \A e \in Dispatchers : recov'[e] \subseteq recov[e]
      BY <3>2 DEF RecoverTask, TypeOK
    <3>3. CASE ~RecoverDone(d) /\ ~\E t \in Tasks : RecoverTask(d, t)
      <4>1. recov' = recov
        BY <1>4, <3>3 DEF DispatcherStep, ExecEnd, DrainRequest, Shutdown,
           ExecWrite, ExecThrows, WatchdogFlag, WatchdogHandle, auxVars
      <4> QED
        BY <4>1
    <3> QED
      BY <3>1, <3>2, <3>3
  <2>4. \A t \in Tasks : owner'[t] = owner[t] \/ owner'[t] = NoPid
    <3>1. CASE owner' = owner
      BY <3>1
    <3>2. CASE \E t \in Tasks : owner' = [owner EXCEPT ![t] = NoPid]
      BY <3>2 DEF TypeOK
    <3>3. owner' = owner \/ \E t \in Tasks : owner' = [owner EXCEPT ![t] = NoPid]
      BY <1>4 DEF DispatcherStep, ExecEnd, RecoverDone, DrainRequest, Shutdown,
         ExecWrite, ExecThrows, RecoverTask, WatchdogFlag, WatchdogHandle,
         Outcome, Release, dbVars
    <3> QED
      BY <3>1, <3>2, <3>3
  <2>5. \A e \in Dispatchers, t \in Tasks : runs[e][t] = 0 => runs'[e][t] = 0
    <3>1. CASE runs' = runs
      BY <3>1
    <3>2. CASE \E t \in Tasks : runs[d][t] > 0 /\ runs' = [runs EXCEPT ![d][t] = @ - 1]
      BY <3>2 DEF TypeOK
    <3>3. runs' = runs
          \/ \E t \in Tasks : runs[d][t] > 0 /\ runs' = [runs EXCEPT ![d][t] = @ - 1]
      BY <1>4 DEF DispatcherStep, ExecEnd, RecoverDone, DrainRequest, Shutdown,
         ExecWrite, ExecThrows, RecoverTask, WatchdogFlag, WatchdogHandle, execVars
    <3> QED
      BY <3>1, <3>2, <3>3
  <2>6. 0 <= starts
    BY DEF TypeOK
  <2>7. PidsDistinct'
    BY <2>1, <2>2, <2>4, <2>5, <2>6 DEF PidsDistinct, NoPid
  <2> QED
    BY <2>1, <2>3, <2>7 DEF FoundDead
<1> QED
  BY <1>1, <1>2, <1>3, <1>4

LEMMA RowPids ==
  ASSUME OwnInv, NEW t \in Tasks, RowStep(t)
  PROVE  PidsDistinct' /\ FoundDead'
<1>1. UNCHANGED <<phase, pid, starts, recov, owner, pc, runs>>
  BY DEF RowStep, OwnerOverride, Resume, BecomeReady, BecomeUnready,
         procVars, callVars, execVars, auxVars
<1> QED
  BY <1>1 DEF OwnInv, PidsDistinct, FoundDead

-----------------------------------------------------------------------------
(* RunningIsOwned is kept.                                                 *)

(* The commit takes a row that was pending, so that nobody worked on it,   *)
(* unless it had been rewritten.                                           *)
LEMMA CommitOwned ==
  ASSUME OwnInv, NEW c \in Claimers, Commit(c)
  PROVE  RunningIsOwned'
<1> USE DEF OwnInv, QueueInv, CapInv
<1> DEFINE u == picked[c]
<1>1. /\ pc[c] = "commit" /\ u \in Tasks /\ status[u] = "pending"
      /\ UNCHANGED <<picked, pid, runs>>
  BY DEF Commit, LocksHeld, PickedPending, procVars, execVars
<1>2. /\ \A t \in Tasks : status'[t] = IF t = u THEN "active" ELSE status[t]
      /\ \A t \in Tasks : owner'[t] = IF t = u THEN pid[c[1]] ELSE owner[t]
      /\ \A e \in Claimers : pc'[e] = IF e = c THEN "gate" ELSE pc[e]
  BY <1>1 DEF Commit, TypeOK
<1>3. \A k \in Calls, d \in Dispatchers :
        <<d, k>> \in Claimers /\ (<<d, k>> = c <=> d = c[1] /\ k = c[2])
  BY ClaimerPair DEF Claimers
<1> SUFFICES ASSUME NEW t \in Tasks \ overridden', NEW d \in Dispatchers
             PROVE  /\ runs'[d][t] > 0 =>
                         runs'[d][t] = 1 /\ status'[t] = "active" /\ owner'[t] = pid'[d]
                    /\ \A k \in Calls : pc'[<<d, k>>] = "gate" /\ picked'[<<d, k>>] = t =>
                         /\ runs'[d][t] = 0 /\ status'[t] = "active" /\ owner'[t] = pid'[d]
                         /\ \A j \in Calls \ {k} :
                              ~(pc'[<<d, j>>] = "gate" /\ picked'[<<d, j>>] = t)
  BY DEF RunningIsOwned
<1>4. CASE t = u
  <2>1. ~Held(u)
    <3>1. ASSUME Held(u) PROVE FALSE
      <4>1. u \notin overridden
        BY <1>4, <3>1 DEF Commit
      <4>2. \E e \in Dispatchers : Works(e, u)
        BY <3>1, ClaimerPair DEF Held, Works
      <4> QED
        BY <1>1, <4>1, <4>2, WorkerOwns
    <3> QED
      BY <3>1
  <2>2. /\ \A e \in Dispatchers : runs[e][u] = 0
        /\ \A e \in Claimers : ~(pc[e] = "gate" /\ picked[e] = u)
    BY <1>1, <2>1 DEF Held, TypeOK
  <2> QED
    BY <1>1, <1>2, <1>3, <1>4, <2>2
<1>5. CASE t # u
  <2>1. t \notin overridden
    BY <1>5 DEF Commit
  <2>2. \A k \in Calls : pc'[<<d, k>>] = "gate" /\ picked'[<<d, k>>] = t
                           <=> pc[<<d, k>>] = "gate" /\ picked[<<d, k>>] = t
    BY <1>1, <1>2, <1>3, <1>5
  <2> QED
    BY <1>1, <1>2, <1>5, <2>1, <2>2 DEF RunningIsOwned
<1> QED
  BY <1>4, <1>5

(* The call hands its task to the execution it starts. *)
LEMMA AllowOwned ==
  ASSUME OwnInv, NEW c \in Claimers, GateAllow(c)
  PROVE  RunningIsOwned'
<1> USE DEF OwnInv, QueueInv, CapInv
<1> DEFINE u == picked[c]
<1>1. /\ pc[c] = "gate" /\ UNCHANGED <<status, owner, pid, overridden>>
      /\ c[1] \in Dispatchers /\ c[2] \in Calls /\ c = <<c[1], c[2]>>
  BY ClaimerPair DEF GateAllow, procVars, dbVars, auxVars
<1>2. /\ \A t \in Tasks, d \in Dispatchers :
           runs'[d][t] = IF d = c[1] /\ t = u THEN runs[d][t] + 1 ELSE runs[d][t]
      /\ \A e \in Claimers : pc'[e] = IF e = c THEN "loop" ELSE pc[e]
      /\ \A e \in Claimers : e # c => picked'[e] = picked[e]
  BY <1>1 DEF GateAllow, TypeOK
<1>3. \A k \in Calls, d \in Dispatchers :
        <<d, k>> \in Claimers /\ (<<d, k>> = c <=> d = c[1] /\ k = c[2])
  BY ClaimerPair DEF Claimers
<1> SUFFICES ASSUME NEW t \in Tasks \ overridden, NEW d \in Dispatchers
             PROVE  /\ runs'[d][t] > 0 =>
                         runs'[d][t] = 1 /\ status[t] = "active" /\ owner[t] = pid[d]
                    /\ \A k \in Calls : pc'[<<d, k>>] = "gate" /\ picked'[<<d, k>>] = t =>
                         /\ runs'[d][t] = 0 /\ status[t] = "active" /\ owner[t] = pid[d]
                         /\ \A j \in Calls \ {k} :
                              ~(pc'[<<d, j>>] = "gate" /\ picked'[<<d, j>>] = t)
  BY <1>1 DEF RunningIsOwned
<1>4. CASE t = u /\ d = c[1]
  <2>1. /\ runs[d][t] = 0 /\ status[t] = "active" /\ owner[t] = pid[d]
        /\ \A j \in Calls \ {c[2]} :
             ~(pc[<<d, j>>] = "gate" /\ picked[<<d, j>>] = t)
    BY <1>1, <1>4 DEF RunningIsOwned
  <2>2. runs'[d][t] = 1
    BY <1>2, <1>4, <2>1
  <2>3. \A j \in Calls : ~(pc'[<<d, j>>] = "gate" /\ picked'[<<d, j>>] = t)
    BY <1>2, <1>3, <1>4, <2>1
  <2> QED
    BY <2>1, <2>2, <2>3
<1>5. CASE ~(t = u /\ d = c[1])
  <2>1. runs'[d][t] = runs[d][t]
    BY <1>2, <1>5
  <2>2. \A k \in Calls : pc'[<<d, k>>] = "gate" /\ picked'[<<d, k>>] = t
                           => pc[<<d, k>>] = "gate" /\ picked[<<d, k>>] = t
    BY <1>2, <1>3
  <2> QED
    BY <2>1, <2>2 DEF RunningIsOwned
<1> QED
  BY <1>4, <1>5

LEMMA CallOwned ==
  ASSUME OwnInv, TypeOK', NEW c \in Claimers, Enter(c) \/ CallStep(c) \/ ClaimThrows(c)
  PROVE  RunningIsOwned'
<1> USE DEF OwnInv, QueueInv, CapInv
<1>1. CASE Commit(c) \/ GateAllow(c)
  BY <1>1, CommitOwned, AllowOwned
<1>2. CASE ~(Commit(c) \/ GateAllow(c))
  <2>1. UNCHANGED <<pid, runs, overridden>>
    BY <1>2 DEF CallStep, Enter, ReadCap, DiskRecover, BeginClaim, LoopExit,
       NothingClaimed, ClaimThrows, Leave, TryRoleLock, UpdateRole, GateBlock,
       procVars, execVars, auxVars
  <2>2. \A e \in Claimers :
          pc'[e] = "gate" => e # c /\ pc[e] = "gate" /\ picked'[e] = picked[e]
    <3>1. pc'[c] # "gate"
      BY <1>2 DEF CallStep, Enter, ReadCap, DiskRecover, BeginClaim, LoopExit,
         NothingClaimed, ClaimThrows, Leave, TryRoleLock, UpdateRole, GateBlock,
         TypeOK
    <3>2. \A e \in Claimers : e # c => pc'[e] = pc[e] /\ picked'[e] = picked[e]
      BY <1>2 DEF CallStep, Enter, ReadCap, DiskRecover, BeginClaim, LoopExit,
         NothingClaimed, ClaimThrows, Leave, TryRoleLock, UpdateRole, GateBlock,
         TypeOK
    <3> QED
      BY <3>1, <3>2
  <2>3. ASSUME NEW t \in Tasks \ overridden, NEW d \in Dispatchers,
               Works(d, t), Works(d, t)'
        PROVE  status'[t] = status[t] /\ owner'[t] = owner[t]
    <3>1. CASE DiskRecover(c)
      BY <2>3, <3>1, WorkerOwns DEF DiskRecover, TypeOK
    <3>2. CASE GateBlock(c)
      <4>1. CASE picked[c] = t
        <5>1. pc[c] = "gate" /\ c = <<c[1], c[2]>> /\ c[1] \in Dispatchers /\ c[2] \in Calls
          BY <3>2, ClaimerPair DEF GateBlock
        <5>2. Works(c[1], t)
          BY <4>1, <5>1 DEF Works
        <5>3. d = c[1]
          BY <2>3, <5>1, <5>2, OneWorker
        <5>4. /\ runs[d][t] = 0
              /\ \A j \in Calls \ {c[2]} :
                   ~(pc[<<d, j>>] = "gate" /\ picked[<<d, j>>] = t)
          BY <4>1, <5>1, <5>3 DEF RunningIsOwned
        <5>5. \A j \in Calls : <<d, j>> \in Claimers
          BY DEF Claimers
        <5>6. ~(runs'[d][t] > 0)
          BY <2>1, <5>4
        <5>7. \A j \in Calls : ~(pc'[<<d, j>>] = "gate" /\ picked'[<<d, j>>] = t)
          BY <2>2, <5>1, <5>3, <5>4, <5>5
        <5>8. ~Works(d, t)'
          BY <5>6, <5>7 DEF Works
        <5> QED
          BY <2>3, <5>8
      <4>2. CASE picked[c] # t
        BY <3>2, <4>2 DEF GateBlock, TypeOK
      <4> QED
        BY <4>1, <4>2
    <3>3. CASE ~(DiskRecover(c) \/ GateBlock(c))
      <4>1. UNCHANGED <<status, owner>>
        BY <1>2, <3>3 DEF CallStep, Enter, ReadCap, BeginClaim, LoopExit,
           NothingClaimed, ClaimThrows, Leave, TryRoleLock, UpdateRole, dbVars
      <4> QED
        BY <4>1
    <3> QED
      BY <3>1, <3>2, <3>3
  <2>4. \A d \in Dispatchers, t \in Tasks : runs'[d][t] <= runs[d][t]
    BY <2>1 DEF TypeOK
  <2> QED
    BY <2>1, <2>2, <2>3, <2>4, OwnedKept
<1> QED
  BY <1>1, <1>2

(* The last write, or the error, of the only execution of t.               *)
LEMMA EndedOwned ==
  ASSUME OwnInv, NEW d \in Dispatchers, NEW t \in Tasks \ overridden,
         runs[d][t] > 0, runs' = [runs EXCEPT ![d][t] = @ - 1],
         UNCHANGED <<pc, picked>>
  PROVE  \A e \in Dispatchers : ~(Works(e, t) /\ Works(e, t)')
<1> USE DEF OwnInv, QueueInv, CapInv
<1> SUFFICES ASSUME NEW e \in Dispatchers, Works(e, t), Works(e, t)'
             PROVE  FALSE
  OBVIOUS
<1>1. Works(d, t)
  BY DEF Works
<1>2. e = d
  BY <1>1, OneWorker
<1>3. /\ runs[d][t] = 1
      /\ \A k \in Calls : ~(pc[<<d, k>>] = "gate" /\ picked[<<d, k>>] = t)
  BY DEF RunningIsOwned
<1>4. ~(runs'[d][t] > 0)
  BY <1>3 DEF TypeOK
<1>5. ~Works(d, t)'
  BY <1>3, <1>4 DEF Works
<1> QED
  BY <1>2, <1>5

LEMMA DispatcherOwned ==
  ASSUME OwnInv, TypeOK', NEW d \in Dispatchers, DispatcherStep(d)
  PROVE  RunningIsOwned'
<1> USE DEF OwnInv, QueueInv, CapInv
<1>1. CASE Exit(d)
  <2>1. UNCHANGED <<status, owner, overridden>>
    BY <1>1 DEF Exit, dbVars
  <2>2. /\ \A e \in Dispatchers : e # d => pid'[e] = pid[e]
        /\ \A e \in Dispatchers, t \in Tasks :
             runs'[e][t] = IF e = d THEN 0 ELSE runs[e][t]
        /\ \A e \in Claimers :
             pc'[e] = "gate" => e[1] # d /\ pc[e] = "gate" /\ picked'[e] = picked[e]
    BY <1>1 DEF Exit, TypeOK
  <2>3. \A t \in Tasks : ~Works(d, t)'
    <3>1. \A k \in Calls : <<d, k>> \in Claimers /\ <<d, k>>[1] = d
      BY DEF Claimers
    <3>2. ASSUME NEW t \in Tasks PROVE ~(runs'[d][t] > 0)
      BY <2>2
    <3>3. \A k \in Calls : pc'[<<d, k>>] # "gate"
      BY <2>2, <3>1
    <3> QED
      BY <3>2, <3>3 DEF Works
  <2>4. ASSUME NEW e \in Dispatchers, NEW t \in Tasks PROVE runs'[e][t] <= runs[e][t]
    <3>1. runs[e][t] \in Nat
      BY DEF TypeOK
    <3> QED
      BY <2>2, <3>1
  <2> QED
    BY <2>1, <2>2, <2>3, <2>4, OwnedKept
<1>2. CASE Start(d)
  <2>1. /\ UNCHANGED <<status, owner, overridden, runs, pc, picked>>
        /\ \A e \in Dispatchers : e # d => pid'[e] = pid[e]
        /\ phase[d] = "down"
    BY <1>2 DEF Start, TypeOK, Alive, dbVars, execVars, callVars, auxVars
  <2>2. \A t \in Tasks : ~Works(d, t)
    BY <2>1, WorkerUp
  <2>3. \A e \in Dispatchers, t \in Tasks : runs'[e][t] <= runs[e][t]
    BY <2>1 DEF TypeOK
  <2> QED
    BY <2>1, <2>2, <2>3, OwnedKept
<1>3. ASSUME NEW t \in Tasks, ExecWrite(d, t) PROVE RunningIsOwned'
  <2>1. /\ UNCHANGED <<pid, overridden, pc, picked>>
        /\ runs[d][t] > 0 /\ runs' = [runs EXCEPT ![d][t] = @ - 1]
    BY <1>3 DEF ExecWrite, procVars, callVars, auxVars
  <2>2. \A u \in Tasks : u # t => status'[u] = status[u] /\ owner'[u] = owner[u]
    BY <1>3 DEF ExecWrite, Outcome, Release, TypeOK
  <2>3. \A e \in Dispatchers, u \in Tasks : runs'[e][u] <= runs[e][u]
    BY <2>1 DEF TypeOK
  <2> QED
    BY <2>1, <2>2, <2>3, EndedOwned, OwnedKept
<1>4. ASSUME NEW t \in Tasks, ExecThrows(d, t) PROVE RunningIsOwned'
  <2>1. /\ UNCHANGED <<pid, overridden, pc, picked, status, owner>>
        /\ runs[d][t] > 0 /\ runs' = [runs EXCEPT ![d][t] = @ - 1]
    BY <1>4 DEF ExecThrows, procVars, callVars, auxVars, dbVars
  <2>2. \A e \in Dispatchers, u \in Tasks : runs'[e][u] <= runs[e][u]
    BY <2>1 DEF TypeOK
  <2> QED
    BY <2>1, <2>2, OwnedKept
<1>5. ASSUME NEW t \in Tasks, RecoverTask(d, t) PROVE RunningIsOwned'
  <2>1. UNCHANGED <<pid, overridden, pc, picked, runs>>
    BY <1>5 DEF RecoverTask, procVars, callVars, execVars
  <2>2. PICK p \in Pids :
          /\ <<t, p>> \in recov[d]
          /\ IF status[t] = "active" /\ owner[t] = p
             THEN /\ status' = [status EXCEPT ![t] = "pending"]
                  /\ owner' = [owner EXCEPT ![t] = NoPid]
             ELSE UNCHANGED <<status, owner>>
    BY <1>5 DEF RecoverTask
  <2>3. \A e \in Dispatchers : pid[e] # p
    BY <2>2 DEF FoundDead
  <2>4. ASSUME NEW u \in Tasks \ overridden, NEW e \in Dispatchers, Works(e, u)
        PROVE  status'[u] = status[u] /\ owner'[u] = owner[u]
    <3>1. owner[u] = pid[e]
      BY <2>4, WorkerOwns
    <3>2. CASE u = t
      BY <2>2, <2>3, <3>1, <3>2
    <3>3. CASE u # t
      BY <2>2, <3>3 DEF TypeOK
    <3> QED
      BY <3>2, <3>3
  <2>5. \A e \in Dispatchers, u \in Tasks : runs'[e][u] <= runs[e][u]
    BY <2>1 DEF TypeOK
  <2> QED
    BY <2>1, <2>4, <2>5, OwnedKept
<1>6. ASSUME NEW t \in Tasks, WatchdogHandle(d, t) PROVE RunningIsOwned'
  <2>1. /\ UNCHANGED <<pid, pc, picked, runs>>
        /\ overridden' = overridden \cup {t}
    BY <1>6 DEF WatchdogHandle, procVars, callVars, execVars
  <2>2. \A u \in Tasks : u # t => status'[u] = status[u] /\ owner'[u] = owner[u]
    BY <1>6 DEF WatchdogHandle, Release, TypeOK
  <2>3. \A e \in Dispatchers, u \in Tasks : runs'[e][u] <= runs[e][u]
    BY <2>1 DEF TypeOK
  <2> QED
    BY <2>1, <2>2, <2>3, OwnedKept
<1>7. CASE \/ ExecEnd(d) \/ RecoverScan(d) \/ RecoverDone(d) \/ DrainRequest(d)
           \/ Shutdown(d) \/ \E t \in Tasks : WatchdogFlag(d, t)
  <2>1. UNCHANGED <<status, owner, pid, overridden, pc, picked, runs>>
    BY <1>7 DEF ExecEnd, RecoverScan, RecoverDone, DrainRequest, Shutdown,
       WatchdogFlag, dbVars, procVars, callVars, execVars, auxVars
  <2>2. \A e \in Dispatchers, u \in Tasks : runs'[e][u] <= runs[e][u]
    BY <2>1 DEF TypeOK
  <2> QED
    BY <2>1, <2>2, OwnedKept
<1> QED
  BY <1>1, <1>2, <1>3, <1>4, <1>5, <1>6, <1>7 DEF DispatcherStep

LEMMA RowOwned ==
  ASSUME OwnInv, TypeOK', NEW t \in Tasks, RowStep(t)
  PROVE  RunningIsOwned'
<1> USE DEF OwnInv, QueueInv, CapInv
<1>1. /\ UNCHANGED <<owner, pid, pc, picked, runs>>
      /\ overridden \subseteq overridden'
  BY DEF RowStep, OwnerOverride, Resume, BecomeReady, BecomeUnready,
         procVars, callVars, execVars, auxVars
<1>2. \A u \in Tasks \ overridden' : status[u] = "active" => status'[u] = status[u]
  BY DEF RowStep, OwnerOverride, Resume, BecomeReady, BecomeUnready, TypeOK
<1>3. \A e \in Dispatchers, u \in Tasks : runs'[e][u] <= runs[e][u]
  BY <1>1 DEF TypeOK
<1> QED
  BY <1>1, <1>2, <1>3, WorkerOwns, OwnedKept

LEMMA OwnInvHolds == Spec => []OwnInv
<1>1. Init => OwnInv
  <2> SUFFICES ASSUME Init PROVE OwnInv
    OBVIOUS
  <2>1. LocksHeld /\ PickedPending
    BY DEF Init, LocksHeld, PickedPending
  <2>2. \A r : Taken(r) = {}
    BY DEF Init, Taken, RowLocked
  <2>3. TakenWithinLimit
    BY <2>2, FS_EmptySet, TaskAssumption DEF TakenWithinLimit
  <2>4. PidsDistinct
    BY DEF Init, PidsDistinct, NoPid, Claimers
  <2>5. FoundDead /\ RunningIsOwned
    BY DEF Init, FoundDead, RunningIsOwned, Claimers
  <2> QED
    BY <2>1, <2>3, <2>4, <2>5, TypeInit DEF OwnInv, QueueInv, CapInv
<1>2. TypeOK' /\ OwnInv /\ [Next]_vars => OwnInv'
  <2> SUFFICES ASSUME TypeOK', OwnInv, [Next]_vars PROVE OwnInv'
    OBVIOUS
  <2>1. LocksHeld' /\ TakenWithinLimit' /\ PickedPending'
    <3>1. CASE Next
      BY <3>1, CallCap, DispatcherCap, RowCap, CallPicked, DispatcherPicked,
         RowPicked DEF Next, OwnInv, QueueInv
    <3>2. CASE UNCHANGED vars
      BY <3>2, ClaimsUntouched, PickedKept DEF vars, OwnInv, QueueInv, CapInv
    <3> QED
      BY <3>1, <3>2
  <2>2. PidsDistinct' /\ FoundDead' /\ RunningIsOwned'
    <3>1. CASE Next
      BY <3>1, CallPids, DispatcherPids, RowPids, CallOwned, DispatcherOwned,
         RowOwned DEF Next
    <3>2. CASE UNCHANGED vars
      BY <3>2 DEF vars, OwnInv, PidsDistinct, FoundDead, RunningIsOwned
    <3> QED
      BY <3>1, <3>2
  <2> QED
    BY <2>1, <2>2 DEF OwnInv, QueueInv, CapInv
<1> QED
  BY <1>1, <1>2, TypeCorrect, PTL DEF Spec, OwnInv

(* A task that nobody has rewritten has at most one execution, under the   *)
(* process its row names, with any number of dispatchers that restart,     *)
(* recover each other's rows and race for them.                            *)
THEOREM RunningIsOwnedHolds == Spec => []RunningIsOwned
<1>1. OwnInv => RunningIsOwned
  BY DEF OwnInv
<1> QED
  BY <1>1, OwnInvHolds, PTL

-----------------------------------------------------------------------------
(* The overrun of the concurrency cap.                                     *)

LEMMA InClaimFinite ==
  ASSUME NEW d
  PROVE  /\ IsFiniteSet(InClaim(d)) /\ Cardinality(InClaim(d)) \in Nat
         /\ Cardinality(InClaim(d)) <= Cardinality(Calls)
         /\ Cardinality(Calls) \in Nat
  BY TaskAssumption, FS_Subset, FS_CardinalityType DEF InClaim

(* A step that adds neither a slot nor an invocation in its claim.         *)
LEMMA OverrunKept ==
  ASSUME TypeOK, TypeOK', OverrunBound, NEW d \in Dispatchers,
         activeTasks'[d] <= activeTasks[d],
         \A k \in Calls : pc'[<<d, k>>] \in {"roles", "update", "commit", "gate"}
                            => pc[<<d, k>>] \in {"roles", "update", "commit", "gate"}
  PROVE  activeTasks'[d] + Cardinality(InClaim(d)') <= MaxCap - 1 + Cardinality(Calls)
<1>1. InClaim(d)' \subseteq InClaim(d)
  BY DEF InClaim
<1>2. /\ Cardinality(InClaim(d)') <= Cardinality(InClaim(d))
      /\ Cardinality(InClaim(d)') \in Nat
  BY <1>1, InClaimFinite, FS_Subset, FS_CardinalityType
<1>3. activeTasks[d] \in Nat /\ activeTasks'[d] \in Nat /\ MaxCap \in Nat
  BY TaskAssumption DEF TypeOK
<1> QED
  BY <1>2, <1>3, InClaimFinite DEF OverrunBound

LEMMA CallOverrun ==
  ASSUME TypeOK, TypeOK', OverrunBound, NEW d \in Dispatchers, NEW c \in Claimers,
         Enter(c) \/ CallStep(c) \/ ClaimThrows(c)
  PROVE  activeTasks'[d] + Cardinality(InClaim(d)') <= MaxCap - 1 + Cardinality(Calls)
<1> DEFINE Claiming == {"roles", "update", "commit", "gate"}
<1>0. /\ c[1] \in Dispatchers /\ c[2] \in Calls /\ c = <<c[1], c[2]>>
      /\ \A e \in Dispatchers, k \in Calls :
           <<e, k>> \in Claimers /\ (<<e, k>> = c <=> e = c[1] /\ k = c[2])
  BY ClaimerPair DEF Claimers
<1>1. CASE BeginClaim(c) /\ d = c[1]
  <2>1. activeTasks' = activeTasks /\ activeTasks[d] < live[c]
    BY <1>1 DEF BeginClaim, HasSlot, loopVars
  <2>2. live[c] \in 1..MaxCap /\ activeTasks[d] \in Nat /\ MaxCap \in Nat
    BY TaskAssumption DEF TypeOK
  <2>3. InClaim(d)' \subseteq Calls
    BY DEF InClaim
  <2>4. /\ Cardinality(InClaim(d)') <= Cardinality(Calls)
        /\ Cardinality(InClaim(d)') \in Nat /\ Cardinality(Calls) \in Nat
    BY <2>3, TaskAssumption, FS_Subset, FS_CardinalityType
  <2> QED
    BY <2>1, <2>2, <2>4
<1>2. CASE GateAllow(c) /\ d = c[1]
  <2>1. activeTasks'[d] = activeTasks[d] + 1
    BY <1>0, <1>2 DEF GateAllow, TypeOK
  <2>2. InClaim(d)' = InClaim(d) \ {c[2]} /\ c[2] \in InClaim(d)
    <3>1. pc[c] = "gate" /\ \A e \in Claimers : pc'[e] = IF e = c THEN "loop" ELSE pc[e]
      BY <1>2 DEF GateAllow, TypeOK
    <3>2. \A k \in Calls : pc'[<<d, k>>] = IF k = c[2] THEN "loop" ELSE pc[<<d, k>>]
      BY <1>0, <1>2, <3>1
    <3>3. pc[<<d, c[2]>>] = "gate"
      BY <1>0, <1>2, <3>1
    <3> QED
      BY <1>0, <3>2, <3>3 DEF InClaim
  <2>3. Cardinality(InClaim(d)') = Cardinality(InClaim(d)) - 1
    <3>1. IsFiniteSet(InClaim(d))
      BY InClaimFinite
    <3>2. Cardinality(InClaim(d) \ {c[2]}) = Cardinality(InClaim(d)) - 1
      BY <2>2, <3>1, FS_RemoveElement
    <3> QED
      BY <2>2, <3>2
  <2>4. activeTasks[d] \in Nat /\ MaxCap \in Nat
    BY TaskAssumption DEF TypeOK
  <2> QED
    BY <2>1, <2>3, <2>4, InClaimFinite DEF OverrunBound
<1>3. CASE ~((BeginClaim(c) \/ GateAllow(c)) /\ d = c[1])
  <2>1. activeTasks'[d] = activeTasks[d]
    <3>1. CASE GateAllow(c)
      BY <1>0, <1>3, <3>1 DEF GateAllow, TypeOK
    <3>2. CASE ~GateAllow(c)
      BY <3>2 DEF CallStep, Enter, ReadCap, DiskRecover, BeginClaim, LoopExit,
         NothingClaimed, ClaimThrows, Leave, TryRoleLock, UpdateRole, Commit,
         GateBlock, loopVars
    <3> QED
      BY <3>1, <3>2
  <2>2. \A e \in Claimers : e # c => pc'[e] = pc[e]
    BY DEF CallStep, Enter, ReadCap, DiskRecover, BeginClaim, LoopExit,
       NothingClaimed, ClaimThrows, Leave, TryRoleLock, UpdateRole, Commit,
       GateBlock, GateAllow, TypeOK
  <2>3. d = c[1] /\ pc'[c] \in Claiming => pc[c] \in Claiming
    BY <1>3 DEF CallStep, Enter, ReadCap, DiskRecover, LoopExit,
       NothingClaimed, ClaimThrows, Leave, TryRoleLock, UpdateRole, Commit,
       GateBlock, TypeOK
  <2>4. \A k \in Calls : pc'[<<d, k>>] \in Claiming => pc[<<d, k>>] \in Claiming
    BY <1>0, <2>2, <2>3
  <2>5. activeTasks'[d] <= activeTasks[d]
    BY <2>1 DEF TypeOK
  <2> QED
    BY <2>4, <2>5, OverrunKept
<1> QED
  BY <1>1, <1>2, <1>3

LEMMA DispatcherOverrun ==
  ASSUME TypeOK, TypeOK', OverrunBound, NEW d \in Dispatchers, NEW e \in Dispatchers,
         DispatcherStep(e)
  PROVE  activeTasks'[d] + Cardinality(InClaim(d)') <= MaxCap - 1 + Cardinality(Calls)
<1>1. activeTasks'[d] <= activeTasks[d]
  <2>1. CASE ExecEnd(e)
    BY <2>1 DEF ExecEnd, TypeOK
  <2>2. CASE Exit(e)
    BY <2>2 DEF Exit, TypeOK
  <2>3. CASE ~ExecEnd(e) /\ ~Exit(e)
    <3>1. activeTasks' = activeTasks
      BY <2>3 DEF DispatcherStep, Start, RecoverScan, RecoverDone, DrainRequest,
         Shutdown, ExecWrite, ExecThrows, RecoverTask, WatchdogFlag,
         WatchdogHandle, loopVars
    <3> QED
      BY <3>1 DEF TypeOK
  <2> QED
    BY <2>1, <2>2, <2>3
<1>2. \A k \in Calls : pc'[<<d, k>>] = pc[<<d, k>>] \/ pc'[<<d, k>>] = "idle"
  <2>1. CASE Exit(e)
    BY <2>1 DEF Exit, Claimers
  <2>2. CASE ~Exit(e)
    BY <2>2 DEF DispatcherStep, ExecEnd, Start, RecoverScan, RecoverDone,
       DrainRequest, Shutdown, ExecWrite, ExecThrows, RecoverTask, WatchdogFlag,
       WatchdogHandle, callVars
  <2> QED
    BY <2>1, <2>2
<1> QED
  BY <1>1, <1>2, OverrunKept

LEMMA OverrunSame ==
  ASSUME TypeOK, TypeOK', OverrunBound, UNCHANGED <<activeTasks, pc>>
  PROVE  OverrunBound'
  BY OverrunKept DEF OverrunBound, TypeOK

(* The concurrency cap is exceeded by at most one slot for each extra      *)
(* invocation of processNextTask that overlaps.                            *)
THEOREM OverrunHolds == Spec => []OverrunBound
<1>1. Init => OverrunBound
  <2> SUFFICES ASSUME Init, NEW d \in Dispatchers
               PROVE  activeTasks[d] + Cardinality(InClaim(d))
                        <= MaxCap - 1 + Cardinality(Calls)
    BY DEF OverrunBound
  <2>1. activeTasks[d] = 0 /\ MaxCap \in Nat \ {0}
    BY TaskAssumption DEF Init
  <2> QED
    BY <2>1, InClaimFinite
<1>2. TypeOK /\ TypeOK' /\ OverrunBound /\ [Next]_vars => OverrunBound'
  <2> SUFFICES ASSUME TypeOK, TypeOK', OverrunBound, [Next]_vars PROVE OverrunBound'
    OBVIOUS
  <2>1. CASE \E c \in Claimers : Enter(c) \/ CallStep(c) \/ ClaimThrows(c)
    BY <2>1, CallOverrun DEF OverrunBound
  <2>2. CASE \E e \in Dispatchers : DispatcherStep(e)
    BY <2>2, DispatcherOverrun DEF OverrunBound
  <2>3. CASE \E t \in Tasks : RowStep(t)
    <3>1. UNCHANGED <<activeTasks, pc>>
      BY <2>3 DEF RowStep, OwnerOverride, Resume, BecomeReady, BecomeUnready,
         loopVars, callVars
    <3> QED
      BY <3>1, OverrunSame
  <2>4. CASE UNCHANGED vars
    BY <2>4, OverrunSame DEF vars
  <2> QED
    BY <2>1, <2>2, <2>3, <2>4 DEF Next
<1> QED
  BY <1>1, <1>2, TypeCorrect, PTL DEF Spec

-----------------------------------------------------------------------------
(* The slot counter.                                                       *)

(* A claimed task waits at the disk gate.                                  *)
GatePicked == \A c \in Claimers : pc[c] = "gate" => picked[c] \in Tasks

SlotInv ==
  GatePicked /\ SlotsCounted /\ \A d \in Dispatchers : IsFiniteSet(Executions(d))

(* What the counters f of a dispatcher's executions count.                 *)
Counted(f) == UNION {{t} \X (1..f[t]) : t \in Tasks}

LEMMA InCounted ==
  ASSUME NEW f, NEW e
  PROVE  e \in Counted(f) <=> \E t \in Tasks : \E n \in 1..f[t] : e = <<t, n>>
BY DEF Counted

(* One execution more or less of a task is one slot more or less.          *)
LEMMA OneMore ==
  ASSUME NEW f \in [Tasks -> Nat], NEW t \in Tasks, IsFiniteSet(Counted(f)),
         NEW g, g = [f EXCEPT ![t] = @ + 1]
  PROVE  /\ IsFiniteSet(Counted(g))
         /\ Cardinality(Counted(g)) = Cardinality(Counted(f)) + 1
<1> DEFINE n == f[t]
<1>1. n \in Nat /\ g[t] = n + 1 /\ \A u \in Tasks : u # t => g[u] = f[u]
  OBVIOUS
<1>2. 1..(n + 1) = 1..n \cup {n + 1} /\ n + 1 \notin 1..n
  BY <1>1
<1>3. \A u \in Tasks : 1..g[u] = IF u = t THEN 1..f[u] \cup {n + 1} ELSE 1..f[u]
  BY <1>1, <1>2
<1> HIDE DEF n
<1>4. ASSUME NEW e PROVE e \in Counted(g) <=> e \in Counted(f) \/ e = <<t, n + 1>>
  <2>1. ASSUME NEW u \in Tasks, NEW k \in 1..g[u], e = <<u, k>>
        PROVE  e \in Counted(f) \/ e = <<t, n + 1>>
    <3>1. k \in 1..f[u] \/ (u = t /\ k = n + 1)
      BY <1>3
    <3> QED
      BY <2>1, <3>1, InCounted
  <2>2. ASSUME NEW u \in Tasks, NEW k \in 1..f[u], e = <<u, k>>
        PROVE  e \in Counted(g)
    <3>1. k \in 1..g[u]
      BY <1>3
    <3> QED
      BY <2>2, <3>1, InCounted
  <2>3. e = <<t, n + 1>> => e \in Counted(g)
    <3>1. n + 1 \in 1..g[t]
      BY <1>3
    <3> QED
      BY <3>1, InCounted
  <2>4. e \in Counted(f) <=> \E u \in Tasks : \E k \in 1..f[u] : e = <<u, k>>
    BY InCounted
  <2>5. e \in Counted(g) <=> \E u \in Tasks : \E k \in 1..g[u] : e = <<u, k>>
    BY DEF Counted
  <2> QED
    BY <2>1, <2>2, <2>3, <2>4, <2>5
<1>5. Counted(g) = Counted(f) \cup {<<t, n + 1>>}
  BY <1>4
<1>6. <<t, n + 1>> \notin Counted(f)
  BY <1>2, InCounted DEF n
<1>7. /\ IsFiniteSet(Counted(f) \cup {<<t, n + 1>>})
      /\ Cardinality(Counted(f) \cup {<<t, n + 1>>}) = Cardinality(Counted(f)) + 1
  BY <1>6, FS_AddElement
<1> QED
  BY <1>5, <1>7

LEMMA OneLess ==
  ASSUME NEW f \in [Tasks -> Nat], NEW t \in Tasks, IsFiniteSet(Counted(f)), f[t] > 0,
         NEW g, g = [f EXCEPT ![t] = @ - 1]
  PROVE  /\ IsFiniteSet(Counted(g))
         /\ Cardinality(Counted(g)) = Cardinality(Counted(f)) - 1
<1> DEFINE n == f[t]
<1>1. n \in Nat \ {0} /\ g[t] = n - 1 /\ \A u \in Tasks : u # t => g[u] = f[u]
  OBVIOUS
<1>2. 1..n = 1..(n - 1) \cup {n} /\ n \notin 1..(n - 1)
  BY <1>1
<1>3. \A u \in Tasks : 1..f[u] = IF u = t THEN 1..g[u] \cup {n} ELSE 1..g[u]
  BY <1>1, <1>2
<1>4. n \notin 1..g[t]
  BY <1>1, <1>2
<1> HIDE DEF n
<1>5. ASSUME NEW e PROVE e \in Counted(f) <=> e \in Counted(g) \/ e = <<t, n>>
  <2>1. ASSUME NEW u \in Tasks, NEW k \in 1..f[u], e = <<u, k>>
        PROVE  e \in Counted(g) \/ e = <<t, n>>
    <3>1. k \in 1..g[u] \/ (u = t /\ k = n)
      BY <1>3
    <3> QED
      BY <2>1, <3>1, InCounted
  <2>2. ASSUME NEW u \in Tasks, NEW k \in 1..g[u], e = <<u, k>>
        PROVE  e \in Counted(f)
    <3>1. k \in 1..f[u]
      BY <1>3
    <3> QED
      BY <2>2, <3>1, InCounted
  <2>3. e = <<t, n>> => e \in Counted(f)
    <3>1. n \in 1..f[t]
      BY <1>3
    <3> QED
      BY <3>1, InCounted
  <2>4. e \in Counted(f) <=> \E u \in Tasks : \E k \in 1..f[u] : e = <<u, k>>
    BY InCounted
  <2>5. e \in Counted(g) <=> \E u \in Tasks : \E k \in 1..g[u] : e = <<u, k>>
    BY DEF Counted
  <2> QED
    BY <2>1, <2>2, <2>3, <2>4, <2>5
<1>6. <<t, n>> \notin Counted(g)
  <2>1. ASSUME NEW u \in Tasks, NEW k \in 1..g[u] PROVE <<t, n>> # <<u, k>>
    BY <1>4
  <2>2. <<t, n>> \in Counted(g) <=> \E u \in Tasks : \E k \in 1..g[u] : <<t, n>> = <<u, k>>
    BY InCounted
  <2> QED
    BY <2>1, <2>2
<1>7. Counted(g) = Counted(f) \ {<<t, n>>} /\ <<t, n>> \in Counted(f)
  BY <1>5, <1>6
<1> QED
  BY <1>7, FS_RemoveElement

LEMMA SlotsSame ==
  ASSUME NEW d, SlotInv, d \in Dispatchers, runs'[d] = runs[d],
         activeTasks'[d] = activeTasks[d], ending'[d] = ending[d]
  PROVE  /\ activeTasks'[d] = ending'[d] + Cardinality(Executions(d)')
         /\ IsFiniteSet(Executions(d)')
<1>1. Executions(d)' = Executions(d)
  BY DEF Executions
<1> QED
  BY <1>1 DEF SlotInv, SlotsCounted

LEMMA SlotCount ==
  ASSUME SlotInv, NEW d \in Dispatchers
  PROVE  Cardinality(Executions(d)) \in Nat
BY FS_CardinalityType DEF SlotInv

LEMMA CallSlots ==
  ASSUME TypeOK, SlotInv, NEW c \in Claimers, Enter(c) \/ CallStep(c) \/ ClaimThrows(c),
         NEW d \in Dispatchers
  PROVE  /\ activeTasks'[d] = ending'[d] + Cardinality(Executions(d)')
         /\ IsFiniteSet(Executions(d)')
<1>1. CASE GateAllow(c) /\ d = c[1]
  <2>1. picked[c] \in Tasks
    BY <1>1 DEF GateAllow, SlotInv, GatePicked
  <2>2. /\ activeTasks'[d] = activeTasks[d] + 1 /\ ending' = ending
        /\ runs'[d] = [runs[d] EXCEPT ![picked[c]] = @ + 1]
    BY <1>1 DEF GateAllow, TypeOK
  <2>3. /\ IsFiniteSet(Executions(d)')
        /\ Cardinality(Executions(d)') = Cardinality(Executions(d)) + 1
    <3>1. /\ runs[d] \in [Tasks -> Nat] /\ Executions(d) = Counted(runs[d])
          /\ Executions(d)' = Counted(runs'[d]) /\ IsFiniteSet(Executions(d))
      BY DEF SlotInv, TypeOK, Executions, Counted
    <3> QED
      BY <2>1, <2>2, <3>1, OneMore
  <2>4. ending[d] \in Nat
    BY DEF TypeOK
  <2> QED
    BY <2>2, <2>3, <2>4, SlotCount DEF SlotInv, SlotsCounted
<1>2. CASE GateAllow(c) /\ d # c[1]
  <2>1. runs'[d] = runs[d] /\ activeTasks'[d] = activeTasks[d] /\ ending'[d] = ending[d]
    BY <1>2, ClaimerPair DEF GateAllow, TypeOK
  <2> QED
    BY <2>1, SlotsSame
<1>3. CASE ~GateAllow(c)
  <2>1. UNCHANGED <<runs, activeTasks, ending>>
    BY <1>3 DEF CallStep, Enter, ReadCap, DiskRecover, BeginClaim, LoopExit,
       NothingClaimed, ClaimThrows, Leave, TryRoleLock, UpdateRole, Commit,
       GateBlock, loopVars, execVars
  <2> QED
    BY <2>1, SlotsSame
<1> QED
  BY <1>1, <1>2, <1>3

LEMMA DispatcherSlots ==
  ASSUME TypeOK, SlotInv, NEW e \in Dispatchers, DispatcherStep(e), NEW d \in Dispatchers
  PROVE  /\ activeTasks'[d] = ending'[d] + Cardinality(Executions(d)')
         /\ IsFiniteSet(Executions(d)')
<1>0. ending[d] \in Nat /\ activeTasks[d] \in Nat
      /\ activeTasks[d] = ending[d] + Cardinality(Executions(d))
  BY DEF TypeOK, SlotInv, SlotsCounted
<1>1. ASSUME NEW t \in Tasks, ExecWrite(e, t) \/ ExecThrows(e, t), d = e
      PROVE  /\ activeTasks'[d] = ending'[d] + Cardinality(Executions(d)')
             /\ IsFiniteSet(Executions(d)')
  <2>1. /\ activeTasks'[d] = activeTasks[d] /\ ending'[d] = ending[d] + 1
        /\ runs[d][t] > 0 /\ runs'[d] = [runs[d] EXCEPT ![t] = @ - 1]
    BY <1>1 DEF ExecWrite, ExecThrows, TypeOK, loopVars
  <2>2. /\ IsFiniteSet(Executions(d)')
        /\ Cardinality(Executions(d)') = Cardinality(Executions(d)) - 1
    <3>1. /\ runs[d] \in [Tasks -> Nat] /\ Executions(d) = Counted(runs[d])
          /\ Executions(d)' = Counted(runs'[d]) /\ IsFiniteSet(Executions(d))
      BY DEF SlotInv, TypeOK, Executions, Counted
    <3> QED
      BY <2>1, <3>1, OneLess
  <2> QED
    BY <1>0, <2>1, <2>2, SlotCount
<1>2. CASE ExecEnd(e) /\ d = e
  <2>1. /\ ending[d] > 0 /\ ending'[d] = ending[d] - 1
        /\ activeTasks'[d] = IF activeTasks[d] > 0 THEN activeTasks[d] - 1 ELSE 0
        /\ runs' = runs
    BY <1>2 DEF ExecEnd, TypeOK
  <2>2. Executions(d)' = Executions(d)
    BY <2>1 DEF Executions
  <2> QED
    BY <1>0, <2>1, <2>2, SlotCount DEF SlotInv
<1>3. CASE Exit(e) /\ d = e
  <2>1. activeTasks'[d] = 0 /\ ending'[d] = 0 /\ \A t \in Tasks : runs'[d][t] = 0
    BY <1>3 DEF Exit, TypeOK
  <2>2. Executions(d)' = {}
    BY <2>1 DEF Executions
  <2> QED
    BY <2>1, <2>2, FS_EmptySet
<1>4. CASE d # e \/ ~(ExecEnd(e) \/ Exit(e) \/ \E t \in Tasks : ExecWrite(e, t) \/ ExecThrows(e, t))
  <2>1. runs'[d] = runs[d] /\ activeTasks'[d] = activeTasks[d] /\ ending'[d] = ending[d]
    BY <1>4 DEF DispatcherStep, ExecEnd, Exit, ExecWrite, ExecThrows, Start, RecoverScan,
       RecoverDone, DrainRequest, Shutdown, RecoverTask, WatchdogFlag, WatchdogHandle,
       loopVars, execVars, TypeOK
  <2> QED
    BY <2>1, SlotsSame
<1> QED
  BY <1>1, <1>2, <1>3, <1>4

LEMMA GateNext ==
  ASSUME TypeOK, LocksHeld, GatePicked, [Next]_vars
  PROVE  GatePicked'
<1> SUFFICES ASSUME NEW c \in Claimers, pc'[c] = "gate" PROVE picked'[c] \in Tasks
  BY DEF GatePicked
<1>1. ASSUME NEW b \in Claimers, Enter(b) \/ CallStep(b) \/ ClaimThrows(b)
      PROVE  picked'[c] \in Tasks
  <2>1. CASE b # c
    <3>1. pc'[c] = pc[c] /\ picked'[c] = picked[c]
      BY <1>1, <2>1 DEF CallStep, Enter, ReadCap, DiskRecover, BeginClaim, LoopExit,
         NothingClaimed, ClaimThrows, Leave, TryRoleLock, UpdateRole, Commit,
         GateBlock, GateAllow, TypeOK
    <3> QED
      BY <3>1 DEF GatePicked
  <2>2. CASE b = c
    <3>1. Commit(c)
      BY <1>1, <2>2 DEF CallStep, Enter, ReadCap, DiskRecover, BeginClaim, LoopExit,
         NothingClaimed, ClaimThrows, Leave, TryRoleLock, UpdateRole,
         GateBlock, GateAllow, TypeOK
    <3> QED
      BY <3>1 DEF Commit, LocksHeld
  <2> QED
    BY <2>1, <2>2
<1>2. ASSUME NEW d \in Dispatchers, DispatcherStep(d) PROVE picked'[c] \in Tasks
  <2>1. CASE Exit(d)
    <3>1. c[1] # d /\ pc[c] = "gate" /\ picked'[c] = picked[c]
      BY <2>1 DEF Exit
    <3> QED
      BY <3>1 DEF GatePicked
  <2>2. CASE ~Exit(d)
    <3>1. pc' = pc /\ picked' = picked
      BY <1>2, <2>2 DEF DispatcherStep, ExecEnd, Start, RecoverScan, RecoverDone,
         DrainRequest, Shutdown, ExecWrite, ExecThrows, RecoverTask, WatchdogFlag,
         WatchdogHandle, callVars
    <3> QED
      BY <3>1 DEF GatePicked
  <2> QED
    BY <2>1, <2>2
<1>3. CASE (\E t \in Tasks : RowStep(t)) \/ UNCHANGED vars
  <2>1. pc' = pc /\ picked' = picked
    BY <1>3 DEF RowStep, OwnerOverride, Resume, BecomeReady, BecomeUnready, callVars, vars
  <2> QED
    BY <2>1 DEF GatePicked
<1> QED
  BY <1>1, <1>2, <1>3 DEF Next

(* The counter of slots is exact, so its clamp at zero hides nothing.      *)
THEOREM SlotsCountedHolds == Spec => []SlotsCounted
<1>1. Init => SlotInv
  <2> SUFFICES ASSUME Init PROVE SlotInv
    OBVIOUS
  <2>1. GatePicked
    BY DEF Init, GatePicked
  <2>2. ASSUME NEW d \in Dispatchers PROVE Executions(d) = {}
    <3>1. \A t \in Tasks : runs[d][t] = 0
      BY DEF Init
    <3> QED
      BY <3>1 DEF Executions
  <2>3. \A d \in Dispatchers : activeTasks[d] = 0 /\ ending[d] = 0
    BY DEF Init
  <2> QED
    BY <2>1, <2>2, <2>3, FS_EmptySet DEF SlotInv, SlotsCounted
<1>2. OwnInv /\ SlotInv /\ [Next]_vars => SlotInv'
  <2> SUFFICES ASSUME OwnInv, SlotInv, [Next]_vars PROVE SlotInv'
    OBVIOUS
  <2>0. TypeOK /\ LocksHeld
    BY DEF OwnInv, QueueInv, CapInv
  <2>1. GatePicked'
    BY <2>0, GateNext DEF SlotInv
  <2>2. ASSUME NEW d \in Dispatchers
        PROVE  /\ activeTasks'[d] = ending'[d] + Cardinality(Executions(d)')
               /\ IsFiniteSet(Executions(d)')
    <3>1. CASE (\E t \in Tasks : RowStep(t)) \/ UNCHANGED vars
      <4>1. UNCHANGED <<runs, activeTasks, ending>>
        BY <3>1 DEF RowStep, OwnerOverride, Resume, BecomeReady, BecomeUnready, loopVars,
           execVars, vars
      <4> QED
        BY <4>1, SlotsSame
    <3> QED
      BY <2>0, <3>1, CallSlots, DispatcherSlots DEF Next
  <2> QED
    BY <2>1, <2>2 DEF SlotInv, SlotsCounted
<1>3. SlotInv => SlotsCounted
  BY DEF SlotInv
<1> QED
  BY <1>1, <1>2, <1>3, OwnInvHolds, PTL DEF Spec

-----------------------------------------------------------------------------
(* Nothing is left behind.                                                 *)

InLoop(c) == pc[c] \notin {"idle", "cap"}
InTransaction(c) == pc[c] \in {"roles", "update", "commit"}

(* A call that takes a step keeps, or gives back, what was its own; the    *)
(* flag may be cleared under another call.                                 *)
LEMMA CallLeaves ==
  ASSUME TypeOK, NothingLeftBehind, NEW c \in Claimers,
         \A b \in Claimers \ {c} : pc'[b] = pc[b],
         \/ claimingTask' = claimingTask /\ (InLoop(c) => InLoop(c)')
         \/ claimingTask' = [claimingTask EXCEPT ![c[1]] = TRUE] /\ InLoop(c)'
         \/ claimingTask' = [claimingTask EXCEPT ![c[1]] = FALSE],
         \A r \in Roles : roleLock'[r] # None =>
           \/ roleLock'[r] = c /\ InTransaction(c)'
           \/ roleLock'[r] = roleLock[r] /\ roleLock[r] # c
  PROVE  NothingLeftBehind'
<1>1. ASSUME NEW d \in Dispatchers, claimingTask'[d]
      PROVE  \E k \in Calls : InLoop(<<d, k>>)'
  <2>1. CASE d = c[1] /\ InLoop(c)'
    BY <2>1, ClaimerPair
  <2>2. CASE claimingTask[d] /\ ~(d = c[1] /\ InLoop(c) /\ ~InLoop(c)')
    <3>1. PICK k \in Calls : InLoop(<<d, k>>)
      BY <2>2 DEF NothingLeftBehind, InLoop
    <3>2. <<d, k>> \in Claimers
      BY DEF Claimers
    <3> QED
      BY <2>2, <3>1, <3>2, ClaimerPair DEF InLoop
  <2> QED
    BY <1>1, <2>1, <2>2, ClaimerPair DEF TypeOK
<1>2. ASSUME NEW r \in Roles, roleLock'[r] # None
      PROVE  pc'[roleLock'[r]] \in {"roles", "update", "commit"}
  <2>1. CASE roleLock'[r] = roleLock[r] /\ roleLock[r] # c
    <3>1. roleLock[r] \in Claimers \ {c}
      BY <1>2, <2>1 DEF TypeOK
    <3> QED
      BY <1>2, <2>1, <3>1 DEF NothingLeftBehind
  <2> QED
    BY <1>2, <2>1 DEF InTransaction
<1> QED
  BY <1>1, <1>2 DEF NothingLeftBehind, InLoop

LEMMA CallLeft ==
  ASSUME TypeOK, NothingLeftBehind, NEW c \in Claimers, Enter(c) \/ CallStep(c) \/ ClaimThrows(c)
  PROVE  NothingLeftBehind'
<1> USE DEF TypeOK, InLoop, InTransaction, loopVars, procVars
<1>0. \A r \in Roles : roleLock[r] = c => InTransaction(c)
  BY TaskAssumption DEF NothingLeftBehind, Claimers
<1>1. CASE Enter(c) \/ ReadCap(c) \/ DiskRecover(c) \/ BeginClaim(c)
  BY <1>0, <1>1, CallLeaves DEF Enter, ReadCap, DiskRecover, BeginClaim
<1>2. CASE LoopExit(c) \/ NothingClaimed(c) \/ ClaimThrows(c)
  <2>1. /\ pc' = [pc EXCEPT ![c] = "idle"] /\ roleLock' = FreeLocks(c)
        /\ claimingTask' = [claimingTask EXCEPT ![c[1]] = FALSE]
    BY <1>2 DEF LoopExit, NothingClaimed, ClaimThrows, Leave, FlagCleared
  <2> QED
    BY <2>1, CallLeaves DEF FreeLocks
<1>3. CASE TryRoleLock(c)
  <2>1. PICK t \in Tasks :
          \/ /\ roleLock' = [roleLock EXCEPT ![RoleOf[t]] = c]
             /\ pc' = [pc EXCEPT ![c] = "update"]
          \/ UNCHANGED <<roleLock, pc>>
    BY <1>3 DEF TryRoleLock
  <2>2. claimingTask' = claimingTask /\ InLoop(c)' /\ InTransaction(c)'
    BY <1>3, <2>1 DEF TryRoleLock
  <2>3. \A r \in Roles : roleLock'[r] \in {c, roleLock[r]}
    BY <2>1
  <2> QED
    BY <2>1, <2>2, <2>3, CallLeaves
<1>4. CASE UpdateRole(c)
  BY <1>0, <1>4, CallLeaves DEF UpdateRole
<1>5. CASE Commit(c)
  BY <1>5, CallLeaves DEF Commit, FreeLocks
<1>6. CASE GateBlock(c) \/ GateAllow(c)
  BY <1>0, <1>6, CallLeaves DEF GateBlock, GateAllow
<1> QED
  BY <1>1, <1>2, <1>3, <1>4, <1>5, <1>6 DEF CallStep

(* Whatever fails, throws or dies, a flag or a role's lock belongs to a    *)
(* call at work, for any number of dispatchers and overlapping calls.      *)
THEOREM NothingLeftHolds == Spec => []NothingLeftBehind
<1>1. Init => NothingLeftBehind
  BY DEF Init, NothingLeftBehind
<1>2. TypeOK /\ NothingLeftBehind /\ [Next]_vars => NothingLeftBehind'
  <2> SUFFICES ASSUME TypeOK, NothingLeftBehind, [Next]_vars PROVE NothingLeftBehind'
    OBVIOUS
  <2>1. ASSUME NEW c \in Claimers, Enter(c) \/ CallStep(c) \/ ClaimThrows(c)
        PROVE  NothingLeftBehind'
    BY <2>1, CallLeft
  <2>2. ASSUME NEW d \in Dispatchers, Exit(d) PROVE NothingLeftBehind'
    <3>1. \A e \in Dispatchers : claimingTask'[e] => e # d /\ claimingTask[e]
      BY <2>2 DEF Exit, TypeOK
    <3>2. \A c \in Claimers : c[1] # d => pc'[c] = pc[c]
      BY <2>2 DEF Exit
    <3>3. \A r \in Roles : roleLock'[r] # None =>
            roleLock'[r] = roleLock[r] /\ roleLock[r] \notin {d} \X Calls
      BY <2>2 DEF Exit
    <3>4. \A e \in Dispatchers, k \in Calls : <<e, k>> \in Claimers /\ <<e, k>>[1] = e
      BY DEF Claimers
    <3>5. \A r \in Roles : roleLock'[r] # None =>
            roleLock'[r] \in Claimers /\ pc'[roleLock'[r]] = pc[roleLock[r]]
      <4> SUFFICES ASSUME NEW r \in Roles, roleLock'[r] # None
                   PROVE  roleLock'[r] \in Claimers /\ pc'[roleLock'[r]] = pc[roleLock[r]]
        OBVIOUS
      <4>1. roleLock[r] \in Claimers /\ roleLock'[r] = roleLock[r]
        BY <3>3 DEF TypeOK
      <4>2. roleLock[r][1] # d
        BY <3>3, <4>1, ClaimerPair
      <4> QED
        BY <3>2, <4>1, <4>2
    <3> QED
      BY <3>1, <3>2, <3>3, <3>4, <3>5 DEF NothingLeftBehind
  <2>3. CASE UNCHANGED <<claimingTask, roleLock, pc>>
    BY <2>3 DEF NothingLeftBehind
  <2>4. ASSUME NEW d \in Dispatchers, DispatcherStep(d), ~Exit(d)
        PROVE  UNCHANGED <<claimingTask, roleLock, pc>>
    BY <2>4 DEF DispatcherStep, ExecEnd, Start, RecoverScan, RecoverDone, DrainRequest, Shutdown,
       ExecWrite, ExecThrows, RecoverTask, WatchdogFlag, WatchdogHandle, loopVars, callVars
  <2>5. ASSUME NEW t \in Tasks, RowStep(t) PROVE UNCHANGED <<claimingTask, roleLock, pc>>
    BY <2>5 DEF RowStep, OwnerOverride, Resume, BecomeReady, BecomeUnready, loopVars, callVars
  <2>6. UNCHANGED vars => UNCHANGED <<claimingTask, roleLock, pc>>
    BY DEF vars
  <2> QED
    BY <2>1, <2>2, <2>3, <2>4, <2>5, <2>6 DEF Next
<1> QED
  BY <1>1, <1>2, TypeInit, TypeCorrect, PTL DEF Spec
==============================================================================
