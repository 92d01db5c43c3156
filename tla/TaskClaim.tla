------------------------------ MODULE TaskClaim ------------------------------
(***************************************************************************)
(* The claim path of the HiveWright dispatcher: pending task rows, the     *)
(* claim transaction of task-claimer.ts (candidate roles, one advisory     *)
(* lock per role, a locked count-and-update, commit), the in-process loop  *)
(* processNextTask with its activeTasks counter and claimingTask flag,     *)
(* executions and the slot they hold, drain and shutdown, crashes, the     *)
(* startup recovery of interrupted rows, and the watchdog that times a     *)
(* row out without stopping the execution behind it.                       *)
(*                                                                         *)
(* A process identifier is the number of the start that produced it, so a  *)
(* restarted dispatcher never has the PID of a dead one; an unrelated OS   *)
(* process may have it (RecoverScan).                                      *)
(***************************************************************************)
EXTENDS Integers, FiniteSets

CONSTANTS
  Tasks,        \* naturals: the claim order (priority, created_at, id)
  Roles,        \* role slugs
  RoleOf,       \* tasks.assigned_to
  Limit,        \* role_templates.concurrency_limit
  Dispatchers,  \* dispatcher services
  Calls,        \* overlapping processNextTask invocations of one process
  MaxCap,       \* largest value the live concurrency cap can take
  MaxStarts,    \* bound: process starts in one behaviour
  Outcomes,     \* bound: what the last write of an execution may be
  Paused,       \* bound: tasks whose readiness changes by itself
  Watched,      \* bound: tasks the watchdog may time out
  Touched,      \* bound: tasks the owner's routes rewrite
  StepTasks,    \* tasks of pipeline steps, which have a retry limit of their own
  None          \* no claimer, no task

ASSUME TaskAssumption ==
  /\ Tasks \subseteq Nat /\ IsFiniteSet(Tasks)
  /\ RoleOf \in [Tasks -> Roles]
  /\ Limit \in [Roles -> Nat]
  /\ MaxCap \in Nat \ {0} /\ MaxStarts \in Nat
  /\ Outcomes \subseteq {"done", "blocked", "disk_blocked", "pending"}
  /\ Paused \subseteq Tasks /\ Watched \subseteq Tasks /\ Touched \subseteq Tasks
  /\ StepTasks \subseteq Tasks
  /\ None \notin Tasks /\ None \notin Dispatchers \X Calls
  /\ IsFiniteSet(Calls)

Claimers == Dispatchers \X Calls
NoPid == 0
Pids == 1..MaxStarts
Statuses == {"pending", "active", "blocked", "disk_blocked", "done"}

VARIABLES
  status,       \* tasks.status; "disk_blocked" is blocked by disk pressure,
                \* "done" is in_review, completed, failed, unresolvable
                \* or cancelled: not the claim path's concern
  owner,        \* tasks.dispatcher_pid
  ready,        \* tasks that pass retry_after, hive pause and goal status
  roleLock,     \* advisory transaction lock of each role
  phase,        \* dispatcher process life cycle
  pid, starts,  \* its PID, and the number of starts so far
  halt,         \* drainRequested and shuttingDown
  activeTasks,  \* this.activeTasks
  claimingTask, \* this.claimingTask
  pc, live, todo, picked,  \* one processNextTask invocation
  runs,         \* executions that may still write their row
  ending,       \* executions past their last row write, slot still held
  recov,        \* rows selected by recoverInterruptedActiveTasks
  stuck,        \* rows selected by findStuckTasks, not handled yet
  overridden    \* history: rows rewritten under a running execution

dbVars   == <<status, owner, ready>>
procVars == <<phase, pid, starts, halt>>
loopVars == <<activeTasks, claimingTask>>
callVars == <<pc, live, todo, picked>>
execVars == <<runs, ending>>
auxVars  == <<recov, stuck, overridden>>
vars == <<status, owner, ready, roleLock, phase, pid, starts, halt,
          activeTasks, claimingTask, pc, live, todo, picked, runs, ending,
          recov, stuck, overridden>>

TypeOK ==
  /\ status \in [Tasks -> Statuses]
  /\ owner \in [Tasks -> Pids \cup {NoPid}]
  /\ ready \in SUBSET Tasks
  /\ roleLock \in [Roles -> Claimers \cup {None}]
  /\ phase \in [Dispatchers -> {"down", "starting", "recovering", "up"}]
  /\ pid \in [Dispatchers -> Pids \cup {NoPid}]
  /\ starts \in 0..MaxStarts
  /\ halt \in [Dispatchers -> {"run", "drain", "stop"}]
  /\ activeTasks \in [Dispatchers -> Nat]
  /\ claimingTask \in [Dispatchers -> BOOLEAN]
  /\ pc \in [Claimers -> {"idle", "cap", "disk", "loop", "roles",
                          "update", "commit", "gate"}]
  /\ live \in [Claimers -> 1..MaxCap]
  /\ todo \in [Claimers -> SUBSET Tasks]
  /\ picked \in [Claimers -> Tasks \cup {None}]
  /\ runs \in [Dispatchers -> [Tasks -> Nat]]
  /\ ending \in [Dispatchers -> Nat]
  /\ recov \in [Dispatchers -> SUBSET (Tasks \X Pids)]
  /\ stuck \in [Dispatchers -> SUBSET Tasks]
  /\ overridden \in SUBSET Tasks

Init ==
  /\ status = [t \in Tasks |-> "pending"]
  /\ owner = [t \in Tasks |-> NoPid]
  /\ ready = Tasks
  /\ roleLock = [r \in Roles |-> None]
  /\ phase = [d \in Dispatchers |-> "down"]
  /\ pid = [d \in Dispatchers |-> NoPid]
  /\ starts = 0
  /\ halt = [d \in Dispatchers |-> "run"]
  /\ activeTasks = [d \in Dispatchers |-> 0]
  /\ claimingTask = [d \in Dispatchers |-> FALSE]
  /\ pc = [c \in Claimers |-> "idle"]
  /\ live = [c \in Claimers |-> MaxCap]
  /\ todo = [c \in Claimers |-> {}]
  /\ picked = [c \in Claimers |-> None]
  /\ runs = [d \in Dispatchers |-> [t \in Tasks |-> 0]]
  /\ ending = [d \in Dispatchers |-> 0]
  /\ recov = [d \in Dispatchers |-> {}]
  /\ stuck = [d \in Dispatchers |-> {}]
  /\ overridden = {}

-----------------------------------------------------------------------------
(* Helpers of the claim transaction.                                       *)

Claimable(t) == status[t] = "pending" /\ t \in ready
Active(r) == {t \in Tasks : RoleOf[t] = r /\ status[t] = "active"}

(* A row updated by a claim that has not committed is locked. *)
RowLocked(t) == \E c \in Claimers : pc[c] = "commit" /\ picked[c] = t

(* The first task of S in claim order. *)
IsFirst(t, S) == t \in S /\ \A u \in S : t <= u

(* One candidate per role: its first claimable task. *)
Candidates ==
  {t \in Tasks : IsFirst(t, {u \in Tasks : Claimable(u) /\ RoleOf[u] = RoleOf[t]})}

(* Rows the locked UPDATE of role r may take: SKIP LOCKED and the count. *)
TakeableAnyStatus(r) ==
  {t \in Tasks : /\ t \in ready /\ RoleOf[t] = r /\ ~RowLocked(t)
                 /\ Cardinality(Active(r)) < Limit[r]}
Takeable(r) ==
  {t \in Tasks : /\ Claimable(t) /\ RoleOf[t] = r /\ ~RowLocked(t)
                 /\ Cardinality(Active(r)) < Limit[r]}

(* Some dispatcher runs t, or is between the claim's commit and the start. *)
Held(t) ==
  \/ \E d \in Dispatchers : runs[d][t] > 0
  \/ \E c \in Claimers : pc[c] = "gate" /\ picked[c] = t

LockAlways(r, c) == TRUE
LockFree(r, c) == roleLock[r] \in {None, c}
FreeLocks(c) == [r \in Roles |-> IF roleLock[r] = c THEN None ELSE roleLock[r]]

SlotOffByOne(c) == activeTasks[c[1]] <= live[c]
HasSlot(c) == activeTasks[c[1]] < live[c]

(* this.claimingTask = false *)
FlagKept(d) == UNCHANGED claimingTask
FlagCleared(d) == claimingTask' = [claimingTask EXCEPT ![d] = FALSE]

Alive(d) == phase[d] # "down"

(* process.kill(pid, 0): a live dispatcher, or an unrelated process that   *)
(* was given a dead dispatcher's number (in reused).                       *)
PidNeverAlive(p, reused) == FALSE
PidAlive(p, reused) == p \in reused \/ \E d \in Dispatchers : pid[d] = p

(* findStuckTasks looks at every active row, whoever claimed it. *)
OwnRowsOnly(d, t) == status[t] = "active" /\ owner[t] = pid[d]
StuckRow(d, t) == status[t] = "active"
MayStart(d) == Alive(d) /\ halt[d] = "run"

-----------------------------------------------------------------------------
(* processNextTask: one invocation c = <<d, k>> of dispatcher d.           *)

(* The checks before the first await. *)
Enter(c) ==
  /\ MayStart(c[1]) /\ ~claimingTask[c[1]]
  /\ pc[c] = "idle"
  /\ pc' = [pc EXCEPT ![c] = "cap"]
  /\ UNCHANGED <<dbVars, roleLock, procVars, loopVars, live, todo, picked,
                 execVars, auxVars>>

(* getLiveMaxConcurrent returns; only now is claimingTask set. *)
ReadCap(c) ==
  /\ pc[c] = "cap"
  /\ \E n \in 1..MaxCap : live' = [live EXCEPT ![c] = n]
  /\ claimingTask' = [claimingTask EXCEPT ![c[1]] = TRUE]
  /\ pc' = [pc EXCEPT ![c] = "disk"]
  /\ UNCHANGED <<dbVars, roleLock, procVars, activeTasks, todo, picked,
                 execVars, auxVars>>

(* recoverDiskPressureBlockedTasksIfHealthy, healthy or not. *)
DiskRecover(c) ==
  /\ pc[c] = "disk"
  /\ \/ /\ status' = [t \in Tasks |-> IF status[t] = "disk_blocked"
                                      THEN "pending" ELSE status[t]]
        /\ owner' = [t \in Tasks |-> IF status[t] = "disk_blocked"
                                     THEN NoPid ELSE owner[t]]
        /\ ready' = ready \cup {t \in Tasks : status[t] = "disk_blocked"}
     \/ UNCHANGED <<status, owner, ready>>
  /\ pc' = [pc EXCEPT ![c] = "loop"]
  /\ UNCHANGED <<roleLock, procVars, loopVars, live, todo, picked,
                 execVars, auxVars>>

(* The loop test, then claimNextTask: begin, select the candidate roles. *)
BeginClaim(c) ==
  /\ pc[c] = "loop" /\ MayStart(c[1])
  /\ HasSlot(c)
  /\ todo' = [todo EXCEPT ![c] = Candidates]
  /\ pc' = [pc EXCEPT ![c] = "roles"]
  /\ UNCHANGED <<dbVars, roleLock, procVars, loopVars, live, picked,
                 execVars, auxVars>>

(* The finally block: this invocation ends and clears the shared flag. *)
Leave(c) ==
  /\ pc' = [pc EXCEPT ![c] = "idle"]
  /\ todo' = [todo EXCEPT ![c] = {}]
  /\ picked' = [picked EXCEPT ![c] = None]
  /\ FlagCleared(c[1])
  /\ roleLock' = FreeLocks(c)
  /\ UNCHANGED <<dbVars, procVars, activeTasks, live, execVars, auxVars>>

LoopExit(c) ==
  /\ pc[c] = "loop"
  /\ halt[c[1]] # "run" \/ ~HasSlot(c)
  /\ Leave(c)

(* No candidate left (null); or a query threw: a transaction rolls back, a *)
(* row that was claimed and could not be blocked stays active.             *)
NothingClaimed(c) == pc[c] = "roles" /\ todo[c] = {} /\ Leave(c)
ClaimThrows(c) ==
  pc[c] \in {"disk", "roles", "update", "commit", "gate"} /\ Leave(c)

(* pg_try_advisory_xact_lock for the next candidate role; never waits. *)
TryRoleLock(c) ==
  /\ pc[c] = "roles"
  /\ \E t \in Tasks :
       /\ IsFirst(t, todo[c])
       /\ \/ /\ LockFree(RoleOf[t], c)
             /\ roleLock' = [roleLock EXCEPT ![RoleOf[t]] = c]
             /\ pc' = [pc EXCEPT ![c] = "update"]
             /\ UNCHANGED todo
          \/ /\ ~LockFree(RoleOf[t], c)
             /\ todo' = [todo EXCEPT ![c] = @ \ {t}]
             /\ UNCHANGED <<roleLock, pc>>
  /\ UNCHANGED <<dbVars, procVars, loopVars, live, picked, execVars, auxVars>>

(* The UPDATE under the role lock: a fresh snapshot counts and picks. *)
UpdateRole(c) ==
  /\ pc[c] = "update"
  /\ \E t \in Tasks :
       /\ IsFirst(t, todo[c])
       /\ \/ /\ Takeable(RoleOf[t]) = {}
             /\ todo' = [todo EXCEPT ![c] = @ \ {t}]
             /\ pc' = [pc EXCEPT ![c] = "roles"]
             /\ UNCHANGED picked
          \/ /\ \E u \in Tasks :
                  /\ IsFirst(u, Takeable(RoleOf[t]))
                  /\ picked' = [picked EXCEPT ![c] = u]
             /\ pc' = [pc EXCEPT ![c] = "commit"]
             /\ UNCHANGED todo
  /\ UNCHANGED <<dbVars, roleLock, procVars, loopVars, live, execVars, auxVars>>

(* Commit: the row becomes visible as active and every lock is released. *)
Commit(c) ==
  /\ pc[c] = "commit"
  /\ status' = [status EXCEPT ![picked[c]] = "active"]
  /\ owner' = [owner EXCEPT ![picked[c]] = pid[c[1]]]
  /\ overridden' = IF Held(picked[c]) THEN overridden
                   ELSE overridden \ {picked[c]}
  /\ roleLock' = FreeLocks(c)
  /\ todo' = [todo EXCEPT ![c] = {}]
  /\ pc' = [pc EXCEPT ![c] = "gate"]
  /\ UNCHANGED <<ready, procVars, loopVars, live, picked, execVars,
                 recov, stuck>>

(* The disk gate refuses, or its check fails (a reason that no disk        *)
(* recovery looks for): the claimed row is blocked, the loop goes on.      *)
GateBlock(c) ==
  /\ pc[c] = "gate" /\ ~RowLocked(picked[c])
  /\ \E s \in {"disk_blocked", "blocked"} : status' = [status EXCEPT ![picked[c]] = s]
  /\ picked' = [picked EXCEPT ![c] = None]
  /\ pc' = [pc EXCEPT ![c] = "loop"]
  /\ UNCHANGED <<owner, ready, roleLock, procVars, loopVars, live,
                 todo, execVars, auxVars>>

(* The disk gate allows: count the slot and start the execution. *)
GateAllow(c) ==
  /\ pc[c] = "gate"
  /\ activeTasks' = [activeTasks EXCEPT ![c[1]] = @ + 1]
  /\ runs' = [runs EXCEPT ![c[1]][picked[c]] = @ + 1]
  /\ picked' = [picked EXCEPT ![c] = None]
  /\ pc' = [pc EXCEPT ![c] = "loop"]
  /\ UNCHANGED <<dbVars, roleLock, procVars, claimingTask, live, todo, ending,
                 auxVars>>

-----------------------------------------------------------------------------
(* executeTask, reduced to the last write of its row and its end.          *)

(* A retryable failure: releaseTask, or markUnresolvable once no retry is  *)
(* left; the count of retries is not the claim path's concern. A pipeline  *)
(* step over its own limit fails with its run, and is left as it is if the *)
(* run has handed on already.                                              *)
Release(t) ==
  \/ /\ status' = [status EXCEPT ![t] = "pending"]
     /\ owner' = [owner EXCEPT ![t] = NoPid]
     /\ ready' = ready \ {t}
  \/ /\ status' = [status EXCEPT ![t] = "done"]
     /\ UNCHANGED <<owner, ready>>
  \/ t \in StepTasks /\ UNCHANGED <<status, owner, ready>>

(* completeTask, the unguarded failTask and blockTask, or a release. *)
Outcome(t) ==
  \/ \E s \in Outcomes \ {"pending"} :
       status' = [status EXCEPT ![t] = s] /\ UNCHANGED <<owner, ready>>
  \/ "pending" \in Outcomes /\ Release(t)

(* The last write of the row goes by id: nothing checks that the row is    *)
(* still this execution's.                                                 *)
ExecWrite(d, t) ==
  /\ runs[d][t] > 0 /\ ~RowLocked(t)
  /\ Outcome(t)
  /\ runs' = [runs EXCEPT ![d][t] = @ - 1]
  /\ ending' = [ending EXCEPT ![d] = @ + 1]
  /\ UNCHANGED <<roleLock, procVars, loopVars, callVars, auxVars>>

ThrowLosesSlot(d, t) ==
  /\ runs[d][t] > 0
  /\ runs' = [runs EXCEPT ![d][t] = @ - 1]
  /\ UNCHANGED <<dbVars, roleLock, procVars, loopVars, callVars, ending, auxVars>>

(* An error caught by executeTask's outer catch: the row stays active. *)
ExecThrows(d, t) ==
  /\ runs[d][t] > 0
  /\ runs' = [runs EXCEPT ![d][t] = @ - 1]
  /\ ending' = [ending EXCEPT ![d] = @ + 1]
  /\ UNCHANGED <<dbVars, roleLock, procVars, loopVars, callVars, auxVars>>

(* The promise settles: the slot is given back. *)
ExecEnd(d) ==
  /\ ending[d] > 0
  /\ ending' = [ending EXCEPT ![d] = @ - 1]
  /\ activeTasks' = [activeTasks EXCEPT ![d] = IF @ > 0 THEN @ - 1 ELSE 0]
  /\ UNCHANGED <<dbVars, roleLock, procVars, claimingTask, callVars, runs,
                 auxVars>>

-----------------------------------------------------------------------------
(* Process life cycle.                                                     *)

(* Every process that is down or leaving can still be started again. *)
StartsLeft ==
  starts + Cardinality({d \in Dispatchers : ~Alive(d) \/ halt[d] # "run"})
    < MaxStarts

(* start(): listeners and the poll timer run before the recovery does. *)
Start(d) ==
  /\ ~Alive(d) /\ starts < MaxStarts
  /\ starts' = starts + 1
  /\ pid' = [pid EXCEPT ![d] = starts + 1]
  /\ phase' = [phase EXCEPT ![d] = "starting"]
  /\ halt' = [halt EXCEPT ![d] = "run"]
  /\ UNCHANGED <<dbVars, roleLock, loopVars, callVars, execVars, auxVars>>

(* The SELECT of recoverInterruptedActiveTasks and the PID probe. *)
RecoverScan(d) ==
  /\ phase[d] = "starting" /\ halt[d] # "stop"
  /\ \E reused \in SUBSET {p \in Pids : p <= starts} :
       recov' = [recov EXCEPT ![d] =
         {tp \in Tasks \X Pids :
            /\ status[tp[1]] = "active" /\ owner[tp[1]] = tp[2]
            /\ tp[2] # pid[d] /\ ~PidAlive(tp[2], reused)}]
  /\ phase' = [phase EXCEPT ![d] = "recovering"]
  /\ UNCHANGED <<dbVars, roleLock, pid, starts, halt, loopVars, callVars,
                 execVars, stuck, overridden>>

(* The guarded UPDATE of one selected row. *)
RecoverTask(d, t) ==
  /\ phase[d] = "recovering" /\ ~RowLocked(t)
  /\ \E p \in Pids :
       /\ <<t, p>> \in recov[d]
       /\ recov' = [recov EXCEPT ![d] = @ \ {<<t, p>>}]
       /\ IF status[t] = "active" /\ owner[t] = p
          THEN /\ status' = [status EXCEPT ![t] = "pending"]
               /\ owner' = [owner EXCEPT ![t] = NoPid]
               /\ ready' = ready \cup {t}
          ELSE UNCHANGED <<status, owner, ready>>
  /\ UNCHANGED <<roleLock, procVars, loopVars, callVars, execVars,
                 stuck, overridden>>

(* Recovery is over, or threw and was logged; the watchdog timer starts. *)
RecoverDone(d) ==
  /\ phase[d] = "recovering"
  /\ phase' = [phase EXCEPT ![d] = "up"]
  /\ recov' = [recov EXCEPT ![d] = {}]
  /\ UNCHANGED <<dbVars, roleLock, pid, starts, halt, loopVars, callVars,
                 execVars, stuck, overridden>>

(* The bundle watcher's onStale. *)
DrainRequest(d) ==
  /\ Alive(d) /\ halt[d] = "run" /\ StartsLeft
  /\ halt' = [halt EXCEPT ![d] = "drain"]
  /\ UNCHANGED <<dbVars, roleLock, phase, pid, starts, loopVars, callVars,
                 execVars, auxVars>>

(* SIGTERM: from the operator, or at the end of attemptDrainExit, which    *)
(* waits for activeTasks = 0 for at most ten minutes.                      *)
Shutdown(d) ==
  /\ Alive(d) /\ halt[d] # "stop"
  /\ halt[d] = "drain" \/ StartsLeft
  /\ halt' = [halt EXCEPT ![d] = "stop"]
  /\ UNCHANGED <<dbVars, roleLock, phase, pid, starts, loopVars, callVars,
                 execVars, auxVars>>

(* The process exits or dies: memory is lost, its transactions roll back. *)
Exit(d) ==
  /\ Alive(d)
  /\ halt[d] # "run" \/ StartsLeft
  /\ phase' = [phase EXCEPT ![d] = "down"]
  /\ pid' = [pid EXCEPT ![d] = NoPid]
  /\ halt' = [halt EXCEPT ![d] = "run"]
  /\ activeTasks' = [activeTasks EXCEPT ![d] = 0]
  /\ claimingTask' = [claimingTask EXCEPT ![d] = FALSE]
  /\ pc' = [c \in Claimers |-> IF c[1] = d THEN "idle" ELSE pc[c]]
  /\ todo' = [c \in Claimers |-> IF c[1] = d THEN {} ELSE todo[c]]
  /\ picked' = [c \in Claimers |-> IF c[1] = d THEN None ELSE picked[c]]
  /\ runs' = [runs EXCEPT ![d] = [t \in Tasks |-> 0]]
  /\ ending' = [ending EXCEPT ![d] = 0]
  /\ recov' = [recov EXCEPT ![d] = {}]
  /\ stuck' = [stuck EXCEPT ![d] = {}]
  /\ roleLock' = [r \in Roles |->
       IF roleLock[r] # None /\ roleLock[r] \in {d} \X Calls
       THEN None ELSE roleLock[r]]
  /\ UNCHANGED <<dbVars, starts, live, overridden>>

-----------------------------------------------------------------------------
(* Writers that do not own the execution.                                  *)

(* findStuckTasks selects an active row: stale heartbeat or max runtime. *)
WatchdogFlag(d, t) ==
  /\ phase[d] = "up" /\ halt[d] # "stop" /\ t \in Watched
  /\ StuckRow(d, t) /\ t \notin stuck[d]
  /\ stuck' = [stuck EXCEPT ![d] = @ \cup {t}]
  /\ UNCHANGED <<dbVars, roleLock, procVars, loopVars, callVars, execVars,
                 recov, overridden>>

(* Later, the unguarded failure handler; the execution is not stopped. *)
WatchdogHandle(d, t) ==
  /\ t \in stuck[d] /\ ~RowLocked(t)
  /\ Release(t)
  /\ stuck' = [stuck EXCEPT ![d] = @ \ {t}]
  /\ overridden' = overridden \cup {t}
  /\ UNCHANGED <<roleLock, procVars, loopVars, callVars, execVars, recov>>

(* The owner's routes: cancel a task, or answer a decision linked to it,   *)
(* which sets it back to pending whatever its status was.                  *)
OwnerOverride(t) ==
  /\ t \in Touched /\ ~RowLocked(t)
  /\ \/ /\ status[t] \in {"pending", "active"}
        /\ status' = [status EXCEPT ![t] = "done"]
     \/ status' = [status EXCEPT ![t] = "pending"]
  /\ overridden' = overridden \cup {t}
  /\ UNCHANGED <<owner, ready, roleLock, procVars, loopVars, callVars,
                 execVars, recov, stuck>>

(* A repair or an answer puts a blocked task back. *)
Resume(t) ==
  /\ status[t] = "blocked" /\ ~RowLocked(t)
  /\ status' = [status EXCEPT ![t] = "pending"]
  /\ UNCHANGED <<owner, ready, roleLock, procVars, loopVars, callVars,
                 execVars, auxVars>>

(* retry_after passes, a pause is lifted; or the goal or hive is paused. *)
BecomeReady(t) ==
  /\ t \notin ready
  /\ ready' = ready \cup {t}
  /\ UNCHANGED <<status, owner, roleLock, procVars, loopVars, callVars,
                 execVars, auxVars>>

BecomeUnready(t) ==
  /\ t \in ready \cap Paused
  /\ ready' = ready \ {t}
  /\ UNCHANGED <<status, owner, roleLock, procVars, loopVars, callVars,
                 execVars, auxVars>>

-----------------------------------------------------------------------------
CallStep(c) ==
  \/ ReadCap(c) \/ DiskRecover(c) \/ BeginClaim(c) \/ LoopExit(c)
  \/ NothingClaimed(c) \/ TryRoleLock(c) \/ UpdateRole(c) \/ Commit(c)
  \/ GateBlock(c) \/ GateAllow(c)

DispatcherStep(d) ==
  \/ ExecEnd(d) \/ Start(d) \/ RecoverScan(d) \/ RecoverDone(d)
  \/ DrainRequest(d) \/ Shutdown(d) \/ Exit(d)
  \/ \E t \in Tasks : \/ ExecWrite(d, t) \/ ExecThrows(d, t)
                      \/ RecoverTask(d, t)
                      \/ WatchdogFlag(d, t) \/ WatchdogHandle(d, t)

RowStep(t) ==
  \/ OwnerOverride(t) \/ Resume(t) \/ BecomeReady(t) \/ BecomeUnready(t)

Next ==
  \/ \E c \in Claimers : Enter(c) \/ CallStep(c) \/ ClaimThrows(c)
  \/ \E d \in Dispatchers : DispatcherStep(d)
  \/ \E t \in Tasks : RowStep(t)

Spec == Init /\ [][Next]_vars

(* The poll timer keeps calling processNextTask and an await returns. A    *)
(* claim step that fails is retried at the next poll and does not fail     *)
(* forever (strong fairness). systemd restarts the process; the watchdog   *)
(* timer selects every row that stays active long enough (no heartbeat, or *)
(* the two-hour runtime cap). Nothing makes an execution end.              *)
Fairness ==
  /\ \A c \in Claimers :
       /\ WF_vars(Enter(c)) /\ WF_vars(ReadCap(c)) /\ WF_vars(LoopExit(c))
       /\ WF_vars(NothingClaimed(c)) /\ WF_vars(GateBlock(c) \/ GateAllow(c))
       /\ SF_vars(DiskRecover(c)) /\ SF_vars(BeginClaim(c))
       /\ SF_vars(TryRoleLock(c)) /\ SF_vars(UpdateRole(c))
       /\ SF_vars(Commit(c))
  /\ \A d \in Dispatchers :
       /\ WF_vars(ExecEnd(d)) /\ WF_vars(Start(d))
       /\ WF_vars(RecoverScan(d)) /\ WF_vars(RecoverDone(d))
       /\ WF_vars(halt[d] = "drain" /\ Shutdown(d))
       /\ WF_vars(halt[d] = "stop" /\ Exit(d))
       /\ \A t \in Tasks :
            WF_vars(WatchdogFlag(d, t)) /\ WF_vars(WatchdogHandle(d, t))

LiveSpec == Spec /\ Fairness

-----------------------------------------------------------------------------
(* Properties.                                                             *)

(* The count-and-claim of a role is serialised: over all dispatchers, no   *)
(* role ever has more active tasks than its concurrency_limit (the role    *)
(* lock of claimNextTask, held from before the count until the commit).    *)
RoleCapRespected ==
  \A r \in Roles : Cardinality(Active(r)) <= Limit[r]

(* Why it holds: a claim between its locked count and its commit owns the  *)
(* lock of its role, and uncommitted claims are counted with the active    *)
(* rows (the inductive strengthening of RoleCapRespected).                 *)
LocksHeld ==
  \A c \in Claimers :
    /\ pc[c] = "commit" => picked[c] \in Tasks /\ roleLock[RoleOf[picked[c]]] = c
    /\ pc[c] = "update" =>
         \A t \in Tasks : IsFirst(t, todo[c]) => roleLock[RoleOf[t]] = c

Taken(r) == {t \in Tasks : RoleOf[t] = r /\ (status[t] = "active" \/ RowLocked(t))}

TakenWithinLimit == \A r \in Roles : Cardinality(Taken(r)) <= Limit[r]

(* Dispatchers that race for the rows, their snapshots, locks and deaths   *)
(* look like one queue that leases a task in one step: the decision made   *)
(* in the locked UPDATE is still right when its commit makes it visible.   *)
Queue == INSTANCE TaskQueue WITH
  waiting <- {t \in Tasks : status[t] = "pending"},
  leased  <- {t \in Tasks : status[t] = "active"}
QueueImplemented == Queue!Spec

(* Unless a row was rewritten under it, an execution is the only one of    *)
(* its task and the row is active under its dispatcher's PID: no claim,    *)
(* recovery, block or restart lets a second process take the same task.    *)
RunningIsOwned ==
  \A t \in Tasks \ overridden : \A d \in Dispatchers :
    /\ runs[d][t] > 0 =>
         runs[d][t] = 1 /\ status[t] = "active" /\ owner[t] = pid[d]
    /\ \A k \in Calls : pc[<<d, k>>] = "gate" /\ picked[<<d, k>>] = t =>
         /\ runs[d][t] = 0 /\ status[t] = "active" /\ owner[t] = pid[d]
         /\ \A j \in Calls \ {k} :
              ~(pc[<<d, j>>] = "gate" /\ picked[<<d, j>>] = t)

(* Invocations of d between the loop test and the slot increment. *)
InClaim(d) ==
  {k \in Calls : pc[<<d, k>>] \in {"roles", "update", "commit", "gate"}}

(* The concurrency cap can be overrun, because processNextTask tests       *)
(* claimingTask before its first await and sets it after, but only by one  *)
(* slot for each extra overlapping invocation.                             *)
OverrunBound ==
  \A d \in Dispatchers :
    activeTasks[d] + Cardinality(InClaim(d)) <= MaxCap - 1 + Cardinality(Calls)

(* The executions of dispatcher d that have not made their last write.     *)
Executions(d) == UNION {{t} \X (1..runs[d][t]) : t \in Tasks}

(* The in-process counter is exactly the number of executions that hold a  *)
(* slot, whatever the order of starts, blocks, errors and restarts, so the *)
(* clamp at zero of the finally block never hides a lost slot.             *)
SlotsCounted ==
  \A d \in Dispatchers : activeTasks[d] = ending[d] + Cardinality(Executions(d))

(* What makes other calls turn away is always somebody's who is at work:   *)
(* a claimingTask that outlived its call would stop the poll for good, a   *)
(* role's lock that outlived its transaction all claims of the role.       *)
NothingLeftBehind ==
  /\ \A d \in Dispatchers : claimingTask[d] =>
       \E k \in Calls : pc[<<d, k>>] \notin {"idle", "cap"}
  /\ \A r \in Roles : roleLock[r] # None =>
       pc[roleLock[r]] \in {"roles", "update", "commit"}

(* An active row that no process works on (its dispatcher died, its        *)
(* execution threw, its PID looks alive) does not stay so for ever: some   *)
(* recovery or watchdog takes it back, or a process works on it again. Not *)
(* so the task of a pipeline step: the watchdog may find it again and      *)
(* again, and releaseTask return before its update each time.              *)
OrphanRequeued ==
  \A t \in Tasks \ StepTasks :
    (status[t] = "active" /\ ~Held(t)) ~> (status[t] # "active" \/ Held(t))

(* A claimable task of a role below its limit does not sit for ever beside *)
(* a dispatcher that has every slot free: no lost flag, lock or wake-up    *)
(* stops the loop.                                                         *)
Idle(d, t) ==
  /\ MayStart(d) /\ activeTasks[d] = 0
  /\ Claimable(t) /\ Cardinality(Active(RoleOf[t])) < Limit[RoleOf[t]]

ClaimMakesProgress == \A t \in Tasks, d \in Dispatchers : []<>~Idle(d, t)

(* The header of claimNextTask: "The dispatcher-wide maxConcurrentTasks    *)
(* cap still bounds total in-flight work".                                 *)
CapRespected == \A d \in Dispatchers : activeTasks[d] <= MaxCap

(* processNextTask: "While drain is requested ... we must NOT start any    *)
(* new work".                                                              *)
NoStartWhileDraining ==
  [][\A d \in Dispatchers, t \in Tasks :
       halt[d] = "drain" => runs'[d][t] <= runs[d][t]]_vars
=============================================================================
