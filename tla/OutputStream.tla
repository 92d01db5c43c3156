---------------------------- MODULE OutputStream ----------------------------
(***************************************************************************)
(* Streaming of agent output: the chunks an adapter hands to the           *)
(* dispatcher's onChunk callback, writeTaskLog (INSERT into task_logs,     *)
(* then a pg_notify of its own), the event-stream endpoint of a task or of *)
(* a goal (LISTEN, replay query, drain of the buffered notifications, live *)
(* forwarding), and the panel that shows the lines and reconnects.         *)
(*                                                                         *)
(* Adapters push the promise of onChunk and go on reading, so several      *)
(* writes of one task are in flight at a time: one lane each. An id is     *)
(* taken when the INSERT runs and seen by others when it commits.          *)
(***************************************************************************)
EXTENDS Integers, FiniteSets, Sequences

CONSTANTS
  Lanes,        \* writes that may be in flight together
  MaxRows,      \* bound: rows of task_logs
  MaxRuns,      \* bound: executions that write to this stream
  MaxDrops,     \* bound: lost connections
  Faults,       \* "notify": a pg_notify fails or is missed; "query": the
                \* replay query throws; "crash": the dispatcher dies
  Endpoints,    \* "task": closes on a done row; "goal": does not
  Panel         \* the dashboard's panel, or the client of docs/STREAMING.md

ASSUME StreamAssumption ==
  /\ IsFiniteSet(Lanes) /\ Lanes # {}
  /\ MaxRows \in Nat /\ MaxRuns \in Nat \ {0} /\ MaxDrops \in Nat
  /\ Faults \subseteq {"notify", "query", "crash"}
  /\ Endpoints \subseteq {"task", "goal"} /\ Panel \in BOOLEAN

VARIABLES
  rows,       \* committed rows of task_logs
  ends,       \* ids given to rows of type done
  nextId,     \* the bigserial sequence
  at, holds,  \* each lane: its next statement, and the id it inserted
  exec, run,  \* the execution that writes, and how many there were
  endpoint,   \* the endpoint the client connects to
  calm,       \* so far no fault, no two writes in flight together, and no
              \* further run on a task's stream
  conn,       \* the endpoint's handler
  inbox,      \* notifications on their way to the handler's LISTEN
  pending,    \* pendingLive
  batch,      \* rows the replay query returned
  lastId,     \* lastReplayedId before the replay
  wire,       \* frames sent and not received
  panel,      \* the client's connection
  lastEvent,  \* last id it received, the browser's Last-Event-ID
  seen,       \* seenRef
  lines,      \* lines shown
  drops       \* lost connections so far

writerVars  == <<rows, ends, nextId, at, holds, exec, run, endpoint>>
handlerVars == <<conn, pending, batch, lastId>>
clientVars  == <<panel, lastEvent, seen, lines, drops>>
vars == <<rows, ends, nextId, at, holds, exec, run, endpoint, calm, conn, inbox,
          pending, batch, lastId, wire, panel, lastEvent, seen, lines, drops>>

Ids == 1..MaxRows
CloseOnDone == endpoint = "task"

TypeOK ==
  /\ rows \subseteq Ids /\ ends \subseteq Ids
  /\ nextId \in 1..(MaxRows + 1)
  /\ at \in [Lanes -> {"free", "commit", "notify"}]
  /\ holds \in [Lanes -> Ids \cup {0}]
  /\ exec \in {"writing", "closing"} /\ run \in 1..MaxRuns
  /\ endpoint \in Endpoints /\ calm \in BOOLEAN
  /\ conn \in {"off", "listen", "rows", "live", "closed"}
  /\ inbox \in Seq(Ids) /\ pending \in Seq(Ids) /\ wire \in Seq(Ids)
  /\ batch \subseteq Ids /\ lastId \in Ids \cup {0}
  /\ panel \in {"connecting", "open", "done"}
  /\ lastEvent \in Ids \cup {0} /\ seen \subseteq Ids
  /\ lines \in Seq(Ids) /\ drops \in 0..MaxDrops

Init ==
  /\ rows = {} /\ ends = {} /\ nextId = 1
  /\ at = [l \in Lanes |-> "free"] /\ holds = [l \in Lanes |-> 0]
  /\ exec = "writing" /\ run = 1
  /\ endpoint \in Endpoints /\ calm = TRUE
  /\ conn = "off" /\ inbox = <<>> /\ pending = <<>>
  /\ batch = {} /\ lastId = 0 /\ wire = <<>>
  /\ panel = "connecting" /\ lastEvent = 0 /\ seen = {} /\ lines = <<>>
  /\ drops = 0

-----------------------------------------------------------------------------
(* The writer.                                                             *)

Idle == \A l \in Lanes : at[l] = "free"
ListenLate == conn = "live"
Listening == conn \in {"listen", "rows", "live"}

TakeId(l) ==
  /\ at[l] = "free"
  /\ at' = [at EXCEPT ![l] = "commit"]
  /\ holds' = [holds EXCEPT ![l] = nextId]
  /\ nextId' = nextId + 1

(* onChunk: the INSERT of an output chunk. *)
Insert(l) ==
  /\ exec = "writing" /\ nextId < MaxRows
  /\ TakeId(l)
  /\ calm' = (calm /\ Idle)
  /\ UNCHANGED <<rows, ends, exec, run, endpoint, inbox, wire, handlerVars, clientVars>>

(* execute() has awaited every chunk: the INSERT of the done row. *)
InsertDone(l) ==
  /\ exec = "writing" /\ Idle /\ nextId <= MaxRows
  /\ TakeId(l)
  /\ ends' = ends \cup {nextId}
  /\ exec' = "closing"
  /\ UNCHANGED <<rows, run, endpoint, calm, inbox, wire, handlerVars, clientVars>>

Commit(l) ==
  /\ at[l] = "commit"
  /\ rows' = rows \cup {holds[l]}
  /\ at' = [at EXCEPT ![l] = "notify"]
  /\ UNCHANGED <<ends, nextId, holds, exec, run, endpoint, calm, inbox, wire,
                 handlerVars, clientVars>>

(* pg_notify reaches the handlers that listen at this moment. *)
Notify(l) ==
  /\ at[l] = "notify"
  /\ inbox' = IF Listening THEN Append(inbox, holds[l]) ELSE inbox
  /\ at' = [at EXCEPT ![l] = "free"]
  /\ UNCHANGED <<rows, ends, nextId, holds, exec, run, endpoint, calm, wire,
                 handlerVars, clientVars>>

(* pg_notify throws, or the LISTEN connection is down: onChunk ignores it. *)
NotifyMissed(l) ==
  /\ "notify" \in Faults /\ at[l] = "notify"
  /\ at' = [at EXCEPT ![l] = "free"] /\ calm' = FALSE
  /\ UNCHANGED <<rows, ends, nextId, holds, exec, run, endpoint, inbox, wire,
                 handlerVars, clientVars>>

(* The dispatcher dies: statements on their way may still take effect, no  *)
(* notification follows them, and no done row is written.                  *)
Crash ==
  /\ "crash" \in Faults /\ exec = "writing"
  /\ \E S \in SUBSET {l \in Lanes : at[l] = "commit"} :
       rows' = rows \cup {holds[l] : l \in S}
  /\ at' = [l \in Lanes |-> "free"]
  /\ exec' = "closing" /\ calm' = FALSE
  /\ UNCHANGED <<ends, nextId, holds, run, endpoint, inbox, wire, handlerVars, clientVars>>

(* The task, requeued by a retry, a review or the startup recovery, runs   *)
(* again; on a goal's stream also the goal's next task.                    *)
RunAgain ==
  /\ exec = "closing" /\ Idle /\ run < MaxRuns
  /\ run' = run + 1 /\ exec' = "writing"
  /\ calm' = (calm /\ ~CloseOnDone)
  /\ UNCHANGED <<rows, ends, nextId, at, holds, endpoint, inbox, wire, handlerVars, clientVars>>

-----------------------------------------------------------------------------
(* The endpoint.                                                           *)

(* The replay's lower bound: lastEventId of the request. *)
ReplayNext == lastEvent + 1
ReplayFrom == IF Panel THEN 0 ELSE lastEvent

(* A request arrives; its handler subscribes before it reads the rows. *)
Connect ==
  /\ panel = "connecting"
  /\ panel' = "open" /\ conn' = "listen"
  /\ lastId' = ReplayFrom
  /\ batch' = {} /\ inbox' = <<>> /\ pending' = <<>> /\ wire' = <<>>
  /\ UNCHANGED <<writerVars, calm, lastEvent, seen, lines, drops>>

Query ==
  /\ conn = "listen"
  /\ batch' = {r \in rows : r > lastId}
  /\ conn' = "rows"
  /\ UNCHANGED <<writerVars, calm, inbox, pending, lastId, wire, clientVars>>

(* The query throws: the handler falls through to live-only mode. *)
QueryFails ==
  /\ "query" \in Faults /\ conn = "listen"
  /\ batch' = {} /\ conn' = "rows" /\ calm' = FALSE
  /\ UNCHANGED <<writerVars, inbox, pending, lastId, wire, clientVars>>

(* Buffered notifications the drain sends: past the last id sent so far. *)
DrainNone == {}
Drained ==
  {pending[i] : i \in {j \in 1..Len(pending) :
     /\ pending[j] > lastId
     /\ \A r \in batch : r < pending[j]
     /\ \A k \in 1..(j - 1) : pending[k] < pending[j]}}

(* The frames of the replay and the drain: nothing is sent after a done    *)
(* row when the endpoint closes on it.                                     *)
FramesCut ==
  LET S == batch \cup Drained
  IN {r \in S : \A d \in S \cap ends : r <= d}
Frames ==
  LET S == batch \cup Drained
  IN {r \in S : CloseOnDone => \A d \in S \cap ends : r <= d}

(* The rows of S by id: ORDER BY id. *)
InOrder(S) ==
  CHOOSE s \in [1..Cardinality(S) -> S] :
    \A i, j \in 1..Cardinality(S) : i < j => s[i] < s[j]

(* Replay and drain run without an await between them. *)
Resume ==
  /\ conn = "rows"
  /\ wire' = wire \o InOrder(Frames)
  /\ conn' = IF CloseOnDone /\ Frames \cap ends # {} THEN "closed" ELSE "live"
  /\ pending' = <<>>
  /\ UNCHANGED <<writerVars, calm, inbox, batch, lastId, clientVars>>

(* The LISTEN callback. *)
Deliver ==
  /\ Listening /\ inbox # <<>>
  /\ inbox' = Tail(inbox)
  /\ IF conn = "live"
       THEN /\ wire' = Append(wire, Head(inbox))
            /\ conn' = IF CloseOnDone /\ Head(inbox) \in ends THEN "closed" ELSE conn
            /\ UNCHANGED pending
       ELSE /\ pending' = Append(pending, Head(inbox))
            /\ UNCHANGED <<wire, conn>>
  /\ UNCHANGED <<writerVars, calm, batch, lastId, clientVars>>

-----------------------------------------------------------------------------
(* The client.                                                             *)

(* es.onmessage. A line of a row already seen is not shown again.          *)
KnownNever(r) == FALSE
Known(r) == Panel /\ r \in seen
Receive ==
  /\ panel = "open" /\ wire # <<>>
  /\ LET r == Head(wire)
         closes == CloseOnDone /\ r \in ends /\ ~Known(r)
     IN /\ lastEvent' = r
        /\ seen' = seen \cup {r}
        /\ lines' = IF Known(r) \/ r \in ends THEN lines ELSE Append(lines, r)
        /\ panel' = IF closes THEN "done" ELSE panel
        /\ conn' = IF closes THEN "off" ELSE conn
        /\ wire' = IF closes THEN <<>> ELSE Tail(wire)
        /\ inbox' = IF closes THEN <<>> ELSE inbox
  /\ UNCHANGED <<writerVars, calm, pending, batch, lastId, drops>>

(* The connection breaks; the client opens another after three seconds.    *)
Drop ==
  /\ panel = "open" /\ drops < MaxDrops
  /\ drops' = drops + 1
  /\ panel' = "connecting" /\ conn' = "off"
  /\ inbox' = <<>> /\ wire' = <<>> /\ pending' = <<>>
  /\ UNCHANGED <<writerVars, calm, batch, lastId, lastEvent, seen, lines>>

-----------------------------------------------------------------------------
Finished ==
  /\ exec = "closing" /\ Idle /\ run = MaxRuns
  /\ wire = <<>> /\ inbox = <<>> /\ (panel = "done" \/ conn = "live")
  /\ UNCHANGED vars

Next ==
  \/ \E l \in Lanes : \/ Insert(l) \/ InsertDone(l) \/ Commit(l)
                      \/ Notify(l) \/ NotifyMissed(l)
  \/ Crash \/ RunAgain
  \/ Connect \/ Query \/ QueryFails \/ Resume \/ Deliver
  \/ Receive \/ Drop
  \/ Finished

Spec == Init /\ [][Next]_vars

(* Statements that were sent are answered, the endpoint's handler runs on, *)
(* and the browser reads what arrives and reconnects. The agent owes no    *)
(* further chunk.                                                          *)
Fairness ==
  /\ \A l \in Lanes : WF_vars(Commit(l) \/ Notify(l))
  /\ WF_vars(Connect) /\ WF_vars(Query \/ Resume)
  /\ WF_vars(Deliver) /\ WF_vars(Receive)

FairSpec == Spec /\ Fairness

-----------------------------------------------------------------------------
(* A panel that says done shows every line written before, as long as all  *)
(* went undisturbed.                                                       *)
DoneIsComplete ==
  calm /\ panel = "done" => \A r \in rows : r \in ends \/ \E i \in 1..Len(lines) : lines[i] = r

(* No line twice, even when writes overlap and connections break.          *)
NoLineTwice == \A i, j \in 1..Len(lines) : i # j => lines[i] # lines[j]

(* Whatever notifications were lost, all that a panel's last replay found  *)
(* has been shown once the stream has gone live and the wire is empty.     *)
ReplayReaches ==
  conn = "live" /\ wire = <<>> => batch \subseteq seen

(* What LISTEN-before-query, the drain filter and seenRef are there for:   *)
(* whatever the moment the panel connects or reconnects at, it shows what  *)
(* was written, each line once; in order, without a hole and to the end as *)
(* long as nothing disturbs the stream.                                    *)
Log == INSTANCE OutputLog WITH Lines <- Ids, written <- rows \ ends, shown <- lines
ShowsTheLog == Log!FairSpec

(* docs/STREAMING.md: "No gaps". What the panel has when it says done.     *)
NoGaps ==
  panel = "done" => \A r \in rows : r \in ends \/ \E i \in 1..Len(lines) : lines[i] = r

(* index.ts: the done row "is always the last row in task_logs for this    *)
(* task, which is what the SSE endpoint relies on to close the stream".    *)
DoneIsLast == \A d \in ends, r \in rows : r <= d
=============================================================================
