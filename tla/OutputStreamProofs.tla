-------------------------- MODULE OutputStreamProofs --------------------------
(***************************************************************************)
(* Theorems about OutputStream, for every number of writes in flight,      *)
(* rows, executions, broken connections and faults: what the panel shows,  *)
(* and that it implements the reader's log (OutputLog), liveness aside.    *)
(***************************************************************************)
EXTENDS OutputStream, FiniteSetTheorems, TLAPS

(* What the panel shows it has also marked as seen. *)
ShownSeen == lines \in Seq(seen)

PanelInv == ShownSeen /\ (Panel => NoLineTwice)

(* A new line is put behind the others. *)
LEMMA AppendNew ==
  ASSUME PanelInv, NEW r, Panel => r \notin seen,
         seen' = seen \cup {r}, lines' = Append(lines, r)
  PROVE  PanelInv'
<1> USE DEF PanelInv, ShownSeen
<1>1. lines \in Seq(seen')
  OBVIOUS
<1>2. ShownSeen'
  BY <1>1
<1>3. ASSUME Panel PROVE NoLineTwice'
  <2>1. /\ Len(lines') = Len(lines) + 1 /\ Len(lines) \in Nat
        /\ lines'[Len(lines) + 1] = r
        /\ \A i \in 1..Len(lines) : lines'[i] = lines[i] /\ lines[i] \in seen
    BY <1>1
  <2>2. ASSUME NEW i \in 1..Len(lines'), NEW j \in 1..Len(lines'), i # j
        PROVE  lines'[i] # lines'[j]
    <3>1. CASE i \in 1..Len(lines) /\ j \in 1..Len(lines)
      BY <1>3, <2>1, <2>2, <3>1 DEF NoLineTwice
    <3>2. CASE i = Len(lines) + 1 \/ j = Len(lines) + 1
      <4>1. r \notin seen
        BY <1>3
      <4>2. (i # Len(lines) + 1 => lines'[i] \in seen)
            /\ (j # Len(lines) + 1 => lines'[j] \in seen)
        BY <2>1, <2>2
      <4> QED
        BY <2>1, <2>2, <3>2, <4>1, <4>2
    <3> QED
      BY <2>1, <2>2, <3>1, <3>2
  <2> QED
    BY <2>2 DEF NoLineTwice
<1> QED
  BY <1>2, <1>3

LEMMA ReceivePanel ==
  ASSUME PanelInv, Receive
  PROVE  PanelInv'
<1> DEFINE r == Head(wire)
<1>1. seen' = seen \cup {r}
  BY DEF Receive
<1>2. CASE Known(r) \/ r \in ends
  <2>1. lines' = lines
    BY <1>2 DEF Receive
  <2>2. lines \in Seq(seen')
    BY <1>1 DEF PanelInv, ShownSeen
  <2> QED
    BY <2>1, <2>2 DEF PanelInv, ShownSeen, NoLineTwice
<1>3. CASE ~Known(r) /\ r \notin ends
  <2>1. lines' = Append(lines, r)
    BY <1>3 DEF Receive
  <2>2. Panel => r \notin seen
    BY <1>3 DEF Known
  <2> QED
    BY <1>1, <2>1, <2>2, AppendNew
<1> QED
  BY <1>2, <1>3

LEMMA PanelInvHolds == Spec => []PanelInv
<1>1. Init => PanelInv
  BY DEF Init, PanelInv, ShownSeen, NoLineTwice
<1>2. PanelInv /\ [Next]_vars => PanelInv'
  <2> SUFFICES ASSUME PanelInv, [Next]_vars PROVE PanelInv'
    OBVIOUS
  <2>1. CASE UNCHANGED <<lines, seen>>
    BY <2>1 DEF PanelInv, ShownSeen, NoLineTwice
  <2>2. CASE Receive
    BY <2>2, ReceivePanel
  <2>3. CASE ~Receive
    <3>1. UNCHANGED <<lines, seen>>
      BY <2>3 DEF Next, Insert, InsertDone, Commit, Notify, NotifyMissed, Crash,
         RunAgain, Connect, Query, QueryFails, Resume, Deliver, Drop, Finished,
         clientVars, vars
    <3> QED
      BY <2>1, <3>1
  <2> QED
    BY <2>2, <2>3
<1> QED
  BY <1>1, <1>2, PTL DEF Spec

(* The panel of live-activity-panel.tsx shows no line twice, whatever is   *)
(* notified, replayed, lost or sent again.                                 *)
THEOREM NoLineTwiceHolds == Spec => [](Panel => NoLineTwice)
<1>1. PanelInv => (Panel => NoLineTwice)
  BY DEF PanelInv
<1> QED
  BY <1>1, PanelInvHolds, PTL

-----------------------------------------------------------------------------
(* The rows of a finite set of numbers, in order.                          *)

Increasing(s, n) == \A i, j \in 1..n : i < j => s[i] < s[j]

(* A finite set of numbers has an increasing enumeration: the inverse of   *)
(* the rank, which is an injection into 1..Cardinality(S).                 *)
LEMMA OrderExists ==
  ASSUME NEW S \in SUBSET Nat, IsFiniteSet(S)
  PROVE  \E s \in [1..Cardinality(S) -> S] :
           /\ Increasing(s, Cardinality(S))
           /\ \A x \in S : \E i \in 1..Cardinality(S) : s[i] = x
<1> DEFINE n == Cardinality(S)
           below(x) == {y \in S : y < x}
           rank == [x \in S |-> Cardinality(below(x)) + 1]
<1>1. n \in Nat /\ IsFiniteSet(1..n) /\ Cardinality(1..n) = n
  BY FS_CardinalityType, FS_Interval
<1>2. \A x \in S : /\ IsFiniteSet(below(x))
                   /\ Cardinality(below(x)) \in Nat /\ Cardinality(below(x)) < n
  <2> SUFFICES ASSUME NEW x \in S
               PROVE  /\ IsFiniteSet(below(x))
                      /\ Cardinality(below(x)) \in Nat /\ Cardinality(below(x)) < n
    OBVIOUS
  <2>1. below(x) \in SUBSET S /\ x \notin below(x)
    OBVIOUS
  <2>2. IsFiniteSet(below(x)) /\ Cardinality(below(x)) <= n
        /\ (n = Cardinality(below(x)) => S = below(x))
    BY <2>1, FS_Subset
  <2>3. Cardinality(below(x)) \in Nat
    BY <2>2, FS_CardinalityType
  <2> QED
    BY <1>1, <2>1, <2>2, <2>3
<1>3. \A x, y \in S : x < y => Cardinality(below(x)) < Cardinality(below(y))
  <2> SUFFICES ASSUME NEW x \in S, NEW y \in S, x < y
               PROVE  Cardinality(below(x)) < Cardinality(below(y))
    OBVIOUS
  <2>1. below(x) \in SUBSET below(y) /\ x \in below(y) /\ x \notin below(x)
    <3>1. \A z \in S : z \in Nat
      OBVIOUS
    <3>2. /\ ~(x < x)
          /\ \A z \in S : z < x => z < y
      BY <3>1
    <3> QED
      BY <3>2, Zenon
  <2>2. Cardinality(below(x)) <= Cardinality(below(y))
        /\ (Cardinality(below(y)) = Cardinality(below(x)) => below(y) = below(x))
    BY <1>2, <2>1, FS_Subset
  <2> HIDE DEF below
  <2> QED
    BY <1>2, <2>1, <2>2
<1> HIDE DEF n, below
<1>4. rank \in [S -> 1..n] /\ \A x, y \in S : x < y => rank[x] < rank[y]
  BY <1>1, <1>2, <1>3
<1> HIDE DEF rank
<1>5. \A x, y \in S : (rank[x] = rank[y] => x = y) /\ (rank[x] < rank[y] => x < y)
  <2> SUFFICES ASSUME NEW x \in S, NEW y \in S
               PROVE  (rank[x] = rank[y] => x = y) /\ (rank[x] < rank[y] => x < y)
    OBVIOUS
  <2>1. x \in Nat /\ y \in Nat /\ rank[x] \in Nat /\ rank[y] \in Nat
    BY <1>1, <1>4
  <2>2. x < y \/ y < x \/ x = y
    BY <2>1
  <2> QED
    BY <1>4, <2>1, <2>2
<1>6. rank \in Surjection(S, 1..n)
  <2>1. rank \in Injection(S, 1..n)
    BY <1>4, <1>5 DEF Injection, IsInjective
  <2> QED
    BY <1>1, <2>1, FS_Injection DEF n
<1>7. \A i \in 1..n : \E x \in S : rank[x] = i
  BY <1>6 DEF Surjection
<1> DEFINE s == [i \in 1..n |-> CHOOSE x \in S : rank[x] = i]
<1>8. \A i \in 1..n : s[i] \in S /\ rank[s[i]] = i
  BY <1>7
<1>9. s \in [1..n -> S]
  BY <1>8
<1> HIDE DEF s
<1>10. Increasing(s, n)
  <2> SUFFICES ASSUME NEW i \in 1..n, NEW j \in 1..n, i < j PROVE s[i] < s[j]
    BY DEF Increasing
  <2>1. rank[s[i]] < rank[s[j]] /\ s[i] \in S /\ s[j] \in S
    BY <1>8
  <2> QED
    BY <1>5, <2>1
<1>11. \A x \in S : \E i \in 1..n : s[i] = x
  BY <1>4, <1>5, <1>8
<1> QED
  BY <1>9, <1>10, <1>11 DEF n

(* ORDER BY id: what InOrder lists is S itself, each row once and the       *)
(* smaller ids first.                                                      *)
LEMMA InOrderLists ==
  ASSUME NEW S \in SUBSET Nat, IsFiniteSet(S)
  PROVE  /\ InOrder(S) \in Seq(S) /\ Len(InOrder(S)) = Cardinality(S)
         /\ Cardinality(S) \in Nat
         /\ \A i, j \in 1..Len(InOrder(S)) : i < j => InOrder(S)[i] < InOrder(S)[j]
         /\ \A x \in S : \E i \in 1..Len(InOrder(S)) : InOrder(S)[i] = x
<1> DEFINE n == Cardinality(S)
           s == InOrder(S)
<1>1. n \in Nat
  BY FS_CardinalityType
<1>2. s \in [1..n -> S] /\ Increasing(s, n)
  <2>1. \E z \in [1..n -> S] : \A i, j \in 1..n : i < j => z[i] < z[j]
    BY OrderExists DEF Increasing
  <2> QED
    BY <2>1 DEF InOrder, Increasing
<1>3. PICK z \in [1..n -> S] : Increasing(z, n) /\ \A x \in S : \E i \in 1..n : z[i] = x
  BY OrderExists
<1> HIDE DEF n, s
<1>4. s \in Seq(S) /\ Len(s) = n
  BY <1>1, <1>2
<1>5. s \in Injection(1..n, S)
  <2>1. \A i, j \in 1..n : s[i] = s[j] => i = j
    <3> SUFFICES ASSUME NEW i \in 1..n, NEW j \in 1..n, i # j PROVE s[i] # s[j]
      OBVIOUS
    <3>1. (i < j \/ j < i) /\ s[i] \in S /\ s[j] \in S
      BY <1>1, <1>2
    <3>2. s[i] < s[j] \/ s[j] < s[i]
      BY <1>2, <3>1 DEF Increasing
    <3>3. s[i] \in Nat /\ s[j] \in Nat
      BY <3>1
    <3> QED
      BY <3>2, <3>3
  <2> QED
    BY <1>2, <2>1 DEF Injection, IsInjective
<1>6. s \in Surjection(1..n, S)
  BY <1>1, <1>5, FS_Interval, FS_Injection DEF n
<1>7. \A x \in S : \E i \in 1..n : s[i] = x
  BY <1>6 DEF Surjection
<1> QED
  BY <1>1, <1>2, <1>4, <1>7 DEF Increasing, n, s

LEMMA LeastOf ==
  ASSUME NEW S \in SUBSET Nat, IsFiniteSet(S), S # {}
  PROVE  \E x \in S : \A y \in S : x <= y
<1> DEFINE n == Cardinality(S)
<1>1. n \in Nat
  BY FS_CardinalityType
<1>2. PICK s \in [1..n -> S] : Increasing(s, n) /\ \A x \in S : \E i \in 1..n : s[i] = x
  BY OrderExists
<1> HIDE DEF n
<1>3. 1 \in 1..n /\ s[1] \in S
  <2>1. PICK i \in 1..n : TRUE
    BY <1>2
  <2>2. 1 \in 1..n
    BY <1>1, <2>1
  <2> QED
    BY <1>2, <2>2
<1>4. \A y \in S : s[1] <= y
  <2> SUFFICES ASSUME NEW y \in S PROVE s[1] <= y
    OBVIOUS
  <2>0. PICK i \in 1..n : s[i] = y
    BY <1>2
  <2>1. s[1] \in Nat /\ y \in Nat
    BY <1>3
  <2>2. i = 1 \/ 1 < i
    BY <1>1
  <2>3. 1 < i => s[1] < y
    BY <1>2, <1>3, <2>0 DEF Increasing
  <2> QED
    BY <2>0, <2>1, <2>2, <2>3
<1> QED
  BY <1>3, <1>4

-----------------------------------------------------------------------------
(* The inductive invariant.                                                *)

InSeq(r, s) == \E i \in 1..Len(s) : s[i] = r

(* Ids come from the sequence; a lane notifies of a row it committed.      *)
RowsInv ==
  /\ \A r \in rows \cup ends : r < nextId
  /\ \A l \in Lanes : at[l] # "free" => holds[l] \in 1..(nextId - 1)
  /\ \A l \in Lanes : at[l] = "notify" => holds[l] \in rows

(* Whatever is replayed, notified or seen was committed.                   *)
CommittedOnly ==
  /\ seen \subseteq rows /\ batch \subseteq rows /\ lastEvent \in seen \cup {0}
  /\ inbox \in Seq(rows) /\ pending \in Seq(rows) /\ wire \in Seq(rows)
  /\ lines \in Seq(seen)

ConnInv ==
  /\ panel = "open" <=> conn # "off"
  /\ conn \in {"off", "listen", "rows"} => wire = <<>>
  /\ conn = "off" => inbox = <<>>
  /\ conn = "live" => pending = <<>>

SeenShown == \A r \in seen : r \in ends \/ InSeq(r, lines)

BatchOnWire == conn = "live" => \A r \in batch : r \in seen \/ InSeq(r, wire)

FlowInv == RowsInv /\ CommittedOnly /\ ConnInv /\ SeenShown /\ BatchOnWire

(* While all is calm: the last id announced, the last one committed, and   *)
(* the last one announced before the notifications on their way.           *)
Announced == IF Idle THEN nextId - 1 ELSE nextId - 2
Committed == IF \E l \in Lanes : at[l] = "commit" THEN nextId - 2 ELSE nextId - 1
Before == Announced - Len(inbox) - Len(pending)

(* One write at a time; the done row of a task is its last.                *)
WriterInv ==
  /\ \A l, k \in Lanes : at[l] # "free" /\ at[k] # "free" => l = k
  /\ \A l \in Lanes : at[l] # "free" => holds[l] = nextId - 1
  /\ rows = 1..Committed
  /\ CloseOnDone => ends = IF exec = "writing" THEN {} ELSE {nextId - 1}

(* What is seen has no hole, and the wire leaves none.                     *)
GapFree ==
  /\ \A r \in seen : 1..r \subseteq seen
  /\ \A i \in 1..Len(wire) : \A r \in 1..(wire[i] - 1) :
       r \in seen \/ \E j \in 1..(i - 1) : wire[j] = r

(* Notifications follow one another; replay and drain together continue   *)
(* what is seen up to the last announced row.                              *)
InboxInv == Listening => \A i \in 1..Len(inbox) : inbox[i] = Announced - Len(inbox) + i
PendingInv ==
  conn \in {"listen", "rows"} =>
    /\ \A i \in 1..Len(pending) : pending[i] = Before + i
    /\ 1..lastId \subseteq seen
BatchInv ==
  conn = "rows" =>
    /\ \A r \in batch : r > lastId /\ \A q \in (lastId + 1)..r : q \in batch
    /\ \A r \in 1..Before : r > lastId => r \in batch
LiveInv ==
  conn = "live" => \A r \in 1..(Announced - Len(inbox)) : r \in seen \/ InSeq(r, wire)

DoneInv ==
  panel = "done" =>
    CloseOnDone /\ exec = "closing" /\ rows \subseteq seen /\ \A l \in Lanes : at[l] # "commit"

CalmInv ==
  WriterInv /\ GapFree /\ InboxInv /\ PendingInv /\ BatchInv /\ LiveInv /\ DoneInv

StreamInv == TypeOK /\ FlowInv /\ (calm => CalmInv)

LEMMA StreamInit == Init => StreamInv
<1> SUFFICES ASSUME Init PROVE StreamInv
  OBVIOUS
<1> USE StreamAssumption DEF Init
<1>1. TypeOK
  BY DEF TypeOK, Ids
<1>2. FlowInv
  BY DEF FlowInv, RowsInv, CommittedOnly, ConnInv, SeenShown, BatchOnWire
<1>3. WriterInv
  BY DEF WriterInv, Committed, CloseOnDone
<1>4. GapFree /\ InboxInv /\ PendingInv /\ BatchInv /\ LiveInv /\ DoneInv
  BY DEF GapFree, InboxInv, PendingInv, BatchInv, LiveInv, DoneInv, Listening
<1> QED
  BY <1>1, <1>2, <1>3, <1>4 DEF StreamInv, CalmInv

(* The endpoint's frames: a prefix of what replay and drain found, all of  *)
(* it unless a done row closes the stream.                                 *)
LEMMA ResumeFrames ==
  ASSUME TypeOK, ConnInv, Resume
  PROVE  /\ Frames \subseteq batch \cup Drained
         /\ Drained \subseteq {pending[i] : i \in 1..Len(pending)}
         /\ wire' \in Seq(Frames)
         /\ \A i, j \in 1..Len(wire') : i < j => wire'[i] < wire'[j]
         /\ \A r \in Frames : InSeq(r, wire)'
         /\ \A r \in batch \cup Drained, q \in Frames : r <= q => r \in Frames
         /\ conn' = "live" => Frames = batch \cup Drained
<1> DEFINE S == batch \cup Drained
<1>1. Drained \subseteq {pending[i] : i \in 1..Len(pending)}
  BY DEF Drained
<1>2. S \subseteq Ids
  BY <1>1 DEF TypeOK
<1>3. Frames \subseteq S
  BY DEF Frames
<1>4. Ids \subseteq Nat /\ IsFiniteSet(Ids)
  BY StreamAssumption, FS_Interval DEF Ids
<1>5. Frames \in SUBSET Nat /\ IsFiniteSet(Frames)
  BY <1>2, <1>3, <1>4, FS_Subset
<1>6. wire' = InOrder(Frames)
  <2>1. InOrder(Frames) \in Seq(Frames) /\ wire = <<>>
    BY <1>5, InOrderLists DEF ConnInv, Resume
  <2> QED
    BY <2>1 DEF Resume
<1>7. \A r \in S, q \in Frames : r <= q => r \in Frames
  <2> SUFFICES ASSUME NEW r \in S, NEW q \in Frames, r <= q, CloseOnDone,
                      NEW d \in S \cap ends
               PROVE  r <= d
    BY DEF Frames
  <2>1. q <= d
    BY DEF Frames
  <2>2. r \in Nat /\ q \in Nat /\ d \in Nat
    BY <1>2, <1>3, <1>4
  <2> QED
    BY <2>1, <2>2
<1>8. ASSUME conn' = "live" PROVE Frames = S
  <2>1. CASE ~CloseOnDone
    BY <2>1 DEF Frames
  <2>2. CASE CloseOnDone
    <3>1. Frames \cap ends = {}
      BY <1>8, <2>2 DEF Resume
    <3>2. S \cap ends = {}
      <4> SUFFICES ASSUME S \cap ends # {} PROVE FALSE
        OBVIOUS
      <4>1. S \cap ends \in SUBSET Nat /\ IsFiniteSet(S \cap ends)
        BY <1>2, <1>4, FS_Subset
      <4>2. PICK d \in S \cap ends : \A y \in S \cap ends : d <= y
        BY <4>1, LeastOf
      <4> QED
        BY <3>1, <4>2 DEF Frames
    <3> QED
      BY <3>2 DEF Frames
  <2> QED
    BY <2>1, <2>2
<1>9. \A r \in Frames : InSeq(r, wire)'
  BY <1>5, <1>6, InOrderLists DEF InSeq
<1> QED
  BY <1>1, <1>3, <1>5, <1>6, <1>7, <1>8, <1>9, InOrderLists

LEMMA SeqOfSubset ==
  ASSUME NEW A, NEW B, A \subseteq B, NEW s \in Seq(A)
  PROVE  s \in Seq(B)
OBVIOUS

LEMMA HeadTail ==
  ASSUME NEW A, NEW s \in Seq(A), s # <<>>
  PROVE  /\ Head(s) \in A /\ Head(s) = s[1] /\ Tail(s) \in Seq(A)
         /\ Len(s) \in Nat \ {0} /\ Len(Tail(s)) = Len(s) - 1
         /\ \A i \in 1..(Len(s) - 1) : Tail(s)[i] = s[i + 1]
OBVIOUS

LEMMA TypeNext ==
  ASSUME TypeOK, RowsInv, ConnInv, [Next]_vars
  PROVE  TypeOK'
<1> USE StreamAssumption DEF Ids
<1>1. ASSUME NEW l \in Lanes, Insert(l) \/ InsertDone(l) PROVE TypeOK'
  <2>1. nextId \in Ids /\ nextId + 1 \in 1..(MaxRows + 1)
    BY <1>1 DEF TypeOK, Insert, InsertDone
  <2>2. /\ at' \in [Lanes -> {"free", "commit", "notify"}]
        /\ holds' \in [Lanes -> Ids \cup {0}] /\ nextId' \in 1..(MaxRows + 1)
    BY <1>1, <2>1 DEF TypeOK, Insert, InsertDone, TakeId
  <2>3. CASE Insert(l)
    BY <2>2, <2>3 DEF TypeOK, Insert, handlerVars, clientVars
  <2>4. CASE InsertDone(l)
    BY <2>1, <2>2, <2>4 DEF TypeOK, InsertDone, handlerVars, clientVars
  <2> QED
    BY <1>1, <2>3, <2>4
<1>2. ASSUME NEW l \in Lanes, Commit(l) \/ Notify(l) \/ NotifyMissed(l) PROVE TypeOK'
  <2>1. holds[l] \in Ids
    BY <1>2 DEF TypeOK, RowsInv, Commit, Notify, NotifyMissed
  <2>2. rows' \subseteq Ids /\ inbox' \in Seq(Ids)
    <3>1. Append(inbox, holds[l]) \in Seq(Ids)
      BY <2>1 DEF TypeOK
    <3> QED
      BY <1>2, <2>1, <3>1 DEF TypeOK, Commit, Notify, NotifyMissed
  <2> QED
    BY <1>2, <2>2 DEF TypeOK, Commit, Notify, NotifyMissed, handlerVars, clientVars
<1>3. ASSUME Crash PROVE TypeOK'
  <2>1. rows' \subseteq Ids
    <3>1. PICK S \in SUBSET {l \in Lanes : at[l] = "commit"} :
            rows' = rows \cup {holds[l] : l \in S}
      BY <1>3 DEF Crash
    <3>2. \A l \in S : holds[l] \in Ids
      BY DEF TypeOK, RowsInv
    <3> QED
      BY <3>1, <3>2 DEF TypeOK
  <2> QED
    BY <1>3, <2>1 DEF TypeOK, Crash, handlerVars, clientVars
<1>4. CASE RunAgain
  BY <1>4 DEF TypeOK, RunAgain, handlerVars, clientVars
<1>5. CASE Connect
  BY <1>5 DEF TypeOK, Connect, ReplayFrom, writerVars
<1>6. CASE Query \/ QueryFails
  BY <1>6 DEF TypeOK, Query, QueryFails, writerVars, clientVars
<1>7. CASE Resume
  <2>1. Frames \subseteq Ids
    <3>1. Drained \subseteq Ids
      BY DEF Drained, TypeOK
    <3> QED
      BY <3>1 DEF Frames, TypeOK
  <2>2. wire' \in Seq(Ids)
    BY <1>7, <2>1, ResumeFrames, SeqOfSubset
  <2> QED
    BY <1>7, <2>2 DEF TypeOK, Resume, writerVars, clientVars
<1>8. CASE Deliver
  <2>1. /\ Head(inbox) \in Ids /\ inbox' \in Seq(Ids)
        /\ wire' \in Seq(Ids) /\ pending' \in Seq(Ids)
    <3>1. Head(inbox) \in Ids /\ Tail(inbox) \in Seq(Ids)
      BY <1>8, HeadTail DEF TypeOK, Deliver
    <3>2. Append(wire, Head(inbox)) \in Seq(Ids) /\ Append(pending, Head(inbox)) \in Seq(Ids)
      BY <3>1 DEF TypeOK
    <3> QED
      BY <1>8, <3>1, <3>2 DEF TypeOK, Deliver
  <2> QED
    BY <1>8, <2>1 DEF TypeOK, Deliver, writerVars, clientVars
<1>9. CASE Receive
  <2>1. /\ Head(wire) \in Ids /\ inbox' \in Seq(Ids)
        /\ wire' \in Seq(Ids) /\ lines' \in Seq(Ids)
    <3>1. Head(wire) \in Ids /\ Tail(wire) \in Seq(Ids)
      BY <1>9, HeadTail DEF TypeOK, Receive
    <3>2. Append(lines, Head(wire)) \in Seq(Ids) /\ <<>> \in Seq(Ids)
      BY <3>1 DEF TypeOK
    <3> QED
      BY <1>9, <3>1, <3>2 DEF TypeOK, Receive
  <2> QED
    BY <1>9, <2>1 DEF TypeOK, Receive, writerVars
<1>10. CASE Drop
  BY <1>10 DEF TypeOK, Drop, writerVars
<1>11. CASE Finished \/ UNCHANGED vars
  BY <1>11 DEF TypeOK, Finished, vars
<1> QED
  BY <1>1, <1>2, <1>3, <1>4, <1>5, <1>6, <1>7, <1>8, <1>9, <1>10, <1>11 DEF Next

LEMMA RowsNext ==
  ASSUME TypeOK, RowsInv, [Next]_vars
  PROVE  RowsInv'
<1>1. ASSUME NEW l \in Lanes, Insert(l) \/ InsertDone(l) PROVE RowsInv'
  <2>1. nextId' = nextId + 1 /\ nextId \in Nat \ {0} /\ rows' = rows
        /\ ends' \in {ends, ends \cup {nextId}}
    BY <1>1 DEF TypeOK, Insert, InsertDone, TakeId
  <2>2. \A r \in rows' \cup ends' : r < nextId'
    BY <2>1, StreamAssumption DEF RowsInv, TypeOK, Ids
  <2>3. ASSUME NEW k \in Lanes
        PROVE  /\ at'[k] # "free" => holds'[k] \in 1..(nextId' - 1)
               /\ at'[k] = "notify" => holds'[k] \in rows'
    <3>1. CASE k = l
      BY <1>1, <2>1, <3>1 DEF TypeOK, Insert, InsertDone, TakeId
    <3>2. CASE k # l
      BY <1>1, <2>1, <3>2 DEF TypeOK, RowsInv, Insert, InsertDone, TakeId
    <3> QED
      BY <3>1, <3>2
  <2> QED
    BY <2>2, <2>3 DEF RowsInv
<1>2. ASSUME NEW l \in Lanes, Commit(l) \/ Notify(l) \/ NotifyMissed(l) PROVE RowsInv'
  <2>1. /\ holds[l] < nextId /\ nextId' = nextId /\ holds' = holds /\ ends' = ends
        /\ rows' \in {rows, rows \cup {holds[l]}}
        /\ Commit(l) => holds[l] \in rows'
    <3>1. at[l] # "free"
      BY <1>2 DEF Commit, Notify, NotifyMissed
    <3>2. holds[l] < nextId
      BY <3>1, StreamAssumption DEF TypeOK, RowsInv
    <3> QED
      BY <1>2, <3>2 DEF Commit, Notify, NotifyMissed
  <2>2. \A k \in Lanes : at'[k] # "free" => at[k] # "free"
    BY <1>2 DEF TypeOK, Commit, Notify, NotifyMissed
  <2>3. \A k \in Lanes : at'[k] = "notify" => at[k] = "notify" \/ (k = l /\ Commit(l))
    BY <1>2 DEF TypeOK, Commit, Notify, NotifyMissed
  <2> QED
    BY <2>1, <2>2, <2>3 DEF RowsInv
<1>3. CASE Crash
  <2>1. PICK S \in SUBSET {l \in Lanes : at[l] = "commit"} :
          rows' = rows \cup {holds[l] : l \in S}
    BY <1>3 DEF Crash
  <2>2. \A l \in S : holds[l] < nextId
    <3>1. \A l \in S : holds[l] \in 1..(nextId - 1)
      BY DEF RowsInv
    <3> QED
      BY <3>1, StreamAssumption DEF TypeOK
  <2> QED
    BY <1>3, <2>1, <2>2 DEF RowsInv, Crash
<1>4. CASE UNCHANGED <<rows, ends, nextId, at, holds>>
  BY <1>4 DEF RowsInv
<1> QED
  BY <1>1, <1>2, <1>3, <1>4 DEF Next, RunAgain, Connect, Query, QueryFails, Resume,
     Deliver, Receive, Drop, Finished, writerVars, vars

Writes ==
  \/ \E l \in Lanes : Insert(l) \/ InsertDone(l) \/ Commit(l) \/ Notify(l) \/ NotifyMissed(l)
  \/ Crash \/ RunAgain

(* The writer adds rows and at most announces a committed one.             *)
LEMMA WriterFrame ==
  ASSUME RowsInv, Writes
  PROVE  /\ rows \subseteq rows' /\ ends \subseteq ends'
         /\ UNCHANGED <<endpoint, wire, handlerVars, clientVars>>
         /\ \/ inbox' = inbox
            \/ \E r \in rows : Listening /\ inbox' = Append(inbox, r)
<1>1. ASSUME NEW l \in Lanes, Insert(l) \/ InsertDone(l) \/ Commit(l) \/ NotifyMissed(l)
      PROVE  /\ rows \subseteq rows' /\ ends \subseteq ends'
             /\ UNCHANGED <<endpoint, wire, handlerVars, clientVars>> /\ inbox' = inbox
  BY <1>1 DEF Insert, InsertDone, TakeId, Commit, NotifyMissed
<1>2. ASSUME NEW l \in Lanes, Notify(l)
      PROVE  /\ rows' = rows /\ ends' = ends
             /\ UNCHANGED <<endpoint, wire, handlerVars, clientVars>>
             /\ \/ inbox' = inbox
                \/ \E r \in rows : Listening /\ inbox' = Append(inbox, r)
  <2>1. holds[l] \in rows
    BY <1>2 DEF Notify, RowsInv
  <2> QED
    BY <1>2, <2>1 DEF Notify
<1>3. ASSUME Crash \/ RunAgain
      PROVE  /\ rows \subseteq rows' /\ ends \subseteq ends'
             /\ UNCHANGED <<endpoint, wire, handlerVars, clientVars>> /\ inbox' = inbox
  BY <1>3 DEF Crash, RunAgain
<1> QED
  BY <1>1, <1>2, <1>3 DEF Writes

LEMMA FlowWriter ==
  ASSUME FlowInv, Writes
  PROVE  CommittedOnly' /\ ConnInv' /\ SeenShown' /\ BatchOnWire'
<1> USE DEF FlowInv, handlerVars, clientVars
<1>1. /\ rows \subseteq rows' /\ ends \subseteq ends'
      /\ UNCHANGED <<endpoint, wire, handlerVars, clientVars>>
      /\ \/ inbox' = inbox
         \/ \E r \in rows : Listening /\ inbox' = Append(inbox, r)
  BY WriterFrame
<1>2. CommittedOnly'
  <2>1. inbox' \in Seq(rows')
    <3>1. inbox \in Seq(rows')
      BY <1>1, SeqOfSubset DEF CommittedOnly
    <3> QED
      BY <1>1, <3>1
  <2>2. pending' \in Seq(rows') /\ wire' \in Seq(rows')
    BY <1>1, SeqOfSubset DEF CommittedOnly
  <2> QED
    BY <1>1, <2>1, <2>2 DEF CommittedOnly
<1>3. ConnInv'
  BY <1>1 DEF ConnInv, Listening
<1>4. SeenShown' /\ BatchOnWire'
  BY <1>1 DEF SeenShown, BatchOnWire, InSeq
<1> QED
  BY <1>2, <1>3, <1>4

LEMMA FlowResume ==
  ASSUME TypeOK, FlowInv, Resume
  PROVE  CommittedOnly' /\ ConnInv' /\ SeenShown' /\ BatchOnWire'
<1> USE DEF FlowInv
<1>1. Frames \subseteq rows
  <2>1. Drained \subseteq rows
    BY DEF Drained, CommittedOnly
  <2> QED
    BY <2>1 DEF Frames, CommittedOnly
<1>2. CommittedOnly'
  <2>1. wire' \in Seq(rows)
    BY <1>1, ResumeFrames, SeqOfSubset
  <2> QED
    BY <2>1 DEF CommittedOnly, Resume, writerVars, clientVars
<1>3. ConnInv'
  BY DEF ConnInv, Resume, clientVars
<1>4. SeenShown'
  BY DEF SeenShown, InSeq, Resume, writerVars, clientVars
<1>5. BatchOnWire'
  BY ResumeFrames DEF BatchOnWire, InSeq, Resume
<1> QED
  BY <1>2, <1>3, <1>4, <1>5

LEMMA InAppend ==
  ASSUME NEW A, NEW s \in Seq(A), NEW x
  PROVE  /\ InSeq(x, Append(s, x))
         /\ \A y : InSeq(y, s) => InSeq(y, Append(s, x))
<1>1. /\ Len(s) \in Nat /\ Len(Append(s, x)) = Len(s) + 1
      /\ Append(s, x)[Len(s) + 1] = x
      /\ \A i \in 1..Len(s) : Append(s, x)[i] = s[i]
  OBVIOUS
<1>2. Len(s) + 1 \in 1..(Len(s) + 1) /\ \A i \in 1..Len(s) : i \in 1..(Len(s) + 1)
  BY <1>1
<1> QED
  BY <1>1, <1>2 DEF InSeq

LEMMA InTail ==
  ASSUME NEW A, NEW s \in Seq(A), s # <<>>, NEW x, InSeq(x, s)
  PROVE  x = Head(s) \/ InSeq(x, Tail(s))
<1>1. PICK i \in 1..Len(s) : s[i] = x
  BY DEF InSeq
<1>2. CASE i = 1
  BY <1>1, <1>2, HeadTail
<1>3. CASE i # 1
  <2>1. i - 1 \in 1..Len(Tail(s)) /\ Tail(s)[i - 1] = s[(i - 1) + 1] /\ (i - 1) + 1 = i
    BY <1>3, HeadTail
  <2> QED
    BY <1>1, <2>1 DEF InSeq
<1> QED
  BY <1>2, <1>3

LEMMA FlowDeliver ==
  ASSUME FlowInv, Deliver
  PROVE  CommittedOnly' /\ ConnInv' /\ SeenShown' /\ BatchOnWire'
<1> USE DEF FlowInv
<1>1. Head(inbox) \in rows /\ Tail(inbox) \in Seq(rows)
  BY HeadTail DEF CommittedOnly, Deliver
<1>2. Append(wire, Head(inbox)) \in Seq(rows) /\ Append(pending, Head(inbox)) \in Seq(rows)
  BY <1>1 DEF CommittedOnly
<1>3. CommittedOnly'
  BY <1>1, <1>2 DEF CommittedOnly, Deliver, writerVars, clientVars
<1>4. ConnInv'
  BY DEF ConnInv, Deliver, Listening, clientVars
<1>5. SeenShown'
  BY DEF SeenShown, InSeq, Deliver, writerVars, clientVars
<1>6. BatchOnWire'
  <2>1. conn' = "live" => conn = "live" /\ batch' = batch /\ seen' = seen
                          /\ wire' = Append(wire, Head(inbox))
    BY DEF Deliver, clientVars, Listening
  <2>2. \A r \in batch : InSeq(r, wire) => InSeq(r, Append(wire, Head(inbox)))
    BY InAppend DEF CommittedOnly
  <2> QED
    BY <2>1, <2>2 DEF BatchOnWire, InSeq
<1> QED
  BY <1>3, <1>4, <1>5, <1>6

LEMMA FlowReceive ==
  ASSUME FlowInv, Receive
  PROVE  CommittedOnly' /\ ConnInv' /\ SeenShown' /\ BatchOnWire'
<1> USE DEF FlowInv
<1> DEFINE r == Head(wire)
<1>0. /\ panel = "open" /\ wire # <<>> /\ seen' = seen \cup {r} /\ lastEvent' = r
      /\ rows' = rows /\ ends' = ends /\ batch' = batch /\ pending' = pending
      /\ lines' = IF Known(r) \/ r \in ends THEN lines ELSE Append(lines, r)
      /\ inbox' \in {<<>>, inbox} /\ wire' \in {<<>>, Tail(wire)}
      /\ \/ panel' = "done" /\ conn' = "off" /\ wire' = <<>> /\ inbox' = <<>>
         \/ panel' = panel /\ conn' = conn /\ wire' = Tail(wire) /\ inbox' = inbox
  BY DEF Receive, writerVars
<1>1. r \in rows /\ Tail(wire) \in Seq(rows)
  BY <1>0, HeadTail DEF CommittedOnly
<1> HIDE DEF r
<1>2. lines \in Seq(seen') /\ Append(lines, r) \in Seq(seen')
  <2>1. lines \in Seq(seen') /\ r \in seen'
    BY <1>0, SeqOfSubset DEF CommittedOnly
  <2> QED
    BY <2>1
<1>3. CommittedOnly'
  <2>1. <<>> \in Seq(rows)
    OBVIOUS
  <2> QED
    BY <1>0, <1>1, <1>2, <2>1 DEF CommittedOnly
<1>4. ConnInv'
  BY <1>0 DEF ConnInv
<1>5. SeenShown'
  <2>1. Known(r) \/ r \in ends => r \in ends \/ InSeq(r, lines)
    BY DEF Known, SeenShown
  <2>2. InSeq(r, Append(lines, r)) /\ \A q : InSeq(q, lines) => InSeq(q, Append(lines, r))
    BY InAppend DEF CommittedOnly
  <2>3. \A q : InSeq(q, lines) => InSeq(q, lines')
    BY <1>0, <2>2
  <2>4. r \in ends \/ InSeq(r, lines')
    BY <1>0, <2>1, <2>2
  <2>5. \A q \in seen' : q \in ends \/ InSeq(q, lines')
    BY <1>0, <2>3, <2>4 DEF SeenShown
  <2> QED
    BY <1>0, <2>5 DEF SeenShown, InSeq
<1>6. BatchOnWire'
  <2>1. SUFFICES ASSUME conn' = "live", NEW q \in batch PROVE q \in seen' \/ InSeq(q, wire')
    BY <1>0 DEF BatchOnWire, InSeq
  <2>2. conn = "live" /\ wire' = Tail(wire)
    BY <1>0, <2>1
  <2>3. q \in seen \/ InSeq(q, wire)
    BY <2>2 DEF BatchOnWire
  <2>4. InSeq(q, wire) => q = r \/ InSeq(q, Tail(wire))
    BY <1>0, InTail DEF CommittedOnly, r
  <2> QED
    BY <1>0, <2>2, <2>3, <2>4
<1> QED
  BY <1>3, <1>4, <1>5, <1>6

LEMMA FlowConnect ==
  ASSUME FlowInv, Connect \/ Query \/ QueryFails \/ Drop \/ Finished \/ UNCHANGED vars
  PROVE  CommittedOnly' /\ ConnInv' /\ SeenShown' /\ BatchOnWire'
<1> USE DEF FlowInv, writerVars, clientVars
<1>0. <<>> \in Seq(rows)
  OBVIOUS
<1>1. CASE Connect
  BY <1>0, <1>1 DEF CommittedOnly, ConnInv, SeenShown, BatchOnWire, InSeq, Connect
<1>2. CASE Query \/ QueryFails
  <2>1. batch' \subseteq rows
    BY <1>2 DEF Query, QueryFails
  <2> QED
    BY <1>2, <2>1 DEF CommittedOnly, ConnInv, SeenShown, BatchOnWire, InSeq, Query, QueryFails
<1>3. CASE Drop
  BY <1>0, <1>3 DEF CommittedOnly, ConnInv, SeenShown, BatchOnWire, InSeq, Drop
<1>4. CASE Finished \/ UNCHANGED vars
  BY <1>4 DEF CommittedOnly, ConnInv, SeenShown, BatchOnWire, InSeq, Finished, vars
<1> QED
  BY <1>1, <1>2, <1>3, <1>4

LEMMA NextCases ==
  ASSUME [Next]_vars
  PROVE  \/ Writes \/ Resume \/ Deliver \/ Receive
         \/ Connect \/ Query \/ QueryFails \/ Drop \/ Finished \/ UNCHANGED vars
BY DEF Next, Writes

LEMMA FlowNext ==
  ASSUME TypeOK, FlowInv, [Next]_vars
  PROVE  FlowInv'
<1>1. RowsInv'
  BY RowsNext DEF FlowInv
<1>2. CommittedOnly' /\ ConnInv' /\ SeenShown' /\ BatchOnWire'
  BY NextCases, FlowWriter, FlowResume, FlowDeliver, FlowReceive, FlowConnect
<1> QED
  BY <1>1, <1>2 DEF FlowInv

-----------------------------------------------------------------------------
(* The calm part: one write at a time, no fault.                           *)

(* One id is taken when no lane is busy; it commits; it is announced.      *)
LEMMA WriterNext ==
  ASSUME TypeOK, RowsInv, WriterInv, [Next]_vars, calm'
  PROVE  WriterInv'
<1> USE StreamAssumption DEF Ids, CloseOnDone
<1>0. nextId \in Nat \ {0}
  BY DEF TypeOK
<1>1. ASSUME NEW l \in Lanes, Insert(l) \/ InsertDone(l) PROVE WriterInv'
  <2>1. /\ Idle /\ exec = "writing" /\ nextId' = nextId + 1 /\ rows' = rows
        /\ at' = [at EXCEPT ![l] = "commit"] /\ holds' = [holds EXCEPT ![l] = nextId]
        /\ endpoint' = endpoint
    BY <1>1 DEF Insert, InsertDone, TakeId
  <2>2. /\ at'[l] = "commit" /\ holds'[l] = nextId
        /\ \A k \in Lanes : k # l => at'[k] = "free"
    BY <2>1 DEF Idle, TypeOK
  <2>3. Committed = nextId - 1 /\ Committed' = nextId' - 2
    BY <2>1, <2>2 DEF Committed, Idle
  <2>4. rows' = 1..Committed'
    BY <1>0, <2>1, <2>3 DEF WriterInv
  <2>5. CloseOnDone => ends' = IF exec' = "writing" THEN {} ELSE {nextId' - 1}
    <3>1. CloseOnDone => ends = {}
      BY <2>1 DEF WriterInv
    <3>2. \/ ends' = ends /\ exec' = "writing"
          \/ ends' = ends \cup {nextId} /\ exec' = "closing"
      BY <1>1 DEF Insert, InsertDone
    <3>3. nextId' - 1 = nextId
      BY <1>0, <2>1
    <3> QED
      BY <2>1, <3>1, <3>2, <3>3
  <2>6. nextId' - 1 = nextId
    BY <1>0, <2>1
  <2> QED
    BY <2>1, <2>2, <2>4, <2>5, <2>6 DEF WriterInv
<1>2. ASSUME NEW l \in Lanes, Commit(l) PROVE WriterInv'
  <2>1. /\ at[l] = "commit" /\ at'[l] = "notify" /\ holds[l] = nextId - 1
        /\ \A k \in Lanes : k # l => at[k] = "free" /\ at'[k] = "free"
    BY <1>2 DEF Commit, TypeOK, WriterInv
  <2>2. Committed = nextId - 2 /\ Committed' = nextId - 1
    <3>1. nextId' = nextId
      BY <1>2 DEF Commit
    <3> QED
      BY <2>1, <3>1 DEF Committed
  <2>3. rows' = 1..Committed'
    <3>1. nextId - 1 \in Nat \ {0}
      BY <1>0, <2>1 DEF RowsInv
    <3>2. rows' = 1..(nextId - 2) \cup {nextId - 1}
      BY <1>2, <2>1, <2>2 DEF Commit, WriterInv
    <3>3. 1..(nextId - 1) = 1..(nextId - 2) \cup {nextId - 1}
      BY <1>0, <3>1
    <3> QED
      BY <2>2, <3>2, <3>3
  <2> QED
    BY <1>2, <2>1, <2>3 DEF WriterInv, Commit
<1>3. ASSUME NEW l \in Lanes, Notify(l) PROVE WriterInv'
  <2>1. /\ at[l] = "notify" /\ at'[l] = "free"
        /\ \A k \in Lanes : k # l => at[k] = "free" /\ at'[k] = "free"
    BY <1>3 DEF Notify, TypeOK, WriterInv
  <2>2. Committed = nextId - 1 /\ Committed' = nextId - 1
    <3>1. nextId' = nextId
      BY <1>3 DEF Notify
    <3> QED
      BY <2>1, <3>1 DEF Committed
  <2> QED
    BY <1>3, <2>1, <2>2 DEF WriterInv, Notify
<1>4. CASE RunAgain
  <2>1. ~CloseOnDone /\ UNCHANGED <<rows, nextId, at, holds, endpoint>>
    BY <1>4 DEF RunAgain
  <2> QED
    BY <2>1 DEF WriterInv, Committed
<1>5. CASE UNCHANGED writerVars
  BY <1>5 DEF WriterInv, Committed, writerVars
<1> QED
  BY <1>1, <1>2, <1>3, <1>4, <1>5 DEF Next, NotifyMissed, Crash, Connect, Query, QueryFails,
     Resume, Deliver, Receive, Drop, Finished, vars, writerVars

LEMMA Bounds ==
  ASSUME TypeOK
  PROVE  /\ nextId \in Nat \ {0} /\ Announced \in Int /\ Before \in Int
         /\ Len(inbox) \in Nat /\ Len(pending) \in Nat /\ Len(wire) \in Nat
         /\ Before + Len(pending) = Announced - Len(inbox)
         /\ lastId \in Nat /\ rows \subseteq Nat /\ batch \subseteq Nat
         /\ \A i \in 1..Len(pending) : pending[i] \in Nat
         /\ \A i \in 1..Len(wire) : wire[i] \in Nat
<1> USE StreamAssumption DEF TypeOK, Ids
<1>1. nextId \in Nat \ {0} /\ Len(inbox) \in Nat /\ Len(pending) \in Nat /\ Len(wire) \in Nat
  OBVIOUS
<1>2. Announced \in Int
  BY <1>1 DEF Announced
<1>3. Before \in Int /\ Before + Len(pending) = Announced - Len(inbox)
  BY <1>1, <1>2 DEF Before
<1>4. /\ lastId \in Nat /\ rows \subseteq Nat /\ batch \subseteq Nat
      /\ \A i \in 1..Len(pending) : pending[i] \in Nat
      /\ \A i \in 1..Len(wire) : wire[i] \in Nat
  OBVIOUS
<1> QED
  BY <1>1, <1>2, <1>3, <1>4

(* A buffered notification past the replay's lower bound is drained or was *)
(* replayed.                                                               *)
LEMMA DrainedOrReplayed ==
  ASSUME TypeOK, PendingInv, BatchInv, conn = "rows",
         NEW i \in 1..Len(pending), pending[i] > lastId
  PROVE  pending[i] \in batch \cup Drained
<1>1. SUFFICES ASSUME pending[i] \notin batch PROVE pending[i] \in Drained
  OBVIOUS
<1>2. pending[i] \in Nat /\ lastId \in Nat /\ batch \subseteq Nat /\ Before \in Int /\ Len(pending) \in Nat
  BY Bounds
<1>3. ASSUME NEW r \in batch PROVE r < pending[i]
  <2>1. r \in Nat /\ \A q \in (lastId + 1)..r : q \in batch
    BY <1>2 DEF BatchInv
  <2>2. pending[i] <= r => pending[i] \in (lastId + 1)..r
    BY <1>2, <2>1
  <2> QED
    BY <1>1, <1>2, <2>1, <2>2
<1>4. ASSUME NEW k \in 1..(i - 1) PROVE pending[k] < pending[i]
  <2>1. k \in 1..Len(pending) /\ k < i
    BY <1>2
  <2>2. pending[k] = Before + k /\ pending[i] = Before + i
    BY <2>1 DEF PendingInv
  <2> QED
    BY <1>2, <2>1, <2>2
<1> QED
  BY <1>3, <1>4 DEF Drained

(* Replay and drain reach every row announced before those on their way.   *)
LEMMA ReplayCovers ==
  ASSUME TypeOK, PendingInv, BatchInv, conn = "rows", NEW r \in 1..(Before + Len(pending))
  PROVE  r \in seen \/ r \in batch \cup Drained
<1> USE Bounds
<1>1. CASE r <= lastId
  BY <1>1 DEF PendingInv
<1>2. CASE r > lastId /\ r <= Before
  <2>1. r \in 1..Before
    BY <1>2
  <2> QED
    BY <1>2, <2>1 DEF BatchInv
<1>3. CASE r > lastId /\ r > Before
  <2>1. r - Before \in 1..Len(pending) /\ Before + (r - Before) = r
    BY <1>3
  <2>2. pending[r - Before] = r
    BY <2>1 DEF PendingInv
  <2> QED
    BY <1>3, <2>1, <2>2, DrainedOrReplayed
<1> QED
  BY <1>1, <1>2, <1>3

LEMMA NoHoleBelow ==
  ASSUME TypeOK, PendingInv, BatchInv, conn = "rows",
         NEW w \in batch \cup Drained, NEW r \in 1..(w - 1)
  PROVE  r \in seen \/ r \in batch \cup Drained
<1> USE Bounds
<1>1. CASE w \in batch
  <2>1. w \in Nat /\ \A q \in (lastId + 1)..w : q \in batch
    BY <1>1 DEF BatchInv
  <2>2. r <= lastId => r \in 1..lastId
    OBVIOUS
  <2>3. r > lastId => r \in (lastId + 1)..w
    BY <2>1
  <2>4. r \in 1..lastId => r \in seen
    BY DEF PendingInv
  <2>5. r <= lastId \/ r > lastId
    OBVIOUS
  <2> QED
    BY <2>1, <2>2, <2>3, <2>4, <2>5
<1>2. CASE w \in Drained
  <2>1. PICK i \in 1..Len(pending) : w = pending[i]
    BY <1>2 DEF Drained
  <2>2. w = Before + i
    BY <2>1 DEF PendingInv
  <2>3. r \in 1..(Before + Len(pending))
    BY <2>1, <2>2
  <2> QED
    BY <2>3, ReplayCovers
<1> QED
  BY <1>1, <1>2

LEMMA GapNext ==
  ASSUME TypeOK, FlowInv, CalmInv, [Next]_vars
  PROVE  GapFree'
<1> USE DEF FlowInv, CalmInv
<1>1. CASE Resume
  <2>0. /\ wire' \in Seq(Frames) /\ seen' = seen /\ wire = <<>> /\ conn = "rows"
        /\ \A i, j \in 1..Len(wire') : i < j => wire'[i] < wire'[j]
        /\ \A r \in Frames : InSeq(r, wire')
        /\ \A r \in batch \cup Drained, q \in Frames : r <= q => r \in Frames
        /\ Frames \subseteq batch \cup Drained
    BY <1>1, ResumeFrames DEF Resume, ConnInv, clientVars, InSeq
  <2>1. batch \cup Drained \subseteq Nat
    BY Bounds DEF Drained
  <2>2. ASSUME NEW i \in 1..Len(wire'), NEW r \in 1..(wire'[i] - 1)
        PROVE  r \in seen' \/ \E j \in 1..(i - 1) : wire'[j] = r
    <3>1. wire'[i] \in Frames
      BY <2>0
    <3>2. wire'[i] \in Nat /\ r < wire'[i] /\ r \in Nat
      BY <2>0, <2>1, <3>1
    <3>3. r \in seen \/ r \in batch \cup Drained
      BY <2>0, <3>1, NoHoleBelow
    <3>4. CASE r \in batch \cup Drained
      <4>1. r \in Frames
        BY <2>0, <3>1, <3>2, <3>4
      <4>2. PICK j \in 1..Len(wire') : wire'[j] = r
        BY <2>0, <4>1 DEF InSeq
      <4>3. ~(i < j) /\ i # j
        BY <2>0, <3>2, <4>2
      <4>4. j \in 1..(i - 1)
        BY <4>3
      <4> QED
        BY <4>2, <4>4
    <3> QED
      BY <2>0, <3>3, <3>4
  <2> QED
    BY <2>0, <2>2 DEF GapFree
<1>2. CASE Deliver /\ conn = "live"
  <2>1. /\ wire' = Append(wire, Head(inbox)) /\ seen' = seen /\ inbox # <<>>
        /\ wire \in Seq(rows) /\ inbox \in Seq(rows)
    BY <1>2 DEF Deliver, clientVars, CommittedOnly
  <2>2. Head(inbox) = Announced - Len(inbox) + 1
    <3>1. 1 \in 1..Len(inbox) /\ Head(inbox) = inbox[1]
      BY <2>1, HeadTail
    <3> QED
      BY <1>2, <3>1 DEF InboxInv, Listening
  <2>3. /\ Len(wire') = Len(wire) + 1 /\ wire'[Len(wire) + 1] = Head(inbox)
        /\ \A i \in 1..Len(wire) : wire'[i] = wire[i]
    BY <2>1
  <2>4. ASSUME NEW i \in 1..Len(wire'), NEW r \in 1..(wire'[i] - 1)
        PROVE  r \in seen \/ \E j \in 1..(i - 1) : wire'[j] = r
    <3>1. CASE i \in 1..Len(wire)
      <4>1. r \in seen \/ \E j \in 1..(i - 1) : wire[j] = r
        BY <2>3, <3>1 DEF GapFree
      <4>2. \A j \in 1..(i - 1) : j \in 1..Len(wire)
        BY <3>1, Bounds
      <4> QED
        BY <2>3, <4>1, <4>2
    <3>2. CASE i = Len(wire) + 1
      <4>1. r \in 1..(Announced - Len(inbox))
        BY <2>2, <2>3, <3>2, Bounds
      <4>2. r \in seen \/ InSeq(r, wire)
        BY <1>2, <4>1 DEF LiveInv
      <4>3. 1..Len(wire) = 1..(i - 1)
        BY <3>2, Bounds
      <4> QED
        BY <2>3, <4>2, <4>3 DEF InSeq
    <3> QED
      BY <2>3, <3>1, <3>2, Bounds
  <2> QED
    BY <2>1, <2>4 DEF GapFree
<1>3. CASE Receive
  <2>1. /\ wire # <<>> /\ wire \in Seq(rows) /\ seen' = seen \cup {Head(wire)}
        /\ wire' \in {<<>>, Tail(wire)}
    BY <1>3 DEF Receive, CommittedOnly
  <2>2. /\ Head(wire) = wire[1] /\ Len(wire) \in Nat \ {0} /\ Len(Tail(wire)) = Len(wire) - 1
        /\ \A i \in 1..(Len(wire) - 1) : Tail(wire)[i] = wire[i + 1]
    BY <2>1, HeadTail
  <2>3. \A r \in 1..(Head(wire) - 1) : r \in seen
    BY <2>2 DEF GapFree
  <2>4. \A r \in seen' : 1..r \subseteq seen'
    <3>1. Head(wire) \in Nat
      BY <2>2, Bounds
    <3>2. 1..Head(wire) \subseteq seen'
      BY <2>1, <2>3, <3>1
    <3> QED
      BY <2>1, <3>2 DEF GapFree
  <2>5. ASSUME NEW i \in 1..Len(Tail(wire)), NEW r \in 1..(Tail(wire)[i] - 1), r \notin seen'
        PROVE  \E j \in 1..(i - 1) : Tail(wire)[j] = r
    <3>1. i + 1 \in 1..Len(wire) /\ r \in 1..(wire[i + 1] - 1)
      BY <2>2
    <3>2. PICK j \in 1..i : wire[j] = r
      BY <2>1, <2>5, <3>1 DEF GapFree
    <3>3. j # 1
      BY <2>1, <2>2, <2>5, <3>2
    <3>4. j - 1 \in 1..(i - 1) /\ j - 1 \in 1..(Len(wire) - 1) /\ (j - 1) + 1 = j
      BY <2>2, <3>1, <3>3
    <3> QED
      BY <2>2, <3>2, <3>4
  <2>6. wire' = <<>> => \A i \in 1..Len(wire') : FALSE
    OBVIOUS
  <2> QED
    BY <2>1, <2>4, <2>5, <2>6 DEF GapFree
<1>4. CASE wire' \in {wire, <<>>} /\ seen' = seen
  <2>1. wire' = <<>> => \A i \in 1..Len(wire') : FALSE
    OBVIOUS
  <2> QED
    BY <1>4, <2>1 DEF GapFree
<1>5. Writes => wire' = wire /\ seen' = seen
  BY WriterFrame DEF clientVars
<1>6. Connect \/ Query \/ QueryFails \/ Drop \/ Finished \/ UNCHANGED vars \/ (Deliver /\ conn # "live")
      => wire' \in {wire, <<>>} /\ seen' = seen
  BY DEF Connect, Query, QueryFails, Drop, Finished, Deliver, clientVars, vars
<1> QED
  BY NextCases, <1>1, <1>2, <1>3, <1>4, <1>5, <1>6

(* A calm write announces at most the next id.                             *)
LEMMA Announces ==
  ASSUME TypeOK, WriterInv, Writes, calm'
  PROVE  \/ Announced' = Announced /\ inbox' = inbox
         \/ /\ Announced' = Announced + 1
            /\ inbox' = IF Listening THEN Append(inbox, Announced + 1) ELSE inbox
<1>0. nextId \in Nat \ {0}
  BY Bounds
<1>1. ASSUME NEW l \in Lanes, Insert(l) \/ InsertDone(l) PROVE Announced' = Announced /\ inbox' = inbox
  <2>1. Idle /\ nextId' = nextId + 1 /\ inbox' = inbox
    BY <1>1 DEF Insert, InsertDone, TakeId
  <2>2. at'[l] # "free"
    BY <1>1 DEF Insert, InsertDone, TakeId, TypeOK
  <2>3. ~Idle'
    BY <2>2 DEF Idle
  <2> QED
    BY <1>0, <2>1, <2>3 DEF Announced
<1>2. ASSUME NEW l \in Lanes, Commit(l) PROVE Announced' = Announced /\ inbox' = inbox
  <2>1. at[l] # "free" /\ at'[l] # "free" /\ nextId' = nextId /\ inbox' = inbox
    BY <1>2 DEF Commit, TypeOK
  <2>2. ~Idle /\ ~Idle'
    BY <2>1 DEF Idle
  <2> QED
    BY <2>1, <2>2 DEF Announced
<1>3. ASSUME NEW l \in Lanes, Notify(l)
      PROVE  /\ Announced' = Announced + 1
             /\ inbox' = IF Listening THEN Append(inbox, Announced + 1) ELSE inbox
  <2>1. at[l] # "free" /\ nextId' = nextId /\ holds[l] = nextId - 1
    BY <1>3 DEF Notify, WriterInv
  <2>2. \A k \in Lanes : at'[k] = "free"
    BY <1>3, <2>1 DEF Notify, TypeOK, WriterInv
  <2>3. ~Idle /\ Idle'
    BY <2>1, <2>2 DEF Idle
  <2>4. Announced = nextId - 2 /\ Announced' = nextId - 1 /\ Announced + 1 = nextId - 1
    BY <1>0, <2>1, <2>3 DEF Announced
  <2> QED
    BY <1>3, <2>1, <2>4 DEF Notify
<1>4. CASE RunAgain
  BY <1>4 DEF RunAgain, Announced, Idle
<1> QED
  BY <1>1, <1>2, <1>3, <1>4 DEF Writes, NotifyMissed, Crash

LEMMA QueueWriter ==
  ASSUME TypeOK, FlowInv, CalmInv, Writes, calm'
  PROVE  InboxInv' /\ PendingInv' /\ BatchInv' /\ LiveInv'
<1> USE Bounds DEF CalmInv
<1>0. /\ conn' = conn /\ pending' = pending /\ batch' = batch /\ lastId' = lastId
      /\ wire' = wire /\ seen' = seen /\ Listening' = Listening
  BY WriterFrame DEF FlowInv, handlerVars, clientVars, Listening
<1>1. CASE Announced' = Announced /\ inbox' = inbox
  <2>1. Before' = Before
    BY <1>0, <1>1 DEF Before
  <2> QED
    BY <1>0, <1>1, <2>1 DEF InboxInv, PendingInv, BatchInv, LiveInv, InSeq
<1>2. CASE Listening /\ Announced' = Announced + 1 /\ inbox' = Append(inbox, Announced + 1)
  <2>1. /\ Len(inbox') = Len(inbox) + 1 /\ inbox'[Len(inbox) + 1] = Announced + 1
        /\ \A i \in 1..Len(inbox) : inbox'[i] = inbox[i]
    BY <1>2 DEF TypeOK
  <2>2. Announced' - Len(inbox') = Announced - Len(inbox)
    BY <1>2, <2>1
  <2>3. Before' = Before
    BY <1>0, <2>2 DEF Before
  <2>4. ASSUME NEW i \in 1..Len(inbox') PROVE inbox'[i] = Announced' - Len(inbox') + i
    <3>1. CASE i \in 1..Len(inbox)
      BY <1>2, <2>1, <2>2, <3>1 DEF InboxInv
    <3>2. CASE i = Len(inbox) + 1
      BY <2>1, <2>2, <3>2
    <3> QED
      BY <2>1, <3>1, <3>2
  <2> QED
    BY <1>0, <2>2, <2>3, <2>4 DEF InboxInv, PendingInv, BatchInv, LiveInv, InSeq
<1>3. CASE ~Listening /\ inbox' = inbox
  BY <1>0, <1>3 DEF InboxInv, PendingInv, BatchInv, LiveInv, Listening
<1> QED
  BY <1>1, <1>2, <1>3, Announces

LEMMA QueueDeliver ==
  ASSUME TypeOK, FlowInv, CalmInv, Deliver
  PROVE  InboxInv' /\ PendingInv' /\ BatchInv' /\ LiveInv'
<1> USE Bounds DEF CalmInv, FlowInv
<1> DEFINE h == Head(inbox)
<1>0. /\ Listening /\ inbox # <<>> /\ inbox' = Tail(inbox) /\ Announced' = Announced
      /\ seen' = seen /\ batch' = batch /\ lastId' = lastId
      /\ inbox \in Seq(rows) /\ wire \in Seq(rows) /\ pending \in Seq(rows)
      /\ (conn = "live" => wire' = Append(wire, h) /\ pending' = pending
                           /\ conn' \in {"live", "closed"})
      /\ (conn # "live" => wire' = wire /\ pending' = Append(pending, h) /\ conn' = conn)
  BY DEF Deliver, CommittedOnly, Announced, Idle, writerVars, clientVars
<1>1. /\ Len(inbox') = Len(inbox) - 1 /\ Len(inbox) \in Nat \ {0} /\ h = inbox[1]
      /\ \A i \in 1..(Len(inbox) - 1) : inbox'[i] = inbox[i + 1]
  BY <1>0, HeadTail
<1>2. h = Announced - Len(inbox) + 1
  BY <1>0, <1>1 DEF InboxInv
<1> HIDE DEF h
<1>3. ASSUME NEW i \in 1..Len(inbox') PROVE inbox'[i] = Announced' - Len(inbox') + i
  <2>1. i + 1 \in 1..Len(inbox) /\ inbox'[i] = inbox[i + 1]
    BY <1>1
  <2>2. inbox[i + 1] = Announced - Len(inbox) + (i + 1)
    BY <1>0, <2>1 DEF InboxInv
  <2> QED
    BY <1>0, <1>1, <2>1, <2>2
<1>4. CASE conn = "live"
  <2>1. ASSUME conn' = "live", NEW r \in 1..(Announced' - Len(inbox')) PROVE r \in seen \/ InSeq(r, wire')
    <3>1. r \in 1..(Announced - Len(inbox)) \/ r = h
      BY <1>0, <1>1, <1>2
    <3>2. InSeq(h, wire') /\ \A y : InSeq(y, wire) => InSeq(y, wire')
      BY <1>0, <1>4, InAppend
    <3> QED
      BY <1>4, <3>1, <3>2 DEF LiveInv
  <2> QED
    BY <1>0, <1>3, <1>4, <2>1 DEF InboxInv, PendingInv, BatchInv, LiveInv, InSeq
<1>5. CASE conn # "live"
  <2>0. conn' = conn /\ conn \in {"listen", "rows"}
    BY <1>0, <1>5 DEF Listening
  <2>1. /\ Len(pending') = Len(pending) + 1 /\ pending'[Len(pending) + 1] = h
        /\ \A i \in 1..Len(pending) : pending'[i] = pending[i]
    <3>1. pending' = Append(pending, h) /\ pending \in Seq(rows)
      BY <1>0, <1>5
    <3> QED
      BY <3>1
  <2>2. Before' = Before
    <3>1. Before' = Announced' - Len(inbox') - Len(pending')
      BY DEF Before
    <3>2. Announced - (Len(inbox) - 1) - (Len(pending) + 1) = Announced - Len(inbox) - Len(pending)
      OBVIOUS
    <3> QED
      BY <1>0, <1>1, <2>1, <3>1, <3>2 DEF Before
  <2>3. ASSUME NEW i \in 1..Len(pending') PROVE pending'[i] = Before' + i
    <3>1. CASE i \in 1..Len(pending)
      BY <2>0, <2>1, <2>2, <3>1 DEF PendingInv
    <3>2. CASE i = Len(pending) + 1
      BY <1>2, <2>1, <2>2, <3>2
    <3> QED
      BY <2>1, <3>1, <3>2
  <2> QED
    BY <1>0, <1>3, <2>0, <2>2, <2>3 DEF InboxInv, PendingInv, BatchInv, LiveInv
<1> QED
  BY <1>4, <1>5

LEMMA QueueResume ==
  ASSUME TypeOK, FlowInv, CalmInv, Resume
  PROVE  InboxInv' /\ PendingInv' /\ BatchInv' /\ LiveInv'
<1> USE Bounds DEF CalmInv, FlowInv
<1>1. /\ conn = "rows" /\ conn' \in {"closed", "live"} /\ inbox' = inbox /\ seen' = seen
      /\ Announced' = Announced
  BY DEF Resume, Announced, Idle, writerVars, clientVars
<1>2. ASSUME conn' = "live", NEW r \in 1..(Announced - Len(inbox)) PROVE r \in seen \/ InSeq(r, wire')
  <2>1. r \in 1..(Before + Len(pending))
    OBVIOUS
  <2>2. r \in seen \/ r \in batch \cup Drained
    BY <1>1, <2>1, ReplayCovers
  <2> QED
    BY <1>2, <2>2, ResumeFrames DEF InSeq
<1> QED
  BY <1>1, <1>2 DEF InboxInv, PendingInv, BatchInv, LiveInv, InSeq, Listening

LEMMA QueueReceive ==
  ASSUME TypeOK, FlowInv, CalmInv, Receive
  PROVE  InboxInv' /\ PendingInv' /\ BatchInv' /\ LiveInv'
<1> USE Bounds DEF CalmInv, FlowInv
<1>1. /\ wire # <<>> /\ wire \in Seq(rows) /\ conn \notin {"listen", "rows"}
      /\ seen' = seen \cup {Head(wire)} /\ Announced' = Announced
      /\ \/ conn' = "off"
         \/ conn' = conn /\ wire' = Tail(wire) /\ inbox' = inbox
  BY DEF Receive, CommittedOnly, ConnInv, Announced, Idle, writerVars
<1>2. \A r : InSeq(r, wire) => r = Head(wire) \/ InSeq(r, Tail(wire))
  BY <1>1, InTail
<1> QED
  BY <1>1, <1>2 DEF InboxInv, PendingInv, BatchInv, LiveInv, InSeq, Listening

LEMMA QueueConnect ==
  ASSUME TypeOK, FlowInv, CalmInv, calm',
         Connect \/ Query \/ QueryFails \/ Drop \/ Finished \/ UNCHANGED vars
  PROVE  InboxInv' /\ PendingInv' /\ BatchInv' /\ LiveInv'
<1> USE Bounds DEF CalmInv, FlowInv
<1>1. CASE Connect
  <2>1. /\ conn' = "listen" /\ inbox' = <<>> /\ pending' = <<>> /\ seen' = seen
        /\ lastId' \in {0, lastEvent}
    BY <1>1 DEF Connect, ReplayFrom
  <2>2. 1..lastId' \subseteq seen
    <3>1. lastEvent \in seen => 1..lastEvent \subseteq seen
      BY DEF GapFree
    <3>2. 1..0 = {}
      OBVIOUS
    <3> QED
      BY <2>1, <3>1, <3>2 DEF CommittedOnly
  <2>3. (\A i \in 1..Len(inbox') : FALSE) /\ (\A i \in 1..Len(pending') : FALSE)
    BY <2>1
  <2> QED
    BY <2>1, <2>2, <2>3 DEF InboxInv, PendingInv, BatchInv, LiveInv
<1>2. CASE Query
  <2>1. /\ conn = "listen" /\ conn' = "rows" /\ batch' = {r \in rows : r > lastId}
        /\ UNCHANGED <<inbox, pending, lastId, wire, seen>>
        /\ Announced' = Announced
    BY <1>2 DEF Query, Announced, Idle, writerVars, clientVars
  <2>2. Before' = Before
    BY <2>1 DEF Before
  <2>3. rows = 1..Committed /\ Committed \in Int /\ Before <= Committed
    <3>1. Announced <= Committed /\ Committed \in Int
      BY DEF Announced, Committed, Idle
    <3>2. Before <= Announced
      BY DEF Before
    <3> QED
      BY <3>1, <3>2 DEF WriterInv
  <2>4. \A r \in batch' : r > lastId /\ \A q \in (lastId + 1)..r : q \in batch'
    BY <2>1, <2>3
  <2>5. \A r \in 1..Before : r > lastId => r \in batch'
    BY <2>1, <2>3
  <2> QED
    BY <2>1, <2>2, <2>4, <2>5 DEF InboxInv, PendingInv, BatchInv, LiveInv, Listening
<1>3. CASE QueryFails
  BY <1>3 DEF QueryFails
<1>4. CASE Drop
  BY <1>4 DEF Drop, InboxInv, PendingInv, BatchInv, LiveInv, Listening
<1>5. CASE Finished \/ UNCHANGED vars
  BY <1>5 DEF Finished, vars, InboxInv, PendingInv, BatchInv, LiveInv, Listening, Before,
     Announced, Idle, InSeq
<1> QED
  BY <1>1, <1>2, <1>3, <1>4, <1>5

(* The client closes at the last row of a task, when none is missing.      *)
LEMMA DoneNext ==
  ASSUME TypeOK, FlowInv, CalmInv, [Next]_vars, calm'
  PROVE  DoneInv'
<1> USE Bounds DEF CalmInv, FlowInv
<1>1. CASE Receive
  <2> DEFINE r == Head(wire)
  <2>0. wire # <<>> /\ wire \in Seq(rows) /\ panel = "open" /\ seen' = seen \cup {r}
        /\ rows' = rows /\ at' = at /\ exec' = exec /\ endpoint' = endpoint
        /\ (panel' = "done" => CloseOnDone /\ r \in ends)
    BY <1>1 DEF Receive, CommittedOnly, writerVars
  <2>1. SUFFICES ASSUME panel' = "done"
                 PROVE  CloseOnDone /\ exec = "closing" /\ rows \subseteq seen'
                        /\ \A l \in Lanes : at[l] # "commit"
    BY <2>0 DEF DoneInv, CloseOnDone
  <2>2. CloseOnDone /\ exec = "closing" /\ r = nextId - 1
    BY <2>0, <2>1 DEF WriterInv, TypeOK
  <2>3. r \in rows /\ r = wire[1] /\ 1 \in 1..Len(wire)
    BY <2>0, HeadTail
  <2> HIDE DEF r
  <2>4. Committed = nextId - 1
    BY <2>2, <2>3 DEF WriterInv, Committed
  <2>5. \A l \in Lanes : at[l] # "commit"
    BY <2>4 DEF Committed
  <2>6. \A q \in 1..(r - 1) : q \in seen
    BY <2>3 DEF GapFree
  <2>7. rows \subseteq seen'
    BY <2>0, <2>2, <2>4, <2>6 DEF WriterInv
  <2> QED
    BY <2>2, <2>5, <2>7
<1>2. CASE Writes
  <2>1. panel' = panel /\ seen' = seen /\ endpoint' = endpoint
    BY <1>2, WriterFrame DEF clientVars
  <2>2. SUFFICES ASSUME panel = "done"
                 PROVE  exec' = "closing" /\ rows' = rows /\ \A l \in Lanes : at'[l] # "commit"
    BY <2>1 DEF DoneInv, CloseOnDone
  <2>3. CloseOnDone /\ exec = "closing" /\ \A l \in Lanes : at[l] # "commit"
    BY <2>2 DEF DoneInv
  <2>4. PICK l \in Lanes : Notify(l)
    BY <1>2, <2>3 DEF Writes, Insert, InsertDone, Commit, NotifyMissed, Crash, RunAgain
  <2> QED
    BY <2>3, <2>4 DEF Notify, TypeOK
<1>3. CASE Resume \/ Deliver \/ Query \/ QueryFails \/ Finished \/ UNCHANGED vars
  BY <1>3 DEF DoneInv, CloseOnDone, Resume, Deliver, Query, QueryFails, Finished,
     writerVars, clientVars, vars
<1>4. CASE Connect \/ Drop
  BY <1>4 DEF DoneInv, Connect, Drop
<1> QED
  BY NextCases, <1>1, <1>2, <1>3, <1>4

THEOREM StreamInvHolds == Spec => []StreamInv
<1>1. StreamInv /\ [Next]_vars => StreamInv'
  <2> SUFFICES ASSUME StreamInv, [Next]_vars PROVE StreamInv'
    OBVIOUS
  <2>1. TypeOK' /\ FlowInv'
    BY TypeNext, FlowNext DEF StreamInv, FlowInv
  <2>2. ASSUME calm' PROVE CalmInv'
    <3>1. calm
      BY <2>2 DEF Next, Insert, InsertDone, Commit, Notify, NotifyMissed, Crash, RunAgain,
         Connect, Query, QueryFails, Resume, Deliver, Receive, Drop, Finished, vars
    <3>2. CalmInv
      BY <3>1 DEF StreamInv
    <3>3. WriterInv' /\ GapFree' /\ DoneInv'
      BY <2>2, <3>2, WriterNext, GapNext, DoneNext DEF StreamInv, FlowInv, CalmInv
    <3>4. InboxInv' /\ PendingInv' /\ BatchInv' /\ LiveInv'
      BY <2>2, <3>2, NextCases, QueueWriter, QueueDeliver, QueueResume, QueueReceive,
         QueueConnect DEF StreamInv
    <3> QED
      BY <3>3, <3>4 DEF CalmInv
  <2> QED
    BY <2>1, <2>2 DEF StreamInv
<1> QED
  BY StreamInit, <1>1, PTL DEF Spec

(* Types, for every number of lanes, rows, runs and drops.                 *)
THEOREM StreamTypeCorrect == Spec => []TypeOK
<1>1. StreamInv => TypeOK
  BY DEF StreamInv
<1> QED
  BY <1>1, StreamInvHolds, PTL

(* Whatever notifications were lost, what the last replay found has been   *)
(* shown once the stream is live and the wire is empty.                    *)
THEOREM ReplayReachesHolds == Spec => []ReplayReaches
<1>1. StreamInv => ReplayReaches
  <2> SUFFICES ASSUME StreamInv, conn = "live", wire = <<>> PROVE batch \subseteq seen
    BY DEF ReplayReaches
  <2>1. \A r : ~InSeq(r, wire)
    BY DEF InSeq
  <2> QED
    BY <2>1 DEF StreamInv, FlowInv, BatchOnWire
<1> QED
  BY <1>1, StreamInvHolds, PTL

(* A panel that says done shows every line written before, as long as all  *)
(* went undisturbed.                                                       *)
THEOREM DoneIsCompleteHolds == Spec => []DoneIsComplete
<1>1. StreamInv => DoneIsComplete
  BY DEF StreamInv, FlowInv, CalmInv, DoneInv, SeenShown, InSeq, DoneIsComplete
<1> QED
  BY <1>1, StreamInvHolds, PTL

-----------------------------------------------------------------------------
(* The reader's log.                                                       *)

LEMMA WriteStep ==
  ASSUME lines' = lines, calm' \in {calm, FALSE},
         NEW S \in SUBSET (Ids \ (rows \ ends)),
         rows' \ ends' = (rows \ ends) \cup S,
         calm => \A r \in S, w \in rows \ ends : w < r
  PROVE  Log!Write
BY DEF Log!Write

LEMMA WriteNothing ==
  ASSUME lines' = lines, calm' \in {calm, FALSE}, rows' \ ends' = rows \ ends
  PROVE  Log!Write
<1> DEFINE S == {}
<1>1. S \in SUBSET (Ids \ (rows \ ends)) /\ rows' \ ends' = (rows \ ends) \cup S
  OBVIOUS
<1> QED
  BY <1>1, WriteStep

LEMMA LogWrites ==
  ASSUME StreamInv, Writes
  PROVE  Log!Write
<1> USE StreamAssumption, Bounds DEF StreamInv, FlowInv, CalmInv, Ids
<1>0. lines' = lines
  BY WriterFrame DEF clientVars
<1>1. ASSUME NEW l \in Lanes, Insert(l) \/ InsertDone(l) PROVE Log!Write
  <2>1. rows' = rows /\ ends' \in {ends, ends \cup {nextId}} /\ calm' \in {calm, FALSE}
    BY <1>1 DEF Insert, InsertDone, TypeOK
  <2>2. nextId \notin rows
    BY DEF RowsInv
  <2>3. rows' \ ends' = rows \ ends
    BY <2>1, <2>2
  <2> QED
    BY <1>0, <2>1, <2>3, WriteNothing
<1>2. ASSUME NEW l \in Lanes, Commit(l) PROVE Log!Write
  <2> DEFINE S == {holds[l]} \ (rows \cup ends)
  <2>1. rows' \ ends' = (rows \ ends) \cup S /\ calm' = calm
    BY <1>2 DEF Commit
  <2>2. holds[l] \in Ids
    BY <1>2 DEF Commit, RowsInv, TypeOK
  <2>3. calm => \A w \in rows : w < holds[l]
    <3>1. calm => holds[l] = nextId - 1 /\ Committed = nextId - 2
      BY <1>2 DEF Commit, WriterInv, Committed
    <3> QED
      BY <3>1 DEF WriterInv
  <2>4. S \in SUBSET (Ids \ (rows \ ends)) /\ (calm => \A r \in S, w \in rows \ ends : w < r)
    BY <2>2, <2>3
  <2>5. calm' \in {calm, FALSE}
    BY <2>1
  <2> HIDE DEF S
  <2> QED
    BY <1>0, <2>1, <2>4, <2>5, WriteStep
<1>3. CASE Crash
  <2>1. PICK C \in SUBSET {l \in Lanes : at[l] = "commit"} :
          rows' = rows \cup {holds[l] : l \in C}
    BY <1>3 DEF Crash
  <2> DEFINE S == {holds[l] : l \in C} \ (rows \cup ends)
  <2>2. rows' \ ends' = (rows \ ends) \cup S /\ calm' = FALSE
    BY <1>3, <2>1 DEF Crash
  <2>3. \A l \in C : holds[l] \in Ids
    BY DEF RowsInv, TypeOK
  <2>4. calm => \A l \in C, w \in rows : w < holds[l]
    <3> SUFFICES ASSUME calm, NEW l \in C, NEW w \in rows PROVE w < holds[l]
      OBVIOUS
    <3>1. holds[l] = nextId - 1 /\ Committed = nextId - 2
      BY DEF WriterInv, Committed
    <3> QED
      BY <3>1 DEF WriterInv
  <2>5. S \in SUBSET (Ids \ (rows \ ends)) /\ (calm => \A r \in S, w \in rows \ ends : w < r)
    BY <2>3, <2>4
  <2>6. calm' \in {calm, FALSE}
    BY <2>2
  <2> HIDE DEF S
  <2> QED
    BY <1>0, <2>2, <2>5, <2>6, WriteStep
<1>4. ASSUME NEW l \in Lanes, Notify(l) \/ NotifyMissed(l) PROVE Log!Write
  <2>1. rows' \ ends' = rows \ ends /\ calm' \in {calm, FALSE}
    BY <1>4 DEF Notify, NotifyMissed
  <2> QED
    BY <1>0, <2>1, WriteNothing
<1>5. CASE RunAgain
  <2>1. rows' \ ends' = rows \ ends /\ calm' \in {calm, FALSE}
    BY <1>5 DEF RunAgain, TypeOK
  <2> QED
    BY <1>0, <2>1, WriteNothing
<1> QED
  BY <1>1, <1>2, <1>3, <1>4, <1>5 DEF Writes

LEMMA LogReceive ==
  ASSUME Panel, StreamInv, PanelInv, Receive
  PROVE  Log!Show \/ UNCHANGED Log!vars
<1> USE DEF StreamInv, FlowInv, CalmInv
<1> DEFINE r == Head(wire)
<1>0. /\ wire # <<>> /\ wire \in Seq(rows) /\ rows' = rows /\ ends' = ends /\ calm' = calm
      /\ lines' = IF Known(r) \/ r \in ends THEN lines ELSE Append(lines, r)
  BY DEF Receive, CommittedOnly, writerVars
<1>1. CASE Known(r) \/ r \in ends
  BY <1>0, <1>1 DEF Log!vars
<1>2. CASE ~Known(r) /\ r \notin ends
  <2>1. r \in rows /\ r = wire[1] /\ 1 \in 1..Len(wire) /\ r \notin seen
    BY <1>0, <1>2, HeadTail DEF Known
  <2> HIDE DEF r
  <2>2. \A q \in Log!Shown : q \in seen
    BY DEF Log!Shown, CommittedOnly
  <2>3. ASSUME calm, NEW w \in (rows \ ends) \ Log!Shown PROVE r <= w
    <3>1. w \notin seen
      BY DEF SeenShown, InSeq, Log!Shown
    <3>2. \A q \in 1..(r - 1) : q \in seen
      BY <2>1, <2>3 DEF GapFree
    <3>3. r \in Nat /\ w \in 1..MaxRows
      BY <2>1, Bounds DEF TypeOK, Ids
    <3> QED
      BY <3>1, <3>2, <3>3
  <2>4. r \in (rows \ ends) \ Log!Shown
    BY <1>2, <2>1, <2>2
  <2>5. lines' = Append(lines, r) /\ rows' \ ends' = rows \ ends /\ calm' = calm
    BY <1>0, <1>2
  <2> QED
    BY <2>3, <2>4, <2>5 DEF Log!Show
<1> QED
  BY <1>1, <1>2

(* The panel implements the reader's log: whatever is lost, overlaps or    *)
(* breaks, it shows written lines only and none twice; and as long as the  *)
(* stream is calm, in their order and without a hole.                      *)
THEOREM LogImplemented == Panel => (Spec => Log!Spec)
<1> SUFFICES ASSUME Panel PROVE Spec => Log!Spec
  OBVIOUS
<1>1. Init => Log!Init
  BY DEF Init, Log!Init
<1>2. StreamInv /\ PanelInv /\ [Next]_vars => [Log!Next]_(Log!vars)
  <2> SUFFICES ASSUME StreamInv, PanelInv, [Next]_vars
               PROVE  [Log!Next]_(Log!vars)
    OBVIOUS
  <2>1. CASE Writes
    BY <2>1, LogWrites DEF Log!Next
  <2>2. CASE Receive
    BY <2>2, LogReceive DEF Log!Next
  <2>3. ASSUME calm' # calm, QueryFails PROVE Log!Next
    <3>1. lines' = lines /\ calm' \in {calm, FALSE} /\ rows' \ ends' = rows \ ends
      BY <2>3 DEF QueryFails, writerVars, clientVars
    <3> QED
      BY <3>1, WriteNothing DEF Log!Next
  <2>4. CASE Resume \/ Deliver \/ Connect \/ Query \/ Drop \/ Finished \/ UNCHANGED vars
    BY <2>4 DEF Resume, Deliver, Connect, Query, Drop, Finished, vars, writerVars, clientVars,
       Log!vars
  <2>5. CASE QueryFails /\ calm' = calm
    BY <2>5 DEF QueryFails, writerVars, clientVars, Log!vars
  <2> QED
    BY NextCases, <2>1, <2>2, <2>3, <2>4, <2>5
<1> QED
  BY <1>1, <1>2, StreamInvHolds, PanelInvHolds, PTL DEF Spec, Log!Spec
===============================================================================
