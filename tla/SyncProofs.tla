----------------------------- MODULE SyncProofs -----------------------------
(***************************************************************************)
(* For every number of devices and items, every page limit and number of   *)
(* attempts, and every bound of the model: no cursor passes a row that was *)
(* not merged; and, where VersionsStay, a confirmed write is durable and   *)
(* the engine implements Replication.                                      *)
(***************************************************************************)
EXTENDS Sync, FiniteFacts

-----------------------------------------------------------------------------
(***************************************************************************)
(* Sealing, merging and stamping.                                          *)
(***************************************************************************)
\* At most one envelope of the server and three of every device are live.
LEMMA LiveIsSmall ==
  ASSUME NEW i \in Item
  PROVE  IsFiniteSet(Live(i)) /\ Cardinality(Live(i)) <= 1 + 3 * Cardinality(Device)
<1> DEFINE A == [d \in Device |-> vault[d][i]]
           B == [d \in Device |-> state[d].known[i].fp]
           C == [d \in Device |-> saved[d].known[i].fp]
           IA == {A[d] : d \in Device}
           IB == {B[d] : d \in Device}
           IC == {C[d] : d \in Device}
           R == {rows[i].envelope}
<1>1. Live(i) \in SUBSET (((R \cup IA) \cup IB) \cup IC)
  BY DEF Live
<1>2. /\ IsFiniteSet(R) /\ Cardinality(R) = 1
      /\ IsFiniteSet(Device) /\ Cardinality(Device) \in Nat
  BY FS_Singleton, FS_CardinalityType, SyncAssumption
<1>3. /\ IsFiniteSet(IA) /\ Cardinality(IA) <= Cardinality(Device)
      /\ IsFiniteSet(IB) /\ Cardinality(IB) <= Cardinality(Device)
      /\ IsFiniteSet(IC) /\ Cardinality(IC) <= Cardinality(Device)
  <2> HIDE DEF A, B, C
  <2>. QED
    BY <1>2, ImageBound
<1> HIDE DEF IA, IB, IC, R
<1>4. \A S, T : IsFiniteSet(S) /\ IsFiniteSet(T) =>
        IsFiniteSet(S \cup T) /\ Cardinality(S \cup T) <= Cardinality(S) + Cardinality(T)
  <2>1. ASSUME NEW S, NEW T, IsFiniteSet(S), IsFiniteSet(T)
        PROVE  IsFiniteSet(S \cup T) /\ Cardinality(S \cup T) <= Cardinality(S) + Cardinality(T)
    <3>1. IsFiniteSet(S \cap T)
      BY <2>1, FS_Subset
    <3>2. Cardinality(S) \in Nat /\ Cardinality(T) \in Nat /\ Cardinality(S \cap T) \in Nat
      BY <2>1, <3>1, FS_CardinalityType
    <3>3. /\ IsFiniteSet(S \cup T)
          /\ Cardinality(S \cup T) = Cardinality(S) + Cardinality(T) - Cardinality(S \cap T)
      BY <2>1, FS_Union, Zenon
    <3>. QED
      BY <3>2, <3>3
  <2>. QED
    BY <2>1
<1>5. /\ IsFiniteSet(((R \cup IA) \cup IB) \cup IC)
      /\ Cardinality(((R \cup IA) \cup IB) \cup IC) <=
           ((Cardinality(R) + Cardinality(IA)) + Cardinality(IB)) + Cardinality(IC)
  <2>1. IsFiniteSet(R \cup IA) /\ Cardinality(R \cup IA) <= Cardinality(R) + Cardinality(IA)
    BY <1>2, <1>3, <1>4
  <2>2. /\ IsFiniteSet((R \cup IA) \cup IB)
        /\ Cardinality((R \cup IA) \cup IB) <= Cardinality(R \cup IA) + Cardinality(IB)
    BY <1>3, <1>4, <2>1
  <2>3. /\ IsFiniteSet(((R \cup IA) \cup IB) \cup IC)
        /\ Cardinality(((R \cup IA) \cup IB) \cup IC)
             <= Cardinality((R \cup IA) \cup IB) + Cardinality(IC)
    BY <1>3, <1>4, <2>2
  <2>4. /\ Cardinality(R \cup IA) \in Nat /\ Cardinality((R \cup IA) \cup IB) \in Nat
        /\ Cardinality(((R \cup IA) \cup IB) \cup IC) \in Nat
        /\ Cardinality(IA) \in Nat /\ Cardinality(IB) \in Nat /\ Cardinality(IC) \in Nat
    BY <1>3, <2>1, <2>2, <2>3, FS_CardinalityType
  <2>. QED
    BY <1>2, <2>1, <2>2, <2>3, <2>4
<1>6. /\ IsFiniteSet(Live(i)) /\ Cardinality(Live(i)) \in Nat
      /\ Cardinality(Live(i)) <= Cardinality(((R \cup IA) \cup IB) \cup IC)
      /\ Cardinality(((R \cup IA) \cup IB) \cup IC) \in Nat
  BY <1>1, <1>5, FS_Subset, FS_CardinalityType
<1>7. Cardinality(IA) \in Nat /\ Cardinality(IB) \in Nat /\ Cardinality(IC) \in Nat
  BY <1>3, FS_CardinalityType
<1>. QED
  BY <1>2, <1>3, <1>5, <1>6, <1>7

\* So a value can always be sealed anew, and the envelope holds that value.
LEMMA SealHolds ==
  ASSUME NEW d \in Device, NEW i \in Item, NEW v \in SUBSET Writes
  PROVE  Seal(d, i, v) \in Envelope /\ Seal(d, i, v).value = v
<1> DEFINE E(n) == [value |-> v, by |-> d, n |-> n]
           M == 0 .. MaxSeals
           Free == {n \in M : E(n) \notin Live(i)}
           f == [n \in M |-> E(n)]
           Good(n) == E(n) \notin Live(i) /\ \A m \in 0 .. n - 1 : E(m) \in Live(i)
<1>1. IsFiniteSet(M) /\ Cardinality(M) = MaxSeals + 1 /\ MaxSeals \in Nat
  BY FS_Interval, SyncAssumption
<1>2. Free # {}
  <2>1. SUFFICES ASSUME Free = {} PROVE FALSE
    OBVIOUS
  <2>2. f \in Injection(M, Live(i))
    BY <2>1 DEF Injection, IsInjective
  <2>3. Cardinality(M) <= Cardinality(Live(i)) /\ IsFiniteSet(Live(i))
    <3> HIDE DEF f, M
    <3>. QED
      BY <2>2, LiveIsSmall, FS_Injection
  <2>4. Cardinality(Live(i)) <= 1 + 3 * Cardinality(Device)
    BY LiveIsSmall
  <2>5. Cardinality(Device) \in Nat /\ Cardinality(Live(i)) \in Nat
    BY <2>3, FS_CardinalityType, SyncAssumption
  <2>. QED
    BY <1>1, <2>3, <2>4, <2>5, SyncAssumption
<1>3. Free \subseteq Nat /\ IsFiniteSet(Free)
  <2>1. Free \in SUBSET M /\ M \subseteq Nat
    BY <1>1
  <2> HIDE DEF Free, M
  <2>. QED
    BY <1>1, <2>1, FS_Subset
<1>4. PICK k \in Free : \A x \in Free : k <= x
  <2> HIDE DEF Free
  <2>. QED
    BY <1>2, <1>3, MinOfFinite
<1>5. k \in M /\ Good(k)
  BY <1>1, <1>4
<1>6. PICK n \in M : n = CHOOSE x \in M : Good(x)
  <2> HIDE DEF Good, M
  <2>. QED
    BY <1>5
<1>7. Seal(d, i, v) = E(n)
  BY <1>6 DEF Seal
<1>. QED
  BY <1>6, <1>7 DEF Envelope

\* What Merged stores: all the device had, and all that came.
LEMMA MergedHolds ==
  ASSUME TypeOK, NEW d \in Device, NEW i \in Item, NEW e \in Envelope
  PROVE  /\ Merged(d, i, e) \in Envelope
         /\ Merged(d, i, e).value = Value(vault[d][i]) \cup e.value
<1>1. e.value \in SUBSET Writes /\ Value(vault[d][i]) \in SUBSET Writes
  BY DEF TypeOK, Value, Envelope
<1>2. CASE Value(vault[d][i]) \subseteq e.value
  BY <1>2 DEF Merged
<1>3. CASE ~(Value(vault[d][i]) \subseteq e.value)
  <2>1. Value(vault[d][i]) \cup e.value \in SUBSET Writes
    BY <1>1
  <2>. QED
    BY <1>3, <2>1, SealHolds DEF Merged
<1>. QED
  BY <1>2, <1>3

LEMMA WritesFinite == IsFiniteSet(Writes)
<1> DEFINE Q == ((1 .. MaxWrites) \X Device) \X BOOLEAN
           f == [p \in Q |-> [t |-> p[1][1], by |-> p[1][2], dead |-> p[2]]]
<1>1. IsFiniteSet(1 .. MaxWrites) /\ IsFiniteSet(Device) /\ IsFiniteSet(BOOLEAN)
  <2>1. BOOLEAN = {TRUE} \cup {FALSE}
    OBVIOUS
  <2>2. IsFiniteSet({TRUE} \cup {FALSE})
    BY FS_Singleton, FS_Union, Zenon
  <2>3. IsFiniteSet(1 .. MaxWrites)
    BY FS_Interval, SyncAssumption
  <2>. QED
    BY <2>1, <2>2, <2>3, SyncAssumption
<1>2. IsFiniteSet(Q)
  BY <1>1, FS_Product, Zenon
<1>3. f \in Surjection(Q, Writes)
  <2>1. f \in [Q -> Writes]
    BY DEF Writes
  <2>2. ASSUME NEW w \in Writes PROVE \E p \in Q : f[p] = w
    <3>1. <<<<w.t, w.by>>, w.dead>> \in Q
      BY DEF Writes
    <3>2. f[<<<<w.t, w.by>>, w.dead>>] = w
      BY <3>1 DEF Writes
    <3>. QED
      BY <3>1, <3>2
  <2>. QED
    BY <2>1, <2>2 DEF Surjection
<1>. QED
  <2> HIDE DEF f, Q
  <2>. QED
    BY <1>2, <1>3, FS_Surjection

\* tick is past every stamp the device has had; and since stamps have no
\* gaps, a write that is allowed has a stamp within the bound.
LEMMA StampIsNext ==
  ASSUME TypeOK, StampsFilled, NEW d \in Device
  PROVE  /\ NextStamp(d) \in Nat \ {0}
         /\ \A i \in Item : \A w \in had[d][i] : w.t < NextStamp(d)
         /\ \A t \in 1 .. NextStamp(d) - 1 : \E x \in AllWrites : x.t = t
         /\ WritesMade < MaxWrites => NextStamp(d) <= MaxWrites
<1> DEFINE H == UNION {had[d][i] : i \in Item}
           S == {0} \cup {w.t : w \in H}
           m == Max(S)
<1>1. AllWrites \in SUBSET Writes /\ H \subseteq AllWrites
  BY DEF TypeOK, AllWrites
<1>2. IsFiniteSet(AllWrites) /\ Cardinality(AllWrites) \in Nat /\ MaxWrites \in Nat
  BY <1>1, WritesFinite, FS_Subset, FS_CardinalityType, SyncAssumption
<1>3. S \in SUBSET (0 .. MaxWrites) /\ S # {}
  BY <1>1, <1>2 DEF Writes
<1>4. S \subseteq Nat /\ IsFiniteSet(S)
  <2>1. IsFiniteSet(0 .. MaxWrites)
    BY <1>2, FS_Interval
  <2> HIDE DEF S
  <2>2. S \subseteq Nat
    BY <1>2, <1>3
  <2>3. IsFiniteSet(S)
    BY <1>3, <2>1, FS_Subset
  <2>. QED
    BY <2>2, <2>3
<1>5. m \in S /\ \A x \in S : x <= m
  <2> HIDE DEF S
  <2>. QED
    BY <1>3, <1>4, MaxOfFinite
<1>6. NextStamp(d) = 1 + m /\ m \in Nat
  BY <1>4, <1>5 DEF NextStamp
<1>7. \A t \in 1 .. m : \E x \in AllWrites : x.t = t
  <2>1. CASE m = 0
    BY <2>1
  <2>2. CASE m # 0
    <3>1. PICK w \in H : w.t = m
      BY <1>5, <2>2
    <3>. QED
      BY <1>1, <3>1 DEF StampsFilled
  <2>. QED
    BY <2>1, <2>2
<1>8. m <= Cardinality(AllWrites)
  <2> DEFINE f == [x \in AllWrites |-> x.t]
             T == {f[x] : x \in AllWrites}
  <2>1. 1 .. m \in SUBSET T
    BY <1>7
  <2>2. IsFiniteSet(T) /\ Cardinality(T) <= Cardinality(AllWrites)
    <3> HIDE DEF f
    <3>. QED
      BY <1>2, ImageBound
  <2>3. Cardinality(1 .. m) = m
    BY <1>6, FS_Interval
  <2> HIDE DEF T
  <2>4. Cardinality(1 .. m) <= Cardinality(T) /\ Cardinality(T) \in Nat
    BY <2>1, <2>2, FS_Subset, FS_CardinalityType
  <2>. QED
    BY <1>2, <1>6, <2>2, <2>3, <2>4
<1>9. \A i \in Item : \A w \in had[d][i] : w.t \in S
  OBVIOUS
<1>10. \A i \in Item : \A w \in had[d][i] : w.t < 1 + m
  <2> HIDE DEF S, m
  <2>1. \A x \in S : x < 1 + m
    BY <1>4, <1>5, <1>6
  <2>. QED
    BY <1>9, <2>1
<1>. QED
  <2> HIDE DEF m
  <2>. QED
    BY <1>2, <1>6, <1>7, <1>8, <1>10 DEF WritesMade

\* The item of a request is one of the queue.
LEMMA CurrentIsQueued ==
  ASSUME TypeOK, NEW d \in Device, task[d].phase \in {"delete", "push"}
  PROVE  Current(d) \in task[d].todo /\ Current(d) \in Item
<1>1. task[d].todo \in SUBSET Item /\ task[d].todo # {}
  BY DEF TypeOK, Task
<1>2. task[d].todo \subseteq Nat /\ IsFiniteSet(task[d].todo)
  BY <1>1, FS_Subset, SyncAssumption
<1>. QED
  BY <1>1, <1>2, MinOfFinite DEF Current

\* The store's library operators are the library's.
LEMMA StoreLibrary ==
  ASSUME NEW S
  PROVE  Server!Cardinality(S) = Cardinality(S) /\ Server!Max(S) = Max(S)
  BY DEF Server!Cardinality, Cardinality, Server!Max, Max

(***************************************************************************)
(* One page of the feed: every row between its two cursors is on it, and   *)
(* when no more is to come, every row past the first.                      *)
(***************************************************************************)
LEMMA PageIsComplete ==
  ASSUME TypeOK, NEW since \in Nat, NEW n \in 1 .. PageLimit
  PROVE  /\ Server!Page(since, n) \subseteq Item
         /\ Server!NextSince(since, n) \in Nat
         /\ \/ Server!NextSince(since, n) = since
            \/ \E j \in Item : Server!NextSince(since, n) = rows[j].seq
         /\ Server!NextSince(since, n) >= since
         /\ \A i \in Server!Page(since, n) : rows[i].version > 0
         /\ \A i \in Item :
              (rows[i].version > 0 /\ rows[i].seq > since
                 /\ rows[i].seq <= Server!NextSince(since, n))
                => i \in Server!Page(since, n)
         /\ ~Server!HasMore(since, n) =>
              \A i \in Item : rows[i].version > 0 /\ rows[i].seq > since
                             => i \in Server!Page(since, n)
<1> DEFINE P == Server!Page(since, n)
           A == Server!After(since)
           f == [i \in Item |-> rows[i].seq]
           B == [i \in A |-> {j \in A : rows[j].seq <= rows[i].seq}]
<1>1. /\ P \in SUBSET A /\ A \in SUBSET Item /\ IsFiniteSet(A)
      /\ \A i \in A : rows[i].version > 0 /\ rows[i].seq > since
  <2>1. A \subseteq Item
    BY DEF Server!After, Server!Present
  <2>. QED
    BY <2>1, FS_Subset, SyncAssumption DEF Server!Page, Server!After, Server!Present
<1>2. \A i \in Item : f[i] = rows[i].seq /\ f[i] \in Nat
  BY DEF TypeOK, Server!StoreTypeOK, Server!Row
<1>3. \A i \in A : B[i] \in SUBSET A /\ \A j \in A : j \in B[i] <=> f[j] <= f[i]
  BY <1>1, <1>2
<1>4. \A i \in A : i \in P <=> Cardinality(B[i]) <= n
  BY StoreLibrary DEF Server!Page, Server!Position
<1>5. /\ P # {} => \E j \in P : /\ \A i \in P : f[i] <= f[j]
                                /\ \A i \in A : f[i] <= f[j] => i \in P
      /\ ~(Cardinality(A) > n) => P = A
  <2>1. n \in Nat
    BY SyncAssumption
  <2> HIDE DEF P, A, f, B
  <2>2. IsPage(P, A, f, B, n)
    BY <1>1, <1>2, <1>3, <1>4, <2>1 DEF IsPage
  <2>. QED
    BY <2>2, PageIsPrefix
<1>6. \A i \in Item : rows[i].version > 0 /\ rows[i].seq > since => i \in A
  BY DEF Server!After, Server!Present
<1>7. ~Server!HasMore(since, n) =>
              \A i \in Item : rows[i].version > 0 /\ rows[i].seq > since => i \in P
  BY <1>5, <1>6, StoreLibrary DEF Server!HasMore
<1>8. CASE P = {}
  <2>1. Server!NextSince(since, n) = since
    BY <1>8 DEF Server!NextSince
  <2>. QED
    BY <1>1, <1>2, <1>7, <2>1
<1>9. CASE P # {}
  <2>1. PICK j \in P : /\ \A i \in P : rows[i].seq <= rows[j].seq
                       /\ \A i \in A : rows[i].seq <= rows[j].seq => i \in P
    BY <1>1, <1>2, <1>5, <1>9
  <2>2. Server!NextSince(since, n) = rows[j].seq
    <3> DEFINE S == {rows[i].seq : i \in P}
    <3>1. Server!NextSince(since, n) = Max(S)
      BY <1>9, StoreLibrary DEF Server!NextSince
    <3>2. rows[j].seq \in S /\ S \subseteq Nat /\ \A x \in S : x <= rows[j].seq
      BY <1>1, <1>2, <2>1
    <3> HIDE DEF S
    <3>. QED
      BY <3>1, <3>2, MaxIsGreatest
  <2>. QED
    BY <1>1, <1>2, <1>6, <1>7, <2>1, <2>2
<1>. QED
  BY <1>8, <1>9
-----------------------------------------------------------------------------
(***************************************************************************)
(* What the building blocks of the actions do.                             *)
(***************************************************************************)
LEMMA StateTypes ==
  ASSUME TypeOK, NEW d \in Device
  PROVE  /\ state[d] \in SyncState /\ saved[d] \in SyncState /\ task[d] \in Task
         /\ vault[d] \in [Item -> Envelope \cup {NoEnvelope}]
         /\ had[d] \in [Item -> SUBSET Writes]
         /\ \A i \in Item : /\ rows[i] \in [seq : Nat, version : Nat,
                                             envelope : Envelope \cup {NoEnvelope}]
                            /\ state[d].known[i] \in KnownRow
                            /\ saved[d].known[i] \in KnownRow
         /\ state[d].cursor \in Nat /\ saved[d].cursor \in Nat /\ next_seq \in Nat
  BY DEF TypeOK, SyncState, Server!StoreTypeOK, Server!Row

LEMMA NewStates ==
  /\ Unknown \in KnownRow
  /\ NewState \in SyncState
  BY DEF Unknown, KnownRow, NewState, SyncState

LEMMA LearnEffect ==
  ASSUME NEW s \in SyncState, NEW i \in Item, NEW k \in KnownRow
  PROVE  /\ Learn(s, i, k) \in SyncState
         /\ Learn(s, i, k).cursor = s.cursor
         /\ Learn(s, i, k).known[i] = k
         /\ \A j \in Item \ {i} : Learn(s, i, k).known[j] = s.known[j]
  BY DEF Learn, SyncState

LEMMA Tasks ==
  ASSUME NEW q \in SUBSET Item, NEW n \in 0 .. MaxRetries
  PROVE  /\ Idle \in Task /\ Idle.phase = "idle" /\ Idle.todo = {}
         /\ Deleting(q) \in Task /\ Deleting(q).todo = q
         /\ Deleting(q).phase # "push"
         /\ Pushing(q, n) \in Task /\ Pushing(q, n).todo = q
         /\ Pushing(q, n).phase # "delete"
<1>1. 0 \in 0 .. MaxRetries
  BY SyncAssumption
<1>. QED
  BY <1>1 DEF Idle, Task, Deleting, Pushing

LEMMA SaveEffect ==
  ASSUME TypeOK, NEW d \in Device, NEW s \in SyncState, NEW next \in Task, SaveAnd(d, s, next)
  PROVE  /\ state' \in [Device -> SyncState] /\ saved' \in [Device -> SyncState]
         /\ task' \in [Device -> Task]
         /\ \A e \in Device \ {d} :
              state'[e] = state[e] /\ saved'[e] = saved[e] /\ task'[e] = task[e]
         /\ state'[d] = s /\ saved'[d] \in {s, saved[d]} /\ task'[d] \in {next, Idle}
<1>1. Idle \in Task
  BY Tasks, SyncAssumption DEF Idle, Task
<1>. QED
  BY <1>1 DEF SaveAnd, TypeOK

LEMMA WriteEffect ==
  ASSUME TypeOK, NEW i \in Item, NEW e \in Envelope \cup {NoEnvelope}, Server!Write(i, e)
  PROVE  /\ Server!StoreTypeOK'
         /\ rows'[i].seq = next_seq /\ rows'[i].version = rows[i].version + 1
         /\ rows'[i].envelope = e
         /\ \A j \in Item \ {i} : rows'[j] = rows[j]
         /\ next_seq' = next_seq + 1
  BY DEF TypeOK, Server!StoreTypeOK, Server!Row, Server!Write

-----------------------------------------------------------------------------
(***************************************************************************)
(* CursorInv is kept by the shapes the steps take: what is only noted down *)
(* about the server, a write to the server, a merge into a vault.          *)
(***************************************************************************)
LEMMA NotedKeepsCursor ==
  ASSUME CursorInv, UNCHANGED <<rows, next_seq, vault, had, purged>>,
         state' \in [Device -> SyncState], saved' \in [Device -> SyncState],
         task' \in [Device -> Task],
         \A d \in Device : /\ state'[d].cursor \in {0, state[d].cursor, saved[d].cursor}
                           /\ saved'[d].cursor \in {0, state[d].cursor, saved[d].cursor}
  PROVE  CursorInv'
<1> USE DEF CursorInv
<1>1. TypeOK'
  BY DEF TypeOK, Server!StoreTypeOK
<1>2. StampsFilled'
  BY DEF StampsFilled, AllWrites
<1>3. AuthorHad'
  BY DEF AuthorHad
<1>4. next_seq > 0 /\ \A i \in Item : rows[i].seq \in Nat /\ rows[i].version \in Nat
  BY DEF TypeOK, Server!StoreTypeOK, Server!Row
<1>5. SeqAllocated'
  BY <1>4 DEF SeqAllocated
<1>6. \A d \in Device : Covers(rows', state'[d], had'[d]) /\ Covers(rows', saved'[d], had'[d])
  BY <1>4 DEF Covers, SeqAllocated
<1>. QED
  BY <1>1, <1>2, <1>3, <1>5, <1>6

LEMMA WriteKeepsCursor ==
  ASSUME CursorInv, NEW i \in Item, NEW e \in Envelope \cup {NoEnvelope}, Server!Write(i, e),
         \A w \in Value(e) : w \in had[w.by][i],
         UNCHANGED <<vault, had, purged>>,
         state' \in [Device -> SyncState], saved' \in [Device -> SyncState],
         task' \in [Device -> Task],
         \A d \in Device : /\ state'[d].cursor = state[d].cursor
                           /\ saved'[d].cursor \in {state[d].cursor, saved[d].cursor}
  PROVE  CursorInv'
<1> USE DEF CursorInv
<1>1. TypeOK'
  BY WriteEffect DEF TypeOK
<1>2. StampsFilled'
  BY DEF StampsFilled, AllWrites
<1>3. AuthorHad'
  BY WriteEffect DEF AuthorHad
<1>4. /\ next_seq \in Nat /\ next_seq > 0
      /\ \A j \in Item : rows[j].seq \in Nat /\ rows[j].version \in Nat
      /\ \A d \in Device : state[d].cursor \in Nat /\ saved[d].cursor \in Nat
  BY DEF TypeOK, Server!StoreTypeOK, Server!Row, SyncState
<1>5. /\ rows'[i].seq = next_seq /\ rows'[i].version = rows[i].version + 1
      /\ \A j \in Item \ {i} : rows'[j] = rows[j]
      /\ next_seq' = next_seq + 1
  BY WriteEffect
<1>6. SeqAllocated'
  BY <1>4, <1>5 DEF SeqAllocated
<1>7. ASSUME NEW d \in Device, NEW s, s.cursor \in {state[d].cursor, saved[d].cursor}
      PROVE  Covers(rows', s, had[d])
  BY <1>4, <1>5, <1>7 DEF Covers, SeqAllocated
<1>8. \A d \in Device : Covers(rows', state'[d], had'[d]) /\ Covers(rows', saved'[d], had'[d])
  BY <1>7
<1>. QED
  BY <1>1, <1>2, <1>3, <1>6, <1>8

\* The rows of S are merged into d's vault, and nothing else is stored.
Stored(d, S) ==
  /\ vault' \in [Device -> [Item -> Envelope \cup {NoEnvelope}]]
  /\ had' \in [Device -> [Item -> SUBSET Writes]]
  /\ \A e \in Device \ {d} : vault'[e] = vault[e] /\ had'[e] = had[e]
  /\ \A i \in S : /\ rows[i].envelope # NoEnvelope
                  /\ vault'[d][i] \in Envelope
                  /\ Value(vault'[d][i]) = Value(vault[d][i]) \cup Value(rows[i].envelope)
                  /\ had'[d][i] = had[d][i] \cup Value(rows[i].envelope)
  /\ \A i \in Item \ S : vault'[d][i] = vault[d][i] /\ had'[d][i] = had[d][i]

LEMMA MergeKeepsCursor ==
  ASSUME CursorInv, UNCHANGED <<rows, next_seq, purged>>,
         NEW d \in Device, NEW S \in SUBSET Item, Stored(d, S),
         state' \in [Device -> SyncState], saved' \in [Device -> SyncState],
         task' \in [Device -> Task],
         \A e \in Device \ {d} : state'[e] = state[e] /\ saved'[e] = saved[e],
         saved'[d] \in {state'[d], saved[d]},
         state'[d].cursor < next_seq,
         \A i \in Item : rows[i].version > 0 /\ rows[i].seq <= state'[d].cursor =>
                         i \in S \/ Value(rows[i].envelope) = {} \/ rows[i].seq <= state[d].cursor
  PROVE  CursorInv'
<1> USE DEF CursorInv, Stored
<1>0. TypeOK'
  BY DEF TypeOK, Server!StoreTypeOK
<1>1. /\ \A e \in Device, i \in Item : had[e][i] \subseteq had'[e][i]
      /\ \A e \in Device, i \in Item : had'[e][i] \subseteq had[e][i] \cup Value(rows[i].envelope)
      /\ \A e \in Device, i \in Item : \A w \in had[e][i] : w.by \in Device /\ w.t \in Nat
      /\ \A i \in Item : \A w \in Value(rows[i].envelope) : w.by \in Device
  <2>1. ASSUME NEW e \in Device, NEW i \in Item
        PROVE  /\ had[e][i] \subseteq had'[e][i]
               /\ had'[e][i] \subseteq had[e][i] \cup Value(rows[i].envelope)
    OBVIOUS
  <2>2. ASSUME NEW e \in Device, NEW i \in Item, NEW w \in had[e][i]
        PROVE  w.by \in Device /\ w.t \in Nat
    <3>1. w \in Writes
      BY DEF TypeOK
    <3>. QED
      BY <3>1 DEF Writes
  <2>3. ASSUME NEW i \in Item, NEW w \in Value(rows[i].envelope)
        PROVE  w.by \in Device
    <3>1. Value(rows[i].envelope) \in SUBSET Writes
      BY DEF TypeOK, Server!StoreTypeOK, Server!Row, Value, Envelope
    <3>. QED
      BY <3>1 DEF Writes
  <2>. QED
    BY <2>1, <2>2, <2>3
<1>2. AuthorHad'
  <2>1. ASSUME NEW i \in Item, NEW w \in Value(rows[i].envelope) PROVE w \in had'[w.by][i]
    BY <1>1 DEF AuthorHad
  <2>2. ASSUME NEW i \in Item, NEW e \in Device, NEW w \in had'[e][i] PROVE w \in had'[w.by][i]
    BY <1>1, <2>1 DEF AuthorHad
  <2>3. ASSUME NEW i \in Item, NEW e \in Device PROVE Value(vault'[e][i]) \subseteq had'[e][i]
    <3>1. Value(vault[e][i]) \subseteq had[e][i]
      BY DEF AuthorHad
    <3>2. CASE e = d /\ i \in S
      BY <3>1, <3>2
    <3>3. CASE ~(e = d /\ i \in S)
      BY <3>1, <3>3
    <3>. QED
      BY <3>2, <3>3
  <2>. QED
    BY <2>1, <2>2, <2>3 DEF AuthorHad
<1>3. AllWrites' = AllWrites
  <2>1. ASSUME NEW w \in AllWrites PROVE w \in AllWrites'
    BY <1>1 DEF AllWrites
  <2>2. ASSUME NEW w \in AllWrites' PROVE w \in AllWrites
    <3>1. PICK e \in Device, i \in Item : w \in had'[e][i]
      BY DEF AllWrites
    <3>2. \E f \in Device : w \in had[f][i]
      <4>1. CASE w \in had[e][i]
        BY <4>1
      <4>2. CASE w \in Value(rows[i].envelope)
        <5>1. w.by \in Device
          BY <1>1, <4>2
        <5>2. w \in had[w.by][i]
          BY <4>2 DEF AuthorHad
        <5>. QED
          BY <5>1, <5>2
      <4>. QED
        BY <1>1, <3>1, <4>1, <4>2
    <3>. QED
      BY <3>2 DEF AllWrites
  <2>. QED
    BY <2>1, <2>2
<1>4. StampsFilled'
  BY <1>3 DEF StampsFilled
<1>5. SeqAllocated'
  BY DEF SeqAllocated
<1>6. \A e \in Device : Covers(rows, state[e], had'[e]) /\ Covers(rows, saved[e], had'[e])
  BY <1>1 DEF Covers
<1>7. Covers(rows, state'[d], had'[d])
  <2>1. SUFFICES ASSUME NEW i \in Item, rows[i].version > 0, rows[i].seq <= state'[d].cursor
                 PROVE  Value(rows[i].envelope) \subseteq had'[d][i]
    BY DEF Covers
  <2>2. CASE i \in S
    BY <2>2
  <2>3. CASE rows[i].seq <= state[d].cursor
    BY <1>6, <2>1, <2>3 DEF Covers
  <2>. QED
    BY <2>1, <2>2, <2>3
<1>8. \A e \in Device : Covers(rows', state'[e], had'[e]) /\ Covers(rows', saved'[e], had'[e])
  BY <1>6, <1>7
<1>. QED
  BY <1>0, <1>2, <1>4, <1>5, <1>8
-----------------------------------------------------------------------------
(***************************************************************************)
(* CursorInv is kept by every action.                                      *)
(***************************************************************************)
\* What commit_item stores, and what it does to types.
LEMMA CommitEffect ==
  ASSUME TypeOK, StampsFilled, NEW d \in Device, NEW i \in Item, NEW dead \in BOOLEAN,
         Commit(d, i, dead)
  PROVE  \E w \in Writes :
           /\ w = [t |-> NextStamp(d), by |-> d, dead |-> dead]
           /\ TypeOK'
           /\ vault'[d][i] \in Envelope
           /\ vault'[d][i].value = Value(vault[d][i]) \cup {w}
           /\ \A e \in Device, j \in Item : <<e, j>> # <<d, i>> =>
                vault'[e][j] = vault[e][j] /\ had'[e][j] = had[e][j]
           /\ had'[d][i] = had[d][i] \cup {w}
<1> DEFINE w == [t |-> NextStamp(d), by |-> d, dead |-> dead]
           E == Seal(d, i, Value(vault[d][i]) \cup {w})
<1>1. w \in Writes
  BY StampIsNext DEF Commit, Writes
<1>2. Value(vault[d][i]) \cup {w} \in SUBSET Writes
  BY <1>1 DEF TypeOK, Value, Envelope
<1>3. E \in Envelope /\ E.value = Value(vault[d][i]) \cup {w}
  BY <1>2, SealHolds
<1>4. /\ vault \in [Device -> [Item -> Envelope \cup {NoEnvelope}]]
      /\ had \in [Device -> [Item -> SUBSET Writes]]
  BY DEF TypeOK
<1>5. /\ vault' = [vault EXCEPT ![d][i] = E]
      /\ had' = [had EXCEPT ![d][i] = had[d][i] \cup {w}]
  BY DEF Commit
<1> HIDE DEF w, E
<1>6. /\ vault' \in [Device -> [Item -> Envelope \cup {NoEnvelope}]]
      /\ vault'[d][i] = E
      /\ \A e \in Device, j \in Item : <<e, j>> # <<d, i>> => vault'[e][j] = vault[e][j]
  BY <1>3, <1>4, <1>5
<1>7. /\ had' \in [Device -> [Item -> SUBSET Writes]]
      /\ had'[d][i] = had[d][i] \cup {w}
      /\ \A e \in Device, j \in Item : <<e, j>> # <<d, i>> => had'[e][j] = had[e][j]
  BY <1>1, <1>4, <1>5
<1>8. TypeOK'
  BY <1>6, <1>7 DEF TypeOK, Commit, Server!StoreTypeOK
<1>. QED
  BY <1>1, <1>3, <1>6, <1>7, <1>8 DEF w

LEMMA CommitKeepsCursor ==
  ASSUME CursorInv, NEW d \in Device, NEW i \in Item, NEW dead \in BOOLEAN, Commit(d, i, dead)
  PROVE  CursorInv'
<1> USE DEF CursorInv
<1>1. PICK w \in Writes :
           /\ w = [t |-> NextStamp(d), by |-> d, dead |-> dead]
           /\ TypeOK'
           /\ vault'[d][i] \in Envelope
           /\ vault'[d][i].value = Value(vault[d][i]) \cup {w}
           /\ \A e \in Device, j \in Item : <<e, j>> # <<d, i>> =>
                vault'[e][j] = vault[e][j] /\ had'[e][j] = had[e][j]
           /\ had'[d][i] = had[d][i] \cup {w}
  BY CommitEffect
<1>2. w.t = NextStamp(d) /\ w.by = d /\ Value(vault'[d][i]) = Value(vault[d][i]) \cup {w}
  BY <1>1, EnvelopeAssumption DEF Value
<1>3. UNCHANGED <<rows, next_seq, state, saved>>
  BY DEF Commit
<1>4. \A e \in Device, j \in Item : had[e][j] \subseteq had'[e][j]
  BY <1>1
<1>5. AuthorHad'
  <2>1. ASSUME NEW j \in Item, NEW x \in Value(rows[j].envelope) PROVE x \in had'[x.by][j]
    <3>1. x \in had[x.by][j] /\ x.by \in Device
      BY DEF AuthorHad, TypeOK, Server!StoreTypeOK, Server!Row, Value, Envelope, Writes
    <3>. QED
      BY <1>4, <3>1
  <2>2. ASSUME NEW j \in Item, NEW e \in Device, NEW x \in had'[e][j] PROVE x \in had'[x.by][j]
    <3>1. CASE x \in had[e][j]
      <4>1. x \in had[x.by][j] /\ x.by \in Device
        BY <3>1 DEF AuthorHad, TypeOK, Writes
      <4>. QED
        BY <1>4, <4>1
    <3>2. CASE x \notin had[e][j]
      <4>1. x = w /\ e = d /\ j = i
        BY <1>1, <3>2
      <4>. QED
        BY <1>1, <1>2, <4>1
    <3>. QED
      BY <3>1, <3>2
  <2>3. ASSUME NEW j \in Item, NEW e \in Device PROVE Value(vault'[e][j]) \subseteq had'[e][j]
    BY <1>1, <1>2 DEF AuthorHad
  <2>. QED
    BY <1>3, <2>1, <2>2, <2>3 DEF AuthorHad
<1>6. AllWrites' = AllWrites \cup {w}
  <2>1. ASSUME NEW x \in AllWrites' PROVE x \in AllWrites \cup {w}
    BY <1>1 DEF AllWrites
  <2>2. ASSUME NEW x \in AllWrites \cup {w} PROVE x \in AllWrites'
    <3>1. CASE x = w
      BY <1>1, <3>1 DEF AllWrites
    <3>2. CASE x \in AllWrites
      BY <1>4, <3>2 DEF AllWrites
    <3>. QED
      BY <3>1, <3>2
  <2>. QED
    BY <2>1, <2>2
<1>7. StampsFilled'
  <2>1. SUFFICES ASSUME NEW x \in AllWrites \cup {w}, NEW t \in 1 .. x.t
                 PROVE  \E y \in AllWrites \cup {w} : y.t = t
    BY <1>6 DEF StampsFilled
  <2>2. CASE x \in AllWrites
    BY <2>2 DEF StampsFilled
  <2>3. CASE x = w
    <3>1. t = w.t \/ t \in 1 .. NextStamp(d) - 1
      BY <1>2, <2>3, StampIsNext
    <3>. QED
      BY <3>1, StampIsNext
  <2>. QED
    BY <2>2, <2>3
<1>8. SeqAllocated'
  BY <1>3 DEF SeqAllocated
<1>9. \A e \in Device : Covers(rows', state'[e], had'[e]) /\ Covers(rows', saved'[e], had'[e])
  BY <1>3, <1>4 DEF Covers
<1>. QED
  BY <1>1, <1>5, <1>7, <1>8, <1>9

LEMMA PurgeKeepsCursor ==
  ASSUME CursorInv, NEW d \in Device, NEW S \in SUBSET Item, PurgeTombstones(d, S)
  PROVE  CursorInv'
<1> USE DEF CursorInv
<1>1. UNCHANGED <<rows, next_seq, state, saved, task, had>>
  BY DEF PurgeTombstones
<1> DEFINE v == [i \in Item |-> IF i \in S THEN NoEnvelope ELSE vault[d][i]]
           p == [i \in Item |-> IF i \in S THEN purged[d][i] \cup {Value(vault[d][i])}
                               ELSE purged[d][i]]
<1>2. /\ vault \in [Device -> [Item -> Envelope \cup {NoEnvelope}]]
      /\ purged \in [Device -> [Item -> SUBSET SUBSET Writes]]
      /\ vault' = [vault EXCEPT ![d] = v] /\ purged' = [purged EXCEPT ![d] = p]
  BY DEF TypeOK, PurgeTombstones
<1>3. \A i \in Item : Value(vault[d][i]) \in SUBSET Writes
  BY DEF TypeOK, Value, Envelope
<1>4. v \in [Item -> Envelope \cup {NoEnvelope}] /\ p \in [Item -> SUBSET SUBSET Writes]
  BY <1>2, <1>3
<1>5. TypeOK'
  <2> HIDE DEF v, p
  <2>. QED
    BY <1>1, <1>2, <1>4 DEF TypeOK, Server!StoreTypeOK
<1>6. \A e \in Device, i \in Item : Value(vault'[e][i]) \subseteq Value(vault[e][i])
  <2>1. \A e \in Device, i \in Item : vault'[e][i] \in {NoEnvelope, vault[e][i]}
    BY <1>2
  <2>. QED
    BY <2>1 DEF Value
<1>7. AuthorHad'
  BY <1>1, <1>6 DEF AuthorHad
<1>8. StampsFilled' /\ SeqAllocated'
  BY <1>1 DEF StampsFilled, AllWrites, SeqAllocated
<1>. QED
  BY <1>1, <1>5, <1>7, <1>8

LEMMA RewrapKeepsCursor ==
  ASSUME CursorInv, NEW d \in Device, NEW i \in Item, Rewrap(d, i)
  PROVE  CursorInv'
<1> USE DEF CursorInv
<1> DEFINE E == Seal(d, i, vault[d][i].value)
<1>1. UNCHANGED <<rows, next_seq, state, saved, task, had, purged>>
  BY DEF Rewrap
<1>2. vault[d][i] \in Envelope /\ vault[d][i].value \in SUBSET Writes
  BY DEF Rewrap, TypeOK, Envelope
<1>3. E \in Envelope /\ E.value = vault[d][i].value
  BY <1>2, SealHolds
<1>4. vault \in [Device -> [Item -> Envelope \cup {NoEnvelope}]] /\ vault' = [vault EXCEPT ![d][i] = E]
  BY DEF TypeOK, Rewrap
<1> HIDE DEF E
<1>5. /\ vault' \in [Device -> [Item -> Envelope \cup {NoEnvelope}]]
      /\ \A e \in Device, j \in Item : vault'[e][j] = vault[e][j] \/ (e = d /\ j = i /\ vault'[e][j] = E)
  BY <1>3, <1>4
<1>6. \A e \in Device, j \in Item : Value(vault'[e][j]) = Value(vault[e][j])
  BY <1>2, <1>3, <1>5, EnvelopeAssumption DEF Value
<1>7. TypeOK'
  BY <1>1, <1>5 DEF TypeOK, Server!StoreTypeOK
<1>8. AuthorHad'
  BY <1>1, <1>6 DEF AuthorHad
<1>9. StampsFilled' /\ SeqAllocated'
  BY <1>1 DEF StampsFilled, AllWrites, SeqAllocated
<1>. QED
  BY <1>1, <1>7, <1>8, <1>9

\* Steps that change where a sync is, and nothing else.
LEMMA TaskKeepsCursor ==
  ASSUME CursorInv, NEW d \in Device, NEW next \in Task, task' = [task EXCEPT ![d] = next],
         UNCHANGED <<rows, next_seq, vault, state, saved, had, purged>>
  PROVE  CursorInv'
<1>1. /\ task' \in [Device -> Task] /\ state' \in [Device -> SyncState]
      /\ saved' \in [Device -> SyncState]
  BY DEF CursorInv, TypeOK
<1>. QED
  BY <1>1, NotedKeepsCursor

\* What PushDelete does when it does not give up.
LEMMA PushDeleteCases ==
  ASSUME TypeOK, NEW d \in Device, PushDelete(d)
  PROVE  LET i == Current(d) IN
         /\ i \in task[d].todo /\ i \in Item /\ UNCHANGED <<vault, had, purged>>
         /\ \/ /\ SaveAnd(d, Learn(state[d], i, Unknown), Deleting(task[d].todo \ {i}))
               /\ \/ UNCHANGED <<rows, next_seq>>
                  \/ /\ rows[i].version = state[d].known[i].version
                     /\ Server!Write(i, NoEnvelope)
            \/ /\ task' = [task EXCEPT ![d] = Idle]
               /\ UNCHANGED <<rows, next_seq, state, saved>>
<1>1. Current(d) \in task[d].todo /\ Current(d) \in Item
  BY CurrentIsQueued DEF PushDelete
<1>. QED
  BY <1>1, Zenon DEF PushDelete, GiveUp, Expected, Server!DeleteApplied, Server!DeleteRepeated,
     Server!DeleteMissing, Server!DeleteConflict, Server!storeVars, Server!Matches

LEMMA PushDeleteKeepsCursor ==
  ASSUME CursorInv, NEW d \in Device, PushDelete(d)
  PROVE  CursorInv'
<1> DEFINE i == Current(d)
           s == Learn(state[d], i, Unknown)
           next == Deleting(task[d].todo \ {i})
<1>1. TypeOK
  BY DEF CursorInv
<1>2. /\ i \in Item /\ UNCHANGED <<vault, had, purged>>
      /\ \/ /\ SaveAnd(d, s, next)
            /\ UNCHANGED <<rows, next_seq>> \/ Server!Write(i, NoEnvelope)
         \/ task' = [task EXCEPT ![d] = Idle] /\ UNCHANGED <<rows, next_seq, state, saved>>
  BY <1>1, PushDeleteCases
<1>3. s \in SyncState /\ s.cursor = state[d].cursor
  BY <1>1, <1>2, StateTypes, NewStates, LearnEffect
<1>4. next \in Task /\ Idle \in Task
  <2>1. task[d].todo \ {i} \in SUBSET Item /\ 0 \in 0 .. MaxRetries
    BY <1>1, StateTypes, SyncAssumption DEF Task
  <2>. QED
    BY <2>1, Tasks
<1> HIDE DEF s, next, i
<1>5. CASE SaveAnd(d, s, next)
  <2>1. /\ state' \in [Device -> SyncState] /\ saved' \in [Device -> SyncState]
        /\ task' \in [Device -> Task]
        /\ \A e \in Device : /\ state'[e].cursor = state[e].cursor
                             /\ saved'[e].cursor \in {state[e].cursor, saved[e].cursor}
    BY <1>1, <1>3, <1>4, <1>5, SaveEffect
  <2>2. CASE UNCHANGED <<rows, next_seq>>
    BY <1>2, <2>1, <2>2, NotedKeepsCursor
  <2>3. CASE Server!Write(i, NoEnvelope)
    <3>1. Value(NoEnvelope) = {}
      BY DEF Value
    <3>. QED
      BY <1>2, <2>1, <2>3, <3>1, WriteKeepsCursor
  <2>. QED
    BY <1>2, <1>5, <2>2, <2>3, <1>1, SaveEffect
<1>6. CASE task' = [task EXCEPT ![d] = Idle] /\ UNCHANGED <<rows, next_seq, state, saved>>
  BY <1>2, <1>4, <1>6, TaskKeepsCursor
<1>. QED
  BY <1>2, <1>5, <1>6

(***************************************************************************)
(* What a pull does: page is what came, s what the device knows after it,  *)
(* and next where the sync goes on.                                        *)
(***************************************************************************)
Pulled(d, page, s, next) ==
  /\ SaveAnd(d, s, next)
  /\ Stored(d, {i \in page : rows[i].envelope # NoEnvelope})
  /\ UNCHANGED <<rows, next_seq, purged>>
  /\ \A i \in page : rows[i].version > 0
  /\ s.cursor >= state[d].cursor /\ s.cursor < next_seq
  /\ \A i \in Item \ page :
       rows[i].version > 0 => rows[i].seq <= state[d].cursor \/ rows[i].seq > s.cursor
  /\ next.phase = "push" =>
       \A i \in Item \ page : rows[i].version > 0 => rows[i].seq <= state[d].cursor
  /\ next.phase # "delete"
  /\ \A i \in next.todo : vault'[d][i] # NoEnvelope
  /\ \A i \in page : /\ s.known[i].fp = rows[i].envelope /\ s.known[i].version = rows[i].version
                     /\ s.known[i].deletable =>
                          rows[i].envelope # NoEnvelope \/ state[d].known[i].deletable
  /\ \A i \in Item \ page : s.known[i] = state[d].known[i]

LEMMA PullEffect ==
  ASSUME TypeOK, SeqAllocated, NEW d \in Device, NEW n \in 1 .. PageLimit, PullPage(d, n)
  PROVE  \E page \in SUBSET Item, s \in SyncState, next \in Task : Pulled(d, page, s, next)
<1> DEFINE since == state[d].cursor
           page == Server!Page(since, n)
           full == {i \in page : rows[i].envelope # NoEnvelope}
           v == [i \in Item |-> IF i \in full THEN Merged(d, i, rows[i].envelope) ELSE vault[d][i]]
           known == [i \in Item |->
                       IF i \in page
                       THEN [fp |-> rows[i].envelope, version |-> rows[i].version,
                             deletable |-> i \in full \/ state[d].known[i].deletable]
                       ELSE state[d].known[i]]
           s == [known |-> known, cursor |-> Server!NextSince(since, n)]
           next == IF Server!HasMore(since, n) THEN task[d] ELSE Pushing(PendingPuts(v, s), 0)
           h == [i \in Item |-> IF i \in full THEN had[d][i] \cup rows[i].envelope.value ELSE had[d][i]]
<1>1. /\ task[d].phase = "pull" /\ vault' = [vault EXCEPT ![d] = v]
      /\ had' = [had EXCEPT ![d] = h]
      /\ SaveAnd(d, s, next) /\ UNCHANGED <<rows, next_seq, purged>>
  BY DEF PullPage
<1>2. since \in Nat
  BY StateTypes
<1>3. /\ page \in SUBSET Item
      /\ s.cursor \in Nat
      /\ s.cursor = since \/ \E j \in Item : s.cursor = rows[j].seq
      /\ s.cursor >= since
      /\ \A i \in page : rows[i].version > 0
      /\ \A i \in Item : rows[i].version > 0 /\ rows[i].seq > since /\ rows[i].seq <= s.cursor
                         => i \in page
      /\ ~Server!HasMore(since, n) =>
           \A i \in Item : rows[i].version > 0 /\ rows[i].seq > since => i \in page
  BY <1>2, PageIsComplete
<1>4. s.cursor < next_seq
  BY <1>3 DEF SeqAllocated
<1>5. known \in [Item -> KnownRow]
  <2>1. \A i \in Item : known[i] \in KnownRow
    BY StateTypes DEF KnownRow
  <2>. QED
    BY <2>1
<1>6. s \in SyncState
  BY <1>3, <1>5 DEF SyncState
<1>7. /\ \A i \in page : /\ s.known[i].fp = rows[i].envelope /\ s.known[i].version = rows[i].version
                         /\ s.known[i].deletable =>
                              rows[i].envelope # NoEnvelope \/ state[d].known[i].deletable
      /\ \A i \in Item \ page : s.known[i] = state[d].known[i]
  BY <1>3
<1>8. vault'[d] = v
  BY <1>1 DEF TypeOK
<1>9. \A i \in Item : rows[i].seq \in Nat
  BY StateTypes
<1>10. /\ next \in Task /\ next.phase # "delete"
       /\ \A i \in next.todo : v[i] # NoEnvelope
       /\ next.phase = "push" => ~Server!HasMore(since, n)
  <2>1. CASE Server!HasMore(since, n)
    BY <1>1, <2>1, StateTypes DEF Task
  <2>2. CASE ~Server!HasMore(since, n)
    <3> DEFINE q == PendingPuts(v, s)
    <3>1. q \in SUBSET Item /\ 0 \in 0 .. MaxRetries /\ \A i \in q : v[i] # NoEnvelope
      BY SyncAssumption DEF PendingPuts
    <3>2. next = Pushing(q, 0)
      BY <2>2
    <3> HIDE DEF q, next
    <3>. QED
      BY <2>2, <3>1, <3>2, Tasks
  <2>. QED
    BY <2>1, <2>2
<1>14. Stored(d, full)
  <2>1. full \in SUBSET Item /\ \A i \in full : rows[i].envelope \in Envelope
    BY <1>3, StateTypes
  <2>2. \A i \in full : /\ rows[i].envelope.value = Value(rows[i].envelope)
                        /\ Value(rows[i].envelope) \in SUBSET Writes
    BY <2>1 DEF Value, Envelope
  <2>3. \A i \in full : v[i] \in Envelope /\ v[i].value = Value(vault[d][i]) \cup Value(rows[i].envelope)
    BY <2>1, <2>2, MergedHolds
  <2>4. \A i \in Item \ full : v[i] = vault[d][i] /\ h[i] = had[d][i]
    OBVIOUS
  <2>5. \A i \in full : h[i] = had[d][i] \cup Value(rows[i].envelope)
    BY <2>1, <2>2
  <2>6. v \in [Item -> Envelope \cup {NoEnvelope}]
    BY <2>3, <2>4, StateTypes
  <2>7. h \in [Item -> SUBSET Writes]
    BY <2>2, <2>4, <2>5, StateTypes
  <2>8. \A i \in full : Value(v[i]) = v[i].value /\ rows[i].envelope # NoEnvelope
    BY <2>3, EnvelopeAssumption DEF Value
  <2> HIDE DEF v, h, full
  <2>. QED
    BY <1>1, <2>3, <2>4, <2>5, <2>6, <2>7, <2>8 DEF Stored, TypeOK
<1>15. full = {i \in page : rows[i].envelope # NoEnvelope}
  OBVIOUS
<1> HIDE DEF page, s, next, v, known, since, full, h
<1>11. \A i \in Item \ page :
         /\ rows[i].version > 0 => rows[i].seq <= since \/ rows[i].seq > s.cursor
         /\ next.phase = "push" /\ rows[i].version > 0 => rows[i].seq <= since
  BY <1>2, <1>3, <1>9, <1>10
<1>12. since = state[d].cursor
  BY DEF since
<1>13. Pulled(d, page, s, next)
  BY <1>1, <1>3, <1>4, <1>7, <1>8, <1>10, <1>11, <1>12, <1>14, <1>15 DEF Pulled
<1>. QED
  BY <1>3, <1>6, <1>10, <1>13

LEMMA PullKeepsCursor ==
  ASSUME CursorInv, NEW d \in Device, NEW n \in 1 .. PageLimit, PullPage(d, n)
  PROVE  CursorInv'
<1>1. TypeOK /\ SeqAllocated
  BY DEF CursorInv
<1>2. PICK page \in SUBSET Item, s \in SyncState, next \in Task : Pulled(d, page, s, next)
  BY <1>1, PullEffect
<1> DEFINE full == {i \in page : rows[i].envelope # NoEnvelope}
<1>3. /\ state' \in [Device -> SyncState] /\ saved' \in [Device -> SyncState]
      /\ task' \in [Device -> Task]
      /\ \A e \in Device \ {d} : state'[e] = state[e] /\ saved'[e] = saved[e]
      /\ state'[d] = s /\ saved'[d] \in {s, saved[d]}
  BY <1>1, <1>2, SaveEffect DEF Pulled
<1>4. s.cursor < next_seq /\ UNCHANGED <<rows, next_seq, purged>>
  BY <1>2 DEF Pulled
<1>5. \A i \in Item : rows[i].version > 0 /\ rows[i].seq <= s.cursor =>
                      i \in full \/ Value(rows[i].envelope) = {} \/ rows[i].seq <= state[d].cursor
  <2>1. s.cursor \in Nat /\ \A i \in Item : rows[i].seq \in Nat
    BY <1>1, StateTypes DEF SyncState
  <2>. QED
    BY <1>2, <2>1 DEF Pulled, Value
<1>6. full \in SUBSET Item /\ Stored(d, full)
  BY <1>2 DEF Pulled
<1> HIDE DEF full
<1>. QED
  BY <1>3, <1>4, <1>5, <1>6, MergeKeepsCursor

\* What a put that is applied does, whether its reply arrives or not.
LEMMA PushAppliedEffect ==
  ASSUME TypeOK, NEW d \in Device, task[d].phase = "push",
         Server!PutApplied(Current(d), Expected(d), vault[d][Current(d)])
  PROVE  LET i == Current(d) IN
         /\ i \in task[d].todo /\ i \in Item
         /\ rows[i].version = state[d].known[i].version
         /\ Server!Write(i, vault[d][i])
         /\ vault[d][i] \in Envelope \cup {NoEnvelope}
<1>1. Current(d) \in task[d].todo /\ Current(d) \in Item
  BY CurrentIsQueued
<1>. QED
  BY <1>1, StateTypes DEF Server!PutApplied, Server!Matches, Expected

LEMMA PushAppliedState ==
  ASSUME TypeOK, NEW d \in Device, PushApplied(d)
  PROVE  LET i == Current(d) IN
         \E s \in SyncState, next \in Task :
           /\ SaveAnd(d, s, next)
           /\ UNCHANGED <<vault, had, purged>>
           /\ s.cursor = state[d].cursor
           /\ s.known[i].fp = vault[d][i]
           /\ s.known[i].version = rows[i].version + 1
           /\ \A j \in Item \ {i} : s.known[j] = state[d].known[j]
           /\ next.phase # "delete" /\ next.todo \subseteq task[d].todo
<1> DEFINE i == Current(d)
           k == [fp |-> vault[d][i], version |-> Expected(d) + 1, deletable |-> TRUE]
           s == Learn(state[d], i, k)
           next == Pushing(task[d].todo \ {i}, 0)
<1>1. /\ SaveAnd(d, s, next) /\ UNCHANGED <<vault, had, purged>>
      /\ i \in Item /\ rows[i].version = state[d].known[i].version
      /\ Expected(d) = state[d].known[i].version
  BY PushAppliedEffect DEF PushApplied, Expected
<1>2. k \in KnownRow /\ k.fp = vault[d][i] /\ k.version = rows[i].version + 1
  BY <1>1, StateTypes DEF KnownRow
<1>3. task[d].todo \ {i} \in SUBSET Item /\ 0 \in 0 .. MaxRetries
  BY StateTypes, SyncAssumption DEF Task
<1>4. next \in Task /\ next.phase # "delete" /\ next.todo \subseteq task[d].todo
  BY <1>3, Tasks
<1>5. state[d] \in SyncState
  BY StateTypes
<1> HIDE DEF k
<1>6. /\ s \in SyncState /\ s.cursor = state[d].cursor /\ s.known[i] = k
      /\ \A j \in Item \ {i} : s.known[j] = state[d].known[j]
  BY <1>1, <1>2, <1>5, LearnEffect
<1> HIDE DEF s, next
<1>. QED
  BY <1>1, <1>2, <1>4, <1>6

LEMMA PushAppliedKeepsCursor ==
  ASSUME CursorInv, NEW d \in Device, PushApplied(d)
  PROVE  CursorInv'
<1> DEFINE i == Current(d)
<1>1. TypeOK /\ AuthorHad
  BY DEF CursorInv
<1>2. i \in Item /\ Server!Write(i, vault[d][i]) /\ vault[d][i] \in Envelope \cup {NoEnvelope}
  BY <1>1, PushAppliedEffect DEF PushApplied
<1>3. \A w \in Value(vault[d][i]) : w \in had[w.by][i]
  BY <1>1, <1>2 DEF AuthorHad
<1>4. PICK s \in SyncState, next \in Task :
        SaveAnd(d, s, next) /\ UNCHANGED <<vault, had, purged>> /\ s.cursor = state[d].cursor
  BY <1>1, PushAppliedState
<1>5. /\ state' \in [Device -> SyncState] /\ saved' \in [Device -> SyncState]
      /\ task' \in [Device -> Task]
      /\ \A e \in Device : /\ state'[e].cursor = state[e].cursor
                           /\ saved'[e].cursor \in {state[e].cursor, saved[e].cursor}
  BY <1>1, <1>4, SaveEffect
<1> HIDE DEF i
<1>. QED
  BY <1>2, <1>3, <1>4, <1>5, WriteKeepsCursor

(***************************************************************************)
(* What a conflict does: s is what the device then knows of the row, and   *)
(* next where the sync goes on.                                            *)
(***************************************************************************)
Conflicted(d, i, s, next) ==
  /\ task[d].phase = "push" /\ i \in task[d].todo
  /\ rows[i].version # state[d].known[i].version
  /\ UNCHANGED <<rows, next_seq, purged>>
  /\ s.cursor = state[d].cursor
  /\ s.known[i].fp = rows[i].envelope /\ s.known[i].version = rows[i].version
  /\ \A j \in Item \ {i} : s.known[j] = state[d].known[j]
  /\ next.phase # "delete" /\ next.todo \subseteq task[d].todo
  /\ \/ task' = [task EXCEPT ![d] = Idle] /\ UNCHANGED <<vault, state, saved, had>>
     \/ /\ SaveAnd(d, s, next)
        /\ \/ rows[i].envelope = NoEnvelope /\ UNCHANGED <<vault, had>>
           \/ Stored(d, {i})
     \/ /\ "merge" \in Faults
        /\ state' = [state EXCEPT ![d] = s] /\ task' = [task EXCEPT ![d] = Idle]
        /\ UNCHANGED <<vault, saved, had>>

LEMMA ConflictEffect ==
  ASSUME TypeOK, NEW d \in Device, PushConflict(d)
  PROVE  \E i \in Item, s \in SyncState, next \in Task : Conflicted(d, i, s, next)
<1> DEFINE i == Current(d)
           r == rows[i]
           K(b) == [fp |-> r.envelope, version |-> r.version, deletable |-> b]
           S(b) == Learn(state[d], i, K(b))
           V == [vault[d] EXCEPT ![i] = Merged(d, i, r.envelope)]
<1>1. task[d].phase = "push" /\ i \in task[d].todo /\ i \in Item
  BY CurrentIsQueued DEF PushConflict
<1>2. r.version # state[d].known[i].version /\ UNCHANGED <<rows, next_seq>>
  BY DEF PushConflict, Server!PutConflict, Server!Matches, Server!storeVars
<1>3. \A b \in BOOLEAN : K(b) \in KnownRow /\ K(b).fp = r.envelope /\ K(b).version = r.version
  BY <1>1, StateTypes DEF KnownRow
<1>4. state[d] \in SyncState /\ state[d].known[i].deletable \in BOOLEAN
  BY <1>1, StateTypes DEF KnownRow
<1>5. ASSUME NEW b \in BOOLEAN
      PROVE  /\ S(b) \in SyncState /\ S(b).cursor = state[d].cursor
             /\ S(b).known[i].fp = r.envelope /\ S(b).known[i].version = r.version
             /\ \A j \in Item \ {i} : S(b).known[j] = state[d].known[j]
  <2>1. K(b) \in KnownRow /\ K(b).fp = r.envelope /\ K(b).version = r.version
    BY <1>3
  <2> HIDE DEF K
  <2>2. /\ S(b) \in SyncState /\ S(b).cursor = state[d].cursor /\ S(b).known[i] = K(b)
        /\ \A j \in Item \ {i} : S(b).known[j] = state[d].known[j]
    BY <1>1, <1>4, <2>1, LearnEffect
  <2>. QED
    BY <2>1, <2>2
<1>6. ASSUME NEW v, NEW s
      PROVE  /\ AfterConflict(d, v, s) \in Task /\ AfterConflict(d, v, s).phase # "delete"
             /\ AfterConflict(d, v, s).todo \subseteq task[d].todo
  <2>1. /\ task[d].todo \in SUBSET Item /\ task[d].todo \ {i} \in SUBSET Item
        /\ task[d].tries \in 0 .. MaxRetries /\ MaxRetries \in Nat /\ 0 \in 0 .. MaxRetries
    BY StateTypes, SyncAssumption DEF Task
  <2>2. Idle \in Task /\ Idle.phase # "delete" /\ Idle.todo = {}
    BY <2>1, Tasks
  <2>3. /\ Pushing(task[d].todo \ {i}, 0) \in Task
        /\ Pushing(task[d].todo \ {i}, 0).todo = task[d].todo \ {i}
        /\ Pushing(task[d].todo \ {i}, 0).phase # "delete"
    BY <2>1, Tasks
  <2>4. ASSUME task[d].tries # MaxRetries
        PROVE  /\ Pushing(task[d].todo, task[d].tries + 1) \in Task
               /\ Pushing(task[d].todo, task[d].tries + 1).todo = task[d].todo
               /\ Pushing(task[d].todo, task[d].tries + 1).phase # "delete"
    <3>1. task[d].tries + 1 \in 0 .. MaxRetries
      BY <2>1, <2>4
    <3>. QED
      BY <2>1, <3>1, Tasks
  <2>. QED
    BY <2>2, <2>3, <2>4 DEF AfterConflict
<1>7. ASSUME r.envelope # NoEnvelope, vault' = [vault EXCEPT ![d] = V],
             had' = [had EXCEPT ![d][i] = had[d][i] \cup r.envelope.value]
      PROVE  Stored(d, {i})
  <2> DEFINE m == Merged(d, i, r.envelope)
             u == had[d][i] \cup r.envelope.value
  <2>1. r.envelope \in Envelope /\ r.envelope.value \in SUBSET Writes
    BY <1>1, <1>7, StateTypes DEF Envelope
  <2>2. m \in Envelope /\ m.value = Value(vault[d][i]) \cup r.envelope.value
    BY <1>1, <2>1, MergedHolds
  <2>3. Value(m) = Value(vault[d][i]) \cup Value(r.envelope) /\ Value(r.envelope) = r.envelope.value
    BY <1>7, <2>2, EnvelopeAssumption DEF Value
  <2>4. u \in SUBSET Writes /\ u = had[d][i] \cup Value(r.envelope)
    BY <1>1, <2>1, <2>3, StateTypes
  <2>5. /\ vault \in [Device -> [Item -> Envelope \cup {NoEnvelope}]]
        /\ had \in [Device -> [Item -> SUBSET Writes]]
    BY DEF TypeOK
  <2> HIDE DEF m, u
  <2>6. vault' = [vault EXCEPT ![d] = [vault[d] EXCEPT ![i] = m]] /\ had' = [had EXCEPT ![d][i] = u]
    BY <1>7 DEF m, u
  <2>. QED
    BY <1>1, <1>7, <2>2, <2>3, <2>4, <2>5, <2>6 DEF Stored
<1>8. CASE GiveUp(d)
  <2>1. Conflicted(d, i, S(TRUE), AfterConflict(d, vault[d], S(TRUE)))
    BY <1>1, <1>2, <1>5, <1>6, <1>8 DEF Conflicted, GiveUp
  <2>. QED
    BY <1>1, <1>5, <1>6, <2>1
<1>9. ASSUME NEW b \in BOOLEAN, SaveAnd(d, S(b), AfterConflict(d, vault[d], S(b))),
             r.envelope = NoEnvelope, UNCHANGED <<vault, had, purged>>
      PROVE  \E s \in SyncState, next \in Task : Conflicted(d, i, s, next)
  <2>1. Conflicted(d, i, S(b), AfterConflict(d, vault[d], S(b)))
    <3> HIDE DEF S
    <3>. QED
      BY <1>1, <1>2, <1>5, <1>6, <1>9 DEF Conflicted
  <2>. QED
    BY <1>1, <1>5, <1>6, <2>1
<1>10. ASSUME Stored(d, {i}), SaveAnd(d, S(TRUE), AfterConflict(d, V, S(TRUE))), UNCHANGED purged
       PROVE  \E s \in SyncState, next \in Task : Conflicted(d, i, s, next)
  <2>1. Conflicted(d, i, S(TRUE), AfterConflict(d, V, S(TRUE)))
    <3> HIDE DEF S, V
    <3>. QED
      BY <1>1, <1>2, <1>5, <1>6, <1>10 DEF Conflicted
  <2>. QED
    BY <1>1, <1>5, <1>6, <2>1
<1>11. ASSUME "merge" \in Faults, state' = [state EXCEPT ![d] = S(TRUE)],
              task' = [task EXCEPT ![d] = Idle], UNCHANGED <<vault, saved, had, purged>>
       PROVE  \E s \in SyncState, next \in Task : Conflicted(d, i, s, next)
  <2>1. Conflicted(d, i, S(TRUE), AfterConflict(d, V, S(TRUE)))
    <3> HIDE DEF S, V
    <3>. QED
      BY <1>1, <1>2, <1>5, <1>6, <1>11 DEF Conflicted
  <2>. QED
    BY <1>1, <1>5, <1>6, <2>1
<1>12. \/ GiveUp(d)
       \/ /\ r.envelope = NoEnvelope /\ UNCHANGED <<vault, had, purged>>
          /\ \E b \in BOOLEAN : SaveAnd(d, S(b), AfterConflict(d, vault[d], S(b)))
       \/ /\ r.envelope # NoEnvelope /\ vault' = [vault EXCEPT ![d] = V]
          /\ had' = [had EXCEPT ![d][i] = had[d][i] \cup r.envelope.value]
          /\ SaveAnd(d, S(TRUE), AfterConflict(d, V, S(TRUE))) /\ UNCHANGED purged
       \/ /\ "merge" \in Faults /\ state' = [state EXCEPT ![d] = S(TRUE)]
          /\ task' = [task EXCEPT ![d] = Idle] /\ UNCHANGED <<vault, saved, had, purged>>
  <2>1. ASSUME Server!Reclaimed(i),
               SaveAnd(d, Learn(state[d], i, [fp |-> NoEnvelope, version |-> r.version,
                                              deletable |-> state[d].known[i].deletable]),
                       AfterConflict(d, vault[d],
                         Learn(state[d], i, [fp |-> NoEnvelope, version |-> r.version,
                                             deletable |-> state[d].known[i].deletable])))
        PROVE  r.envelope = NoEnvelope /\
               \E b \in BOOLEAN : SaveAnd(d, S(b), AfterConflict(d, vault[d], S(b)))
    <3>1. r.envelope = NoEnvelope
      BY <2>1 DEF Server!Reclaimed
    <3>. QED
      BY <1>4, <2>1, <3>1
  <2>. QED
    BY <2>1, Zenon DEF PushConflict
<1> HIDE DEF S, V, i
<1>. QED
  BY <1>1, <1>7, <1>8, <1>9, <1>10, <1>11, <1>12

LEMMA ConflictKeepsCursor ==
  ASSUME CursorInv, NEW d \in Device, PushConflict(d)
  PROVE  CursorInv'
<1>1. TypeOK /\ SeqAllocated
  BY DEF CursorInv
<1>2. PICK i \in Item, s \in SyncState, next \in Task : Conflicted(d, i, s, next)
  BY <1>1, ConflictEffect
<1>3. Idle \in Task
  BY Tasks, SyncAssumption DEF Idle, Task
<1>4. s.cursor = state[d].cursor /\ UNCHANGED <<rows, next_seq, purged>>
  BY <1>2 DEF Conflicted
<1>5. CASE task' = [task EXCEPT ![d] = Idle] /\ UNCHANGED <<vault, state, saved, had>>
  BY <1>3, <1>4, <1>5, TaskKeepsCursor
<1>6. CASE SaveAnd(d, s, next)
  <2>1. /\ state' \in [Device -> SyncState] /\ saved' \in [Device -> SyncState]
        /\ task' \in [Device -> Task]
        /\ \A e \in Device \ {d} : state'[e] = state[e] /\ saved'[e] = saved[e]
        /\ state'[d] = s /\ saved'[d] \in {s, saved[d]}
    BY <1>1, <1>2, <1>6, SaveEffect
  <2>2. CASE UNCHANGED <<vault, had>>
    <3>1. \A e \in Device : /\ state'[e].cursor \in {0, state[e].cursor, saved[e].cursor}
                            /\ saved'[e].cursor \in {0, state[e].cursor, saved[e].cursor}
      BY <1>4, <2>1
    <3>. QED
      BY <1>4, <2>1, <2>2, <3>1, NotedKeepsCursor
  <2>3. CASE Stored(d, {i})
    <3>1. state'[d].cursor = state[d].cursor /\ {i} \in SUBSET Item
      BY <1>4, <2>1
    <3>2. state'[d].cursor < next_seq
      BY <1>1, <3>1 DEF SeqAllocated
    <3>. QED
      BY <1>4, <2>1, <2>3, <3>1, <3>2, MergeKeepsCursor
  <2>. QED
    BY <1>2, <1>6, <2>2, <2>3 DEF Conflicted
<1>7. CASE /\ state' = [state EXCEPT ![d] = s] /\ task' = [task EXCEPT ![d] = Idle]
           /\ UNCHANGED <<vault, saved, had>>
  <2>1. /\ state' \in [Device -> SyncState] /\ saved' \in [Device -> SyncState]
        /\ task' \in [Device -> Task]
        /\ \A e \in Device : /\ state'[e].cursor = state[e].cursor
                             /\ saved'[e].cursor = saved[e].cursor
    BY <1>1, <1>3, <1>4, <1>7 DEF TypeOK
  <2>. QED
    BY <1>4, <1>7, <2>1, NotedKeepsCursor
<1>. QED
  BY <1>2, <1>5, <1>6, <1>7 DEF Conflicted

LEMMA StartKeepsCursor ==
  ASSUME CursorInv, NEW d \in Device, StartSync(d)
  PROVE  CursorInv'
<1> DEFINE q == PendingDeletes(vault[d], state[d])
<1>1. q \in SUBSET Item /\ 0 \in 0 .. MaxRetries
  BY SyncAssumption DEF PendingDeletes
<1>2. Deleting(q) \in Task
  BY <1>1, Tasks
<1>3. /\ task' = [task EXCEPT ![d] = Deleting(q)]
      /\ UNCHANGED <<rows, next_seq, vault, state, saved, had, purged>>
  BY DEF StartSync
<1> HIDE DEF q
<1>. QED
  BY <1>2, <1>3, TaskKeepsCursor

LEMMA ReplyLostKeepsCursor ==
  ASSUME CursorInv, NEW d \in Device, ReplyLost(d)
  PROVE  CursorInv'
<1>1. TypeOK /\ AuthorHad
  BY DEF CursorInv
<1>2. Idle \in Task
  BY Tasks, SyncAssumption DEF Idle, Task
<1>3. /\ UNCHANGED <<vault, state, saved, had, purged>> /\ task' = [task EXCEPT ![d] = Idle]
  BY DEF ReplyLost, GiveUp
<1>4. /\ state' \in [Device -> SyncState] /\ saved' \in [Device -> SyncState]
      /\ task' \in [Device -> Task]
  BY <1>1, <1>2, <1>3 DEF TypeOK
<1>5. CASE task[d].phase = "delete" /\ Server!DeleteApplied(Current(d), Expected(d))
  <2>1. Current(d) \in Item /\ Server!Write(Current(d), NoEnvelope)
    BY <1>1, <1>5, CurrentIsQueued DEF Server!DeleteApplied
  <2>2. Value(NoEnvelope) = {}
    BY DEF Value
  <2>. QED
    BY <1>3, <1>4, <2>1, <2>2, WriteKeepsCursor
<1>6. CASE /\ task[d].phase = "push"
           /\ Server!PutApplied(Current(d), Expected(d), vault[d][Current(d)])
  <2> DEFINE i == Current(d)
  <2>1. i \in Item /\ Server!Write(i, vault[d][i]) /\ vault[d][i] \in Envelope \cup {NoEnvelope}
    BY <1>1, <1>6, PushAppliedEffect
  <2>2. \A w \in Value(vault[d][i]) : w \in had[w.by][i]
    BY <1>1, <2>1 DEF AuthorHad
  <2> HIDE DEF i
  <2>. QED
    BY <1>3, <1>4, <2>1, <2>2, WriteKeepsCursor
<1>. QED
  BY <1>5, <1>6 DEF ReplyLost

LEMMA RequestFailsKeepsCursor ==
  ASSUME CursorInv, NEW d \in Device, RequestFails(d)
  PROVE  CursorInv'
<1>1. Idle \in Task
  BY Tasks, SyncAssumption DEF Idle, Task
<1>2. /\ task' = [task EXCEPT ![d] = Idle]
      /\ UNCHANGED <<rows, next_seq, vault, state, saved, had, purged>>
  BY DEF RequestFails, GiveUp
<1>. QED
  BY <1>1, <1>2, TaskKeepsCursor

\* The engine starts from the saved state, or from nothing.
LEMMA RestartKeepsCursor ==
  ASSUME CursorInv, NEW d \in Device, Restart(d) \/ Reset(d)
  PROVE  CursorInv'
<1>1. TypeOK
  BY DEF CursorInv
<1>2. Idle \in Task
  BY Tasks, SyncAssumption DEF Idle, Task
<1>3. UNCHANGED <<rows, next_seq, vault, had, purged>>
  BY DEF Restart, Reset
<1>4. CASE Restart(d)
  <2>1. /\ state' \in [Device -> SyncState] /\ saved' \in [Device -> SyncState]
        /\ task' \in [Device -> Task]
        /\ \A e \in Device : /\ state'[e].cursor \in {state[e].cursor, saved[e].cursor}
                             /\ saved'[e].cursor = saved[e].cursor
    BY <1>1, <1>2, <1>4 DEF Restart, TypeOK
  <2>. QED
    BY <1>3, <2>1, NotedKeepsCursor
<1>5. CASE Reset(d)
  <2>1. NewState.cursor = 0 /\ NewState \in SyncState
    BY NewStates DEF NewState
  <2>2. SaveAnd(d, NewState, Idle)
    BY <1>5 DEF Reset
  <2>3. /\ state' \in [Device -> SyncState] /\ saved' \in [Device -> SyncState]
        /\ task' \in [Device -> Task]
        /\ \A e \in Device : /\ state'[e].cursor \in {0, state[e].cursor}
                             /\ saved'[e].cursor \in {0, saved[e].cursor}
    BY <1>1, <1>2, <2>1, <2>2, SaveEffect
  <2>. QED
    BY <1>3, <2>3, NotedKeepsCursor
<1>. QED
  BY <1>4, <1>5

LEMMA SweepKeepsCursor ==
  ASSUME CursorInv, NEW S \in SUBSET Item, SweepRows(S)
  PROVE  CursorInv'
<1> USE DEF CursorInv
<1>1. UNCHANGED <<next_seq, vault, state, saved, task, had, purged>>
  BY DEF SweepRows, Server!Sweep
<1>2. \A i \in Item : rows'[i] = IF i \in S THEN Server!Absent ELSE rows[i]
  BY DEF SweepRows, Server!Sweep
<1>3. Server!StoreTypeOK'
  BY DEF SweepRows, Server!Sweep, TypeOK, Server!StoreTypeOK, Server!Row, Server!Absent
<1>4. TypeOK'
  BY <1>1, <1>3 DEF TypeOK
<1>5. AuthorHad'
  BY <1>1, <1>2 DEF AuthorHad, Value, Server!Absent
<1>6. StampsFilled'
  BY <1>1 DEF StampsFilled, AllWrites
<1>7. next_seq > 0
  BY DEF TypeOK, Server!StoreTypeOK
<1>8. SeqAllocated'
  BY <1>1, <1>2, <1>7 DEF SeqAllocated, Server!Absent
<1>9. \A d \in Device : Covers(rows', state'[d], had'[d]) /\ Covers(rows', saved'[d], had'[d])
  BY <1>1, <1>2 DEF Covers, Server!Absent
<1>. QED
  BY <1>4, <1>5, <1>6, <1>8, <1>9

LEMMA CursorStep ==
  ASSUME CursorInv, [Next]_vars
  PROVE  CursorInv'
<1>1. CASE UNCHANGED vars
  <2>1. /\ UNCHANGED <<rows, next_seq, vault, state, saved, task, had, purged>>
        /\ state \in [Device -> SyncState] /\ saved \in [Device -> SyncState]
        /\ task \in [Device -> Task]
    BY <1>1 DEF vars, CursorInv, TypeOK
  <2>. QED
    BY <2>1, NotedKeepsCursor
<1>2. ASSUME NEW d \in Device, NEW i \in Item,
             Create(d, i) \/ Edit(d, i) \/ DeleteItem(d, i)
      PROVE  CursorInv'
  BY <1>2, CommitKeepsCursor DEF Create, Edit, DeleteItem
<1>3. CASE Next
  BY <1>2, <1>3, PurgeKeepsCursor, RewrapKeepsCursor, StartKeepsCursor, PushDeleteKeepsCursor,
     PullKeepsCursor, PushAppliedKeepsCursor, ConflictKeepsCursor, RequestFailsKeepsCursor,
     ReplyLostKeepsCursor, RestartKeepsCursor, SweepKeepsCursor, Zenon DEF Next
<1>. QED
  BY <1>1, <1>3

-----------------------------------------------------------------------------
LEMMA CursorInit == Init => CursorInv
<1>1. ASSUME Init PROVE CursorInv
  <2> USE <1>1 DEF Init
  <2>1. /\ \A i \in Item : rows[i] = Server!Absent
        /\ next_seq = 1 /\ Server!StoreTypeOK
    BY DEF Server!StoreInit, Server!StoreTypeOK, Server!Row, Server!Absent
  <2>2. Idle \in Task
    BY Tasks, SyncAssumption DEF Idle, Task
  <2>3. TypeOK
    BY <2>1, <2>2, NewStates DEF TypeOK
  <2>4. AllWrites = {}
    BY DEF AllWrites
  <2>5. AuthorHad
    BY <2>1 DEF AuthorHad, Value, Server!Absent
  <2>6. SeqAllocated
    BY <2>1 DEF SeqAllocated, Server!Absent, NewState
  <2>7. \A d \in Device : Covers(rows, state[d], had[d]) /\ Covers(rows, saved[d], had[d])
    BY <2>1 DEF Covers, Server!Absent
  <2>. QED
    BY <2>3, <2>4, <2>5, <2>6, <2>7 DEF CursorInv, StampsFilled
<1>. QED
  BY <1>1

(***************************************************************************)
(* For every number of devices and items, whatever fails, and with every   *)
(* local operation: apply_page and the state store never let a cursor, the *)
(* running or the saved one, pass a row that is not merged.                *)
(***************************************************************************)
THEOREM CursorIsCovered == Spec => []CursorCoversMerged
<1>1. CursorInv => CursorCoversMerged
  <2>1. ASSUME CursorInv, NEW d \in Device
        PROVE  Max({state[d].cursor, saved[d].cursor}) \in {state[d].cursor, saved[d].cursor}
    <3>1. state[d].cursor \in Nat /\ saved[d].cursor \in Nat
      BY <2>1, StateTypes DEF CursorInv
    <3>2. CASE state[d].cursor <= saved[d].cursor
      <4>1. Max({state[d].cursor, saved[d].cursor}) = saved[d].cursor
        BY <3>1, <3>2, MaxIsGreatest
      <4>. QED
        BY <4>1
    <3>3. CASE saved[d].cursor <= state[d].cursor
      <4>1. Max({state[d].cursor, saved[d].cursor}) = state[d].cursor
        BY <3>1, <3>3, MaxIsGreatest
      <4>. QED
        BY <4>1
    <3>. QED
      BY <3>1, <3>2, <3>3
  <2>. QED
    BY <2>1 DEF CursorInv, CursorCoversMerged, Covers
<1>2. CursorInv /\ [Next]_vars => CursorInv'
  BY CursorStep
<1>. QED
  BY <1>1, <1>2, CursorInit, PTL DEF Spec
-----------------------------------------------------------------------------
(***************************************************************************)
(* What keeps a state sound, as facts about rows, vaults and states.       *)
(***************************************************************************)
RowsTyped(R) == \A i \in Item : R[i].version \in Nat /\ R[i].seq \in Nat

LEMMA RowsAreTyped == TypeOK => RowsTyped(rows)
  BY DEF TypeOK, Server!StoreTypeOK, Server!Row, RowsTyped

LEMMA ValueOfNone == Value(NoEnvelope) = {}
  BY DEF Value

\* A write to row i by somebody who has merged it, or collected it.
LEMMA SoundAfterWrite ==
  ASSUME NEW R, NEW T, NEW V, NEW P, NEW s \in SyncState, NEW d \in Device,
         StateIsSound(R, V, P, s, d), RowsTyped(R),
         NEW i \in Item, T[i].version = R[i].version + 1,
         \A j \in Item \ {i} : T[j] = R[j],
         \/ Value(R[i].envelope) \subseteq Value(T[i].envelope)
         \/ \E e \in Device : \E c \in P[e][i] : Value(R[i].envelope) \subseteq c
  PROVE  StateIsSound(T, V, P, s, d)
<1> USE DEF StateIsSound
<1>1. \A j \in Item : s.known[j].version \in Nat /\ R[j].version \in Nat
  BY DEF SyncState, KnownRow, RowsTyped
<1>2. NotAhead(T, s)
  BY <1>1 DEF NotAhead
<1>3. CurrentIsMerged(T, s, V[d], P[d])
  <2>1. SUFFICES ASSUME NEW j \in Item, s.known[j].version = T[j].version
                 PROVE  HasMerged(T, V[d], P[d], j) \/ ("merge" \in Faults /\ T[j].seq > s.cursor)
    BY DEF CurrentIsMerged
  <2>2. j # i
    BY <1>1, <2>1 DEF NotAhead
  <2>. QED
    BY <2>1, <2>2 DEF CurrentIsMerged, HasMerged
<1>4. FpIsDurable(T, s, P)
  <2>1. SUFFICES ASSUME NEW j \in Item
                 PROVE  \/ Value(s.known[j].fp) \subseteq Value(T[j].envelope)
                        \/ \E e \in Device : \E c \in P[e][j] : Value(s.known[j].fp) \subseteq c
    BY DEF FpIsDurable
  <2>2. CASE j # i
    BY <2>2 DEF FpIsDurable
  <2>3. CASE j = i /\ Value(s.known[i].fp) \subseteq Value(R[i].envelope)
    BY <2>3
  <2>4. CASE j = i /\ \E e \in Device : \E c \in P[e][i] : Value(s.known[i].fp) \subseteq c
    BY <2>4
  <2>. QED
    BY <2>2, <2>3, <2>4 DEF FpIsDurable
<1>. QED
  BY <1>2, <1>3, <1>4

\* The device learns what it is to know of row i, which it has merged.
LEMMA SoundAfterLearning ==
  ASSUME NEW R, NEW V, NEW P, NEW s \in SyncState, NEW t \in SyncState, NEW d \in Device,
         NEW i \in Item, RowsTyped(R),
         StateIsSound(R, V, P, s, d), t.cursor = s.cursor,
         \A j \in Item \ {i} : t.known[j] = s.known[j],
         t.known[i].version <= R[i].version,
         t.known[i].version = R[i].version =>
           HasMerged(R, V[d], P[d], i) \/ ("merge" \in Faults /\ R[i].seq > s.cursor),
         Value(t.known[i].fp) \subseteq Value(R[i].envelope)
  PROVE  StateIsSound(R, V, P, t, d)
<1> USE DEF StateIsSound
<1>1. NotAhead(R, t)
  BY DEF NotAhead
<1>2. CurrentIsMerged(R, t, V[d], P[d])
  BY DEF CurrentIsMerged
<1>3. FpIsDurable(R, t, P)
  BY DEF FpIsDurable
<1>. QED
  BY <1>1, <1>2, <1>3

\* The vault changes, and keeps what it has merged; more is collected.
LEMMA SoundAfterMerge ==
  ASSUME NEW R, NEW V, NEW W, NEW P, NEW Q, NEW s, NEW d \in Device,
         StateIsSound(R, V, P, s, d),
         \A i \in Item : HasMerged(R, V[d], P[d], i) => HasMerged(R, W[d], Q[d], i),
         \A e \in Device, i \in Item : P[e][i] \subseteq Q[e][i]
  PROVE  StateIsSound(R, W, Q, s, d)
<1> USE DEF StateIsSound
<1>1. CurrentIsMerged(R, s, W[d], Q[d])
  BY DEF CurrentIsMerged
<1>2. FpIsDurable(R, s, Q)
  <2>1. SUFFICES ASSUME NEW j \in Item
                 PROVE  \/ Value(s.known[j].fp) \subseteq Value(R[j].envelope)
                        \/ \E e \in Device : \E x \in Q[e][j] : Value(s.known[j].fp) \subseteq x
    BY DEF FpIsDurable
  <2>2. CASE \E e \in Device : \E x \in P[e][j] : Value(s.known[j].fp) \subseteq x
    <3>1. PICK e \in Device : \E x \in P[e][j] : Value(s.known[j].fp) \subseteq x
      BY <2>2
    <3>. QED
      BY <3>1
  <2>. QED
    BY <2>2 DEF FpIsDurable
<1>. QED
  BY <1>1, <1>2
-----------------------------------------------------------------------------
(***************************************************************************)
(* EngineInv is kept by every action.                                      *)
(***************************************************************************)
\* The parts of EngineInv beyond CursorInv, to be shown after each action.
LEMMA EngineParts ==
  ASSUME EngineInv
  PROVE  /\ TypeOK /\ AuthorHad /\ SeqAllocated /\ RowsTyped(rows)
         /\ \A d \in Device : QueueFits(rows, vault[d], state[d], task[d])
         /\ \A d \in Device : Covers(rows, state[d], had[d])
         /\ "purge" \notin Operations => NothingCollected
         /\ \A i \in Item : rows[i].version = 0 => rows[i].envelope = NoEnvelope
         /\ \A d \in Device : /\ StateIsSound(rows, vault, purged, state[d], d)
                              /\ StateIsSound(rows, vault, purged, saved[d], d)
  BY RowsAreTyped DEF EngineInv, CursorInv

\* What a queue promises is about the rows it names and no others.
LEMMA QueueReadsItsRows ==
  ASSUME NEW R, NEW v, NEW w, NEW s, NEW t, QueueFits(R, v, s, t),
         \A i \in t.todo : w[i] = v[i]
  PROVE  QueueFits(R, w, s, t)
  BY DEF QueueFits

\* d's vault is written while it is idle; the row keeps its value or more.
LEMMA CommitKeepsEngine ==
  ASSUME EngineInv, CursorInv', NEW d \in Device, NEW i \in Item, NEW dead \in BOOLEAN,
         task[d].phase = "idle", Commit(d, i, dead),
         vault[d][i] # NoEnvelope \/ \A e \in Device : had[e][i] = {}
  PROVE  EngineInv'
<1> USE EngineParts
<1>1. PICK w \in Writes :
           /\ vault'[d][i] \in Envelope
           /\ vault'[d][i].value = Value(vault[d][i]) \cup {w}
           /\ \A e \in Device, j \in Item : <<e, j>> # <<d, i>> =>
                vault'[e][j] = vault[e][j] /\ had'[e][j] = had[e][j]
           /\ had'[d][i] = had[d][i] \cup {w}
  BY CommitEffect DEF EngineInv, CursorInv
<1>2. vault'[d][i] # NoEnvelope /\ Value(vault'[d][i]) = Value(vault[d][i]) \cup {w}
  BY <1>1, EnvelopeAssumption DEF Value
<1>3. UNCHANGED <<rows, next_seq, state, saved, task, purged>>
  BY DEF Commit
<1>4. ASSUME NEW e \in Device PROVE QueueFits(rows, vault'[e], state[e], task[e])
  <2>1. task[d].todo = {}
    BY StateTypes DEF Task
  <2>2. ASSUME NEW j \in task[e].todo PROVE vault'[e][j] = vault[e][j]
    <3>1. j \in Item /\ e # d
      BY <2>1, <2>2, StateTypes DEF Task
    <3>. QED
      BY <1>1, <3>1
  <2>3. QueueFits(rows, vault[e], state[e], task[e])
    OBVIOUS
  <2>. QED
    BY <2>2, <2>3, QueueReadsItsRows
<1>5. "purge" \notin Operations => NothingCollected'
  <2>1. ASSUME "purge" \notin Operations, NEW e \in Device, NEW j \in Item
        PROVE  /\ had'[e][j] = Value(vault'[e][j])
               /\ state[e].known[j].deletable \/ saved[e].known[j].deletable
                    => vault'[e][j] # NoEnvelope
    <3>1. CASE e = d /\ j = i
      BY <1>1, <1>2, <2>1, <3>1 DEF NothingCollected
    <3>2. CASE ~(e = d /\ j = i)
      BY <1>1, <2>1, <3>2 DEF NothingCollected
    <3>. QED
      BY <3>1, <3>2
  <2>. QED
    BY <1>3, <2>1 DEF NothingCollected, Server!Reclaimed
<1>6. vault[d][i] = NoEnvelope => Value(rows[i].envelope) = {}
  <2>1. ASSUME vault[d][i] = NoEnvelope, NEW x \in Value(rows[i].envelope) PROVE FALSE
    <3>1. x \in had[x.by][i]
      BY DEF AuthorHad
    <3>2. x \in Writes
      BY StateTypes DEF Value, Envelope
    <3>. QED
      BY <2>1, <3>1, <3>2 DEF Writes
  <2>. QED
    BY <2>1
<1>7. \A e \in Device, j \in Item :
        HasMerged(rows, vault[e], purged[e], j) => HasMerged(rows, vault'[e], purged[e], j)
  <2>1. ASSUME HasMerged(rows, vault[d], purged[d], i)
        PROVE  HasMerged(rows, vault'[d], purged[d], i)
    BY <1>2, <1>6, <2>1 DEF HasMerged
  <2>. QED
    BY <1>1, <2>1 DEF HasMerged
<1>8. ASSUME NEW e \in Device
      PROVE  /\ StateIsSound(rows, vault', purged, state[e], e)
             /\ StateIsSound(rows, vault', purged, saved[e], e)
  BY <1>7, SoundAfterMerge
<1>. QED
  BY <1>3, <1>4, <1>5, <1>8 DEF EngineInv

LEMMA PurgeKeepsEngine ==
  ASSUME EngineInv, CursorInv', VersionsStay,
         NEW d \in Device, NEW S \in SUBSET Item, PurgeTombstones(d, S)
  PROVE  EngineInv'
<1> USE EngineParts
<1>1. /\ UNCHANGED <<rows, next_seq, state, saved, task, had>>
      /\ "purge" \in Operations /\ task[d].phase = "idle"
  BY DEF PurgeTombstones, CanWrite
<1>2. /\ \A e \in Device \ {d} : vault'[e] = vault[e] /\ purged'[e] = purged[e]
      /\ \A i \in Item \ S : vault'[d][i] = vault[d][i] /\ purged'[d][i] = purged[d][i]
      /\ \A i \in S : /\ vault'[d][i] = NoEnvelope
                      /\ purged'[d][i] = purged[d][i] \cup {Value(vault[d][i])}
  BY DEF PurgeTombstones, TypeOK
<1>3. ASSUME NEW e \in Device PROVE QueueFits(rows, vault'[e], state[e], task[e])
  <2>1. task[e].todo # {} => e # d
    BY <1>1, StateTypes DEF Task
  <2>2. CASE e # d
    BY <1>2, <2>2
  <2>3. CASE task[e].todo = {}
    BY <2>3 DEF QueueFits
  <2>. QED
    BY <2>1, <2>2, <2>3
<1>4. \A e \in Device, i \in Item :
        HasMerged(rows, vault[e], purged[e], i) => HasMerged(rows, vault'[e], purged'[e], i)
  <2>1. ASSUME NEW i \in S, HasMerged(rows, vault[d], purged[d], i)
        PROVE  HasMerged(rows, vault'[d], purged'[d], i)
    BY <1>2, <2>1 DEF HasMerged
  <2>2. ASSUME NEW i \in Item \ S, HasMerged(rows, vault[d], purged[d], i)
        PROVE  HasMerged(rows, vault'[d], purged'[d], i)
    BY <1>2, <2>2 DEF HasMerged
  <2>. QED
    BY <1>2, <2>1, <2>2
<1>5. \A e \in Device, i \in Item : purged[e][i] \subseteq purged'[e][i]
  BY <1>2
<1>6. ASSUME NEW e \in Device
      PROVE  /\ StateIsSound(rows, vault', purged', state[e], e)
             /\ StateIsSound(rows, vault', purged', saved[e], e)
  BY <1>4, <1>5, SoundAfterMerge
<1>. QED
  BY <1>1, <1>3, <1>6 DEF EngineInv

LEMMA RewrapKeepsEngine ==
  ASSUME EngineInv, CursorInv', NEW d \in Device, NEW i \in Item, Rewrap(d, i)
  PROVE  EngineInv'
<1> USE EngineParts
<1> DEFINE E == Seal(d, i, vault[d][i].value)
<1>1. /\ UNCHANGED <<rows, next_seq, state, saved, task, had, purged>>
      /\ vault[d][i] # NoEnvelope
  BY DEF Rewrap
<1>2. vault[d][i] \in Envelope /\ vault[d][i].value \in SUBSET Writes
  BY <1>1, StateTypes DEF Envelope
<1>3. E \in Envelope /\ E.value = vault[d][i].value
  BY <1>2, SealHolds
<1>4. vault \in [Device -> [Item -> Envelope \cup {NoEnvelope}]] /\ vault' = [vault EXCEPT ![d][i] = E]
  BY DEF TypeOK, Rewrap
<1> HIDE DEF E
<1>5. \A e \in Device, j \in Item : vault'[e][j] = vault[e][j] \/ (e = d /\ j = i /\ vault'[e][j] = E)
  BY <1>4
<1>6. \A e \in Device, j \in Item : /\ Value(vault'[e][j]) = Value(vault[e][j])
                                    /\ vault'[e][j] = NoEnvelope <=> vault[e][j] = NoEnvelope
  BY <1>2, <1>3, <1>5, EnvelopeAssumption DEF Value
<1>7. ASSUME NEW e \in Device PROVE QueueFits(rows, vault'[e], state[e], task[e])
  <2>1. \A j \in task[e].todo : j \in Item
    BY StateTypes DEF Task
  <2>. QED
    BY <1>6, <2>1 DEF QueueFits
<1>8. "purge" \notin Operations => NothingCollected'
  <2>1. ASSUME "purge" \notin Operations, NEW e \in Device, NEW j \in Item
        PROVE  /\ had[e][j] = Value(vault'[e][j])
               /\ state[e].known[j].deletable \/ saved[e].known[j].deletable
                    => vault'[e][j] # NoEnvelope
    BY <1>6, <2>1 DEF NothingCollected
  <2>. QED
    BY <1>1, <2>1 DEF NothingCollected, Server!Reclaimed
<1>9. ASSUME NEW e \in Device, NEW j \in Item, HasMerged(rows, vault[e], purged[e], j)
      PROVE  HasMerged(rows, vault'[e], purged[e], j)
  BY <1>6, <1>9 DEF HasMerged
<1>10. ASSUME NEW e \in Device
       PROVE  /\ StateIsSound(rows, vault', purged, state[e], e)
              /\ StateIsSound(rows, vault', purged, saved[e], e)
  BY <1>9, SoundAfterMerge
<1>. QED
  BY <1>1, <1>7, <1>8, <1>10 DEF EngineInv

\* Steps that change where a sync is, and nothing else.
LEMMA TaskKeepsEngine ==
  ASSUME EngineInv, CursorInv', NEW d \in Device, NEW next, task' = [task EXCEPT ![d] = next],
         UNCHANGED <<rows, next_seq, vault, state, saved, had, purged>>,
         next.phase # "push",
         \A i \in next.todo : vault[d][i] = NoEnvelope /\ state[d].known[i].deletable
  PROVE  EngineInv'
<1> USE EngineParts
<1>1. task'[d] = next /\ \A e \in Device \ {d} : task'[e] = task[e]
  BY DEF TypeOK
<1>2. ASSUME NEW e \in Device PROVE QueueFits(rows, vault[e], state[e], task'[e])
  <2>1. QueueFits(rows, vault[d], state[d], next)
    BY DEF QueueFits
  <2>. QED
    BY <1>1, <2>1
<1>3. "purge" \notin Operations => NothingCollected'
  BY DEF NothingCollected, Server!Reclaimed
<1>. QED
  BY <1>2, <1>3 DEF EngineInv

LEMMA StartKeepsEngine ==
  ASSUME EngineInv, CursorInv', NEW d \in Device, StartSync(d)
  PROVE  EngineInv'
<1> DEFINE q == PendingDeletes(vault[d], state[d])
<1>1. /\ q \in SUBSET Item /\ 0 \in 0 .. MaxRetries
      /\ \A i \in q : vault[d][i] = NoEnvelope /\ state[d].known[i].deletable
  BY SyncAssumption DEF PendingDeletes
<1>2. /\ task' = [task EXCEPT ![d] = Deleting(q)]
      /\ UNCHANGED <<rows, next_seq, vault, state, saved, had, purged>>
  BY DEF StartSync
<1> HIDE DEF q
<1>3. Deleting(q).phase # "push" /\ Deleting(q).todo = q
  BY <1>1, Tasks
<1>. QED
  BY <1>1, <1>2, <1>3, TaskKeepsEngine

\* The running state of d is replaced, or the saved one too; the rows, and
\* what the others know, stay.
LEMMA SaveKeepsEngine ==
  ASSUME EngineInv, CursorInv', NEW d \in Device,
         UNCHANGED <<rows, vault, had, purged>>,
         \A e \in Device \ {d} : state'[e] = state[e] /\ saved'[e] = saved[e] /\ task'[e] = task[e],
         saved'[d] \in {saved[d], state'[d]},
         StateIsSound(rows, vault, purged, state'[d], d),
         QueueFits(rows, vault[d], state'[d], task'[d]),
         "purge" \notin Operations =>
           \A i \in Item : state'[d].known[i].deletable => vault[d][i] # NoEnvelope
  PROVE  EngineInv'
<1> USE EngineParts
<1>1. ASSUME NEW e \in Device PROVE QueueFits(rows, vault[e], state'[e], task'[e])
  OBVIOUS
<1>2. "purge" \notin Operations => NothingCollected'
  <2>1. ASSUME "purge" \notin Operations, NEW e \in Device, NEW i \in Item,
               state'[e].known[i].deletable \/ saved'[e].known[i].deletable
        PROVE  vault[e][i] # NoEnvelope
    <3>1. CASE e = d
      BY <2>1, <3>1 DEF NothingCollected
    <3>2. CASE e # d
      BY <2>1, <3>2 DEF NothingCollected
    <3>. QED
      BY <3>1, <3>2
  <2>. QED
    BY <2>1 DEF NothingCollected, Server!Reclaimed
<1>3. ASSUME NEW e \in Device
      PROVE  /\ StateIsSound(rows, vault, purged, state'[e], e)
             /\ StateIsSound(rows, vault, purged, saved'[e], e)
  OBVIOUS
<1>. QED
  BY <1>1, <1>2, <1>3 DEF EngineInv

\* The same when d writes row i, which it has merged or collected.
LEMMA WriteKeepsEngine ==
  ASSUME EngineInv, CursorInv', NEW d \in Device, NEW i \in Item,
         NEW w \in Envelope \cup {NoEnvelope}, Server!Write(i, w),
         UNCHANGED <<vault, had, purged>>,
         \A e \in Device \ {d} : state'[e] = state[e] /\ saved'[e] = saved[e] /\ task'[e] = task[e],
         saved'[d] \in {saved[d], state'[d]},
         StateIsSound(rows', vault, purged, state'[d], d)
           \/ state'[d] = state[d],
         \/ Value(rows[i].envelope) \subseteq Value(w)
         \/ \E c \in purged[d][i] : Value(rows[i].envelope) \subseteq c,
         QueueFits(rows', vault[d], state'[d], task'[d]),
         "purge" \notin Operations =>
           /\ w # NoEnvelope
           /\ \A j \in Item : state'[d].known[j].deletable => vault[d][j] # NoEnvelope
  PROVE  EngineInv'
<1> USE EngineParts
<1>1. /\ rows'[i].version = rows[i].version + 1 /\ rows'[i].envelope = w
      /\ \A j \in Item \ {i} : rows'[j] = rows[j]
  BY WriteEffect
<1>2. rows[i].version \in Nat
  BY DEF RowsTyped
<1>3. ASSUME NEW e \in Device
      PROVE  /\ StateIsSound(rows', vault, purged, state[e], e)
             /\ StateIsSound(rows', vault, purged, saved[e], e)
  <2>1. state[e] \in SyncState /\ saved[e] \in SyncState
    BY StateTypes
  <2>2. \/ Value(rows[i].envelope) \subseteq Value(rows'[i].envelope)
        \/ \E f \in Device : \E c \in purged[f][i] : Value(rows[i].envelope) \subseteq c
    BY <1>1
  <2>. QED
    BY <1>1, <2>1, <2>2, SoundAfterWrite
<1>4. ASSUME NEW e \in Device \ {d} PROVE QueueFits(rows', vault[e], state[e], task[e])
  <2>1. QueueFits(rows, vault[e], state[e], task[e])
    OBVIOUS
  <2>2. state[e].known[i].version <= rows[i].version /\ state[e].known[i].version \in Nat
    BY StateTypes DEF StateIsSound, NotAhead, KnownRow
  <2>3. state[e].known[i].version # rows'[i].version
    BY <1>1, <1>2, <2>2
  <2>4. ASSUME NEW j \in task[e].todo
        PROVE  rows'[j] = rows[j] \/ state[e].known[j].version # rows'[j].version
    <3>1. j \in Item
      BY StateTypes DEF Task
    <3>. QED
      BY <1>1, <2>3, <3>1
  <2>. QED
    BY <2>1, <2>4 DEF QueueFits
<1>5. "purge" \notin Operations => NothingCollected'
  <2>1. ASSUME "purge" \notin Operations, NEW e \in Device, NEW j \in Item,
               state'[e].known[j].deletable \/ saved'[e].known[j].deletable
        PROVE  vault[e][j] # NoEnvelope
    <3>1. CASE e = d
      BY <2>1, <3>1 DEF NothingCollected
    <3>2. CASE e # d
      BY <2>1, <3>2 DEF NothingCollected
    <3>. QED
      BY <3>1, <3>2
  <2>2. ASSUME "purge" \notin Operations, NEW j \in Item
        PROVE  ~(rows'[j].version > 0 /\ rows'[j].envelope = NoEnvelope)
    BY <1>1, <2>2 DEF NothingCollected, Server!Reclaimed
  <2>. QED
    BY <2>1, <2>2 DEF NothingCollected, Server!Reclaimed
<1>6. \A j \in Item : rows'[j].version = 0 => rows'[j].envelope = NoEnvelope
  BY <1>1, <1>2
<1>7. ASSUME NEW e \in Device
      PROVE  /\ StateIsSound(rows', vault, purged, state'[e], e)
             /\ StateIsSound(rows', vault, purged, saved'[e], e)
             /\ QueueFits(rows', vault[e], state'[e], task'[e])
  <2>1. CASE e = d
    BY <1>3, <2>1
  <2>2. CASE e # d
    BY <1>3, <1>4, <2>2
  <2>. QED
    BY <2>1, <2>2
<1>. QED
  BY <1>5, <1>6, <1>7 DEF EngineInv

\* Idle has no queue.
LEMMA IdleFits ==
  ASSUME NEW R, NEW v, NEW s
  PROVE  Idle \in Task /\ QueueFits(R, v, s, Idle)
<1>1. Idle \in Task /\ Idle.todo = {}
  BY Tasks, SyncAssumption DEF Idle, Task
<1>. QED
  BY <1>1 DEF QueueFits

\* What d deletes under the version it knows, it has merged and collected.
LEMMA DeletedIsCollected ==
  ASSUME EngineInv, VersionsStay, NEW d \in Device, task[d].phase = "delete",
         NEW i \in task[d].todo, i \in Item, rows[i].version = state[d].known[i].version
  PROVE  /\ "purge" \in Operations
         /\ \/ Value(rows[i].envelope) = {}
            \/ \E c \in purged[d][i] : Value(rows[i].envelope) \subseteq c
<1> USE EngineParts
<1>1. vault[d][i] = NoEnvelope /\ state[d].known[i].deletable
  BY DEF QueueFits
<1>2. "purge" \in Operations
  BY <1>1 DEF NothingCollected
<1>3. "merge" \notin Faults
  BY <1>2 DEF VersionsStay
<1>4. HasMerged(rows, vault[d], purged[d], i)
  BY <1>3 DEF StateIsSound, CurrentIsMerged
<1>. QED
  BY <1>1, <1>2, <1>4, ValueOfNone DEF HasMerged

LEMMA PushDeleteKeepsEngine ==
  ASSUME EngineInv, CursorInv', VersionsStay, NEW d \in Device, PushDelete(d)
  PROVE  EngineInv'
<1> USE EngineParts
<1> DEFINE i == Current(d)
           s == Learn(state[d], i, Unknown)
           next == Deleting(task[d].todo \ {i})
<1>1. /\ i \in Item /\ i \in task[d].todo /\ UNCHANGED <<vault, had, purged>>
      /\ \/ /\ SaveAnd(d, s, next)
            /\ \/ UNCHANGED <<rows, next_seq>>
               \/ rows[i].version = state[d].known[i].version /\ Server!Write(i, NoEnvelope)
         \/ task' = [task EXCEPT ![d] = Idle] /\ UNCHANGED <<rows, next_seq, state, saved>>
  BY PushDeleteCases
<1>2. task[d].phase = "delete"
  BY DEF PushDelete
<1>3. vault[d][i] = NoEnvelope /\ state[d].known[i].deletable
  BY <1>1, <1>2 DEF QueueFits
<1>4. "purge" \in Operations
  BY <1>1, <1>3 DEF NothingCollected
<1>5. /\ s \in SyncState /\ s.cursor = state[d].cursor /\ s.known[i] = Unknown
      /\ \A j \in Item \ {i} : s.known[j] = state[d].known[j]
  BY <1>1, StateTypes, NewStates, LearnEffect
<1>6. /\ next \in Task /\ next.todo = task[d].todo \ {i} /\ next.phase # "push"
      /\ task[d].todo \in SUBSET Item
  <2>1. task[d].todo \in SUBSET Item /\ task[d].todo \ {i} \in SUBSET Item /\ 0 \in 0 .. MaxRetries
    BY StateTypes, SyncAssumption DEF Task
  <2>. QED
    BY <2>1, Tasks
<1> HIDE DEF s, next, i
<1>7. ASSUME NEW R PROVE QueueFits(R, vault[d], s, next)
  <2>1. \A j \in next.todo : j \in Item \ {i} /\ j \in task[d].todo
    BY <1>6
  <2>. QED
    BY <1>2, <1>5, <1>6, <2>1 DEF QueueFits
<1>8. Unknown.version = 0 /\ Unknown.fp = NoEnvelope
  BY DEF Unknown
<1>9. StateIsSound(rows, vault, purged, s, d)
  <2>1. s.known[i].version <= rows[i].version /\ Value(s.known[i].fp) = {}
    BY <1>1, <1>5, <1>8, ValueOfNone DEF RowsTyped
  <2>2. s.known[i].version = rows[i].version => HasMerged(rows, vault[d], purged[d], i)
    BY <1>1, <1>5, <1>8, ValueOfNone DEF HasMerged
  <2>3. state[d] \in SyncState
    BY StateTypes
  <2>. QED
    BY <1>1, <1>5, <2>1, <2>2, <2>3, SoundAfterLearning
<1>10. CASE SaveAnd(d, s, next)
  <2>1. /\ \A e \in Device \ {d} : state'[e] = state[e] /\ saved'[e] = saved[e] /\ task'[e] = task[e]
        /\ state'[d] = s /\ saved'[d] \in {s, saved[d]} /\ task'[d] \in {next, Idle}
    BY <1>5, <1>6, <1>10, SaveEffect
  <2>2. ASSUME NEW R PROVE QueueFits(R, vault[d], state'[d], task'[d])
    BY <1>7, <2>1, IdleFits
  <2>3. CASE UNCHANGED <<rows, next_seq>>
    BY <1>1, <1>4, <1>9, <2>1, <2>2, <2>3, SaveKeepsEngine
  <2>4. CASE rows[i].version = state[d].known[i].version /\ Server!Write(i, NoEnvelope)
    <3>1. \/ Value(rows[i].envelope) \subseteq Value(NoEnvelope)
          \/ \E c \in purged[d][i] : Value(rows[i].envelope) \subseteq c
      BY <1>1, <1>2, <2>4, DeletedIsCollected
    <3>2. StateIsSound(rows', vault, purged, s, d)
      <4>1. /\ rows'[i].version = rows[i].version + 1 /\ rows'[i].envelope = NoEnvelope
            /\ \A j \in Item \ {i} : rows'[j] = rows[j]
        BY <1>1, <2>4, WriteEffect
      <4>2. \/ Value(rows[i].envelope) \subseteq Value(rows'[i].envelope)
            \/ \E e \in Device : \E c \in purged[e][i] : Value(rows[i].envelope) \subseteq c
        BY <3>1, <4>1
      <4>. QED
        BY <1>1, <1>5, <1>9, <4>1, <4>2, SoundAfterWrite
    <3>. QED
      BY <1>1, <1>4, <2>1, <2>2, <2>4, <3>1, <3>2, WriteKeepsEngine
  <2>. QED
    BY <1>1, <1>10, <2>1, <2>3, <2>4
<1>11. CASE task' = [task EXCEPT ![d] = Idle] /\ UNCHANGED <<rows, next_seq, state, saved>>
  <2>1. Idle.phase # "push" /\ Idle.todo = {}
    BY DEF Idle
  <2>. QED
    BY <1>1, <1>11, <2>1, TaskKeepsEngine
<1>. QED
  BY <1>1, <1>10, <1>11

\* The rows of S are merged into d's vault, and d notes down what it knows.
LEMMA MergeKeepsEngine ==
  ASSUME EngineInv, CursorInv', NEW d \in Device, NEW S \in SUBSET Item, Stored(d, S),
         UNCHANGED <<rows, purged>>,
         \A e \in Device \ {d} : state'[e] = state[e] /\ saved'[e] = saved[e] /\ task'[e] = task[e],
         saved'[d] \in {saved[d], state'[d]},
         StateIsSound(rows, vault', purged, state'[d], d),
         QueueFits(rows, vault'[d], state'[d], task'[d]),
         "purge" \notin Operations =>
           \A i \in Item : state'[d].known[i].deletable => vault'[d][i] # NoEnvelope
  PROVE  EngineInv'
<1> USE EngineParts
<1>1. /\ \A e \in Device \ {d} : vault'[e] = vault[e] /\ had'[e] = had[e]
      /\ \A i \in S : /\ vault'[d][i] # NoEnvelope
                      /\ Value(vault'[d][i]) = Value(vault[d][i]) \cup Value(rows[i].envelope)
                      /\ had'[d][i] = had[d][i] \cup Value(rows[i].envelope)
      /\ \A i \in Item \ S : vault'[d][i] = vault[d][i] /\ had'[d][i] = had[d][i]
  BY EnvelopeAssumption DEF Stored
<1>2. ASSUME NEW e \in Device PROVE QueueFits(rows, vault'[e], state'[e], task'[e])
  BY <1>1
<1>3. "purge" \notin Operations => NothingCollected'
  <2>1. ASSUME "purge" \notin Operations, NEW e \in Device, NEW i \in Item
        PROVE  /\ had'[e][i] = Value(vault'[e][i])
               /\ state'[e].known[i].deletable \/ saved'[e].known[i].deletable
                    => vault'[e][i] # NoEnvelope
    <3>1. CASE e # d
      BY <1>1, <2>1, <3>1 DEF NothingCollected
    <3>2. CASE e = d /\ i \in S
      <4>1. had[d][i] = Value(vault[d][i])
        BY <2>1 DEF NothingCollected
      <4>2. /\ vault'[d][i] # NoEnvelope
            /\ Value(vault'[d][i]) = Value(vault[d][i]) \cup Value(rows[i].envelope)
            /\ had'[d][i] = had[d][i] \cup Value(rows[i].envelope)
        BY <1>1, <3>2
      <4>3. had'[d][i] = Value(vault'[d][i])
        BY <4>1, <4>2, Zenon
      <4>. QED
        BY <3>2, <4>2, <4>3
    <3>3. CASE e = d /\ i \notin S
      BY <1>1, <2>1, <3>3 DEF NothingCollected
    <3>. QED
      BY <3>1, <3>2, <3>3
  <2>. QED
    BY <2>1 DEF NothingCollected, Server!Reclaimed
<1>4. ASSUME NEW i \in Item, HasMerged(rows, vault[d], purged[d], i)
      PROVE  HasMerged(rows, vault'[d], purged[d], i)
  BY <1>1, <1>4 DEF HasMerged
<1>5. StateIsSound(rows, vault', purged, saved[d], d)
  BY <1>4, SoundAfterMerge
<1>6. ASSUME NEW e \in Device, e # d
      PROVE  /\ StateIsSound(rows, vault', purged, state[e], e)
             /\ StateIsSound(rows, vault', purged, saved[e], e)
  <2>1. \A i \in Item : HasMerged(rows, vault[e], purged[e], i) => HasMerged(rows, vault'[e], purged[e], i)
    BY <1>1, <1>6
  <2>. QED
    BY <2>1, SoundAfterMerge
<1>7. ASSUME NEW e \in Device
      PROVE  /\ StateIsSound(rows, vault', purged, state'[e], e)
             /\ StateIsSound(rows, vault', purged, saved'[e], e)
  <2>1. CASE e = d
    BY <1>5, <2>1
  <2>2. CASE e # d
    BY <1>6, <2>2
  <2>. QED
    BY <2>1, <2>2
<1>. QED
  BY <1>2, <1>3, <1>7 DEF EngineInv

LEMMA PullKeepsEngine ==
  ASSUME EngineInv, CursorInv', NEW d \in Device, NEW n \in 1 .. PageLimit, PullPage(d, n)
  PROVE  EngineInv'
<1> USE EngineParts
<1>1. PICK page \in SUBSET Item, s \in SyncState, next \in Task : Pulled(d, page, s, next)
  BY PullEffect
<1> DEFINE full == {i \in page : rows[i].envelope # NoEnvelope}
<1>2. /\ \A e \in Device \ {d} : state'[e] = state[e] /\ saved'[e] = saved[e] /\ task'[e] = task[e]
      /\ state'[d] = s /\ saved'[d] \in {s, saved[d]} /\ task'[d] \in {next, Idle}
  BY <1>1, SaveEffect DEF Pulled
<1>3. /\ full \in SUBSET Item /\ Stored(d, full) /\ UNCHANGED <<rows, purged>>
      /\ \A i \in page \ full : Value(rows[i].envelope) = {}
  BY <1>1, ValueOfNone DEF Pulled
<1> HIDE DEF full
<1>4. /\ \A i \in full : vault'[d][i] # NoEnvelope /\ Value(rows[i].envelope) \subseteq Value(vault'[d][i])
      /\ \A i \in Item \ full : vault'[d][i] = vault[d][i]
  BY <1>3, EnvelopeAssumption DEF Stored
<1>5. ASSUME NEW i \in page PROVE Value(rows[i].envelope) \subseteq Value(vault'[d][i])
  BY <1>3, <1>4
<1>6. ASSUME NEW i \in Item \ page, rows[i].version = 0 PROVE Value(rows[i].envelope) = {}
  BY <1>6, ValueOfNone
<1>7. /\ \A i \in page : s.known[i].fp = rows[i].envelope /\ s.known[i].version = rows[i].version
      /\ \A i \in Item \ page : s.known[i] = state[d].known[i]
  BY <1>1 DEF Pulled
<1>8. StateIsSound(rows, vault', purged, s, d)
  <2>1. StateIsSound(rows, vault, purged, state[d], d)
    OBVIOUS
  <2>2. NotAhead(rows, s)
    <3>1. ASSUME NEW i \in Item PROVE s.known[i].version <= rows[i].version
      <4>1. CASE i \in page
        BY <1>7, <4>1 DEF RowsTyped
      <4>2. CASE i \notin page
        BY <1>7, <2>1, <4>2 DEF StateIsSound, NotAhead
      <4>. QED
        BY <4>1, <4>2
    <3>. QED
      BY <3>1 DEF NotAhead
  <2>3. ASSUME NEW i \in Item, s.known[i].version = rows[i].version
        PROVE  HasMerged(rows, vault'[d], purged[d], i) \/ ("merge" \in Faults /\ rows[i].seq > s.cursor)
    <3>1. CASE i \in page
      BY <1>5, <3>1 DEF HasMerged
    <3>2. CASE i \notin page /\ HasMerged(rows, vault[d], purged[d], i)
      <4>1. vault'[d][i] = vault[d][i]
        BY <1>4, <3>2 DEF full
      <4>. QED
        BY <3>2, <4>1 DEF HasMerged
    <3>3. CASE i \notin page /\ "merge" \in Faults /\ rows[i].seq > state[d].cursor
      <4>1. CASE rows[i].version = 0
        BY <1>6, <3>3, <4>1 DEF HasMerged
      <4>2. CASE rows[i].version # 0
        <5>1. rows[i].version > 0 /\ rows[i].seq \in Nat /\ state[d].cursor \in Nat
          BY <4>2, StateTypes DEF RowsTyped
        <5>. QED
          BY <1>1, <3>3, <5>1 DEF Pulled
      <4>. QED
        BY <4>1, <4>2
    <3>. QED
      BY <1>7, <2>1, <2>3, <3>1, <3>2, <3>3 DEF StateIsSound, CurrentIsMerged
  <2>4. FpIsDurable(rows, s, purged)
    <3>1. ASSUME NEW i \in Item
          PROVE  \/ Value(s.known[i].fp) \subseteq Value(rows[i].envelope)
                 \/ \E e \in Device : \E c \in purged[e][i] : Value(s.known[i].fp) \subseteq c
      <4>1. CASE i \in page
        BY <1>7, <4>1
      <4>2. CASE i \notin page
        BY <1>7, <2>1, <4>2 DEF StateIsSound, FpIsDurable
      <4>. QED
        BY <4>1, <4>2
    <3>. QED
      BY <3>1 DEF FpIsDurable
  <2>. QED
    BY <2>2, <2>3, <2>4 DEF StateIsSound, CurrentIsMerged
<1>9. QueueFits(rows, vault'[d], s, next)
  <2>1. CASE next.phase = "push"
    <3>1. ASSUME NEW i \in next.todo, s.known[i].version = rows[i].version
          PROVE  Value(rows[i].envelope) \subseteq Value(vault'[d][i])
      <4>1. i \in Item /\ vault'[d][i] # NoEnvelope
        BY <1>1, <3>1 DEF Pulled, Task
      <4>2. CASE i \in page
        BY <1>5, <4>2
      <4>3. CASE i \notin page
        <5>1. CASE rows[i].version = 0
          BY <1>6, <4>1, <4>3, <5>1
        <5>2. CASE rows[i].version # 0
          <6>1. /\ rows[i].version > 0 /\ rows[i].seq \in Nat /\ state[d].cursor \in Nat
                /\ s.cursor \in Nat
            BY <4>1, <5>2, StateTypes DEF RowsTyped, SyncState
          <6>2. ~(rows[i].seq > s.cursor)
            BY <1>1, <2>1, <4>1, <4>3, <6>1 DEF Pulled
          <6>3. HasMerged(rows, vault'[d], purged[d], i)
            BY <1>8, <3>1, <4>1, <6>2 DEF StateIsSound, CurrentIsMerged
          <6>. QED
            BY <4>1, <6>3 DEF HasMerged
        <5>. QED
          BY <5>1, <5>2
      <4>. QED
        BY <4>2, <4>3
    <3>2. \A i \in next.todo : vault'[d][i] # NoEnvelope
      BY <1>1 DEF Pulled
    <3>. QED
      BY <2>1, <3>1, <3>2 DEF QueueFits
  <2>2. CASE next.phase # "push"
    <3>1. next.todo = {}
      BY <1>1, <2>2 DEF Pulled, Task
    <3>. QED
      BY <3>1 DEF QueueFits
  <2>. QED
    BY <2>1, <2>2
<1>10. ASSUME "purge" \notin Operations, NEW i \in Item, s.known[i].deletable
       PROVE  vault'[d][i] # NoEnvelope
  <2>1. CASE i \in full
    BY <1>4, <2>1
  <2>2. CASE i \notin full
    <3>1. state[d].known[i].deletable
      BY <1>1, <1>10, <2>2 DEF Pulled, full
    <3>. QED
      BY <1>4, <1>10, <2>2, <3>1 DEF NothingCollected
  <2>. QED
    BY <2>1, <2>2
<1>11. QueueFits(rows, vault'[d], state'[d], task'[d])
  BY <1>2, <1>9, IdleFits
<1>. QED
  BY <1>2, <1>3, <1>8, <1>10, <1>11, MergeKeepsEngine

\* A put overwrites what its device has merged.
LEMMA PutIsMerged ==
  ASSUME EngineInv, NEW d \in Device, task[d].phase = "push", NEW i \in task[d].todo
  PROVE  /\ vault[d][i] # NoEnvelope
         /\ rows[i].version = state[d].known[i].version =>
              Value(rows[i].envelope) \subseteq Value(vault[d][i])
  BY EngineParts DEF QueueFits

LEMMA PushAppliedKeepsEngine ==
  ASSUME EngineInv, CursorInv', NEW d \in Device, PushApplied(d)
  PROVE  EngineInv'
<1> USE EngineParts
<1> DEFINE i == Current(d)
<1>1. /\ task[d].phase = "push" /\ i \in task[d].todo /\ i \in Item
      /\ rows[i].version = state[d].known[i].version
      /\ Server!Write(i, vault[d][i]) /\ vault[d][i] \in Envelope \cup {NoEnvelope}
  BY PushAppliedEffect DEF PushApplied
<1>2. PICK s \in SyncState, next \in Task :
        /\ SaveAnd(d, s, next)
        /\ UNCHANGED <<vault, had, purged>>
        /\ s.cursor = state[d].cursor
        /\ s.known[i].fp = vault[d][i]
        /\ s.known[i].version = rows[i].version + 1
        /\ \A j \in Item \ {i} : s.known[j] = state[d].known[j]
        /\ next.phase # "delete" /\ next.todo \subseteq task[d].todo
  BY PushAppliedState
<1> HIDE DEF i
<1>3. vault[d][i] # NoEnvelope /\ Value(rows[i].envelope) \subseteq Value(vault[d][i])
  BY <1>1, PutIsMerged
<1>4. /\ \A e \in Device \ {d} : state'[e] = state[e] /\ saved'[e] = saved[e] /\ task'[e] = task[e]
      /\ state'[d] = s /\ saved'[d] \in {s, saved[d]} /\ task'[d] \in {next, Idle}
  BY <1>2, SaveEffect
<1>5. /\ rows'[i].version = rows[i].version + 1 /\ rows'[i].envelope = vault[d][i]
      /\ \A j \in Item \ {i} : rows'[j] = rows[j]
  BY <1>1, WriteEffect
<1>6. StateIsSound(rows', vault, purged, s, d)
  <2>1. state[d] \in SyncState
    BY StateTypes
  <2>2. Value(rows[i].envelope) \subseteq Value(rows'[i].envelope)
    BY <1>3, <1>5
  <2>3. StateIsSound(rows', vault, purged, state[d], d)
    BY <1>1, <1>5, <2>1, <2>2, SoundAfterWrite
  <2>4. RowsTyped(rows')
    BY RowsAreTyped, <1>1, WriteEffect DEF RowsTyped, Server!StoreTypeOK, Server!Row
  <2>5. s.known[i].version <= rows'[i].version
    BY <1>1, <1>2, <1>5, <2>4 DEF RowsTyped
  <2>6. HasMerged(rows', vault[d], purged[d], i) /\ Value(s.known[i].fp) \subseteq Value(rows'[i].envelope)
    BY <1>2, <1>5 DEF HasMerged
  <2>. QED
    BY <1>1, <1>2, <2>1, <2>3, <2>4, <2>5, <2>6, SoundAfterLearning
<1>7. QueueFits(rows', vault[d], s, next)
  <2>1. CASE next.phase = "push"
    <3>1. ASSUME NEW j \in next.todo
          PROVE  /\ vault[d][j] # NoEnvelope
                 /\ s.known[j].version = rows'[j].version =>
                      Value(rows'[j].envelope) \subseteq Value(vault[d][j])
      <4>1. j \in task[d].todo /\ j \in Item
        BY <1>2, <3>1 DEF Task
      <4>2. CASE j = i
        BY <1>3, <1>5, <4>2
      <4>3. CASE j # i
        BY <1>1, <1>2, <1>5, <4>1, <4>3, PutIsMerged
      <4>. QED
        BY <4>2, <4>3
    <3>. QED
      BY <2>1, <3>1 DEF QueueFits
  <2>2. CASE next.phase # "push"
    <3>1. next.todo = {}
      BY <1>2, <2>2 DEF Task
    <3>. QED
      BY <3>1 DEF QueueFits
  <2>. QED
    BY <2>1, <2>2
<1>8. ASSUME "purge" \notin Operations, NEW j \in Item, s.known[j].deletable
      PROVE  vault[d][j] # NoEnvelope
  <2>1. CASE j = i
    BY <1>3, <2>1
  <2>2. CASE j # i
    BY <1>2, <1>8, <2>2 DEF NothingCollected
  <2>. QED
    BY <2>1, <2>2
<1>9. QueueFits(rows', vault[d], state'[d], task'[d])
  BY <1>4, <1>7, IdleFits
<1>. QED
  BY <1>1, <1>2, <1>3, <1>4, <1>6, <1>8, <1>9, WriteKeepsEngine

LEMMA ConflictKeepsEngine ==
  ASSUME EngineInv, CursorInv', VersionsStay, NEW d \in Device, PushConflict(d)
  PROVE  EngineInv'
<1> USE EngineParts
<1>1. PICK i \in Item, s \in SyncState, next \in Task : Conflicted(d, i, s, next)
  BY ConflictEffect
<1>2. /\ task[d].phase = "push" /\ i \in task[d].todo
      /\ rows[i].version # state[d].known[i].version
      /\ UNCHANGED <<rows, next_seq, purged>>
      /\ s.cursor = state[d].cursor
      /\ s.known[i].fp = rows[i].envelope /\ s.known[i].version = rows[i].version
      /\ \A j \in Item \ {i} : s.known[j] = state[d].known[j]
      /\ next.phase # "delete" /\ next.todo \subseteq task[d].todo
  BY <1>1 DEF Conflicted
<1>3. \A j \in task[d].todo : j \in Item /\ vault[d][j] # NoEnvelope
  BY <1>2, PutIsMerged, StateTypes DEF Task
<1>4. /\ state[d] \in SyncState
      /\ s.known[i].version <= rows[i].version
      /\ Value(s.known[i].fp) \subseteq Value(rows[i].envelope)
  BY <1>2, StateTypes DEF RowsTyped
<1>5. ASSUME NEW V, StateIsSound(rows, V, purged, state[d], d),
             HasMerged(rows, V[d], purged[d], i) \/ ("merge" \in Faults /\ rows[i].seq > state[d].cursor)
      PROVE  StateIsSound(rows, V, purged, s, d)
  BY <1>2, <1>4, <1>5, SoundAfterLearning
<1>6. ASSUME NEW v, Value(rows[i].envelope) \subseteq Value(v[i]), v[i] # NoEnvelope,
             \A j \in Item \ {i} : v[j] = vault[d][j]
      PROVE  QueueFits(rows, v, s, next)
  <2>1. CASE next.phase = "push"
    <3>1. ASSUME NEW j \in next.todo
          PROVE  /\ v[j] # NoEnvelope
                 /\ s.known[j].version = rows[j].version => Value(rows[j].envelope) \subseteq Value(v[j])
      <4>1. j \in task[d].todo /\ j \in Item
        BY <1>2, <1>3, <3>1
      <4>2. CASE j = i
        BY <1>6, <4>2
      <4>3. CASE j # i
        BY <1>2, <1>6, <4>1, <4>3, PutIsMerged
      <4>. QED
        BY <4>2, <4>3
    <3>. QED
      BY <2>1, <3>1 DEF QueueFits
  <2>2. CASE next.phase # "push"
    <3>1. next.todo = {}
      BY <1>2, <2>2 DEF Task
    <3>. QED
      BY <3>1 DEF QueueFits
  <2>. QED
    BY <2>1, <2>2
<1>7. ASSUME "purge" \notin Operations, NEW j \in Item, s.known[j].deletable
      PROVE  vault[d][j] # NoEnvelope
  <2>1. CASE j = i
    BY <1>2, <1>3, <2>1
  <2>2. CASE j # i
    BY <1>2, <1>7, <2>2 DEF NothingCollected
  <2>. QED
    BY <2>1, <2>2
<1>8. CASE task' = [task EXCEPT ![d] = Idle] /\ UNCHANGED <<vault, state, saved, had>>
  <2>1. Idle.phase # "push" /\ Idle.todo = {}
    BY DEF Idle
  <2>. QED
    BY <1>2, <1>8, <2>1, TaskKeepsEngine
<1>9. CASE /\ SaveAnd(d, s, next)
           /\ \/ rows[i].envelope = NoEnvelope /\ UNCHANGED <<vault, had>>
              \/ Stored(d, {i})
  <2>1. /\ \A e \in Device \ {d} : state'[e] = state[e] /\ saved'[e] = saved[e] /\ task'[e] = task[e]
        /\ state'[d] = s /\ saved'[d] \in {s, saved[d]} /\ task'[d] \in {next, Idle}
    BY <1>1, <1>9, SaveEffect
  <2>2. CASE rows[i].envelope = NoEnvelope /\ UNCHANGED <<vault, had>>
    <3>1. Value(rows[i].envelope) = {} /\ HasMerged(rows, vault[d], purged[d], i)
      BY <2>2, ValueOfNone DEF HasMerged
    <3>2. StateIsSound(rows, vault, purged, s, d)
      BY <1>5, <3>1
    <3>3. QueueFits(rows, vault[d], s, next)
      BY <1>2, <1>3, <1>6, <3>1
    <3>4. QueueFits(rows, vault[d], state'[d], task'[d])
      BY <2>1, <3>3, IdleFits
    <3>. QED
      BY <1>2, <1>7, <2>1, <2>2, <3>2, <3>4, SaveKeepsEngine
  <2>3. CASE Stored(d, {i})
    <3>1. /\ vault'[d][i] # NoEnvelope /\ Value(rows[i].envelope) \subseteq Value(vault'[d][i])
          /\ \A j \in Item \ {i} : vault'[d][j] = vault[d][j]
      BY <2>3, EnvelopeAssumption DEF Stored
    <3>2. \A j \in Item : HasMerged(rows, vault[d], purged[d], j) => HasMerged(rows, vault'[d], purged[d], j)
      <4>1. HasMerged(rows, vault'[d], purged[d], i)
        BY <3>1 DEF HasMerged
      <4>2. ASSUME NEW j \in Item \ {i}, HasMerged(rows, vault[d], purged[d], j)
            PROVE  HasMerged(rows, vault'[d], purged[d], j)
        BY <3>1, <4>2 DEF HasMerged
      <4>. QED
        BY <4>1, <4>2
    <3>3. StateIsSound(rows, vault', purged, state[d], d)
      BY <3>2, SoundAfterMerge
    <3>4. HasMerged(rows, vault'[d], purged[d], i)
      BY <3>1 DEF HasMerged
    <3>5. StateIsSound(rows, vault', purged, s, d)
      BY <1>5, <3>3, <3>4
    <3>6. QueueFits(rows, vault'[d], s, next)
      BY <1>6, <3>1
    <3>7. QueueFits(rows, vault'[d], state'[d], task'[d])
      BY <2>1, <3>6, IdleFits
    <3>8. "purge" \notin Operations =>
            \A j \in Item : state'[d].known[j].deletable => vault'[d][j] # NoEnvelope
      BY <1>7, <2>1, <3>1
    <3>9. {i} \in SUBSET Item
      OBVIOUS
    <3>. QED
      BY <1>2, <2>1, <2>3, <3>5, <3>7, <3>8, <3>9, MergeKeepsEngine
  <2>. QED
    BY <1>9, <2>2, <2>3
<1>10. CASE /\ "merge" \in Faults
            /\ state' = [state EXCEPT ![d] = s] /\ task' = [task EXCEPT ![d] = Idle]
            /\ UNCHANGED <<vault, saved, had>>
  <2>1. /\ \A e \in Device \ {d} : state'[e] = state[e] /\ saved'[e] = saved[e] /\ task'[e] = task[e]
        /\ state'[d] = s /\ saved'[d] = saved[d] /\ task'[d] = Idle
    BY <1>10 DEF TypeOK
  <2>2. "purge" \notin Operations
    BY <1>10 DEF VersionsStay
  <2>3. HasMerged(rows, vault[d], purged[d], i) \/ rows[i].seq > state[d].cursor
    <3>1. rows[i].version > 0 /\ rows[i].seq \in Nat /\ state[d].cursor \in Nat
      <4>1. state[d].known[i].version \in Nat /\ state[d].known[i].version <= rows[i].version
        BY StateTypes DEF StateIsSound, NotAhead, KnownRow
      <4>. QED
        BY <1>2, <4>1, StateTypes DEF RowsTyped
    <3>2. CASE rows[i].seq <= state[d].cursor
      <4>1. Value(rows[i].envelope) \subseteq had[d][i]
        BY <3>1, <3>2 DEF Covers
      <4>2. had[d][i] = Value(vault[d][i])
        BY <2>2 DEF NothingCollected
      <4>. QED
        BY <4>1, <4>2 DEF HasMerged
    <3>. QED
      BY <3>1, <3>2
  <2>4. StateIsSound(rows, vault, purged, s, d)
    BY <1>5, <1>10, <2>3
  <2>5. QueueFits(rows, vault[d], state'[d], task'[d])
    BY <2>1, IdleFits
  <2>. QED
    BY <1>2, <1>7, <1>10, <2>1, <2>4, <2>5, SaveKeepsEngine
<1>. QED
  BY <1>1, <1>8, <1>9, <1>10 DEF Conflicted

LEMMA ReplyLostKeepsEngine ==
  ASSUME EngineInv, CursorInv', VersionsStay, NEW d \in Device, ReplyLost(d)
  PROVE  EngineInv'
<1> USE EngineParts
<1>1. UNCHANGED <<vault, state, saved, had, purged>> /\ task' = [task EXCEPT ![d] = Idle]
  BY DEF ReplyLost, GiveUp
<1>2. task'[d] = Idle /\ \A e \in Device \ {d} : task'[e] = task[e]
  BY <1>1 DEF TypeOK
<1>3. QueueFits(rows', vault[d], state'[d], task'[d])
  BY <1>2, IdleFits
<1> DEFINE i == Current(d)
<1>4. CASE task[d].phase = "delete" /\ Server!DeleteApplied(i, Expected(d))
  <2>1. /\ i \in Item /\ i \in task[d].todo /\ Server!Write(i, NoEnvelope)
        /\ rows[i].version = state[d].known[i].version
    BY <1>4, CurrentIsQueued DEF Server!DeleteApplied, Server!Matches, Expected
  <2> HIDE DEF i
  <2>2. /\ "purge" \in Operations
        /\ \/ Value(rows[i].envelope) \subseteq Value(NoEnvelope)
           \/ \E c \in purged[d][i] : Value(rows[i].envelope) \subseteq c
    BY <1>4, <2>1, DeletedIsCollected
  <2>. QED
    BY <1>1, <1>2, <1>3, <2>1, <2>2, WriteKeepsEngine
<1>5. CASE task[d].phase = "push" /\ Server!PutApplied(i, Expected(d), vault[d][i])
  <2>1. /\ i \in Item /\ i \in task[d].todo /\ Server!Write(i, vault[d][i])
        /\ rows[i].version = state[d].known[i].version
        /\ vault[d][i] \in Envelope \cup {NoEnvelope}
    BY <1>5, PushAppliedEffect
  <2> HIDE DEF i
  <2>2. vault[d][i] # NoEnvelope /\ Value(rows[i].envelope) \subseteq Value(vault[d][i])
    BY <1>5, <2>1, PutIsMerged
  <2>3. "purge" \notin Operations =>
          \A j \in Item : state'[d].known[j].deletable => vault[d][j] # NoEnvelope
    BY <1>1 DEF NothingCollected
  <2>. QED
    BY <1>1, <1>2, <1>3, <2>1, <2>2, <2>3, WriteKeepsEngine
<1>. QED
  BY <1>4, <1>5 DEF ReplyLost

LEMMA RequestFailsKeepsEngine ==
  ASSUME EngineInv, CursorInv', NEW d \in Device, RequestFails(d)
  PROVE  EngineInv'
<1>1. Idle.phase # "push" /\ Idle.todo = {}
  BY DEF Idle
<1>2. /\ task' = [task EXCEPT ![d] = Idle]
      /\ UNCHANGED <<rows, next_seq, vault, state, saved, had, purged>>
  BY DEF RequestFails, GiveUp
<1>. QED
  BY <1>1, <1>2, TaskKeepsEngine

LEMMA RestartKeepsEngine ==
  ASSUME EngineInv, CursorInv', NEW d \in Device, Restart(d)
  PROVE  EngineInv'
<1> USE EngineParts
<1>1. /\ \A e \in Device \ {d} : state'[e] = state[e] /\ task'[e] = task[e]
      /\ state'[d] = saved[d] /\ task'[d] = Idle
      /\ UNCHANGED <<rows, vault, saved, had, purged>>
  BY DEF Restart, TypeOK
<1>2. QueueFits(rows, vault[d], state'[d], task'[d])
  BY <1>1, IdleFits
<1>3. "purge" \notin Operations =>
        \A i \in Item : state'[d].known[i].deletable => vault[d][i] # NoEnvelope
  BY <1>1 DEF NothingCollected
<1>. QED
  BY <1>1, <1>2, <1>3, SaveKeepsEngine

LEMMA NewStateIsSound ==
  ASSUME NEW R, NEW V, NEW P, NEW d \in Device, RowsTyped(R),
         \A i \in Item : R[i].version = 0 => R[i].envelope = NoEnvelope
  PROVE  StateIsSound(R, V, P, NewState, d)
<1>1. \A i \in Item : NewState.known[i].version = 0 /\ Value(NewState.known[i].fp) = {}
  BY ValueOfNone DEF NewState, Unknown
<1>2. NotAhead(R, NewState)
  BY <1>1 DEF NotAhead, RowsTyped
<1>3. CurrentIsMerged(R, NewState, V[d], P[d])
  BY <1>1, ValueOfNone DEF CurrentIsMerged, HasMerged
<1>4. FpIsDurable(R, NewState, P)
  BY <1>1 DEF FpIsDurable
<1>. QED
  BY <1>2, <1>3, <1>4 DEF StateIsSound

LEMMA ResetKeepsEngine ==
  ASSUME EngineInv, CursorInv', NEW d \in Device, Reset(d)
  PROVE  EngineInv'
<1> USE EngineParts
<1>1. SaveAnd(d, NewState, Idle) /\ UNCHANGED <<rows, vault, had, purged>>
  BY DEF Reset
<1>2. Idle \in Task
  BY IdleFits
<1>3. /\ \A e \in Device \ {d} : state'[e] = state[e] /\ saved'[e] = saved[e] /\ task'[e] = task[e]
      /\ state'[d] = NewState /\ saved'[d] \in {NewState, saved[d]} /\ task'[d] = Idle
  BY <1>1, <1>2, NewStates, SaveEffect
<1>4. StateIsSound(rows, vault, purged, NewState, d)
  BY NewStateIsSound
<1>5. QueueFits(rows, vault[d], state'[d], task'[d])
  BY <1>3, IdleFits
<1>6. \A i \in Item : ~state'[d].known[i].deletable
  BY <1>3 DEF NewState, Unknown
<1>. QED
  BY <1>1, <1>3, <1>4, <1>5, <1>6, SaveKeepsEngine

\* Where nothing is collected, there is nothing to sweep.
LEMMA NothingIsSwept ==
  ASSUME EngineInv, VersionsStay, NEW S \in SUBSET Item, SweepRows(S)
  PROVE  FALSE
<1>1. "purge" \notin Operations
  BY DEF VersionsStay, SweepRows
<1>2. PICK i \in S : Server!Reclaimed(i)
  BY DEF SweepRows, Server!Sweep
<1>. QED
  BY <1>1, <1>2, EngineParts DEF NothingCollected

LEMMA EngineStep ==
  ASSUME EngineInv, VersionsStay, [Next]_vars
  PROVE  EngineInv'
<1>1. CursorInv'
  BY CursorStep DEF EngineInv
<1>2. CASE UNCHANGED vars
  BY <1>1, <1>2, EngineParts DEF vars, EngineInv, NothingCollected, Server!Reclaimed
<1>3. ASSUME NEW d \in Device, NEW i \in Item, Create(d, i) \/ Edit(d, i) \/ DeleteItem(d, i)
      PROVE  EngineInv'
  BY <1>1, <1>3, CommitKeepsEngine DEF Create, Edit, DeleteItem, CanWrite
<1>4. CASE Next
  BY <1>1, <1>3, <1>4, PurgeKeepsEngine, RewrapKeepsEngine, StartKeepsEngine, PushDeleteKeepsEngine,
     PullKeepsEngine, PushAppliedKeepsEngine, ConflictKeepsEngine, RequestFailsKeepsEngine,
     ReplyLostKeepsEngine, RestartKeepsEngine, ResetKeepsEngine, NothingIsSwept, Zenon DEF Next
<1>. QED
  BY <1>2, <1>4

LEMMA EngineInit == Init => EngineInv
<1>1. ASSUME Init PROVE EngineInv
  <2>1. CursorInv
    BY <1>1, CursorInit
  <2>2. \A i \in Item : rows[i].version = 0 /\ rows[i].envelope = NoEnvelope
    BY <1>1 DEF Init, Server!StoreInit, Server!Absent
  <2>3. RowsTyped(rows)
    BY <2>1, RowsAreTyped DEF CursorInv
  <2>4. \A d \in Device : state[d] = NewState /\ saved[d] = NewState /\ task[d] = Idle
    BY <1>1 DEF Init
  <2>5. \A d \in Device : StateIsSound(rows, vault, purged, NewState, d)
    BY <2>2, <2>3, NewStateIsSound
  <2>6. \A d \in Device : QueueFits(rows, vault[d], state[d], task[d])
    BY <2>4, IdleFits
  <2>7. NothingCollected
    <3>1. \A d \in Device, i \in Item : had[d][i] = {} /\ vault[d][i] = NoEnvelope
      BY <1>1 DEF Init
    <3>2. \A i \in Item : ~NewState.known[i].deletable
      BY DEF NewState, Unknown
    <3>3. \A i \in Item : ~Server!Reclaimed(i)
      BY <2>2 DEF Server!Reclaimed
    <3>4. \A d \in Device, i \in Item :
            ~state[d].known[i].deletable /\ ~saved[d].known[i].deletable
      BY <2>4, <3>2
    <3>5. \A d \in Device, i \in Item : had[d][i] = Value(vault[d][i])
      BY <3>1, ValueOfNone
    <3>. QED
      BY <3>3, <3>4, <3>5 DEF NothingCollected
  <2>. QED
    BY <2>1, <2>2, <2>4, <2>5, <2>6, <2>7 DEF EngineInv
<1>. QED
  BY <1>1

\* What is confirmed is what the server was last known to hold.
LEMMA EngineIsDurable == EngineInv => ConfirmedIsDurable
<1>1. SUFFICES ASSUME EngineInv, NEW d \in Device, NEW i \in Item,
                      vault[d][i] # NoEnvelope, state[d].known[i].fp = vault[d][i]
               PROVE  \/ vault[d][i].value \subseteq Value(rows[i].envelope)
                      \/ Collected(i, vault[d][i].value)
  BY DEF ConfirmedIsDurable, Confirmed
<1>2. vault[d][i].value = Value(state[d].known[i].fp)
  BY <1>1 DEF Value
<1>3. FpIsDurable(rows, state[d], purged)
  BY <1>1, EngineParts DEF StateIsSound
<1>. QED
  BY <1>2, <1>3 DEF FpIsDurable, Collected

(***************************************************************************)
(* For every number of devices and items, and every bound: a write that a  *)
(* device takes off its queue is part of what the server holds, or was     *)
(* collected, whatever requests, replies, saves or processes fail.         *)
(***************************************************************************)
THEOREM ConfirmedStaysDurable ==
  ASSUME VersionsStay
  PROVE  Spec => []ConfirmedIsDurable
<1>1. EngineInv /\ [Next]_vars => EngineInv'
  BY EngineStep
<1>. QED
  BY <1>1, EngineInit, EngineIsDurable, PTL DEF Spec
-----------------------------------------------------------------------------
(***************************************************************************)
(* Every step of the engine is a step of Replication, or none.             *)
(***************************************************************************)
Held == [d \in Device |-> [i \in Item |-> Value(vault[d][i])]]
Relayed == [i \in Item |-> Value(rows[i].envelope)]

LEMMA HeldValues ==
  /\ \A d \in Device, i \in Item : Held[d][i] = Value(vault[d][i]) /\ Held'[d][i] = Value(vault'[d][i])
  /\ \A i \in Item : Relayed[i] = Value(rows[i].envelope) /\ Relayed'[i] = Value(rows'[i].envelope)
  BY DEF Held, Relayed

\* One device's values are changed to those of v.
LEMMA HeldChanges ==
  ASSUME NEW d \in Device, NEW v,
         \A i \in Item : Value(vault'[d][i]) = v[i],
         \A e \in Device \ {d}, i \in Item : Value(vault'[e][i]) = Value(vault[e][i])
  PROVE  Held' = [Held EXCEPT ![d] = [i \in Item |-> v[i]]]
<1> DEFINE N == [Held EXCEPT ![d] = [i \in Item |-> v[i]]]
<1>1. ASSUME NEW e \in Device PROVE Held'[e] = N[e]
  <2>1. CASE e = d
    BY <2>1 DEF Held
  <2>2. CASE e # d
    BY <2>2 DEF Held
  <2>. QED
    BY <2>1, <2>2
<1>2. DOMAIN Held' = Device /\ DOMAIN N = Device /\ Held' = [e \in Device |-> Held'[e]]
  BY DEF Held
<1>3. N = [e \in Device |-> N[e]]
  BY DEF Held
<1> HIDE DEF N
<1>4. Held' = N
  BY <1>1, <1>2, <1>3
<1>. QED
  BY <1>4 DEF N

LEMMA Stutters ==
  ASSUME \A d \in Device, i \in Item : Value(vault'[d][i]) = Value(vault[d][i]),
         \A i \in Item : Value(rows'[i].envelope) = Value(rows[i].envelope),
         UNCHANGED purged
  PROVE  UNCHANGED Abstract!replicationVars
  BY DEF Abstract!replicationVars

\* A merge receives the rows that were merged.
LEMMA MergeReceives ==
  ASSUME NEW d \in Device, NEW S \in SUBSET Item, Stored(d, S), UNCHANGED <<rows, purged>>
  PROVE  Abstract!Receive(d, S)
<1> DEFINE v == [i \in Item |-> IF i \in S THEN Held[d][i] \cup Relayed[i] ELSE Held[d][i]]
<1>1. ASSUME NEW i \in Item PROVE Value(vault'[d][i]) = v[i]
  <2>1. CASE i \in S
    <3>1. Value(vault'[d][i]) = Value(vault[d][i]) \cup Value(rows[i].envelope)
      BY <2>1 DEF Stored
    <3>2. v[i] = Held[d][i] \cup Relayed[i]
      BY <2>1
    <3>. QED
      BY <3>1, <3>2, HeldValues
  <2>2. CASE i \notin S
    <3>1. vault'[d][i] = vault[d][i]
      BY <2>2 DEF Stored
    <3>2. v[i] = Held[d][i]
      BY <2>2
    <3>. QED
      BY <3>1, <3>2, HeldValues
  <2>. QED
    BY <2>1, <2>2
<1>2. \A e \in Device \ {d}, i \in Item : Value(vault'[e][i]) = Value(vault[e][i])
  BY DEF Stored
<1>3. Held' = [Held EXCEPT ![d] = [i \in Item |-> v[i]]]
  <2> HIDE DEF v
  <2>. QED
    BY <1>1, <1>2, HeldChanges
<1>. QED
  BY <1>3 DEF Abstract!Receive, Held, Relayed

\* commit_item makes a write nobody has: its author's stamps are all behind.
LEMMA CommitMakesWrite ==
  ASSUME EngineInv, NEW d \in Device, NEW i \in Item, NEW dead \in BOOLEAN, Commit(d, i, dead)
  PROVE  \E w \in Writes : Abstract!MakeWrite(d, i, w)
<1> USE EngineParts
<1>1. TypeOK /\ StampsFilled /\ UNCHANGED <<rows, purged>>
  BY DEF EngineInv, CursorInv, Commit
<1>2. PICK w \in Writes :
           /\ w = [t |-> NextStamp(d), by |-> d, dead |-> dead]
           /\ vault'[d][i] \in Envelope
           /\ vault'[d][i].value = Value(vault[d][i]) \cup {w}
           /\ \A e \in Device, j \in Item : <<e, j>> # <<d, i>> => vault'[e][j] = vault[e][j]
  BY <1>1, CommitEffect
<1>3. Value(vault'[d][i]) = Value(vault[d][i]) \cup {w}
  BY <1>2, EnvelopeAssumption DEF Value
<1>4. ASSUME NEW e \in Device PROVE w \notin Value(vault[e][i])
  <2>1. SUFFICES ASSUME w \in Value(vault[e][i]) PROVE FALSE
    OBVIOUS
  <2>2. w.by = d /\ w.t = NextStamp(d)
    BY <1>2
  <2>3. w \in had[d][i]
    BY <2>1, <2>2 DEF AuthorHad
  <2>4. w.t < NextStamp(d) /\ NextStamp(d) \in Nat
    BY <1>1, <2>3, StampIsNext
  <2>. QED
    BY <2>2, <2>4
<1> DEFINE v == [Held[d] EXCEPT ![i] = @ \cup {w}]
<1>5. \A j \in Item : Value(vault'[d][j]) = v[j]
  <2>1. ASSUME NEW j \in Item PROVE Value(vault'[d][j]) = v[j]
    <3>1. CASE j = i
      BY <1>3, <3>1 DEF Held
    <3>2. CASE j # i
      BY <1>2, <3>2 DEF Held
    <3>. QED
      BY <3>1, <3>2
  <2>. QED
    BY <2>1
<1>6. \A e \in Device \ {d}, j \in Item : Value(vault'[e][j]) = Value(vault[e][j])
  BY <1>2
<1>7. Held' = [Held EXCEPT ![d] = [j \in Item |-> v[j]]]
  <2> HIDE DEF v
  <2>. QED
    BY <1>5, <1>6, HeldChanges
<1>8. [j \in Item |-> v[j]] = v
  BY DEF Held
<1>9. Held' = [Held EXCEPT ![d][i] = @ \cup {w}]
  BY <1>7, <1>8
<1>10. \A e \in Device : w \notin Held[e][i]
  BY <1>4 DEF Held
<1>. QED
  BY <1>1, <1>9, <1>10 DEF Abstract!MakeWrite, Held, Relayed

LEMMA PurgeForgets ==
  ASSUME TypeOK, NEW d \in Device, NEW S \in SUBSET Item, PurgeTombstones(d, S)
  PROVE  Abstract!Forget(d, S)
<1> DEFINE v == [i \in Item |-> IF i \in S THEN {} ELSE Held[d][i]]
           p == [i \in Item |-> IF i \in S THEN purged[d][i] \cup {Held[d][i]} ELSE purged[d][i]]
<1>1. /\ UNCHANGED rows
      /\ \A i \in S : Deleted(Held[d][i])
      /\ \A e \in Device \ {d} : vault'[e] = vault[e]
      /\ \A i \in Item : vault'[d][i] = IF i \in S THEN NoEnvelope ELSE vault[d][i]
  BY DEF PurgeTombstones, TypeOK, Held
<1>2. purged' = [purged EXCEPT ![d] = p]
  BY DEF PurgeTombstones, Held
<1>3. \A i \in Item : Value(vault'[d][i]) = v[i]
  BY <1>1, ValueOfNone DEF Held
<1>4. Held' = [Held EXCEPT ![d] = [i \in Item |-> v[i]]]
  <2> HIDE DEF v
  <2>. QED
    BY <1>1, <1>3, HeldChanges
<1>. QED
  BY <1>1, <1>2, <1>4 DEF Abstract!Forget, Held, Relayed

\* A put replaces a value its device has merged.
LEMMA WritePublishes ==
  ASSUME TypeOK, NEW d \in Device, NEW i \in Item, Server!Write(i, vault[d][i]),
         Value(rows[i].envelope) \subseteq Value(vault[d][i]), UNCHANGED <<vault, purged>>
  PROVE  Abstract!Publish(d, i)
<1>1. vault[d][i] \in Envelope \cup {NoEnvelope}
  BY StateTypes
<1>2. rows'[i].envelope = vault[d][i] /\ \A j \in Item \ {i} : rows'[j] = rows[j]
  BY <1>1, WriteEffect
<1>3. Relayed' = [Relayed EXCEPT ![i] = Held[d][i]]
  BY <1>2 DEF Relayed, Held
<1>4. Relayed[i] \subseteq Held[d][i] /\ UNCHANGED Held
  BY DEF Relayed, Held
<1>. QED
  BY <1>3, <1>4 DEF Abstract!Publish, Held, Relayed

\* A delete drops a value its device has collected, or nothing at all.
LEMMA DeleteReclaims ==
  ASSUME TypeOK, NEW d \in Device, NEW i \in Item, Server!Write(i, NoEnvelope),
         UNCHANGED <<vault, purged>>,
         \/ Value(rows[i].envelope) = {}
         \/ \E c \in purged[d][i] : Value(rows[i].envelope) \subseteq c
  PROVE  Abstract!Reclaim(i) \/ UNCHANGED Abstract!replicationVars
<1>1. rows'[i].envelope = NoEnvelope /\ \A j \in Item \ {i} : rows'[j] = rows[j]
  BY WriteEffect
<1>2. CASE Value(rows[i].envelope) = {}
  <2>1. ASSUME NEW j \in Item PROVE Value(rows'[j].envelope) = Value(rows[j].envelope)
    BY <1>1, <1>2, ValueOfNone
  <2>. QED
    BY <2>1, Stutters
<1>3. CASE \E c \in purged[d][i] : Value(rows[i].envelope) \subseteq c
  <2>1. Relayed' = [Relayed EXCEPT ![i] = {}]
    BY <1>1, ValueOfNone DEF Relayed
  <2>2. \E e \in Device : \E c \in purged[e][i] : Relayed[i] \subseteq c
    BY <1>3 DEF Relayed
  <2>3. UNCHANGED Held
    BY DEF Held
  <2>. QED
    BY <2>1, <2>2, <2>3 DEF Abstract!Reclaim, Held, Relayed
<1>. QED
  BY <1>2, <1>3

LEMMA RewrapStutters ==
  ASSUME TypeOK, NEW d \in Device, NEW i \in Item, Rewrap(d, i)
  PROVE  UNCHANGED Abstract!replicationVars
<1> DEFINE E == Seal(d, i, vault[d][i].value)
<1>1. UNCHANGED <<rows, purged>> /\ vault[d][i] # NoEnvelope
  BY DEF Rewrap
<1>2. vault[d][i] \in Envelope /\ vault[d][i].value \in SUBSET Writes
  BY <1>1, StateTypes DEF Envelope
<1>3. E \in Envelope /\ E.value = vault[d][i].value
  BY <1>2, SealHolds
<1>4. vault \in [Device -> [Item -> Envelope \cup {NoEnvelope}]] /\ vault' = [vault EXCEPT ![d][i] = E]
  BY DEF TypeOK, Rewrap
<1> HIDE DEF E
<1>5. \A e \in Device, j \in Item : vault'[e][j] = vault[e][j] \/ (e = d /\ j = i /\ vault'[e][j] = E)
  BY <1>4
<1>6. \A e \in Device, j \in Item : Value(vault'[e][j]) = Value(vault[e][j])
  BY <1>1, <1>2, <1>3, <1>5, EnvelopeAssumption DEF Value
<1>. QED
  BY <1>1, <1>6, Stutters

LEMMA DeletePushRefines ==
  ASSUME EngineInv, VersionsStay, NEW d \in Device, PushDelete(d)
  PROVE  (\E i \in Item : Abstract!Reclaim(i)) \/ UNCHANGED Abstract!replicationVars
<1> USE EngineParts
<1> DEFINE i == Current(d)
<1>1. /\ i \in Item /\ i \in task[d].todo /\ UNCHANGED <<vault, purged>>
      /\ \/ UNCHANGED rows
         \/ rows[i].version = state[d].known[i].version /\ Server!Write(i, NoEnvelope)
  BY PushDeleteCases
<1>2. task[d].phase = "delete"
  BY DEF PushDelete
<1> HIDE DEF i
<1>3. CASE UNCHANGED rows
  BY <1>1, <1>3, Stutters
<1>4. CASE rows[i].version = state[d].known[i].version /\ Server!Write(i, NoEnvelope)
  <2>1. \/ Value(rows[i].envelope) = {}
        \/ \E c \in purged[d][i] : Value(rows[i].envelope) \subseteq c
    BY <1>1, <1>2, <1>4, DeletedIsCollected
  <2>. QED
    BY <1>1, <1>4, <2>1, DeleteReclaims
<1>. QED
  BY <1>1, <1>3, <1>4

LEMMA PutRefines ==
  ASSUME EngineInv, NEW d \in Device, task[d].phase = "push", UNCHANGED <<vault, purged>>,
         Server!PutApplied(Current(d), Expected(d), vault[d][Current(d)])
  PROVE  \E i \in Item : Abstract!Publish(d, i)
<1> USE EngineParts
<1> DEFINE i == Current(d)
<1>1. /\ i \in task[d].todo /\ i \in Item /\ rows[i].version = state[d].known[i].version
      /\ Server!Write(i, vault[d][i])
  BY PushAppliedEffect
<1> HIDE DEF i
<1>2. Value(rows[i].envelope) \subseteq Value(vault[d][i])
  BY <1>1, PutIsMerged
<1>. QED
  BY <1>1, <1>2, WritePublishes

LEMMA ReplyLostRefines ==
  ASSUME EngineInv, VersionsStay, NEW d \in Device, ReplyLost(d)
  PROVE  \/ \E i \in Item : Abstract!Publish(d, i) \/ Abstract!Reclaim(i)
         \/ UNCHANGED Abstract!replicationVars
<1> USE EngineParts
<1> DEFINE i == Current(d)
<1>1. UNCHANGED <<vault, purged>>
  BY DEF ReplyLost, GiveUp
<1>2. CASE task[d].phase = "delete" /\ Server!DeleteApplied(i, Expected(d))
  <2>1. /\ i \in Item /\ i \in task[d].todo /\ Server!Write(i, NoEnvelope)
        /\ rows[i].version = state[d].known[i].version
    BY <1>2, CurrentIsQueued DEF Server!DeleteApplied, Server!Matches, Expected
  <2> HIDE DEF i
  <2>2. \/ Value(rows[i].envelope) = {}
        \/ \E c \in purged[d][i] : Value(rows[i].envelope) \subseteq c
    BY <1>2, <2>1, DeletedIsCollected
  <2>. QED
    BY <1>1, <2>1, <2>2, DeleteReclaims
<1>3. CASE task[d].phase = "push" /\ Server!PutApplied(i, Expected(d), vault[d][i])
  BY <1>1, <1>3, PutRefines
<1>. QED
  BY <1>2, <1>3 DEF ReplyLost

LEMMA PullRefines ==
  ASSUME EngineInv, NEW d \in Device, NEW n \in 1 .. PageLimit, PullPage(d, n)
  PROVE  \E S \in SUBSET Item : Abstract!Receive(d, S)
<1>1. PICK page \in SUBSET Item, s \in SyncState, next \in Task : Pulled(d, page, s, next)
  BY EngineParts, PullEffect
<1> DEFINE full == {i \in page : rows[i].envelope # NoEnvelope}
<1>2. full \in SUBSET Item /\ Stored(d, full) /\ UNCHANGED <<rows, purged>>
  BY <1>1 DEF Pulled
<1> HIDE DEF full
<1>. QED
  BY <1>2, MergeReceives

LEMMA ConflictRefines ==
  ASSUME EngineInv, NEW d \in Device, PushConflict(d)
  PROVE  (\E S \in SUBSET Item : Abstract!Receive(d, S)) \/ UNCHANGED Abstract!replicationVars
<1>1. PICK i \in Item, s \in SyncState, next \in Task : Conflicted(d, i, s, next)
  BY EngineParts, ConflictEffect
<1>2. UNCHANGED <<rows, purged>> /\ (UNCHANGED vault \/ Stored(d, {i})) /\ {i} \in SUBSET Item
  BY <1>1 DEF Conflicted
<1>3. CASE UNCHANGED vault
  BY <1>2, <1>3, Stutters
<1>4. CASE Stored(d, {i})
  BY <1>2, <1>4, MergeReceives
<1>. QED
  BY <1>2, <1>3, <1>4

LEMMA RefinementStep ==
  ASSUME EngineInv, VersionsStay, [Next]_vars
  PROVE  [Abstract!ReplicationNext]_(Abstract!replicationVars)
<1> DEFINE Goal == [Abstract!ReplicationNext]_(Abstract!replicationVars)
<1>1. TypeOK
  BY EngineParts
<1>2. ASSUME UNCHANGED <<rows, vault, purged>> PROVE Goal
  BY <1>2, Stutters
<1>3. ASSUME NEW d \in Device, NEW i \in Item, Create(d, i) \/ Edit(d, i) \/ DeleteItem(d, i)
      PROVE  Goal
  <2>1. PICK dead \in BOOLEAN : Commit(d, i, dead)
    BY <1>3 DEF Create, Edit, DeleteItem
  <2>2. \E w \in Writes : Abstract!MakeWrite(d, i, w)
    BY <2>1, CommitMakesWrite
  <2>. QED
    BY <2>2 DEF Abstract!ReplicationNext
<1>4. ASSUME NEW d \in Device, NEW i \in Item, Rewrap(d, i) PROVE Goal
  BY <1>1, <1>4, RewrapStutters
<1>5. ASSUME NEW d \in Device, NEW S \in SUBSET Item, PurgeTombstones(d, S) PROVE Goal
  BY <1>1, <1>5, PurgeForgets DEF Abstract!ReplicationNext
<1>6. ASSUME NEW d \in Device, StartSync(d) \/ RequestFails(d) \/ Restart(d) \/ Reset(d) PROVE Goal
  BY <1>2, <1>6 DEF StartSync, RequestFails, GiveUp, Restart, Reset
<1>7. ASSUME NEW d \in Device, PushDelete(d) PROVE Goal
  BY <1>7, DeletePushRefines DEF Abstract!ReplicationNext
<1>8. ASSUME NEW d \in Device, NEW n \in 1 .. PageLimit, PullPage(d, n) PROVE Goal
  BY <1>8, PullRefines DEF Abstract!ReplicationNext
<1>9. ASSUME NEW d \in Device, PushApplied(d) PROVE Goal
  <2>1. \E i \in Item : Abstract!Publish(d, i)
    BY <1>9, PutRefines DEF PushApplied
  <2>. QED
    BY <2>1 DEF Abstract!ReplicationNext
<1>10. ASSUME NEW d \in Device, PushConflict(d) PROVE Goal
  BY <1>10, ConflictRefines DEF Abstract!ReplicationNext
<1>11. ASSUME NEW d \in Device, ReplyLost(d) PROVE Goal
  BY <1>11, ReplyLostRefines DEF Abstract!ReplicationNext
<1>12. ASSUME NEW S \in SUBSET Item, SweepRows(S) PROVE Goal
  BY <1>12, NothingIsSwept
<1> HIDE DEF Goal
<1>13. ASSUME UNCHANGED vars PROVE Goal
  BY <1>2, <1>13 DEF vars
<1>14. ASSUME Next PROVE Goal
  BY <1>3, <1>4, <1>5, <1>6, <1>7, <1>8, <1>9, <1>10, <1>11, <1>12, <1>14, Zenon DEF Next
<1>. QED
  BY <1>13, <1>14 DEF Goal

LEMMA RefinementInit == Init => Abstract!ReplicationInit
<1>1. ASSUME Init PROVE Abstract!ReplicationInit
  <2>1. /\ \A d \in Device, i \in Item : vault[d][i] = NoEnvelope
        /\ \A i \in Item : rows[i].envelope = NoEnvelope
        /\ purged = [d \in Device |-> [i \in Item |-> {}]]
    BY <1>1 DEF Init, Server!StoreInit, Server!Absent
  <2>. QED
    BY <2>1, ValueOfNone DEF Abstract!ReplicationInit
<1>. QED
  BY <1>1

(***************************************************************************)
(* For every number of devices and items, and every bound: the engine with *)
(* its cursors, versions, queues, retries, lost replies and restarts does  *)
(* to the values of the devices and the server only what Replication does. *)
(***************************************************************************)
THEOREM EngineReplicates ==
  ASSUME VersionsStay
  PROVE  Spec => Replicates
<1>1. EngineInv /\ [Next]_vars => EngineInv'
  BY EngineStep
<1>2. EngineInv /\ [Next]_vars => [Abstract!ReplicationNext]_(Abstract!replicationVars)
  BY RefinementStep
<1>. QED
  BY <1>1, <1>2, EngineInit, RefinementInit, PTL DEF Spec, Replicates, Abstract!ReplicationSpec
=============================================================================
