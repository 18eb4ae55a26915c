-------------------------- MODULE ChangeFeedProofs --------------------------
(***************************************************************************)
(* For every number of clients and items, every page limit and every       *)
(* quota: the change feed loses nothing, until a row is swept its version  *)
(* names one content, and a vault keeps to its quota.                      *)
(***************************************************************************)
EXTENDS ChangeFeed, FiniteFacts

\* A page holds every row between the cursor it starts at and the one it
\* ends at, and the latter has been allocated.
LEMMA FeedPage ==
  ASSUME FeedTypeOK, NEW since \in Nat
  PROVE  /\ Page(since, PageLimit) \subseteq Item
         /\ NextSince(since, PageLimit) \in Nat
         /\ \/ NextSince(since, PageLimit) = since
            \/ \E j \in Item : NextSince(since, PageLimit) = rows[j].seq
         /\ \A i \in Item :
              (rows[i].version > 0 /\ rows[i].seq > since
                 /\ rows[i].seq <= NextSince(since, PageLimit))
                => i \in Page(since, PageLimit)
<1> DEFINE P == Page(since, PageLimit)
           A == After(since)
           f == [i \in Item |-> rows[i].seq]
           B == [i \in A |-> {j \in A : rows[j].seq <= rows[i].seq}]
<1>1. P \in SUBSET A /\ A \in SUBSET Item /\ IsFiniteSet(A)
  <2>1. A \subseteq Item
    BY DEF After, Present
  <2>. QED
    BY <2>1, FS_Subset, StoreAssumption DEF Page
<1>2. \A i \in Item : f[i] = rows[i].seq /\ f[i] \in Nat
  BY DEF FeedTypeOK, StoreTypeOK, Row
<1>3. \A i \in A : B[i] \in SUBSET A /\ \A j \in A : j \in B[i] <=> f[j] <= f[i]
  BY <1>1, <1>2
<1>4. \A i \in A : i \in P <=> Cardinality(B[i]) <= PageLimit
  BY DEF Page, Position
<1>5. P # {} => \E j \in P : /\ \A i \in P : f[i] <= f[j]
                             /\ \A i \in A : f[i] <= f[j] => i \in P
  <2>1. PageLimit \in Nat /\ \A i \in A : f[i] \in Nat
    BY <1>1, <1>2, FeedAssumption
  <2> HIDE DEF P, A, f, B
  <2>2. IsPage(P, A, f, B, PageLimit)
    BY <1>1, <1>3, <1>4, <2>1 DEF IsPage
  <2>. QED
    BY <2>2, PageIsPrefix
<1>6. \A i \in Item : rows[i].version > 0 /\ rows[i].seq > since => i \in A
  BY DEF After, Present
<1>7. CASE P = {}
  <2>1. NextSince(since, PageLimit) = since
    BY <1>7 DEF NextSince
  <2>. QED
    BY <1>1, <1>2, <2>1
<1>8. CASE P # {}
  <2>1. PICK j \in P : /\ \A i \in P : rows[i].seq <= rows[j].seq
                       /\ \A i \in A : rows[i].seq <= rows[j].seq => i \in P
    BY <1>1, <1>2, <1>5, <1>8
  <2>2. NextSince(since, PageLimit) = rows[j].seq
    <3> DEFINE S == {rows[i].seq : i \in P}
    <3>1. NextSince(since, PageLimit) = Max(S)
      BY <1>8 DEF NextSince
    <3>2. rows[j].seq \in S /\ S \subseteq Nat /\ \A x \in S : x <= rows[j].seq
      BY <1>1, <1>2, <2>1
    <3> HIDE DEF S
    <3>. QED
      BY <3>1, <3>2, MaxIsGreatest
  <2>. QED
    BY <1>1, <1>2, <1>6, <2>1, <2>2
<1>. QED
  BY <1>7, <1>8
-----------------------------------------------------------------------------
\* The five shapes a step takes, as far as the invariants are concerned.
LEMMA StepShapes ==
  ASSUME FeedTypeOK, [FeedNext]_feedVars
  PROVE  \/ UNCHANGED feedVars
         \/ \E c \in FeedClient : ReadPage(c)
         \/ \E c \in FeedClient, i \in Item, e \in Envelope \cup {NoEnvelope} :
              /\ Write(i, e)
              /\ Replied(c, i, [version |-> rows[i].version + 1, envelope |-> e])
              /\ UNCHANGED <<cursor, swept>>
         \/ \E c \in FeedClient, i \in Item :
              Replied(c, i, Answer(i)) /\ UNCHANGED <<rows, next_seq, cursor, swept>>
         \/ \E S \in SUBSET Item : SweepRows(S)
<1>1. ASSUME NEW c \in FeedClient, NEW i \in Item, NEW e \in Envelope, Put(c, i, e)
      PROVE  \/ /\ Write(i, e)
                /\ Replied(c, i, [version |-> rows[i].version + 1, envelope |-> e])
                /\ UNCHANGED <<cursor, swept>>
             \/ Replied(c, i, Answer(i)) /\ UNCHANGED <<rows, next_seq, cursor, swept>>
  BY <1>1, Zenon DEF Put, PutApplied, PutConflict, PutRefused, Replied, storeVars
<1>2. ASSUME NEW c \in FeedClient, NEW i \in Item, Delete(c, i)
      PROVE  \/ /\ Write(i, NoEnvelope)
                /\ Replied(c, i, [version |-> rows[i].version + 1, envelope |-> NoEnvelope])
                /\ UNCHANGED <<cursor, swept>>
             \/ Replied(c, i, Answer(i)) /\ UNCHANGED <<rows, next_seq, cursor, swept>>
  BY <1>2, Zenon DEF Delete, DeleteApplied, DeleteRepeated, DeleteMissing, DeleteConflict,
                     Replied, storeVars
<1>3. CASE FeedNext
  BY <1>1, <1>2, <1>3, Zenon DEF FeedNext
<1>. QED
  BY <1>3

\* What a reply changes in answered, and that it stays well-typed.
LEMMA ReplyEffect ==
  ASSUME FeedTypeOK, NEW c \in FeedClient, NEW i \in Item, NEW a \in Told, Replied(c, i, a)
  PROVE  /\ answered' \in [FeedClient -> [Item -> Told]]
         /\ \A b \in FeedClient, j \in Item :
              \/ answered'[b][j] = answered[b][j]
              \/ j = i /\ answered'[b][j] = a
<1>1. answered \in [FeedClient -> [Item -> Told]] /\ answered[c] \in [Item -> Told]
  BY DEF FeedTypeOK
<1>2. CASE UNCHANGED answered
  BY <1>1, <1>2
<1>3. CASE answered' = [answered EXCEPT ![c][i] = a]
  <2>1. [answered[c] EXCEPT ![i] = a] \in [Item -> Told]
    BY <1>1
  <2>2. answered' = [answered EXCEPT ![c] = [answered[c] EXCEPT ![i] = a]]
    BY <1>3
  <2>3. answered' \in [FeedClient -> [Item -> Told]]
    BY <1>1, <2>1, <2>2
  <2>. QED
    BY <1>1, <2>2, <2>3
<1>. QED
  BY <1>2, <1>3 DEF Replied

\* An answer is the row's version and envelope, and well-typed.
LEMMA AnswerType ==
  ASSUME FeedTypeOK, NEW i \in Item
  PROVE  /\ Answer(i) \in Told
         /\ Answer(i).version = rows[i].version
         /\ Answer(i).envelope = rows[i].envelope
  BY DEF FeedTypeOK, StoreTypeOK, Answer, Told, Row

LEMMA TypeStep ==
  ASSUME FeedTypeOK, [FeedNext]_feedVars
  PROVE  FeedTypeOK'
<1>1. CASE UNCHANGED feedVars
  BY <1>1 DEF FeedTypeOK, StoreTypeOK, feedVars
<1>2. ASSUME NEW c \in FeedClient, ReadPage(c)
      PROVE  FeedTypeOK'
  <2>1. cursor[c] \in Nat /\ \A i \in Item : Answer(i) \in Told
    BY DEF FeedTypeOK, StoreTypeOK, Answer, Told, Row
  <2>2. NextSince(cursor[c], PageLimit) \in Nat
    BY <2>1, FeedPage
  <2>. QED
    BY <1>2, <2>1, <2>2 DEF FeedTypeOK, StoreTypeOK, ReadPage
<1>3. ASSUME NEW c \in FeedClient, NEW i \in Item, NEW e \in Envelope \cup {NoEnvelope},
             Write(i, e), Replied(c, i, [version |-> rows[i].version + 1, envelope |-> e]),
             UNCHANGED <<cursor, swept>>
      PROVE  FeedTypeOK'
  <2>1. StoreTypeOK'
    BY <1>3 DEF FeedTypeOK, StoreTypeOK, Write, Row
  <2>2. [version |-> rows[i].version + 1, envelope |-> e] \in Told
    BY DEF FeedTypeOK, StoreTypeOK, Row, Told
  <2>3. answered' \in [FeedClient -> [Item -> Told]]
    BY <1>3, <2>2, ReplyEffect
  <2>. QED
    BY <1>3, <2>1, <2>3 DEF FeedTypeOK
<1>4. ASSUME NEW c \in FeedClient, NEW i \in Item, Replied(c, i, Answer(i)),
             UNCHANGED <<rows, next_seq, cursor, swept>>
      PROVE  FeedTypeOK'
  <2>1. answered' \in [FeedClient -> [Item -> Told]]
    BY <1>4, AnswerType, ReplyEffect
  <2>. QED
    BY <1>4, <2>1 DEF FeedTypeOK, StoreTypeOK
<1>5. ASSUME NEW S \in SUBSET Item, SweepRows(S)
      PROVE  FeedTypeOK'
  BY <1>5 DEF SweepRows, Sweep, FeedTypeOK, StoreTypeOK, Row, Absent
<1>. QED
  BY <1>1, <1>2, <1>3, <1>4, <1>5, StepShapes

LEMMA FeedStep ==
  ASSUME FeedInv, [FeedNext]_feedVars
  PROVE  FeedInv'
<1> USE DEF FeedInv
<1>1. FeedTypeOK'
  BY TypeStep
<1>2. CASE UNCHANGED feedVars
  BY <1>1, <1>2 DEF SeqAllocated, FeedIsComplete, Answer, feedVars
<1>3. ASSUME NEW c \in FeedClient, ReadPage(c)
      PROVE  FeedInv'
  <2> DEFINE n == NextSince(cursor[c], PageLimit)
  <2>1. cursor[c] \in Nat /\ UNCHANGED <<rows, next_seq>>
    BY <1>3 DEF FeedTypeOK, ReadPage
  <2>2. cursor' = [cursor EXCEPT ![c] = n]
    BY <1>3 DEF ReadPage
  <2>3. n < next_seq
    BY <2>1, FeedPage DEF SeqAllocated
  <2>4. SeqAllocated'
    BY <2>1, <2>2, <2>3 DEF SeqAllocated, FeedTypeOK
  <2>5. FeedIsComplete'
    <3>1. SUFFICES ASSUME NEW b \in FeedClient, NEW i \in Item,
                          rows[i].version > 0, rows[i].seq <= cursor'[b]
                   PROVE  answered'[b][i] = Answer(i)
      BY <2>1 DEF FeedIsComplete, Answer
    <3>2. CASE b # c
      BY <1>3, <2>2, <3>1, <3>2 DEF ReadPage, FeedIsComplete, FeedTypeOK
    <3>3. CASE b = c /\ i \in Page(cursor[c], PageLimit)
      BY <1>3, <3>3 DEF ReadPage, FeedTypeOK
    <3>4. CASE b = c /\ i \notin Page(cursor[c], PageLimit)
      <4>1. rows[i].seq <= n
        BY <2>2, <3>1, <3>4 DEF FeedTypeOK
      <4>2. ~(rows[i].seq > cursor[c])
        BY <2>1, <3>1, <3>4, <4>1, FeedPage
      <4>3. answered[c][i] = Answer(i)
        BY <2>1, <3>1, <4>2 DEF FeedIsComplete, FeedTypeOK, StoreTypeOK, Row
      <4>. QED
        BY <1>3, <3>4, <4>3 DEF ReadPage, FeedTypeOK
    <3>. QED
      BY <3>2, <3>3, <3>4
  <2>. QED
    BY <1>1, <2>4, <2>5
<1>4. ASSUME NEW c \in FeedClient, NEW i \in Item, NEW e \in Envelope \cup {NoEnvelope},
             Write(i, e), Replied(c, i, [version |-> rows[i].version + 1, envelope |-> e]),
             UNCHANGED <<cursor, swept>>
      PROVE  FeedInv'
  <2>1. /\ next_seq \in Nat /\ next_seq' = next_seq + 1
        /\ rows'[i].seq = next_seq
        /\ \A j \in Item \ {i} : rows'[j] = rows[j]
        /\ \A j \in Item : rows[j].seq \in Nat
    BY <1>4 DEF Write, FeedTypeOK, StoreTypeOK, Row
  <2>2. \A b \in FeedClient : cursor[b] \in Nat /\ cursor'[b] = cursor[b]
    BY <1>4 DEF FeedTypeOK
  <2>3. SeqAllocated'
    BY <2>1, <2>2 DEF SeqAllocated
  <2>4. \A b \in FeedClient, j \in Item \ {i} : answered'[b][j] = answered[b][j]
    BY <1>4 DEF Replied, FeedTypeOK
  <2>5. FeedIsComplete'
    BY <2>1, <2>2, <2>4 DEF FeedIsComplete, SeqAllocated, Answer
  <2>. QED
    BY <1>1, <2>3, <2>5
<1>5. ASSUME NEW c \in FeedClient, NEW i \in Item, Replied(c, i, Answer(i)),
             UNCHANGED <<rows, next_seq, cursor, swept>>
      PROVE  FeedInv'
  BY <1>1, <1>5 DEF Replied, SeqAllocated, FeedIsComplete, Answer, FeedTypeOK
<1>6. ASSUME NEW S \in SUBSET Item, SweepRows(S)
      PROVE  FeedInv'
  BY <1>1, <1>6 DEF SweepRows, Sweep, Absent, SeqAllocated, FeedIsComplete, Answer,
                    FeedTypeOK, StoreTypeOK, Row
<1>. QED
  BY <1>2, <1>3, <1>4, <1>5, <1>6, StepShapes

LEMMA VersionStep ==
  ASSUME VersionInv, [FeedNext]_feedVars
  PROVE  VersionInv'
<1> USE DEF VersionInv
<1>1. FeedTypeOK'
  BY TypeStep
<1>2. CASE UNCHANGED feedVars
  BY <1>1, <1>2 DEF ToldNotAhead, VersionNamesContent, Current, feedVars
<1>3. ASSUME NEW c \in FeedClient, ReadPage(c)
      PROVE  VersionInv'
  <2>1. UNCHANGED <<rows, swept>>
    BY <1>3 DEF ReadPage
  <2>2. \A b \in FeedClient, i \in Item : answered'[b][i] = answered[b][i] \/ answered'[b][i] = Answer(i)
    BY <1>3 DEF ReadPage, FeedTypeOK
  <2>3. \A i \in Item : rows[i].version \in Nat
    BY DEF FeedTypeOK, StoreTypeOK, Row
  <2>4. \A b \in FeedClient, i \in Item :
          \/ answered'[b][i] = answered[b][i]
          \/ answered'[b][i].version = rows[i].version /\ answered'[b][i].envelope = rows[i].envelope
    BY <2>2, AnswerType
  <2>. QED
    BY <1>1, <2>1, <2>3, <2>4 DEF ToldNotAhead, VersionNamesContent, Current
<1>4. ASSUME NEW c \in FeedClient, NEW i \in Item, NEW e \in Envelope \cup {NoEnvelope},
             Write(i, e), Replied(c, i, [version |-> rows[i].version + 1, envelope |-> e]),
             UNCHANGED <<cursor, swept>>
      PROVE  VersionInv'
  <2>1. /\ \A j \in Item : rows[j].version \in Nat
        /\ \A b \in FeedClient, j \in Item : answered[b][j].version \in Nat
    BY DEF FeedTypeOK, StoreTypeOK, Row, Told
  <2>2. /\ rows'[i].version = rows[i].version + 1 /\ rows'[i].envelope = e
        /\ \A j \in Item \ {i} : rows'[j] = rows[j]
    BY <1>4 DEF Write, FeedTypeOK, StoreTypeOK
  <2>3. \A b \in FeedClient, j \in Item :
          \/ answered'[b][j] = answered[b][j]
          \/ j = i /\ answered'[b][j] = [version |-> rows[i].version + 1, envelope |-> e]
    <3>1. [version |-> rows[i].version + 1, envelope |-> e] \in Told
      BY <2>1 DEF Told
    <3>. QED
      BY <1>4, <3>1, ReplyEffect
  <2>. QED
    BY <1>1, <1>4, <2>1, <2>2, <2>3 DEF ToldNotAhead, VersionNamesContent, Current
<1>5. ASSUME NEW c \in FeedClient, NEW i \in Item, Replied(c, i, Answer(i)),
             UNCHANGED <<rows, next_seq, cursor, swept>>
      PROVE  VersionInv'
  <2>1. \A b \in FeedClient, j \in Item : answered'[b][j] = answered[b][j] \/ answered'[b][j] = Answer(j)
    BY <1>5, AnswerType, ReplyEffect
  <2>2. \A j \in Item : rows[j].version \in Nat
    BY DEF FeedTypeOK, StoreTypeOK, Row
  <2>3. \A b \in FeedClient, j \in Item :
          \/ answered'[b][j] = answered[b][j]
          \/ answered'[b][j].version = rows[j].version /\ answered'[b][j].envelope = rows[j].envelope
    BY <2>1, AnswerType
  <2>. QED
    BY <1>1, <1>5, <2>2, <2>3 DEF ToldNotAhead, VersionNamesContent, Current
<1>6. ASSUME NEW S \in SUBSET Item, SweepRows(S)
      PROVE  VersionInv'
  <2>1. \A i \in Item \ swept' : i \notin swept /\ rows'[i] = rows[i] /\ UNCHANGED answered
    BY <1>6 DEF SweepRows, Sweep
  <2>. QED
    BY <1>1, <2>1 DEF ToldNotAhead, VersionNamesContent, Current
<1>. QED
  BY <1>2, <1>3, <1>4, <1>5, <1>6, StepShapes

-----------------------------------------------------------------------------
(***************************************************************************)
(* The quota: what a write takes and gives back.                           *)
(***************************************************************************)
\* The bytes of some rows of a table.
Stored(R, P) == UNION {{i} \X (1 .. Length(R[i].envelope)) : i \in P}

LEMMA RowBytes ==
  ASSUME NEW R \in [Item -> Row], NEW i \in Item
  PROVE  /\ Length(R[i].envelope) \in Nat
         /\ IsFiniteSet({i} \X (1 .. Length(R[i].envelope)))
         /\ Cardinality({i} \X (1 .. Length(R[i].envelope))) = Length(R[i].envelope)
<1> DEFINE n == Length(R[i].envelope)
           N == 1 .. n
<1>1. n \in Nat
  BY StoreAssumption DEF Row, Length
<1>2. IsFiniteSet(N) /\ Cardinality(N) = n
  BY <1>1, FS_Interval
<1>3. IsFiniteSet({i}) /\ Cardinality({i}) = 1
  BY FS_Singleton
<1>4. IsFiniteSet({i} \X N) /\ Cardinality({i} \X N) = 1 * Cardinality(N)
  <2> HIDE DEF N
  <2>. QED
    BY <1>2, <1>3, FS_Product
<1>. QED
  BY <1>1, <1>2, <1>4

LEMMA StoredFinite ==
  ASSUME NEW R \in [Item -> Row], NEW P \in SUBSET Item
  PROVE  IsFiniteSet(Stored(R, P)) /\ Cardinality(Stored(R, P)) \in Nat
<1> DEFINE f == [i \in Item |-> {i} \X (1 .. Length(R[i].envelope))]
           A == {f[i] : i \in P}
<1>1. IsFiniteSet(P)
  BY FS_Subset, StoreAssumption
<1>2. IsFiniteSet(A)
  <2> HIDE DEF f
  <2>. QED
    BY <1>1, ImageBound
<1>3. \A B \in A : IsFiniteSet(B)
  BY RowBytes
<1>4. IsFiniteSet(UNION A)
  <2> HIDE DEF A
  <2>. QED
    BY <1>2, <1>3, FS_UNION
<1>5. A = {{i} \X (1 .. Length(R[i].envelope)) : i \in P}
  OBVIOUS
<1>. QED
  BY <1>4, <1>5, FS_CardinalityType DEF Stored

\* The bytes of one row and of the others.
LEMMA StoredWithout ==
  ASSUME NEW R \in [Item -> Row], NEW P \in SUBSET Item, NEW i \in Item,
         i \notin P => R[i].envelope = NoEnvelope
  PROVE  Cardinality(Stored(R, P)) = Cardinality(Stored(R, P \ {i})) + Length(R[i].envelope)
<1> DEFINE V == Stored(R, P \ {i})
           U == Stored(R, P)
           B == {i} \X (1 .. Length(R[i].envelope))
<1>1. P \ {i} \in SUBSET Item
  OBVIOUS
<1>2. IsFiniteSet(V) /\ IsFiniteSet(U) /\ Cardinality(V) \in Nat /\ Cardinality(U) \in Nat
  BY <1>1, StoredFinite
<1>3. IsFiniteSet(B) /\ Cardinality(B) = Length(R[i].envelope) /\ Length(R[i].envelope) \in Nat
  BY RowBytes
<1>4. V \cap B = {}
  BY DEF Stored
<1>5. U = V \cup B
  <2>1. CASE i \in P
    BY <2>1 DEF Stored
  <2>2. CASE i \notin P
    <3>1. Length(R[i].envelope) = 0
      BY <2>2 DEF Length
    <3>2. B = {} /\ P \ {i} = P
      BY <2>2, <3>1
    <3>. QED
      BY <3>2
  <2>. QED
    BY <2>1, <2>2
<1> HIDE DEF V, U, B
<1>6. Cardinality(U) = Cardinality(V) + Cardinality(B) - Cardinality({})
  BY <1>2, <1>3, <1>4, <1>5, FS_Union
<1>7. Cardinality({}) = 0
  BY FS_EmptySet
<1>8. Cardinality(U) = Cardinality(V) + Length(R[i].envelope)
  BY <1>2, <1>3, <1>6, <1>7
<1>. QED
  BY <1>8 DEF U, V

\* A write leaves the other rows and their bytes.
LEMMA WriteUses ==
  ASSUME FeedTypeOK, MissingIsBare, FeedTypeOK', NEW i \in Item, NEW e \in Envelope \cup {NoEnvelope}, Write(i, e)
  PROVE  /\ MissingIsBare'
         /\ BytesUsed' = BytesUsed - Length(rows[i].envelope) + Length(e)
         /\ BytesUsed \in Nat /\ Length(rows[i].envelope) \in Nat /\ Length(e) \in Nat
         /\ Present' = Present \cup {i}
<1>1. /\ rows'[i].version = rows[i].version + 1 /\ rows'[i].envelope = e
      /\ \A j \in Item \ {i} : rows'[j] = rows[j]
      /\ rows[i].version \in Nat
      /\ rows \in [Item -> Row] /\ rows' \in [Item -> Row]
  BY DEF Write, FeedTypeOK, StoreTypeOK, Row
<1>2. MissingIsBare'
  BY <1>1 DEF MissingIsBare
<1>3. Present' = Present \cup {i} /\ Present \in SUBSET Item /\ Present' \in SUBSET Item
  BY <1>1 DEF Present
<1>4. Stored(rows', Present' \ {i}) = Stored(rows, Present \ {i})
  <2>1. Present' \ {i} = Present \ {i} /\ Present \ {i} \subseteq Item \ {i}
    BY <1>3
  <2>. QED
    BY <1>1, <2>1 DEF Stored
<1>5. BytesUsed = Cardinality(Stored(rows, Present)) /\ BytesUsed' = Cardinality(Stored(rows', Present'))
  BY DEF BytesUsed, BytesOf, Stored
<1>6. /\ BytesUsed \in Nat /\ Length(rows[i].envelope) \in Nat
      /\ Cardinality(Stored(rows, Present \ {i})) \in Nat
      /\ BytesUsed = Cardinality(Stored(rows, Present \ {i})) + Length(rows[i].envelope)
  <2>1. i \notin Present => rows[i].envelope = NoEnvelope
    BY <1>1 DEF Present, MissingIsBare
  <2>2. Present \ {i} \in SUBSET Item
    BY <1>3
  <2>. QED
    BY <1>1, <1>3, <1>5, <2>1, <2>2, StoredWithout, StoredFinite, RowBytes
<1>7. BytesUsed' = Cardinality(Stored(rows', Present' \ {i})) + Length(rows'[i].envelope)
  BY <1>1, <1>3, <1>5, StoredWithout
<1>8. Length(e) \in Nat
  BY StoreAssumption DEF Length
<1>. QED
  BY <1>1, <1>2, <1>3, <1>4, <1>6, <1>7, <1>8

LEMMA QuotaStep ==
  ASSUME QuotaInv, [FeedNext]_feedVars
  PROVE  QuotaInv'
<1> USE DEF QuotaInv
<1>1. FeedTypeOK'
  BY TypeStep
<1>2. IsFiniteSet(Present) /\ Cardinality(Present) \in Nat /\ MaxRows \in Nat /\ MaxBytes \in Nat
  BY FS_Subset, FS_CardinalityType, StoreAssumption DEF Present
<1>3. CASE UNCHANGED rows
  BY <1>1, <1>3 DEF MissingIsBare, WithinLimits, Present, BytesUsed, BytesOf
<1>4. ASSUME NEW i \in Item, NEW e \in Envelope, HasRoom(i, e), Write(i, e)
      PROVE  QuotaInv'
  <2>1. /\ MissingIsBare' /\ BytesUsed' = BytesUsed - Length(rows[i].envelope) + Length(e)
        /\ BytesUsed \in Nat /\ Length(rows[i].envelope) \in Nat /\ Length(e) \in Nat
        /\ Present' = Present \cup {i}
    BY <1>1, <1>4, WriteUses
  <2>2. Length(e) = SizeOf(e)
    BY StoreAssumption DEF Length
  <2>3. BytesUsed' <= MaxBytes
    BY <1>2, <1>4, <2>1, <2>2 DEF HasRoom
  <2>4. Cardinality(Present') <= MaxRows
    <3>1. Cardinality(Present') = IF i \in Present THEN Cardinality(Present) ELSE Cardinality(Present) + 1
      BY <1>2, <2>1, FS_AddElement
    <3>. QED
      BY <1>2, <1>4, <3>1 DEF HasRoom, Present, WithinLimits
  <2>. QED
    BY <1>1, <2>1, <2>3, <2>4 DEF WithinLimits
<1>5. ASSUME NEW i \in Item, rows[i].version > 0, Write(i, NoEnvelope)
      PROVE  QuotaInv'
  <2>1. /\ MissingIsBare' /\ BytesUsed' = BytesUsed - Length(rows[i].envelope) + Length(NoEnvelope)
        /\ BytesUsed \in Nat /\ Length(rows[i].envelope) \in Nat
        /\ Present' = Present \cup {i}
    BY <1>1, <1>5, WriteUses
  <2>2. Length(NoEnvelope) = 0 /\ Present' = Present
    BY <1>5, <2>1 DEF Length, Present
  <2>3. BytesUsed' <= MaxBytes
    BY <1>2, <2>1, <2>2 DEF WithinLimits
  <2>4. Cardinality(Present)' <= MaxRows
    BY <2>2 DEF WithinLimits
  <2>. QED
    BY <1>1, <2>1, <2>3, <2>4 DEF WithinLimits
<1>6. ASSUME NEW S \in SUBSET Item, SweepRows(S)
      PROVE  QuotaInv'
  <2>1. /\ \A i \in S : rows[i].envelope = NoEnvelope /\ rows'[i] = Absent
        /\ \A i \in Item \ S : rows'[i] = rows[i]
    BY <1>6 DEF SweepRows, Sweep, Reclaimed
  <2>2. MissingIsBare'
    BY <2>1 DEF MissingIsBare, Absent
  <2>3. Present' = Present \ S
    BY <2>1 DEF Present, Absent
  <2>4. Cardinality(Present') <= Cardinality(Present) /\ Cardinality(Present') \in Nat
    BY <1>2, <2>3, FS_Subset, FS_CardinalityType
  <2>5. (UNION {BytesOf(i) : i \in Present})' \subseteq UNION {BytesOf(i) : i \in Present}
    <3>1. \A i \in Present' : i \in Present /\ BytesOf(i)' = BytesOf(i)
      BY <2>1, <2>3 DEF BytesOf, Present
    <3>. QED
      BY <3>1
  <2>6. BytesUsed' <= BytesUsed /\ BytesUsed \in Nat /\ BytesUsed' \in Nat
    <3>1. IsFiniteSet(Stored(rows, Present)) /\ rows \in [Item -> Row]
      BY StoredFinite DEF Present, FeedTypeOK, StoreTypeOK
    <3>2. IsFiniteSet(UNION {BytesOf(i) : i \in Present})
      BY <3>1 DEF Stored, BytesOf
    <3>. QED
      BY <2>5, <3>2, FS_Subset, FS_CardinalityType DEF BytesUsed
  <2>. QED
    BY <1>1, <1>2, <2>2, <2>4, <2>6 DEF WithinLimits
<1>7. ASSUME NEW c \in FeedClient, NEW i \in Item, NEW e \in Envelope, Put(c, i, e)
      PROVE  UNCHANGED rows \/ (HasRoom(i, e) /\ Write(i, e))
  BY <1>7 DEF Put, PutApplied, PutConflict, PutRefused, storeVars
<1>8. ASSUME NEW c \in FeedClient, NEW i \in Item, Delete(c, i)
      PROVE  UNCHANGED rows \/ (rows[i].version > 0 /\ Write(i, NoEnvelope))
  BY <1>8 DEF Delete, DeleteApplied, DeleteRepeated, DeleteMissing, DeleteConflict, Matches, storeVars
<1>9. ASSUME NEW c \in FeedClient, ReadPage(c)
      PROVE  UNCHANGED rows
  BY <1>9 DEF ReadPage
<1>10. UNCHANGED feedVars => UNCHANGED rows
  BY DEF feedVars
<1>. QED
  BY <1>3, <1>4, <1>5, <1>6, <1>7, <1>8, <1>9, <1>10 DEF FeedNext

-----------------------------------------------------------------------------
\* The server's table, cursors and clients stay well-typed.
THEOREM TypeCorrect == FeedSpec => []FeedTypeOK
<1>1. FeedInit => FeedTypeOK
  BY DEF FeedInit, StoreInit, FeedTypeOK, StoreTypeOK, Absent, Row, Told
<1>2. FeedTypeOK /\ [FeedNext]_feedVars => FeedTypeOK'
  BY TypeStep
<1>. QED
  BY <1>1, <1>2, PTL DEF FeedSpec

(***************************************************************************)
(* Whatever the page limit and however writes, reclaims and sweeps are     *)
(* interleaved with reading: a client that follows next_seq of changes     *)
(* misses no row.                                                          *)
(***************************************************************************)
THEOREM FeedLosesNothing == FeedSpec => []FeedIsComplete
<1>1. FeedInit => FeedInv
  <2>1. FeedInit => FeedTypeOK
    BY DEF FeedInit, StoreInit, FeedTypeOK, StoreTypeOK, Absent, Row, Told
  <2>. QED
    BY <2>1 DEF FeedInv, FeedInit, StoreInit, Absent, SeqAllocated, FeedIsComplete, FeedTypeOK, StoreTypeOK
<1>2. FeedInv /\ [FeedNext]_feedVars => FeedInv'
  BY FeedStep
<1>3. FeedInv => FeedIsComplete
  BY DEF FeedInv
<1>. QED
  BY <1>1, <1>2, <1>3, PTL DEF FeedSpec

(***************************************************************************)
(* Until sweep drops a row, the version token of put_item and delete_item  *)
(* identifies the bytes it was given out with.                             *)
(***************************************************************************)
THEOREM VersionsIdentify == FeedSpec => []VersionNamesContent
<1>1. FeedInit => VersionInv
  <2>1. FeedInit => FeedTypeOK
    BY DEF FeedInit, StoreInit, FeedTypeOK, StoreTypeOK, Absent, Row, Told
  <2>. QED
    BY <2>1 DEF VersionInv, FeedInit, StoreInit, Absent, ToldNotAhead, VersionNamesContent,
                Current
<1>2. VersionInv /\ [FeedNext]_feedVars => VersionInv'
  BY VersionStep
<1>3. VersionInv => VersionNamesContent
  BY DEF VersionInv
<1>. QED
  BY <1>1, <1>2, <1>3, PTL DEF FeedSpec
(***************************************************************************)
(* The rows and bytes of a vault stay within max_rows and max_bytes, for   *)
(* every size of envelopes, although put_item counts the rows it leaves    *)
(* alone and gives back the bytes it replaces.                             *)
(***************************************************************************)
THEOREM QuotaHolds == FeedSpec => []WithinLimits
<1>1. FeedInit => QuotaInv
  <2>1. FeedInit => FeedTypeOK
    BY DEF FeedInit, StoreInit, FeedTypeOK, StoreTypeOK, Absent, Row, Told
  <2>2. ASSUME FeedInit PROVE WithinLimits /\ MissingIsBare
    <3>1. Present = {} /\ MissingIsBare
      BY <2>2 DEF FeedInit, StoreInit, Absent, Present, MissingIsBare
    <3>2. UNION {BytesOf(i) : i \in Present} = {}
      BY <3>1
    <3>. QED
      BY <3>1, <3>2, FS_EmptySet, StoreAssumption DEF WithinLimits, BytesUsed
  <2>. QED
    BY <2>1, <2>2 DEF QuotaInv
<1>2. QuotaInv /\ [FeedNext]_feedVars => QuotaInv'
  BY QuotaStep
<1>3. QuotaInv => WithinLimits
  BY DEF QuotaInv
<1>. QED
  BY <1>1, <1>2, <1>3, PTL DEF FeedSpec
=============================================================================
