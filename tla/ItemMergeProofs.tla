--------------------------- MODULE ItemMergeProofs ---------------------------
(***************************************************************************)
(* Proofs about ItemMerge: a copy is a function of the writes and counts   *)
(* merged into it, for every set of devices, fields, values and tags.      *)
(***************************************************************************)
EXTENDS ItemMerge, TLAPS

-----------------------------------------------------------------------------
(***************************************************************************)
(* The joins.                                                              *)
(***************************************************************************)

\* Readings are numbers, and none is one of them.
LEMMA ReadingsAreNumbers ==
  Reading \subseteq Nat /\ Stamp \subseteq Nat /\ 0 \in Reading /\ Stamp \subseteq Reading
     /\ \A h \in Stamp : h > 0
BY MergeAssumption DEF Reading

\* Later is the maximum.
LEMMA LaterIsMax ==
  ASSUME NEW a \in Nat, NEW b \in Nat
  PROVE  /\ Later(a, b) \in Nat
         /\ a <= Later(a, b) /\ b <= Later(a, b)
         /\ Later(a, b) = a \/ Later(a, b) = b
BY DEF Later

\* The maximum of two readings is a reading.
LEMMA LaterReading ==
  ASSUME NEW a \in Reading, NEW b \in Reading
  PROVE  Later(a, b) \in Reading
BY DEF Later

\* The types of an item's parts.
LEMMA ItemParts ==
  ASSUME NEW x \in ItemCopy
  PROVE  /\ x.reg \in [Field -> Register]
         /\ \A f \in Field : x.reg[f].hlc \in Nat /\ x.reg[f].value \in Value
         /\ x.tags \in [Tag -> Entry]
         /\ \A t \in Tag : x.tags[t].added \in Nat /\ x.tags[t].removed \in Nat
         /\ x.count \in [Counter -> Nat]
         /\ x.deleted \in Reading /\ x.deleted \in Nat
BY ReadingsAreNumbers DEF ItemCopy, Register, Entry

\* The types of a write's parts.
LEMMA WriteParts ==
  ASSUME NEW w \in Write
  PROVE  /\ w.hlc \in Stamp /\ w.hlc \in Nat /\ w.hlc > 0
         /\ DOMAIN w.set \subseteq Field
         /\ w.add \subseteq Tag /\ w.rem \subseteq Tag
         /\ w.dead \in BOOLEAN
BY ReadingsAreNumbers DEF Write, Sets

\* Item::merge yields an item.
LEMMA MergeType ==
  ASSUME NEW x \in ItemCopy, NEW y \in ItemCopy
  PROVE  Merge(x, y) \in ItemCopy
<1>1. [f \in Field |-> LwwMerge(x.reg[f], y.reg[f])] \in [Field -> Register]
  BY ItemParts DEF LwwMerge
<1>2. [t \in Tag |-> OrSetMerge(x.tags[t], y.tags[t])] \in [Tag -> Entry]
  <2>1. ASSUME NEW t \in Tag PROVE OrSetMerge(x.tags[t], y.tags[t]) \in Entry
    <3>1. x.tags[t] \in Entry /\ y.tags[t] \in Entry
      BY ItemParts
    <3>2. /\ Later(x.tags[t].added, y.tags[t].added) \in Reading
          /\ Later(x.tags[t].removed, y.tags[t].removed) \in Reading
      BY <3>1, LaterReading DEF Entry
    <3>3. Later(x.tags[t].added, y.tags[t].added) = 0 =>
            Later(x.tags[t].removed, y.tags[t].removed) = 0
      <4>1. /\ x.tags[t].added \in Nat /\ y.tags[t].added \in Nat
            /\ x.tags[t].added = 0 => x.tags[t].removed = 0
            /\ y.tags[t].added = 0 => y.tags[t].removed = 0
        BY <3>1, ItemParts DEF Entry
      <4>. QED BY <4>1 DEF Later
    <3>. QED BY <3>2, <3>3 DEF OrSetMerge, Entry
  <2>. QED BY <2>1
<1>3. [c \in Counter |-> CountMerge(x.count[c], y.count[c])] \in [Counter -> Nat]
  BY ItemParts, LaterIsMax DEF CountMerge
<1>4. Later(x.deleted, y.deleted) \in Reading
  BY ItemParts, LaterReading
<1>. QED BY <1>1, <1>2, <1>3, <1>4 DEF Merge, ItemCopy

(***************************************************************************)
(* Merging two copies merges their histories.                              *)
(***************************************************************************)
LEMMA MergeRepresents ==
  ASSUME NEW x \in ItemCopy, NEW y \in ItemCopy,
         NEW s \in SUBSET Write, NEW r \in SUBSET Write,
         NEW n \in SUBSET Count, NEW m \in SUBSET Count,
         Represents(x, s, n), Represents(y, r, m)
  PROVE  Represents(Merge(x, y), s \cup r, n \cup m)
<1>. DEFINE z == Merge(x, y)
<1>1. RegistersOf(z, s \cup r)
  <2>1. ASSUME NEW f \in Field
        PROVE /\ z.reg[f] = x.reg[f] \/ z.reg[f] = y.reg[f]
              /\ x.reg[f].hlc <= z.reg[f].hlc /\ y.reg[f].hlc <= z.reg[f].hlc
    BY ItemParts DEF Merge, LwwMerge
  <2>2. ASSUME NEW w \in s \cup r, NEW f \in DOMAIN w.set
        PROVE w.hlc <= z.reg[f].hlc
    <3>1. f \in Field /\ w.hlc \in Nat
      BY WriteParts
    <3>2. w.hlc <= x.reg[f].hlc \/ w.hlc <= y.reg[f].hlc
      BY DEF Represents, RegistersOf
    <3>3. z.reg[f].hlc \in Nat /\ x.reg[f].hlc \in Nat /\ y.reg[f].hlc \in Nat
      BY <3>1, ItemParts, MergeType
    <3>. QED BY <2>1, <3>1, <3>2, <3>3
  <2>3. ASSUME NEW f \in Field
        PROVE \E w \in s \cup r :
                f \in DOMAIN w.set /\ w.hlc = z.reg[f].hlc /\ w.set[f] = z.reg[f].value
    BY <2>1 DEF Represents, RegistersOf
  <2>. QED BY <2>2, <2>3 DEF RegistersOf
<1>2. TagsOf(z, s \cup r)
  <2> SUFFICES ASSUME NEW t \in Tag
      PROVE /\ \A w \in s \cup r : t \in w.add => w.hlc <= z.tags[t].added
            /\ \A w \in s \cup r : t \in w.rem => w.hlc <= z.tags[t].removed
            /\ z.tags[t].added > 0 =>
                 \E w \in s \cup r : t \in w.add /\ w.hlc = z.tags[t].added
            /\ z.tags[t].removed > 0 =>
                 \E w \in s \cup r : t \in w.rem /\ w.hlc = z.tags[t].removed
    BY DEF TagsOf
  <2>1. /\ z.tags[t].added = Later(x.tags[t].added, y.tags[t].added)
        /\ z.tags[t].removed = Later(x.tags[t].removed, y.tags[t].removed)
    BY DEF Merge, OrSetMerge
  <2>2. /\ x.tags[t].added \in Nat /\ y.tags[t].added \in Nat
        /\ x.tags[t].removed \in Nat /\ y.tags[t].removed \in Nat
    BY ItemParts
  <2>3. \A w \in s \cup r : w.hlc \in Nat
    BY WriteParts
  <2>8. /\ z.tags[t].added \in Nat /\ z.tags[t].removed \in Nat
        /\ x.tags[t].added <= z.tags[t].added /\ y.tags[t].added <= z.tags[t].added
        /\ x.tags[t].removed <= z.tags[t].removed /\ y.tags[t].removed <= z.tags[t].removed
        /\ z.tags[t].added = x.tags[t].added \/ z.tags[t].added = y.tags[t].added
        /\ z.tags[t].removed = x.tags[t].removed \/ z.tags[t].removed = y.tags[t].removed
    BY <2>1, <2>2 DEF Later
  <2>. HIDE DEF z
  <2>4. \A w \in s \cup r : t \in w.add => w.hlc <= z.tags[t].added
    <3>1. \A w \in s : t \in w.add => w.hlc <= x.tags[t].added
      BY DEF Represents, TagsOf
    <3>2. \A w \in r : t \in w.add => w.hlc <= y.tags[t].added
      BY DEF Represents, TagsOf
    <3>. QED BY <3>1, <3>2, <2>2, <2>3, <2>8
  <2>5. \A w \in s \cup r : t \in w.rem => w.hlc <= z.tags[t].removed
    <3>1. \A w \in s : t \in w.rem => w.hlc <= x.tags[t].removed
      BY DEF Represents, TagsOf
    <3>2. \A w \in r : t \in w.rem => w.hlc <= y.tags[t].removed
      BY DEF Represents, TagsOf
    <3>. QED BY <3>1, <3>2, <2>2, <2>3, <2>8
  <2>6. z.tags[t].added > 0 => \E w \in s \cup r : t \in w.add /\ w.hlc = z.tags[t].added
    BY <2>2, <2>8 DEF Represents, TagsOf
  <2>7. z.tags[t].removed > 0 => \E w \in s \cup r : t \in w.rem /\ w.hlc = z.tags[t].removed
    BY <2>2, <2>8 DEF Represents, TagsOf
  <2>. QED BY <2>4, <2>5, <2>6, <2>7
<1>3. TombstoneOf(z, s \cup r)
  <2>1. z.deleted = Later(x.deleted, y.deleted)
    BY DEF Merge
  <2>2. x.deleted \in Nat /\ y.deleted \in Nat /\ \A w \in s \cup r : w.hlc \in Nat
    BY ItemParts, WriteParts
  <2>3. \A w \in s : w.dead => w.hlc <= x.deleted
    BY DEF Represents, TombstoneOf
  <2>4. \A w \in r : w.dead => w.hlc <= y.deleted
    BY DEF Represents, TombstoneOf
  <2>7. /\ z.deleted \in Nat /\ x.deleted <= z.deleted /\ y.deleted <= z.deleted
        /\ z.deleted = x.deleted \/ z.deleted = y.deleted
    BY <2>1, <2>2 DEF Later
  <2>. HIDE DEF z
  <2>5. z.deleted > 0 => \E w \in s \cup r : w.dead /\ w.hlc = z.deleted
    BY <2>7 DEF Represents, TombstoneOf
  <2>6. \A w \in s \cup r : w.dead => w.hlc <= z.deleted
    BY <2>2, <2>3, <2>4, <2>7
  <2>. QED BY <2>5, <2>6 DEF TombstoneOf
<1>4. CountsOf(z, n \cup m)
  <2> SUFFICES ASSUME NEW c \in Counter
      PROVE /\ \A k \in n \cup m : k.counter = c => k.n <= z.count[c]
            /\ z.count[c] > 0 => \E k \in n \cup m : k.counter = c /\ k.n = z.count[c]
    BY DEF CountsOf
  <2>1. z.count[c] = Later(x.count[c], y.count[c])
    BY DEF Merge, CountMerge
  <2>2. x.count[c] \in Nat /\ y.count[c] \in Nat /\ \A k \in n \cup m : k.n \in Nat
    BY ItemParts DEF Count
  <2>3. \A k \in n : k.counter = c => k.n <= x.count[c]
    BY DEF Represents, CountsOf
  <2>4. \A k \in m : k.counter = c => k.n <= y.count[c]
    BY DEF Represents, CountsOf
  <2>7. /\ z.count[c] \in Nat /\ x.count[c] <= z.count[c] /\ y.count[c] <= z.count[c]
        /\ z.count[c] = x.count[c] \/ z.count[c] = y.count[c]
    BY <2>1, <2>2 DEF Later
  <2>. HIDE DEF z
  <2>5. z.count[c] > 0 => \E k \in n \cup m : k.counter = c /\ k.n = z.count[c]
    BY <2>7 DEF Represents, CountsOf
  <2>6. \A k \in n \cup m : k.counter = c => k.n <= z.count[c]
    BY <2>2, <2>3, <2>4, <2>7
  <2>. QED BY <2>5, <2>6
<1>. QED BY <1>1, <1>2, <1>3, <1>4 DEF Represents

-----------------------------------------------------------------------------
(***************************************************************************)
(* The steps.                                                              *)
(***************************************************************************)

\* A held copy was sealed, so its writes are writes of a sealed version.
LEMMA SeenWasSealed ==
  ASSUME HeldIsSealed, NEW d \in Replica, NEW w \in absorbed[d]
  PROVE  \E v \in sealed : w \in v.absorbed
<1>1. Holds(d)
  BY DEF HeldIsSealed
<1>2. [item |-> item[d], absorbed |-> absorbed[d], heard |-> heard[d]] \in sealed
  BY <1>1 DEF HeldIsSealed
<1>. QED BY <1>2

\* A held copy is what its history makes of it.
LEMMA HeldRepresents ==
  ASSUME MergeTypeOK, HeldIsSealed, SealedRepresents, NEW d \in Replica, Holds(d)
  PROVE  /\ item[d] \in ItemCopy
         /\ Represents(item[d], absorbed[d], heard[d])
<1>1. [item |-> item[d], absorbed |-> absorbed[d], heard |-> heard[d]] \in sealed
  BY DEF HeldIsSealed
<1>2. Represents(item[d], absorbed[d], heard[d])
  BY <1>1 DEF SealedRepresents
<1>3. item[d] \in ItemCopy
  BY DEF MergeTypeOK, Holds
<1>. QED BY <1>2, <1>3

\* commit_item of a copy that is what its history makes of it.
LEMMA CommitStep ==
  ASSUME MergeTypeOK, HeldIsSealed, SealedRepresents,
         NEW d \in Replica, NEW x \in ItemCopy,
         NEW s \in SUBSET Write, NEW n \in SUBSET Count,
         CommitVersion(d, x, s, n), Represents(x, s, n)
  PROVE  /\ item' \in [Replica -> ItemCopy \cup {NoItem}]
         /\ sealed' \subseteq Version
         /\ absorbed' \in [Replica -> SUBSET Write]
         /\ heard' \in [Replica -> SUBSET Count]
         /\ HeldIsSealed'
         /\ SealedRepresents'
<1>. DEFINE v == [item |-> x, absorbed |-> s, heard |-> n]
<1>1. v \in Version
  BY DEF Version
<1>2. /\ item' = [item EXCEPT ![d] = x]
      /\ absorbed' = [absorbed EXCEPT ![d] = s]
      /\ heard' = [heard EXCEPT ![d] = n]
      /\ sealed' = sealed \cup {v}
  BY DEF CommitVersion
<1>3. /\ item' \in [Replica -> ItemCopy \cup {NoItem}]
      /\ absorbed' \in [Replica -> SUBSET Write]
      /\ heard' \in [Replica -> SUBSET Count]
      /\ sealed' \subseteq Version
  BY <1>1, <1>2 DEF MergeTypeOK
<1>4. HeldIsSealed'
  <2> SUFFICES ASSUME NEW e \in Replica
      PROVE IF item'[e] # NoItem
            THEN [item |-> item'[e], absorbed |-> absorbed'[e], heard |-> heard'[e]] \in sealed'
            ELSE absorbed'[e] = {} /\ heard'[e] = {}
    BY DEF HeldIsSealed, Holds
  <2>1. CASE e = d
    <3>1. item'[e] = x /\ absorbed'[e] = s /\ heard'[e] = n
      BY <2>1, <1>2 DEF MergeTypeOK
    <3>. QED BY <3>1, <1>2, NoItemAssumption
  <2>2. CASE e # d
    <3>1. item'[e] = item[e] /\ absorbed'[e] = absorbed[e] /\ heard'[e] = heard[e]
      BY <2>2, <1>2 DEF MergeTypeOK
    <3>. QED BY <3>1, <1>2 DEF HeldIsSealed, Holds
  <2>. QED BY <2>1, <2>2
<1>5. SealedRepresents'
  BY <1>2 DEF SealedRepresents
<1>. QED BY <1>3, <1>4, <1>5

\* mutate_item: the clock issues a reading past everything in the copy.
LEMMA MutateStep ==
  ASSUME MergeInv, NEW d \in Replica, NEW x \in ItemCopy, NEW w \in Write,
         Mutate(d, x, w),
         Represents(x, absorbed[d] \cup {w}, heard[d]),
         \A h \in FieldStamps(x) \cup {x.deleted} : h <= w.hlc,
         \A c \in Counter : x.count[c] = IF Holds(d) THEN item[d].count[c] ELSE 0
  PROVE  MergeInv'
<1>. DEFINE s == absorbed[d] \cup {w}
            v == [item |-> x, absorbed |-> s, heard |-> heard[d]]
<1>1. /\ Owner(w.hlc) = d /\ w.hlc > clock[d]
      /\ clock' = [clock EXCEPT ![d] = w.hlc]
      /\ used' = used
      /\ CommitVersion(d, x, s, heard[d])
      /\ item' = [item EXCEPT ![d] = x]
      /\ sealed' = sealed \cup {v}
  BY DEF Mutate, Ticks, CommitVersion
<1>2. s \in SUBSET Write /\ heard[d] \in SUBSET Count
  BY DEF MergeInv, MergeTypeOK
<1>3. /\ item' \in [Replica -> ItemCopy \cup {NoItem}]
      /\ sealed' \subseteq Version
      /\ absorbed' \in [Replica -> SUBSET Write]
      /\ heard' \in [Replica -> SUBSET Count]
      /\ HeldIsSealed'
      /\ SealedRepresents'
  BY <1>1, <1>2, CommitStep DEF MergeInv
<1>4. w.hlc \in Nat /\ clock \in [Replica -> Nat]
  BY WriteParts DEF MergeInv, MergeTypeOK
<1>5. MergeTypeOK'
  BY <1>1, <1>3, <1>4 DEF MergeInv, MergeTypeOK
<1>6. \A u \in sealed : \A a \in u.absorbed : a \in Write /\ a.hlc \in Nat /\ Owner(a.hlc) \in Replica
  BY WriteParts, MergeAssumption DEF MergeInv, MergeTypeOK, Version
<1>7. \A u \in sealed : \A a \in u.absorbed : a.hlc # w.hlc
  BY <1>1, <1>4, <1>6 DEF MergeInv, ClockCoversWrites
<1>8. \A a \in s : a = w \/ \E u \in sealed : a \in u.absorbed
  BY SeenWasSealed DEF MergeInv
<1>9. ReadingsAreWrites'
  <2>1. \A u \in sealed' : \A a \in u.absorbed : a = w \/ \E o \in sealed : a \in o.absorbed
    BY <1>1, <1>8
  <2>2. ASSUME NEW a, NEW b, a.hlc = b.hlc,
               a = w \/ \E o \in sealed : a \in o.absorbed,
               b = w \/ \E o \in sealed : b \in o.absorbed
        PROVE a = b
    BY <2>2, <1>7 DEF MergeInv, ReadingsAreWrites
  <2>. QED BY <2>1, <2>2 DEF ReadingsAreWrites
<1>10. ClockCoversWrites'
  <2>1. \A u \in sealed : \A a \in u.absorbed : a.hlc <= clock'[Owner(a.hlc)]
    <3> SUFFICES ASSUME NEW u \in sealed, NEW a \in u.absorbed
        PROVE a.hlc <= clock'[Owner(a.hlc)]
      OBVIOUS
    <3>1. a.hlc <= clock[Owner(a.hlc)] /\ Owner(a.hlc) \in Replica /\ a.hlc \in Nat
      BY <1>6 DEF MergeInv, ClockCoversWrites
    <3>2. clock[Owner(a.hlc)] <= clock'[Owner(a.hlc)] /\ clock'[Owner(a.hlc)] \in Nat
      BY <1>1, <1>4, <3>1
    <3>. QED BY <3>1, <3>2, <1>4
  <2>2. w.hlc <= clock'[Owner(w.hlc)]
    BY <1>1, <1>4
  <2>3. \A u \in sealed' : \A a \in u.absorbed : a = w \/ \E o \in sealed : a \in o.absorbed
    BY <1>1, <1>8
  <2>. QED BY <2>1, <2>2, <2>3 DEF ClockCoversWrites
<1>11. ClockCoversCopy'
  <2> SUFFICES ASSUME NEW e \in Replica, item'[e] # NoItem
      PROVE \A h \in FieldStamps(item'[e]) \cup {item'[e].deleted} : h <= clock'[e]
    BY DEF ClockCoversCopy, Holds, FieldStamps
  <2>1. CASE e = d
    <3>1. item'[e] = x /\ clock'[e] = w.hlc
      BY <2>1, <1>1, <1>4 DEF MergeInv, MergeTypeOK
    <3>. QED BY <3>1
  <2>2. CASE e # d
    <3>1. item'[e] = item[e] /\ clock'[e] = clock[e]
      BY <2>2, <1>1, <1>4 DEF MergeInv, MergeTypeOK
    <3>. QED BY <3>1 DEF MergeInv, ClockCoversCopy, Holds
  <2>. QED BY <2>1, <2>2
<1>12. CountsAreUses'
  <2>1. \A e \in Replica : x.count[e] <= used[e]
    <3>1. CASE Holds(d)
      <4>1. [item |-> item[d], absorbed |-> absorbed[d], heard |-> heard[d]] \in sealed
        BY <3>1 DEF MergeInv, HeldIsSealed
      <4>. QED BY <4>1, <3>1 DEF MergeInv, CountsAreUses, Counter
    <3>2. CASE ~Holds(d)
      BY <3>2 DEF MergeInv, MergeTypeOK, Counter
    <3>. QED BY <3>1, <3>2
  <2>2. x.count[d] = used[d]
    BY DEF MergeInv, CountsAreUses, Counter
  <2>3. \A u \in sealed' : \A e \in Replica : u.item.count[e] <= used'[e]
    BY <2>1, <1>1 DEF MergeInv, CountsAreUses
  <2>4. \A e \in Replica : IF item'[e] # NoItem THEN item'[e].count[e] = used'[e] ELSE used'[e] = 0
    BY <2>2, <1>1, NoItemAssumption DEF MergeInv, CountsAreUses, Holds, MergeTypeOK
  <2>. QED BY <2>3, <2>4 DEF CountsAreUses, Holds
<1>. QED BY <1>3, <1>5, <1>9, <1>10, <1>11, <1>12 DEF MergeInv

\* A reading about to be issued is past everything in the copy.
LEMMA TickIsPast ==
  ASSUME MergeInv, NEW d \in Replica, Holds(d), NEW h \in Stamp, Ticks(d, h)
  PROVE  /\ \A f \in Field : item[d].reg[f].hlc < h
         /\ \A t \in Tag : item[d].tags[t].added < h /\ item[d].tags[t].removed < h
         /\ item[d].deleted < h
<1>1. item[d] \in ItemCopy /\ clock[d] \in Nat
  BY DEF MergeInv, MergeTypeOK, Holds
<1>2. h \in Nat /\ clock[d] < h
  BY ReadingsAreNumbers, <1>1 DEF Ticks
<1>3. \A g \in FieldStamps(item[d]) \cup {item[d].deleted} : g <= clock[d]
  BY DEF MergeInv, ClockCoversCopy
<1>4. /\ \A f \in Field : item[d].reg[f].hlc <= clock[d]
      /\ \A t \in Tag : item[d].tags[t].added <= clock[d] /\ item[d].tags[t].removed <= clock[d]
      /\ item[d].deleted <= clock[d]
  BY <1>3 DEF FieldStamps
<1>. QED BY <1>1, <1>2, <1>4, ItemParts

\* The write that sets no register.
LEMMA NoSetType == NoSet \in Sets /\ DOMAIN NoSet = {}
<1>1. DOMAIN NoSet = {} /\ NoSet \in [{} -> Value]
  BY DEF NoSet
<1>2. {} \in SUBSET Field
  OBVIOUS
<1>. QED BY <1>1, <1>2 DEF Sets

\* Vault::add, the first version of the item.
LEMMA AddStep ==
  ASSUME MergeInv, NEW d \in Replica, NEW h \in Stamp,
         NEW set \in [Field -> Value], NEW T \in SUBSET Tag, Add(d, set, T, h)
  PROVE  MergeInv'
<1>. DEFINE w == WriteOf(h, set, T, {}, FALSE)
            x == [reg     |-> [f \in Field |-> [value |-> set[f], hlc |-> h]],
                  tags    |-> [t \in Tag |-> [added |-> IF t \in T THEN h ELSE 0, removed |-> 0]],
                  count   |-> [c \in Counter |-> 0],
                  deleted |-> 0]
<1>1. Mutate(d, x, w) /\ sealed = {}
  BY DEF Add
<1>2. w \in Write
  <2>1. set \in Sets
    BY DEF Sets
  <2>. QED BY <2>1 DEF WriteOf, Write
<1>3. h \in Nat /\ h > 0 /\ h \in Reading /\ 0 \in Reading
  BY ReadingsAreNumbers
<1>4. x \in ItemCopy
  BY <1>3 DEF ItemCopy, Register, Entry
<1>5. ~Holds(d) /\ absorbed[d] = {} /\ heard[d] = {}
  BY <1>1 DEF MergeInv, HeldIsSealed
<1>6. Represents(x, {w}, {})
  <2>1. RegistersOf(x, {w})
    BY <1>3 DEF RegistersOf, WriteOf
  <2>2. TagsOf(x, {w})
    BY <1>3 DEF TagsOf, WriteOf
  <2>3. TombstoneOf(x, {w})
    BY <1>3 DEF TombstoneOf, WriteOf
  <2>4. CountsOf(x, {})
    BY DEF CountsOf
  <2>. QED BY <2>1, <2>2, <2>3, <2>4 DEF Represents
<1>7. Represents(x, absorbed[d] \cup {w}, heard[d])
  <2>1. absorbed[d] \cup {w} = {w}
    BY <1>5
  <2>. HIDE DEF x, w
  <2>. QED BY <2>1, <1>5, <1>6
<1>8. \A g \in FieldStamps(x) \cup {x.deleted} : g <= w.hlc
  BY <1>3 DEF FieldStamps, WriteOf
<1>9. \A c \in Counter : x.count[c] = IF Holds(d) THEN item[d].count[c] ELSE 0
  BY <1>5
<1>. HIDE DEF x, w
<1>. QED BY <1>1, <1>2, <1>4, <1>7, <1>8, <1>9, MutateStep

\* update, trash_item and restore_item.
LEMMA UpdateStep ==
  ASSUME MergeInv, NEW d \in Replica, NEW h \in Stamp, NEW set \in Sets, Update(d, set, h)
  PROVE  MergeInv'
<1>. DEFINE w == WriteOf(h, set, {}, {}, FALSE)
            x == [item[d] EXCEPT !.reg = [f \in Field |->
                    IF f \in DOMAIN set THEN LwwSet(@[f], set[f], h) ELSE @[f]]]
            old == item[d]
<1>1. Holds(d) /\ Mutate(d, x, w)
  BY DEF Update
<1>2. w \in Write /\ w.hlc = h /\ w.set = set /\ w.add = {} /\ w.rem = {} /\ w.dead = FALSE
  <2>1. w \in Write
    BY NoSetType DEF WriteOf, Write
  <2>2. w.hlc = h /\ w.set = set /\ w.add = {} /\ w.rem = {} /\ w.dead = FALSE
    BY DEF WriteOf
  <2>. QED BY <2>1, <2>2, NoSetType
<1>3. old \in ItemCopy /\ Represents(old, absorbed[d], heard[d])
  BY <1>1, HeldRepresents DEF MergeInv
<1>4. h \in Nat /\ DOMAIN set \subseteq Field /\ \A f \in DOMAIN set : set[f] \in Value
  BY ReadingsAreNumbers DEF Sets
<1>5. Ticks(d, h)
  BY <1>1, <1>2 DEF Mutate
<1>6. /\ \A f \in Field : old.reg[f].hlc < h
      /\ \A t \in Tag : old.tags[t].added < h /\ old.tags[t].removed < h
      /\ old.deleted < h
  BY <1>1, <1>5, TickIsPast
<1>7. /\ x.reg = [f \in Field |-> IF f \in DOMAIN set THEN [value |-> set[f], hlc |-> h] ELSE old.reg[f]]
      /\ x.tags = old.tags /\ x.count = old.count /\ x.deleted = old.deleted
  BY <1>3, <1>6 DEF ItemCopy, LwwSet
<1>8. x \in ItemCopy
  <2>1. x.reg \in [Field -> Register]
    <3>1. \A f \in Field : old.reg[f] \in Register
      BY <1>3, ItemParts
    <3>2. \A f \in DOMAIN set : [value |-> set[f], hlc |-> h] \in Register
      BY <1>4 DEF Register
    <3>. HIDE DEF x, old
    <3>. QED BY <3>1, <3>2, <1>7
  <2>. QED BY <2>1, <1>3, <1>7 DEF ItemCopy
<1>. HIDE DEF x, w
<1>9. RegistersOf(x, absorbed[d] \cup {w})
  <2>1. RegistersOf(old, absorbed[d])
    BY <1>3 DEF Represents
  <2>2. ASSUME NEW a \in absorbed[d] \cup {w}, NEW f \in DOMAIN a.set
        PROVE a.hlc <= x.reg[f].hlc
    <3>1. CASE a = w
      BY <3>1, <1>2, <1>4, <1>7
    <3>2. CASE a \in absorbed[d]
      <4>1. f \in Field /\ a.hlc \in Nat
        BY <3>2, WriteParts DEF MergeInv, MergeTypeOK
      <4>2. a.hlc <= old.reg[f].hlc /\ old.reg[f].hlc < h /\ old.reg[f].hlc \in Nat
        BY <3>2, <4>1, <2>1, <1>3, <1>6, ItemParts DEF RegistersOf
      <4>3. x.reg[f].hlc = h \/ x.reg[f].hlc = old.reg[f].hlc
        BY <4>1, <1>7
      <4>. QED BY <4>1, <4>2, <4>3, <1>4
    <3>. QED BY <3>1, <3>2
  <2>3. ASSUME NEW f \in Field
        PROVE \E a \in absorbed[d] \cup {w} :
                f \in DOMAIN a.set /\ a.hlc = x.reg[f].hlc /\ a.set[f] = x.reg[f].value
    <3>1. CASE f \in DOMAIN set
      BY <3>1, <1>2, <1>7
    <3>2. CASE f \notin DOMAIN set
      <4>1. x.reg[f] = old.reg[f]
        BY <3>2, <1>7
      <4>. QED BY <4>1, <2>1 DEF RegistersOf
    <3>. QED BY <3>1, <3>2
  <2>. QED BY <2>2, <2>3 DEF RegistersOf
<1>10. TagsOf(x, absorbed[d] \cup {w})
  BY <1>2, <1>3, <1>7 DEF Represents, TagsOf
<1>11. TombstoneOf(x, absorbed[d] \cup {w})
  BY <1>2, <1>3, <1>7 DEF Represents, TombstoneOf
<1>12. CountsOf(x, heard[d])
  BY <1>3, <1>7 DEF Represents, CountsOf
<1>13. Represents(x, absorbed[d] \cup {w}, heard[d])
  BY <1>9, <1>10, <1>11, <1>12 DEF Represents
<1>14. \A g \in FieldStamps(x) \cup {x.deleted} : g <= w.hlc
  <2>1. \A f \in Field : x.reg[f].hlc <= h
    BY <1>3, <1>4, <1>6, <1>7, ItemParts
  <2>2. /\ \A t \in Tag : x.tags[t].added <= h /\ x.tags[t].removed <= h
        /\ x.deleted <= h
    BY <1>3, <1>4, <1>6, <1>7, ItemParts
  <2>. QED BY <2>1, <2>2, <1>2 DEF FieldStamps
<1>. QED BY <1>1, <1>2, <1>7, <1>8, <1>13, <1>14, MutateStep

\* add_tag and remove_tag: one entry changes, under the reading.
LEMMA TagStep ==
  ASSUME MergeInv, NEW d \in Replica, NEW h \in Stamp, NEW t \in Tag, Holds(d),
         NEW e \in Entry, NEW add \in SUBSET {t}, NEW rem \in SUBSET {t},
         e.added = IF t \in add THEN h ELSE item[d].tags[t].added,
         e.removed = IF t \in rem THEN h ELSE item[d].tags[t].removed,
         Mutate(d, [item[d] EXCEPT !.tags[t] = e], WriteOf(h, NoSet, add, rem, FALSE))
  PROVE  MergeInv'
<1>. DEFINE w == WriteOf(h, NoSet, add, rem, FALSE)
            x == [item[d] EXCEPT !.tags[t] = e]
            old == item[d]
<1>1. add \in SUBSET Tag /\ rem \in SUBSET Tag
  OBVIOUS
<1>2. w \in Write /\ w.hlc = h /\ DOMAIN w.set = {} /\ w.add = add /\ w.rem = rem /\ w.dead = FALSE
  <2>1. w \in Write
    BY <1>1, NoSetType DEF WriteOf, Write
  <2>2. w.hlc = h /\ w.set = NoSet /\ w.add = add /\ w.rem = rem /\ w.dead = FALSE
    BY DEF WriteOf
  <2>. QED BY <2>1, <2>2, NoSetType
<1>3. old \in ItemCopy /\ Represents(old, absorbed[d], heard[d])
  BY HeldRepresents DEF MergeInv
<1>4. h \in Nat
  BY ReadingsAreNumbers
<1>5. Ticks(d, h)
  BY <1>2 DEF Mutate
<1>6. /\ \A f \in Field : old.reg[f].hlc < h
      /\ \A u \in Tag : old.tags[u].added < h /\ old.tags[u].removed < h
      /\ old.deleted < h
  BY <1>5, TickIsPast
<1>7. /\ x.tags = [old.tags EXCEPT ![t] = e]
      /\ x.reg = old.reg /\ x.count = old.count /\ x.deleted = old.deleted
  BY <1>3 DEF ItemCopy
<1>8. x \in ItemCopy
  <2>1. x.tags \in [Tag -> Entry]
    BY <1>3, <1>7, ItemParts
  <2>. QED BY <2>1, <1>3, <1>7 DEF ItemCopy
<1>. HIDE DEF x, w
<1>9. TagsOf(x, absorbed[d] \cup {w})
  <2> SUFFICES ASSUME NEW u \in Tag
      PROVE /\ \A a \in absorbed[d] \cup {w} : u \in a.add => a.hlc <= x.tags[u].added
            /\ \A a \in absorbed[d] \cup {w} : u \in a.rem => a.hlc <= x.tags[u].removed
            /\ x.tags[u].added > 0 =>
                 \E a \in absorbed[d] \cup {w} : u \in a.add /\ a.hlc = x.tags[u].added
            /\ x.tags[u].removed > 0 =>
                 \E a \in absorbed[d] \cup {w} : u \in a.rem /\ a.hlc = x.tags[u].removed
    BY DEF TagsOf
  <2>1. /\ \A a \in absorbed[d] : u \in a.add => a.hlc <= old.tags[u].added
        /\ \A a \in absorbed[d] : u \in a.rem => a.hlc <= old.tags[u].removed
        /\ old.tags[u].added > 0 => \E a \in absorbed[d] : u \in a.add /\ a.hlc = old.tags[u].added
        /\ old.tags[u].removed > 0 => \E a \in absorbed[d] : u \in a.rem /\ a.hlc = old.tags[u].removed
    BY <1>3 DEF Represents, TagsOf
  <2>2. /\ x.tags[u].added = IF u \in add THEN h ELSE old.tags[u].added
        /\ x.tags[u].removed = IF u \in rem THEN h ELSE old.tags[u].removed
    BY <1>3, <1>7, ItemParts
  <2>3. /\ old.tags[u].added < h /\ old.tags[u].removed < h
        /\ old.tags[u].added \in Nat /\ old.tags[u].removed \in Nat
    BY <1>3, <1>6, ItemParts
  <2>4. \A a \in absorbed[d] : a.hlc \in Nat
    BY WriteParts DEF MergeInv, MergeTypeOK
  <2>. QED BY <2>1, <2>2, <2>3, <2>4, <1>2, <1>4
<1>10. RegistersOf(x, absorbed[d] \cup {w})
  BY <1>2, <1>3, <1>7 DEF Represents, RegistersOf
<1>11. TombstoneOf(x, absorbed[d] \cup {w})
  BY <1>2, <1>3, <1>7 DEF Represents, TombstoneOf
<1>12. CountsOf(x, heard[d])
  BY <1>3, <1>7 DEF Represents, CountsOf
<1>13. Represents(x, absorbed[d] \cup {w}, heard[d])
  BY <1>9, <1>10, <1>11, <1>12 DEF Represents
<1>14. \A g \in FieldStamps(x) \cup {x.deleted} : g <= w.hlc
  <2>1. (\A f \in Field : x.reg[f].hlc <= h) /\ x.deleted <= h
    BY <1>3, <1>4, <1>6, <1>7, ItemParts
  <2>2. \A u \in Tag : x.tags[u].added <= h /\ x.tags[u].removed <= h
    BY <1>3, <1>4, <1>6, <1>7, ItemParts
  <2>. QED BY <2>1, <2>2, <1>2 DEF FieldStamps
<1>15. Mutate(d, x, w)
  BY DEF x, w
<1>. QED BY <1>2, <1>7, <1>8, <1>13, <1>14, <1>15, MutateStep

\* add_tag.
LEMMA AddTagStep ==
  ASSUME MergeInv, NEW d \in Replica, NEW h \in Stamp, NEW t \in Tag, AddTag(d, t, h)
  PROVE  MergeInv'
<1>. DEFINE old == item[d].tags[t]
            e == OrSetAdd(old, h)
<1>1. Holds(d) /\ Mutate(d, [item[d] EXCEPT !.tags[t] = e], WriteOf(h, NoSet, {t}, {}, FALSE))
  <2>1. item[d] \in ItemCopy
    BY DEF AddTag, Holds, MergeInv, MergeTypeOK
  <2>2. [item[d] EXCEPT !.tags[t] = e] = [item[d] EXCEPT !.tags[t] = OrSetAdd(@, h)]
    BY <2>1 DEF ItemCopy
  <2>. QED BY <2>2 DEF AddTag
<1>2. item[d] \in ItemCopy /\ old \in Entry /\ old.added \in Nat /\ h \in Nat /\ h \in Reading
  BY <1>1, ItemParts, ReadingsAreNumbers DEF Holds, MergeInv, MergeTypeOK
<1>3. Ticks(d, h)
  BY <1>1 DEF Mutate, WriteOf
<1>4. old.added < h
  BY <1>1, <1>3, TickIsPast
<1>5. e \in Entry /\ e.added = h /\ e.removed = old.removed
  BY <1>2, <1>4 DEF OrSetAdd, Later, Entry
<1>6. {t} \in SUBSET {t} /\ {} \in SUBSET {t}
  OBVIOUS
<1>7. /\ e.added = IF t \in {t} THEN h ELSE item[d].tags[t].added
      /\ e.removed = IF t \in {} THEN h ELSE item[d].tags[t].removed
  BY <1>5
<1>. HIDE DEF e
<1>. QED BY <1>1, <1>5, <1>6, <1>7, TagStep

\* remove_tag, of a tag that is known and of one that is not.
LEMMA RemoveTagStep ==
  ASSUME MergeInv, NEW d \in Replica, NEW h \in Stamp, NEW t \in Tag, RemoveTag(d, t, h)
  PROVE  MergeInv'
<1>. DEFINE old == item[d].tags[t]
            e == OrSetRemove(old, h)
            rem == IF Known(old) THEN {t} ELSE {}
<1>1. Holds(d) /\ Mutate(d, [item[d] EXCEPT !.tags[t] = e], WriteOf(h, NoSet, {}, rem, FALSE))
  <2>1. item[d] \in ItemCopy
    BY DEF RemoveTag, Holds, MergeInv, MergeTypeOK
  <2>2. [item[d] EXCEPT !.tags[t] = e] = [item[d] EXCEPT !.tags[t] = OrSetRemove(@, h)]
    BY <2>1 DEF ItemCopy
  <2>. QED BY <2>2 DEF RemoveTag
<1>2. item[d] \in ItemCopy /\ old \in Entry /\ old.removed \in Nat /\ h \in Nat /\ h \in Reading
  BY <1>1, ItemParts, ReadingsAreNumbers DEF Holds, MergeInv, MergeTypeOK
<1>3. Ticks(d, h)
  BY <1>1 DEF Mutate, WriteOf
<1>4. old.removed < h
  BY <1>1, <1>3, TickIsPast
<1>5. /\ e \in Entry /\ e.added = old.added
      /\ e.removed = IF t \in rem THEN h ELSE old.removed
  <2>1. CASE Known(old)
    <3>1. e = [old EXCEPT !.removed = h]
      BY <2>1, <1>2, <1>4 DEF OrSetRemove, Later
    <3>2. old.added > 0 /\ old.added \in Reading /\ 0 \notin Stamp
      BY <2>1, <1>2, ReadingsAreNumbers DEF Known, Entry
    <3>3. e = [added |-> old.added, removed |-> h]
      BY <3>1, <1>2 DEF Entry
    <3>4. old.added # 0
      BY <3>2, ReadingsAreNumbers
    <3>. QED BY <2>1, <3>2, <3>3, <3>4, <1>2 DEF Entry
  <2>2. CASE ~Known(old)
    BY <2>2, <1>2 DEF OrSetRemove
  <2>. QED BY <2>1, <2>2
<1>6. rem \in SUBSET {t} /\ {} \in SUBSET {t}
  OBVIOUS
<1>7. /\ e.added = IF t \in {} THEN h ELSE item[d].tags[t].added
      /\ e.removed = IF t \in rem THEN h ELSE item[d].tags[t].removed
  BY <1>5
<1>8. PICK add \in SUBSET {t} : add = {}
  OBVIOUS
<1>9. /\ e.added = IF t \in add THEN h ELSE item[d].tags[t].added
      /\ Mutate(d, [item[d] EXCEPT !.tags[t] = e], WriteOf(h, NoSet, add, rem, FALSE))
  BY <1>1, <1>7, <1>8
<1>. HIDE DEF e, rem
<1>. QED BY <1>1, <1>5, <1>6, <1>7, <1>9, TagStep

\* delete_item: the tombstone is past everything in the copy.
LEMMA DeleteStep ==
  ASSUME MergeInv, NEW d \in Replica, NEW h \in Stamp, Delete(d, h)
  PROVE  MergeInv'
<1>. DEFINE w == WriteOf(h, NoSet, {}, {}, TRUE)
            x == [item[d] EXCEPT !.deleted = h]
            old == item[d]
<1>1. Holds(d) /\ Mutate(d, x, w)
  BY DEF Delete
<1>2. w \in Write /\ w.hlc = h /\ DOMAIN w.set = {} /\ w.add = {} /\ w.rem = {} /\ w.dead = TRUE
  <2>1. w \in Write
    BY NoSetType DEF WriteOf, Write
  <2>2. w.hlc = h /\ w.set = NoSet /\ w.add = {} /\ w.rem = {} /\ w.dead = TRUE
    BY DEF WriteOf
  <2>. QED BY <2>1, <2>2, NoSetType
<1>3. old \in ItemCopy /\ Represents(old, absorbed[d], heard[d])
  BY <1>1, HeldRepresents DEF MergeInv
<1>4. h \in Nat /\ h \in Reading
  BY ReadingsAreNumbers
<1>5. Ticks(d, h)
  BY <1>1, <1>2 DEF Mutate
<1>6. /\ \A f \in Field : old.reg[f].hlc < h
      /\ \A u \in Tag : old.tags[u].added < h /\ old.tags[u].removed < h
      /\ old.deleted < h /\ old.deleted \in Nat
  BY <1>1, <1>3, <1>5, TickIsPast, ItemParts
<1>7. x.deleted = h /\ x.tags = old.tags /\ x.reg = old.reg /\ x.count = old.count
  BY <1>3 DEF ItemCopy
<1>8. x \in ItemCopy
  BY <1>3, <1>4 DEF ItemCopy
<1>. HIDE DEF x, w
<1>9. TombstoneOf(x, absorbed[d] \cup {w})
  <2>1. \A a \in absorbed[d] : a.hlc \in Nat
    BY WriteParts DEF MergeInv, MergeTypeOK
  <2>2. \A a \in absorbed[d] : a.dead => a.hlc <= old.deleted
    BY <1>3 DEF Represents, TombstoneOf
  <2>. QED BY <2>1, <2>2, <1>2, <1>4, <1>6, <1>7 DEF TombstoneOf
<1>10. RegistersOf(x, absorbed[d] \cup {w})
  BY <1>2, <1>3, <1>7 DEF Represents, RegistersOf
<1>11. TagsOf(x, absorbed[d] \cup {w})
  BY <1>2, <1>3, <1>7 DEF Represents, TagsOf
<1>12. CountsOf(x, heard[d])
  BY <1>3, <1>7 DEF Represents, CountsOf
<1>13. Represents(x, absorbed[d] \cup {w}, heard[d])
  BY <1>9, <1>10, <1>11, <1>12 DEF Represents
<1>14. \A g \in FieldStamps(x) \cup {x.deleted} : g <= w.hlc
  <2>1. /\ \A f \in Field : x.reg[f].hlc <= h
        /\ \A u \in Tag : x.tags[u].added <= h /\ x.tags[u].removed <= h
        /\ x.deleted <= h
    BY <1>3, <1>4, <1>6, <1>7, ItemParts
  <2>. QED BY <2>1, <1>2 DEF FieldStamps
<1>. QED BY <1>1, <1>2, <1>7, <1>8, <1>13, <1>14, MutateStep

(***************************************************************************)
(* A commit that brings no write of its own: what it merges was sealed.    *)
(***************************************************************************)
LEMMA JoinStep ==
  ASSUME MergeInv, NEW d \in Replica, NEW x \in ItemCopy,
         NEW s \in SUBSET Write, NEW n \in SUBSET Count,
         CommitVersion(d, x, s, n), Represents(x, s, n),
         \A a \in s : \E o \in sealed : a \in o.absorbed,
         clock' \in [Replica -> Nat], \A e \in Replica : clock[e] <= clock'[e],
         \A h \in FieldStamps(x) \cup {x.deleted} : h <= clock'[d],
         used' \in [Replica -> Nat], \A e \in Replica : used[e] <= used'[e],
         \A e \in Replica : e # d => used'[e] = used[e],
         \A e \in Replica : x.count[e] <= used'[e],
         x.count[d] = used'[d]
  PROVE  MergeInv'
<1>. DEFINE v == [item |-> x, absorbed |-> s, heard |-> n]
<1>1. item' = [item EXCEPT ![d] = x] /\ sealed' = sealed \cup {v}
  BY DEF CommitVersion
<1>2. /\ item' \in [Replica -> ItemCopy \cup {NoItem}]
      /\ sealed' \subseteq Version
      /\ absorbed' \in [Replica -> SUBSET Write]
      /\ heard' \in [Replica -> SUBSET Count]
      /\ HeldIsSealed'
      /\ SealedRepresents'
  BY CommitStep DEF MergeInv
<1>3. MergeTypeOK'
  BY <1>2 DEF MergeTypeOK
<1>4. \A u \in sealed' : \A a \in u.absorbed : \E o \in sealed : a \in o.absorbed
  BY <1>1
<1>5. ReadingsAreWrites'
  <2>1. ASSUME NEW a, NEW b, a.hlc = b.hlc,
               \E o \in sealed : a \in o.absorbed, \E o \in sealed : b \in o.absorbed
        PROVE a = b
    BY <2>1 DEF MergeInv, ReadingsAreWrites
  <2>. QED BY <2>1, <1>4 DEF ReadingsAreWrites
<1>6. ClockCoversWrites'
  <2>1. ASSUME NEW o \in sealed, NEW a \in o.absorbed PROVE a.hlc <= clock'[Owner(a.hlc)]
    <3>1. a.hlc \in Nat /\ Owner(a.hlc) \in Replica
      BY WriteParts, MergeAssumption DEF MergeInv, MergeTypeOK, Version
    <3>2. a.hlc <= clock[Owner(a.hlc)]
      BY DEF MergeInv, ClockCoversWrites
    <3>3. clock[Owner(a.hlc)] \in Nat /\ clock'[Owner(a.hlc)] \in Nat
      BY <3>1 DEF MergeInv, MergeTypeOK
    <3>. QED BY <3>1, <3>2, <3>3
  <2>. QED BY <2>1, <1>4 DEF ClockCoversWrites
<1>7. ClockCoversCopy'
  <2> SUFFICES ASSUME NEW e \in Replica, item'[e] # NoItem
      PROVE \A h \in FieldStamps(item'[e]) \cup {item'[e].deleted} : h <= clock'[e]
    BY DEF ClockCoversCopy, Holds, FieldStamps
  <2>1. CASE e = d
    <3>1. item'[e] = x
      BY <2>1, <1>1 DEF MergeInv, MergeTypeOK
    <3>. QED BY <3>1, <2>1
  <2>2. CASE e # d
    <3>1. item'[e] = item[e]
      BY <2>2, <1>1 DEF MergeInv, MergeTypeOK
    <3>2. item[e] \in ItemCopy
      BY <3>1 DEF MergeInv, MergeTypeOK
    <3>3. \A h \in FieldStamps(item[e]) \cup {item[e].deleted} : h <= clock[e] /\ h \in Nat
      BY <3>1, <3>2, ItemParts DEF MergeInv, ClockCoversCopy, Holds, FieldStamps
    <3>4. clock[e] \in Nat /\ clock'[e] \in Nat /\ clock[e] <= clock'[e]
      BY DEF MergeInv, MergeTypeOK
    <3>. QED BY <3>1, <3>3, <3>4
  <2>. QED BY <2>1, <2>2
<1>8. CountsAreUses'
  <2>1. ASSUME NEW u \in sealed, NEW e \in Replica PROVE u.item.count[e] <= used'[e]
    <3>1. u.item.count[e] \in Nat /\ used[e] \in Nat /\ used'[e] \in Nat
      BY ItemParts DEF MergeInv, MergeTypeOK, Version, Counter
    <3>2. u.item.count[e] <= used[e] /\ used[e] <= used'[e]
      BY DEF MergeInv, CountsAreUses
    <3>. QED BY <3>1, <3>2
  <2>2. \A u \in sealed' : \A e \in Replica : u.item.count[e] <= used'[e]
    BY <2>1, <1>1
  <2>3. ASSUME NEW e \in Replica
        PROVE IF item'[e] # NoItem THEN item'[e].count[e] = used'[e] ELSE used'[e] = 0
    <3>1. CASE e = d
      BY <3>1, <1>1, NoItemAssumption DEF MergeInv, MergeTypeOK
    <3>2. CASE e # d
      <4>1. item'[e] = item[e] /\ used'[e] = used[e]
        BY <3>2, <1>1 DEF MergeInv, MergeTypeOK
      <4>. QED BY <4>1 DEF MergeInv, CountsAreUses, Holds
    <3>. QED BY <3>1, <3>2
  <2>. QED BY <2>2, <2>3 DEF CountsAreUses, Holds
<1>. QED BY <1>2, <1>3, <1>5, <1>6, <1>7, <1>8 DEF MergeInv

\* The uses in a held copy.
LEMMA HeldCounts ==
  ASSUME MergeInv, NEW d \in Replica, Holds(d)
  PROVE  /\ \A e \in Replica : item[d].count[e] <= used[e] /\ item[d].count[e] \in Nat
         /\ item[d].count[d] = used[d]
<1>1. [item |-> item[d], absorbed |-> absorbed[d], heard |-> heard[d]] \in sealed
  BY DEF MergeInv, HeldIsSealed
<1>2. item[d] \in ItemCopy
  BY DEF MergeInv, MergeTypeOK, Holds
<1>. QED BY <1>1, <1>2, ItemParts DEF MergeInv, CountsAreUses, Counter

\* record_use and the two that move the HOTP counter.
LEMMA AdvanceStep ==
  ASSUME MergeInv, NEW d \in Replica, Holds(d), NEW c \in Counter, NEW n \in Nat,
         Advance(d, c, n),
         \/ c = Hotp /\ used' = used
         \/ c = d /\ n = item[d].count[d] + 1 /\ used' = [used EXCEPT ![d] = @ + 1]
  PROVE  MergeInv'
<1>. DEFINE x == [item[d] EXCEPT !.count[c] = Later(@, n)]
            old == item[d]
            k == [counter |-> c, n |-> n]
<1>1. CommitVersion(d, x, absorbed[d], heard[d] \cup {k}) /\ clock' = clock
  BY DEF Advance
<1>2. old \in ItemCopy /\ Represents(old, absorbed[d], heard[d])
  BY HeldRepresents DEF MergeInv
<1>3. /\ absorbed[d] \in SUBSET Write /\ heard[d] \cup {k} \in SUBSET Count
      /\ clock \in [Replica -> Nat] /\ used \in [Replica -> Nat]
  BY DEF MergeInv, MergeTypeOK, Count
<1>4. /\ x.count = [old.count EXCEPT ![c] = Later(old.count[c], n)]
      /\ x.reg = old.reg /\ x.tags = old.tags /\ x.deleted = old.deleted
  BY <1>2 DEF ItemCopy
<1>5. old.count \in [Counter -> Nat] /\ old.count[c] \in Nat
  BY <1>2, ItemParts
<1>6. x \in ItemCopy
  <2>1. x.count \in [Counter -> Nat]
    BY <1>4, <1>5, LaterIsMax
  <2>. QED BY <2>1, <1>2, <1>4 DEF ItemCopy
<1>. HIDE DEF x
<1>7. CountsOf(x, heard[d] \cup {k})
  <2> SUFFICES ASSUME NEW b \in Counter
      PROVE /\ \A j \in heard[d] \cup {k} : j.counter = b => j.n <= x.count[b]
            /\ x.count[b] > 0 =>
                 \E j \in heard[d] \cup {k} : j.counter = b /\ j.n = x.count[b]
    BY DEF CountsOf
  <2>1. /\ \A j \in heard[d] : j.counter = b => j.n <= old.count[b]
        /\ old.count[b] > 0 => \E j \in heard[d] : j.counter = b /\ j.n = old.count[b]
    BY <1>2 DEF Represents, CountsOf
  <2>2. \A j \in heard[d] : j.n \in Nat
    BY DEF MergeInv, MergeTypeOK, Count
  <2>3. CASE b = c
    <3>1. x.count[b] = Later(old.count[b], n)
      BY <2>3, <1>4, <1>5
    <3>2. /\ x.count[b] \in Nat /\ old.count[b] \in Nat
          /\ old.count[b] <= x.count[b] /\ n <= x.count[b]
          /\ x.count[b] = old.count[b] \/ x.count[b] = n
      BY <3>1, <1>5 DEF Later
    <3>3. k.counter = b /\ k.n = n
      BY <2>3
    <3>. HIDE DEF k
    <3>4. \A j \in heard[d] \cup {k} : j.counter = b => j.n <= x.count[b]
      BY <2>1, <2>2, <3>2, <3>3
    <3>5. x.count[b] > 0 => \E j \in heard[d] \cup {k} : j.counter = b /\ j.n = x.count[b]
      BY <2>1, <3>2, <3>3
    <3>. QED BY <3>4, <3>5
  <2>4. CASE b # c
    <3>1. x.count[b] = old.count[b]
      BY <2>4, <1>4, <1>5
    <3>. QED BY <2>1, <2>4, <3>1
  <2>. QED BY <2>3, <2>4
<1>8. Represents(x, absorbed[d], heard[d] \cup {k})
  BY <1>2, <1>4, <1>7 DEF Represents, RegistersOf, TagsOf, TombstoneOf
<1>9. \A h \in FieldStamps(x) \cup {x.deleted} : h <= clock'[d]
  BY <1>1, <1>4 DEF FieldStamps, MergeInv, ClockCoversCopy
<1>10. \A a \in absorbed[d] : \E o \in sealed : a \in o.absorbed
  BY SeenWasSealed DEF MergeInv
<1>11. /\ used' \in [Replica -> Nat]
       /\ \A e \in Replica : used[e] <= used'[e]
       /\ \A e \in Replica : e # d => used'[e] = used[e]
  BY <1>3
<1>12. /\ \A e \in Replica : old.count[e] <= used[e] /\ old.count[e] \in Nat
       /\ old.count[d] = used[d]
  BY HeldCounts
<1>13. (\A e \in Replica : x.count[e] <= used'[e]) /\ x.count[d] = used'[d]
  <2>1. CASE c = Hotp /\ used' = used
    <3>1. \A e \in Replica : x.count[e] = old.count[e]
      BY <2>1, <1>4, <1>5, MergeAssumption DEF Counter
    <3>. QED BY <2>1, <3>1, <1>12
  <2>2. CASE c = d /\ n = old.count[d] + 1 /\ used' = [used EXCEPT ![d] = @ + 1]
    <3>1. x.count[d] = old.count[d] + 1 /\ used'[d] = used[d] + 1
      BY <2>2, <1>3, <1>4, <1>5 DEF Later
    <3>2. \A e \in Replica : e # d => x.count[e] = old.count[e] /\ used'[e] = used[e]
      BY <2>2, <1>3, <1>4, <1>5 DEF Counter
    <3>. QED BY <3>1, <3>2, <1>3, <1>12
  <2>. QED BY <2>1, <2>2
<1>14. \A e \in Replica : clock[e] <= clock'[e]
  BY <1>1, <1>3
<1>. HIDE DEF k
<1>. QED BY <1>1, <1>3, <1>6, <1>8, <1>9, <1>10, <1>11, <1>13, <1>14, JoinStep

\* merge_remote: the clock observes what it merged, and the counts join.
LEMMA AbsorbStep ==
  ASSUME MergeInv, NEW d \in Replica, NEW v \in sealed, AbsorbVersion(d, v)
  PROVE  MergeInv'
<1>. DEFINE x == IF Holds(d) THEN Merge(item[d], v.item) ELSE v.item
            readings == FieldStamps(x) \cup {x.deleted, clock[d]}
<1>1. /\ CommitVersion(d, x, absorbed[d] \cup v.absorbed, heard[d] \cup v.heard)
      /\ used' = used
  BY DEF AbsorbVersion
<1>2. PICK h \in readings : /\ \A g \in readings : g <= h
                            /\ clock' = [clock EXCEPT ![d] = h]
  BY DEF AbsorbVersion
<1>3. v.item \in ItemCopy /\ v.absorbed \in SUBSET Write /\ v.heard \in SUBSET Count
  BY DEF MergeInv, MergeTypeOK, Version
<1>4. Represents(v.item, v.absorbed, v.heard)
  BY DEF MergeInv, SealedRepresents
<1>5. /\ absorbed[d] \in SUBSET Write /\ heard[d] \in SUBSET Count
      /\ clock \in [Replica -> Nat] /\ used \in [Replica -> Nat]
  BY DEF MergeInv, MergeTypeOK
<1>6. x \in ItemCopy /\ Represents(x, absorbed[d] \cup v.absorbed, heard[d] \cup v.heard)
  <2>1. CASE Holds(d)
    <3>1. item[d] \in ItemCopy /\ Represents(item[d], absorbed[d], heard[d])
      BY <2>1, HeldRepresents DEF MergeInv
    <3>2. Merge(item[d], v.item) \in ItemCopy
      BY <3>1, <1>3, MergeType
    <3>3. Represents(Merge(item[d], v.item), absorbed[d] \cup v.absorbed, heard[d] \cup v.heard)
      BY <3>1, <1>3, <1>4, <1>5, MergeRepresents
    <3>. QED BY <2>1, <3>2, <3>3
  <2>2. CASE ~Holds(d)
    <3>1. absorbed[d] \cup v.absorbed = v.absorbed /\ heard[d] \cup v.heard = v.heard
      BY <2>2 DEF MergeInv, HeldIsSealed
    <3>. QED BY <2>2, <3>1, <1>3, <1>4
  <2>. QED BY <2>1, <2>2
<1>7. (\A e \in Replica : x.count[e] <= used[e]) /\ x.count[d] = used[d]
  <2>1. \A e \in Replica : v.item.count[e] <= used[e] /\ v.item.count[e] \in Nat
    BY <1>3, ItemParts DEF MergeInv, CountsAreUses, Counter
  <2>2. CASE Holds(d)
    <3>1. \A e \in Replica : x.count[e] = Later(item[d].count[e], v.item.count[e])
      BY <2>2 DEF Merge, CountMerge, Counter
    <3>2. /\ \A e \in Replica : item[d].count[e] <= used[e] /\ item[d].count[e] \in Nat
          /\ item[d].count[d] = used[d]
      BY <2>2, HeldCounts
    <3>. HIDE DEF x
    <3>. QED BY <3>1, <3>2, <2>1, <1>5 DEF Later
  <2>3. CASE ~Holds(d)
    <3>1. used[d] = 0
      BY <2>3 DEF MergeInv, CountsAreUses
    <3>. QED BY <2>1, <2>3, <3>1
  <2>. QED BY <2>2, <2>3
<1>. HIDE DEF x
<1>8. \A g \in readings : g \in Nat
  BY <1>5, <1>6, ItemParts DEF FieldStamps
<1>9. h \in Nat /\ clock[d] <= h /\ \A g \in FieldStamps(x) \cup {x.deleted} : g <= h
  BY <1>2, <1>8
<1>10. clock'[d] = h /\ clock' \in [Replica -> Nat]
  BY <1>2, <1>5, <1>9
<1>11. \A e \in Replica : clock[e] <= clock'[e]
  BY <1>2, <1>5, <1>9
<1>12. \A a \in absorbed[d] \cup v.absorbed : \E o \in sealed : a \in o.absorbed
  BY SeenWasSealed DEF MergeInv
<1>13. /\ used' \in [Replica -> Nat]
       /\ \A e \in Replica : used[e] <= used'[e]
       /\ \A e \in Replica : e # d => used'[e] = used[e]
       /\ \A e \in Replica : x.count[e] <= used'[e]
       /\ x.count[d] = used'[d]
  BY <1>1, <1>5, <1>7
<1>14. absorbed[d] \cup v.absorbed \in SUBSET Write /\ heard[d] \cup v.heard \in SUBSET Count
  BY <1>3, <1>5
<1>15. \A g \in FieldStamps(x) \cup {x.deleted} : g <= clock'[d]
  BY <1>9, <1>10
<1>. QED BY <1>1, <1>6, <1>10, <1>11, <1>12, <1>13, <1>14, <1>15, JoinStep

\* Before anything is sealed, the invariant says nothing yet.
LEMMA InitIInv == MergeInit => MergeInv
<1> SUFFICES ASSUME MergeInit PROVE MergeInv
  OBVIOUS
<1>1. MergeTypeOK
  BY DEF MergeInit, MergeTypeOK
<1>2. HeldIsSealed /\ SealedRepresents /\ ReadingsAreWrites /\ ClockCoversWrites
  BY DEF MergeInit, HeldIsSealed, SealedRepresents, ReadingsAreWrites, ClockCoversWrites, Holds
<1>3. ClockCoversCopy /\ CountsAreUses
  BY DEF MergeInit, ClockCoversCopy, CountsAreUses, Holds
<1>. QED BY <1>1, <1>2, <1>3 DEF MergeInv

\* Every step preserves the invariant.
LEMMA NextIInv ==
  ASSUME MergeInv, [MergeNext]_mergeVars
  PROVE  MergeInv'
<1>1. CASE MergeNext
  <2>1. PICK d \in Replica :
          \/ \E h \in Stamp :
               \/ \E set \in [Field -> Value], T \in SUBSET Tag : Add(d, set, T, h)
               \/ \E set \in Sets : Update(d, set, h)
               \/ \E t \in Tag : AddTag(d, t, h) \/ RemoveTag(d, t, h)
               \/ Delete(d, h)
          \/ RecordUse(d)
          \/ \E n \in 1 .. MaxCount : SetHotp(d, n)
          \/ \E v \in sealed : AbsorbVersion(d, v)
    BY <1>1 DEF MergeNext
  <2>2. ASSUME NEW h \in Stamp, NEW set \in [Field -> Value], NEW T \in SUBSET Tag,
               Add(d, set, T, h)
        PROVE MergeInv'
    BY <2>2, AddStep
  <2>3. ASSUME NEW h \in Stamp, NEW set \in Sets, Update(d, set, h)
        PROVE MergeInv'
    BY <2>3, UpdateStep
  <2>4. ASSUME NEW h \in Stamp, NEW t \in Tag, AddTag(d, t, h) \/ RemoveTag(d, t, h)
        PROVE MergeInv'
    BY <2>4, AddTagStep, RemoveTagStep
  <2>5. ASSUME NEW h \in Stamp, Delete(d, h)
        PROVE MergeInv'
    BY <2>5, DeleteStep
  <2>6. CASE RecordUse(d)
    <3>1. Holds(d) /\ item[d].count[d] + 1 \in Nat /\ d \in Counter
      BY <2>6, HeldCounts DEF RecordUse, Counter
    <3>2. /\ Advance(d, d, item[d].count[d] + 1)
          /\ used' = [used EXCEPT ![d] = @ + 1]
      BY <2>6 DEF RecordUse
    <3>. QED BY <3>1, <3>2, AdvanceStep
  <2>7. ASSUME NEW n \in 1 .. MaxCount, SetHotp(d, n)
        PROVE MergeInv'
    <3>1. Holds(d) /\ Advance(d, Hotp, n) /\ used' = used
      BY <2>7 DEF SetHotp
    <3>2. n \in Nat /\ Hotp \in Counter
      BY MergeAssumption DEF Counter
    <3>. QED BY <3>1, <3>2, AdvanceStep
  <2>8. ASSUME NEW v \in sealed, AbsorbVersion(d, v)
        PROVE MergeInv'
    BY <2>8, AbsorbStep
  <2>. QED BY <2>1, <2>2, <2>3, <2>4, <2>5, <2>6, <2>7, <2>8
<1>2. CASE UNCHANGED mergeVars
  BY <1>2 DEF mergeVars, MergeInv, MergeTypeOK, HeldIsSealed, SealedRepresents, ReadingsAreWrites,
       ClockCoversWrites, ClockCoversCopy, CountsAreUses, Holds
<1>. QED BY <1>1, <1>2

-----------------------------------------------------------------------------
(***************************************************************************)
(* What a copy is, at every moment of every run: the inductive invariant   *)
(* holds, and with it the types of the state.                              *)
(***************************************************************************)
THEOREM Invariance == MergeSpec => []MergeInv
<1>1. MergeInit => MergeInv
  BY InitIInv
<1>2. MergeInv /\ [MergeNext]_mergeVars => MergeInv'
  BY NextIInv
<1>. QED BY <1>1, <1>2, PTL DEF MergeSpec

(***************************************************************************)
(* The copies and histories of ItemMerge keep their types.                 *)
(***************************************************************************)
THEOREM TypeCorrect == MergeSpec => []MergeTypeOK
<1>1. MergeInv => MergeTypeOK
  BY DEF MergeInv
<1>. QED BY <1>1, Invariance, PTL

-----------------------------------------------------------------------------
(***************************************************************************)
(* A history determines the copy.                                          *)
(***************************************************************************)
LEMMA HistoryDetermines ==
  ASSUME NEW x \in ItemCopy, NEW y \in ItemCopy, NEW s \in SUBSET Write, NEW n \in SUBSET Count,
         Represents(x, s, n), Represents(y, s, n),
         \A v, w \in s : v.hlc = w.hlc => v = w
  PROVE  x = y
<1>1. ASSUME NEW f \in Field PROVE x.reg[f] = y.reg[f]
  <2>1. PICK v \in s : f \in DOMAIN v.set /\ v.hlc = x.reg[f].hlc /\ v.set[f] = x.reg[f].value
    BY DEF Represents, RegistersOf
  <2>2. PICK w \in s : f \in DOMAIN w.set /\ w.hlc = y.reg[f].hlc /\ w.set[f] = y.reg[f].value
    BY DEF Represents, RegistersOf
  <2>3. v.hlc <= w.hlc /\ w.hlc <= v.hlc
    BY <2>1, <2>2 DEF Represents, RegistersOf
  <2>4. v = w
    BY <2>3, WriteParts
  <2>5. x.reg[f] \in Register /\ y.reg[f] \in Register
    BY ItemParts
  <2>. QED BY <2>1, <2>2, <2>4, <2>5 DEF Register
<1>2. ASSUME NEW t \in Tag PROVE x.tags[t] = y.tags[t]
  <2>1. /\ x.tags[t].added \in Nat /\ y.tags[t].added \in Nat
        /\ x.tags[t].removed \in Nat /\ y.tags[t].removed \in Nat
    BY ItemParts
  <2>2. x.tags[t].added <= y.tags[t].added /\ y.tags[t].added <= x.tags[t].added
    BY <2>1 DEF Represents, TagsOf
  <2>3. x.tags[t].removed <= y.tags[t].removed /\ y.tags[t].removed <= x.tags[t].removed
    BY <2>1 DEF Represents, TagsOf
  <2>4. x.tags[t] \in Entry /\ y.tags[t] \in Entry
    BY ItemParts
  <2>5. x.tags[t].added = y.tags[t].added /\ x.tags[t].removed = y.tags[t].removed
    BY <2>1, <2>2, <2>3
  <2>. QED BY <2>4, <2>5 DEF Entry
<1>3. ASSUME NEW c \in Counter PROVE x.count[c] = y.count[c]
  <2>1. x.count[c] \in Nat /\ y.count[c] \in Nat
    BY ItemParts
  <2>2. x.count[c] <= y.count[c] /\ y.count[c] <= x.count[c]
    BY <2>1 DEF Represents, CountsOf
  <2>. QED BY <2>1, <2>2
<1>4. x.deleted = y.deleted
  <2>1. x.deleted \in Nat /\ y.deleted \in Nat
    BY ItemParts
  <2>2. x.deleted <= y.deleted /\ y.deleted <= x.deleted
    BY <2>1 DEF Represents, TombstoneOf
  <2>. QED BY <2>1, <2>2
<1>5. x.reg = y.reg /\ x.tags = y.tags /\ x.count = y.count
  BY <1>1, <1>2, <1>3, ItemParts
<1>. QED BY <1>4, <1>5 DEF ItemCopy

(***************************************************************************)
(* Merge converges (the gate of SPEC 4), for any number of devices, fields *)
(* and versions: the copy depends on what was merged, never on the order.  *)
(***************************************************************************)
THEOREM Convergence == MergeSpec => []Converges
<1>1. ASSUME MergeInv PROVE Converges
  <2> SUFFICES ASSUME NEW d \in Replica, NEW e \in Replica,
                      absorbed[d] = absorbed[e], heard[d] = heard[e]
               PROVE item[d] = item[e]
    BY DEF Converges
  <2>1. ASSUME NEW c \in Replica, Holds(c)
        PROVE /\ item[c] \in ItemCopy /\ Represents(item[c], absorbed[c], heard[c])
              /\ absorbed[c] # {}
    BY <1>1, <2>1, HeldRepresents DEF MergeInv, Represents
  <2>2. ASSUME NEW c \in Replica, ~Holds(c) PROVE absorbed[c] = {} /\ item[c] = NoItem
    BY <1>1, <2>2 DEF MergeInv, HeldIsSealed, Holds
  <2>3. CASE Holds(d) /\ Holds(e)
    <3>1. absorbed[d] \in SUBSET Write /\ heard[d] \in SUBSET Count
      BY <1>1 DEF MergeInv, MergeTypeOK
    <3>2. \A v, w \in absorbed[d] : v.hlc = w.hlc => v = w
      BY <1>1, SeenWasSealed DEF MergeInv, ReadingsAreWrites
    <3>3. Represents(item[d], absorbed[d], heard[d]) /\ Represents(item[e], absorbed[d], heard[d])
      BY <2>1, <2>3
    <3>. QED BY <2>1, <2>3, <3>1, <3>2, <3>3, HistoryDetermines
  <2>4. CASE ~(Holds(d) /\ Holds(e))
    <3>1. ~Holds(d) /\ ~Holds(e)
      BY <2>1, <2>2, <2>4
    <3>. QED BY <2>2, <3>1
  <2>. QED BY <2>3, <2>4
<1>2. MergeInv => Converges
  BY <1>1
<1>. QED BY <1>2, Invariance, PTL

(***************************************************************************)
(* Lww::merge meets no clock collision: no merge is ever refused, so no    *)
(* row of the change feed is one that cannot be merged.                    *)
(***************************************************************************)
THEOREM NoCollision == MergeSpec => []NoClockCollision
<1>1. ASSUME MergeInv PROVE NoClockCollision
  <2> SUFFICES ASSUME NEW d \in Replica, NEW v \in sealed, Holds(d), NEW f \in Field,
                      item[d].reg[f].hlc = v.item.reg[f].hlc
               PROVE item[d].reg[f].value = v.item.reg[f].value
    BY DEF NoClockCollision, Collides, Collide
  <2>1. PICK u \in sealed : u.item = item[d] /\ u.absorbed = absorbed[d]
    BY <1>1 DEF MergeInv, HeldIsSealed
  <2>2. PICK a \in u.absorbed : /\ f \in DOMAIN a.set /\ a.hlc = item[d].reg[f].hlc
                            /\ a.set[f] = item[d].reg[f].value
    BY <1>1, <2>1 DEF MergeInv, SealedRepresents, Represents, RegistersOf
  <2>3. PICK b \in v.absorbed : /\ f \in DOMAIN b.set /\ b.hlc = v.item.reg[f].hlc
                            /\ b.set[f] = v.item.reg[f].value
    BY <1>1 DEF MergeInv, SealedRepresents, Represents, RegistersOf
  <2>4. a = b
    BY <1>1, <2>2, <2>3 DEF MergeInv, ReadingsAreWrites
  <2>. QED BY <2>2, <2>3, <2>4
<1>2. MergeInv => NoClockCollision
  BY <1>1
<1>. QED BY <1>2, Invariance, PTL

(***************************************************************************)
(* is_deleted follows the last write that counts: a delete is neither lost *)
(* to an edit that it is later than, nor kept against a later one.         *)
(***************************************************************************)
THEOREM DeleteRule == MergeSpec => []DeleteHoldsUntilEdit
<1>1. ASSUME MergeInv PROVE DeleteHoldsUntilEdit
  <2> SUFFICES ASSUME NEW d \in Replica, Holds(d)
      PROVE IsDeleted(item[d]) <=>
              \E w \in absorbed[d] : w.dead /\ \A z \in absorbed[d] : Edits(z) => z.hlc < w.hlc
    BY DEF DeleteHoldsUntilEdit
  <2>. DEFINE x == item[d]
              s == absorbed[d]
  <2>1. x \in ItemCopy /\ Represents(x, s, heard[d])
    BY <1>1, HeldRepresents DEF MergeInv
  <2>2. \A w \in s : w \in Write /\ w.hlc \in Nat /\ w.hlc > 0
    BY <1>1, WriteParts DEF MergeInv, MergeTypeOK
  <2>3. x.deleted \in Nat /\ \A h \in FieldStamps(x) : h \in Nat
    BY <2>1, ItemParts DEF FieldStamps
  <2>. HIDE DEF x, s
  <2>4. ASSUME NEW z \in s, Edits(z) PROVE \E h \in FieldStamps(x) : z.hlc <= h
    <3>1. ASSUME NEW f \in DOMAIN z.set PROVE \E h \in FieldStamps(x) : z.hlc <= h
      <4>1. f \in Field /\ z.hlc <= x.reg[f].hlc
        BY <2>1, <2>2, WriteParts DEF Represents, RegistersOf
      <4>. QED BY <4>1 DEF FieldStamps
    <3>2. ASSUME NEW t \in z.add PROVE \E h \in FieldStamps(x) : z.hlc <= h
      <4>1. t \in Tag
        BY <2>2, WriteParts
      <4>2. z.hlc <= x.tags[t].added
        BY <4>1, <2>1 DEF Represents, TagsOf
      <4>. QED BY <4>1, <4>2 DEF FieldStamps
    <3>3. ASSUME NEW t \in z.rem PROVE \E h \in FieldStamps(x) : z.hlc <= h
      <4>1. t \in Tag
        BY <2>2, WriteParts
      <4>2. z.hlc <= x.tags[t].removed
        BY <4>1, <2>1 DEF Represents, TagsOf
      <4>. QED BY <4>1, <4>2 DEF FieldStamps
    <3>. QED BY <2>4, <3>1, <3>2, <3>3 DEF Edits
  <2>5. ASSUME NEW h \in FieldStamps(x), h > 0 PROVE \E z \in s : Edits(z) /\ z.hlc = h
    <3>1. ASSUME NEW f \in Field, h = x.reg[f].hlc PROVE \E z \in s : Edits(z) /\ z.hlc = h
      BY <3>1, <2>1 DEF Represents, RegistersOf, Edits
    <3>2. ASSUME NEW t \in Tag, h = x.tags[t].added PROVE \E z \in s : Edits(z) /\ z.hlc = h
      BY <3>2, <2>5, <2>1 DEF Represents, TagsOf, Edits
    <3>3. ASSUME NEW t \in Tag, h = x.tags[t].removed PROVE \E z \in s : Edits(z) /\ z.hlc = h
      BY <3>3, <2>5, <2>1 DEF Represents, TagsOf, Edits
    <3>. QED BY <3>1, <3>2, <3>3 DEF FieldStamps
  <2>6. ASSUME IsDeleted(x)
        PROVE \E w \in s : w.dead /\ \A z \in s : Edits(z) => z.hlc < w.hlc
    <3>1. PICK w \in s : w.dead /\ w.hlc = x.deleted
      BY <2>6, <2>1 DEF IsDeleted, Represents, TombstoneOf
    <3>2. ASSUME NEW z \in s, Edits(z) PROVE z.hlc < w.hlc
      <4>1. PICK h \in FieldStamps(x) : z.hlc <= h
        BY <3>2, <2>4
      <4>2. h < x.deleted
        BY <2>3, <2>6 DEF IsDeleted
      <4>. QED BY <4>1, <4>2, <3>1, <2>2, <2>3
    <3>. QED BY <3>1, <3>2
  <2>7. ASSUME NEW w \in s, w.dead, \A z \in s : Edits(z) => z.hlc < w.hlc
        PROVE IsDeleted(x)
    <3>1. w.hlc <= x.deleted /\ x.deleted > 0
      BY <2>7, <2>1, <2>2, <2>3 DEF Represents, TombstoneOf
    <3>2. ASSUME NEW h \in FieldStamps(x) PROVE x.deleted > h
      <4>1. CASE h > 0
        <5>1. PICK z \in s : Edits(z) /\ z.hlc = h
          BY <4>1, <2>5
        <5>2. h < w.hlc
          BY <5>1, <2>7
        <5>. QED BY <5>2, <3>1, <2>2, <2>3
      <4>2. CASE ~(h > 0)
        BY <4>2, <3>1, <2>3
      <4>. QED BY <4>1, <4>2
    <3>. QED BY <3>1, <3>2 DEF IsDeleted
  <2>8. IsDeleted(x) <=> \E w \in s : w.dead /\ \A z \in s : Edits(z) => z.hlc < w.hlc
    BY <2>6, <2>7
  <2>. QED BY <2>8 DEF x, s
<1>2. MergeInv => DeleteHoldsUntilEdit
  BY <1>1
<1>. QED BY <1>2, Invariance, PTL

(***************************************************************************)
(* is_present follows the additions and removals: concurrent changes to a  *)
(* set are all kept, and an addition wins over a removal of the same time. *)
(***************************************************************************)
THEOREM TagRule == MergeSpec => []TagsFollowWrites
<1>1. ASSUME MergeInv PROVE TagsFollowWrites
  <2> SUFFICES ASSUME NEW d \in Replica, NEW t \in Tag, Holds(d)
      PROVE IsPresent(item[d].tags[t]) <=>
              \E w \in absorbed[d] : t \in w.add /\ \A z \in absorbed[d] : t \in z.rem => z.hlc <= w.hlc
    BY DEF TagsFollowWrites
  <2>. DEFINE e == item[d].tags[t]
              s == absorbed[d]
  <2>1. /\ \A w \in s : t \in w.add => w.hlc <= e.added
        /\ \A w \in s : t \in w.rem => w.hlc <= e.removed
        /\ e.added > 0 => \E w \in s : t \in w.add /\ w.hlc = e.added
        /\ e.removed > 0 => \E w \in s : t \in w.rem /\ w.hlc = e.removed
    BY <1>1, HeldRepresents DEF MergeInv, Represents, TagsOf
  <2>2. e.added \in Nat /\ e.removed \in Nat
    BY <1>1, HeldRepresents, ItemParts DEF MergeInv
  <2>3. \A w \in s : w.hlc \in Nat /\ w.hlc > 0
    BY <1>1, WriteParts DEF MergeInv, MergeTypeOK
  <2>. HIDE DEF e, s
  <2>4. ASSUME IsPresent(e)
        PROVE \E w \in s : t \in w.add /\ \A z \in s : t \in z.rem => z.hlc <= w.hlc
    <3>1. e.added > 0 /\ e.added >= e.removed
      BY <2>4 DEF IsPresent, Known
    <3>2. PICK w \in s : t \in w.add /\ w.hlc = e.added
      BY <2>1, <3>1
    <3>3. \A z \in s : t \in z.rem => z.hlc <= w.hlc
      BY <2>1, <2>2, <2>3, <3>1, <3>2
    <3>. QED BY <3>2, <3>3
  <2>5. ASSUME NEW w \in s, t \in w.add, \A z \in s : t \in z.rem => z.hlc <= w.hlc
        PROVE IsPresent(e)
    <3>1. w.hlc <= e.added /\ w.hlc \in Nat /\ w.hlc > 0
      BY <2>1, <2>3, <2>5
    <3>2. e.removed > 0 => e.removed <= w.hlc
      BY <2>1, <2>5
    <3>. QED BY <3>1, <3>2, <2>2 DEF IsPresent, Known
  <2>6. IsPresent(e) <=> \E w \in s : t \in w.add /\ \A z \in s : t \in z.rem => z.hlc <= w.hlc
    BY <2>4, <2>5
  <2>. QED BY <2>6 DEF e, s
<1>2. MergeInv => TagsFollowWrites
  BY <1>1
<1>. QED BY <1>2, Invariance, PTL

(***************************************************************************)
(* UsageCounter counts every use once, however often a version is merged.  *)
(***************************************************************************)
THEOREM UsesCounted == MergeSpec => []UseIsCountedOnce
<1>1. MergeInv => UseIsCountedOnce
  BY HeldCounts DEF UseIsCountedOnce
<1>. QED BY <1>1, Invariance, PTL
=============================================================================
