------------------------------ MODULE ItemMerge ------------------------------
(***************************************************************************)
(* One item as misty-vault replicates it (crdt/, model/item.rs): the       *)
(* devices edit their own copies, and merge any version of it that any     *)
(* device ever sealed, late, twice or in any order.                        *)
(*                                                                         *)
(* A stamp is a number here, in the order of Hlc; Owner gives its device,  *)
(* the last part of an Hlc. HlcClock is about how stamps are issued.       *)
(* UsageCounter and MaxWins are the same join, one number that only grows, *)
(* so they are one kind of field: a counter for every device's uses, and   *)
(* one for the HOTP counter.                                               *)
(***************************************************************************)
EXTENDS Naturals

CONSTANTS
  Replica,   \* the devices that hold a copy
  Field,     \* the last-writer-wins registers
  Value,     \* what a register may hold
  Tag,       \* elements of the OR-sets
  Hotp,      \* the name of the HOTP counter
  NoItem,    \* a device that does not have the item
  Stamp,     \* readings of the hybrid logical clock
  Owner(_),  \* the device a reading belongs to
  MaxCount   \* bound of the model: how far a counter is advanced

ASSUME MergeAssumption ==
  /\ Stamp \subseteq Nat \ {0}
  /\ \A h \in Stamp : Owner(h) \in Replica
  /\ Hotp \notin Replica
  /\ MaxCount \in Nat

Counter == Replica \cup {Hotp}

\* A stamp, or none.
Reading == Stamp \cup {0}

Register == [value : Value, hlc : Stamp]
\* An entry of an OR-set is there from its first add on; 0, 0 is no entry.
Entry == {e \in [added : Reading, removed : Reading] : e.added = 0 => e.removed = 0}

ItemCopy == [reg : [Field -> Register],
             tags : [Tag -> Entry],
             count : [Counter -> Nat],
             deleted : Reading]

ASSUME NoItemAssumption == NoItem \notin ItemCopy

VARIABLES
  item,    \* item[d]: the copy in d's vault
  clock,   \* clock[d]: the greatest reading d issued or observed
  sealed,  \* every version of the item ever sealed, with its history
  absorbed, \* history: absorbed[d], the clocked writes merged into d's copy
  heard,   \* history: heard[d], the counts merged into d's copy
  used     \* history: used[d], how often d has used the item

mergeVars == <<item, clock, sealed, absorbed, heard, used>>

\* A clocked write: its stamp, the registers it sets, the tags it adds and
\* removes, and whether it is a tombstone.
NoSet == [f \in {} |-> f]
WriteOf(h, set, add, rem, dead) ==
  [hlc |-> h, set |-> set, add |-> add, rem |-> rem, dead |-> dead]
Sets == UNION {[F -> Value] : F \in SUBSET Field}
Write == [hlc : Stamp, set : Sets, add : SUBSET Tag, rem : SUBSET Tag, dead : BOOLEAN]
Count == [counter : Counter, n : Nat]
Version == [item : ItemCopy, absorbed : SUBSET Write, heard : SUBSET Count]

MergeTypeOK ==
  /\ item \in [Replica -> ItemCopy \cup {NoItem}]
  /\ clock \in [Replica -> Nat]
  /\ sealed \subseteq Version
  /\ absorbed \in [Replica -> SUBSET Write]
  /\ heard \in [Replica -> SUBSET Count]
  /\ used \in [Replica -> Nat]

MergeInit ==
  /\ item = [d \in Replica |-> NoItem]
  /\ clock = [d \in Replica |-> 0]
  /\ sealed = {}
  /\ absorbed = [d \in Replica |-> {}]
  /\ heard = [d \in Replica |-> {}]
  /\ used = [d \in Replica |-> 0]

-----------------------------------------------------------------------------
(***************************************************************************)
(* The replicated types.                                                   *)
(***************************************************************************)
Later(a, b) == IF b > a THEN b ELSE a

\* Lww::set and Lww::merge, the latter for registers that do not collide.
LwwSet(r, v, h) == IF h > r.hlc THEN [value |-> v, hlc |-> h] ELSE r
LwwMerge(r, s) == IF s.hlc > r.hlc THEN s ELSE r

\* ClockCollision: one reading, two values.
Collide(r, s) == r.hlc = s.hlc /\ r.value # s.value

\* OrSet: an entry keeps its last add and its last remove.
Known(e) == e.added > 0
OrSetAdd(e, h) == [e EXCEPT !.added = Later(@, h)]
OrSetRemove(e, h) == IF Known(e) THEN [e EXCEPT !.removed = Later(@, h)] ELSE e
\* Mutant of OrSetMerge: the entry with the later add is taken whole.
OrSetMergeWhole(a, b) == IF b.added > a.added THEN b ELSE a
OrSetMerge(a, b) == [added |-> Later(a.added, b.added), removed |-> Later(a.removed, b.removed)]

\* is_present: add wins on tie.
IsPresent(e) == Known(e) /\ e.added >= e.removed

\* Mutant of CountMerge: the counts are added up.
CountMergeSum(m, n) == m + n
\* MaxWins::merge, and UsageCounter::merge for one device.
CountMerge(m, n) == Later(m, n)

\* Item::merge.
Merge(a, b) ==
  [reg     |-> [f \in Field |-> LwwMerge(a.reg[f], b.reg[f])],
   tags    |-> [t \in Tag |-> OrSetMerge(a.tags[t], b.tags[t])],
   count   |-> [c \in Counter |-> CountMerge(a.count[c], b.count[c])],
   deleted |-> Later(a.deleted, b.deleted)]

Collides(a, b) == \E f \in Field : Collide(a.reg[f], b.reg[f])

\* Mutant of FieldStamps: the OR-sets are left out.
FieldStampsOfRegisters(x) == {x.reg[f].hlc : f \in Field}
\* The readings max_field_hlc takes the greatest of.
FieldStamps(x) ==
  {x.reg[f].hlc : f \in Field}
    \cup {x.tags[t].added : t \in Tag} \cup {x.tags[t].removed : t \in Tag}

\* is_deleted: the tombstone is later than every field.
IsDeleted(x) == x.deleted > 0 /\ \A h \in FieldStamps(x) : x.deleted > h

-----------------------------------------------------------------------------
(***************************************************************************)
(* The local operations: a reading where a clocked field changes, then     *)
(* the row is sealed and stored.                                           *)
(***************************************************************************)
\* Mutant of Ticks: the device id is left out of the reading.
TicksForAnyone(d, h) == h > clock[d]
\* HlcClock::tick: a reading of d past everything d issued or observed. How
\* far past is up to the host clock.
Ticks(d, h) == Owner(h) = d /\ h > clock[d]

Holds(d) == item[d] # NoItem

\* commit_item.
CommitVersion(d, x, s, n) ==
  /\ item' = [item EXCEPT ![d] = x]
  /\ absorbed' = [absorbed EXCEPT ![d] = s]
  /\ heard' = [heard EXCEPT ![d] = n]
  /\ sealed' = sealed \cup {[item |-> x, absorbed |-> s, heard |-> n]}

\* mutate_item, for a write w that turns the copy into x.
Mutate(d, x, w) ==
  /\ Ticks(d, w.hlc)
  /\ clock' = [clock EXCEPT ![d] = w.hlc]
  /\ CommitVersion(d, x, absorbed[d] \cup {w}, heard[d])
  /\ UNCHANGED used

\* Vault::add: every register at one reading. The id is new to everyone.
Add(d, set, T, h) ==
  /\ sealed = {}
  /\ Mutate(d,
       [reg     |-> [f \in Field |-> [value |-> set[f], hlc |-> h]],
        tags    |-> [t \in Tag |-> [added |-> IF t \in T THEN h ELSE 0, removed |-> 0]],
        count   |-> [c \in Counter |-> 0],
        deleted |-> 0],
       WriteOf(h, set, T, {}, FALSE))

\* Vault::update, trash_item and restore_item: some registers at one reading.
Update(d, set, h) ==
  /\ Holds(d)
  /\ Mutate(d,
       [item[d] EXCEPT !.reg = [f \in Field |->
          IF f \in DOMAIN set THEN LwwSet(@[f], set[f], h) ELSE @[f]]],
       WriteOf(h, set, {}, {}, FALSE))

AddTag(d, t, h) ==
  /\ Holds(d)
  /\ Mutate(d, [item[d] EXCEPT !.tags[t] = OrSetAdd(@, h)],
            WriteOf(h, NoSet, {t}, {}, FALSE))

\* remove_tag: a tag that was never there leaves no trace.
RemoveTag(d, t, h) ==
  /\ Holds(d)
  /\ Mutate(d, [item[d] EXCEPT !.tags[t] = OrSetRemove(@, h)],
            WriteOf(h, NoSet, {}, IF Known(item[d].tags[t]) THEN {t} ELSE {}, FALSE))

\* delete_item and sweep_trash.
Delete(d, h) ==
  /\ Holds(d)
  /\ Mutate(d, [item[d] EXCEPT !.deleted = h], WriteOf(h, NoSet, {}, {}, TRUE))

\* A counter moves to n, without a reading.
Advance(d, c, n) ==
  /\ CommitVersion(d, [item[d] EXCEPT !.count[c] = Later(@, n)],
            absorbed[d], heard[d] \cup {[counter |-> c, n |-> n]})
  /\ UNCHANGED clock

\* record_use: one more on this device's own counter.
RecordUse(d) ==
  /\ Holds(d)
  /\ item[d].count[d] < MaxCount
  /\ Advance(d, d, item[d].count[d] + 1)
  /\ used' = [used EXCEPT ![d] = @ + 1]

\* advance_hotp_counter, and set_hotp_counter to any number.
SetHotp(d, n) ==
  /\ Holds(d)
  /\ n <= MaxCount
  /\ Advance(d, Hotp, n)
  /\ UNCHANGED used

(***************************************************************************)
(* merge_remote of a version v: taken as it is where the device has none,  *)
(* merged otherwise, unless two registers collide; then nothing changes.   *)
(* The clock observes every reading of the result.                         *)
(***************************************************************************)
AbsorbVersion(d, v) ==
  LET x == IF Holds(d) THEN Merge(item[d], v.item) ELSE v.item
      readings == FieldStamps(x) \cup {x.deleted, clock[d]}
  IN
  /\ Holds(d) => ~Collides(item[d], v.item)
  /\ CommitVersion(d, x, absorbed[d] \cup v.absorbed, heard[d] \cup v.heard)
  /\ \E h \in readings :
       /\ \A g \in readings : g <= h
       /\ clock' = [clock EXCEPT ![d] = h]
  /\ UNCHANGED used

MergeNext ==
  \E d \in Replica :
    \/ \E h \in Stamp :
         \/ \E set \in [Field -> Value], T \in SUBSET Tag : Add(d, set, T, h)
         \/ \E set \in Sets : Update(d, set, h)
         \/ \E t \in Tag : AddTag(d, t, h) \/ RemoveTag(d, t, h)
         \/ Delete(d, h)
    \/ RecordUse(d)
    \/ \E n \in 1 .. MaxCount : SetHotp(d, n)
    \/ \E v \in sealed : AbsorbVersion(d, v)

MergeSpec == MergeInit /\ [][MergeNext]_mergeVars

-----------------------------------------------------------------------------
(***************************************************************************)
(* Merge converges: two devices that have merged the same writes and the   *)
(* same counts hold the same item, whatever versions of it brought them    *)
(* and in whatever order. SPEC 4 makes this the gate on the crate.         *)
(***************************************************************************)
Converges ==
  \A d, e \in Replica :
    (absorbed[d] = absorbed[e] /\ heard[d] = heard[e]) => item[d] = item[e]

(***************************************************************************)
(* No merge is ever refused: a register that arrives under the reading of  *)
(* the local one has its value. Lww::merge calls the contrary a clock      *)
(* collision, and a row that collides cannot be merged by any retry.       *)
(***************************************************************************)
NoClockCollision ==
  \A d \in Replica, v \in sealed : Holds(d) => ~Collides(item[d], v.item)

(***************************************************************************)
(* A delete holds until a later edit, in every order of arrival: the item  *)
(* counts as deleted exactly when, of the writes merged into it, the last  *)
(* one that is not a removal of something that was never there is a        *)
(* tombstone.                                                              *)
(***************************************************************************)
Edits(w) == DOMAIN w.set # {} \/ w.add # {} \/ w.rem # {}
DeleteHoldsUntilEdit ==
  \A d \in Replica : Holds(d) =>
    (IsDeleted(item[d]) <=>
       \E w \in absorbed[d] : w.dead /\ \A x \in absorbed[d] : Edits(x) => x.hlc < w.hlc)

(***************************************************************************)
(* A tag is there exactly when no removal merged into the copy is later    *)
(* than every addition of it: concurrent changes to a set are all kept.    *)
(***************************************************************************)
TagsFollowWrites ==
  \A d \in Replica, t \in Tag : Holds(d) =>
    (IsPresent(item[d].tags[t]) <=>
       \E w \in absorbed[d] : t \in w.add /\ \A x \in absorbed[d] : t \in x.rem => x.hlc <= w.hlc)

(***************************************************************************)
(* A use is counted once: a device knows all of its own uses, nobody knows *)
(* of more, however often the same version is merged.                      *)
(***************************************************************************)
UseIsCountedOnce ==
  \A d, e \in Replica : Holds(d) =>
    /\ item[d].count[e] <= used[e]
    /\ item[d].count[d] = used[d]

-----------------------------------------------------------------------------
(***************************************************************************)
(* The inductive invariant: a copy, held or sealed, is what its history    *)
(* makes of it. Every field carries the greatest reading of the writes to  *)
(* it, and the value that came with it.                                    *)
(***************************************************************************)
RegistersOf(x, s) ==
  /\ \A w \in s : \A f \in DOMAIN w.set : w.hlc <= x.reg[f].hlc
  /\ \A f \in Field : \E w \in s :
       f \in DOMAIN w.set /\ w.hlc = x.reg[f].hlc /\ w.set[f] = x.reg[f].value

TagsOf(x, s) ==
  \A t \in Tag :
    /\ \A w \in s : t \in w.add => w.hlc <= x.tags[t].added
    /\ \A w \in s : t \in w.rem => w.hlc <= x.tags[t].removed
    /\ x.tags[t].added > 0 => \E w \in s : t \in w.add /\ w.hlc = x.tags[t].added
    /\ x.tags[t].removed > 0 => \E w \in s : t \in w.rem /\ w.hlc = x.tags[t].removed

TombstoneOf(x, s) ==
  /\ \A w \in s : w.dead => w.hlc <= x.deleted
  /\ x.deleted > 0 => \E w \in s : w.dead /\ w.hlc = x.deleted

CountsOf(x, n) ==
  \A c \in Counter :
    /\ \A k \in n : k.counter = c => k.n <= x.count[c]
    /\ x.count[c] > 0 => \E k \in n : k.counter = c /\ k.n = x.count[c]

Represents(x, s, n) ==
  s # {} /\ RegistersOf(x, s) /\ TagsOf(x, s) /\ TombstoneOf(x, s) /\ CountsOf(x, n)

\* What a device holds was sealed, and a device without the item has merged
\* nothing; every sealed version is what its history says.
HeldIsSealed ==
  \A d \in Replica :
    IF Holds(d) THEN [item |-> item[d], absorbed |-> absorbed[d], heard |-> heard[d]] \in sealed
    ELSE absorbed[d] = {} /\ heard[d] = {}

SealedRepresents == \A v \in sealed : Represents(v.item, v.absorbed, v.heard)

\* A reading is one write's, and its owner's clock is past it; a clock is
\* past every reading in its own copy.
ReadingsAreWrites ==
  \A u, v \in sealed : \A w \in u.absorbed, x \in v.absorbed : w.hlc = x.hlc => w = x

ClockCoversWrites ==
  \A v \in sealed : \A w \in v.absorbed : w.hlc <= clock[Owner(w.hlc)]

ClockCoversCopy ==
  \A d \in Replica : Holds(d) =>
    \A h \in FieldStamps(item[d]) \cup {item[d].deleted} : h <= clock[d]

CountsAreUses ==
  /\ \A v \in sealed : \A e \in Replica : v.item.count[e] <= used[e]
  /\ \A d \in Replica : IF Holds(d) THEN item[d].count[d] = used[d] ELSE used[d] = 0

MergeInv ==
  /\ MergeTypeOK
  /\ HeldIsSealed
  /\ SealedRepresents
  /\ ReadingsAreWrites
  /\ ClockCoversWrites
  /\ ClockCoversCopy
  /\ CountsAreUses
=============================================================================
