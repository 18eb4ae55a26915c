---------------------------- MODULE ServerStore ----------------------------
(***************************************************************************)
(* The item table of misty-server (store/sqlite.rs, routes/items.rs) for   *)
(* one vault. Every operation is one transaction under the store's mutex,  *)
(* so each is one action. The server never reads an envelope: it compares  *)
(* versions, allocates sequence numbers and counts bytes.                  *)
(*                                                                         *)
(* A row that does not exist is a row of version 0, the convention of      *)
(* Precondition and of the conflict answer. A row with a version and no    *)
(* envelope is one whose bytes were reclaimed; the deleted column says     *)
(* nothing more, because both writes set the two together.                 *)
(***************************************************************************)
EXTENDS Naturals, FiniteSets, FiniteSetsExt

CONSTANTS
  Item,       \* item ids
  Envelope,   \* sealed envelopes, opaque to the server
  NoEnvelope, \* SQL NULL
  SizeOf(_),  \* length of an envelope
  MaxRows,    \* Limits.max_rows
  MaxBytes,   \* Limits.max_bytes
  MaxSeq      \* bound of the model: sequence numbers it allocates

ASSUME StoreAssumption ==
  /\ IsFiniteSet(Item)
  /\ NoEnvelope \notin Envelope
  /\ \A e \in Envelope : SizeOf(e) \in Nat
  /\ MaxRows \in Nat /\ MaxBytes \in Nat /\ MaxSeq \in Nat

VARIABLES
  rows,      \* the items table
  next_seq   \* vaults.next_seq

storeVars == <<rows, next_seq>>

Row == [seq : Nat, version : Nat, envelope : Envelope \cup {NoEnvelope}]
Absent == [seq |-> 0, version |-> 0, envelope |-> NoEnvelope]

Present == {i \in Item : rows[i].version > 0}
Reclaimed(i) == rows[i].version > 0 /\ rows[i].envelope = NoEnvelope

\* SUM(LENGTH(envelope)), as the number of the bytes that are stored, each
\* with its row and its place in it; NULL has none.
Length(e) == IF e = NoEnvelope THEN 0 ELSE SizeOf(e)
BytesOf(i) == {i} \X (1 .. Length(rows[i].envelope))
BytesUsed == Cardinality(UNION {BytesOf(i) : i \in Present})

StoreTypeOK ==
  /\ rows \in [Item -> Row]
  /\ next_seq \in Nat \ {0}

StoreInit ==
  /\ rows = [i \in Item |-> Absent]
  /\ next_seq = 1

-----------------------------------------------------------------------------
\* put_item: the row is at the version the client expects, 0 for none.
Matches(i, p) == rows[i].version = p

\* Mutant of HasRoom: the bytes about to be stored are not counted.
HasRoomForStored(i, e) ==
  /\ rows[i].version > 0 \/ Cardinality(Present) < MaxRows
  /\ BytesUsed - Length(rows[i].envelope) <= MaxBytes

\* The quota of put_item: a new row needs a slot, and the bytes it replaces
\* are given back before the new ones are counted.
HasRoom(i, e) ==
  /\ rows[i].version > 0 \/ Cardinality(Present) < MaxRows
  /\ BytesUsed - Length(rows[i].envelope) + SizeOf(e) <= MaxBytes

\* allocate_seq and the row, in one transaction.
Write(i, e) ==
  /\ next_seq <= MaxSeq
  /\ rows' = [rows EXCEPT ![i] =
       [seq |-> next_seq, version |-> @.version + 1, envelope |-> e]]
  /\ next_seq' = next_seq + 1

\* PUT answered 200. A reclaimed row is written over like any other.
PutApplied(i, p, e) ==
  /\ Matches(i, p)
  /\ HasRoom(i, e)
  /\ Write(i, e)

\* PUT answered 409, with the current version and envelope.
PutConflict(i, p) ==
  /\ ~Matches(i, p)
  /\ UNCHANGED storeVars

\* PUT answered 507, ItemLimit or ByteLimit.
PutRefused(i, p, e) ==
  /\ Matches(i, p)
  /\ ~HasRoom(i, e)
  /\ UNCHANGED storeVars

\* Mutant of DeleteApplied: the bytes go and the version stays.
DeleteKeepsVersion(i, p) ==
  /\ p > 0
  /\ Matches(i, p)
  /\ ~Reclaimed(i)
  /\ next_seq <= MaxSeq
  /\ rows' = [rows EXCEPT ![i] =
       [seq |-> next_seq, version |-> @.version, envelope |-> NoEnvelope]]
  /\ next_seq' = next_seq + 1

\* DELETE answered 200: the bytes go, the row stays under a new version.
DeleteApplied(i, p) ==
  /\ p > 0
  /\ Matches(i, p)
  /\ ~Reclaimed(i)
  /\ Write(i, NoEnvelope)

\* DELETE answered 200 without a write: the bytes were gone already.
DeleteRepeated(i, p) ==
  /\ p > 0
  /\ Matches(i, p)
  /\ Reclaimed(i)
  /\ UNCHANGED storeVars

\* DELETE answered 404.
DeleteMissing(i, p) ==
  /\ p > 0
  /\ i \notin Present
  /\ UNCHANGED storeVars

\* DELETE answered 409.
DeleteConflict(i, p) ==
  /\ p > 0
  /\ i \in Present
  /\ ~Matches(i, p)
  /\ UNCHANGED storeVars

(***************************************************************************)
(* sweep: reclaimed rows older than the horizon are dropped. How old a row *)
(* is depends on the server's clock alone, so any of them may be.          *)
(***************************************************************************)
Sweep(S) ==
  /\ S # {}
  /\ \A i \in S : Reclaimed(i)
  /\ rows' = [i \in Item |-> IF i \in S THEN Absent ELSE rows[i]]
  /\ UNCHANGED next_seq

-----------------------------------------------------------------------------
\* changes: rows past the cursor in ascending seq, cut after limit rows.
After(since) == {i \in Present : rows[i].seq > since}
Position(since, i) == Cardinality({j \in After(since) : rows[j].seq <= rows[i].seq})
Page(since, limit) == {i \in After(since) : Position(since, i) <= limit}
HasMore(since, limit) == Cardinality(After(since)) > limit

\* Mutant of NextSince: the head of the vault instead of the page.
NextSinceHead(since, limit) == next_seq - 1

\* The next_seq of ChangesResponse: the last row sent, or since itself.
NextSince(since, limit) ==
  IF Page(since, limit) = {} THEN since
  ELSE Max({rows[i].seq : i \in Page(since, limit)})
=============================================================================
