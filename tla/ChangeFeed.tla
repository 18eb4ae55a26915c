----------------------------- MODULE ChangeFeed -----------------------------
(***************************************************************************)
(* The server's item table with clients that use it the way SPEC 6.1 lets  *)
(* any client use it: they page through the change feed, remember the last *)
(* version and envelope they were told of each item, and write under that  *)
(* version. A reply may be lost after the server acted on the request.     *)
(***************************************************************************)
EXTENDS ServerStore

CONSTANTS
  FeedClient,
  PageLimit   \* rows per page

ASSUME FeedAssumption == PageLimit \in Nat \ {0}

VARIABLES
  cursor,  \* cursor[c]: the since of c's next request
  answered, \* answered[c][i]: the version and envelope the server last told c of
  swept    \* history: the items whose reclaimed rows were ever swept

feedVars == <<rows, next_seq, cursor, answered, swept>>

Told == [version : Nat, envelope : Envelope \cup {NoEnvelope}]

FeedTypeOK ==
  /\ StoreTypeOK
  /\ cursor \in [FeedClient -> Nat]
  /\ answered \in [FeedClient -> [Item -> Told]]
  /\ swept \subseteq Item

FeedInit ==
  /\ StoreInit
  /\ cursor = [c \in FeedClient |-> 0]
  /\ answered = [c \in FeedClient |-> [i \in Item |-> [version |-> 0, envelope |-> NoEnvelope]]]
  /\ swept = {}

\* What a reply about row i says.
Answer(i) == [version |-> rows[i].version, envelope |-> rows[i].envelope]

\* GET changes, one page; next_seq of the reply is the next since.
ReadPage(c) ==
  /\ answered' = [answered EXCEPT ![c] =
       [i \in Item |-> IF i \in Page(cursor[c], PageLimit) THEN Answer(i) ELSE @[i]]]
  /\ cursor' = [cursor EXCEPT ![c] = NextSince(cursor[c], PageLimit)]
  /\ UNCHANGED <<rows, next_seq, swept>>

\* The reply of a write reaches the client, or does not.
Replied(c, i, a) ==
  \/ answered' = [answered EXCEPT ![c][i] = a]
  \/ UNCHANGED answered

\* PUT under the version c was last told of.
Put(c, i, e) ==
  LET p == answered[c][i].version IN
  /\ \/ /\ PutApplied(i, p, e)
        /\ Replied(c, i, [version |-> rows[i].version + 1, envelope |-> e])
     \/ /\ PutConflict(i, p)
        /\ Replied(c, i, Answer(i))
     \/ /\ PutRefused(i, p, e)
        /\ UNCHANGED answered
  /\ UNCHANGED <<cursor, swept>>

\* DELETE under the version c was last told of.
Delete(c, i) ==
  LET p == answered[c][i].version IN
  /\ \/ /\ DeleteApplied(i, p)
        /\ Replied(c, i, [version |-> rows[i].version + 1, envelope |-> NoEnvelope])
     \/ /\ DeleteRepeated(i, p)
        /\ Replied(c, i, Answer(i))
     \/ /\ DeleteMissing(i, p)
        /\ UNCHANGED answered
     \/ /\ DeleteConflict(i, p)
        /\ Replied(c, i, Answer(i))
  /\ UNCHANGED <<cursor, swept>>

\* sweep_forever: one pass over rows that were reclaimed long enough ago.
SweepRows(S) ==
  /\ Sweep(S)
  /\ swept' = swept \cup S
  /\ UNCHANGED <<cursor, answered>>

FeedNext ==
  \/ \E c \in FeedClient : ReadPage(c)
  \/ \E c \in FeedClient, i \in Item, e \in Envelope : Put(c, i, e)
  \/ \E c \in FeedClient, i \in Item : Delete(c, i)
  \/ \E S \in SUBSET Item : SweepRows(S)

FeedSpec == FeedInit /\ [][FeedNext]_feedVars
-----------------------------------------------------------------------------
(***************************************************************************)
(* Pages cut at a limit, read while others write, lose nothing: a row at   *)
(* or below a client's cursor is a row that client has been told of, as it *)
(* stands. This rests on allocate_seq running in the transaction of the    *)
(* write it numbers.                                                       *)
(***************************************************************************)
FeedIsComplete ==
  \A c \in FeedClient, i \in Item :
    (rows[i].version > 0 /\ rows[i].seq <= cursor[c])
      => answered[c][i] = Answer(i)

(***************************************************************************)
(* store/mod.rs says of a version that it is never reset. That holds until *)
(* the row is swept for the first time: a client that holds the current    *)
(* version holds the current envelope, so that an If-Match write never     *)
(* replaces bytes its writer was not told of. The sweep forgets the        *)
(* version with the row, and a row made anew starts at 1.                  *)
(***************************************************************************)
Current(c, i) == rows[i].version > 0 /\ answered[c][i].version = rows[i].version
VersionNamesContent ==
  \A c \in FeedClient, i \in Item \ swept :
    Current(c, i) => answered[c][i].envelope = rows[i].envelope

(***************************************************************************)
(* The quota holds after any sequence of writes, replacements, reclaims    *)
(* and re-creations, although put_item checks it only for the row it       *)
(* writes.                                                                 *)
(***************************************************************************)
WithinLimits ==
  /\ Cardinality(Present) <= MaxRows
  /\ BytesUsed <= MaxBytes

(***************************************************************************)
(* The inductive invariants: nothing carries a sequence number that has    *)
(* not been allocated, which is why a new write lands past every cursor;   *)
(* and no client holds a version the row has not reached, which is why a   *)
(* new version is new to everyone.                                         *)
(***************************************************************************)
SeqAllocated ==
  /\ \A i \in Item : rows[i].seq < next_seq
  /\ \A c \in FeedClient : cursor[c] < next_seq

ToldNotAhead ==
  \A c \in FeedClient, i \in Item \ swept : answered[c][i].version <= rows[i].version

FeedInv == FeedTypeOK /\ SeqAllocated /\ FeedIsComplete

VersionInv == FeedTypeOK /\ ToldNotAhead /\ VersionNamesContent

(***************************************************************************)
(* For the quota: a row that does not exist has no bytes, so that what     *)
(* put_item gives back for it is nothing.                                  *)
(***************************************************************************)
MissingIsBare == \A i \in Item : rows[i].version = 0 => rows[i].envelope = NoEnvelope

QuotaInv == FeedTypeOK /\ MissingIsBare /\ WithinLimits
=============================================================================
