-------------------------------- MODULE Sync --------------------------------
(***************************************************************************)
(* The offline-first sync engine (crates/misty-sync/src/engine.rs) of the  *)
(* devices of one vault, against the server's item table.                  *)
(*                                                                         *)
(* A request and the handling of its reply are one step: nothing another   *)
(* device does between the two can be seen by this one. What may come      *)
(* between them is its own: the reply is lost, the future is dropped, the  *)
(* process dies, or the vault or the state store fails. Those are steps.   *)
(*                                                                         *)
(* An item's value is the set of writes merged into it, each to a field of *)
(* its own, so that union is the join of misty-vault's merge. Sealing is   *)
(* randomised: the same value sealed twice is two envelopes.               *)
(***************************************************************************)
EXTENDS Naturals, FiniteSets, FiniteSetsExt

CONSTANTS
  Device,      \* device ids; numbers, because the id breaks ties in a stamp
  Item,        \* item ids; numbers, because the outbound queue is sorted
  NoEnvelope,
  PageLimit,   \* page_limit of the change feed
  MaxRetries,  \* MAX_CONFLICT_RETRIES
  Operations,  \* the local operations of this instance
  Faults,      \* the failures of this instance
  MaxWrites,   \* bound of the model: local writes, over all devices
  MaxPurges,   \* bound of the model: values one device collects of one item
  MaxSeals,    \* bound of the model: live envelopes of one value and device
  MaxSeq       \* bound of the model: sequence numbers the server allocates

ASSUME SyncAssumption ==
  /\ Device \subseteq Nat /\ Item \subseteq Nat
  /\ IsFiniteSet(Device) /\ IsFiniteSet(Item)
  /\ PageLimit \in Nat \ {0} /\ MaxRetries \in Nat
  /\ MaxWrites \in Nat /\ MaxPurges \in Nat /\ MaxSeq \in Nat
  /\ MaxSeals \in Nat /\ MaxSeals > 3 * Cardinality(Device)  \* see Seal
  /\ Operations \subseteq {"create", "edit", "delete", "purge", "rewrap", "reset"}
  /\ Faults \subseteq {"request", "reply", "merge", "save", "crash", "sweep"}

VARIABLES
  rows, next_seq,  \* the server
  vault,   \* vault[d][i]: the envelope of the row in d's vault file
  state,   \* state[d]: SyncState of the running engine: known rows, cursor
  saved,   \* saved[d]: SyncState in d's StateStore
  task,    \* task[d]: where d's sync_once is
  had,     \* history: had[d][i], every write ever merged into d's vault
  purged   \* history: purged[d][i], the values d collected under a tombstone

vars == <<rows, next_seq, vault, state, saved, task, had, purged>>

\* One write: its stamp, who made it, and whether it is a tombstone.
Writes == [t : 1 .. MaxWrites, by : Device, dead : BOOLEAN]
Envelope == [value : SUBSET Writes, by : Device, n : 0 .. MaxSeals]

ASSUME EnvelopeAssumption == NoEnvelope \notin Envelope

\* The quotas are checked in ChangeFeed; here the vault always fits.
Bytes(e) == 1

Server == INSTANCE ServerStore WITH
  SizeOf <- Bytes, MaxRows <- Cardinality(Item), MaxBytes <- Cardinality(Item)

\* KnownRow. A row the device knows nothing of has version 0 here, which is
\* also the precondition it is created under; deletable is kind Item.
Unknown == [fp |-> NoEnvelope, version |-> 0, deletable |-> FALSE]
NewState == [known |-> [i \in Item |-> Unknown], cursor |-> 0]

Idle == [phase |-> "idle", todo |-> {}, tries |-> 0]

KnownRow == [fp : Envelope \cup {NoEnvelope}, version : Nat, deletable : BOOLEAN]
SyncState == [known : [Item -> KnownRow], cursor : Nat]

\* A queue is there exactly in the phases that work one off.
Task == {t \in [phase : {"idle", "delete", "pull", "push"}, todo : SUBSET Item,
                tries : 0 .. MaxRetries] :
           t.phase \in {"delete", "push"} <=> t.todo # {}}

TypeOK ==
  /\ Server!StoreTypeOK
  /\ vault \in [Device -> [Item -> Envelope \cup {NoEnvelope}]]
  /\ state \in [Device -> SyncState]
  /\ saved \in [Device -> SyncState]
  /\ task \in [Device -> Task]
  /\ had \in [Device -> [Item -> SUBSET Writes]]
  /\ purged \in [Device -> [Item -> SUBSET SUBSET Writes]]

Init ==
  /\ Server!StoreInit
  /\ vault = [d \in Device |-> [i \in Item |-> NoEnvelope]]
  /\ state = [d \in Device |-> NewState]
  /\ saved = state
  /\ task = [d \in Device |-> Idle]
  /\ had = [d \in Device |-> [i \in Item |-> {}]]
  /\ purged = [d \in Device |-> [i \in Item |-> {}]]

-----------------------------------------------------------------------------
(***************************************************************************)
(* The vault.                                                              *)
(***************************************************************************)
Value(e) == IF e = NoEnvelope THEN {} ELSE e.value

Later(w, x) == w.t > x.t \/ (w.t = x.t /\ w.by > x.by)

\* tombstone_wins: a tombstone later than every field.
Deleted(v) == \E w \in v : w.dead /\ \A x \in v : ~x.dead => Later(w, x)

\* Every envelope of item i that something still refers to.
Live(i) == {rows[i].envelope}
             \cup UNION {{vault[d][i], state[d].known[i].fp, saved[d].known[i].fp} : d \in Device}

\* seal_item: an envelope nobody has seen. Names of envelopes nothing refers
\* to any more are used again, which no state can tell; Live(i) has at most
\* one of the server and three of every device, so one is always left.
Seal(d, i, v) ==
  LET n == CHOOSE n \in 0 .. MaxSeals :
             /\ [value |-> v, by |-> d, n |-> n] \notin Live(i)
             /\ \A m \in 0 .. n - 1 : [value |-> v, by |-> d, n |-> m] \in Live(i)
  IN [value |-> v, by |-> d, n |-> n]

\* Mutant of Merged: the incoming row is dropped.
MergedKeepsOurs(d, i, e) ==
  IF vault[d][i] = NoEnvelope THEN e ELSE Seal(d, i, Value(vault[d][i]))

\* Mutant of Merged: the last writer wins, and what the device had is gone.
MergedTakesTheirs(d, i, e) == e

\* merge_remote and records_for: the peer's own envelope when the merged
\* value is the incoming one, and a fresh seal of the merged value otherwise.
Merged(d, i, e) ==
  IF Value(vault[d][i]) \subseteq e.value THEN e
  ELSE Seal(d, i, Value(vault[d][i]) \cup e.value)

\* HlcClock::tick: past every stamp this device has issued or observed.
NextStamp(d) == 1 + Max({0} \cup {w.t : w \in UNION {had[d][i] : i \in Item}})

AllWrites == UNION {had[d][i] : d \in Device, i \in Item}
WritesMade == Cardinality(AllWrites)

\* The facade runs one command at a time: no local write during a sync.
CanWrite(d, op) == op \in Operations /\ task[d].phase = "idle"

\* commit_item: one more write, sealed and stored.
Commit(d, i, dead) ==
  LET w == [t |-> NextStamp(d), by |-> d, dead |-> dead] IN
  /\ WritesMade < MaxWrites
  /\ vault' = [vault EXCEPT ![d][i] = Seal(d, i, Value(@) \cup {w})]
  /\ had' = [had EXCEPT ![d][i] = @ \cup {w}]
  /\ UNCHANGED <<rows, next_seq, state, saved, task, purged>>

\* Vault::add, under an id nobody has used.
Create(d, i) ==
  /\ CanWrite(d, "create")
  /\ \A e \in Device : had[e][i] = {}
  /\ Commit(d, i, FALSE)

\* Any edit of a field, restore_item included: a tombstone does not stop it.
Edit(d, i) ==
  /\ CanWrite(d, "edit")
  /\ vault[d][i] # NoEnvelope
  /\ Commit(d, i, FALSE)

\* delete_item, and sweep_trash for an item whose trash expired.
DeleteItem(d, i) ==
  /\ CanWrite(d, "delete")
  /\ vault[d][i] # NoEnvelope
  /\ Commit(d, i, TRUE)

\* purge_tombstones: the rows whose tombstones are old enough, in one
\* transaction. Age is the host clock's, so any set of them may be.
PurgeTombstones(d, S) ==
  /\ CanWrite(d, "purge")
  /\ S # {}
  /\ \A i \in S : Deleted(Value(vault[d][i])) /\ Cardinality(purged[d][i]) < MaxPurges
  /\ vault' = [vault EXCEPT ![d] = [i \in Item |-> IF i \in S THEN NoEnvelope ELSE @[i]]]
  /\ purged' = [purged EXCEPT ![d] =
       [i \in Item |-> IF i \in S THEN @[i] \cup {Value(vault[d][i])} ELSE @[i]]]
  /\ UNCHANGED <<rows, next_seq, state, saved, task, had>>

\* rotate_step: a row sealed under an older epoch is sealed again, whether
\* the server has it or not. Any row may be of an older epoch.
Rewrap(d, i) ==
  /\ CanWrite(d, "rewrap")
  /\ vault[d][i] # NoEnvelope
  /\ vault' = [vault EXCEPT ![d][i] = Seal(d, i, @.value)]
  /\ UNCHANGED <<rows, next_seq, state, saved, task, had, purged>>

-----------------------------------------------------------------------------
(***************************************************************************)
(* pending: the outbound queue, derived from the rows and what the server  *)
(* is known to hold.                                                       *)
(***************************************************************************)
\* Mutant of Confirmed: whatever the server ever confirmed is taken for sent.
ConfirmedOnce(v, s, i) == v[i] # NoEnvelope /\ s.known[i].version > 0
Confirmed(v, s, i) == v[i] # NoEnvelope /\ s.known[i].fp = v[i]
PendingPuts(v, s) == {i \in Item : v[i] # NoEnvelope /\ ~Confirmed(v, s, i)}
PendingDeletes(v, s) == {i \in Item : s.known[i].deletable /\ v[i] = NoEnvelope}

Learn(s, i, k) == [s EXCEPT !.known[i] = k]

\* The phases of sync_once; one with nothing to send is passed over.
Deleting(q) == IF q = {} THEN [Idle EXCEPT !.phase = "pull"]
               ELSE [phase |-> "delete", todo |-> q, tries |-> 0]
Pushing(q, n) == IF q = {} THEN Idle ELSE [phase |-> "push", todo |-> q, tries |-> n]

(***************************************************************************)
(* StateStore::save, then on to the next request; a save that fails ends   *)
(* the sync, and the running engine keeps the state it could not save.     *)
(***************************************************************************)
SaveAnd(d, s, next) ==
  /\ state' = [state EXCEPT ![d] = s]
  /\ \/ /\ saved' = [saved EXCEPT ![d] = s]
        /\ task' = [task EXCEPT ![d] = next]
     \/ /\ "save" \in Faults
        /\ saved' = saved
        /\ task' = [task EXCEPT ![d] = Idle]

\* sync_once returns an error: what was merged and saved before it stays.
GiveUp(d) ==
  /\ task' = [task EXCEPT ![d] = Idle]
  /\ UNCHANGED <<vault, state, saved, had, purged>>

StartSync(d) ==
  /\ task[d].phase = "idle"
  /\ task' = [task EXCEPT ![d] = Deleting(PendingDeletes(vault[d], state[d]))]
  /\ UNCHANGED <<rows, next_seq, vault, state, saved, had, purged>>


\* The item of the request in hand, the least of the queue, and its If-Match.
Current(d) == Min(task[d].todo)
Expected(d) == state[d].known[Current(d)].version

(***************************************************************************)
(* push_deletes: one DELETE. 200, 404 and 410 drop the row from known; a   *)
(* 409 is an error like any other, and ends the sync before the pull.      *)
(***************************************************************************)
PushDelete(d) ==
  LET i == Current(d)  p == Expected(d) IN
  /\ task[d].phase = "delete"
  /\ \/ /\ \/ Server!DeleteApplied(i, p)
           \/ Server!DeleteRepeated(i, p)
           \/ Server!DeleteMissing(i, p)
        /\ LET q == task[d].todo \ {i} IN
           SaveAnd(d, Learn(state[d], i, Unknown), Deleting(q))
        /\ UNCHANGED <<vault, had, purged>>
     \/ /\ Server!DeleteConflict(i, p)
        /\ GiveUp(d)

(***************************************************************************)
(* pull and apply_page: one page of n rows is merged into the vault in one *)
(* transaction, then what the server holds and the cursor are saved. n is  *)
(* the page limit, or less after a page that was too large. After the last *)
(* page push_writes derives its queue.                                     *)
(***************************************************************************)
PullPage(d, n) ==
  LET s == state[d]
      page == Server!Page(s.cursor, n)
      full == {i \in page : rows[i].envelope # NoEnvelope}
      v == [i \in Item |-> IF i \in full THEN Merged(d, i, rows[i].envelope) ELSE vault[d][i]]
      known == [i \in Item |->
                  IF i \in page
                  THEN [fp |-> rows[i].envelope, version |-> rows[i].version,
                        deletable |-> i \in full \/ s.known[i].deletable]
                  ELSE s.known[i]]
      s1 == [known |-> known, cursor |-> Server!NextSince(s.cursor, n)]
      next == IF Server!HasMore(s.cursor, n) THEN task[d]
              ELSE Pushing(PendingPuts(v, s1), 0)
  IN
  /\ task[d].phase = "pull"
  /\ vault' = [vault EXCEPT ![d] = v]
  /\ had' = [had EXCEPT ![d] =
       [i \in Item |-> IF i \in full THEN @[i] \cup rows[i].envelope.value ELSE @[i]]]
  /\ SaveAnd(d, s1, next)
  /\ UNCHANGED <<rows, next_seq, purged>>

\* Mutant of PushApplied: the cursor skips past the device's own write.
PushAppliedSkips(d) ==
  LET i == Current(d)  p == Expected(d)  e == vault[d][i]
      s == Learn(state[d], i, [fp |-> e, version |-> p + 1, deletable |-> TRUE])
  IN
  /\ task[d].phase = "push"
  /\ Server!PutApplied(i, p, e)
  /\ SaveAnd(d, [s EXCEPT !.cursor = next_seq], Pushing(task[d].todo \ {i}, 0))
  /\ UNCHANGED <<vault, had, purged>>

\* push_one, answered 200.
PushApplied(d) ==
  LET i == Current(d)  p == Expected(d)  e == vault[d][i] IN
  /\ task[d].phase = "push"
  /\ Server!PutApplied(i, p, e)
  /\ SaveAnd(d, Learn(state[d], i, [fp |-> e, version |-> p + 1, deletable |-> TRUE]),
             Pushing(task[d].todo \ {i}, 0))
  /\ UNCHANGED <<vault, had, purged>>

(***************************************************************************)
(* What push_one does after a conflict is resolved: a row that now is what *)
(* the server has is done, one that is not is sent again, and a row that   *)
(* has used up its attempts ends the sync with ConflictLoop.               *)
(***************************************************************************)
AfterConflict(d, v, s) ==
  LET i == Current(d)  q == task[d].todo IN
  IF task[d].tries = MaxRetries THEN Idle
  ELSE IF Confirmed(v, s, i) THEN Pushing(q \ {i}, 0)
  ELSE Pushing(q, task[d].tries + 1)

(***************************************************************************)
(* push_one, answered 409, and resolve_conflict. decode_conflict turns an  *)
(* answer with neither bytes nor a version, version 0, into an error. A    *)
(* row without bytes leaves a version to retry with. Bytes are recorded    *)
(* first and merged then, and a merge that fails ends the sync between the *)
(* two. The guard against the same answer twice never fires here: it needs *)
(* a server that answers 409 to the very version it says it holds.         *)
(***************************************************************************)
PushConflict(d) ==
  LET i == Current(d)  r == rows[i]  k == state[d].known[i]
      reclaimed == Learn(state[d], i,
                     [fp |-> NoEnvelope, version |-> r.version, deletable |-> k.deletable])
      theirs == Learn(state[d], i,
                     [fp |-> r.envelope, version |-> r.version, deletable |-> TRUE])
  IN
  /\ task[d].phase = "push"
  /\ Server!PutConflict(i, k.version)
  /\ \/ /\ r.version = 0
        /\ GiveUp(d)
     \/ /\ Server!Reclaimed(i)
        /\ SaveAnd(d, reclaimed, AfterConflict(d, vault[d], reclaimed))
        /\ UNCHANGED <<vault, had, purged>>
     \/ /\ r.envelope # NoEnvelope
        /\ LET v == [vault[d] EXCEPT ![i] = Merged(d, i, r.envelope)] IN
           /\ vault' = [vault EXCEPT ![d] = v]
           /\ SaveAnd(d, theirs, AfterConflict(d, v, theirs))
        /\ had' = [had EXCEPT ![d][i] = @ \cup r.envelope.value]
        /\ UNCHANGED purged
     \/ /\ r.envelope # NoEnvelope
        /\ "merge" \in Faults
        /\ state' = [state EXCEPT ![d] = theirs]
        /\ task' = [task EXCEPT ![d] = Idle]
        /\ UNCHANGED <<vault, saved, had, purged>>

-----------------------------------------------------------------------------
\* The request is refused or never arrives, or a page cannot be merged.
RequestFails(d) ==
  /\ "request" \in Faults
  /\ task[d].phase # "idle"
  /\ GiveUp(d)
  /\ UNCHANGED <<rows, next_seq>>

\* The server acts on the request, and the reply is lost or never awaited.
ReplyLost(d) ==
  LET i == Current(d)  p == Expected(d) IN
  /\ "reply" \in Faults
  /\ \/ task[d].phase = "delete" /\ Server!DeleteApplied(i, p)
     \/ task[d].phase = "push" /\ Server!PutApplied(i, p, vault[d][i])
  /\ GiveUp(d)

\* The process ends and starts again, or the vault is locked and unlocked:
\* the engine is rebuilt from the state store.
Restart(d) ==
  /\ "crash" \in Faults
  /\ state' = [state EXCEPT ![d] = saved[d]]
  /\ task' = [task EXCEPT ![d] = Idle]
  /\ UNCHANGED <<rows, next_seq, vault, saved, had, purged>>

\* SyncEngine::reset, after a restore from a backup.
Reset(d) ==
  /\ CanWrite(d, "reset")
  /\ SaveAnd(d, NewState, Idle)
  /\ UNCHANGED <<rows, next_seq, vault, had, purged>>

SweepRows(S) ==
  /\ "sweep" \in Faults
  /\ Server!Sweep(S)
  /\ UNCHANGED <<vault, state, saved, task, had, purged>>

Next ==
  \/ \E d \in Device :
       \/ \E i \in Item : Create(d, i) \/ Edit(d, i) \/ DeleteItem(d, i) \/ Rewrap(d, i)
       \/ \E S \in SUBSET Item : PurgeTombstones(d, S)
       \/ StartSync(d)
       \/ PushDelete(d)
       \/ \E n \in 1 .. PageLimit : PullPage(d, n)
       \/ PushApplied(d)
       \/ PushConflict(d)
       \/ RequestFails(d) \/ ReplyLost(d) \/ Restart(d) \/ Reset(d)
  \/ \E S \in SUBSET Item : SweepRows(S)

Spec == Init /\ [][Next]_vars

(***************************************************************************)
(* The host asks for a sync again and again, and a request that is made    *)
(* again and again is answered at last; failures may come before that.     *)
(***************************************************************************)
Fairness ==
  \A d \in Device :
    /\ WF_vars(StartSync(d))
    /\ SF_vars(PushDelete(d))
    /\ SF_vars(\E n \in 1 .. PageLimit : PullPage(d, n))
    /\ SF_vars(PushApplied(d))
    /\ SF_vars(PushConflict(d))

FairSpec == Spec /\ Fairness
-----------------------------------------------------------------------------
\* Some device has merged all of v and collected it under a later tombstone.
Collected(i, v) == \E d \in Device : \E c \in purged[d][i] : v \subseteq c

(***************************************************************************)
(* A write is never lost: what a device takes off its queue, because the   *)
(* envelope in its row is the one the server confirmed, is part of what    *)
(* the server holds, or was covered by a tombstone some device collected.  *)
(* It holds where no version is met again (VersionsStay); with collection  *)
(* beside the sweep, MCMaintenance says up to which step, and the run      *)
(* sync_swept shows a write that is lost then.                             *)
(***************************************************************************)
ConfirmedIsDurable ==
  \A d \in Device, i \in Item :
    Confirmed(vault[d], state[d], i) =>
      \/ vault[d][i].value \subseteq Value(rows[i].envelope)
      \/ Collected(i, vault[d][i].value)

(***************************************************************************)
(* Progress is committed before it is claimed: a row at or below the       *)
(* cursor, the saved one or the running one, has been merged into the      *)
(* vault of the device that will not ask for it again; and no queue or     *)
(* count of attempts is left over from a phase that has ended.             *)
(***************************************************************************)
CursorCoversMerged ==
  /\ TypeOK
  /\ \A d \in Device, i \in Item :
       rows[i].version > 0 /\ rows[i].seq <= Max({state[d].cursor, saved[d].cursor})
         => Value(rows[i].envelope) \subseteq had[d][i]

(***************************************************************************)
(* The engine implements Replication, restarts and failures included, as   *)
(* long as no version that was swept is met again (MCMaintenance): a pull  *)
(* or a conflict adds to a vault what the server has and drops nothing, a  *)
(* put under the version last heard of never overwrites a write its device *)
(* has not merged, and the early delete drops only what a device had and   *)
(* collected (sync_once: had another device written the item, "the delete  *)
(* does not happen").                                                      *)
(***************************************************************************)
Abstract == INSTANCE Replication WITH
  held <- [d \in Device |-> [i \in Item |-> Value(vault[d][i])]],
  relayed <- [i \in Item |-> Value(rows[i].envelope)],
  collected <- purged
Replicates == Abstract!ReplicationSpec

(***************************************************************************)
(* Once nobody writes any more, every device has every write, and the      *)
(* server too, whatever failed on the way.                                 *)
(***************************************************************************)
Converged ==
  /\ \A d, e \in Device, i \in Item : Value(vault[d][i]) = Value(vault[e][i])
  /\ \A d \in Device : PendingPuts(vault[d], state[d]) = {}
EventuallyConverged == <>[]Converged

(***************************************************************************)
(* No device is left behind for good: each one reads the feed to its end   *)
(* again and again. sync_once says of a delete that is refused that the    *)
(* pull that follows brings the newer value in.                            *)
(***************************************************************************)
CaughtUp(d) == state[d].cursor + 1 = next_seq
KeepsCatchingUp == \A d \in Device : []<>CaughtUp(d)
-----------------------------------------------------------------------------
(***************************************************************************)
(* The inductive invariant behind CursorCoversMerged. Stamps have no gaps, *)
(* so that they never outrun the number of writes; no row and no cursor    *)
(* carries a number that was not allocated, so that a new write lands past *)
(* every cursor; a write is one its author has had; and each of a device's *)
(* two cursors is covered.                                                 *)
(***************************************************************************)
StampsFilled == \A w \in AllWrites : \A t \in 1 .. w.t : \E x \in AllWrites : x.t = t

SeqAllocated ==
  /\ \A i \in Item : rows[i].seq < next_seq /\ (rows[i].version > 0 => rows[i].seq > 0)
  /\ \A d \in Device : state[d].cursor < next_seq /\ saved[d].cursor < next_seq

AuthorHad ==
  \A i \in Item :
    /\ \A w \in Value(rows[i].envelope) : w \in had[w.by][i]
    /\ \A d \in Device : /\ Value(vault[d][i]) \subseteq had[d][i]
                         /\ \A w \in had[d][i] : w \in had[w.by][i]

Covers(R, s, h) ==
  \A i \in Item : R[i].version > 0 /\ R[i].seq <= s.cursor => Value(R[i].envelope) \subseteq h[i]

CursorInv ==
  /\ TypeOK /\ StampsFilled /\ AuthorHad /\ SeqAllocated
  /\ \A d \in Device : Covers(rows, state[d], had[d]) /\ Covers(rows, saved[d], had[d])

(***************************************************************************)
(* The inductive invariant behind ConfirmedIsDurable and Replicates. Of    *)
(* the rows R, the vaults V, the values P that were collected, and a state *)
(* s of device d, the running or the saved one: no version is ahead of the *)
(* server's; a device that holds the current version of a row has merged   *)
(* the row, or merged and collected it, or a merge failed after            *)
(* resolve_conflict wrote the version down and the row is still past the   *)
(* cursor; and what it holds for confirmed is durable.                     *)
(***************************************************************************)
NotAhead(R, s) == \A i \in Item : s.known[i].version <= R[i].version

HasMerged(R, v, p, i) ==
  \/ Value(R[i].envelope) \subseteq Value(v[i])
  \/ v[i] = NoEnvelope /\ \E c \in p[i] : Value(R[i].envelope) \subseteq c

CurrentIsMerged(R, s, v, p) ==
  \A i \in Item : s.known[i].version = R[i].version =>
    HasMerged(R, v, p, i) \/ ("merge" \in Faults /\ R[i].seq > s.cursor)

FpIsDurable(R, s, P) ==
  \A i \in Item :
    \/ Value(s.known[i].fp) \subseteq Value(R[i].envelope)
    \/ \E d \in Device : \E c \in P[d][i] : Value(s.known[i].fp) \subseteq c

StateIsSound(R, V, P, s, d) ==
  /\ NotAhead(R, s)
  /\ CurrentIsMerged(R, s, V[d], P[d])
  /\ FpIsDurable(R, s, P)

\* A queue holds what its phase is for, and a put overwrites what was merged.
QueueFits(R, v, s, t) ==
  \A i \in t.todo :
    IF t.phase = "push"
    THEN /\ v[i] # NoEnvelope
         /\ s.known[i].version = R[i].version => Value(R[i].envelope) \subseteq Value(v[i])
    ELSE v[i] = NoEnvelope /\ s.known[i].deletable

\* Where nothing is collected, nothing is deleted from the server either.
NothingCollected ==
  /\ \A i \in Item : ~Server!Reclaimed(i)
  /\ \A d \in Device, i \in Item :
       /\ had[d][i] = Value(vault[d][i])
       /\ state[d].known[i].deletable \/ saved[d].known[i].deletable => vault[d][i] # NoEnvelope

EngineInv ==
  /\ CursorInv
  /\ \A d \in Device : QueueFits(rows, vault[d], state[d], task[d])
  /\ "purge" \notin Operations => NothingCollected
  /\ \A i \in Item : rows[i].version = 0 => rows[i].envelope = NoEnvelope
  /\ \A d \in Device : \A s \in {state[d], saved[d]} : StateIsSound(rows, vault, purged, s, d)

\* The instances that meet no swept version again, and no collected row
\* beside a merge that failed half-way (README, observations).
VersionsStay == "purge" \in Operations => Faults \cap {"sweep", "merge"} = {}
=============================================================================
