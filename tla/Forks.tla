------------------------------- MODULE Forks -------------------------------
(***************************************************************************)
(* A vault's items under the rule that a secret is never given up: when    *)
(* two devices hold different secrets under one id, both are kept, and the *)
(* one that loses the id moves to an id derived from it.                   *)
(*                                                                         *)
(* Source: misty-vault merge.rs and conflict.rs, and repair_secret, purge  *)
(* and merge_remote of vault/. The clocked fields of an item are the set   *)
(* of writes it holds (ItemMerge models them); an id is the sequence of    *)
(* the id that was drawn and the secrets it was derived with; secrets are  *)
(* numbers, compared as their bytes are.                                   *)
(***************************************************************************)
EXTENDS Integers, Sequences, FiniteSets, SequencesExt

CONSTANTS
  Peers,            \* the devices
  SecretBytes,      \* the secrets, numbers
  OriginalId,       \* the id under which the first item is made
  MaxMergeSteps,    \* MAX_MERGE_STEPS
  MaxRepairs, MaxOthers   \* bounds of the model

\* A secret has at most MAX_SECRET_LEN bytes.
ASSUME ForkAssumption ==
  /\ SecretBytes \subseteq Nat /\ SecretBytes # {} /\ IsFiniteSet(SecretBytes)
  /\ {MaxMergeSteps, MaxRepairs, MaxOthers} \subseteq Nat

VARIABLES
  item_set,         \* ItemSet of each device: id -> [secret, writes]
  copies,           \* every row a device has stored, as the server may deliver it
  conflicts,        \* the notices each device raised
  settled,          \* FALSE once an absorb ended with MergeDidNotSettle
  repairs, edits, purges,   \* how many there were
  credited          \* ghost: the writes each device knows, with the secret they are about

forkVars == <<item_set, copies, conflicts, settled, repairs, edits, purges, credited>>

-----------------------------------------------------------------------------
NoItems == [id \in {} |-> 0]
With(items, id, item) == [i \in DOMAIN items \cup {id} |-> IF i = id THEN item ELSE items[i]]
Item(secret, writes) == [secret |-> secret, writes |-> writes]
Copy(items, id) == [id |-> id, secret |-> items[id].secret, writes |-> items[id].writes]

\* fork_id: a pseudorandom function of the original id and the secret that moves.
ForkId(original, secret) == Append(original, secret)
\* Mutant of LocalKeepsId: what is here stays.
LocalKeepsIdAlways(local, remote) == TRUE
LocalKeepsId(local, remote) == local <= remote
\* Item::merge of two versions of one credential.
Joined(local, candidate) == local.writes \cup candidate.writes

\* Mutant of Requeued: the credential that lost its id is let go.
RequeuedNever(queue, id, mover) == queue
Requeued(queue, id, mover) == Append(queue, [id |-> id, secret |-> mover.secret, writes |-> mover.writes])
DivergentSecret(kept, forked) == [kept |-> kept, forked |-> forked]

\* One turn of the loop of absorb. A mover goes back through the queue under its new id.
AbsorbStep(s) ==
  LET c == Head(s.queue)
      local == s.items[c.id]
      stays == LocalKeepsId(local.secret, c.secret)
      mover == IF stays THEN Item(c.secret, c.writes) ELSE local
      keeper == IF stays THEN local ELSE Item(c.secret, c.writes)
      forked == ForkId(c.id, mover.secret) IN
  IF s.queue = <<>> THEN s
  ELSE IF c.id \notin DOMAIN s.items
  THEN [s EXCEPT !.queue = Tail(@), !.items = With(@, c.id, Item(c.secret, c.writes)), !.touched = @ \cup {c.id}]
  ELSE IF local.secret = c.secret
  THEN [s EXCEPT !.queue = Tail(@), !.items = With(@, c.id, Item(c.secret, Joined(local, c))),
                 !.touched = @ \cup {c.id}]
  ELSE [items |-> With(s.items, c.id, keeper), touched |-> s.touched \cup {c.id},
        queue |-> Requeued(Tail(s.queue), forked, mover),
        conflicts |-> s.conflicts \cup {DivergentSecret(c.id, forked)}]
\* absorb: the loop, whose last turn only finds the queue empty or gives up.
Absorb(items, copy) ==
  LET after[n \in 0..MaxMergeSteps] ==
        IF n = 0 THEN [items |-> items, queue |-> <<copy>>, touched |-> {}, conflicts |-> {}]
        ELSE AbsorbStep(after[n - 1])
  IN after[MaxMergeSteps]
\* ItemSet::merge: the items of the other set are absorbed one by one.
MergeSets(items, other) ==
  LET ids == SetToSeq(DOMAIN other)
      held[n \in 0..Len(ids)] ==
        IF n = 0 THEN items ELSE Absorb(held[n - 1], Copy(other, ids[n])).items
  IN held[Len(ids)]

-----------------------------------------------------------------------------
\* What a device knows about each credential it holds.
Credits(items) == UNION {{<<items[id].secret, w>> : w \in items[id].writes} : id \in DOMAIN items}
\* commit_item and the transaction of merge_remote: the set is adopted and its rows may travel.
Adopt(d, items, ids) ==
  /\ item_set' = [item_set EXCEPT ![d] = items]
  /\ copies' = copies \cup {Copy(items, id) : id \in ids}

FirstSecret == CHOOSE s \in SecretBytes : \A t \in SecretBytes : s <= t
ForkInit ==
  LET items == With(NoItems, <<OriginalId>>, Item(FirstSecret, {0})) IN
  /\ item_set = [d \in Peers |-> items]
  /\ copies = {Copy(items, <<OriginalId>>)}
  /\ credited = [d \in Peers |-> Credits(items)]
  /\ conflicts = [d \in Peers |-> {}] /\ settled = TRUE /\ repairs = 0 /\ edits = 0 /\ purges = 0

\* merge_remote of one row; an absorb that does not settle leaves the vault as it was.
MergeRemote(d, copy) ==
  LET r == Absorb(item_set[d], copy) IN
  /\ settled' = (r.queue = <<>>)
  /\ IF r.queue = <<>>
     THEN /\ Adopt(d, r.items, r.touched)
          /\ conflicts' = [conflicts EXCEPT ![d] = @ \cup r.conflicts]
          /\ credited' = [credited EXCEPT ![d] = @ \cup {<<copy.secret, w>> : w \in copy.writes}]
     ELSE UNCHANGED <<item_set, copies, conflicts, credited>>
  /\ UNCHANGED <<repairs, edits, purges>>

\* update: one more write on an item.
EditFork(d, id) ==
  LET items == With(item_set[d], id, [item_set[d][id] EXCEPT !.writes = @ \cup {edits + 1}]) IN
  /\ edits + purges < MaxOthers /\ edits' = edits + 1
  /\ Adopt(d, items, {id}) /\ credited' = [credited EXCEPT ![d] = @ \cup Credits(items)]
  /\ UNCHANGED <<conflicts, settled, repairs, purges>>

\* repair_secret: the item goes on under another secret, and no clock is ticked.
RepairSecret(d, id, secret) ==
  LET items == With(item_set[d], id, [item_set[d][id] EXCEPT !.secret = secret]) IN
  /\ repairs < MaxRepairs /\ repairs' = repairs + 1
  /\ secret # item_set[d][id].secret
  /\ Adopt(d, items, {id}) /\ credited' = [credited EXCEPT ![d] = Credits(items)]
  /\ UNCHANGED <<conflicts, settled, edits, purges>>

\* delete_item and, when its tombstone is old enough, purge_tombstones: the row is forgotten here only.
PurgeItem(d, id) ==
  LET items == [i \in DOMAIN item_set[d] \ {id} |-> item_set[d][i]] IN
  /\ edits + purges < MaxOthers /\ purges' = purges + 1
  /\ Adopt(d, items, {}) /\ credited' = [credited EXCEPT ![d] = Credits(items)]
  /\ UNCHANGED <<conflicts, settled, repairs, edits>>

ForkNext ==
  \E d \in Peers :
    \/ \E copy \in copies : MergeRemote(d, copy)
    \/ \E id \in DOMAIN item_set[d] : EditFork(d, id)
    \/ \E id \in DOMAIN item_set[d], secret \in SecretBytes : RepairSecret(d, id, secret)
    \/ \E id \in DOMAIN item_set[d] : PurgeItem(d, id)
ForkSpec == ForkInit /\ [][ForkNext]_forkVars

-----------------------------------------------------------------------------
\* Every set maps ids to items, and a fork is told of under the ids of its two sides.
ForkTypeOK ==
  \A d \in Peers :
    /\ \A id \in DOMAIN item_set[d] : Head(id) = OriginalId /\ item_set[d][id].secret \in SecretBytes
    /\ \A c \in conflicts[d] : c.forked # c.kept

\* No merge gives up: forking ends well before MAX_MERGE_STEPS ("a chain longer than this needs a
\* 128-bit id collision").
MergeSettles == settled

\* Never guess with a credential: whatever order rows arrive in, a device keeps every secret it
\* held or was sent, and every write stays with the credential it is about, unless the user
\* repaired or deleted it (absorb).
NoCredentialLost == \A d \in Peers : credited[d] \subseteq Credits(item_set[d])

\* A user is told of every fork: whichever device holds a credential under a derived id, some
\* device raised the notice of it (Conflict::DivergentSecret).
ForkIsTold ==
  \A d \in Peers : \A id \in DOMAIN item_set[d] :
    Len(id) > 1 => \E e \in Peers : \E c \in conflicts[e] : c.forked = id

\* Devices that exchange their items end with the same ids for the same credentials, whoever
\* merges first, however often, and whether another row comes before or after (merge.rs: the
\* forked id "has to be derived, not drawn").
ForksConverge ==
  \A d \in Peers : \A e \in Peers \ {d} :
    LET joined == MergeSets(item_set[d], item_set[e]) IN
    /\ joined = MergeSets(item_set[e], item_set[d])
    /\ MergeSets(joined, item_set[e]) = joined
    /\ \A copy \in copies : Absorb(joined, copy).items = MergeSets(item_set[d], Absorb(item_set[e], copy).items)

\* Never guess with a credential, and never in silence: every secret and every write of it is kept
\* through the forks, and some user is told of each (absorb, Conflict).
ForksKeepCredentials == NoCredentialLost /\ ForkIsTold

\* Forking ends, and in the same items everywhere (absorb, fork_id).
ForksSettle == ForkTypeOK /\ MergeSettles /\ ForksConverge

-----------------------------------------------------------------------------
(***************************************************************************)
(* The inductive invariant.                                                *)
(***************************************************************************)
ForkIds == {id \in Seq({OriginalId} \cup SecretBytes) : id # <<>> /\ Head(id) = OriginalId}
WriteSets == {W \in SUBSET Nat : W # {}}
ItemsOk(items) ==
  /\ IsFiniteSet(DOMAIN items) /\ DOMAIN items \subseteq ForkIds
  /\ items \in [DOMAIN items -> [secret : SecretBytes, writes : WriteSets]]
CopySet == [id : ForkIds, secret : SecretBytes, writes : WriteSets]

\* The secret that an id was made for.
Native(id) == IF Len(id) = 1 THEN FirstSecret ELSE id[Len(id)]
\* A fork needs a repaired secret, and so does each fork of what has forked: with n repairs
\* no id is derived more than n times, and the last of them only holds its own secret.
Earned(n, id, secret) == Len(id) - 1 <= n /\ (secret # Native(id) => Len(id) <= n)
\* The derived ids that some device told its user about.
ToldIds(notices) == {c.forked : c \in UNION {notices[d] : d \in Peers}}
Told(notices, id) == Len(id) > 1 => id \in ToldIds(notices)

ForkInv ==
  /\ item_set = [d \in Peers |-> item_set[d]] /\ conflicts = [d \in Peers |-> conflicts[d]]
  /\ credited = [d \in Peers |-> credited[d]]
  /\ repairs \in 0..MaxRepairs /\ edits \in Nat
  /\ copies \subseteq CopySet
  /\ \A c \in copies : Earned(repairs, c.id, c.secret) /\ Told(conflicts, c.id)
  /\ \A d \in Peers :
       /\ ItemsOk(item_set[d]) /\ credited[d] \subseteq Credits(item_set[d])
       /\ \A id \in DOMAIN item_set[d] :
            Earned(repairs, id, item_set[d][id].secret) /\ Told(conflicts, id)
       /\ \A c \in conflicts[d] : c.forked # c.kept
=============================================================================
