----------------------------- MODULE Membership -----------------------------
(***************************************************************************)
(* Who may write to a vault: the signed device roster, the enrollment of a *)
(* device over the server's relay, revocation with its epoch rotation, and *)
(* the feed that carries rosters and rows in one order.                    *)
(*                                                                         *)
(* Sources: misty-sync engine.rs, roster.rs and enroll.rs, misty-crypto    *)
(* identity.rs and enrollment.rs, the facade's two membership commands,    *)
(* misty-server routes/enroll.rs and its part of the store.                *)
(*                                                                         *)
(* Signatures are ideal: an envelope is the record of who signed it. An    *)
(* item's value is the set of devices whose write was merged into it. A    *)
(* request and the handling of its reply are one step, and a lost reply is *)
(* a step of its own, as in Sync.                                          *)
(***************************************************************************)
EXTENDS Naturals, FiniteSets, FiniteSetsExt

CONSTANTS
  Device,    \* device ids
  Founders,  \* the devices of the first roster
  Item,      \* item ids; numbers, because the outbound queue is sorted
  None,
  Faults,    \* the failures of this instance: "reply" or none
  MaxSeq     \* bound of the model: writes the server applies

Envelopes == [by : Device, epoch : Nat, value : SUBSET Device]
Rows == [version : Nat, seq : Nat, env : Envelopes]
Rosters == [version : Nat, seq : Nat, by : Device, devices : SUBSET Device]
Grants == [by : Device, devices : SUBSET Device, epoch : Nat]

ASSUME MembershipAssumption ==
  /\ Founders \subseteq Device /\ Founders # {} /\ Item \subseteq Nat /\ IsFiniteSet(Item)
  /\ Faults \subseteq {"reply"} /\ MaxSeq \in Nat \ {0}
  /\ None \notin Envelopes \cup Rows \cup Rosters \cup Grants

VARIABLES
  published,  \* the roster row of the server: who signed it and whom it lists
  row,        \* row[i]: the item row of the server, or None
  next_seq,   \* the sequence number of the next write
  relay,      \* relay[n]: the enrollment record of n's request, or None
  trusted,    \* trusted[d]: the devices of the roster d works under
  roster_version, \* roster_version[d]: SyncState::known of the roster's id
  vault,      \* vault[d][i]: the envelope d's row holds, or None
  known,      \* known[d][i]: the envelope and version last confirmed to d
  cursor,     \* cursor[d]: SyncState::cursor
  epoch,      \* epoch[d]: the epoch d seals under
  task,       \* task[d]: what d's engine is in the middle of
  offered,    \* offered[d]: a roster reported to d's host, or None
  member,     \* member[d]: new, waiting, joined, or poisoned (see Revoke)
  heeded,     \* history: d adopted every roster it was offered before it went on
  lost,       \* history: what was sent and not confirmed; one reply is lost at most
  ever        \* history: every device list ever published, and who was revoked

vars == <<published, row, next_seq, relay, trusted, roster_version, vault, known, cursor,
          epoch, task, offered, member, heeded, lost, ever>>
store == <<vault, known, cursor, epoch>>
server == <<published, row, next_seq>>

NoKnown == [env |-> None, version |-> 0]
Idle == [step |-> "idle"]
Members == {d \in Device : member[d] = "joined"}

Init ==
  /\ \E d \in Founders : published = [version |-> 1, seq |-> 1, by |-> d, devices |-> Founders]
  /\ row = [i \in Item |-> None] /\ next_seq = 2
  /\ relay = [d \in Device |-> None]
  /\ trusted = [d \in Device |-> IF d \in Founders THEN Founders ELSE {}]
  /\ roster_version = [d \in Device |-> IF d \in Founders THEN 1 ELSE 0]
  /\ cursor = roster_version
  /\ vault = [d \in Device |-> [i \in Item |-> None]]
  /\ known = [d \in Device |-> [i \in Item |-> NoKnown]]
  /\ epoch = [d \in Device |-> 0]
  /\ task = [d \in Device |-> Idle]
  /\ offered = [d \in Device |-> None]
  /\ member = [d \in Device |-> IF d \in Founders THEN "joined" ELSE "new"]
  /\ heeded = [d \in Device |-> TRUE]
  /\ lost = {}
  /\ ever = [rosters |-> {Founders}, revoked |-> {}]

CanStart(d) == member[d] = "joined" /\ task[d] = Idle
\* A host that starts something else passes over a roster it was offered.
PassesOver(d) == heeded' = [heeded EXCEPT ![d] = @ /\ offered[d] = None]
\* The server acts on a request and its answer is lost.
Losing(what) == "reply" \in Faults /\ lost = {} /\ lost' = {what}

-----------------------------------------------------------------------------
(***************************************************************************)
(* Rows and the feed.                                                      *)
(***************************************************************************)
Value(e) == IF e = None THEN {} ELSE e.value
Seal(d, v) == [by |-> d, epoch |-> epoch[d], value |-> v]

\* merge_remote and records_for: the peer's own envelope when the merged value
\* is the incoming one.
Merged(d, i, e) == IF Value(vault[d][i]) \subseteq e.value THEN e
                   ELSE Seal(d, Value(vault[d][i]) \cup e.value)

\* A local write, by whichever command.
Write(d, i) ==
  /\ CanStart(d) /\ d \notin Value(vault[d][i])
  /\ vault' = [vault EXCEPT ![d][i] = Seal(d, Value(@) \cup {d})]
  /\ UNCHANGED <<server, relay, trusted, roster_version, known, cursor, epoch, task, offered,
                 member, heeded, lost, ever>>

\* pending: rows that are not what the server confirmed.
Pending(v, k) == {i \in Item : v[i] # None /\ v[i] # k[i].env}
Pushing(q) == IF q = {} THEN Idle ELSE [step |-> "push", todo |-> q]

\* Envelope::verify: roster membership, before anything is decrypted.
Accepted(d, e) == e.by \in trusted[d]

\* Mutant of PageEnd: the page is applied past a roster change.
PageEndOfFeed(d) == next_seq - 1
\* pull: a page stops at a roster change, and with it the cursor.
PageEnd(d) == IF published.seq > cursor[d] THEN published.seq ELSE next_seq - 1

(***************************************************************************)
(* pull and apply_page. A row that is rejected is passed by the cursor and *)
(* leaves what is known of it alone. A roster whose envelope is accepted   *)
(* is reported to the host; one it already works under changes nothing.    *)
(* push_writes then derives its queue.                                     *)
(***************************************************************************)
Pull(d) ==
  LET end == PageEnd(d)
      seen == {i \in Item : row[i] # None /\ row[i].seq > cursor[d] /\ row[i].seq <= end}
      good == {i \in seen : Accepted(d, row[i].env)}
      v == [i \in Item |-> IF i \in good THEN Merged(d, i, row[i].env) ELSE vault[d][i]]
      k == [i \in Item |-> IF i \in good THEN [env |-> row[i].env, version |-> row[i].version]
                           ELSE known[d][i]]
      roster == published.seq > cursor[d] /\ published.seq <= end /\ Accepted(d, published)
  IN
  /\ CanStart(d)
  /\ vault' = [vault EXCEPT ![d] = v] /\ known' = [known EXCEPT ![d] = k]
  /\ cursor' = [cursor EXCEPT ![d] = end]
  /\ roster_version' = [roster_version EXCEPT ![d] = IF roster THEN published.version ELSE @]
  /\ offered' = [offered EXCEPT ![d] =
       IF roster /\ published.devices # trusted[d] THEN published ELSE None]
  /\ task' = [task EXCEPT ![d] = Pushing(Pending(v, k))]
  /\ PassesOver(d)
  /\ UNCHANGED <<server, relay, trusted, epoch, member, lost, ever>>

(***************************************************************************)
(* push_one: applied under the known version; a conflict that is accepted  *)
(* is merged and tried again; one by a device outside the roster ends the  *)
(* sync with UnknownSigner, and the rest of the queue is not sent.         *)
(***************************************************************************)
Push(d) ==
  LET i == Min(task[d].todo)
      env == vault[d][i]
      version == IF row[i] = None THEN 0 ELSE row[i].version
      rest == Pushing(task[d].todo \ {i})
  IN
  /\ task[d].step = "push"
  /\ \/ /\ env = known[d][i].env
        /\ task' = [task EXCEPT ![d] = rest]
        /\ UNCHANGED <<server, vault, known>>
     \/ /\ env # known[d][i].env /\ version = known[d][i].version /\ next_seq <= MaxSeq
        /\ row' = [row EXCEPT ![i] = [version |-> version + 1, seq |-> next_seq, env |-> env]]
        /\ next_seq' = next_seq + 1
        /\ known' = [known EXCEPT ![d][i] = [env |-> env, version |-> version + 1]]
        /\ task' = [task EXCEPT ![d] = rest]
        /\ UNCHANGED <<published, vault>>
     \/ /\ env # known[d][i].env /\ version # known[d][i].version /\ Accepted(d, row[i].env)
        /\ vault' = [vault EXCEPT ![d][i] = Merged(d, i, row[i].env)]
        /\ known' = [known EXCEPT ![d][i] = [env |-> row[i].env, version |-> version]]
        /\ UNCHANGED <<server, task>>
     \/ /\ env # known[d][i].env /\ version # known[d][i].version /\ ~Accepted(d, row[i].env)
        /\ task' = [task EXCEPT ![d] = Idle]
        /\ UNCHANGED <<server, vault, known>>
  /\ UNCHANGED <<relay, trusted, roster_version, cursor, epoch, offered, member, heeded, lost,
                 ever>>

-----------------------------------------------------------------------------
(***************************************************************************)
(* Rosters.                                                                *)
(***************************************************************************)
\* Vault::open: this device is listed, and so is the signer of every row.
Opens(d, devices, v) == d \in devices /\ \A i \in Item : v[i] # None => v[i].by \in devices

\* check_successor, and the vault opened again under the new roster. A host
\* that cannot open it goes on under the old one.
Adopt(d) ==
  /\ CanStart(d) /\ offered[d] # None
  /\ offered[d].by \in trusted[d] \cap offered[d].devices
  /\ Opens(d, offered[d].devices, vault[d])
  /\ trusted' = [trusted EXCEPT ![d] = offered[d].devices]
  /\ offered' = [offered EXCEPT ![d] = None]
  /\ UNCHANGED <<server, relay, roster_version, store, task, member, heeded, lost, ever>>

\* push_roster under the version this device knows.
Publish(d, devices, revoked) ==
  /\ roster_version[d] = published.version /\ next_seq <= MaxSeq
  /\ published' = [version |-> published.version + 1, seq |-> next_seq, by |-> d,
                   devices |-> devices]
  /\ next_seq' = next_seq + 1
  /\ ever' = [rosters |-> ever.rosters \cup {devices}, revoked |-> ever.revoked \cup revoked]
  /\ UNCHANGED row

\* Mutant of Superseded: a roster that is out of date is retried as it is.
SupersededRetries(d) ==
  /\ roster_version[d] # published.version
  /\ roster_version' = [roster_version EXCEPT ![d] = published.version]
  /\ UNCHANGED <<server, relay, trusted, store, offered, member, lost, ever, task>>
\* RosterPush::Superseded: the version of the other roster is recorded, and the
\* roster handed to the host. Nothing was granted or revoked.
Superseded(d) ==
  /\ roster_version[d] # published.version
  /\ roster_version' = [roster_version EXCEPT ![d] = published.version]
  /\ offered' = [offered EXCEPT ![d] = IF published.devices # trusted[d] THEN published ELSE None]
  /\ task' = [task EXCEPT ![d] = Idle]
  /\ UNCHANGED <<server, relay, trusted, store, member, lost, ever>>

\* The reply of the roster write is lost: the server has the successor, and the
\* device neither the new version nor the new roster.
PublishLost(d, devices, revoked) ==
  /\ Losing("roster")
  /\ Publish(d, devices, revoked)
  /\ task' = [task EXCEPT ![d] = Idle]
  /\ UNCHANGED <<relay, trusted, roster_version, store, offered, member>>

\* Mutant of Rewrapped: the successor is adopted before the rotation ends.
RewrappedLater(d) == vault[d]
\* rotate_step until nothing remains: every row of another epoch is sealed anew.
Rewrapped(d) ==
  [i \in Item |-> IF vault[d][i] = None \/ vault[d][i].epoch = epoch[d] + 1 THEN vault[d][i]
                  ELSE [by |-> d, epoch |-> epoch[d] + 1, value |-> vault[d][i].value]]

(***************************************************************************)
(* do_revoke_device and revoke_device: the successor is signed and pushed; *)
(* then the epoch is rotated, every row sealed again, and the vault opened *)
(* under the successor. When that fails the facade is left without it.     *)
(***************************************************************************)
Revoke(d, r) ==
  LET successor == trusted[d] \ {r} IN
  /\ CanStart(d) /\ r # d /\ PassesOver(d)
  /\ \/ /\ Publish(d, successor, {r})
        /\ roster_version' = [roster_version EXCEPT ![d] = published.version + 1]
        /\ epoch' = [epoch EXCEPT ![d] = @ + 1]
        /\ vault' = [vault EXCEPT ![d] = Rewrapped(d)]
        /\ trusted' = [trusted EXCEPT ![d] = successor]
        /\ member' = [member EXCEPT ![d] =
             IF Opens(d, successor, Rewrapped(d)) THEN "joined" ELSE "poisoned"]
        /\ UNCHANGED <<relay, known, cursor, task, offered, lost>>
     \/ Superseded(d)
     \/ PublishLost(d, successor, {r})

-----------------------------------------------------------------------------
(***************************************************************************)
(* Enrollment over the relay.                                              *)
(***************************************************************************)
\* The record enroll_begin stores, what each of its readers is told, and what
\* their calls leave of it.
NewRecord == [taken |-> FALSE, grant |-> None]
RequestReady(n) == relay[n] # None /\ ~relay[n].taken
ResponseReady(n) == relay[n] # None /\ relay[n].grant # None
Unanswered(n) == relay[n] # None /\ relay[n].grant = None
RequestTaken(n) == [relay EXCEPT ![n].taken = TRUE]
ResponseStored(n, grant) == [relay EXCEPT ![n].grant = grant]
ResponseTaken(n) == [relay EXCEPT ![n] = None]

\* An approver that is still busy with an attempt that was given up.
Outdated(t, n) == IF t.step \in {"approve", "deliver"} /\ t.new = n THEN [t EXCEPT !.current = FALSE]
                  ELSE t

\* Enrollment::begin and publish. Each attempt has an id and keys of its own, so
\* a record that is left behind answers nobody.
Begin(n) ==
  /\ member[n] \in {"new", "waiting"} /\ relay[n] # NewRecord
  /\ relay' = [relay EXCEPT ![n] = NewRecord]
  /\ member' = [member EXCEPT ![n] = "waiting"]
  /\ task' = [d \in Device |-> Outdated(task[d], n)]
  /\ UNCHANGED <<server, trusted, roster_version, store, offered, heeded, lost, ever>>

Approving(n) == [step |-> "approve", new |-> n, current |-> TRUE]

\* PendingApproval::fetch: the request is handed out once. When the reply is lost
\* the request is gone all the same, as after ApproveRefused.
Fetch(d, n) ==
  /\ CanStart(d) /\ RequestReady(n)
  /\ relay' = RequestTaken(n)
  /\ task' = [task EXCEPT ![d] = Approving(n)]
  /\ UNCHANGED <<server, trusted, roster_version, store, offered, member, heeded, lost, ever>>

\* PendingApproval::from_qr: the same request, read off a screen.
Scan(d, n) ==
  /\ CanStart(d) /\ member[n] = "waiting"
  /\ task' = [task EXCEPT ![d] = Approving(n)]
  /\ UNCHANGED <<server, relay, trusted, roster_version, store, offered, member, heeded, lost,
                 ever>>

\* The typed code is not the one of this request, or the device is listed
\* already (DuplicateDevice): nothing is sent.
ApproveRefused(d) ==
  /\ task[d].step = "approve"
  /\ task' = [task EXCEPT ![d] = Idle]
  /\ UNCHANGED <<server, relay, trusted, roster_version, store, offered, member, heeded, lost,
                 ever>>

(***************************************************************************)
(* approve_enrollment: the successor is signed and the grant sealed, then  *)
(* the roster is pushed, and the grant is delivered only after that.       *)
(***************************************************************************)
Approve(d) ==
  LET n == task[d].new  successor == trusted[d] \cup {n} IN
  /\ task[d].step = "approve" /\ n \notin trusted[d] /\ PassesOver(d)
  /\ \/ /\ Publish(d, successor, {})
        /\ roster_version' = [roster_version EXCEPT ![d] = published.version + 1]
        /\ task' = [task EXCEPT ![d] = 
             [step |-> "deliver", new |-> n, current |-> task[d].current, devices |-> successor]]
        /\ UNCHANGED <<relay, trusted, store, offered, member, lost>>
     \/ Superseded(d)
     \/ PublishLost(d, successor, {})

Grant(d) == [by |-> d, devices |-> task[d].devices, epoch |-> epoch[d]]

(***************************************************************************)
(* deliver and enroll_complete: the first answer to a record stands. The   *)
(* approver opens its vault under the successor; when the answer is that   *)
(* the record is gone or answered, or the reply is lost, it does not. The  *)
(* record of an attempt that was given up takes an answer nobody reads.    *)
(***************************************************************************)
Deliver(d) ==
  LET n == task[d].new
      open == task[d].current => Unanswered(n)
      answered == IF task[d].current THEN ResponseStored(n, Grant(d)) ELSE relay IN
  /\ task[d].step = "deliver"
  /\ task' = [task EXCEPT ![d] = Idle]
  /\ \/ /\ open /\ relay' = answered
        /\ trusted' = [trusted EXCEPT ![d] = task[d].devices]
        /\ UNCHANGED lost
     \/ /\ open /\ relay' = answered
        /\ Losing("delivery") /\ UNCHANGED trusted
     \/ /\ task[d].current => ~open
        /\ lost' = lost \cup {"delivery"} /\ UNCHANGED <<relay, trusted>>
  /\ UNCHANGED <<server, roster_version, store, offered, member, heeded, ever>>

\* NewDeviceEnrollment::open: the approver is in the roster it delivers, and so
\* is this device.
GrantOpens(n, grant) == grant.by \in grant.devices /\ n \in grant.devices

\* Enrollment::poll: collecting the answer destroys the record. When the reply is
\* lost the device waits on for a record that is gone, as after Expire.
Join(n) ==
  LET grant == relay[n].grant IN
  /\ member[n] = "waiting" /\ ResponseReady(n)
  /\ relay' = ResponseTaken(n)
  /\ GrantOpens(n, grant)
  /\ member' = [member EXCEPT ![n] = "joined"]
  /\ trusted' = [trusted EXCEPT ![n] = grant.devices]
  /\ epoch' = [epoch EXCEPT ![n] = grant.epoch]
  /\ UNCHANGED <<server, roster_version, vault, known, cursor, task, offered, heeded, lost,
                 ever>>

\* Sweep: the record expires.
Expire(n) ==
  /\ relay[n] # None
  /\ relay' = [relay EXCEPT ![n] = None]
  /\ UNCHANGED <<server, trusted, roster_version, store, task, offered, member, heeded, lost,
                 ever>>

Next ==
  \E d \in Device :
    \/ \E i \in Item : Write(d, i)
    \/ Pull(d) \/ Push(d) \/ Adopt(d)
    \/ \E e \in Device : Revoke(d, e) \/ Fetch(d, e) \/ Scan(d, e)
    \/ ApproveRefused(d) \/ Approve(d) \/ Deliver(d)
    \/ Begin(d) \/ Join(d) \/ Expire(d)

Spec == Init /\ [][Next]_vars

-----------------------------------------------------------------------------
Tasks ==
  {Idle} \cup [step : {"push"}, todo : SUBSET Item]
    \cup [step : {"approve"}, new : Device, current : BOOLEAN]
    \cup [step : {"deliver"}, new : Device, current : BOOLEAN, devices : SUBSET Device]

MembershipTypes ==
  /\ published \in Rosters /\ next_seq \in Nat
  /\ row \in [Item -> Rows \cup {None}]
  /\ relay \in [Device -> [taken : BOOLEAN, grant : Grants \cup {None}] \cup {None}]
  /\ trusted \in [Device -> SUBSET Device] /\ offered \in [Device -> Rosters \cup {None}]
  /\ vault \in [Device -> [Item -> Envelopes \cup {None}]]
  /\ known \in [Device -> [Item -> [env : Envelopes \cup {None}, version : Nat]]]
  /\ roster_version \in [Device -> Nat] /\ cursor \in [Device -> Nat] /\ epoch \in [Device -> Nat]
  /\ task \in [Device -> Tasks]
  /\ member \in [Device -> {"new", "waiting", "joined", "poisoned"}]
  /\ heeded \in [Device -> BOOLEAN]
  /\ ever \in [rosters : SUBSET SUBSET Device, revoked : SUBSET Device]

\* Cursors and versions are behind the server's, and the publisher of a roster is on it.
MembershipTypeOK ==
  /\ MembershipTypes /\ published.by \in published.devices
  /\ \A d \in Device : cursor[d] < next_seq /\ roster_version[d] <= published.version

\* What was written after s, lies behind the cursor of d and is signed by a device
\* d trusts has been merged.
MergedSince(s, d) ==
  \A i \in Item :
    (row[i] # None /\ s < row[i].seq /\ row[i].seq <= cursor[d] /\ row[i].env.by \in trusted[d])
      => row[i].env.value \subseteq Value(vault[d][i])

(***************************************************************************)
(* pull, on a page that stops at a roster: otherwise rows of a device that *)
(* only the new roster knows would be rejected and the cursor advanced     *)
(* "past them for good". A host that adopts each roster it is offered      *)
(* before it goes on should skip nothing.                                  *)
(***************************************************************************)
NothingSkipped == \A d \in Members : heeded[d] => MergedSince(0, d)

(***************************************************************************)
(* It skips nothing that was written under the newest roster. A row that a *)
(* later roster overtook, and whose signer came with an earlier one, is    *)
(* judged under the roster before both: the server keeps the last one only.*)
(***************************************************************************)
NothingSkippedSinceRoster == \A d \in Members : heeded[d] => MergedSince(published.seq, d)

(***************************************************************************)
(* The roster goes before the grant: a device works under no roster that   *)
(* was not published first, and one that was granted a key was listed.     *)
(***************************************************************************)
WorksUnderPublished ==
  \A d \in Members : trusted[d] \in ever.rosters /\ d \in trusted[d]

(***************************************************************************)
(* enroll.rs:33: the order is there so that no device holds the key that   *)
(* the others reject. A device that joined and was not revoked is listed.  *)
(***************************************************************************)
JoinedStaysListed == Members \subseteq published.devices \cup ever.revoked

(***************************************************************************)
(* It is so while no reply is lost and every host adopts what it is        *)
(* offered: two devices that change the roster at once do not undo each    *)
(* other. With or without that, nobody works under an unpublished roster.  *)
(***************************************************************************)
ListedWhileHeeded ==
  /\ MembershipTypeOK /\ WorksUnderPublished
  /\ (lost = {} /\ \A d \in Device : heeded[d]) => JoinedStaysListed

(***************************************************************************)
(* A revocation opens the vault again (facade.rs:1151, the rotation drains *)
(* first), unless another device had rotated to the same epoch before.     *)
(***************************************************************************)
ReopensUnlessEpochMet ==
  \A d \in Device : member[d] = "poisoned" => \E e \in Device \ {d} : epoch[e] >= epoch[d]

-----------------------------------------------------------------------------
(***************************************************************************)
(* The inductive invariant behind these properties.                        *)
(***************************************************************************)
\* A queue is not empty, what is queued is held, and nothing is known of no row.
QueuesAreSound ==
  \A d \in Device :
    /\ task[d].step = "push" => task[d].todo # {} /\ \A i \in task[d].todo : vault[d][i] # None
    /\ \A i \in Item : row[i] = None => known[d][i].version = 0

\* Only a member works; a device that has not joined has read and sealed nothing.
OnlyMembersWork ==
  \A d \in Device :
    /\ task[d] # Idle => member[d] = "joined"
    /\ member[d] \in {"new", "waiting"} =>
         cursor[d] = 0 /\ epoch[d] = 0 /\ roster_version[d] = 0 /\ offered[d] = None

NumbersAreAllocated ==
  /\ published.seq > 0 /\ published.version > 0 /\ published.seq < next_seq
  /\ \A d \in Device : cursor[d] < next_seq /\ roster_version[d] <= published.version

\* No roster is worked under, offered, delivered or granted that was not published.
ListsWerePublished ==
  /\ published.by \in published.devices /\ published.devices \in ever.rosters
  /\ \A d \in Device :
       /\ member[d] = "joined" => trusted[d] \in ever.rosters /\ d \in trusted[d]
       /\ offered[d] # None => offered[d].devices \in ever.rosters
       /\ task[d].step = "deliver" => task[d].devices \in ever.rosters /\ d \in task[d].devices
       /\ relay[d] # None => (relay[d].grant # None => relay[d].grant.devices \in ever.rosters)

\* A device seals under no epoch it has not reached.
SealedIn(e) == e # None => e.epoch <= epoch[e.by]
EpochsAreReached ==
  \A i \in Item : /\ \A d \in Device : SealedIn(vault[d][i])
                  /\ row[i] # None => SealedIn(row[i].env)

(***************************************************************************)
(* Who holds the newest version works under that roster, or is about to;   *)
(* so that its successor takes nobody off but whom it revokes.             *)
(***************************************************************************)
VersionMeansRoster ==
  \A d \in Device :
    (lost = {} /\ heeded[d] /\ roster_version[d] = published.version) =>
      published.devices = IF offered[d] # None THEN offered[d].devices
                          ELSE IF task[d].step = "deliver" THEN task[d].devices ELSE trusted[d]

EverListed == published.devices \cup ever.revoked
GrantedAreListed ==
  (lost = {} /\ \A d \in Device : heeded[d]) =>
    /\ JoinedStaysListed
    /\ \A d \in Device : /\ task[d].step = "deliver" => task[d].new \in EverListed
                         /\ relay[d] # None => (relay[d].grant # None => d \in EverListed)

\* A cursor at or past the newest roster has met it: it was recorded, unless its
\* signer was unknown; and what is offered to such a device is that roster.
RosterIsMet ==
  \A d \in Device : heeded[d] =>
    /\ task[d].step = "deliver" => cursor[d] < published.seq
    /\ cursor[d] >= published.seq =>
         /\ published.by \in trusted[d] => roster_version[d] = published.version
         /\ offered[d] # None => (offered[d].by \in trusted[d] =>
              cursor[d] = published.seq /\ roster_version[d] = published.version)

MembershipInv ==
  /\ MembershipTypes /\ QueuesAreSound /\ OnlyMembersWork /\ NumbersAreAllocated /\ ListsWerePublished
  /\ EpochsAreReached /\ VersionMeansRoster /\ GrantedAreListed /\ RosterIsMet
  /\ \A d \in Device : heeded[d] => MergedSince(published.seq, d)
  /\ ReopensUnlessEpochMet
=============================================================================
