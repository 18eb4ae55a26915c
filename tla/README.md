# A TLA+ verification of misty

misty is an end-to-end encrypted authenticator. Every device keeps a vault of
one-time-password items, edits it offline, and exchanges sealed rows with the
other devices of the same vault through a server that cannot read them. This
directory holds TLA+ models of the parts that must agree for that to work, TLC
configurations that check them on small instances, and TLAPS proofs of the
results that hold for every instance.

Paths below are relative to `src/`. `PROJECT.json` maps each definition to the
lines it models.

## 1. The system

| Component | State it keeps | Operations | Talks to |
|---|---|---|---|
| Hybrid logical clock (`crates/misty-vault/src/hlc.rs`) | the last reading issued or observed | `tick`, `observe`, `resumed` | called by every clocked write, every merge, every load |
| Vault rows (`vault/write.rs`, `vault/sync.rs`, `vault/mod.rs`) | one sealed envelope per item, the items in memory | add, edit, trash, delete, purge, merge a remote batch, re-seal under a new epoch, load | clock, CRDTs, SQLite file |
| Item CRDT (`crdt/*`, `model/item.rs`, `model/tombstone.rs`, `merge.rs`) | registers, OR-sets, counters, tombstone; forks of divergent secrets | `set`, `add`, `remove`, `increment`, `merge`, `absorb` | used by the vault |
| Edits (`facade.rs`, `vault/write.rs`, `edit.rs`, `text.rs`) | the items and groups | add, merge a duplicate, update with set diffs, trash, restore, delete | facade to vault |
| Sync engine (`crates/misty-sync/src/engine.rs`, `state.rs`, `client.rs`, `wire.rs`) | what the server is known to hold (`known`), the feed cursor, both persisted by a `StateStore` | `sync_once` = deletes, pull, push; conflict resolution; `reset`; rotation; roster and revocation; `run` | vault (local), server (HTTP) |
| Server item store (`server/misty-server/src/store/sqlite.rs`, `routes/items.rs`, `main.rs`) | the items table, `next_seq` per vault | `changes`, `put_item`, `delete_item`, `sweep` | every device |
| Authentication (`routes/auth.rs`, `token.rs`, `client.rs`, the same store) | challenges, access tokens, refresh families, admitted devices; the client's session | challenge, verify, admit, refresh, revoke, sweep; `send`, `reauthenticate` | engine's client |
| Enrollment (`routes/enroll.rs`, `misty-sync/src/enroll.rs`, `misty-crypto/src/enrollment.rs`) | pending requests and their one-time answers | begin, fetch, approve, deliver, poll | new device, approver, server as relay |
| Roster, revocation, rotation (`misty-sync/src/roster.rs`, `engine.rs`, `misty-crypto/src/identity.rs`) | a signed, versioned list of devices; epochs | push, adopt, revoke, rotate | every device |
| Facade (`crates/misty/src/facade.rs`) | locked, unlocked with a deadline, or poisoned; deferred commands; the future in flight | one command at a time; a sync can be preempted | UI and bindings |
| Server time (`misty-sync/src/time.rs`, `time_key.rs`) | signing key; drift estimate, last accepted time | sign, verify, sample, roll-back check | engine, OTP |
| Requests (`rate_limit.rs`, `routes/mod.rs`, `backoff.rs`) | token buckets; attempt counts | admit, shed, evict; authenticate and check a request; delay and retry | server; client |
| One-time passwords (`crates/misty-otp`) | a configuration | build, parse and write URIs, windows and counters, resynchronise | facade, importers |
| Importers (`crates/misty-importers`) | the rows read so far and their outcomes | detect, open, read rows, hold duplicates, collect batches, export | nothing else calls them yet |
| Cryptography (`crates/misty-crypto`), bindings, UI | keys; none; presentation | | |

What is hard here, and hard to reach with a test:

- *interleaving without locks*: devices page through a feed that others append
  to, and write under versions they learnt earlier;
- *failure between two stores*: a page goes into the vault and the cursor into
  the state store; a request acts on the server and its reply is lost; a sync
  is dropped at any `await`;
- *order*: any version of an item may be merged late, twice, or after a newer
  one, under clocks that disagree and jump;
- *collection*: tombstones are purged on the devices, their rows deleted on
  the server, and the rows swept there, while a device that has been away still
  holds the item;
- *something must happen at last*: conflicts must settle although sealing is
  randomised, and a queue must drain.

`PROJECT.json` lists these as hazards, each at its line, with the properties
that would catch it going wrong.

## 2. The modules

```
ItemMerge <- ItemMergeProofs         one replicated item
HlcClock                             the clock of every device
Forks                                two secrets under one id
Edits                                the user's edits of an open vault
Otp                                  codes and their URIs
   ImportFormats <- Importers        ... foreign exports
   <- ContentsProofs                 ... all of these but ItemMerge
ServerStore                          the server's table: operators and state
   ChangeFeed <- ChangeFeedProofs    ... with arbitrary clients
   Sync <- SyncProofs                ... with the sync engine of every device
      Replication                    what Sync implements: devices, items, writes
Membership <- MembershipProofs       roster, enrollment, revocation
Facade <- FacadeProofs               the actor that owns vault and engine
Auth, ServerTime, Requests           what stands before the item store
   <- ServerProofs                   ... the three of them
FiniteFacts                          lemmas about finite sets the proofs share
MCSync, MCMaintenance                instances for TLC: of Sync,
MCMembership, MCFacade               ... of Membership and Facade,
MCContents (with MCFiles)            ... of what is in a vault,
MCServer                             ... of the server's parts
```

`MCContents` and `MCServer` each put several modules side by side that share no
state. A behaviour picks one part at the start and leaves the others at rest, so
the states add up and do not multiply. `MCMaintenance` explores `Sync` in four
parts in the same way, and adds the history of the sweep (`outdated`, `reused`).

### HlcClock

`last[d]` is `HlcClock.last`, `stored[d]` the stamps the rows of the vault file
carry. `CommitWrite` is `Vault::tick` followed by a commit (any stamps the row
held may be replaced), `FailWrite` the same when the transaction fails after
the tick, `MergeStamp` a merged row, `PurgeStamps` `purge_tombstones`.
`Reopen` ends the process at any moment and starts loading; `LoadStamp` is one
turn of the loop in `Vault::load`. The host clock is not state: each tick reads
any value the device's clock may give, so it may go back, jump, or lie outside
the window that `tick` clamps it into. `uses` and `purgers` are history.

### ServerStore and ChangeFeed

Every store operation runs in one transaction under a mutex, so each is one
action with its outcomes as separate actions: `PutApplied`, `PutConflict`,
`PutRefused`, `DeleteApplied`, `DeleteRepeated`, `DeleteMissing`,
`DeleteConflict`, `Sweep`. A row that does not exist has version 0, the code's
own convention. `ChangeFeed` adds clients that do what SPEC section 6.1 permits
anyone: follow `next_seq` page by page and write under the last version told.
A reply may be lost. `told` is what a client last heard of each item, `swept`
is history. (`FeedClient`, `FeedSpec` and the like carry the name of their module
because `MCServer` extends several.)

### Sync

The engine of every device against `ServerStore`, reached through `INSTANCE`.
`vault[d][i]` is the envelope of the row, `state[d]` the running `SyncState`,
`saved[d]` the persisted one, `task[d]` how far `sync_once` has come. The
outbound queue is derived from the two, as in `pending`. An item's value is the
set of writes merged into it; union is the join (what `ItemMerge` shows of the
real types). `Seal` makes an envelope nobody holds, because sealing the same
value twice gives different bytes; names of envelopes nobody refers to are
taken again, which keeps the model finite.

A request and the handling of its reply form one step. No other device can
observe this one between the two, and everything that can come between them on
this device is a step of its own: the request fails (`RequestFails`), the reply
is lost after the server acted (`ReplyLost`), the merge fails after the conflict
was recorded (in `PushConflict`), the state cannot be saved (`SaveAnd`), the
process ends (`Restart`). Dropping the future, which the facade does when a
lock preempts a sync, is one of these. Local operations need an idle engine,
because the facade runs one command at a time. `Operations` and `Faults` select
what an instance may do, so that a run asks one question.

### Replication

What the engine promises, without versions, cursors, envelopes, queues or
failures: every device holds a set of writes per item and the server relays one
set. A device adds what is relayed to what it has (`Receive`); it replaces what
is relayed only by something that includes it (`Publish`); it forgets an item
only under a tombstone that wins (`Forget`); and the server stops relaying an
item only when some device has had all of it and forgotten it (`Reclaim`). The
mapping is in `Sync` (`Abstract`): `held` is the values of the vaults, `relayed`
the values in the server's rows, `collected` the history of collections.
`Replicates` says that every step of `Sync`, the faults included, is one of
these or changes none of the three: lost replies, repeated requests, failed
saves, restarts, re-seals and resets are invisible. It ends where a version that
was swept is met again (finding 4). A page is one `Receive` of several items
because `apply_page` merges it in one transaction.

### ItemMerge

One item on every device. A reading is a number in the order of `Hlc`, with an
`Owner`; how readings are issued is `HlcClock`'s subject, and `Ticks` uses what
is shown there (a tick is past everything the device issued or observed; no
purge and no restart happens here). Registers, OR-set entries, counters and the
tombstone are merged field by field as in `Item::merge`; each vault operation
that writes them is an action. `sealed` holds every version ever made, and
`AbsorbVersion` may merge any of them at any time: late, again, out of order. `seen`,
`heard` and `used` are history.

### Forks

`item_set[d]` is the `ItemSet` of a device, `copies` every row ever sealed.
`Absorb` is the loop of `absorb` with its bound: the smaller secret keeps the
id, the other moves to `ForkId`, where it may meet another. `RepairSecret` is
how two secrets come under one id. `EditFork` and `PurgeItem` change and remove
copies meanwhile. `credited` is history: which writes were merged into a
credential.

### Edits

`entries` are the items, with a label reduced to a name and the form it is
written in (form 0 is what `fold` gives). `Updated` is the whole of `do_update`:
the fields in one write, then one write for each element of the sets that
changes, in the order of the code, stopping at the first error or at the write
the storage loses. `lastUpdate` keeps what an update found and was asked for.

### Membership

One module for the roster, the relay and revocation, because each is about the
same row of the feed. A device works under the roster in `trusted[d]`; `Pull`
reads a page that stops at a roster, `Adopt` is the host taking the roster it
was offered, `Revoke` the whole of `do_revoke_device` with its rotation and
reopening, which may fail (`poisoned`). `Begin`, `Fetch`, `Scan`, `Approve`,
`Deliver`, `Join` and `Expire` are the enrollment, over a relay that gives each
half out once. `heeded`, `lost` and `ever` are history. An envelope records who
signed it: signatures are ideal.

### Facade

`channel` and `deferred` are the two queues of `run`, `task` what the loop
awaits. A synchronous command is one step. A sync is polled beside the channel
(`Selects`), and is answered, deferred, preempted or shut down around; a
revocation or an approval is awaited inline. The host clock moves in any
direction.

### Auth

The server's handlers are split where the code makes separate store calls
(`TakeChallenge`, `Lookup`, `Admit`, `Consume`, `Issue`), because other requests
run between them. `session` and `flow` are the client's session and where its
`send` stands. `Send` is the look-up of the access token; a request to admit a
device goes on to `Serve`, its second transaction. Requests and replies are lost,
requests are delivered twice, and the future is dropped. `TurnedAway` is a
handler that ends half way: no registration token, no room for another vault, or
a 429 after the refresh token was consumed. `hit` is history: the request met one
of these or a tick of the clock. A device has one key, so `KeyMismatch` does not
arise. `late` holds the tokens that were being issued when their family was
revoked.

### ServerTime

Two clocks and the signed answers in flight. `MeasureTime` is `measure_drift`
with the checks of `verify_time` and `accept`; `RestartServer` is a restart with
a key of either origin and a clock that may have been set back.

### Requests

`Observe` is the middleware: the length of the body and the bucket of the
address. `Handle` is the extractor and the checks of each route before the
store. Tokens are counted in sixtieths of a request, so that a refill is exact.
`StartRun` and `Attempt` are the engine's `run` with its backoff, whose requests
are charged to the bucket of its vault; no attempts are one (`Attempts`).
`forget_session` shows as an attempt that authenticates again. `loose` holds the
keys whose bucket was shed before it was full.

### Otp, ImportFormats, Importers

A URI is its parts, a secret a short sequence of bytes with the encoding it is
written in; percent- and base32-coding keep which bytes they can carry, and every
text its length, so that the limit on a URI decides what can be read
(`WrittenLen`, `UriFits`). `Scan`, `Build`, setters, and export are the actions of
`Otp`. In `ImportFormats` there is one operator per format for a row; `Importers` detects the format, opens a
sealed file, and reads it row by row with `seen`, `outcomes` and `batch_parts`
as in `collect.rs`, up to the limit of rows, which some readers refuse to pass
and others stop at. `MCFiles` holds the files: at least one for every format.

## 3. What is checked

| Run | Module | Shows | Time, two cores |
|---|---|---|---|
| `sync_faults` | MCSync | two items, lost requests and replies, failed merges and restarts: what was confirmed stays, no cursor passes a row that was not merged, the engine implements `Replication`, and devices that conflict and re-seal each other's values settle | 50 s |
| `sync_maintenance` | MCMaintenance | collection, sweep, reset and rotation with refused requests and lost replies, and failed saves and restarts beside writes: no cursor passes a row that was not merged, and no confirmed write is lost and no step leaves `Replication` until the server acts on a version of a row that was swept | 170 s |
| `sync_swept` | MCSync | *violation*, finding 4 | 10 s |
| `sync_delete_refused` | MCSync | *violation*, finding 1 | 5 s |
| `membership` | MCMembership | a page that stops at a roster loses no row written under it; a roster goes before its grant; concurrent roster changes do not undo each other while hosts adopt what they are offered; a revocation opens the vault again | 90 s |
| `roster_lost` | MCMembership | *violation*, finding 2 | 2 s |
| `roster_overtaken` | MCMembership | *violation*, finding 3 | 15 s |
| `facade` | MCFacade | commands are answered, in order, and only by a vault that was opened; dispatched commands and polls honour the deadline (`ExtendedInTime`, `PollSeesDeadline`); a lock is answered although a sync never ends | 120 s |
| `facade_deadline` | MCFacade | *violation*, finding 5 | 5 s |
| `contents` | MCContents | clock, item, forks, edits, one-time passwords, importers (below) | 100 s |
| `rows_cut` | MCContents | *violation*, finding 6 | 10 s |
| `server` | MCServer | feed, tokens, signed time, requests (below) | 130 s |

A property that a run checks may be the conjunction of smaller ones, each a
definition of its own with its comment; the parts are named in brackets below
where the conjunction has another name.

`contents`, part by part:

- *clock*: only a device that has purged can issue a reading twice, and the next
  stamp beats everything stored.
- *item*: the copy depends on what was merged and not on the order (`Converges`);
  no clock collision; the delete rule; the tag rule; every use is counted once.
- *forks*: no credential or write to one is lost on the way to its derived id,
  and the user is told of a fork (`ForksKeepCredentials`); `absorb` settles
  within its bound, and devices that merged the same copies hold the same set
  (`ForksSettle`: `MergeSettles`, `ForksConverge`).
- *edits*: sets fit their limits and two live items of one account can be told
  apart (`EntriesInOrder`: `NamesTellApart`); a failed update leaves nothing that
  was not there or asked for, a successful one leaves what was asked
  (`UpdateDoesItsPart`).
- *one-time passwords*: a window covers its instant and the next follows without
  a gap, resynchronisation finds the first match in its window (`CodesAreRight`:
  `CodesCoverTime`, `ResyncFindsIt`); a URI that was parsed is written so that it
  can be parsed again, after a setter if it still fits, and gives the same codes,
  and what a URI overrides is warned of (`UrisKeepCodes`: `RoundTrip`,
  `ExportKeepsCodes`, `OverridesAreWarned`).
- *importers*: every row has its outcome in its place in the report, up to the
  limit where a file is cut, duplicates are held and not inserted, a
  batch of QR codes is reported whole or not (`EveryRowIsAccounted`:
  `RowsAccounted`, `DuplicatesAreHeld`, `BatchIsWhole`); a file is read as the
  format that wrote it, the right passphrase and no other opens it, what is
  assumed is warned of, and an export can be imported again where its URIs fit
  (`FilesAreReadAsWritten`: `ReadAsWritten`, `PassphraseDecides`,
  `NothingAssumedSilently`, `ExportReimports`).

`server`, part by part:

- *feed*: no page boundary loses a row (`FeedIsComplete`); a version names one
  content until its row is swept (`VersionNamesContent`); quotas hold.
- *tokens*: a lost reply or a dropped request never looks like reuse of a
  token, and an admitted device is served that meets no fault, no 429 and no tick
  of the clock; one refresh token of a family is
  live, a revoked family keeps no access token but one that was being issued,
  one challenge opens one session, one device founds a vault
  (`SessionsAreSound`: `OneLiveRefresh`, `RevokedHasNoAccess`,
  `OneFamilyPerChallenge`, `OneFounder`).
- *time*: a client is off by at most the time its answer took; accepted readings
  fall behind by at most the tolerance each; a configured key survives restarts
  (`TimeIsSound`: `OffsetWithinRoundTrip`, `RollbackBounded`,
  `PinOutlivesRestart`).
- *requests*: no key gets more than its burst and its rate unless its bucket was
  shed early by a key of a faster rate (`loose`), and a request reaches
  a vault only with its token and one precondition (`ServedWithinRate`:
  `WithinRate`, `ServedRightly`).
- *retries*: waiting as long as told is enough, retries are paced and end
  (`RetriesSucceed`: `RetryAfterSuffices`, `RetriesArePaced`).

Bounds. Two devices are enough for most races here, because the server
serialises requests and a third device mostly repeats what the second does to the
first (in `Sync` it would add the form of finding 4 that needs no lost reply, see
the observations); `membership` has three, because a revoked or enrolling device is a third
party to a change between two (`roster_overtaken` has four: two enroll one after
the other). Each run names the rest in its `.cfg`:

- *feed* (in `server`): three items and two slots, envelopes of two sizes and three
  bytes (both quotas bind), pages of one row (every row is a boundary), four
  sequence numbers (write, reclaim, sweep, write again). The three properties are
  proved for every number of each.
- `Sync`: one item where the question is about the life of a row, two where it
  is about cursors and pages; three writes (create, and an edit or a delete on
  each side), or a create and a delete where rotation and reset multiply the
  states and each re-seal is itself a write the server must order (and two where
  saves fail, as the saved states multiply); one retry instead of eight, so that
  `ConflictLoop` happens; `MaxSeq` bounds the writes the server accepts. In `sync_maintenance` four or five are enough for a row to
  be written, reclaimed, swept and made anew by a device that still has it, and
  for an old version to match it; three under rotation. `MaxSeals` is never
  reached.
- *item* (in `contents`): four readings dealt in turn to two devices, two values of
  a register, one tag; or one reading and counters up to two. The two are explored
  apart, because no field has both. All its properties are proved for any number.
- `contents`: a window of two milliseconds and a two-valued counter, so that the
  counter saturates, borrows from the next millisecond and exhausts the window;
  three secrets under one id, so that a fork meets a fork; sets of two elements
  and four commands, so that a set fills up and a name is freed and taken; times
  at the ends of the range and of a step; files of four rows against a limit of
  four, three key slots, two tags; URIs of up to eleven characters, so that a
  setter or a name can make one that does not fit.
- `server`: two clients, three tokens and two nonces, so that a family is
  rotated, expires and is opened again beside another (clients are alike, and the
  run uses that symmetry); three questions for the
  time and two restarts; buckets of one and two requests, a table of two buckets
  and three keys, so that it is full; three attempts.
- `facade`: `MCFacade.cfg` bounds the calls and the clock, with a timeout that
  passes within them.

`MaxSeq` ends a behaviour that would otherwise go on. Deadlock is checked except
in the runs whose parts have a natural end (all commands given, all files read).

Fairness. In the runs of `Sync` that check liveness, `StartSync` is weakly fair,
because the host asks for a sync again and again (`run` in the engine, the facade's command
otherwise). Each request is strongly fair: it may fail any number of times, but
a request that is made over and over is answered at last. Nothing is assumed of
local writes, purges, sweeps or failures. In `Facade` the executor polls a task
that can run (weak fairness of dispatching a command, of reading the channel
beside a sync, and of requests that are awaited inline, which the transports
bound); nothing is assumed of the end of a sync, except in
`EveryCallIsAnswered`, which says so.

Every property of a passing run has a mutant in `PROJECT.json`: a plausible bug
in a definition it depends on, under which TLC finds it violated.

### Findings

1. `sync_delete_refused`: the comment on `sync_once` says that after a DELETE is
   refused "the pull that follows brings the newer value in". The refusal ends
   the sync, so no pull follows, and the next sync sends the same version.
2. `roster_lost`: `enroll.rs` orders an approval so that there is no "device that
   appears to work and silently does not replicate". A device that is offered a
   roster records its version without adopting it, and no facade command adopts
   one, so its own next roster change drops the device that was just listed.
3. `roster_overtaken`: the comment in `pull` says that a page stops at a roster
   because rows after it "may be signed by a device only the *new* roster knows
   about", and going on would "advance the cursor past them for good". The server
   keeps one roster row, whose `seq` moves with each version. When two rosters
   are published while a device is away, the rows written between them lie before
   the one that is left: they are judged under the roster before both, rejected,
   and passed by the cursor, although the host adopts what it is offered and
   syncs again. The attempt to prove that nothing is skipped showed this;
   `NothingSkippedSinceRoster` is what holds and is proved.
4. `sync_swept`: `engine.rs` says "A write is never lost", `store/mod.rs` that a
   version is "monotonic and never reset", `items.rs` that this "is what stops a
   stale `If-Match` from ever winning", and the comment on the sweep that an old
   version "will conflict with 'absent' rather than silently overwrite". A row
   made anew after its sweep starts at version 1. The reply to the PUT that made
   the item is lost; another device pulls it, deletes and purges it, and the reply
   to its DELETE with `If-Match` 1 is lost; the row is swept; the first device
   sends the item again, edited meanwhile, creates it as version 1 and is
   confirmed; the DELETE is retried, matches, and drops it. `sync_maintenance` shows that nothing else loses a
   confirmed write there.
5. `facade_deadline`: docs/SPEC.md:1839 says "a sync can never extend the unlocked
   window past the deadline". While a sync runs, `LockStatus` is answered unlocked
   without a look at the deadline (`facade.rs:876`), and the end of the sync
   extends a deadline that has passed (`facade.rs:889`).
6. `rows_cut`: a test of the row limit says that "a silently truncated import of a
   credential file is indistinguishable from a complete one". The CSV scanner
   stops at the limit without an error, and so does Proton Pass inside an item
   with several codes.
7. In `contents`: `uri.rs:193` says that what `to_uri` writes "always parses with
   none" (no warning), and `round_trip.rs:9` that any batch of valid items
   re-imports to an identical model. Nothing keeps what is written within
   `MAX_URI_LEN`: importers take names of 4096 bytes, the issuer is written twice
   and percent-coded, and `set_secret` and `set_counter` do not look at the
   length. `RoundTrip` and `ExportReimports` state both sides: what fits is read
   back, what does not is refused as too long.
8. In `facade`: the module documentation (`facade.rs:14`) calls preemption "a
   follow-up" and says that a `Lock` during a sync "is processed after that sync
   returns". The code drops the sync and locks at once, as SPEC 11.4.2 asks and
   `LockPreemptsSync` checks; the documentation is out of date.

### Observations

Met while modelling; each is stated or excepted in the comment of the property
or action it belongs to.

- *Clock.* `HlcClock::resumed` promises that a restart cannot re-issue a reading,
  but `purge_tombstones` removes rows together with the stamps the clock is
  rebuilt from: `ReissuedOnlyAfterPurge` is what remains.
- *Engine.* `decode_conflict` refuses a 409 with version 0, which its comment
  says means "retry as a create": that write stays queued. `resolve_conflict`
  records the peer's version before it merges; if the merge fails and the item
  is purged before the next pull, the DELETE of the next sync matches and drops
  the unmerged write. So the instances that collect rows have no failed merges.
  Finding 4 has a form without lost replies: the first DELETE of a device that
  knew version 1 and was away past the sweep matches too, when a third device
  re-created the row after a reset. Whoever wrote the row sends it again once it
  pulls the reclaimed row, but until then the server has lost a confirmed write.
  `ConfirmedIsDurable` and `Replicates` are therefore proved for the instances
  that do not collect rows beside the sweep or failed merges (`VersionsStay`);
  `sync_faults` is one of them.
- *Membership.* After a revocation, a row last written by the revoked device and
  not pulled before is rejected, and the device's own write of it gets a 409 it
  cannot verify, at every sync (`engine.rs` says "a tampered row heals rather
  than sticking"). Another device that had rotated to the same epoch keeps its
  rows from being re-sealed, and revoking it then leaves the facade poisoned.
  `enroll_poll` takes a 404 for "not ready", so an expired enrollment polls for
  ever.
- *Facade.* A lock can overtake an unlock that was deferred before it.
- *Auth.* Tokens that were being issued when their family was revoked stay valid
  until they expire. A refresh that is rate limited after its token was consumed
  costs a new login (`TurnedAway`).
- *Forks.* Conflict notices are kept in memory: a lock loses one that was not
  seen. The comments at `limits.rs:86` and `merge.rs:199` say that a chain of
  forks longer than `MAX_MERGE_STEPS` needs a collision of 128-bit ids; as many
  repairs of secrets, each at the last of the ids derived so far, make one too
  (TLC finds it with three of each), and `absorb` gives up on it. So
  `ForksComeTogether` is proved for fewer repairs than steps; there are 64.
- *Edits.* `string_diff` compares origins as written with origins as stored:
  giving an item the origin `Example.COM` when it has `example.com` removes it.
  `restore_item` and `merge_duplicate` do not check the same-site rule, which
  `update` calls a rule "about the *state* of the vault"; `merge_duplicate` does
  not check the room in the sets either.
- *Requests.* `check` sheds buckets by the rate of the key that comes, so a vault's
  bucket can start again from full; the comment says it "fails towards *more*
  limiting". The client does not read `Retry-After`. `Jitter::Full` has no floor:
  a retry may follow at once, and `RetriesArePaced` asks for none of it.
- *Time.* `accept` compares with the previous reading, so repeated small steps
  back add up.
- *Importers.* `outcome.rs` calls it "the crate's central safety property" that one
  bad line costs one row; a migration export fails as a whole on a line that
  cannot be decoded (`migration.rs:113`). Further codes of a Proton Pass item
  beyond `max_tags` extra fields are dropped without a word.
- *Otp.* An mOTP PIN that is not printable is exported by `to_uri` and refused by
  `parse`; `RoundTrip` and `ExportReimports` are about printable ones.

## 4. What is proved

TLAPS checks these for every value of the constants (any number of devices,
clients, items, tags; any window, page limit, quota).

| Theorem | States |
|---|---|
| `ContentsProofs!Invariance`, `TypeCorrect` | the inductive invariant of the clock; readings stay in the window |
| `ContentsProofs!Unique` | `ReissuedOnlyAfterPurge` |
| `ContentsProofs!NextWins` | `NextStampWins` |
| `ContentsProofs!EntriesStayInOrder`, `UpdatesDoTheirPart` | `EntriesInOrder`, `UpdateDoesItsPart` |
| `ContentsProofs!CodesStayRight`, `UrisStayRight` | `CodesAreRight`, `UrisKeepCodes` |
| `ContentsProofs!ForksNeverDrop` | `ForksKeepCredentials` |
| `ContentsProofs!ForksComeTogether` | `ForksSettle`, for `MaxRepairs < MaxMergeSteps` |
| `ContentsProofs!RowsStayAccounted` | `EveryRowIsAccounted` |
| `ChangeFeedProofs!TypeCorrect` | types of rows, cursors, replies |
| `ChangeFeedProofs!FeedLosesNothing` | `FeedIsComplete` |
| `ChangeFeedProofs!VersionsIdentify` | `VersionNamesContent` |
| `ChangeFeedProofs!QuotaHolds` | `WithinLimits` |
| `SyncProofs!CursorIsCovered` | `CursorCoversMerged` |
| `SyncProofs!ConfirmedStaysDurable` | `ConfirmedIsDurable`, under `VersionsStay` |
| `SyncProofs!EngineReplicates` | `Replicates`: `Sync` implements `Replication`, under `VersionsStay` |
| `MembershipProofs!NothingIsSkipped` | `NothingSkippedSinceRoster` |
| `MembershipProofs!MembersStayListed` | `ListedWhileHeeded` |
| `MembershipProofs!RevocationsReopen` | `ReopensUnlessEpochMet` |
| `FacadeProofs!AnswersComeInOrder` | `VaultCommandsInOrder` |
| `FacadeProofs!NoneIsServedLocked`, `TheDeadlineIsHonoured` | the action properties `ServedOnlyWhenOpened`, `DispatchHonoursDeadline` |
| `ServerProofs!SessionsStaySound`, `ReuseNeedsADuplicate`, `MembersAreServed` | `SessionsAreSound`, `NoReuseWithoutDuplicate`, `MemberIsServed` |
| `ServerProofs!TimeStaysSound` | `TimeIsSound` |
| `ServerProofs!EveryoneServedWithinRate`, `WaitingPaysOff` | `ServedWithinRate`, `RetriesSucceed` |
| `ItemMergeProofs!Invariance`, `TypeCorrect` | the inductive invariant; types |
| `ItemMergeProofs!Convergence` | `Converges` |
| `ItemMergeProofs!NoCollision` | `NoClockCollision` |
| `ItemMergeProofs!DeleteRule`, `TagRule`, `UsesCounted` | `DeleteHoldsUntilEdit`, `TagsFollowWrites`, `UseIsCountedOnce` |

*Clock.* `NextStampWins` follows from `ClockCoversStore`: what a device stored
is below its clock or still to be loaded. Uniqueness is not inductive with that
alone, since after a restart the clock knows only what is stored: `Issued` adds
that a device which never purged still stores a stamp at or past each one it
issued. Replacing a stamp keeps this because the write that replaces it is
later; merging keeps it because a stamp is beaten only by a later one. A purge
is the one step that breaks it, and only for its own device.

*Feed.* `FeedIsComplete` needs `SeqAllocated`: cursors and rows are below
`next_seq`, so a write lands past every cursor. The page lemma says that a page
holds every row between its two cursors. `VersionNamesContent` needs
`ToldNotAhead`: nobody holds a version the row has not reached, so the version
of a new write is new to everyone; the sweep is where this ends. `WithinLimits`
is about a sum over the rows. The bytes of the rows are the pairs of a row and a
place in its envelope, so the sum is the size of a finite set, and a put replaces
the pairs of one row by others; `QuotaInv` adds that a row that is gone has none.

*Induction.* The library states induction for an operator, which the provers here
cannot instantiate. `StepByStep` in `FiniteFacts` states it for a set: one that
holds 0, and with each number below n the next, holds 0 to n; a gap would have a
least member. What loops over data is written as a recursive function, which is
shown to exist and to satisfy its equation, and then to have its property, by two
uses of that lemma. It carries the loops of `absorb`, `do_update`, the query of a
URI, the rows of an import and the delays of a backoff.

*Edits.* `EditInv` says of each item that its labels are usable and its sets
within their limit (but for items that took a duplicate in), and that live names
of a site differ. An update writes its fields and then one element after the
other: after k of these writes a set holds what it did with k changes, in the
order of `string_diff` (`DiffIs`, `StepIsAsked`, `WrittenIsWanted`), wherever the
storage fails. So a part of the writes leaves nothing that was neither there nor
asked for, and all of them leave what was asked.

*Codes.* `OtpInv`: a configuration has the form its kind fixes (`ConfigOk`, what
`WithKind` leaves alone), texts can be read back, and what was scanned is still
what the parser makes of it. Windows tile time by the division with remainder.
For the way through a URI, `KnownAreListed` says which parameters `to_uri` writes,
each once and with its value; `ParamsAreFound` that the parser finds these and
no others in front of any tail of vendor parameters; `TailIsVendor` that the tail
is read as it was; `WrittenIsRead` puts them together, for what is within the
limit. That a URI that was parsed is written within it is the check the parser
makes of its own canonical form (`CanonicalTooLong`).

*Forks.* `Credits` are the pairs of a secret and a write made under it. They are
followed through `absorb` one turn of its loop at a time, so that a write stays
with its secret (`TurnKeepsCredits`) and a derived id is told (`TurnTells`). Devices come to agree because what `absorb` makes of an item set
and a copy depends only on the credentials in both: an id goes to the smallest
secret that claims it and the others claim the derived one, and the sets reached
are the least that are closed under this (`ClosuresAgree`, `StandsForAll`,
`MergesConverge`). That no merge gives up needs `Earned`: an id derived n times
took n repairs.

*Imports.* Every reader gives, for any row, an item with a checked secret, or a
skip or an error its type lists (`ReadIsList`, from one lemma per format). What
the collector holds is in order (`Tidy`): an imported row names its item by the
number of imported rows up to it, no two items are the same where duplicates are
skipped, and one that is kept is pointed out. One offered result keeps this
(`OfferTidy`), so any number does (`AllOffered`). That no row gets lost is a count:
the outcomes are as many as the pairs of a row read and a place among its results
(`CellsGrow`), until the limit of rows is met; and the outcome of each stands at
the place that the count of those before it gives (`InTheirPlaces`). Where a file
is cut short, what is there is the first of them. For a batch, `PartsNoted` says which
lines the parts come from, and `PartsComplete` that none is missing exactly when
each index is there.

*Item.* The invariant says that a copy, held or sealed, is what its history
makes of it (`Represents`): every field carries the greatest reading of the
writes to it, and the value that came with that reading. Two copies with one
history then agree field by field, which is `Converges`. It needs
`ReadingsAreWrites` (one reading, one write), which needs that an owner's clock
is past its readings, which in turn needs that absorbing a version moves the
clock past every reading in it.

*Sync.* Two invariants. `CursorInv` says that a row at or below a cursor, running
or saved, is part of what the device has had (`Covers`). It needs that the author
of a row has had it, because a push advances the cursor past its own row, and
that rows and cursors are below `next_seq`. It holds under every fault, since the
vault commits a page before the cursor moves and the cursor moves before it is
saved. `EngineInv` adds what the engine's two states may claim of the server
(`StateIsSound`): no version is ahead of the row; who knows the current version
has merged the row, or merged and collected it, or is a device whose merge failed
after `resolve_conflict` wrote the version down, in which case the row is still
past its cursor; and what was confirmed is in the row or collected. The step that
matters is a write under the version known: it overwrites what was merged, so the
row only grows, and everything confirmed before stays confirmed. A DELETE under
the version known removes what was merged and collected. A sweep, or a failed
merge beside a collection, is where this argument ends, which is `VersionsStay`.
The refinement follows from `EngineInv` step by step (`RefinementStep`).

*Membership.* `MembershipInv`. Its centre is `VersionMeansRoster`: while replies
arrive and the host heeds what it is offered, a device that knows the newest
version works under that roster, or has it offered or to deliver. So what it
publishes next is the newest roster with one change, and takes nobody off.
`RosterIsMet` says the same of cursors: one at or past the newest roster has met
it, so a page never runs past a roster that is not adopted, and a new roster
lands past every cursor. The statement without "newest" is false (finding 3).
`ReopensUnlessEpochMet` needs `EpochsAreReached`: an envelope that already has
the epoch of a rotation was sealed by another device that had reached it.

*Facade.* `FacadeInv`: the numbers of the calls in each queue rise, and those in
`deferred` are below those in `channel` (`QueueRises`); every call that is not
answered is in a queue or awaited, once (`CallsWait`); so an answer leaves none
of the earlier ones behind. `OpenedIsTold` ties what callers were told to the
lifecycle, and gives the two action properties.

*Server.* `AuthInv` counts tokens through their stations: a refresh token is with
the client, in a request, in a handler or consumed, and in one place only
(`TokensHeldOnce`, `RefreshOnce`), so only a duplicated request presents one
twice; a nonce is in one handler or family (`NonceOnce`); a client that waits has
its own request or reply on the way, or was hit (`ClientsWait`, `Unhit`), so that
it is not refused. `TimeInv` relates the three clocks to the reply in flight.
`LimiterInv` is the account of a bucket: what was admitted and what is left are
within the burst and the refill up to `updated`, for every key that was not shed
(`WithinBudget`), and what a client was told is enough (`PromisesKept`). For the
pace of retries, the delay before the cap is a recursive function of the attempt
that doubles, so it never falls, and the cap cuts it once and for all.

Each inductive invariant was checked by TLC on the instance of its run before it
was proved (`MembershipInv` also by simulation with four devices and two items).

The assumptions are the named `ASSUME`s of the modules: constants are numbers or
sets of numbers where they are compared; items and devices are finite sets;
limits are natural numbers; page limits, retention and the lifetimes of tokens
are positive (the server's configuration refuses a zero lifetime); the null
values are outside the sets they are added to. `MaxSeals` exceeds three times the
number of devices: a name is free for every new seal, because of one item each
device's row refers to one envelope, its two states to two, and the server to one
(`Seal`). What is given to `Edits` and `Otp` has the types of the code: lists are
lists, only a field that can be cleared is cleared, a parameter that is there has
a value (`InputAssumption`, `OtpAssumption`), and so has what a file holds: lists
are lists, a part of a batch has numbers, and what stops the reading is one of the
errors (`FilesAssumption`). There is a secret and there are finitely many
(`ForkAssumption`). TLC evaluates them in every run.

Only model-checked:

- liveness (`EventuallyConverged`, `LockPreemptsSync`, `EveryCallIsAnswered`),
  which is out of the prover's reach;
- `Sync` where rows are collected beside the sweep (`sync_maintenance`), up to the
  first use of a version from before it; that there is such a use is finding 4;
- of the importers, `FilesAreReadAsWritten`. It is about what the files of
  `MCFiles` hold (which vendor wrote a file, what it states, which passphrase
  closed it), which no assumption could say for every file without saying what is
  to be shown.

## 5. What is not modelled

- Cryptography is ideal: an envelope is opaque, a fresh seal is new, and only a
  holder of the key opens one; a signature is the record of who made it. The
  digits of a code are a function of secret, counter and kind.
- Of `Sync`: `MAX_PAGES_PER_SYNC`, and the guard against the same answer twice in
  `push_one`, which an honest server never triggers. Groups are rows like items.
  Roster rows are in `Membership`, whose engine has no purge and no conflict
  beyond the ones a roster causes.
- Of `ItemMerge`: `created_at` (min-wins) and the fields of a group.
- Of the importers: the syntax of JSON, XML, CSV and protobuf, and the ciphers of
  sealed files. A file is the rows it holds and what detection sees of it.
- The bindings and the UI: adapters of the facade and its presentation.
- Wording, logging, HTTP framing.

## 6. Plan

What is left, in this order:

1. Uniqueness of stamps under monotone host clocks, with purges.
2. `Membership` and `Sync` composed, so that a rotation meets the collection of
   tombstones.
