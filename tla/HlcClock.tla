------------------------------ MODULE HlcClock ------------------------------
(***************************************************************************)
(* The hybrid logical clock of misty-vault (crates/misty-vault/src/hlc.rs) *)
(* as the devices of one vault use it: a stamp is issued for every local   *)
(* write, every stamp that arrives in a merged row is folded in, and a     *)
(* vault that is reopened rebuilds its clock from the rows it stored.      *)
(*                                                                         *)
(* The host clock is an input, not a variable: it may jump either way      *)
(* between two writes and may lie outside the window the code accepts.     *)
(***************************************************************************)
EXTENDS Naturals

CONSTANTS
  Device,      \* device ids; numbers, because the id is the last tiebreak
  MinWall,     \* MIN_WALL_MS, first millisecond of the window
  MaxWall,     \* MAX_WALL_MS, first millisecond past the window
  MaxCounter,  \* u16::MAX, the largest counter within one millisecond
  Retention,   \* TOMBSTONE_RETENTION_MS
  HostWall(_)  \* the readings the host clock of a device may give

ASSUME ClockAssumption ==
  /\ Device \subseteq Nat
  /\ MinWall \in Nat /\ MaxWall \in Nat /\ MinWall < MaxWall
  /\ MaxCounter \in Nat
  /\ Retention \in Nat \ {0}
  /\ \A d \in Device : HostWall(d) \subseteq Nat

VARIABLES
  last,     \* last[d]: HlcClock.last of the running process of device d
  stored,   \* stored[d]: the stamps carried by the rows of d's vault file
  loading,  \* loading[d]: stamps Vault::load has read but not yet observed
  uses,     \* history: uses[s], the committed writes issued the stamp s, 2 for more
  purgers   \* history: the devices that have collected a tombstone

vars == <<last, stored, loading, uses, purgers>>

Hlc == [wall : MinWall .. MaxWall - 1, counter : 0 .. MaxCounter, device : Device]

\* Hlc::zero, where every clock starts.
Zero(d) == [wall |-> MinWall, counter |-> 0, device |-> d]

\* The pair (wall_ms, counter) that observe compares.
ReadingLess(a, b) ==
  \/ a.wall < b.wall
  \/ a.wall = b.wall /\ a.counter < b.counter

\* The derived Ord of Hlc: wall_ms, then counter, then device_id.
HlcLess(a, b) ==
  \/ ReadingLess(a, b)
  \/ a.wall = b.wall /\ a.counter = b.counter /\ a.device < b.device

\* u64::clamp into the window.
Clamp(w) ==
  IF w < MinWall THEN MinWall ELSE IF w >= MaxWall THEN MaxWall - 1 ELSE w

\* ClockExhausted: the top of the window with a saturated counter.
Exhausted(d, w) ==
  /\ Clamp(w) <= last[d].wall
  /\ last[d].counter = MaxCounter
  /\ last[d].wall + 1 >= MaxWall

\* The reading HlcClock::tick returns when it is not exhausted.
TickReading(d, w) ==
  IF Clamp(w) > last[d].wall
  THEN [wall |-> Clamp(w), counter |-> 0, device |-> d]
  ELSE IF last[d].counter < MaxCounter
       THEN [wall |-> last[d].wall, counter |-> last[d].counter + 1, device |-> d]
       ELSE [wall |-> last[d].wall + 1, counter |-> 0, device |-> d]

\* Mutant of Observed: only the wall clock is compared.
ObservedByWall(d, s) ==
  IF last[d].wall < s.wall
  THEN [wall |-> s.wall, counter |-> s.counter, device |-> d]
  ELSE last[d]

\* What HlcClock::observe leaves in last.
Observed(d, s) ==
  IF ReadingLess(last[d], s)
  THEN [wall |-> s.wall, counter |-> s.counter, device |-> d]
  ELSE last[d]

TypeOK ==
  /\ last \in [Device -> Hlc]
  /\ stored \in [Device -> SUBSET Hlc]
  /\ loading \in [Device -> SUBSET Hlc]
  /\ uses \in [Hlc -> 0 .. 2]
  /\ purgers \subseteq Device

Init ==
  /\ last = [d \in Device |-> Zero(d)]
  /\ stored = [d \in Device |-> {}]
  /\ loading = [d \in Device |-> {}]
  /\ uses = [s \in Hlc |-> 0]
  /\ purgers = {}

\* The vault is open: Vault::load has observed every row.
Open(d) == loading[d] = {}

(***************************************************************************)
(* A local write. The stamp is taken first; the row that carries it is     *)
(* committed, and registers the write replaces lose their older stamps.    *)
(***************************************************************************)
CommitWrite(d, w, replaced) ==
  LET s == TickReading(d, w) IN
  /\ Open(d)
  /\ ~Exhausted(d, w)
  /\ last' = [last EXCEPT ![d] = s]
  /\ stored' = [stored EXCEPT ![d] = (@ \ replaced) \cup {s}]
  /\ uses' = [uses EXCEPT ![s] = IF @ = 0 THEN 1 ELSE 2]
  /\ UNCHANGED <<loading, purgers>>

(***************************************************************************)
(* A local write whose transaction fails after the tick: the stamp is      *)
(* spent, and nothing carries it.                                          *)
(***************************************************************************)
FailWrite(d, w) ==
  /\ Open(d)
  /\ ~Exhausted(d, w)
  /\ last' = [last EXCEPT ![d] = TickReading(d, w)]
  /\ UNCHANGED <<stored, loading, uses, purgers>>

(***************************************************************************)
(* merge_remote of a row that carries s: the merged row is committed, the  *)
(* stamps it beats are gone from the store, and then s is observed.        *)
(***************************************************************************)
MergeStamp(d, e, s, beaten) ==
  /\ Open(d)
  /\ s \in stored[e]
  /\ \A r \in beaten : HlcLess(r, s)
  /\ stored' = [stored EXCEPT ![d] = (@ \ beaten) \cup {s}]
  /\ last' = [last EXCEPT ![d] = Observed(d, s)]
  /\ UNCHANGED <<loading, uses, purgers>>

(***************************************************************************)
(* purge_tombstones: rows go whose tombstone is old by the host clock, and *)
(* a tombstone is the latest stamp of the row it deletes.                  *)
(***************************************************************************)
PurgeStamps(d, w, S) ==
  /\ Open(d)
  /\ S # {}
  /\ \A s \in S : s.wall + Retention <= w
  /\ stored' = [stored EXCEPT ![d] = @ \ S]
  /\ purgers' = purgers \cup {d}
  /\ UNCHANGED <<last, loading, uses>>

\* Mutant of Reopen: the clock starts over and no row is loaded into it.
ReopenForgets(d) ==
  /\ last' = [last EXCEPT ![d] = Zero(d)]
  /\ loading' = [loading EXCEPT ![d] = {}]
  /\ UNCHANGED <<stored, uses, purgers>>

(***************************************************************************)
(* The process ends, at any point, and the vault file is opened again:     *)
(* the clock restarts at Zero and the stored stamps are yet to be folded   *)
(* in.                                                                     *)
(***************************************************************************)
Reopen(d) ==
  /\ last' = [last EXCEPT ![d] = Zero(d)]
  /\ loading' = [loading EXCEPT ![d] = stored[d]]
  /\ UNCHANGED <<stored, uses, purgers>>

\* One step of the loop of Vault::load: one stamp of one row is observed.
LoadStamp(d, s) ==
  /\ s \in loading[d]
  /\ last' = [last EXCEPT ![d] = Observed(d, s)]
  /\ loading' = [loading EXCEPT ![d] = @ \ {s}]
  /\ UNCHANGED <<stored, uses, purgers>>

Next ==
  \E d \in Device :
    \/ \E w \in HostWall(d), replaced \in SUBSET stored[d] : CommitWrite(d, w, replaced)
    \/ \E w \in HostWall(d) : FailWrite(d, w)
    \/ \E e \in Device \ {d} : \E s \in stored[e] :
         \E beaten \in SUBSET stored[d] : MergeStamp(d, e, s, beaten)
    \/ \E w \in HostWall(d), S \in SUBSET stored[d] : PurgeStamps(d, w, S)
    \/ Reopen(d)
    \/ \E s \in loading[d] : LoadStamp(d, s)

Spec == Init /\ [][Next]_vars

-----------------------------------------------------------------------------
(***************************************************************************)
(* HlcClock promises that a restart cannot re-issue a reading that already *)
(* ordered a write. What the code keeps of that, whatever the host clock   *)
(* does and however often the process restarts or a write fails: a device  *)
(* that has collected no tombstone never issues a reading to two writes.   *)
(* purge_tombstones is the only way to take out of the vault file what     *)
(* Vault::load would fold into the clock. Two writes with one stamp are a  *)
(* clock collision to Lww::merge, which no retry can resolve.              *)
(***************************************************************************)
ReissuedOnlyAfterPurge == \A s \in Hlc : s.device \notin purgers => uses[s] <= 1

(***************************************************************************)
(* A write made on an open vault sorts after everything the vault holds:   *)
(* the reading any tick would return exceeds every stored stamp, the ones  *)
(* merged from peers with a faster clock included.                         *)
(***************************************************************************)
NextStampWins ==
  \A d \in Device : Open(d) =>
    \A w \in HostWall(d), s \in stored[d] :
      ~Exhausted(d, w) => HlcLess(s, TickReading(d, w))

(***************************************************************************)
(* The inductive invariant: what a device stored is covered by its clock   *)
(* or is still to be loaded.                                               *)
(***************************************************************************)
ClockCoversStore ==
  \A d \in Device : \A s \in stored[d] \ loading[d] : ~ReadingLess(last[d], s)

OwnClock == \A d \in Device : last[d].device = d

LoadsOnlyStored == \A d \in Device : loading[d] \subseteq stored[d]

IInv == TypeOK /\ OwnClock /\ LoadsOnlyStored /\ ClockCoversStore

\* And, as long as a device purges nothing: what it issued is covered by
\* what it stored, so that a reloaded clock is past it.
StoreCoversIssued ==
  \A s \in Hlc : (uses[s] > 0 /\ s.device \notin purgers) =>
    \E r \in stored[s.device] : ~ReadingLess(r, s)

Issued == StoreCoversIssued /\ ReissuedOnlyAfterPurge
=============================================================================
