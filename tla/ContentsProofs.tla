--------------------------- MODULE ContentsProofs ---------------------------
(***************************************************************************)
(* What a vault holds, for every value of the constants: the clock that    *)
(* stamps a write, edits of items, one-time passwords and their URIs,      *)
(* forks of an item, and imports.                                          *)
(*                                                                         *)
(* Clock: the next stamp of an open vault beats everything the vault       *)
(* holds, and no stamp is issued twice as long as no tombstone is purged.  *)
(***************************************************************************)
EXTENDS HlcClock, Forks, Edits, Importers, FiniteFacts, SequenceTheorems, TLAPS

\* The order of readings, on which both directions of the argument rest.
LEMMA ReadingTotal ==
  ASSUME NEW a \in Hlc, NEW b \in Hlc, NEW c \in Hlc
  PROVE  /\ ~ReadingLess(a, a)
         /\ ~ReadingLess(a, b) /\ ~ReadingLess(b, c) => ~ReadingLess(a, c)
         /\ HlcLess(a, b) => ~ReadingLess(b, a)
         /\ ReadingLess(a, b) => ~ReadingLess(b, a)
  BY ClockAssumption DEF Hlc, ReadingLess, HlcLess

\* Clamp always lands in the window.
LEMMA ClampInWindow ==
  ASSUME NEW w \in Nat
  PROVE  Clamp(w) \in MinWall .. MaxWall - 1
  BY ClockAssumption DEF Clamp

LEMMA ZeroIsHlc ==
  ASSUME NEW d \in Device
  PROVE  Zero(d) \in Hlc
  BY ClockAssumption DEF Zero, Hlc

\* A tick that is not exhausted stays in the window and passes last[d].
LEMMA TickAdvances ==
  ASSUME TypeOK, NEW d \in Device, NEW w \in HostWall(d), ~Exhausted(d, w)
  PROVE  /\ TickReading(d, w) \in Hlc
         /\ TickReading(d, w).device = d
         /\ ReadingLess(last[d], TickReading(d, w))
<1>1. w \in Nat /\ last[d] \in Hlc
  BY ClockAssumption DEF TypeOK
<1>2. Clamp(w) \in MinWall .. MaxWall - 1
  BY <1>1, ClampInWindow
<1>3. CASE Clamp(w) > last[d].wall
  <2>1. TickReading(d, w) = [wall |-> Clamp(w), counter |-> 0, device |-> d]
    BY <1>3 DEF TickReading
  <2>. QED
    BY <1>1, <1>2, <1>3, <2>1, ClockAssumption DEF Hlc, ReadingLess
<1>4. CASE ~(Clamp(w) > last[d].wall) /\ last[d].counter < MaxCounter
  <2>1. TickReading(d, w)
          = [wall |-> last[d].wall, counter |-> last[d].counter + 1, device |-> d]
    BY <1>4 DEF TickReading
  <2>. QED
    BY <1>1, <1>4, <2>1, ClockAssumption DEF Hlc, ReadingLess
<1>5. CASE ~(Clamp(w) > last[d].wall) /\ ~(last[d].counter < MaxCounter)
  <2>1. TickReading(d, w)
          = [wall |-> last[d].wall + 1, counter |-> 0, device |-> d]
    BY <1>5 DEF TickReading
  <2>2. last[d].counter = MaxCounter /\ Clamp(w) <= last[d].wall
    BY <1>1, <1>2, <1>5, ClockAssumption DEF Hlc
  <2>3. last[d].wall + 1 < MaxWall
    BY <1>1, <2>2, ClockAssumption DEF Hlc, Exhausted
  <2>. QED
    BY <1>1, <2>1, <2>3, ClockAssumption DEF Hlc, ReadingLess
<1>. QED
  BY <1>3, <1>4, <1>5

\* observe never moves a clock back and covers what it was shown.
LEMMA ObserveCovers ==
  ASSUME TypeOK, OwnClock, NEW d \in Device, NEW s \in Hlc
  PROVE  /\ Observed(d, s) \in Hlc
         /\ Observed(d, s).device = d
         /\ ~ReadingLess(Observed(d, s), last[d])
         /\ ~ReadingLess(Observed(d, s), s)
<1>1. last[d] \in Hlc /\ last[d].device = d
  BY DEF TypeOK, OwnClock
<1>2. CASE ReadingLess(last[d], s)
  <2>1. Observed(d, s) = [wall |-> s.wall, counter |-> s.counter, device |-> d]
    BY <1>2 DEF Observed
  <2>. QED
    BY <1>1, <1>2, <2>1, ClockAssumption DEF Hlc, ReadingLess
<1>3. CASE ~ReadingLess(last[d], s)
  <2>1. Observed(d, s) = last[d]
    BY <1>3 DEF Observed
  <2>. QED
    BY <1>1, <1>3, <2>1, ReadingTotal
<1>. QED
  BY <1>2, <1>3

\* Nothing is issued, stored or loading at first.
LEMMA InitIInv == Init => IInv /\ Issued
<1> SUFFICES ASSUME Init PROVE IInv /\ Issued
  OBVIOUS
<1>1. TypeOK
  BY ZeroIsHlc DEF Init, TypeOK
<1>2. OwnClock
  BY DEF Init, OwnClock, Zero
<1>. QED
  BY <1>1, <1>2 DEF Init, IInv, Issued, LoadsOnlyStored, StoreCoversIssued,
     ClockCoversStore, ReissuedOnlyAfterPurge

\* A committed write: its stamp is new, because it passes the clock, the clock
\* covers the store, and the store covers what the device ever issued.
LEMMA CommitWriteIInv ==
  ASSUME IInv, NEW d \in Device, NEW w \in HostWall(d),
         NEW replaced \in SUBSET stored[d], CommitWrite(d, w, replaced)
  PROVE  IInv' /\ (Issued => Issued')
<1> DEFINE s == TickReading(d, w)
<1>0. TypeOK /\ OwnClock /\ LoadsOnlyStored /\ ClockCoversStore
  BY DEF IInv
<1>1. s \in Hlc /\ s.device = d /\ ReadingLess(last[d], s)
  BY <1>0, TickAdvances DEF CommitWrite
<1>2. \A r \in stored[d] : r \in Hlc /\ ~ReadingLess(last[d], r)
  BY <1>0 DEF CommitWrite, Open, ClockCoversStore, TypeOK
<1>3. \A r \in stored[d] : ReadingLess(r, s)
  BY <1>0, <1>1, <1>2, ClockAssumption DEF TypeOK, Hlc, ReadingLess
<1>4. ASSUME Issued, d \notin purgers PROVE uses[s] = 0
  <2>1. SUFFICES ASSUME uses[s] > 0 PROVE FALSE
    BY <1>0, <1>1 DEF TypeOK
  <2>2. PICK r \in stored[d] : ~ReadingLess(r, s)
    BY <1>1, <1>4, <2>1 DEF Issued, StoreCoversIssued
  <2>. QED
    BY <1>3, <2>2
<1>5. TypeOK'
  BY <1>0, <1>1 DEF CommitWrite, TypeOK
<1>6. OwnClock' /\ LoadsOnlyStored'
  <2>1. loading[d] = {}
    BY DEF CommitWrite, Open
  <2>. QED
    BY <1>0, <1>1, <2>1 DEF CommitWrite, OwnClock, LoadsOnlyStored, TypeOK
<1>7. ASSUME Issued PROVE ReissuedOnlyAfterPurge'
  <2>1. ASSUME NEW t \in Hlc, t.device \notin purgers PROVE uses'[t] <= 1
    <3>1. CASE t = s
      BY <1>0, <1>1, <1>4, <1>7, <2>1, <3>1 DEF CommitWrite, TypeOK
    <3>2. CASE t # s
      BY <1>0, <1>1, <1>7, <2>1, <3>2 DEF CommitWrite, TypeOK, Issued, ReissuedOnlyAfterPurge
    <3>. QED
      BY <3>1, <3>2
  <2>. QED
    BY <2>1 DEF CommitWrite, ReissuedOnlyAfterPurge
<1>8. ClockCoversStore'
  <2>1. ASSUME NEW e \in Device, NEW r \in stored'[e] \ loading'[e]
        PROVE  ~ReadingLess(last'[e], r)
    <3>1. CASE e # d
      BY <1>0, <2>1, <3>1 DEF CommitWrite, ClockCoversStore, TypeOK
    <3>2. CASE e = d
      <4>1. last'[d] = s /\ r \in stored[d] \cup {s}
        BY <1>0, <2>1, <3>2 DEF CommitWrite, TypeOK
      <4>2. r \in Hlc
        BY <1>1, <1>2, <4>1
      <4>. QED
        BY <1>1, <1>3, <3>2, <4>1, <4>2, ReadingTotal
    <3>. QED
      BY <3>1, <3>2
  <2>. QED
    BY <2>1 DEF ClockCoversStore
<1>9. ASSUME Issued PROVE StoreCoversIssued'
  <2>1. ASSUME NEW t \in Hlc, uses'[t] > 0, t.device \notin purgers
        PROVE  \E r \in stored'[t.device] : ~ReadingLess(r, t)
    <3>1. CASE t.device # d
      <4>1. t.device \in Device
        BY DEF Hlc
      <4>2. uses[t] > 0
        BY <1>0, <1>1, <2>1, <3>1 DEF CommitWrite, TypeOK
      <4>3. stored'[t.device] = stored[t.device]
        BY <1>0, <3>1, <4>1 DEF CommitWrite, TypeOK
      <4>. QED
        BY <1>9, <2>1, <4>2, <4>3 DEF Issued, StoreCoversIssued
    <3>2. CASE t.device = d
      <4>1. s \in stored'[d]
        BY <1>0 DEF CommitWrite, TypeOK
      <4>2. CASE t = s
        BY <1>1, <3>2, <4>1, <4>2, ReadingTotal
      <4>3. CASE t # s
        <5>1. uses[t] > 0
          BY <1>0, <1>1, <2>1, <4>3 DEF CommitWrite, TypeOK
        <5>2. PICK r \in stored[d] : ~ReadingLess(r, t)
          BY <1>9, <2>1, <3>2, <5>1 DEF Issued, StoreCoversIssued
        <5>3. ~ReadingLess(s, t)
          BY <1>1, <1>2, <1>3, <5>2, ReadingTotal
        <5>. QED
          BY <3>2, <4>1, <5>3
      <4>. QED
        BY <4>2, <4>3
    <3>. QED
      BY <3>1, <3>2
  <2>. QED
    BY <2>1 DEF CommitWrite, StoreCoversIssued
<1>. QED
  BY <1>5, <1>6, <1>7, <1>8, <1>9 DEF IInv, Issued

\* A failed write moves the clock forward and nothing else.
LEMMA FailWriteIInv ==
  ASSUME IInv, NEW d \in Device, NEW w \in HostWall(d), FailWrite(d, w)
  PROVE  IInv' /\ (Issued => Issued')
<1>0. TypeOK /\ OwnClock /\ LoadsOnlyStored /\ ClockCoversStore
  BY DEF IInv
<1>1. /\ TickReading(d, w) \in Hlc
      /\ TickReading(d, w).device = d
      /\ ReadingLess(last[d], TickReading(d, w))
  BY <1>0, TickAdvances DEF FailWrite
<1>2. TypeOK' /\ OwnClock'
  BY <1>0, <1>1 DEF FailWrite, TypeOK, OwnClock
<1>3. ClockCoversStore'
  <2>1. ASSUME NEW e \in Device, NEW r \in stored[e] \ loading[e]
        PROVE  ~ReadingLess(last'[e], r)
    <3>1. r \in Hlc /\ last[e] \in Hlc /\ ~ReadingLess(last[e], r)
      BY <1>0, <2>1 DEF ClockCoversStore, TypeOK
    <3>2. last'[e] = last[e] \/ (e = d /\ last'[e] = TickReading(d, w))
      BY <1>0 DEF FailWrite, TypeOK
    <3>. QED
      BY <1>1, <3>1, <3>2, ReadingTotal
  <2>. QED
    BY <2>1 DEF FailWrite, ClockCoversStore
<1>. QED
  BY <1>0, <1>2, <1>3 DEF FailWrite, IInv, Issued, LoadsOnlyStored, StoreCoversIssued,
     ReissuedOnlyAfterPurge

\* A merged stamp: what it beats is covered by it, and the clock covers it.
LEMMA MergeStampIInv ==
  ASSUME IInv, NEW d \in Device, NEW e \in Device, NEW s \in stored[e],
         NEW beaten \in SUBSET stored[d], MergeStamp(d, e, s, beaten)
  PROVE  IInv' /\ (Issued => Issued')
<1>0. TypeOK /\ OwnClock /\ LoadsOnlyStored /\ ClockCoversStore
  BY DEF IInv
<1>1. s \in Hlc
  BY <1>0 DEF TypeOK
<1>2. /\ Observed(d, s) \in Hlc
      /\ Observed(d, s).device = d
      /\ ~ReadingLess(Observed(d, s), last[d])
      /\ ~ReadingLess(Observed(d, s), s)
  BY <1>0, <1>1, ObserveCovers
<1>3. TypeOK' /\ OwnClock'
  BY <1>0, <1>1, <1>2 DEF MergeStamp, TypeOK, OwnClock
<1>4. LoadsOnlyStored'
  BY <1>0 DEF MergeStamp, Open, LoadsOnlyStored, TypeOK
<1>5. ClockCoversStore'
  <2>1. ASSUME NEW f \in Device, NEW r \in stored'[f] \ loading'[f]
        PROVE  ~ReadingLess(last'[f], r)
    <3>1. CASE f # d
      BY <1>0, <2>1, <3>1 DEF MergeStamp, ClockCoversStore, TypeOK
    <3>2. CASE f = d
      <4>1. last'[d] = Observed(d, s) /\ r \in stored[d] \cup {s}
        BY <1>0, <2>1, <3>2 DEF MergeStamp, TypeOK
      <4>2. CASE r = s
        BY <1>2, <3>2, <4>1, <4>2
      <4>3. CASE r \in stored[d]
        <5>1. r \in Hlc /\ last[d] \in Hlc /\ ~ReadingLess(last[d], r)
          BY <1>0, <4>3 DEF MergeStamp, Open, ClockCoversStore, TypeOK
        <5>. QED
          BY <1>2, <3>2, <4>1, <5>1, ReadingTotal
      <4>. QED
        BY <4>1, <4>2, <4>3
    <3>. QED
      BY <3>1, <3>2
  <2>. QED
    BY <2>1 DEF ClockCoversStore
<1>6. ASSUME Issued PROVE StoreCoversIssued'
  <2>1. ASSUME NEW t \in Hlc, uses[t] > 0, t.device \notin purgers
        PROVE  \E r \in stored'[t.device] : ~ReadingLess(r, t)
    <3>1. t.device \in Device
      BY DEF Hlc
    <3>2. PICK r \in stored[t.device] : ~ReadingLess(r, t)
      BY <1>6, <2>1 DEF Issued, StoreCoversIssued
    <3>3. r \in Hlc
      BY <1>0, <3>1, <3>2 DEF TypeOK
    <3>4. CASE t.device = d /\ r \in beaten
      <4>1. s \in stored'[d]
        BY <1>0 DEF MergeStamp, TypeOK
      <4>2. ~ReadingLess(s, r)
        BY <1>1, <3>3, <3>4, ReadingTotal DEF MergeStamp
      <4>. QED
        BY <1>1, <3>2, <3>3, <3>4, <4>1, <4>2, ReadingTotal
    <3>5. CASE ~(t.device = d /\ r \in beaten)
      <4>1. r \in stored'[t.device]
        BY <1>0, <3>1, <3>2, <3>5 DEF MergeStamp, TypeOK
      <4>. QED
        BY <3>2, <4>1
    <3>. QED
      BY <3>4, <3>5
  <2>. QED
    BY <2>1 DEF MergeStamp, StoreCoversIssued
<1>. QED
  BY <1>0, <1>3, <1>4, <1>5, <1>6 DEF MergeStamp, IInv, Issued, ReissuedOnlyAfterPurge

\* A restart forgets the clock and owes the store every stamp.
LEMMA ReopenIInv ==
  ASSUME IInv, NEW d \in Device, Reopen(d)
  PROVE  IInv' /\ (Issued => Issued')
<1>0. TypeOK /\ OwnClock /\ LoadsOnlyStored /\ ClockCoversStore
  BY DEF IInv
<1>1. TypeOK' /\ OwnClock'
  BY <1>0, ZeroIsHlc DEF Reopen, TypeOK, OwnClock, Zero
<1>2. LoadsOnlyStored' /\ ClockCoversStore'
  BY <1>0 DEF Reopen, LoadsOnlyStored, ClockCoversStore, TypeOK
<1>. QED
  BY <1>0, <1>1, <1>2 DEF Reopen, IInv, Issued, StoreCoversIssued, ReissuedOnlyAfterPurge

\* Loading one stamp pays one of those debts.
LEMMA LoadStampIInv ==
  ASSUME IInv, NEW d \in Device, NEW s \in loading[d], LoadStamp(d, s)
  PROVE  IInv' /\ (Issued => Issued')
<1>0. TypeOK /\ OwnClock /\ LoadsOnlyStored /\ ClockCoversStore
  BY DEF IInv
<1>1. s \in Hlc
  BY <1>0 DEF TypeOK
<1>2. /\ Observed(d, s) \in Hlc
      /\ Observed(d, s).device = d
      /\ ~ReadingLess(Observed(d, s), last[d])
      /\ ~ReadingLess(Observed(d, s), s)
  BY <1>0, <1>1, ObserveCovers
<1>3. TypeOK' /\ OwnClock' /\ LoadsOnlyStored'
  BY <1>0, <1>2 DEF LoadStamp, TypeOK, OwnClock, LoadsOnlyStored
<1>4. ClockCoversStore'
  <2>1. ASSUME NEW f \in Device, NEW r \in stored[f] \ loading'[f]
        PROVE  ~ReadingLess(last'[f], r)
    <3>1. CASE f # d
      BY <1>0, <2>1, <3>1 DEF LoadStamp, ClockCoversStore, TypeOK
    <3>2. CASE f = d /\ r = s
      BY <1>0, <1>2, <3>2 DEF LoadStamp, TypeOK
    <3>3. CASE f = d /\ r # s
      <4>1. r \in stored[d] \ loading[d]
        BY <1>0, <2>1, <3>3 DEF LoadStamp, TypeOK
      <4>2. r \in Hlc /\ last[d] \in Hlc /\ ~ReadingLess(last[d], r)
        BY <1>0, <4>1 DEF ClockCoversStore, TypeOK
      <4>3. last'[d] = Observed(d, s)
        BY <1>0 DEF LoadStamp, TypeOK
      <4>. QED
        BY <1>2, <3>3, <4>2, <4>3, ReadingTotal
    <3>. QED
      BY <3>1, <3>2, <3>3
  <2>. QED
    BY <2>1 DEF LoadStamp, ClockCoversStore
<1>. QED
  BY <1>0, <1>3, <1>4 DEF LoadStamp, IInv, Issued, StoreCoversIssued, ReissuedOnlyAfterPurge

\* A purge takes stamps away, no debt with them, and only the purger's.
LEMMA PurgeStampsIInv ==
  ASSUME IInv, NEW d \in Device, NEW w \in HostWall(d),
         NEW S \in SUBSET stored[d], PurgeStamps(d, w, S)
  PROVE  IInv' /\ (Issued => Issued')
<1>1. TypeOK' /\ OwnClock'
  BY DEF PurgeStamps, IInv, TypeOK, OwnClock
<1>2. LoadsOnlyStored'
  BY DEF PurgeStamps, Open, IInv, TypeOK, LoadsOnlyStored
<1>3. ClockCoversStore'
  BY DEF PurgeStamps, IInv, TypeOK, ClockCoversStore
<1>4. ASSUME Issued PROVE StoreCoversIssued'
  <2>1. ASSUME NEW t \in Hlc, uses[t] > 0, t.device \notin purgers, t.device # d
        PROVE  \E r \in stored'[t.device] : ~ReadingLess(r, t)
    <3>1. stored'[t.device] = stored[t.device]
      BY <2>1 DEF PurgeStamps, IInv, TypeOK, Hlc
    <3>. QED
      BY <1>4, <2>1, <3>1 DEF Issued, StoreCoversIssued
  <2>. QED
    BY <2>1 DEF PurgeStamps, StoreCoversIssued
<1>. QED
  BY <1>1, <1>2, <1>3, <1>4 DEF PurgeStamps, IInv, Issued, ReissuedOnlyAfterPurge

\* Every step preserves the invariant and the history.
LEMMA NextIInv ==
  ASSUME IInv, [Next]_vars
  PROVE  IInv' /\ (Issued => Issued')
<1>1. ASSUME NEW d \in Device, NEW w \in HostWall(d),
             NEW replaced \in SUBSET stored[d], CommitWrite(d, w, replaced)
      PROVE  IInv' /\ (Issued => Issued')
  BY <1>1, CommitWriteIInv
<1>2. ASSUME NEW d \in Device, NEW w \in HostWall(d), FailWrite(d, w)
      PROVE  IInv' /\ (Issued => Issued')
  BY <1>2, FailWriteIInv
<1>3. ASSUME NEW d \in Device, NEW e \in Device, NEW s \in stored[e],
             NEW beaten \in SUBSET stored[d], MergeStamp(d, e, s, beaten)
      PROVE  IInv' /\ (Issued => Issued')
  BY <1>3, MergeStampIInv
<1>4. ASSUME NEW d \in Device, NEW w \in HostWall(d),
             NEW S \in SUBSET stored[d], PurgeStamps(d, w, S)
      PROVE  IInv' /\ (Issued => Issued')
  BY <1>4, PurgeStampsIInv
<1>5. ASSUME NEW d \in Device, Reopen(d)
      PROVE  IInv' /\ (Issued => Issued')
  BY <1>5, ReopenIInv
<1>6. ASSUME NEW d \in Device, NEW s \in loading[d], LoadStamp(d, s)
      PROVE  IInv' /\ (Issued => Issued')
  BY <1>6, LoadStampIInv
<1>7. CASE UNCHANGED vars
  BY <1>7 DEF vars, IInv, TypeOK, OwnClock, LoadsOnlyStored, ClockCoversStore,
     Issued, StoreCoversIssued, ReissuedOnlyAfterPurge
<1>. QED
  BY <1>1, <1>2, <1>3, <1>4, <1>5, <1>6, <1>7 DEF Next

(***************************************************************************)
(* Every reachable state satisfies the inductive invariant, whatever the   *)
(* host clocks of the devices read.                                        *)
(***************************************************************************)
THEOREM Invariance == Spec => []IInv
<1>1. Init => IInv
  BY InitIInv
<1>2. IInv /\ [Next]_vars => IInv'
  BY NextIInv
<1>. QED
  BY <1>1, <1>2, PTL DEF Spec

(***************************************************************************)
(* HlcClock::tick and HlcClock::resumed: the variables keep their types,   *)
(* so that no reading ever leaves the window.                              *)
(***************************************************************************)
THEOREM TypeCorrect == Spec => []TypeOK
<1>1. IInv => TypeOK
  BY DEF IInv
<1>. QED
  BY <1>1, Invariance, PTL

(***************************************************************************)
(* A restart cannot re-issue a reading that already ordered a write on a   *)
(* device whose purge_tombstones has taken nothing out of the vault.       *)
(***************************************************************************)
THEOREM Unique == Spec => []ReissuedOnlyAfterPurge
<1>1. Init => IInv /\ Issued
  BY InitIInv
<1>2. IInv /\ Issued /\ [Next]_vars => IInv' /\ Issued'
  BY NextIInv
<1>3. Issued => ReissuedOnlyAfterPurge
  BY DEF Issued
<1>. QED
  BY <1>1, <1>2, <1>3, PTL DEF Spec

(***************************************************************************)
(* A local edit made after a merge sorts after everything merged.          *)
(***************************************************************************)
THEOREM NextWins == Spec => []NextStampWins
<1>1. IInv => NextStampWins
  <2> SUFFICES ASSUME IInv, NEW d \in Device, Open(d), NEW w \in HostWall(d),
                      NEW s \in stored[d], ~Exhausted(d, w)
               PROVE  HlcLess(s, TickReading(d, w))
    BY DEF NextStampWins
  <2>1. TypeOK /\ s \in Hlc /\ last[d] \in Hlc /\ ~ReadingLess(last[d], s)
    BY DEF IInv, Open, ClockCoversStore, TypeOK
  <2>2. TickReading(d, w) \in Hlc /\ ReadingLess(last[d], TickReading(d, w))
    BY <2>1, TickAdvances
  <2>. QED
    BY <2>1, <2>2, ClockAssumption DEF Hlc, ReadingLess, HlcLess
<1>. QED
  BY <1>1, Invariance, PTL

(***************************************************************************)
(* Lists and sets.                                                         *)
(***************************************************************************)
\* The elements of a list, and of two lists one after the other.
LEMMA ListElements ==
  ASSUME NEW S, NEW s \in Seq(S)
  PROVE  /\ ToSet(s) \subseteq S /\ Len(s) \in Nat /\ DOMAIN s = 1 .. Len(s)
         /\ \A x \in ToSet(s) : \E i \in 1 .. Len(s) : s[i] = x
         /\ \A i \in 1 .. Len(s) : s[i] \in ToSet(s)
  BY LenProperties DEF ToSet

LEMMA JoinedElements ==
  ASSUME NEW S, NEW a \in Seq(S), NEW b \in Seq(S)
  PROVE  a \o b \in Seq(S) /\ ToSet(a \o b) = ToSet(a) \cup ToSet(b)
<1>1. /\ a \o b \in Seq(S) /\ Len(a \o b) = Len(a) + Len(b)
      /\ \A i \in 1 .. Len(a) + Len(b) : (a \o b)[i] = IF i <= Len(a) THEN a[i] ELSE b[i - Len(a)]
  BY ConcatProperties
<1>2. Len(a) \in Nat /\ Len(b) \in Nat
  BY LenProperties
<1>3. ASSUME NEW x \in ToSet(a \o b) PROVE x \in ToSet(a) \cup ToSet(b)
  <2>1. PICK i \in 1 .. Len(a) + Len(b) : (a \o b)[i] = x
    BY <1>1, <1>3, ListElements
  <2>2. CASE i <= Len(a)
    BY <1>1, <1>2, <2>1, <2>2, ListElements
  <2>3. CASE ~(i <= Len(a))
    <3>1. i - Len(a) \in 1 .. Len(b)
      BY <1>2, <2>1, <2>3
    <3>. QED
      BY <1>1, <1>2, <2>1, <2>3, <3>1, ListElements
  <2>. QED
    BY <2>2, <2>3
<1>4. ASSUME NEW x \in ToSet(a) PROVE x \in ToSet(a \o b)
  <2>1. PICK i \in 1 .. Len(a) : a[i] = x
    BY <1>4, ListElements
  <2>2. i \in 1 .. Len(a \o b) /\ (a \o b)[i] = x
    BY <1>1, <1>2, <2>1
  <2>. QED
    BY <1>1, <2>2, ListElements
<1>5. ASSUME NEW x \in ToSet(b) PROVE x \in ToSet(a \o b)
  <2>1. PICK i \in 1 .. Len(b) : b[i] = x
    BY <1>5, ListElements
  <2>2. i + Len(a) \in 1 .. Len(a \o b) /\ (a \o b)[i + Len(a)] = x
    BY <1>1, <1>2, <2>1
  <2>. QED
    BY <1>1, <2>2, ListElements
<1>. QED
  BY <1>1, <1>3, <1>4, <1>5

LEMMA AppendedElements ==
  ASSUME NEW S, NEW a \in Seq(S), NEW x \in S
  PROVE  Append(a, x) \in Seq(S) /\ ToSet(Append(a, x)) = ToSet(a) \cup {x}
<1>1. /\ Append(a, x) \in Seq(S) /\ Len(Append(a, x)) = Len(a) + 1 /\ Len(a) \in Nat
      /\ \A i \in 1 .. Len(a) + 1 : Append(a, x)[i] = IF i <= Len(a) THEN a[i] ELSE x
  BY LenProperties, AppendProperties
<1>2. ASSUME NEW y \in ToSet(Append(a, x)) PROVE y \in ToSet(a) \cup {x}
  <2>1. PICK i \in 1 .. Len(a) + 1 : Append(a, x)[i] = y
    BY <1>1, <1>2, ListElements
  <2>. QED
    BY <1>1, <2>1, ListElements
<1>3. ASSUME NEW y \in ToSet(a) PROVE y \in ToSet(Append(a, x))
  <2>1. PICK i \in 1 .. Len(a) : a[i] = y
    BY <1>3, ListElements
  <2>2. i \in 1 .. Len(Append(a, x)) /\ Append(a, x)[i] = y
    BY <1>1, <2>1
  <2>. QED
    BY <1>1, <2>2, ListElements
<1>4. x \in ToSet(Append(a, x))
  <2> DEFINE b == Append(a, x)
  <2>1. Len(a) + 1 \in 1 .. Len(b) /\ b[Len(a) + 1] = x /\ b \in Seq(S)
    BY <1>1
  <2> HIDE DEF b
  <2>2. x \in ToSet(b)
    BY <2>1, ListElements
  <2>. QED
    BY <2>2 DEF b
<1>. QED
  BY <1>1, <1>2, <1>3, <1>4

\* A list has no more elements than places.
LEMMA ListIsFinite ==
  ASSUME NEW S, NEW s \in Seq(S)
  PROVE  IsFiniteSet(ToSet(s)) /\ Cardinality(ToSet(s)) <= Len(s)
<1>1. Len(s) \in Nat /\ 1 \in Int /\ Len(s) \in Int
  BY LenProperties
<1>3. IsFiniteSet(1 .. Len(s)) /\ Cardinality(1 .. Len(s)) = Len(s)
  BY <1>1, FS_Interval
<1>2. ToSet(s) = {s[i] : i \in 1 .. Len(s)}
  BY ListElements DEF ToSet
<1>. QED
  BY <1>2, <1>3, ImageBound

\* SetToSeq lists a finite set.
LEMMA SetIsListed ==
  ASSUME NEW S, IsFiniteSet(S)
  PROVE  SetToSeq(S) \in Seq(S) /\ ToSet(SetToSeq(S)) = S
<1> DEFINE n == Cardinality(S)
           f == SetToSeq(S)
<1>1. n \in Nat /\ ExistsBijection(1 .. n, S)
  BY FS_CardinalityType
<1>2. PICK g : g \in Bijection(1 .. n, S)
  BY <1>1 DEF ExistsBijection
<1>3. g \in [1 .. n -> S] /\ IsInjective(g)
  BY <1>2 DEF Bijection, Injection, IsInjective
<1>4. f \in [1 .. n -> S] /\ IsInjective(f)
  BY <1>3 DEF SetToSeq
<1>5. f \in Injection(1 .. n, S)
  BY <1>4 DEF Injection, IsInjective
<1>6. Cardinality(1 .. n) = n /\ IsFiniteSet(1 .. n)
  BY <1>1, FS_Interval
<1>7. f \in Surjection(1 .. n, S)
  <2> HIDE DEF f
  <2>. QED
    BY <1>5, <1>6, FS_Injection
<1>8. f \in Seq(S)
  BY <1>1, <1>4
<1>9. \A x \in S : \E i \in 1 .. n : f[i] = x
  BY <1>7 DEF Surjection
<1>. QED
  <2> HIDE DEF f
  <2>1. ToSet(f) \subseteq S
    BY <1>4 DEF ToSet
  <2>2. S \subseteq ToSet(f)
    BY <1>4, <1>9 DEF ToSet
  <2>3. f \in Seq(S) /\ ToSet(f) = S
    BY <1>8, <2>1, <2>2
  <2>. QED
    BY <2>3 DEF f

(***************************************************************************)
(* The writes of an update.                                                *)
(***************************************************************************)
\* string_diff keeps what is asked for and not there.
LEMMA MissingIs ==
  ASSUME NEW S, NEW desired \in Seq(S), NEW current
  PROVE  /\ Missing(desired, current) \in Seq(S)
         /\ ToSet(Missing(desired, current)) = ToSet(desired) \ current
<1> DEFINE a == Len(desired)
           Turn(b, k) == IF desired[k] \in current THEN b ELSE Append(b, desired[k])
           Filters(n, f) == f = [k \in 0 .. n |-> IF k = 0 THEN << >> ELSE Turn(f[k - 1], k)]
           T == {n \in Nat : \E f : Filters(n, f)}
<1>0. a \in Nat /\ DOMAIN desired = 1 .. a /\ \A k \in 1 .. a : desired[k] \in S
  BY LenProperties
<1>1. 0 \in T
  <2>1. Filters(0, [k \in 0 .. 0 |-> << >>])
    OBVIOUS
  <2> HIDE DEF Filters
  <2>. QED
    BY <2>1
<1>2. ASSUME NEW n \in Nat, n \in T PROVE n + 1 \in T
  <2>1. PICK f : Filters(n, f)
    BY <1>2
  <2> DEFINE g == [k \in 0 .. n + 1 |-> IF k = n + 1 THEN Turn(f[n], n + 1) ELSE f[k]]
  <2> HIDE DEF Turn
  <2>2. \A k \in 0 .. n + 1 : g[k] = IF k = 0 THEN << >> ELSE Turn(g[k - 1], k)
    BY <2>1
  <2>3. Filters(n + 1, g)
    BY <2>2
  <2> HIDE DEF Filters, g
  <2>. QED
    BY <2>3
<1>3. \E f : Filters(a, f)
  <2> HIDE DEF T, a
  <2>1. a \in T
    BY <1>0, <1>1, <1>2, StepByStep
  <2>. QED
    BY <2>1 DEF T
<1>4. PICK f : Filters(a, f) /\ Missing(desired, current) = f[a]
  BY <1>3 DEF Missing
<1> DEFINE Upto(n) == {desired[k] : k \in 1 .. n}
           Right(n) == f[n] \in Seq(S) /\ ToSet(f[n]) = Upto(n) \ current
           R == {n \in 0 .. a : Right(n)}
<1>5. 0 \in R
  <2>1. f[0] = << >> /\ 0 \in 0 .. a
    BY <1>0, <1>4
  <2>2. ToSet(<< >>) = {} /\ << >> \in Seq(S) /\ Upto(0) = {}
    BY DEF ToSet
  <2>. QED
    BY <2>1, <2>2
<1>6. ASSUME NEW n \in Nat, n < a, n \in R PROVE n + 1 \in R
  <2>1. n + 1 \in 0 .. a /\ n + 1 \in 1 .. a /\ (n + 1) - 1 = n
    BY <1>0, <1>6
  <2>2. f[n + 1] = Turn(f[n], n + 1)
    <3> HIDE DEF Turn
    <3>. QED
      BY <1>4, <2>1
  <2>3. Upto(n + 1) = Upto(n) \cup {desired[n + 1]}
    BY <1>6
  <2>4. f[n] \in Seq(S) /\ ToSet(f[n]) = Upto(n) \ current /\ desired[n + 1] \in S
    BY <1>0, <1>6, <2>1
  <2>5. CASE desired[n + 1] \in current
    <3> HIDE DEF Upto, Filters
    <3>. QED
      BY <2>1, <2>2, <2>3, <2>4, <2>5
  <2>6. CASE desired[n + 1] \notin current
    <3>1. f[n + 1] = Append(f[n], desired[n + 1])
      BY <2>2, <2>6
    <3> HIDE DEF Upto, Filters
    <3>2. f[n + 1] \in Seq(S) /\ ToSet(f[n + 1]) = ToSet(f[n]) \cup {desired[n + 1]}
      BY <2>4, <3>1, AppendedElements
    <3>. QED
      BY <2>1, <2>3, <2>4, <2>6, <3>2
  <2>. QED
    BY <2>5, <2>6
<1>7. a \in R
  <2> HIDE DEF R, a
  <2>. QED
    BY <1>0, <1>5, <1>6, StepByStep
<1>8. Upto(a) = ToSet(desired)
  BY <1>0 DEF ToSet
<1>. QED
  BY <1>4, <1>7, <1>8

\* The writes that one change of a set takes.
StepsOf(field, op, X) == {[field |-> field, op |-> op, element |-> x] : x \in X}
DiffSteps(field, current, asked) ==
  StepsOf(field, "add", asked \ current) \cup StepsOf(field, "remove", current \ asked)

LEMMA StepsAreListed ==
  ASSUME NEW field, NEW op, NEW X, NEW s \in Seq(X)
  PROVE  LET t == [i \in DOMAIN s |-> [field |-> field, op |-> op, element |-> s[i]]]
         IN t \in Seq(StepsOf(field, op, ToSet(s))) /\ ToSet(t) = StepsOf(field, op, ToSet(s))
<1> DEFINE step(x) == [field |-> field, op |-> op, element |-> x]
           t == [i \in DOMAIN s |-> step(s[i])]
<1>1. Len(s) \in Nat /\ DOMAIN s = 1 .. Len(s)
  BY LenProperties
<1>2. \A i \in 1 .. Len(s) : step(s[i]) \in StepsOf(field, op, ToSet(s))
  BY <1>1 DEF StepsOf, ToSet
<1>3. t \in Seq(StepsOf(field, op, ToSet(s)))
  <2> HIDE DEF step
  <2>. QED
    BY <1>1, <1>2
<1>4. ToSet(t) \subseteq StepsOf(field, op, ToSet(s))
  BY <1>3, ListElements
<1>5. ASSUME NEW y \in StepsOf(field, op, ToSet(s)) PROVE y \in ToSet(t)
  <2>1. PICK i \in DOMAIN s : y = step(s[i])
    BY <1>5 DEF StepsOf, ToSet
  <2>2. DOMAIN t = DOMAIN s /\ t[i] = y
    BY <2>1
  <2>. QED
    BY <2>1, <2>2 DEF ToSet
<1>. QED
  BY <1>3, <1>4, <1>5

LEMMA DiffIs ==
  ASSUME NEW field, NEW current, IsFiniteSet(current), NEW desired, desired \in Seq(ToSet(desired))
  PROVE  /\ Diff(field, current, desired) \in Seq(DiffSteps(field, current, ToSet(desired)))
         /\ ToSet(Diff(field, current, desired)) = DiffSteps(field, current, ToSet(desired))
<1> DEFINE asked == ToSet(desired)
           added == Missing(desired, current)
           removed == SetToSeq(current \ asked)
           A == [i \in DOMAIN added |-> [field |-> field, op |-> "add", element |-> added[i]]]
           B == [i \in DOMAIN removed |-> [field |-> field, op |-> "remove", element |-> removed[i]]]
           Q == DiffSteps(field, current, asked)
<1>1. added \in Seq(asked) /\ ToSet(added) = asked \ current
  BY MissingIs
<1>2. IsFiniteSet(current \ asked)
  BY FS_Subset
<1>3. removed \in Seq(current \ asked) /\ ToSet(removed) = current \ asked
  BY <1>2, SetIsListed
<1>4. A \in Seq(StepsOf(field, "add", asked \ current)) /\ ToSet(A) = StepsOf(field, "add", asked \ current)
  <2> HIDE DEF added, asked
  <2>1. A \in Seq(StepsOf(field, "add", ToSet(added))) /\ ToSet(A) = StepsOf(field, "add", ToSet(added))
    BY <1>1, StepsAreListed
  <2> HIDE DEF A
  <2>. QED
    BY <1>1, <2>1
<1>5. B \in Seq(StepsOf(field, "remove", current \ asked)) /\ ToSet(B) = StepsOf(field, "remove", current \ asked)
  <2> HIDE DEF removed, asked
  <2>1. B \in Seq(StepsOf(field, "remove", ToSet(removed))) /\ ToSet(B) = StepsOf(field, "remove", ToSet(removed))
    BY <1>3, StepsAreListed
  <2> HIDE DEF B
  <2>. QED
    BY <1>3, <2>1
<1>6. Diff(field, current, desired) = A \o B
  BY DEF Diff
<1> HIDE DEF A, B, asked
<1>7. A \in Seq(Q) /\ B \in Seq(Q) /\ Q = ToSet(A) \cup ToSet(B)
  <2>1. Q = ToSet(A) \cup ToSet(B)
    BY <1>4, <1>5 DEF DiffSteps
  <2> HIDE DEF Q
  <2>2. ToSet(A) \subseteq Q /\ ToSet(B) \subseteq Q /\ A \in Seq(ToSet(A)) /\ B \in Seq(ToSet(B))
    BY <1>4, <1>5, <2>1
  <2>3. A \in Seq(Q)
    BY <2>2, SeqMonotonic
  <2>4. B \in Seq(Q)
    BY <2>2, SeqMonotonic
  <2>. QED
    BY <2>1, <2>3, <2>4
<1> HIDE DEF Q
<1>8. A \o B \in Seq(Q) /\ ToSet(A \o B) = ToSet(A) \cup ToSet(B)
  BY <1>7, JoinedElements
<1>. QED
  BY <1>6, <1>7, <1>8 DEF Q, asked

\* The writes of an update are those of its sets.
StepsAsked(item, edit) ==
  UNION {DiffSteps(field, item[field].members, ToSet(edit[field])) : field \in SetFields \cap DOMAIN edit}

LEMMA DiffsAre ==
  ASSUME NEW item, NEW edit \in EditInputs, \A field \in SetFields : IsFiniteSet(item[field].members)
  PROVE  /\ DiffsOf(item, edit) \in Seq(StepsAsked(item, edit))
         /\ ToSet(DiffsOf(item, edit)) = StepsAsked(item, edit)
<1> DEFINE D(field) == IF field \in DOMAIN edit THEN Diff(field, item[field].members, edit[field]) ELSE <<>>
           E(field) == IF field \in DOMAIN edit THEN DiffSteps(field, item[field].members, ToSet(edit[field])) ELSE {}
           Q == StepsAsked(item, edit)
<1>1. ASSUME NEW field \in SetFields PROVE D(field) \in Seq(Q) /\ ToSet(D(field)) = E(field) /\ E(field) \subseteq Q
  <2>1. CASE field \in DOMAIN edit
    <3>1. edit[field] \in Seq(ToSet(edit[field]))
      BY <1>1, <2>1, InputAssumption DEF SetFields
    <3>2. IsFiniteSet(item[field].members)
      BY <1>1
    <3>3. E(field) \subseteq Q
      BY <1>1, <2>1 DEF StepsAsked
    <3>4. D(field) \in Seq(E(field)) /\ ToSet(D(field)) = E(field)
      BY <2>1, <3>1, <3>2, DiffIs
    <3> HIDE DEF D, E, Q
    <3>. QED
      BY <3>3, <3>4, SeqMonotonic
  <2>2. CASE field \notin DOMAIN edit
    BY <2>2 DEF ToSet
  <2>. QED
    BY <2>1, <2>2
<1>2. Q = E("groups") \cup E("tags") \cup E("origins")
  <2>1. Q \subseteq E("groups") \cup E("tags") \cup E("origins")
    BY DEF StepsAsked, SetFields
  <2>2. "groups" \in SetFields /\ "tags" \in SetFields /\ "origins" \in SetFields
    BY DEF SetFields
  <2> HIDE DEF Q, E, D
  <2>. QED
    BY <1>1, <2>1, <2>2
<1>3. DiffsOf(item, edit) = D("groups") \o D("tags") \o D("origins")
  BY DEF DiffsOf
<1>4. "groups" \in SetFields /\ "tags" \in SetFields /\ "origins" \in SetFields
  BY DEF SetFields
<1> HIDE DEF D, E, Q
<1>5. /\ D("groups") \o D("tags") \in Seq(Q)
      /\ ToSet(D("groups") \o D("tags")) = E("groups") \cup E("tags")
  <2>1. D("groups") \in Seq(Q) /\ D("tags") \in Seq(Q)
    BY <1>1, <1>4
  <2>. QED
    BY <1>1, <1>4, <2>1, JoinedElements
<1>6. /\ (D("groups") \o D("tags")) \o D("origins") \in Seq(Q)
      /\ ToSet((D("groups") \o D("tags")) \o D("origins")) = E("groups") \cup E("tags") \cup E("origins")
  <2> DEFINE front == D("groups") \o D("tags")
  <2>1. front \in Seq(Q) /\ D("origins") \in Seq(Q) /\ ToSet(D("origins")) = E("origins")
    BY <1>1, <1>4, <1>5
  <2>2. ToSet(front) = E("groups") \cup E("tags")
    BY <1>5
  <2> HIDE DEF front
  <2>3. front \o D("origins") \in Seq(Q) /\ ToSet(front \o D("origins")) = ToSet(front) \cup ToSet(D("origins"))
    BY <2>1, JoinedElements
  <2>4. ToSet(front \o D("origins")) = E("groups") \cup E("tags") \cup E("origins")
    BY <2>1, <2>2, <2>3
  <2>. QED
    BY <2>3, <2>4 DEF front
<1>. QED
  BY <1>2, <1>3, <1>6 DEF Q

\* The loop of do_update.
First(id, edit, fails) ==
  LET error == FieldsError(id, edit, fails = 1)
  IN [item |-> IF error = "Ok" THEN Applied(entries[id], edit) ELSE entries[id], error |-> error]
IsLoop(f, a, first, steps, fails) ==
  f = [n \in 0 .. a |-> IF n = 0 THEN first ELSE NextWrite(f[n - 1], steps[n], fails = n + 1)]

LEMMA UpdatedIs ==
  ASSUME NEW id, NEW edit, NEW fails,
         Len(DiffsOf(Applied(entries[id], edit), edit)) \in Nat
  PROVE  LET steps == DiffsOf(Applied(entries[id], edit), edit) IN
         \E f : /\ IsLoop(f, Len(steps), First(id, edit, fails), steps, fails)
                /\ Updated(id, edit, fails) = f[Len(steps)]
<1> DEFINE steps == DiffsOf(Applied(entries[id], edit), edit)
           a == Len(steps)
           first == First(id, edit, fails)
           T == {n \in Nat : \E f : IsLoop(f, n, first, steps, fails)}
<1>0. a \in Nat
  OBVIOUS
<1>1. 0 \in T
  <2> HIDE DEF first, steps
  <2>1. IsLoop([k \in 0 .. 0 |-> first], 0, first, steps, fails)
    BY DEF IsLoop
  <2>. QED
    BY <2>1
<1>2. ASSUME NEW n \in Nat, n \in T PROVE n + 1 \in T
  <2> HIDE DEF first, steps
  <2>1. PICK f : IsLoop(f, n, first, steps, fails)
    BY <1>2
  <2> DEFINE g == [k \in 0 .. n + 1 |-> IF k = n + 1 THEN NextWrite(f[n], steps[n + 1], fails = (n + 1) + 1) ELSE f[k]]
  <2>2. \A k \in 0 .. n + 1 : g[k] = IF k = 0 THEN first ELSE NextWrite(g[k - 1], steps[k], fails = k + 1)
    BY <2>1 DEF IsLoop
  <2>3. IsLoop(g, n + 1, first, steps, fails)
    BY <2>2 DEF IsLoop
  <2> HIDE DEF g
  <2>. QED
    BY <2>3
<1>3. \E f : IsLoop(f, a, first, steps, fails)
  <2> HIDE DEF T, a, first, steps
  <2>1. \A k \in Nat : k < a /\ k \in T => k + 1 \in T
    BY <1>2
  <2>2. \A k \in 0 .. a : k \in T
    BY <1>0, <1>1, <2>1, StepByStep
  <2>3. a \in T
    BY <1>0, <2>2
  <2>. QED
    BY <2>3 DEF T
<1>. QED
  BY <1>3 DEF Updated, IsLoop, First

LEMMA FoldedOnce ==
  ASSUME NEW x
  PROVE  FoldLabel(FoldLabel(x)) = FoldLabel(x)
<1>1. CASE FoldLabel(x) = NoLabel
  BY <1>1 DEF FoldLabel
<1>2. CASE FoldLabel(x) # NoLabel
  <2>1. x # NoLabel /\ FoldLabel(x) = [x EXCEPT !.form = 0]
    BY <1>2 DEF FoldLabel
  <2>2. FoldLabel(FoldLabel(x)) = [[x EXCEPT !.form = 0] EXCEPT !.form = 0]
    BY <1>2, <2>1 DEF FoldLabel
  <2>. QED
    BY <2>1, <2>2
<1>. QED
  BY <1>1, <1>2

\* The write of the fields leaves the sets alone.
LEMMA FieldsAreWritten ==
  ASSUME NEW item, NEW edit \in EditInputs, ItemOk(item)
  PROVE  /\ ApplyError(edit) = "Ok" => ItemOk(Applied(item, edit))
         /\ \A field \in SetFields \cup {"trashed", "secret"} : Applied(item, edit)[field] = item[field]
         /\ \A field \in {"nickname", "note"} \cap edit.clear : Applied(item, edit)[field] = NoLabel
<1> DEFINE w == Applied(item, edit)
<1>1. /\ DOMAIN w = ItemFields
      /\ w.issuer = Given(edit, "issuer", item.issuer) /\ w.account = Given(edit, "account", item.account)
      /\ w.nickname = Nullable(edit, "nickname", item.nickname) /\ w.note = Nullable(edit, "note", item.note)
      /\ w.deleted = (item.deleted /\ ~Writes(edit))
      /\ w.secret = item.secret /\ w.tags = item.tags /\ w.origins = item.origins /\ w.groups = item.groups
      /\ w.trashed = item.trashed
  BY DEF Applied, ItemOk, ItemFields
<1>2. "issuer" \notin edit.clear /\ "account" \notin edit.clear
  BY InputAssumption
<1>3. ApplyError(edit) = "Ok" => LabelOk(w.issuer) /\ LabelOk(w.account)
  BY <1>1, <1>2 DEF ApplyError, Given, ItemOk
<1>4. \A field \in SetFields \cup {"trashed", "secret"} : w[field] = item[field]
  BY <1>1 DEF SetFields
<1>5. w.deleted \in BOOLEAN /\ w.trashed \in BOOLEAN
  BY <1>1 DEF ItemOk
<1>6. w.origins = item.origins
  BY <1>1
<1>7. \A field \in {"nickname", "note"} \cap edit.clear : w[field] = NoLabel
  BY <1>1 DEF Nullable
<1> HIDE DEF w
<1>8. ApplyError(edit) = "Ok" => ItemOk(w)
  BY <1>1, <1>3, <1>4, <1>5, <1>6 DEF ItemOk
<1>. QED
  BY <1>4, <1>7, <1>8 DEF w

\* A write that follows changes one set.
LEMMA SetIsWritten ==
  ASSUME NEW item, NEW step, ItemOk(item), step.field \in SetFields, step.op \in {"add", "remove"}
  PROVE  /\ ItemOk(Stepped(item, step))
         /\ \A field \in ItemFields \ {step.field, "deleted"} : Stepped(item, step)[field] = item[field]
         /\ Stepped(item, step)[step.field].members
              = IF step.op = "add" THEN item[step.field].members \cup {Element(step)}
                ELSE item[step.field].members \ {Element(step)}
         /\ Bounded(item) /\ StepError(item, step) = "Ok" => Bounded(Stepped(item, step))
<1> DEFINE w == Stepped(item, step)
           x == Element(step)
           new == IF step.op = "add" THEN SetAdd(item[step.field], x) ELSE SetRemove(item[step.field], x)
<1>0. SetFields \subseteq ItemFields /\ "deleted" \notin SetFields /\ "trashed" \notin SetFields
      /\ "issuer" \notin SetFields /\ "account" \notin SetFields /\ "origins" \in SetFields
      /\ {"issuer", "account", "trashed", "deleted", "origins"} \subseteq ItemFields
      /\ "issuer" # "deleted" /\ "account" # "deleted" /\ "trashed" # "deleted" /\ "origins" # "deleted"
  BY DEF SetFields, ItemFields
<1>1. /\ DOMAIN w = ItemFields /\ w.deleted = FALSE /\ w[step.field] = new
      /\ \A field \in ItemFields \ {step.field, "deleted"} : w[field] = item[field]
  <2> HIDE DEF x
  <2>1. DOMAIN item = ItemFields
    BY DEF ItemOk
  <2>2. w = [item EXCEPT ![step.field] = new, !.deleted = FALSE]
    BY DEF Stepped, x
  <2> HIDE DEF w, new
  <2>. QED
    BY <1>0, <2>1, <2>2
<1>2. LET set == item[step.field] IN
      /\ set = [members |-> set.members, stored |-> set.stored]
      /\ IsFiniteSet(set.stored) /\ set.members \subseteq set.stored
  BY DEF ItemOk, SetOk
<1>3. /\ new = [members |-> new.members, stored |-> new.stored]
      /\ new.members = IF step.op = "add" THEN item[step.field].members \cup {x} ELSE item[step.field].members \ {x}
      /\ new.stored = IF step.op = "add" THEN item[step.field].stored \cup {x} ELSE item[step.field].stored
  <2> HIDE DEF x
  <2>1. CASE step.op = "add"
    BY <2>1 DEF SetAdd
  <2>2. CASE step.op # "add"
    <3> DEFINE set == item[step.field]
    <3>1. new = [set EXCEPT !.members = @ \ {x}]
      BY <2>2 DEF SetRemove
    <3>2. set = [members |-> set.members, stored |-> set.stored]
      BY <1>2
    <3> HIDE DEF new, set
    <3>3. new = [members |-> set.members \ {x}, stored |-> set.stored]
      BY <3>1, <3>2
    <3>. QED
      BY <2>2, <3>3 DEF set
  <2>. QED
    BY <2>1, <2>2
<1>4. IsFiniteSet(new.stored) /\ new.members \subseteq new.stored
  <2> DEFINE set == item[step.field]
             S == set.stored
  <2>1. IsFiniteSet(S) /\ set.members \subseteq S
    BY <1>2
  <2> HIDE DEF new, x, set, S
  <2>2. new.stored \in {S, S \cup {x}} /\ new.members \subseteq new.stored
    BY <1>3, <2>1 DEF set, S
  <2>3. IsFiniteSet(S \cup {x})
    BY <2>1, FS_AddElement
  <2>. QED
    BY <2>1, <2>2, <2>3
<1>5. \A field \in SetFields : SetOk(w[field])
  <2> HIDE DEF w, new
  <2>. QED
    BY <1>0, <1>1, <1>3, <1>4 DEF ItemOk, SetOk
<1>6. \A origin \in w.origins.members : FoldLabel(origin) = origin
  <2>1. CASE step.field = "origins"
    <3>1. x = FoldLabel(step.element)
      BY <2>1 DEF Element
    <3>2. FoldLabel(x) = x
      BY <3>1, FoldedOnce
    <3>3. \A origin \in item.origins.members : FoldLabel(origin) = origin
      BY DEF ItemOk
    <3> HIDE DEF w, new, x
    <3>. QED
      BY <1>1, <1>3, <2>1, <3>2, <3>3
  <2>2. CASE step.field # "origins"
    <3>1. w.origins = item.origins
      BY <1>0, <1>1, <2>2
    <3>. QED
      BY <3>1 DEF ItemOk
  <2>. QED
    BY <2>1, <2>2
<1>7. ASSUME Bounded(item), StepError(item, step) = "Ok" PROVE Bounded(w)
  <2>1. Cardinality(new.stored) <= MaxSetEntries
    <3>1. CASE step.op = "remove"
      BY <1>3, <1>7, <3>1 DEF Bounded
    <3>2. CASE step.op = "add"
      <4>1. HasRoom(item[step.field], x)
        BY <1>7, <3>2 DEF StepError
      <4>2. /\ IsFiniteSet(item[step.field].stored) /\ Cardinality(item[step.field].stored) \in Nat
            /\ Cardinality(item[step.field].stored) <= MaxSetEntries /\ MaxSetEntries \in Nat
        BY <1>2, <1>7, FS_CardinalityType, EditAssumption DEF Bounded
      <4>3. new.stored = item[step.field].stored \cup {x}
        BY <1>3, <3>2
      <4> HIDE DEF new, x
      <4>4. Cardinality(new.stored) = IF x \in item[step.field].stored THEN Cardinality(item[step.field].stored)
                                      ELSE Cardinality(item[step.field].stored) + 1
        <5> DEFINE S == item[step.field].stored
        <5>1. IsFiniteSet(S) /\ new.stored = S \cup {x}
          BY <4>2, <4>3
        <5> HIDE DEF S
        <5>2. Cardinality(S \cup {x}) = IF x \in S THEN Cardinality(S) ELSE Cardinality(S) + 1
          BY <5>1, FS_AddElement
        <5>. QED
          BY <5>1, <5>2 DEF S
      <4>. QED
        BY <1>2, <4>1, <4>2, <4>4 DEF HasRoom
    <3>. QED
      BY <3>1, <3>2
  <2> HIDE DEF w, new
  <2>. QED
    BY <1>0, <1>1, <1>7, <2>1 DEF Bounded
<1>8. ItemOk(w)
  <2>1. w.issuer = item.issuer /\ w.account = item.account /\ w.trashed = item.trashed
    BY <1>0, <1>1
  <2> HIDE DEF w
  <2>. QED
    BY <1>1, <1>5, <1>6, <2>1 DEF ItemOk
<1>. QED
  BY <1>1, <1>3, <1>7, <1>8

\* What a set is asked to hold, as it is stored, and when that can be told from what it holds.
Stored(field, x) == IF field = "origins" THEN FoldLabel(x) ELSE x
Wanted(edit, field) == {Stored(field, x) : x \in ToSet(edit[field])}
ToldApart(item, edit, field) ==
  \A x \in ToSet(edit[field]) : Stored(field, x) \in item[field].members => x = Stored(field, x)

LEMMA StepIsAsked ==
  ASSUME NEW item, NEW edit, ItemOk(item), NEW step \in StepsAsked(item, edit)
  PROVE  /\ step.field \in SetFields \cap DOMAIN edit /\ step.op \in {"add", "remove"}
         /\ ToldApart(item, edit, step.field) =>
              /\ step.op = "add" => Element(step) \in Wanted(edit, step.field)
              /\ step.op = "remove" => Element(step) \in item[step.field].members \ Wanted(edit, step.field)
<1>1. PICK field \in SetFields \cap DOMAIN edit : step \in DiffSteps(field, item[field].members, ToSet(edit[field]))
  BY DEF StepsAsked
<1> DEFINE current == item[field].members
           asked == ToSet(edit[field])
<1>2. PICK x : \/ step = [field |-> field, op |-> "add", element |-> x] /\ x \in asked \ current
               \/ step = [field |-> field, op |-> "remove", element |-> x] /\ x \in current \ asked
  BY <1>1 DEF DiffSteps, StepsOf
<1>3. step.field = field /\ step.op \in {"add", "remove"} /\ step.element = x
  BY <1>2
<1>4. Element(step) = Stored(field, x)
  BY <1>3 DEF Element, Stored
<1>5. ASSUME x \in current PROVE Stored(field, x) = x
  BY <1>5 DEF Stored, ItemOk
<1>6. CASE step.op = "add"
  <2>1. x \in asked
    BY <1>2, <1>6
  <2>. QED
    BY <1>1, <1>3, <1>4, <1>6, <2>1 DEF Wanted
<1>7. CASE step.op = "remove"
  <2>1. x \in current /\ x \notin asked
    BY <1>2, <1>7
  <2>2. ASSUME ToldApart(item, edit, field) PROVE x \notin Wanted(edit, field)
    <3>1. SUFFICES ASSUME NEW y \in asked, Stored(field, y) = x PROVE FALSE
      BY DEF Wanted
    <3>. QED
      BY <2>1, <2>2, <3>1 DEF ToldApart
  <2>. QED
    BY <1>1, <1>3, <1>4, <1>5, <1>7, <2>1, <2>2
<1>. QED
  BY <1>3, <1>6, <1>7

\* After n of the writes: the item is in order, its fields are the written ones, and each set is on
\* its way from what it held to what it is asked to hold.
Errors == {"Ok", "NoSuchGroup", "InvalidField", "TooManyElements", "Storage"}
Applying(item, edit, steps, n, w) ==
  /\ w = [item |-> w.item, error |-> w.error] /\ w.error \in Errors
  /\ ItemOk(w.item) /\ (Bounded(item) => Bounded(w.item))
  /\ \A field \in ItemFields \ (SetFields \cup {"deleted"}) : w.item[field] = item[field]
  /\ \A field \in SetFields \cap DOMAIN edit : ToldApart(item, edit, field) =>
       /\ item[field].members \cap Wanted(edit, field) \subseteq w.item[field].members
       /\ w.item[field].members \subseteq item[field].members \cup Wanted(edit, field)
       /\ w.error = "Ok" => \A k \in 1 .. n : steps[k].field = field =>
            (Element(steps[k]) \in w.item[field].members <=> steps[k].op = "add")

LEMMA WriteApplies ==
  ASSUME NEW item, NEW edit, ItemOk(item),
         NEW steps \in Seq(StepsAsked(item, edit)), NEW n \in Nat, n < Len(steps),
         NEW w, NEW lost \in BOOLEAN, Applying(item, edit, steps, n, w)
  PROVE  Applying(item, edit, steps, n + 1, NextWrite(w, steps[n + 1], lost))
<1> DEFINE step == steps[n + 1]
           r == NextWrite(w, step, lost)
           failure == IF StepError(w.item, step) # "Ok" THEN StepError(w.item, step)
                      ELSE IF lost THEN "Storage" ELSE "Ok"
<1>1. /\ n + 1 \in 1 .. Len(steps) /\ Len(steps) \in Nat
      /\ \A k \in 1 .. Len(steps) : steps[k] \in StepsAsked(item, edit)
  BY LenProperties
<1>2. step \in StepsAsked(item, edit)
  BY <1>1
<1>3. failure \in Errors
  BY DEF StepError, Errors
<1>4. CASE w.error # "Ok"
  <2>1. r = w
    BY <1>4 DEF NextWrite
  <2> HIDE DEF r
  <2>. QED
    BY <1>4, <2>1 DEF Applying, r
<1>5. CASE w.error = "Ok" /\ failure # "Ok"
  <2>1. r = [w EXCEPT !.error = failure]
    BY <1>5 DEF NextWrite
  <2>2. w = [item |-> w.item, error |-> w.error]
    BY DEF Applying
  <2> HIDE DEF r, failure
  <2>3. r = [item |-> w.item, error |-> failure] /\ r.item = w.item /\ r.error = failure
    BY <2>1, <2>2
  <2>4. Applying(item, edit, steps, n + 1, r)
    BY <1>3, <1>5, <2>3 DEF Applying
  <2>. QED
    BY <2>4 DEF r
<1>6. CASE w.error = "Ok" /\ failure = "Ok"
  <2> DEFINE next == Stepped(w.item, step)
  <2>1. r = [item |-> next, error |-> "Ok"] /\ StepError(w.item, step) = "Ok"
    BY <1>6 DEF NextWrite
  <2>2. ItemOk(w.item) /\ step.field \in SetFields \cap DOMAIN edit /\ step.op \in {"add", "remove"}
    BY <1>2, StepIsAsked DEF Applying
  <2>3. /\ ItemOk(next)
        /\ \A field \in ItemFields \ {step.field, "deleted"} : next[field] = w.item[field]
        /\ next[step.field].members = IF step.op = "add" THEN w.item[step.field].members \cup {Element(step)}
                                      ELSE w.item[step.field].members \ {Element(step)}
        /\ Bounded(w.item) => Bounded(next)
    <3> HIDE DEF step, failure, r
    <3> DEFINE v == w.item
    <3>1. step.field \in SetFields /\ step.op \in {"add", "remove"} /\ ItemOk(v)
      BY <2>2
    <3> HIDE DEF v
    <3>2. /\ ItemOk(Stepped(v, step))
          /\ \A field \in ItemFields \ {step.field, "deleted"} : Stepped(v, step)[field] = v[field]
          /\ Stepped(v, step)[step.field].members
               = IF step.op = "add" THEN v[step.field].members \cup {Element(step)}
                 ELSE v[step.field].members \ {Element(step)}
          /\ Bounded(v) /\ StepError(v, step) = "Ok" => Bounded(Stepped(v, step))
      BY <3>1, SetIsWritten, Zenon
    <3>. QED
      BY <2>1, <3>2 DEF v
  <2> HIDE DEF next, r, failure
  <2>4. r.item = next /\ r.error = "Ok" /\ r = [item |-> r.item, error |-> r.error] /\ r.error \in Errors
    BY <2>1 DEF Errors
  <2>5. \A field \in ItemFields \ (SetFields \cup {"deleted"}) : next[field] = item[field]
    BY <2>2, <2>3 DEF Applying
  <2>6. ASSUME NEW field \in SetFields \cap DOMAIN edit, ToldApart(item, edit, field)
        PROVE  /\ item[field].members \cap Wanted(edit, field) \subseteq next[field].members
               /\ next[field].members \subseteq item[field].members \cup Wanted(edit, field)
               /\ \A k \in 1 .. n + 1 : steps[k].field = field =>
                    (Element(steps[k]) \in next[field].members <=> steps[k].op = "add")
    <3> DEFINE old == item[field].members
               want == Wanted(edit, field)
               was == w.item[field].members
               is == next[field].members
    <3>1. /\ old \cap want \subseteq was /\ was \subseteq old \cup want
          /\ \A k \in 1 .. n : steps[k].field = field => (Element(steps[k]) \in was <=> steps[k].op = "add")
      BY <1>6, <2>6 DEF Applying
    <3>2. ASSUME NEW k \in 1 .. n + 1, steps[k].field = field
          PROVE  /\ steps[k].op \in {"add", "remove"}
                 /\ steps[k].op = "add" => Element(steps[k]) \in want
                 /\ steps[k].op = "remove" => Element(steps[k]) \in old \ want
      <4>1. steps[k] \in StepsAsked(item, edit)
        BY <1>1
      <4>. QED
        BY <2>6, <3>2, <4>1, StepIsAsked
    <3>3. \A k \in 1 .. n + 1 : k \in 1 .. n \/ k = n + 1
      OBVIOUS
    <3>4. CASE step.field # field
      <4>1. is = was
        BY <2>3, <2>6, <3>4 DEF SetFields, ItemFields
      <4>2. ASSUME NEW k \in 1 .. n + 1, steps[k].field = field
            PROVE  Element(steps[k]) \in is <=> steps[k].op = "add"
        BY <3>1, <3>3, <3>4, <4>1, <4>2
      <4>. QED
        BY <3>1, <4>1, <4>2
    <3>5. CASE step.field = field
      <4>1. is = IF step.op = "add" THEN was \cup {Element(step)} ELSE was \ {Element(step)}
        BY <2>3, <3>5
      <4>2. /\ step.op = "add" => Element(step) \in want
            /\ step.op = "remove" => Element(step) \in old \ want
            /\ step.op \in {"add", "remove"}
        BY <3>2, <3>5, <1>1
      <4> HIDE DEF step, old, want, was, is
      <4>3. old \cap want \subseteq is /\ is \subseteq old \cup want
        BY <3>1, <4>1, <4>2
      <4>4. ASSUME NEW k \in 1 .. n + 1, steps[k].field = field
            PROVE  Element(steps[k]) \in is <=> steps[k].op = "add"
        <5>1. CASE k = n + 1
          BY <4>1, <4>2, <5>1 DEF step
        <5>2. CASE k \in 1 .. n
          <6>1. Element(steps[k]) \in was <=> steps[k].op = "add"
            BY <3>1, <4>4, <5>2
          <6>2. /\ steps[k].op \in {"add", "remove"}
                /\ steps[k].op = "add" => Element(steps[k]) \in want
                /\ steps[k].op = "remove" => Element(steps[k]) \in old \ want
            BY <3>2, <4>4
          <6>. QED
            BY <4>1, <4>2, <6>1, <6>2
        <5>. QED
          BY <3>3, <5>1, <5>2
      <4>. QED
        BY <4>3, <4>4 DEF is, old, want
    <3>. QED
      BY <3>4, <3>5
  <2>7. Bounded(item) => Bounded(next)
    BY <2>3 DEF Applying
  <2>8. Applying(item, edit, steps, n + 1, r)
    BY <2>3, <2>4, <2>5, <2>6, <2>7 DEF Applying
  <2>. QED
    BY <2>8 DEF r
<1>. QED
  BY <1>4, <1>5, <1>6

\* What the whole loop comes to.
LEMMA UpdateComesTo ==
  ASSUME NEW id, NEW edit \in EditInputs, NEW fails \in Nat, ItemOk(entries[id])
  PROVE  LET r == Updated(id, edit, fails)
             error == FieldsError(id, edit, fails = 1)
             item == Applied(entries[id], edit)
             steps == DiffsOf(item, edit) IN
         /\ error # "Ok" => r = [item |-> entries[id], error |-> error]
         /\ error = "Ok" => /\ Applying(item, edit, steps, Len(steps), r)
                            /\ ToSet(steps) = StepsAsked(item, edit) /\ steps \in Seq(StepsAsked(item, edit))
                            /\ ItemOk(item)
<1> DEFINE r == Updated(id, edit, fails)
           error == FieldsError(id, edit, fails = 1)
           item == Applied(entries[id], edit)
           steps == DiffsOf(item, edit)
           first == First(id, edit, fails)
<1>1. \A field \in SetFields : item[field] = entries[id][field]
  BY FieldsAreWritten
<1>2. \A field \in SetFields : IsFiniteSet(item[field].members)
  <2> HIDE DEF item
  <2>. QED
    BY <1>1, FS_Subset DEF ItemOk, SetOk
<1>3. steps \in Seq(StepsAsked(item, edit)) /\ ToSet(steps) = StepsAsked(item, edit)
  <2> HIDE DEF item
  <2>. QED
    BY <1>2, DiffsAre
<1> DEFINE a == Len(steps)
<1>4. a \in Nat
  <2> HIDE DEF item, steps
  <2>. QED
    BY <1>3, LenProperties
<1>5. PICK f : IsLoop(f, a, first, steps, fails) /\ r = f[a]
  BY <1>4, UpdatedIs
<1> HIDE DEF r, first, steps, a
<1>6. f[0] = first /\ \A n \in Nat : n < a => f[n + 1] = NextWrite(f[n], steps[n + 1], fails = (n + 1) + 1)
  BY <1>4, <1>5 DEF IsLoop
<1>7. first = [item |-> IF error = "Ok" THEN item ELSE entries[id], error |-> error]
  BY DEF first, First
<1>8. CASE error # "Ok"
  <2> DEFINE T == {n \in Nat : f[n] = first}
  <2>1. 0 \in T
    BY <1>6
  <2>2. \A n \in Nat : n < a /\ n \in T => n + 1 \in T
    <3>1. \A step, lost : NextWrite(first, step, lost) = first
      BY <1>7, <1>8 DEF NextWrite
    <3>. QED
      BY <1>6, <3>1
  <2>3. a \in T
    <3> HIDE DEF T
    <3>1. \A n \in 0 .. a : n \in T
      BY <1>4, <2>1, <2>2, StepByStep
    <3>. QED
      BY <1>4, <3>1
  <2>. QED
    BY <1>5, <1>7, <1>8, <2>3 DEF r
<1>9. CASE error = "Ok"
  <2>1. ApplyError(edit) = "Ok"
    BY <1>9 DEF FieldsError
  <2>2. ItemOk(item)
    BY <2>1, FieldsAreWritten
  <2>3. first = [item |-> item, error |-> "Ok"] /\ first.item = item /\ first.error = "Ok"
    BY <1>7, <1>9
  <2> HIDE DEF item, error
  <2> DEFINE T == {n \in 0 .. a : Applying(item, edit, steps, n, f[n])}
  <2>4. 0 \in T
    <3>1. Applying(item, edit, steps, 0, first)
      BY <2>2, <2>3 DEF Applying, Errors
    <3>. QED
      BY <1>4, <1>6, <3>1
  <2>5. ASSUME NEW n \in Nat, n < a, n \in T PROVE n + 1 \in T
    <3>1. Applying(item, edit, steps, n + 1, NextWrite(f[n], steps[n + 1], fails = (n + 1) + 1))
      BY <1>3, <2>2, <2>5, WriteApplies DEF a
    <3>. QED
      BY <1>4, <1>6, <2>5, <3>1
  <2>6. Applying(item, edit, steps, a, f[a])
    <3> HIDE DEF T
    <3>1. \A n \in Nat : n < a /\ n \in T => n + 1 \in T
      BY <2>5
    <3>2. \A n \in 0 .. a : n \in T
      BY <1>4, <2>4, <3>1, StepByStep
    <3>3. a \in T
      BY <1>4, <3>2
    <3>. QED
      BY <3>3 DEF T
  <2>. QED
    BY <1>3, <1>5, <1>9, <2>2, <2>6 DEF r, a, item, steps, error
<1>. QED
  BY <1>8, <1>9

\* A set that is written to its end holds what was asked for.
LEMMA WrittenIsWanted ==
  ASSUME NEW item, NEW edit, ItemOk(item), NEW steps \in Seq(StepsAsked(item, edit)),
         ToSet(steps) = StepsAsked(item, edit), NEW w, Applying(item, edit, steps, Len(steps), w), w.error = "Ok",
         NEW field \in SetFields \cap DOMAIN edit, ToldApart(item, edit, field)
  PROVE  w.item[field].members = Wanted(edit, field)
<1> DEFINE old == item[field].members
           asked == ToSet(edit[field])
           is == w.item[field].members
<1>1. /\ old \cap Wanted(edit, field) \subseteq is /\ is \subseteq old \cup Wanted(edit, field)
      /\ \A k \in 1 .. Len(steps) : steps[k].field = field => (Element(steps[k]) \in is <=> steps[k].op = "add")
  BY DEF Applying
<1>2. \A step \in StepsAsked(item, edit) : step.field = field => (Element(step) \in is <=> step.op = "add")
  BY <1>1, ListElements
<1>3. \A x \in old : Stored(field, x) = x
  BY DEF Stored, ItemOk
<1>4. ASSUME NEW x \in asked PROVE Stored(field, x) \in is
  <2>1. CASE x \in old
    <3>1. Stored(field, x) = x /\ x \in Wanted(edit, field)
      BY <1>3, <2>1 DEF Wanted
    <3>. QED
      BY <1>1, <2>1, <3>1
  <2>2. CASE x \notin old
    <3> DEFINE step == [field |-> field, op |-> "add", element |-> x]
    <3>1. step \in DiffSteps(field, old, asked)
      BY <1>4, <2>2 DEF DiffSteps, StepsOf
    <3>2. step \in StepsAsked(item, edit)
      BY <3>1 DEF StepsAsked
    <3>3. Element(step) = Stored(field, x) /\ step.field = field /\ step.op = "add"
      BY DEF Element, Stored
    <3>. QED
      BY <1>2, <3>2, <3>3
  <2>. QED
    BY <2>1, <2>2
<1>5. ASSUME NEW x \in is, x \notin Wanted(edit, field) PROVE FALSE
  <2>1. x \in old /\ Stored(field, x) = x
    BY <1>1, <1>3, <1>5
  <2>2. x \notin asked
    BY <1>5, <2>1 DEF Wanted
  <2> DEFINE step == [field |-> field, op |-> "remove", element |-> x]
  <2>3. step \in DiffSteps(field, old, asked)
    BY <2>1, <2>2 DEF DiffSteps, StepsOf
  <2>4. step \in StepsAsked(item, edit)
    BY <2>3 DEF StepsAsked
  <2>5. Element(step) = x /\ step.field = field /\ step.op = "remove"
    BY <2>1 DEF Element, Stored
  <2>. QED
    BY <1>2, <1>5, <2>4, <2>5
<1>6. Wanted(edit, field) \subseteq is
  BY <1>4 DEF Wanted
<1>. QED
  BY <1>5, <1>6

(***************************************************************************)
(* The invariant, command by command.                                      *)
(***************************************************************************)
\* What a commit has to show.
LEMMA CommitKeeps ==
  ASSUME EditInv, NEW id, NEW item, Commit(id, item), blurred \subseteq blurred',
         ItemOk(item), id \notin blurred' => Bounded(item),
         (id \notin blurred' /\ IsLive(item)) =>
           \A other \in DOMAIN entries \ (blurred' \cup {id}) :
             (IsLive(entries[other]) /\ SameSite(entries[other], item)) => ~SameNickname(entries[other], item)
  PROVE  EditInv'
<1>1. /\ DOMAIN entries' = DOMAIN entries \cup {id} /\ entries'[id] = item
      /\ \A i \in DOMAIN entries \ {id} : entries'[i] = entries[i]
  BY DEF Commit
<1>2. \A i \in DOMAIN entries' : ItemOk(entries'[i]) /\ (i \notin blurred' => Bounded(entries'[i]))
  BY <1>1 DEF EditInv
<1>3. ASSUME NEW a \in DOMAIN entries' \ blurred', NEW b \in DOMAIN entries' \ (blurred' \cup {a}),
             IsLive(entries'[a]), IsLive(entries'[b]), SameSite(entries'[b], entries'[a]),
             SameNickname(entries'[a], entries'[b])
      PROVE  FALSE
  <2>1. CASE a = id
    <3>1. b \in DOMAIN entries /\ b # id /\ entries'[b] = entries[b]
      BY <1>1, <1>3, <2>1
    <3>. QED
      BY <1>1, <1>3, <2>1, <3>1 DEF SameNickname
  <2>2. CASE b = id
    <3>1. a \in DOMAIN entries /\ a # id /\ entries'[a] = entries[a]
      BY <1>1, <1>3, <2>2
    <3>. QED
      BY <1>1, <1>3, <2>2, <3>1 DEF SameNickname, SameSite
  <2>3. CASE a # id /\ b # id
    <3>1. /\ a \in DOMAIN entries \ blurred /\ b \in DOMAIN entries \ (blurred \cup {a})
          /\ entries'[a] = entries[a] /\ entries'[b] = entries[b]
      BY <1>1, <1>3, <2>3
    <3>2. b \in Cluster(entries[a])
      BY <1>3, <3>1 DEF Cluster
    <3>. QED
      BY <1>3, <3>1, <3>2 DEF EditInv, NamesTellApart
  <2>. QED
    BY <2>1, <2>2, <2>3
<1>4. NamesTellApart'
  BY <1>3 DEF NamesTellApart, Cluster
<1>. QED
  BY <1>2, <1>4 DEF EditInv

\* add: the new item is in order and differs from its neighbours.
LEMMA AddKeeps ==
  ASSUME EditInv, NEW new \in NewItems, AddEntry(new)
  PROVE  EditInv'
<1> DEFINE id == CHOOSE i \in EntryIds \ DOMAIN entries : TRUE
           item == [issuer |-> new.issuer, account |-> new.account, nickname |-> new.nickname, note |-> NoLabel,
                    secret |-> new.secret, tags |-> SetAddAll(EmptySet, new.tags), origins |-> EmptySet,
                    groups |-> EmptySet, trashed |-> FALSE, deleted |-> FALSE]
<1>1. Commit(id, item) /\ blurred' = blurred /\ Validates(new) /\ SameSiteError(new) = "Ok"
  BY DEF AddEntry
<1>2. /\ item.tags = [members |-> ToSet(new.tags), stored |-> ToSet(new.tags)]
      /\ item.origins = [members |-> {}, stored |-> {}] /\ item.groups = [members |-> {}, stored |-> {}]
      /\ DOMAIN item = ItemFields /\ item.trashed = FALSE /\ item.deleted = FALSE
      /\ item.issuer = new.issuer /\ item.account = new.account /\ item.nickname = new.nickname
  BY DEF SetAddAll, EmptySet, ItemFields
<1>3. /\ IsFiniteSet(ToSet(new.tags)) /\ Cardinality(ToSet(new.tags)) <= Len(new.tags)
      /\ Cardinality(ToSet(new.tags)) \in Nat /\ Len(new.tags) \in Nat
  BY InputAssumption, ListIsFinite, LenProperties, FS_CardinalityType
<1>4. /\ LabelOk(new.issuer) /\ LabelOk(new.account)
      /\ Cardinality(ToSet(new.tags)) <= MaxSetEntries /\ MaxSetEntries \in Nat
  BY <1>1, <1>3, EditAssumption DEF Validates
<1>5. IsFiniteSet({}) /\ Cardinality({}) = 0
  BY FS_EmptySet
<1> HIDE DEF item, id
<1>6. \A field \in SetFields : SetOk(item[field])
  <2>1. \A X : IsFiniteSet(X) => SetOk([members |-> X, stored |-> X])
    BY DEF SetOk
  <2>2. SetOk(item.tags) /\ SetOk(item.origins) /\ SetOk(item.groups)
    BY <1>2, <1>3, <1>5, <2>1
  <2>. QED
    BY <2>2 DEF SetFields
<1>7. ItemOk(item)
  <2>1. item.origins.members = {}
    BY <1>2
  <2>3. item.trashed \in BOOLEAN /\ item.deleted \in BOOLEAN
    BY <1>2
  <2>2. LabelOk(item.issuer) /\ LabelOk(item.account)
    BY <1>2, <1>4
  <2>. QED
    BY <1>2, <1>6, <2>1, <2>2, <2>3 DEF ItemOk
<1>8. Bounded(item)
  BY <1>2, <1>4, <1>5 DEF Bounded, SetFields
<1>9. \A other \in DOMAIN entries : IsLive(entries[other]) /\ SameSite(entries[other], item)
        => ~SameNickname(entries[other], item)
  <2>1. \A other \in Cluster(new) : ~SameNickname(entries[other], new)
    BY <1>1 DEF SameSiteError
  <2>. QED
    BY <1>2, <2>1 DEF Cluster, SameSite, SameNickname
<1>. QED
  BY <1>1, <1>7, <1>8, <1>9, CommitKeeps

LEMMA DuplicateKeeps ==
  ASSUME EditInv, NEW id \in DOMAIN entries, NEW new \in NewItems, MergeDuplicate(id, new)
  PROVE  EditInv'
<1> DEFINE old == entries[id]
           item == [old EXCEPT !.nickname = IF new.nickname = NoLabel THEN @ ELSE new.nickname,
                               !.tags = SetAddAll(@, new.tags),
                               !.deleted = @ /\ new.nickname = NoLabel /\ new.tags = <<>>]
<1>1. Commit(id, item) /\ blurred' = blurred \cup {id}
  BY DEF MergeDuplicate
<1>2. ItemOk(old)
  BY DEF EditInv
<1>3. /\ DOMAIN item = ItemFields /\ item.trashed = old.trashed
      /\ item.deleted = (old.deleted /\ new.nickname = NoLabel /\ new.tags = <<>>)
      /\ item.issuer = old.issuer /\ item.account = old.account
      /\ item.tags = SetAddAll(old.tags, new.tags) /\ item.origins = old.origins /\ item.groups = old.groups
  <2> HIDE DEF old
  <2>. QED
    BY <1>2 DEF ItemOk, ItemFields
<1>4. IsFiniteSet(ToSet(new.tags))
  BY InputAssumption, ListIsFinite
<1>5. SetOk(old.tags) /\ SetOk(old.origins) /\ SetOk(old.groups)
  BY <1>2 DEF ItemOk, SetFields
<1> HIDE DEF item, old
<1>6. SetOk(item.tags)
  <2> DEFINE X == old.tags.stored \cup ToSet(new.tags)
             Y == old.tags.members \cup ToSet(new.tags)
  <2>1. item.tags = [members |-> Y, stored |-> X]
    BY <1>3 DEF SetAddAll
  <2>2. IsFiniteSet(X)
    BY <1>4, <1>5, FS_Union DEF SetOk
  <2>3. Y \subseteq X
    BY <1>5 DEF SetOk
  <2> HIDE DEF X, Y
  <2>. QED
    BY <2>1, <2>2, <2>3 DEF SetOk
<1>7. \A field \in SetFields : SetOk(item[field])
  BY <1>3, <1>5, <1>6 DEF SetFields
<1>8. item.deleted \in BOOLEAN
  BY <1>3
<1>9. ItemOk(item)
  BY <1>2, <1>3, <1>7, <1>8 DEF ItemOk
<1>. QED
  BY <1>1, <1>9, CommitKeeps

\* trash_item, delete_item and restore_item change what they say, and nothing else.
LEMMA MarkKeeps ==
  ASSUME EditInv, NEW id \in DOMAIN entries, TrashEntry(id) \/ DeleteEntry(id) \/ RestoreEntry(id)
  PROVE  EditInv'
<1> DEFINE old == entries[id]
<1>1. PICK t \in BOOLEAN, d \in BOOLEAN :
        /\ Commit(id, [old EXCEPT !.trashed = t, !.deleted = d]) /\ blurred \subseteq blurred'
        /\ t \/ d \/ id \in blurred' \/ IsLive(old)
  <2>1. CASE TrashEntry(id)
    BY <2>1 DEF TrashEntry
  <2>2. CASE DeleteEntry(id)
    <3>1. ItemOk(old)
      BY DEF EditInv
    <3>2. [old EXCEPT !.deleted = TRUE] = [old EXCEPT !.trashed = old.trashed, !.deleted = TRUE]
      BY <3>1 DEF ItemOk, ItemFields
    <3>3. old.trashed \in BOOLEAN
      BY <3>1 DEF ItemOk
    <3>. QED
      BY <2>2, <3>2, <3>3 DEF DeleteEntry
  <2>3. CASE RestoreEntry(id)
    BY <2>3 DEF RestoreEntry
  <2>. QED
    BY <2>1, <2>2, <2>3
<1> DEFINE item == [old EXCEPT !.trashed = t, !.deleted = d]
<1>2. ItemOk(old) /\ (id \notin blurred => Bounded(old))
  BY DEF EditInv
<1> HIDE DEF old
<1>3. /\ DOMAIN item = ItemFields /\ item.trashed = t /\ item.deleted = d
      /\ \A field \in ItemFields \ {"trashed", "deleted"} : item[field] = old[field]
  BY <1>2 DEF ItemOk, ItemFields
<1>4. Commit(id, item)
  BY <1>1
<1> HIDE DEF item
<1>5. /\ item.issuer = old.issuer /\ item.account = old.account /\ item.origins = old.origins
      /\ item.nickname = old.nickname
      /\ \A field \in SetFields : item[field] = old[field]
  BY <1>3 DEF ItemFields, SetFields
<1>6. ItemOk(item)
  BY <1>2, <1>3, <1>5 DEF ItemOk
<1>7. id \notin blurred' => Bounded(item)
  BY <1>1, <1>2, <1>5 DEF Bounded
<1>8. ASSUME id \notin blurred', IsLive(item),
             NEW other \in DOMAIN entries \ (blurred' \cup {id}),
             IsLive(entries[other]), SameSite(entries[other], item)
      PROVE  ~SameNickname(entries[other], item)
  <2>1. IsLive(old)
    BY <1>1, <1>3, <1>8 DEF IsLive
  <2>2. SameSite(entries[other], old) /\ (SameNickname(entries[other], item) => SameNickname(old, entries[other]))
    BY <1>5, <1>8 DEF SameSite, SameNickname
  <2>3. other \in Cluster(old) \ (blurred \cup {id}) /\ id \in DOMAIN entries \ blurred
    BY <1>1, <1>8, <2>2 DEF Cluster
  <2>. QED
    BY <2>1, <2>2, <2>3 DEF EditInv, NamesTellApart, old
<1>. QED
  BY <1>1, <1>4, <1>6, <1>7, <1>8, CommitKeeps

\* The fields of an updated item are the old ones, or the asked ones when no neighbour has them.
LEMMA UpdateKeeps ==
  ASSUME EditInv, NEW id \in DOMAIN entries, NEW edit \in EditInputs, NEW fails \in Nat,
         UpdateEntry(id, edit, fails)
  PROVE  EditInv'
<1> DEFINE old == entries[id]
           r == Updated(id, edit, fails)
           error == FieldsError(id, edit, fails = 1)
           fields == Applied(old, edit)
<1>1. /\ Commit(id, r.item) /\ blurred \subseteq blurred'
      /\ old.deleted /\ ~r.item.deleted => id \in blurred'
  BY DEF UpdateEntry
<1>2. ItemOk(old) /\ (id \notin blurred => Bounded(old)) /\ old.deleted \in BOOLEAN
  BY DEF EditInv, ItemOk
<1>3. /\ error # "Ok" => r = [item |-> old, error |-> error]
      /\ error = "Ok" => Applying(fields, edit, DiffsOf(fields, edit), Len(DiffsOf(fields, edit)), r)
  BY <1>2, UpdateComesTo
<1>4. \A field \in SetFields \cup {"trashed"} : fields[field] = old[field]
  BY <1>2, FieldsAreWritten
<1>5. error = "Ok" => ~Ambiguous(id, fields)
  BY DEF FieldsError
<1>6. Bounded(old) => Bounded(fields)
  <2> HIDE DEF fields, old
  <2>. QED
    BY <1>4 DEF Bounded
<1>7. error = "Ok" => /\ r.item.issuer = fields.issuer /\ r.item.account = fields.account
                      /\ r.item.nickname = fields.nickname /\ r.item.trashed = old.trashed
                      /\ ItemOk(r.item) /\ (Bounded(fields) => Bounded(r.item))
  <2> HIDE DEF fields, old, r, error
  <2>1. {"issuer", "account", "nickname", "trashed"} \subseteq ItemFields \ (SetFields \cup {"deleted"})
    BY DEF ItemFields, SetFields
  <2>. QED
    BY <1>3, <1>4, <2>1 DEF Applying
<1> DEFINE item == r.item
<1> HIDE DEF fields, old, r, error
<1>8. ItemOk(item) /\ (id \notin blurred' => Bounded(item)) /\ item.trashed = old.trashed
  <2>1. CASE error = "Ok"
    BY <1>1, <1>2, <1>6, <1>7, <2>1
  <2>2. CASE error # "Ok"
    BY <1>1, <1>2, <1>3, <2>2
  <2>. QED
    BY <2>1, <2>2
<1>9. ASSUME id \notin blurred', IsLive(item),
             NEW other \in DOMAIN entries \ (blurred' \cup {id}),
             IsLive(entries[other]), SameSite(entries[other], item)
      PROVE  ~SameNickname(entries[other], item)
  <2>1. CASE error = "Ok"
    <3>1. SameSite(entries[other], fields) /\ (SameNickname(entries[other], item) => SameNickname(entries[other], fields))
      BY <1>7, <1>9, <2>1 DEF SameSite, SameNickname
    <3>2. other \in Cluster(fields) \ {id}
      BY <1>9, <3>1 DEF Cluster
    <3>. QED
      BY <1>5, <2>1, <3>1, <3>2 DEF Ambiguous
  <2>2. CASE error # "Ok"
    <3>1. item = old
      BY <1>3, <2>2
    <3>2. IsLive(old) /\ SameSite(entries[other], old)
      BY <1>9, <3>1
    <3>3. other \in Cluster(old) \ (blurred \cup {id}) /\ id \in DOMAIN entries \ blurred
      BY <1>1, <1>9, <3>2 DEF Cluster
    <3>. QED
      BY <3>1, <3>2, <3>3 DEF EditInv, NamesTellApart, SameNickname, old
  <2>. QED
    BY <2>1, <2>2
<1>. QED
  BY <1>1, <1>8, <1>9, CommitKeeps

\* An update does what it was asked for, or a part of it.
LEMMA UpdateDoesIt ==
  ASSUME EditInv, NEW id \in DOMAIN entries, NEW edit \in EditInputs, NEW fails \in Nat,
         UpdateEntry(id, edit, fails)
  PROVE  UpdateDoesItsPart'
<1> DEFINE old == entries[id]
           r == Updated(id, edit, fails)
           error == FieldsError(id, edit, fails = 1)
           fields == Applied(old, edit)
           steps == DiffsOf(fields, edit)
<1>1. /\ entries'[id] = r.item
      /\ lastUpdate' = [id |-> id, before |-> old, edit |-> edit, error |-> r.error]
  BY DEF UpdateEntry, Commit
<1>2. ItemOk(old)
  BY DEF EditInv
<1>3. /\ error # "Ok" => r = [item |-> old, error |-> error]
      /\ error = "Ok" => /\ Applying(fields, edit, steps, Len(steps), r) /\ ItemOk(fields)
                         /\ ToSet(steps) = StepsAsked(fields, edit) /\ steps \in Seq(StepsAsked(fields, edit))
  BY <1>2, UpdateComesTo
<1>4. /\ \A field \in SetFields : fields[field] = old[field]
      /\ \A field \in {"nickname", "note"} \cap edit.clear : fields[field] = NoLabel
  BY <1>2, FieldsAreWritten
<1>5. /\ ApplyError(edit) # "Ok" => error # "Ok"
      /\ "AmbiguousAccount" \notin Errors
  BY DEF FieldsError, Errors
<1> HIDE DEF r, error, fields, steps, old
<1>6. \A field \in {"tags", "groups"} \cap DOMAIN edit :
        field \in SetFields /\ ToldApart(fields, edit, field) /\ Wanted(edit, field) = ToSet(edit[field])
  BY DEF ToldApart, Wanted, Stored, SetFields
<1>7. (ApplyError(edit) # "Ok" \/ r.error = "AmbiguousAccount") => r.item = old
  BY <1>3, <1>5 DEF Applying
<1>8. ASSUME NEW field \in {"tags", "groups"} \cap DOMAIN edit
      PROVE  /\ old[field].members \cap ToSet(edit[field]) \subseteq r.item[field].members
             /\ r.item[field].members \subseteq old[field].members \cup ToSet(edit[field])
  <2>1. CASE error # "Ok"
    BY <1>3, <2>1
  <2>2. CASE error = "Ok"
    BY <1>3, <1>4, <1>6, <2>2 DEF Applying
  <2>. QED
    BY <2>1, <2>2
<1>9. FailedEditIsPartial'
  <2>1. /\ lastUpdate'.id = id /\ lastUpdate'.before = old /\ lastUpdate'.edit = edit
        /\ lastUpdate'.error = r.error
    BY <1>1
  <2>. QED
    BY <1>1, <1>7, <1>8, <2>1 DEF FailedEditIsPartial
<1>10. ASSUME r.error = "Ok"
       PROVE  /\ \A field \in {"tags", "groups"} \cap DOMAIN edit : r.item[field].members = ToSet(edit[field])
              /\ "origins" \in DOMAIN edit =>
                   \/ r.item.origins.members = {FoldLabel(o) : o \in ToSet(edit.origins)}
                   \/ \E o \in ToSet(edit.origins) : o # FoldLabel(o) /\ FoldLabel(o) \in old.origins.members
              /\ \A field \in {"nickname", "note"} \cap edit.clear : r.item[field] = NoLabel
  <2>1. error = "Ok"
    BY <1>3, <1>10
  <2>2. \A field \in SetFields \cap DOMAIN edit :
          ToldApart(fields, edit, field) => r.item[field].members = Wanted(edit, field)
    BY <1>3, <1>10, <2>1, WrittenIsWanted
  <2>3. \A field \in {"tags", "groups"} \cap DOMAIN edit : r.item[field].members = ToSet(edit[field])
    BY <1>6, <2>2
  <2>4. ASSUME "origins" \in DOMAIN edit,
               ~\E o \in ToSet(edit.origins) : o # FoldLabel(o) /\ FoldLabel(o) \in old.origins.members
        PROVE  r.item.origins.members = {FoldLabel(o) : o \in ToSet(edit.origins)}
    <3>1. "origins" \in SetFields /\ fields.origins = old.origins
      BY <1>4 DEF SetFields
    <3>2. ToldApart(fields, edit, "origins") /\ Wanted(edit, "origins") = {FoldLabel(o) : o \in ToSet(edit.origins)}
      BY <2>4, <3>1 DEF ToldApart, Wanted, Stored
    <3>. QED
      BY <2>2, <2>4, <3>1, <3>2
  <2>5. \A field \in {"nickname", "note"} \cap edit.clear : r.item[field] = NoLabel
    <3>1. {"nickname", "note"} \subseteq ItemFields \ (SetFields \cup {"deleted"})
      BY DEF ItemFields, SetFields
    <3>. QED
      BY <1>3, <1>4, <2>1, <3>1 DEF Applying
  <2>. QED
    BY <2>3, <2>4, <2>5
<1>11. EditDoesWhatIsAsked'
  <2>1. /\ lastUpdate'.id = id /\ lastUpdate'.before = old /\ lastUpdate'.edit = edit
        /\ lastUpdate'.error = r.error
    BY <1>1
  <2>. QED
    BY <1>1, <1>10, <2>1 DEF EditDoesWhatIsAsked
<1>. QED
  BY <1>9, <1>11 DEF UpdateDoesItsPart

LEMMA EditStep ==
  ASSUME EditInv, UpdateDoesItsPart, [EditNext]_editVars
  PROVE  EditInv' /\ UpdateDoesItsPart'
<1>0. lastUpdate' = NoLabel => UpdateDoesItsPart'
  BY DEF UpdateDoesItsPart, FailedEditIsPartial, EditDoesWhatIsAsked
<1>1. ASSUME NEW new \in NewItems, AddEntry(new) PROVE EditInv' /\ lastUpdate' = NoLabel
  BY <1>1, AddKeeps DEF AddEntry
<1>2. ASSUME NEW id \in DOMAIN entries, NEW new \in NewItems, MergeDuplicate(id, new)
      PROVE  EditInv' /\ lastUpdate' = NoLabel
  BY <1>2, DuplicateKeeps DEF MergeDuplicate
<1>3. ASSUME NEW id \in DOMAIN entries, NEW edit \in EditInputs, NEW fails \in 0 .. MaxWritesOfOne,
             UpdateEntry(id, edit, fails)
      PROVE  EditInv' /\ UpdateDoesItsPart'
  BY <1>3, UpdateKeeps, UpdateDoesIt
<1>4. ASSUME NEW id \in DOMAIN entries, TrashEntry(id) \/ DeleteEntry(id) \/ RestoreEntry(id)
      PROVE  EditInv' /\ lastUpdate' = NoLabel
  BY <1>4, MarkKeeps DEF TrashEntry, DeleteEntry, RestoreEntry
<1>5. ASSUME NEW g \in GroupIds, AddGroup(g) PROVE EditInv' /\ lastUpdate' = NoLabel
  BY <1>5 DEF AddGroup, EditInv, NamesTellApart, Cluster
<1>6. ASSUME UNCHANGED editVars PROVE EditInv' /\ UpdateDoesItsPart'
  BY <1>6 DEF editVars, EditInv, NamesTellApart, Cluster, UpdateDoesItsPart, FailedEditIsPartial, EditDoesWhatIsAsked
<1>. QED
  BY <1>0, <1>1, <1>2, <1>3, <1>4, <1>5, <1>6 DEF EditNext

(***************************************************************************)
(* For every set of items and edits a user may ask for, and wherever the   *)
(* storage fails: labels stay usable, the sets within their limit and the  *)
(* live items of a site apart (check_room, AmbiguousAccount).              *)
(***************************************************************************)
THEOREM EntriesStayInOrder == EditSpec => []EntriesInOrder
<1>1. EditInit => EditInv /\ UpdateDoesItsPart
  BY DEF EditInit, EditInv, NamesTellApart, UpdateDoesItsPart, FailedEditIsPartial, EditDoesWhatIsAsked
<1>2. EditInv => EntriesInOrder
  <2>1. SetFields = {"groups", "tags", "origins"}
    BY DEF SetFields
  <2>. QED
    BY <2>1 DEF EditInv, EntriesInOrder, EditTypeOK, ItemOk, SetOk, Bounded
<1>. QED
  BY <1>1, <1>2, EditStep, PTL DEF EditSpec

(***************************************************************************)
(* An update leaves the sets that were asked for, or, when it fails half   *)
(* way, nothing that was neither there nor asked for (do_update).          *)
(***************************************************************************)
THEOREM UpdatesDoTheirPart == EditSpec => []UpdateDoesItsPart
<1>1. EditInit => EditInv /\ UpdateDoesItsPart
  BY DEF EditInit, EditInv, NamesTellApart, UpdateDoesItsPart, FailedEditIsPartial, EditDoesWhatIsAsked
<1>. QED
  BY <1>1, EditStep, PTL DEF EditSpec

(***************************************************************************)
(* One-time passwords.                                                     *)
(***************************************************************************)
\* Division by a period.
LEMMA Quotient ==
  ASSUME NEW x \in Nat, NEW y \in Nat, y > 0
  PROVE  /\ x \div y \in Nat
         /\ (x \div y) * y <= x /\ x < (x \div y) * y + y
  OBVIOUS

LEMMA QuotientOf ==
  ASSUME NEW q \in Nat, NEW y \in Nat, y > 0
  PROVE  (q * y) \div y = q
  OBVIOUS

(***************************************************************************)
(* Configurations.                                                         *)
(***************************************************************************)

\* What a field of a configuration may be, for a kind.
MayBe(kind, field, v) ==
  /\ field = "kind" => v = kind
  /\ field = "secret" => CheckLen(v) = None
  /\ field = "algorithm" => v \in Algorithms /\ v = OrElse(FixedAlgorithm(kind), v)
  /\ field = "digits" => DigitsOk(v) /\ v = OrElse(FixedDigits(kind), v)
  /\ field = "period" => PeriodOk(v) /\ v = OrElse(FixedPeriod(kind), v)
  /\ field = "counter" => v \in 0 .. MaxU64 /\ v = (IF UsesCounter(kind) THEN v ELSE 0)
  /\ field = "pin" => v # << >> /\ v = (IF UsesPin(kind) THEN v ELSE None)
ConfigOk(c) ==
  /\ c = [f \in ConfigFields |-> c[f]] /\ c.kind \in Kinds
  /\ \A field \in ConfigFields : MayBe(c.kind, field, c[field])

\* That is the form WithKind leaves alone.
InForm(c) ==
  /\ c.kind \in Kinds /\ c.algorithm \in Algorithms /\ CheckLen(c.secret) = None
  /\ DigitsOk(c.digits) /\ PeriodOk(c.period) /\ c.counter \in 0 .. MaxU64
  /\ c = WithKind(c, c.kind) /\ c.pin # << >> /\ DOMAIN c = ConfigFields
LEMMA FormIsFixed ==
  ASSUME NEW c, DOMAIN c = ConfigFields
  PROVE  ConfigOk(c) <=> InForm(c)
<1> DEFINE w == WithKind(c, c.kind)
<1>1. /\ DOMAIN w = ConfigFields /\ w.kind = c.kind /\ w.secret = c.secret
      /\ w.algorithm = OrElse(FixedAlgorithm(c.kind), c.algorithm)
      /\ w.digits = OrElse(FixedDigits(c.kind), c.digits) /\ w.period = OrElse(FixedPeriod(c.kind), c.period)
      /\ w.counter = (IF UsesCounter(c.kind) THEN c.counter ELSE 0)
      /\ w.pin = (IF UsesPin(c.kind) THEN c.pin ELSE None)
  BY DEF WithKind, ConfigFields
<1>2. w = [f \in ConfigFields |-> w[f]]
  BY <1>1 DEF WithKind
<1> HIDE DEF w
<1>3. ASSUME ConfigOk(c)
      PROVE  /\ c.kind \in Kinds /\ c.algorithm \in Algorithms /\ CheckLen(c.secret) = None
             /\ DigitsOk(c.digits) /\ PeriodOk(c.period) /\ c.counter \in 0 .. MaxU64
             /\ c = w /\ c.pin # << >>
  <2>1. \A f \in ConfigFields : MayBe(c.kind, f, c[f])
    BY <1>3 DEF ConfigOk
  <2>2. /\ c.algorithm \in Algorithms /\ CheckLen(c.secret) = None /\ DigitsOk(c.digits)
        /\ PeriodOk(c.period) /\ c.counter \in 0 .. MaxU64 /\ c.pin # << >>
    BY <2>1 DEF MayBe, ConfigFields
  <2>3. \A f \in ConfigFields : w[f] = c[f]
    BY <1>1, <2>1 DEF MayBe, ConfigFields
  <2>4. c = [f \in ConfigFields |-> c[f]] /\ c.kind \in Kinds
    BY <1>3 DEF ConfigOk
  <2>. QED
    BY <1>2, <2>2, <2>3, <2>4
<1>4. ASSUME c.kind \in Kinds, c.algorithm \in Algorithms, CheckLen(c.secret) = None,
             DigitsOk(c.digits), PeriodOk(c.period), c.counter \in 0 .. MaxU64, c = w, c.pin # << >>
      PROVE  ConfigOk(c)
  <2>1. c = [f \in ConfigFields |-> c[f]]
    BY <1>2, <1>4
  <2>2. /\ c.algorithm = OrElse(FixedAlgorithm(c.kind), c.algorithm)
        /\ c.digits = OrElse(FixedDigits(c.kind), c.digits) /\ c.period = OrElse(FixedPeriod(c.kind), c.period)
        /\ c.counter = (IF UsesCounter(c.kind) THEN c.counter ELSE 0)
        /\ c.pin = (IF UsesPin(c.kind) THEN c.pin ELSE None)
    BY <1>1, <1>4
  <2>3. \A f \in ConfigFields : MayBe(c.kind, f, c[f])
    <3>1. MayBe(c.kind, "algorithm", c.algorithm) /\ MayBe(c.kind, "digits", c.digits)
      BY <1>4, <2>2 DEF MayBe
    <3>2. MayBe(c.kind, "period", c.period) /\ MayBe(c.kind, "counter", c.counter)
      BY <1>4, <2>2 DEF MayBe
    <3>3. MayBe(c.kind, "pin", c.pin) /\ MayBe(c.kind, "kind", c.kind) /\ MayBe(c.kind, "secret", c.secret)
      BY <1>4, <2>2 DEF MayBe
    <3>. QED
      BY <3>1, <3>2, <3>3 DEF ConfigFields
  <2>. QED
    BY <1>4, <2>1, <2>3 DEF ConfigOk
<1>. QED
  BY <1>3, <1>4 DEF w, InForm

\* A field that fits may be set.
LEMMA FieldMayBeSet ==
  ASSUME NEW c, ConfigOk(c), NEW field \in ConfigFields \ {"kind"}, NEW v, MayBe(c.kind, field, v)
  PROVE  ConfigOk([c EXCEPT ![field] = v])
<1> DEFINE e == [c EXCEPT ![field] = v]
<1>1. c = [f \in ConfigFields |-> c[f]] /\ c.kind \in Kinds /\ \A f \in ConfigFields : MayBe(c.kind, f, c[f])
  BY DEF ConfigOk
<1>2. e = [f \in ConfigFields |-> e[f]] /\ e[field] = v /\ \A f \in ConfigFields \ {field} : e[f] = c[f]
  BY <1>1
<1>3. "kind" \in ConfigFields
  BY DEF ConfigFields
<1> HIDE DEF e
<1>4. e.kind = c.kind
  BY <1>2, <1>3
<1>5. ConfigOk(e)
  BY <1>1, <1>2, <1>4 DEF ConfigOk
<1>. QED
  BY <1>5 DEF e

LEMMA KindsFix ==
  ASSUME NEW kind \in Kinds
  PROVE  /\ DefaultAlgorithm(kind) \in Algorithms /\ FixedAlgorithm(kind) \in Algorithms \cup {None}
         /\ DigitsOk(DefaultDigits(kind)) /\ (FixedDigits(kind) # None => DigitsOk(FixedDigits(kind)))
         /\ PeriodOk(DefaultPeriod(kind)) /\ (FixedPeriod(kind) # None => PeriodOk(FixedPeriod(kind)))
<1>1. DefaultAlgorithm(kind) \in Algorithms
  BY DEF DefaultAlgorithm, Algorithms
<1>2. DigitsOk(DefaultDigits(kind))
  BY DEF DefaultDigits, Kinds, DigitsOk
<1>3. PeriodOk(DefaultPeriod(kind))
  BY DEF DefaultPeriod, PeriodOk
<1>. QED
  BY <1>1, <1>2, <1>3 DEF FixedAlgorithm, FixedDigits, FixedPeriod

LEMMA AlgorithmFits ==
  ASSUME NEW kind \in Kinds, NEW v \in Algorithms
  PROVE  MayBe(kind, "algorithm", OrElse(FixedAlgorithm(kind), v))
  BY KindsFix DEF MayBe, OrElse

LEMMA DigitsFit ==
  ASSUME NEW kind \in Kinds, NEW v, DigitsOk(v)
  PROVE  MayBe(kind, "digits", OrElse(FixedDigits(kind), v))
<1>1. DigitsOk(OrElse(FixedDigits(kind), v))
  BY KindsFix DEF OrElse
<1>. QED
  BY <1>1 DEF MayBe, OrElse

LEMMA PeriodFits ==
  ASSUME NEW kind \in Kinds, NEW v, PeriodOk(v)
  PROVE  MayBe(kind, "period", OrElse(FixedPeriod(kind), v))
<1>1. PeriodOk(OrElse(FixedPeriod(kind), v))
  BY KindsFix DEF OrElse
<1>. QED
  BY <1>1 DEF MayBe, OrElse

LEMMA CounterFits ==
  ASSUME NEW kind \in Kinds, NEW v \in 0 .. MaxU64
  PROVE  MayBe(kind, "counter", IF UsesCounter(kind) THEN v ELSE 0)
  BY OtpAssumption DEF MayBe

LEMMA PinFits ==
  ASSUME NEW kind \in Kinds, NEW v
  PROVE  MayBe(kind, "pin", KeptPin(kind, v))
  BY NoneAssumption DEF MayBe, KeptPin

LEMMA Results ==
  \A v : IsOk(Ok(v)) /\ Ok(v).ok = v /\ ~IsOk(Err(v)) /\ Err(v).err = v
  BY DEF IsOk, Ok, Err

\* The configuration that the builder makes of b.
IsBuilt(b, c) ==
  /\ c = [f \in ConfigFields |-> c[f]] /\ c.kind = b.kind /\ c.secret = b.secret
  /\ c.algorithm = OrElse(FixedAlgorithm(b.kind), OrElse(b.algorithm, DefaultAlgorithm(b.kind)))
  /\ c.digits = OrElse(FixedDigits(b.kind), OrElse(b.digits, DefaultDigits(b.kind)))
  /\ c.period = OrElse(FixedPeriod(b.kind), OrElse(b.period, DefaultPeriod(b.kind)))
  /\ c.counter = (IF UsesCounter(b.kind) THEN b.counter ELSE 0)
  /\ c.pin = KeptPin(b.kind, b.pin)

\* A configuration that is built is in the form of its kind; the errors are the builder's.
LEMMA BuiltIsOk ==
  ASSUME NEW b, b = [f \in ConfigFields |-> b[f]], b.kind \in Kinds, b.algorithm \in Algorithms \cup {None},
         b.counter \in 0 .. MaxU64
  PROVE  \/ \E e : Build(b) = Ok(e) /\ ConfigOk(e) /\ IsBuilt(b, e)
         \/ /\ \E e \in OtpErrors : Build(b) = Err(e)
            /\ ~(/\ CheckLen(b.secret) = None /\ DigitsOk(OrElse(b.digits, DefaultDigits(b.kind)))
                 /\ PeriodOk(OrElse(b.period, DefaultPeriod(b.kind))))
<1> DEFINE digits == OrElse(b.digits, DefaultDigits(b.kind))
           period == OrElse(b.period, DefaultPeriod(b.kind))
           c == [b EXCEPT
                   !.algorithm = OrElse(FixedAlgorithm(b.kind), OrElse(@, DefaultAlgorithm(b.kind))),
                   !.digits = OrElse(FixedDigits(b.kind), digits),
                   !.period = OrElse(FixedPeriod(b.kind), period),
                   !.counter = IF UsesCounter(b.kind) THEN @ ELSE 0,
                   !.pin = KeptPin(b.kind, @)]
<1>1. \/ Build(b) = Err(CheckLen(b.secret)) /\ CheckLen(b.secret) # None
      \/ Build(b) = Err("InvalidDigits") /\ ~DigitsOk(digits)
      \/ Build(b) = Err("InvalidPeriod") /\ ~PeriodOk(period)
      \/ Build(b) = Ok(c) /\ CheckLen(b.secret) = None /\ DigitsOk(digits) /\ PeriodOk(period)
  <2> HIDE DEF digits, period
  <2>1. CASE CheckLen(b.secret) # None
    BY <2>1 DEF Build
  <2>2. CASE CheckLen(b.secret) = None /\ ~DigitsOk(digits)
    BY <2>2 DEF Build, digits
  <2>3. CASE CheckLen(b.secret) = None /\ DigitsOk(digits) /\ ~PeriodOk(period)
    BY <2>3 DEF Build, digits, period
  <2>4. CASE CheckLen(b.secret) = None /\ DigitsOk(digits) /\ PeriodOk(period)
    BY <2>4 DEF Build, digits, period
  <2>. QED
    BY <2>1, <2>2, <2>3, <2>4
<1>2. /\ DOMAIN c = ConfigFields /\ c.kind = b.kind /\ c.secret = b.secret
      /\ c.algorithm = OrElse(FixedAlgorithm(b.kind), OrElse(b.algorithm, DefaultAlgorithm(b.kind)))
      /\ c.digits = OrElse(FixedDigits(b.kind), digits) /\ c.period = OrElse(FixedPeriod(b.kind), period)
      /\ c.counter = (IF UsesCounter(b.kind) THEN b.counter ELSE 0)
      /\ c.pin = KeptPin(b.kind, b.pin)
  <2> HIDE DEF digits, period
  <2>. QED
    BY DEF ConfigFields
<1>3. c = [f \in ConfigFields |-> c[f]]
  <2> HIDE DEF digits, period
  <2>1. c = [f \in DOMAIN c |-> c[f]]
    BY Zenon
  <2> HIDE DEF c
  <2>. QED
    BY <1>2, <2>1
<1> HIDE DEF c, digits, period
<1>4. ASSUME CheckLen(b.secret) = None, DigitsOk(digits), PeriodOk(period) PROVE ConfigOk(c)
  <2>1. OrElse(b.algorithm, DefaultAlgorithm(b.kind)) \in Algorithms
    BY KindsFix DEF OrElse
  <2>2. /\ MayBe(b.kind, "algorithm", c.algorithm) /\ MayBe(b.kind, "digits", c.digits)
        /\ MayBe(b.kind, "period", c.period) /\ MayBe(b.kind, "counter", c.counter) /\ MayBe(b.kind, "pin", c.pin)
    <3>2. MayBe(b.kind, "algorithm", c.algorithm) /\ MayBe(b.kind, "digits", c.digits)
      BY <1>2, <1>4, <2>1, AlgorithmFits, DigitsFit
    <3>3. MayBe(b.kind, "period", c.period)
      BY <1>2, <1>4, PeriodFits
    <3>4. MayBe(b.kind, "counter", c.counter) /\ MayBe(b.kind, "pin", c.pin)
      BY <1>2, CounterFits, PinFits
    <3>. QED
      BY <3>2, <3>3, <3>4
  <2>3. MayBe(b.kind, "kind", c.kind) /\ MayBe(b.kind, "secret", c.secret)
    BY <1>2, <1>4 DEF MayBe
  <2>4. \A f \in ConfigFields : MayBe(c.kind, f, c[f])
    BY <1>2, <2>2, <2>3 DEF ConfigFields
  <2>. QED
    BY <1>2, <1>3, <2>4 DEF ConfigOk
<1>5. CheckLen(b.secret) # None => CheckLen(b.secret) \in OtpErrors
  BY DEF CheckLen, OtpErrors
<1>6. "InvalidDigits" \in OtpErrors /\ "InvalidPeriod" \in OtpErrors
  BY DEF OtpErrors
<1>7. IsBuilt(b, c)
  BY <1>2, <1>3 DEF IsBuilt, digits, period
<1>8. CASE Build(b) = Ok(c) /\ CheckLen(b.secret) = None /\ DigitsOk(digits) /\ PeriodOk(period)
  BY <1>4, <1>7, <1>8
<1>9. CASE ~(CheckLen(b.secret) = None /\ DigitsOk(digits) /\ PeriodOk(period))
  BY <1>1, <1>5, <1>6, <1>9 DEF digits, period
<1>. QED
  BY <1>1, <1>8, <1>9

\* The setters keep the form.
IsSetter(c, r) ==
  \/ \E d : r = SetDigits(c, d)
  \/ \E p : r = SetPeriod(c, p)
  \/ \E a \in Algorithms : r = SetAlgorithm(c, a)
  \/ \E n \in 0 .. MaxU64 : r = SetCounter(c, n)
  \/ \E p : r = SetPin(c, p)
  \/ \E s : r = SetSecret(c, s)

LEMMA SettersKeep ==
  ASSUME NEW c, ConfigOk(c), NEW r, IsSetter(c, r)
  PROVE  \/ \E e : r = Ok(e) /\ ConfigOk(e)
         \/ \E e \in OtpErrors : r = Err(e)
<1>1. {"digits", "period", "algorithm", "counter", "pin", "secret"} \subseteq ConfigFields \ {"kind"} /\ c.kind \in Kinds
  BY DEF ConfigFields, ConfigOk
<1>2. {"InvalidDigits", "InvalidPeriod"} \subseteq OtpErrors
  BY DEF OtpErrors
<1>3. ASSUME NEW d, r = SetDigits(c, d) PROVE (\E e : r = Ok(e) /\ ConfigOk(e)) \/ \E e \in OtpErrors : r = Err(e)
  <2>1. CASE DigitsOk(d)
    <3> DEFINE v == OrElse(FixedDigits(c.kind), d)
    <3>1. r = Ok([c EXCEPT !.digits = v])
      BY <1>3, <2>1 DEF SetDigits
    <3>3. MayBe(c.kind, "digits", v)
      BY <1>1, <2>1, DigitsFit
    <3> HIDE DEF v
    <3>. QED
      BY <1>1, <3>1, <3>3, FieldMayBeSet
  <2>2. CASE ~DigitsOk(d)
    BY <1>2, <1>3, <2>2 DEF SetDigits
  <2>. QED
    BY <2>1, <2>2
<1>4. ASSUME NEW p, r = SetPeriod(c, p) PROVE (\E e : r = Ok(e) /\ ConfigOk(e)) \/ \E e \in OtpErrors : r = Err(e)
  <2>1. CASE PeriodOk(p)
    <3> DEFINE v == OrElse(FixedPeriod(c.kind), p)
    <3>1. r = Ok([c EXCEPT !.period = v])
      BY <1>4, <2>1 DEF SetPeriod
    <3>3. MayBe(c.kind, "period", v)
      BY <1>1, <2>1, PeriodFits
    <3> HIDE DEF v
    <3>. QED
      BY <1>1, <3>1, <3>3, FieldMayBeSet
  <2>2. CASE ~PeriodOk(p)
    BY <1>2, <1>4, <2>2 DEF SetPeriod
  <2>. QED
    BY <2>1, <2>2
<1>5. ASSUME NEW a \in Algorithms, r = SetAlgorithm(c, a) PROVE \E e : r = Ok(e) /\ ConfigOk(e)
  BY <1>1, <1>5, AlgorithmFits, FieldMayBeSet DEF SetAlgorithm
<1>6. ASSUME NEW n \in 0 .. MaxU64, r = SetCounter(c, n) PROVE \E e : r = Ok(e) /\ ConfigOk(e)
  <2>1. CASE UsesCounter(c.kind)
    <3>1. MayBe(c.kind, "counter", n)
      BY <2>1 DEF MayBe
    <3>. QED
      BY <1>1, <1>6, <2>1, <3>1, FieldMayBeSet DEF SetCounter
  <2>2. CASE ~UsesCounter(c.kind)
    BY <1>6, <2>2 DEF SetCounter
  <2>. QED
    BY <2>1, <2>2
<1>7. ASSUME NEW p, r = SetPin(c, p) PROVE \E e : r = Ok(e) /\ ConfigOk(e)
  BY <1>1, <1>7, PinFits, FieldMayBeSet DEF SetPin
<1>8. ASSUME NEW s, r = SetSecret(c, s) PROVE (\E e : r = Ok(e) /\ ConfigOk(e)) \/ \E e \in OtpErrors : r = Err(e)
  <2>1. CASE CheckLen(s) = None
    <3>1. MayBe(c.kind, "secret", s)
      BY <2>1 DEF MayBe
    <3>. QED
      BY <1>1, <1>8, <2>1, <3>1, FieldMayBeSet DEF SetSecret
  <2>2. CASE CheckLen(s) # None
    <3>1. r = Err(CheckLen(s)) /\ CheckLen(s) \in OtpErrors
      BY <1>8, <2>2 DEF SetSecret, CheckLen, OtpErrors
    <3>. QED
      BY <3>1
  <2>. QED
    BY <2>1, <2>2
<1>. QED
  BY <1>3, <1>4, <1>5, <1>6, <1>7, <1>8 DEF IsSetter

\* What the parameters of a URI ask for.
Asked(uri) ==
  [kind |-> FromUriType(uri.type), secret |-> Param(uri.query, "secret").pct,
   algorithm |-> Param(uri.query, "algorithm"), digits |-> Param(uri.query, "digits"),
   period |-> Param(uri.query, "period"), counter |-> OrElse(Param(uri.query, "counter"), 0),
   pin |-> IF HasParam(uri.query, "pin") THEN Param(uri.query, "pin").pct ELSE None]
\* The URI is read as u, with the warnings w.
Reads(uri, u, w) ==
  /\ ParseWithWarnings(uri) = Ok([uri |-> u, warnings |-> w])
  /\ ConfigOk(u.config) /\ u = [f \in UriFields |-> u[f]]
  /\ UriProblem(uri, FromUriType(uri.type)) = None /\ FromUriType(uri.type) \in Kinds
  /\ IsBuilt(Asked(uri), u.config)
  /\ u.issuer = Issuer(uri) /\ u.account = Account(uri) /\ u.extra = Extra(uri.query)
  /\ w = Warnings(uri, FromUriType(uri.type)) /\ UriFits(ToUri(u))
\* The URI is read as a configuration c that is then found too long to be written.
TooLongWith(uri, c) ==
  /\ Build(Asked(uri)) = Ok(c)
  /\ ~UriFits(ToUri([config |-> c, issuer |-> Issuer(uri), account |-> Account(uri), extra |-> Extra(uri.query)]))

\* What is read from a URI is in form; a number that is read is one.
LEMMA UriIsRead ==
  ASSUME NEW uri
  PROVE  \/ \E e \in OtpErrors \cup UriErrors :
              /\ ParseWithWarnings(uri) = Err(e)
              /\ UriProblem(uri, FromUriType(uri.type)) = None =>
                   Build(Asked(uri)) = Err(e) \/ \E c : TooLongWith(uri, c)
         \/ \E u, w : Reads(uri, u, w)
<1> DEFINE kind == FromUriType(uri.type)
           value(name) == Param(uri.query, name)
           pin == IF HasParam(uri.query, "pin") THEN value("pin").pct ELSE None
           counter == OrElse(value("counter"), 0)
           built == Constructed(kind, value("secret").pct, value("algorithm"), value("digits"),
                                value("period"), counter, pin)
           problem == UriProblem(uri, kind)
<1>1. ASSUME problem # None PROVE problem \in OtpErrors \cup UriErrors
  <2>1. StripScheme(uri) \in {None, "MigrationUri", "NotOtpauth"}
    BY DEF StripScheme
  <2>0. QueryProblem(uri.query) \in {None, "DuplicateParam", "ControlChar"}
    BY DEF QueryProblem
  <2>2. problem \in {"TooLong", StripScheme(uri), "UnknownKind", "ControlChar", QueryProblem(uri.query), "MissingParam",
                     "InvalidParam", "InvalidDigits", "InvalidPeriod", None}
    BY DEF UriProblem
  <2> HIDE DEF problem
  <2>3. StripScheme(uri) # None => StripScheme(uri) \in UriErrors
    BY <2>1 DEF UriErrors
  <2>4. {"TooLong", "UnknownKind", "ControlChar", "DuplicateParam", "MissingParam", "InvalidParam"} \subseteq UriErrors
        /\ {"InvalidDigits", "InvalidPeriod"} \subseteq OtpErrors
    BY DEF UriErrors, OtpErrors
  <2>. QED
    BY <1>1, <2>0, <2>2, <2>3, <2>4
<1>2. ASSUME problem = None
      PROVE  /\ kind # None /\ value("algorithm") \in Algorithms \cup {None}
             /\ NumberOk(value("counter"), MaxU64 + 1)
  <2>1. /\ "UnknownKind" # None /\ "InvalidParam" # None /\ "ControlChar" # None /\ "DuplicateParam" # None
        /\ "MissingParam" # None /\ "InvalidDigits" # None /\ "InvalidPeriod" # None /\ "TooLong" # None
    BY NoneAssumption DEF OtpErrors, UriErrors
  <2> HIDE DEF kind
  <2>. QED
    BY <1>2, <2>1 DEF UriProblem
<1>3. kind # None => kind \in Kinds
  BY DEF FromUriType, Kinds
<1> HIDE DEF problem
<1>4. CASE problem # None
  <2>1. ParseWithWarnings(uri) = Err(problem)
    BY <1>4 DEF ParseWithWarnings, problem
  <2>. QED
    BY <1>1, <1>4, <2>1 DEF problem
<1>5. CASE problem = None
  <2> DEFINE b == [kind |-> kind, secret |-> value("secret").pct, algorithm |-> value("algorithm"),
                   digits |-> value("digits"), period |-> value("period"), counter |-> counter, pin |-> pin]
  <2>1. built = Build(b)
    <3> HIDE DEF kind, value, pin, counter
    <3>1. b = [Builder(kind, value("secret").pct) EXCEPT !.algorithm = value("algorithm"),
                 !.digits = value("digits"), !.period = value("period"), !.counter = counter, !.pin = pin]
      <4> DEFINE d == Builder(kind, value("secret").pct)
                 e == [d EXCEPT !.algorithm = value("algorithm"), !.digits = value("digits"),
                                !.period = value("period"), !.counter = counter, !.pin = pin]
      <4>1. d = [kind |-> kind, secret |-> value("secret").pct, algorithm |-> None, digits |-> None,
                 period |-> None, counter |-> 0, pin |-> None]
        BY DEF Builder
      <4> HIDE DEF d
      <4>2. /\ DOMAIN e = DOMAIN b /\ e.kind = kind /\ e.secret = value("secret").pct /\ e.algorithm = value("algorithm")
            /\ e.digits = value("digits") /\ e.period = value("period") /\ e.counter = counter /\ e.pin = pin
        BY <4>1
      <4>3. e = [f \in DOMAIN b |-> e[f]]
        BY <4>1
      <4> HIDE DEF e
      <4>4. e = b
        BY <4>2, <4>3
      <4>. QED
        BY <4>4 DEF e, d
    <3>. QED
      BY <3>1 DEF Constructed
  <2>2. counter \in 0 .. MaxU64
    <3> HIDE DEF value
    <3>. QED
      BY <1>2, <1>5, OtpAssumption DEF NumberOk, OrElse
  <2>3. b = [f \in ConfigFields |-> b[f]] /\ b.kind = kind /\ b.algorithm = value("algorithm") /\ b.counter = counter
    <3> HIDE DEF kind, value, pin, counter
    <3>. QED
      BY DEF ConfigFields
  <2>0. b = Asked(uri)
    BY DEF Asked
  <2> HIDE DEF b, kind, counter
  <2>4. (\E e : built = Ok(e) /\ ConfigOk(e) /\ IsBuilt(b, e)) \/ \E e \in OtpErrors : built = Err(e)
    BY <1>2, <1>3, <1>5, <2>1, <2>2, <2>3, BuiltIsOk
  <2>5. CASE \E e : built = Ok(e) /\ ConfigOk(e) /\ IsBuilt(b, e)
    <3>1. PICK e : built = Ok(e) /\ ConfigOk(e) /\ IsBuilt(b, e)
      BY <2>5
    <3> DEFINE u == [config |-> built.ok, issuer |-> Issuer(uri), account |-> Account(uri), extra |-> Extra(uri.query)]
               w == Warnings(uri, kind)
    <3>2. IsOk(built) /\ built.ok = e
      BY <3>1, Results
    <3>3. ParseWithWarnings(uri) = IF UriFits(ToUri(u)) THEN Ok([uri |-> u, warnings |-> w]) ELSE Err("CanonicalTooLong")
      BY <1>5, <3>2 DEF ParseWithWarnings, problem, kind, counter
    <3>4. /\ u.config = e /\ u = [f \in UriFields |-> u[f]]
          /\ u.issuer = Issuer(uri) /\ u.account = Account(uri) /\ u.extra = Extra(uri.query)
      <4> HIDE DEF built
      <4>. QED
        BY <3>2 DEF UriFields
    <3>5. kind = FromUriType(uri.type) /\ problem = UriProblem(uri, kind) /\ w = Warnings(uri, kind)
      BY DEF kind, problem
    <3>7. u = [config |-> e, issuer |-> Issuer(uri), account |-> Account(uri), extra |-> Extra(uri.query)]
      BY <3>2
    <3> HIDE DEF u, w
    <3>6. CASE UriFits(ToUri(u))
      <4>1. Reads(uri, u, w)
        BY <1>2, <1>3, <1>5, <2>0, <3>1, <3>3, <3>4, <3>5, <3>6 DEF Reads
      <4>. QED
        BY <4>1
    <3>8. CASE ~UriFits(ToUri(u))
      <4>1. Build(Asked(uri)) = Ok(e)
        BY <2>0, <2>1, <3>1
      <4>2. TooLongWith(uri, e)
        BY <3>7, <3>8, <4>1 DEF TooLongWith
      <4>3. "CanonicalTooLong" \in UriErrors /\ ParseWithWarnings(uri) = Err("CanonicalTooLong")
        BY <3>3, <3>8 DEF UriErrors
      <4>. QED
        BY <4>2, <4>3
    <3>. QED
      BY <3>6, <3>8
  <2>6. CASE \E e \in OtpErrors : built = Err(e)
    <3>1. PICK e \in OtpErrors : built = Err(e)
      BY <2>6
    <3>2. ~IsOk(built)
      BY <3>1, Results
    <3>3. ParseWithWarnings(uri) = built
      BY <1>5, <3>2 DEF ParseWithWarnings, problem, kind, counter
    <3>4. built = Build(Asked(uri))
      BY <2>0, <2>1
    <3> HIDE DEF built
    <3>. QED
      BY <3>1, <3>3, <3>4
  <2>. QED
    BY <2>4, <2>5, <2>6
<1>. QED
  BY <1>4, <1>5

(***************************************************************************)
(* URIs, out and in.                                                       *)
(***************************************************************************)
\* What parse_with_warnings asks of a URI.
QueryDecodes(q) == \A i \in DOMAIN q : ParamDecodes(q[i])
SetOnce(q) == \A i \in DOMAIN q : ~Repeated(q, i)
UriSound(uri, kind) ==
  /\ UriFits(uri) /\ uri.scheme = "otpauth" /\ kind # None
  /\ \A i \in DOMAIN uri.label : Decodes(uri.label[i])
  /\ QueryDecodes(uri.query) /\ SetOnce(uri.query)
  /\ HasParam(uri.query, "secret") /\ FieldOk(SecretEncoding(kind), Param(uri.query, "secret"))
  /\ Param(uri.query, "algorithm") \in Algorithms \cup {None}
  /\ NumberOk(Param(uri.query, "digits"), 256) /\ NumberOk(Param(uri.query, "period"), 65536)
  /\ NumberOk(Param(uri.query, "counter"), MaxU64 + 1)
  /\ UsesCounter(kind) => HasParam(uri.query, "counter")
  /\ HasParam(uri.query, "pin") => FieldOk(PinEncoding(kind), Param(uri.query, "pin"))

LEMMA SoundIsNoProblem ==
  ASSUME NEW uri, NEW kind
  PROVE  UriProblem(uri, kind) = None <=> UriSound(uri, kind)
<1>1. /\ "UnknownKind" # None /\ "InvalidParam" # None /\ "ControlChar" # None /\ "DuplicateParam" # None
      /\ "MissingParam" # None /\ "InvalidDigits" # None /\ "InvalidPeriod" # None
      /\ "MigrationUri" # None /\ "NotOtpauth" # None /\ "TooLong" # None
  BY NoneAssumption DEF OtpErrors, UriErrors
<1>2. StripScheme(uri) = None <=> uri.scheme = "otpauth"
  BY <1>1 DEF StripScheme
<1>3. QueryProblem(uri.query) = None <=> QueryDecodes(uri.query) /\ SetOnce(uri.query)
  BY <1>1 DEF QueryProblem, QueryDecodes, SetOnce
<1>. QED
  BY <1>1, <1>2, <1>3 DEF UriProblem, UriSound

\* The vendor parameters, one by one.
IsExtra(f, q) ==
  /\ f[0] = << >>
  /\ \A k \in Nat : k < Len(q) =>
       f[k + 1] = IF q[k + 1][1] \in KnownParams THEN f[k] ELSE Append(f[k], <<q[k + 1][1], q[k + 1][2].pct>>)

LEMMA ExtraRuns ==
  ASSUME NEW q, Len(q) \in Nat
  PROVE  \E f : IsExtra(f, q) /\ Extra(q) = f[Len(q)]
<1> DEFINE a == Len(q)
           Turn(e, k) == IF q[k][1] \in KnownParams THEN e ELSE Append(e, <<q[k][1], q[k][2].pct>>)
           Loops(n, f) == f = [k \in 0 .. n |-> IF k = 0 THEN << >> ELSE Turn(f[k - 1], k)]
           T == {n \in Nat : \E f : Loops(n, f)}
<1>1. 0 \in T
  <2>1. Loops(0, [k \in 0 .. 0 |-> << >>])
    OBVIOUS
  <2> HIDE DEF Loops
  <2>. QED
    BY <2>1
<1>2. ASSUME NEW n \in Nat, n \in T PROVE n + 1 \in T
  <2>1. PICK f : Loops(n, f)
    BY <1>2
  <2> DEFINE g == [k \in 0 .. n + 1 |-> IF k = n + 1 THEN Turn(f[n], n + 1) ELSE f[k]]
  <2> HIDE DEF Turn
  <2>2. \A k \in 0 .. n + 1 : g[k] = IF k = 0 THEN << >> ELSE Turn(g[k - 1], k)
    BY <2>1
  <2>3. Loops(n + 1, g)
    BY <2>2
  <2> HIDE DEF Loops, g
  <2>. QED
    BY <2>3
<1>3. \E f : Loops(a, f)
  <2>0. a \in Nat
    OBVIOUS
  <2>1. \A k \in Nat : k < a /\ k \in T => k + 1 \in T
    <3> HIDE DEF T
    <3>. QED
      BY <1>2
  <2> HIDE DEF T, a
  <2>2. \A k \in 0 .. a : k \in T
    BY <1>1, <2>0, <2>1, StepByStep
  <2>3. a \in T
    BY <2>0, <2>2
  <2>. QED
    BY <2>3 DEF T
<1>4. PICK f : Loops(a, f) /\ Extra(q) = f[a]
  <2>1. Extra(q) = (CHOOSE f : Loops(a, f))[a]
    BY DEF Extra
  <2> HIDE DEF Loops
  <2>. QED
    BY <1>3, <2>1
<1>5. f[0] = << >>
  BY <1>4
<1>6. ASSUME NEW k \in Nat, k < a PROVE f[k + 1] = Turn(f[k], k + 1)
  <2>1. k + 1 \in 0 .. a /\ k + 1 # 0 /\ (k + 1) - 1 = k
    BY <1>6
  <2> HIDE DEF Turn, a
  <2>. QED
    BY <1>4, <2>1
<1>. QED
  BY <1>4, <1>5, <1>6 DEF IsExtra

\* What is kept of a query that decodes can be written and read.
LEMMA ExtraIsOk ==
  ASSUME NEW q, q \in Seq(ToSet(q)), QueryDecodes(q)
  PROVE  /\ Extra(q) \in Seq(ToSet(Extra(q)))
         /\ \A x \in ToSet(Extra(q)) : x = <<x[1], x[2]>> /\ x[1] \notin KnownParams /\ x[2] \notin Unprintable
<1> DEFINE a == Len(q)
           Kept(i) == <<q[i][1], q[i][2].pct>>
           X == {Kept(i) : i \in {j \in 1 .. a : q[j][1] \notin KnownParams}}
<1>1. a \in Nat /\ DOMAIN q = 1 .. a
  BY LenProperties
<1>2. PICK f : IsExtra(f, q) /\ Extra(q) = f[a]
  BY <1>1, ExtraRuns
<1> DEFINE T == {k \in Nat : f[k] \in Seq(X)}
<1>3. 0 \in T
  <2>1. f[0] = << >>
    BY <1>2 DEF IsExtra
  <2> HIDE DEF X
  <2>2. << >> \in Seq(X)
    OBVIOUS
  <2>3. f[0] \in Seq(X)
    BY <2>1, <2>2
  <2>. QED
    BY <2>3
<1>4. ASSUME NEW k \in Nat, k < a, f[k] \in Seq(X) PROVE f[k + 1] \in Seq(X)
  <2>1. k + 1 \in 1 .. a
    BY <1>1, <1>4
  <2>2. CASE q[k + 1][1] \in KnownParams
    BY <1>2, <1>4, <2>2 DEF IsExtra
  <2>3. CASE q[k + 1][1] \notin KnownParams
    <3>1. f[k + 1] = Append(f[k], Kept(k + 1))
      BY <1>2, <1>4, <2>3 DEF IsExtra
    <3>2. Kept(k + 1) \in X
      <4> HIDE DEF Kept
      <4>. QED
        BY <2>1, <2>3
    <3> HIDE DEF X, Kept
    <3>. QED
      BY <1>4, <3>1, <3>2, AppendProperties
  <2>. QED
    BY <2>2, <2>3
<1>5. Extra(q) \in Seq(X)
  <2>1. \A k \in Nat : k < a /\ k \in T => k + 1 \in T
    <3> HIDE DEF X
    <3>. QED
      BY <1>4
  <2> HIDE DEF T
  <2>2. \A k \in 0 .. a : k \in T
    BY <1>1, <1>3, <2>1, StepByStep
  <2>3. a \in T
    BY <1>1, <2>2
  <2>. QED
    BY <1>2, <2>3 DEF T
<1>6. \A x \in X : x = <<x[1], x[2]>> /\ x[1] \notin KnownParams /\ x[2] \notin Unprintable
  <2>1. ASSUME NEW i \in 1 .. a, q[i][1] \notin KnownParams
        PROVE  Kept(i) = <<Kept(i)[1], Kept(i)[2]>> /\ Kept(i)[1] \notin KnownParams /\ Kept(i)[2] \notin Unprintable
    BY <1>1, <2>1 DEF QueryDecodes, ParamDecodes, KnownParams, Decodes
  <2> HIDE DEF Kept
  <2>. QED
    BY <2>1
<1> HIDE DEF X
<1>7. ToSet(Extra(q)) \subseteq X
  BY <1>5, ListElements
<1>8. Extra(q) \in Seq(ToSet(Extra(q)))
  <2> DEFINE e == Extra(q)
  <2>1. e \in [1 .. Len(e) -> X] /\ Len(e) \in Nat
    BY <1>5, LenProperties
  <2>2. \A i \in 1 .. Len(e) : e[i] \in ToSet(e)
    BY <1>5, ListElements
  <2> HIDE DEF e
  <2>3. e \in [1 .. Len(e) -> ToSet(e)]
    BY <2>1, <2>2
  <2>4. e \in Seq(ToSet(e))
    BY <2>1, <2>3
  <2>. QED
    BY <2>4 DEF e
<1>. QED
  BY <1>6, <1>7, <1>8

\* The texts of what is read can be written and read.
LEMMA ReadTexts ==
  ASSUME NEW uri, NEW u, NEW w, Reads(uri, u, w), uri.label \in Seq(ToSet(uri.label)),
         uri.query \in Seq(ToSet(uri.query))
  PROVE  TextsOk(u)
<1> DEFINE kind == FromUriType(uri.type)
           q == uri.query
<1>1. UriSound(uri, kind)
  BY SoundIsNoProblem DEF Reads
<1> HIDE DEF kind
<1>2. (\A i \in DOMAIN uri.label : uri.label[i].pct \notin Unprintable) /\ QueryDecodes(q)
  BY <1>1 DEF UriSound, Decodes
<1>3. Len(uri.label) \in Nat /\ DOMAIN uri.label = 1 .. Len(uri.label)
  BY LenProperties
<1>4. LabelIssuer(uri) = None \/ LabelIssuer(uri) \notin Unprintable \cup {<< >>}
  BY <1>2, <1>3 DEF LabelIssuer
<1>5. ParamIssuer(uri) = None \/ ParamIssuer(uri) \notin Unprintable \cup {<< >>}
  <2>1. SUFFICES ASSUME HasParam(q, "issuer") PROVE Param(q, "issuer").pct \notin Unprintable
    BY DEF ParamIssuer
  <2> DEFINE i == CHOOSE j \in Occurrences(q, "issuer") : TRUE
  <2>2. i \in Occurrences(q, "issuer")
    BY <2>1 DEF HasParam
  <2>3. i \in DOMAIN q /\ q[i][1] = "issuer"
    BY <2>2 DEF Occurrences
  <2>4. Param(q, "issuer") = q[i][2]
    BY <2>1 DEF Param
  <2> HIDE DEF i
  <2>. QED
    BY <1>2, <2>3, <2>4 DEF QueryDecodes, ParamDecodes, Decodes
<1>6. Account(uri) \notin Unprintable
  BY <1>2, <1>3, OtpAssumption DEF Account
<1>7. Issuer(uri) = None \/ Issuer(uri) \notin Unprintable \cup {<< >>}
  BY <1>4, <1>5 DEF Issuer, OrElse
<1>. QED
  BY <1>2, <1>6, <1>7, ExtraIsOk DEF TextsOk, Reads

\* Lists, as sequences of their elements.
LEMMA OwnList ==
  ASSUME NEW S, NEW s \in Seq(S)
  PROVE  s \in Seq(ToSet(s))
<1>1. s \in [1 .. Len(s) -> S] /\ Len(s) \in Nat
  BY LenProperties
<1>2. \A i \in 1 .. Len(s) : s[i] \in ToSet(s)
  BY ListElements
<1>3. s \in [1 .. Len(s) -> ToSet(s)]
  BY <1>1, <1>2
<1>. QED
  BY <1>1, <1>3

LEMMA JoinedLists ==
  ASSUME NEW a, NEW b, a \in Seq(ToSet(a)), b \in Seq(ToSet(b))
  PROVE  /\ a \o b \in Seq(ToSet(a \o b))
         /\ Len(a) \in Nat /\ Len(b) \in Nat /\ Len(a \o b) = Len(a) + Len(b)
         /\ \A i \in 1 .. Len(a) : (a \o b)[i] = a[i]
         /\ \A i \in 1 .. Len(b) : (a \o b)[Len(a) + i] = b[i]
<1> DEFINE S == ToSet(a) \cup ToSet(b)
<1>0. ToSet(a) \subseteq S /\ ToSet(b) \subseteq S
  OBVIOUS
<1> HIDE DEF S
<1>1. a \in Seq(S) /\ b \in Seq(S)
  BY <1>0
<1>2. /\ a \o b \in Seq(S) /\ Len(a \o b) = Len(a) + Len(b)
      /\ \A i \in 1 .. Len(a) + Len(b) : (a \o b)[i] = IF i <= Len(a) THEN a[i] ELSE b[i - Len(a)]
  BY <1>1, ConcatProperties
<1>3. Len(a) \in Nat /\ Len(b) \in Nat
  BY <1>1, LenProperties
<1>4. \A i \in 1 .. Len(a) : (a \o b)[i] = a[i]
  BY <1>2, <1>3
<1>5. ASSUME NEW i \in 1 .. Len(b) PROVE (a \o b)[Len(a) + i] = b[i]
  <2>1. Len(a) + i \in 1 .. Len(a) + Len(b) /\ ~(Len(a) + i <= Len(a)) /\ Len(a) + i - Len(a) = i
    BY <1>3
  <2>. QED
    BY <1>2, <2>1
<1>. QED
  BY <1>2, <1>3, <1>4, <1>5, OwnList

\* A query that gives each name of `names` once, its value in f.
Lists(q, names, f) ==
  /\ q \in Seq(ToSet(q))
  /\ \A i \in 1 .. Len(q) : q[i][1] \in names /\ q[i][2] = f[q[i][1]]
  /\ \A name \in names : \E i \in 1 .. Len(q) : q[i][1] = name
  /\ \A i, j \in 1 .. Len(q) : q[i][1] = q[j][1] => i = j
OneParam(name, value, there) == IF there THEN <<<<name, value>>>> ELSE << >>

LEMMA ParamIsListed ==
  ASSUME NEW q, NEW names, NEW f, Lists(q, names, f), NEW name, name \notin names, NEW there \in BOOLEAN
  PROVE  Lists(q \o OneParam(name, f[name], there), names \cup (IF there THEN {name} ELSE {}), f)
<1>0. q \in Seq(ToSet(q)) /\ Len(q) \in Nat
  BY LenProperties DEF Lists
<1>1. CASE there
  <2> DEFINE p == <<name, f[name]>>
             b == <<p>>
             r == q \o b
             a == Len(q)
             all == names \cup {name}
  <2>1. p[1] = name /\ p[2] = f[name]
    OBVIOUS
  <2> HIDE DEF p
  <2>2. b \in Seq({p}) /\ Len(b) = 1 /\ b[1] = p
    OBVIOUS
  <2> HIDE DEF b
  <2>3. b \in Seq(ToSet(b))
    BY <2>2, OwnList
  <2>4. /\ r \in Seq(ToSet(r)) /\ Len(r) = a + 1
        /\ \A i \in 1 .. a : r[i] = q[i]
        /\ r[a + 1] = p
    <3>1. /\ r \in Seq(ToSet(r)) /\ Len(r) = a + Len(b)
          /\ \A i \in 1 .. a : r[i] = q[i]
          /\ \A i \in 1 .. Len(b) : r[a + i] = b[i]
      BY <1>0, <2>3, JoinedLists
    <3>2. 1 \in 1 .. Len(b)
      BY <2>2
    <3> HIDE DEF r, a
    <3>. QED
      BY <2>2, <3>1, <3>2
  <2> HIDE DEF r, a
  <2>5. a \in Nat
    BY <1>0 DEF a
  <2>6. \A i \in 1 .. Len(r) : i \in 1 .. a \/ i = a + 1
    BY <2>4, <2>5
  <2>7. 1 .. a \subseteq 1 .. Len(r) /\ a + 1 \in 1 .. Len(r)
    BY <2>4, <2>5
  <2>8. /\ \A i \in 1 .. a : q[i][1] \in names /\ q[i][2] = f[q[i][1]]
        /\ \A n \in names : \E i \in 1 .. a : q[i][1] = n
        /\ \A i, j \in 1 .. a : q[i][1] = q[j][1] => i = j
    BY DEF Lists, a
  <2>9. \A i \in 1 .. Len(r) : r[i][1] \in all /\ r[i][2] = f[r[i][1]]
    BY <2>1, <2>4, <2>6, <2>8
  <2>10. \A n \in all : \E i \in 1 .. Len(r) : r[i][1] = n
    BY <2>1, <2>4, <2>7, <2>8
  <2>11. ASSUME NEW i \in 1 .. Len(r), NEW j \in 1 .. Len(r), r[i][1] = r[j][1] PROVE i = j
    BY <2>1, <2>4, <2>6, <2>8, <2>11
  <2>12. Lists(r, all, f)
    BY <2>4, <2>9, <2>10, <2>11 DEF Lists
  <2>. QED
    BY <1>1, <2>12 DEF r, b, p, OneParam
<1>2. CASE ~there
  <2>1. q \o << >> = q
    BY <1>0
  <2>. QED
    BY <1>2, <2>1 DEF OneParam
<1>. QED
  BY <1>1, <1>2

\* The parameters that to_uri writes, and their values.
Values(u, kind) ==
  [secret |-> EncodeField(SecretEncoding(kind), u.config.secret), issuer |-> Encoded(u.issuer),
   algorithm |-> u.config.algorithm, digits |-> u.config.digits, period |-> u.config.period,
   counter |-> u.config.counter, pin |-> EncodeField(PinEncoding(kind), u.config.pin)]
NamesOf(u, kind) ==
  {"secret"} \cup (IF u.issuer # None THEN {"issuer"} ELSE {})
    \cup (IF Stated(kind, "algorithm") THEN {"algorithm"} ELSE {})
    \cup (IF Stated(kind, "digits") THEN {"digits"} ELSE {})
    \cup (IF Stated(kind, "period") THEN {"period"} ELSE {})
    \cup (IF UsesCounter(kind) THEN {"counter"} ELSE {})
    \cup (IF u.config.pin # None THEN {"pin"} ELSE {})
Vendor(u) == [i \in DOMAIN u.extra |-> <<u.extra[i][1], Encoded(u.extra[i][2])>>]

LEMMA KnownAreListed ==
  ASSUME NEW u, NEW kind, kind = SerializesAs(u.config.kind)
  PROVE  \E k : Lists(k, NamesOf(u, kind), Values(u, kind)) /\ ToUri(u).query = k \o Vendor(u)
<1> DEFINE f == Values(u, kind)
           c == u.config
<1>1. /\ f["secret"] = EncodeField(SecretEncoding(kind), c.secret) /\ f["issuer"] = Encoded(u.issuer)
      /\ f["algorithm"] = c.algorithm /\ f["digits"] = c.digits /\ f["period"] = c.period
      /\ f["counter"] = c.counter /\ f["pin"] = EncodeField(PinEncoding(kind), c.pin)
  BY DEF Values
<1> HIDE DEF f
<1> DEFINE n1 == {"secret"}
           n2 == n1 \cup (IF u.issuer # None THEN {"issuer"} ELSE {})
           n3 == n2 \cup (IF Stated(kind, "algorithm") THEN {"algorithm"} ELSE {})
           n4 == n3 \cup (IF Stated(kind, "digits") THEN {"digits"} ELSE {})
           n5 == n4 \cup (IF Stated(kind, "period") THEN {"period"} ELSE {})
           n6 == n5 \cup (IF UsesCounter(kind) THEN {"counter"} ELSE {})
           n7 == n6 \cup (IF c.pin # None THEN {"pin"} ELSE {})
           q1 == <<<<"secret", f["secret"]>>>>
           q2 == q1 \o OneParam("issuer", f["issuer"], u.issuer # None)
           q3 == q2 \o OneParam("algorithm", f["algorithm"], Stated(kind, "algorithm"))
           q4 == q3 \o OneParam("digits", f["digits"], Stated(kind, "digits"))
           q5 == q4 \o OneParam("period", f["period"], Stated(kind, "period"))
           q6 == q5 \o OneParam("counter", f["counter"], UsesCounter(kind))
           q7 == q6 \o OneParam("pin", f["pin"], c.pin # None)
<1>2. /\ "issuer" \notin n1 /\ "algorithm" \notin n2 /\ "digits" \notin n3 /\ "period" \notin n4
      /\ "counter" \notin n5 /\ "pin" \notin n6
  OBVIOUS
<1>3. /\ Stated(kind, "algorithm") \in BOOLEAN /\ Stated(kind, "digits") \in BOOLEAN
      /\ Stated(kind, "period") \in BOOLEAN /\ UsesCounter(kind) \in BOOLEAN
      /\ (u.issuer # None) \in BOOLEAN /\ (c.pin # None) \in BOOLEAN
  BY DEF Stated, UsesCounter
<1>4. ToUri(u).query = q7 \o Vendor(u)
  <2>1. /\ OneParam("issuer", Encoded(u.issuer), u.issuer # None)
           = (IF u.issuer # None THEN <<<<"issuer", Encoded(u.issuer)>>>> ELSE << >>)
    BY DEF OneParam
  <2>. QED
    BY <1>1 DEF ToUri, OneParam, Vendor
<1>5. n7 = NamesOf(u, kind)
  BY DEF NamesOf
<1>6. Lists(q1, n1, f)
  <2> DEFINE p == <<"secret", f["secret"]>>
  <2>1. p[1] = "secret" /\ p[2] = f["secret"]
    OBVIOUS
  <2> HIDE DEF p
  <2>2. <<p>> \in Seq({p}) /\ Len(<<p>>) = 1 /\ <<p>>[1] = p
    OBVIOUS
  <2>3. <<p>> \in Seq(ToSet(<<p>>))
    BY <2>2, OwnList
  <2>4. Lists(<<p>>, {"secret"}, f)
    BY <2>1, <2>2, <2>3 DEF Lists
  <2>. QED
    BY <2>4 DEF p
<1> HIDE DEF q1, n1
<1>7. Lists(q2, n2, f)
  BY <1>2, <1>3, <1>6, ParamIsListed
<1> HIDE DEF q2, n2
<1>8. Lists(q3, n3, f)
  BY <1>2, <1>3, <1>7, ParamIsListed
<1> HIDE DEF q3, n3
<1>9. Lists(q4, n4, f)
  BY <1>2, <1>3, <1>8, ParamIsListed
<1> HIDE DEF q4, n4
<1>10. Lists(q5, n5, f)
  BY <1>2, <1>3, <1>9, ParamIsListed
<1> HIDE DEF q5, n5
<1>11. Lists(q6, n6, f)
  BY <1>2, <1>3, <1>10, ParamIsListed
<1> HIDE DEF q6, n6
<1>12. Lists(q7, n7, f)
  BY <1>2, <1>3, <1>11, ParamIsListed
<1> HIDE DEF q7, n7
<1>. QED
  BY <1>4, <1>5, <1>12 DEF f

LEMMA VendorIsListed ==
  ASSUME NEW u, TextsOk(u)
  PROVE  /\ Vendor(u) \in Seq(ToSet(Vendor(u))) /\ Len(Vendor(u)) = Len(u.extra) /\ Len(u.extra) \in Nat
         /\ \A i \in 1 .. Len(u.extra) :
              /\ Vendor(u)[i][1] = u.extra[i][1] /\ Vendor(u)[i][2].pct = u.extra[i][2]
              /\ u.extra[i] = <<u.extra[i][1], u.extra[i][2]>>
              /\ u.extra[i][1] \notin KnownParams /\ u.extra[i][2] \notin Unprintable
<1> DEFINE x == u.extra
           v == Vendor(u)
           n == Len(x)
           E(i) == <<x[i][1], Encoded(x[i][2])>>
           V == {E(i) : i \in 1 .. n}
<1>1. x \in Seq(ToSet(x)) /\ n \in Nat /\ DOMAIN x = 1 .. n
  BY LenProperties DEF TextsOk
<1>2. v = [i \in 1 .. n |-> E(i)]
  BY <1>1 DEF Vendor
<1>3. \A i \in 1 .. n : E(i)[1] = x[i][1] /\ E(i)[2].pct = x[i][2]
  BY DEF Encoded
<1> HIDE DEF E
<1>4. v \in [1 .. n -> V] /\ \A i \in 1 .. n : v[i] = E(i)
  BY <1>2
<1> HIDE DEF v, V
<1>5. v \in Seq(V) /\ Len(v) = n
  <2>1. v \in Seq(V)
    BY <1>1, <1>4
  <2>2. DOMAIN v = 1 .. n
    BY <1>4
  <2> HIDE DEF n
  <2>. QED
    BY <1>1, <2>1, <2>2, LenProperties
<1>6. v \in Seq(ToSet(v))
  BY <1>5, OwnList
<1>7. \A i \in 1 .. n : x[i] \in ToSet(x)
  BY <1>1, ListElements
<1>8. \A y \in ToSet(x) : y = <<y[1], y[2]>> /\ y[1] \notin KnownParams /\ y[2] \notin Unprintable
  BY DEF TextsOk
<1>9. \A i \in 1 .. n : v[i][1] = x[i][1] /\ v[i][2].pct = x[i][2]
  BY <1>3, <1>4
<1>. QED
  BY <1>1, <1>5, <1>6, <1>7, <1>8, <1>9 DEF v

\* The known parameters of a list with a tail of vendor parameters.
LEMMA ParamsAreFound ==
  ASSUME NEW k, NEW names, NEW f, Lists(k, names, f), NEW e, e \in Seq(ToSet(e)),
         \A i \in 1 .. Len(e) : e[i][1] \notin KnownParams
  PROVE  /\ \A name \in KnownParams :
              /\ HasParam(k \o e, name) <=> name \in names
              /\ Param(k \o e, name) = IF name \in names THEN f[name] ELSE None
         /\ SetOnce(k \o e)
<1> DEFINE q == k \o e
           a == Len(k)
           b == Len(e)
<1>1. k \in Seq(ToSet(k))
  BY DEF Lists
<1>2. /\ q \in Seq(ToSet(q)) /\ a \in Nat /\ b \in Nat /\ Len(q) = a + b
      /\ \A i \in 1 .. a : q[i] = k[i]
      /\ \A i \in 1 .. b : q[a + i] = e[i]
  BY <1>1, JoinedLists
<1>3. /\ \A i \in 1 .. a : k[i][1] \in names /\ k[i][2] = f[k[i][1]]
      /\ \A n \in names : \E i \in 1 .. a : k[i][1] = n
      /\ \A i, j \in 1 .. a : k[i][1] = k[j][1] => i = j
  BY DEF Lists
<1>4. \A i \in 1 .. b : e[i][1] \notin KnownParams
  OBVIOUS
<1> HIDE DEF q, a, b
<1>5. DOMAIN q = 1 .. a + b
  BY <1>2, LenProperties
<1>6. ASSUME NEW i \in 1 .. a + b, i \notin 1 .. a PROVE q[i][1] \notin KnownParams
  <2>1. i - a \in 1 .. b /\ a + (i - a) = i
    BY <1>2, <1>6
  <2>2. q[i] = e[i - a]
    BY <1>2, <2>1
  <2>. QED
    BY <1>4, <2>1, <2>2
<1>7. ASSUME NEW name \in KnownParams PROVE Occurrences(q, name) = {i \in 1 .. a : k[i][1] = name}
  <2>1. 1 .. a \subseteq 1 .. a + b
    BY <1>2
  <2>. QED
    BY <1>2, <1>5, <1>6, <2>1 DEF Occurrences
<1>8. ASSUME NEW name \in KnownParams PROVE HasParam(q, name) <=> name \in names
  BY <1>3, <1>7 DEF HasParam
<1>9. ASSUME NEW name \in KnownParams PROVE Param(q, name) = IF name \in names THEN f[name] ELSE None
  <2>1. CASE name \in names
    <3> DEFINE i == CHOOSE j \in Occurrences(q, name) : TRUE
    <3>1. HasParam(q, name)
      BY <1>8, <2>1
    <3>2. i \in Occurrences(q, name)
      BY <3>1 DEF HasParam
    <3>3. Param(q, name) = q[i][2]
      BY <3>1 DEF Param
    <3> HIDE DEF i
    <3>4. i \in 1 .. a /\ k[i][1] = name
      BY <1>7, <3>2
    <3>. QED
      BY <1>2, <1>3, <2>1, <3>3, <3>4
  <2>2. CASE name \notin names
    BY <1>8, <2>2 DEF Param
  <2>. QED
    BY <2>1, <2>2
<1>10. ASSUME NEW i \in 1 .. a + b, q[i][1] \in KnownParams, NEW j \in 1 .. (i - 1) PROVE q[j][1] # q[i][1]
  <2>1. i \in 1 .. a
    BY <1>6, <1>10
  <2>2. j \in 1 .. a /\ j # i
    BY <1>2, <1>10, <2>1
  <2>. QED
    BY <1>2, <1>3, <2>1, <2>2
<1>11. SetOnce(q)
  BY <1>5, <1>10 DEF SetOnce, Repeated
<1>. QED
  BY <1>8, <1>9, <1>11 DEF q

\* What is read of the tail is the vendor parameters.
LEMMA TailIsVendor ==
  ASSUME NEW k, NEW names, NEW f, Lists(k, names, f), names \subseteq KnownParams, NEW u, TextsOk(u)
  PROVE  Extra(k \o Vendor(u)) = u.extra
<1> DEFINE q == k \o Vendor(u)
           x == u.extra
           a == Len(k)
           b == Len(x)
           X == ToSet(x)
           Upto(g, j) == g \in Seq(X) /\ Len(g) = j /\ \A i \in 1 .. j : g[i] = x[i]
<1>1. k \in Seq(ToSet(k)) /\ \A i \in 1 .. a : k[i][1] \in KnownParams
  BY DEF Lists
<1>2. /\ q \in Seq(ToSet(q)) /\ a \in Nat /\ b \in Nat /\ Len(q) = a + b
      /\ \A i \in 1 .. a : q[i] = k[i]
      /\ \A i \in 1 .. b : q[a + i] = Vendor(u)[i]
  <2> DEFINE v == Vendor(u)
  <2>1. v \in Seq(ToSet(v)) /\ Len(v) = b /\ b \in Nat
    BY VendorIsListed
  <2> HIDE DEF v, b
  <2>2. /\ k \o v \in Seq(ToSet(k \o v)) /\ a \in Nat /\ Len(k \o v) = a + b
        /\ \A i \in 1 .. a : (k \o v)[i] = k[i]
        /\ \A i \in 1 .. b : (k \o v)[a + i] = v[i]
    BY <1>1, <2>1, JoinedLists
  <2>. QED
    BY <2>1, <2>2 DEF v
<1>3. \A i \in 1 .. b : Vendor(u)[i][1] = x[i][1] /\ Vendor(u)[i][2].pct = x[i][2] /\ x[i] = <<x[i][1], x[i][2]>>
                        /\ x[i][1] \notin KnownParams
  BY VendorIsListed
<1>4. x \in Seq(X) /\ \A i \in 1 .. b : x[i] \in X
  BY ListElements DEF TextsOk
<1> HIDE DEF q, a, b, x, X
<1>5. PICK g : IsExtra(g, q) /\ Extra(q) = g[a + b]
  <2>1. Len(q) = a + b /\ Len(q) \in Nat
    BY <1>2
  <2>. QED
    BY <2>1, ExtraRuns
<1>6. g[0] = << >> /\ \A j \in Nat : j < a + b =>
        g[j + 1] = IF q[j + 1][1] \in KnownParams THEN g[j] ELSE Append(g[j], <<q[j + 1][1], q[j + 1][2].pct>>)
  BY <1>2, <1>5 DEF IsExtra
<1> DEFINE T == {j \in Nat : g[j] = << >>}
           U == {j \in Nat : Upto(g[a + j], j)}
<1>7. g[a] = << >>
  <2>1. 0 \in T
    BY <1>6
  <2>2. ASSUME NEW j \in Nat, j < a, g[j] = << >> PROVE g[j + 1] = << >>
    <3>1. j + 1 \in 1 .. a /\ j < a + b
      BY <1>2, <2>2
    <3>2. q[j + 1][1] \in KnownParams
      BY <1>1, <1>2, <3>1
    <3>. QED
      BY <1>6, <2>2, <3>1, <3>2
  <2>3. \A j \in Nat : j < a /\ j \in T => j + 1 \in T
    BY <2>2
  <2> HIDE DEF T
  <2>4. \A j \in 0 .. a : j \in T
    BY <1>2, <2>1, <2>3, StepByStep
  <2>5. a \in T
    BY <1>2, <2>4
  <2>. QED
    BY <2>5 DEF T
<1>8. Upto(g[a + b], b)
  <2>1. 0 \in U
    <3>1. a + 0 = a
      BY <1>2
    <3>2. << >> \in Seq(X) /\ Len(<< >>) = 0 /\ \A i \in 1 .. 0 : FALSE
      OBVIOUS
    <3>3. Upto(g[a + 0], 0)
      BY <1>7, <3>1, <3>2
    <3> HIDE DEF Upto
    <3>. QED
      BY <3>3
  <2>2. ASSUME NEW j \in Nat, j < b, Upto(g[a + j], j) PROVE Upto(g[a + (j + 1)], j + 1)
    <3> DEFINE m == a + j
               h == g[m]
    <3>1. j + 1 \in 1 .. b /\ m < a + b /\ m \in Nat /\ a + (j + 1) = m + 1
      BY <1>2, <2>2
    <3>2. q[m + 1] = Vendor(u)[j + 1]
      BY <1>2, <3>1
    <3>3. g[m + 1] = Append(g[m], x[j + 1])
      <4>1. q[m + 1][1] = x[j + 1][1] /\ q[m + 1][2].pct = x[j + 1][2] /\ x[j + 1][1] \notin KnownParams
            /\ x[j + 1] = <<x[j + 1][1], x[j + 1][2]>>
        BY <1>3, <3>1, <3>2
      <4> HIDE DEF m
      <4>. QED
        BY <1>6, <3>1, <4>1
    <3> HIDE DEF m
    <3>4. h \in Seq(X) /\ Len(h) = j /\ \A i \in 1 .. j : h[i] = x[i]
      BY <2>2 DEF m
    <3>5. x[j + 1] \in X
      BY <1>4, <3>1
    <3> HIDE DEF h
    <3> DEFINE y == x[j + 1]
               s == Append(h, y)
    <3>6. y \in X
      BY <3>5
    <3> HIDE DEF y
    <3>7. s \in Seq(X) /\ Len(s) = j + 1 /\ (\A i \in 1 .. j : s[i] = h[i]) /\ s[j + 1] = y
      BY <3>4, <3>6, AppendProperties
    <3> HIDE DEF s
    <3>8. \A i \in 1 .. j + 1 : i \in 1 .. j \/ i = j + 1
      OBVIOUS
    <3>9. Upto(s, j + 1)
      BY <3>4, <3>7, <3>8 DEF y
    <3>. QED
      BY <3>1, <3>3, <3>9 DEF s, h, y
  <2>3. \A j \in Nat : j < b /\ j \in U => j + 1 \in U
    <3> HIDE DEF Upto
    <3>. QED
      BY <2>2
  <2> HIDE DEF U, Upto
  <2>4. \A j \in 0 .. b : j \in U
    BY <1>2, <2>1, <2>3, StepByStep
  <2>5. b \in U
    BY <1>2, <2>4
  <2>. QED
    BY <2>5 DEF U
<1>9. g[a + b] = x
  <2> DEFINE y == g[a + b]
  <2>1. y \in Seq(X) /\ Len(y) = b /\ \A i \in 1 .. b : y[i] = x[i]
    BY <1>8
  <2> HIDE DEF y
  <2>2. DOMAIN y = 1 .. b /\ DOMAIN x = 1 .. b /\ y = [i \in 1 .. b |-> y[i]] /\ x = [i \in 1 .. b |-> x[i]]
    BY <1>4, <2>1, LenProperties DEF b
  <2>3. y = x
    BY <2>1, <2>2
  <2>. QED
    BY <2>3 DEF y
<1>. QED
  BY <1>5, <1>9 DEF q, x

\* What may be held: a configuration in form with texts that can be written and read.
UriOk(u) == ConfigOk(u.config) /\ u = [f \in UriFields |-> u[f]] /\ TextsOk(u)
OtpShape ==
  /\ otp # None => UriOk(otp)
  /\ given # None =>
       given.uri \in OtpInputs /\ ParseWithWarnings(given.uri) = Ok([uri |-> otp, warnings |-> given.warnings])
LEMMA ShapeIs ==
  ASSUME NEW c
  PROVE  ConfigOk(c) <=> InForm(c)
<1>1. ConfigOk(c) => DOMAIN c = ConfigFields
  BY DEF ConfigOk
<1>2. InForm(c) => DOMAIN c = ConfigFields
  BY DEF InForm
<1>. QED
  BY <1>1, <1>2, FormIsFixed

LEMMA WrittenIsListed ==
  ASSUME NEW u, TextsOk(u)
  PROVE  /\ ToUri(u).label \in Seq(ToSet(ToUri(u).label))
         /\ ToUri(u).query \in Seq(ToSet(ToUri(u).query))
<1> DEFINE i == Encoded(u.issuer)
           a == Encoded(u.account)
           kind == SerializesAs(u.config.kind)
           v == Vendor(u)
<1>1. ToUri(u).label \in Seq(ToSet(ToUri(u).label))
  <2>1. ToUri(u).label = (IF u.issuer = None THEN << >> ELSE <<i>>) \o <<a>>
    BY DEF ToUri
  <2> HIDE DEF i, a
  <2> DEFINE S == {i, a}
             l == ToUri(u).label
  <2>0. i \in S /\ a \in S
    OBVIOUS
  <2> HIDE DEF S
  <2>2. << >> \in Seq(S) /\ <<i>> \in Seq(S) /\ <<a>> \in Seq(S)
    BY <2>0
  <2>3. l \in Seq(S)
    BY <2>1, <2>2, ConcatProperties
  <2> HIDE DEF l
  <2>4. l \in Seq(ToSet(l))
    BY <2>3, OwnList
  <2>. QED
    BY <2>4 DEF l
<1>2. PICK k : Lists(k, NamesOf(u, kind), Values(u, kind)) /\ ToUri(u).query = k \o v
  BY KnownAreListed
<1>3. k \in Seq(ToSet(k)) /\ v \in Seq(ToSet(v))
  BY <1>2, VendorIsListed DEF Lists
<1> HIDE DEF v
<1>4. k \o v \in Seq(ToSet(k \o v))
  BY <1>3, JoinedLists
<1>. QED
  BY <1>1, <1>2, <1>4

\* The kind that is written, and what it fixes.
LEMMA WrittenKind ==
  ASSUME NEW c, ConfigOk(c), NEW kind, kind = SerializesAs(c.kind)
  PROVE  /\ kind \in Kinds /\ FromUriType(kind) = kind /\ SecretEncoding(kind) # "text"
         /\ UsesPin(kind) = UsesPin(c.kind) /\ UsesCounter(kind) = UsesCounter(c.kind)
         /\ PinEncoding(kind) = "text" /\ UsesPin(kind) => c.kind = "motp"
         /\ Stated(kind, "algorithm") <=> FixedAlgorithm(kind) = None
         /\ Stated(kind, "digits") <=> FixedDigits(kind) = None
         /\ Stated(kind, "period") <=> FixedPeriod(kind) = None
<1>1. c.kind \in Kinds
  BY DEF ConfigOk
<1>2. kind \in Kinds /\ FromUriType(kind) = kind
  BY <1>1 DEF SerializesAs, Kinds, FromUriType
<1>3. /\ UsesPin(kind) = UsesPin(c.kind) /\ UsesCounter(kind) = UsesCounter(c.kind)
      /\ PinEncoding(kind) = "text" /\ UsesPin(kind) => c.kind = "motp"
  BY <1>1 DEF SerializesAs, Kinds, UsesPin, UsesCounter, PinEncoding
<1>4. SecretEncoding(kind) # "text"
  BY DEF SecretEncoding
<1>. QED
  BY <1>2, <1>3, <1>4 DEF Stated

\* The exported configuration, field by field.
LEMMA ExportIs ==
  ASSUME NEW u, u = [f \in UriFields |-> u[f]], ConfigOk(u.config), NEW kind, kind = SerializesAs(u.config.kind)
  PROVE  LET e == ExportForm(u) c == u.config IN
         /\ e = [f \in UriFields |-> e[f]] /\ e.issuer = u.issuer /\ e.account = u.account /\ e.extra = u.extra
         /\ e.config = [f \in ConfigFields |-> e.config[f]]
         /\ e.config.kind = kind /\ e.config.secret = c.secret
         /\ e.config.algorithm = OrElse(FixedAlgorithm(kind), c.algorithm)
         /\ e.config.digits = OrElse(FixedDigits(kind), c.digits)
         /\ e.config.period = OrElse(FixedPeriod(kind), c.period)
         /\ e.config.counter = (IF UsesCounter(kind) THEN c.counter ELSE 0)
         /\ e.config.pin = (IF UsesPin(kind) THEN c.pin ELSE None)
<1> DEFINE c == u.config
           w == WithKind(c, kind)
           e == ExportForm(u)
<1>1. c = [f \in ConfigFields |-> c[f]]
  BY DEF ConfigOk
<1>2. /\ DOMAIN w = ConfigFields /\ w.kind = kind /\ w.secret = c.secret
      /\ w.algorithm = OrElse(FixedAlgorithm(kind), c.algorithm)
      /\ w.digits = OrElse(FixedDigits(kind), c.digits) /\ w.period = OrElse(FixedPeriod(kind), c.period)
      /\ w.counter = (IF UsesCounter(kind) THEN c.counter ELSE 0)
      /\ w.pin = (IF UsesPin(kind) THEN c.pin ELSE None)
  <2> HIDE DEF c
  <2>. QED
    BY <1>1 DEF WithKind, ConfigFields
<1>3. w = [f \in ConfigFields |-> w[f]]
  BY <1>2 DEF WithKind
<1>4. e = [u EXCEPT !.config = w]
  BY DEF ExportForm
<1> HIDE DEF w, e
<1>5. e = [f \in UriFields |-> e[f]] /\ e.config = w /\ e.issuer = u.issuer /\ e.account = u.account /\ e.extra = u.extra
  BY <1>4 DEF UriFields
<1>. QED
  BY <1>2, <1>3, <1>5 DEF e

\* The parts of what is written.
LabelOf(u) == (IF u.issuer = None THEN << >> ELSE <<Encoded(u.issuer)>>) \o <<Encoded(u.account)>>
QueryOf(u, kind) ==
  <<<<"secret", EncodeField(SecretEncoding(kind), u.config.secret)>>>>
    \o OneParam("issuer", Encoded(u.issuer), u.issuer # None)
    \o OneParam("algorithm", u.config.algorithm, Stated(kind, "algorithm"))
    \o OneParam("digits", u.config.digits, Stated(kind, "digits"))
    \o OneParam("period", u.config.period, Stated(kind, "period"))
    \o OneParam("counter", u.config.counter, UsesCounter(kind))
    \o OneParam("pin", EncodeField(PinEncoding(kind), u.config.pin), u.config.pin # None)
    \o Vendor(u)
OfParts(kind, label, query) ==
  [scheme |-> "otpauth", type |-> kind, label |-> label, query |-> query,
   fragment |-> FALSE, len |-> WrittenLen(label, query)]
LEMMA WrittenOfParts ==
  ASSUME NEW u, NEW kind, kind = SerializesAs(u.config.kind)
  PROVE  ToUri(u) = OfParts(kind, LabelOf(u), QueryOf(u, kind))
  BY DEF ToUri, OfParts, LabelOf, QueryOf, OneParam, Vendor

\* What is exported is written as it was.
LEMMA ExportIsWrittenAlike ==
  ASSUME NEW u, u = [f \in UriFields |-> u[f]], ConfigOk(u.config)
  PROVE  ToUri(ExportForm(u)) = ToUri(u)
<1> DEFINE c == u.config
           kind == SerializesAs(c.kind)
           e == ExportForm(u)
           d == e.config
<1>1. /\ e.issuer = u.issuer /\ e.account = u.account /\ e.extra = u.extra
      /\ d.kind = kind /\ d.secret = c.secret
      /\ d.algorithm = OrElse(FixedAlgorithm(kind), c.algorithm)
      /\ d.digits = OrElse(FixedDigits(kind), c.digits) /\ d.period = OrElse(FixedPeriod(kind), c.period)
      /\ d.counter = (IF UsesCounter(kind) THEN c.counter ELSE 0)
      /\ d.pin = (IF UsesPin(kind) THEN c.pin ELSE None)
  BY ExportIs
<1>2. MayBe(c.kind, "pin", c.pin)
  BY DEF ConfigOk, ConfigFields
<1>3. /\ UsesPin(kind) = UsesPin(c.kind)
      /\ Stated(kind, "algorithm") <=> FixedAlgorithm(kind) = None
      /\ Stated(kind, "digits") <=> FixedDigits(kind) = None
      /\ Stated(kind, "period") <=> FixedPeriod(kind) = None
  BY WrittenKind
<1>4. d.pin = c.pin
  BY <1>1, <1>2, <1>3 DEF MayBe
<1>5. SerializesAs(d.kind) = kind
  BY <1>1 DEF SerializesAs
<1>6. /\ Stated(kind, "algorithm") => d.algorithm = c.algorithm
      /\ Stated(kind, "digits") => d.digits = c.digits
      /\ Stated(kind, "period") => d.period = c.period
      /\ UsesCounter(kind) => d.counter = c.counter
  BY <1>1, <1>3 DEF OrElse
<1> HIDE DEF e, kind, c
<1>7. /\ OneParam("algorithm", d.algorithm, Stated(kind, "algorithm")) = OneParam("algorithm", c.algorithm, Stated(kind, "algorithm"))
      /\ OneParam("digits", d.digits, Stated(kind, "digits")) = OneParam("digits", c.digits, Stated(kind, "digits"))
      /\ OneParam("period", d.period, Stated(kind, "period")) = OneParam("period", c.period, Stated(kind, "period"))
      /\ OneParam("counter", d.counter, UsesCounter(kind)) = OneParam("counter", c.counter, UsesCounter(kind))
  BY <1>6 DEF OneParam
<1>8. LabelOf(e) = LabelOf(u) /\ Vendor(e) = Vendor(u)
  BY <1>1 DEF LabelOf, Vendor
<1>9. QueryOf(e, kind) = QueryOf(u, kind)
  BY <1>1, <1>4, <1>7, <1>8 DEF QueryOf, c
<1>10. kind = SerializesAs(e.config.kind) /\ kind = SerializesAs(u.config.kind)
  BY <1>5 DEF kind, c
<1>11. ToUri(e) = OfParts(kind, LabelOf(e), QueryOf(e, kind)) /\ ToUri(u) = OfParts(kind, LabelOf(u), QueryOf(u, kind))
  BY <1>10, WrittenOfParts
<1>. QED
  BY <1>8, <1>9, <1>11 DEF e

LEMMA FewDigits ==
  ASSUME NEW d, DigitsOk(d)
  PROVE  d \in Nat /\ d < 256 /\ d <= 3600
  BY DEF DigitsOk
LEMMA ShortPeriods ==
  ASSUME NEW p, PeriodOk(p)
  PROVE  p \in Nat /\ p < 65536 /\ p <= 3600
  BY DEF PeriodOk

\* A PIN that is text can be read.
PinReads(c) == c.kind = "motp" /\ c.pin # None => c.pin \notin Unprintable

\* What to_uri writes is read back, without a warning, as export_form.
LEMMA WrittenIsRead ==
  ASSUME NEW u, u = [f \in UriFields |-> u[f]], ConfigOk(u.config), TextsOk(u), PinReads(u.config), UriFits(ToUri(u))
  PROVE  ParseWithWarnings(ToUri(u)) = Ok([uri |-> ExportForm(u), warnings |-> {}])
<1> DEFINE c == u.config
           kind == SerializesAs(c.kind)
           uri == ToUri(u)
           q == uri.query
           names == NamesOf(u, kind)
           f == Values(u, kind)
<1>1. /\ c.kind \in Kinds /\ c.algorithm \in Algorithms /\ CheckLen(c.secret) = None /\ DigitsOk(c.digits)
      /\ PeriodOk(c.period) /\ c.counter \in 0 .. MaxU64 /\ c.pin # << >>
      /\ c.pin # None => UsesPin(c.kind)
  <2>1. InForm(c)
    BY ShapeIs
  <2>2. MayBe(c.kind, "pin", c.pin)
    BY DEF ConfigOk, ConfigFields
  <2>. QED
    BY <2>1, <2>2 DEF InForm, MayBe
<1>2. /\ kind \in Kinds /\ FromUriType(kind) = kind /\ SecretEncoding(kind) # "text"
      /\ UsesPin(kind) = UsesPin(c.kind) /\ UsesCounter(kind) = UsesCounter(c.kind)
      /\ PinEncoding(kind) = "text" /\ UsesPin(kind) => c.kind = "motp"
      /\ Stated(kind, "algorithm") <=> FixedAlgorithm(kind) = None
      /\ Stated(kind, "digits") <=> FixedDigits(kind) = None
      /\ Stated(kind, "period") <=> FixedPeriod(kind) = None
  BY WrittenKind
<1>3. /\ uri.scheme = "otpauth" /\ uri.type = kind /\ ~uri.fragment
      /\ uri.label = (IF u.issuer = None THEN << >> ELSE <<Encoded(u.issuer)>>) \o <<Encoded(u.account)>>
  BY DEF ToUri
<1>4. PICK k : Lists(k, names, f) /\ q = k \o Vendor(u)
  BY KnownAreListed
<1>5. /\ f.secret = EncodeField(SecretEncoding(kind), c.secret) /\ f.issuer = Encoded(u.issuer)
      /\ f.algorithm = c.algorithm /\ f.digits = c.digits /\ f.period = c.period
      /\ f.counter = c.counter /\ f.pin = EncodeField(PinEncoding(kind), c.pin)
  BY DEF Values
<1>6. /\ "secret" \in names /\ ("issuer" \in names <=> u.issuer # None)
      /\ "algorithm" \in names <=> FixedAlgorithm(kind) = None
      /\ "digits" \in names <=> FixedDigits(kind) = None
      /\ "period" \in names <=> FixedPeriod(kind) = None
      /\ "counter" \in names <=> UsesCounter(kind)
      /\ "pin" \in names <=> c.pin # None
      /\ names \subseteq KnownParams
  <2> HIDE DEF kind
  <2>. QED
    BY <1>2 DEF NamesOf, KnownParams
<1> HIDE DEF kind, names, f, uri, c
<1>7. /\ \A name \in KnownParams :
              /\ HasParam(q, name) <=> name \in names
              /\ Param(q, name) = IF name \in names THEN f[name] ELSE None
      /\ SetOnce(q)
  <2> DEFINE e == Vendor(u)
  <2>1. e \in Seq(ToSet(e)) /\ \A i \in 1 .. Len(e) : e[i][1] \notin KnownParams
    BY VendorIsListed
  <2> HIDE DEF e, q
  <2>2. q = k \o e
    BY <1>4 DEF e, q
  <2>. QED
    <3>1. /\ \A name \in KnownParams :
               /\ HasParam(k \o e, name) <=> name \in names
               /\ Param(k \o e, name) = IF name \in names THEN f[name] ELSE None
          /\ SetOnce(k \o e)
      BY <1>4, <2>1, ParamsAreFound
    <3>. QED
      BY <2>2, <3>1
<1>8. Extra(q) = u.extra
  BY <1>4, <1>6, TailIsVendor
<1>9. QueryDecodes(q)
  <2> DEFINE e == Vendor(u)
             a == Len(k)
             b == Len(e)
  <2>0. e \in Seq(ToSet(e)) /\ k \in Seq(ToSet(k)) /\ b = Len(u.extra)
    BY <1>4, VendorIsListed DEF Lists
  <2>1. e \in Seq(ToSet(e)) /\ k \in Seq(ToSet(k)) /\ \A i \in 1 .. b : Decodes(e[i][2])
    <3>1. ASSUME NEW i \in 1 .. Len(u.extra) PROVE Decodes(e[i][2])
      BY VendorIsListed DEF Decodes
    <3>. QED
      BY <2>0, <3>1
  <2>2. \A i \in 1 .. a : k[i][1] \in names /\ k[i][2] = f[k[i][1]]
    BY <1>4 DEF Lists
  <2>9. \A i \in 1 .. b : e[i][1] \notin KnownParams
    BY VendorIsListed
  <2> HIDE DEF e
  <2>3. q = k \o e
    BY <1>4 DEF e
  <2> HIDE DEF q
  <2>4. /\ q \in Seq(ToSet(q)) /\ a \in Nat /\ b \in Nat /\ Len(q) = a + b
        /\ \A i \in 1 .. a : q[i] = k[i]
        /\ \A i \in 1 .. b : q[a + i] = e[i]
    BY <2>1, <2>3, JoinedLists
  <2>5. "issuer" \in names => Decodes(f.issuer)
    BY <1>5, <1>6 DEF TextsOk, Decodes, Encoded
  <2> HIDE DEF a, b
  <2>6. DOMAIN q = 1 .. a + b
    BY <2>4, LenProperties
  <2>8. /\ f.secret.enc # "text"
        /\ "pin" \in names /\ f.pin.enc = "text" => Decodes(f.pin)
    <3>1. f.secret.enc = SecretEncoding(kind) /\ f.pin.enc = PinEncoding(kind) /\ f.pin.pct = c.pin
      BY <1>5 DEF EncodeField
    <3>. QED
      BY <1>1, <1>2, <1>6, <3>1 DEF PinReads, Decodes, c
  <2>7. ASSUME NEW i \in 1 .. a + b PROVE ParamDecodes(q[i])
    <3>1. CASE i \in 1 .. a
      <4>1. q[i][1] \in names /\ q[i][2] = f[q[i][1]]
        BY <2>2, <2>4, <3>1
      <4>2. q[i][1] \in {"secret", "issuer", "algorithm", "digits", "period", "counter", "pin"}
        BY <1>6, <4>1 DEF KnownParams
      <4>3. CASE q[i][1] = "secret"
        BY <2>8, <4>1, <4>3 DEF ParamDecodes
      <4>4. CASE q[i][1] = "pin"
        BY <2>8, <4>1, <4>4 DEF ParamDecodes
      <4>5. CASE q[i][1] = "issuer"
        BY <2>5, <4>1, <4>5 DEF ParamDecodes
      <4>. QED
        BY <4>2, <4>3, <4>4, <4>5 DEF ParamDecodes
    <3>2. CASE i \notin 1 .. a
      <4>1. i - a \in 1 .. b /\ a + (i - a) = i
        BY <2>4, <3>2
      <4>2. q[i] = e[i - a]
        BY <2>4, <4>1
      <4>3. q[i][1] \notin KnownParams /\ Decodes(q[i][2])
        BY <2>1, <2>9, <4>1, <4>2
      <4>. QED
        BY <4>3 DEF ParamDecodes, KnownParams
    <3>. QED
      BY <3>1, <3>2
  <2>. QED
    BY <2>6, <2>7 DEF QueryDecodes
<1>10. /\ \A i \in DOMAIN uri.label : Decodes(uri.label[i])
       /\ LabelIssuer(uri) = u.issuer /\ Account(uri) = u.account
  <2> DEFINE l == uri.label
  <2>1. u.issuer = None \/ u.issuer \notin Unprintable \cup {<< >>}
    BY DEF TextsOk
  <2>2. u.account \notin Unprintable
    BY DEF TextsOk
  <2>3. \A t : Encoded(t).pct = t
    BY DEF Encoded
  <2>4. CASE u.issuer = None
    <3>1. l = <<Encoded(u.account)>>
      BY <1>3, <2>4
    <3>2. Len(l) = 1 /\ l[1] = Encoded(u.account) /\ DOMAIN l = {1}
      BY <3>1
    <3>. QED
      BY <2>2, <2>3, <2>4, <3>2 DEF Decodes, LabelIssuer, Account
  <2>5. CASE u.issuer # None
    <3> DEFINE x == Encoded(u.issuer)
               y == Encoded(u.account)
               S == {x, y}
    <3>1. l = <<x>> \o <<y>> /\ x \in S /\ y \in S
      BY <1>3, <2>5
    <3> HIDE DEF x, y, S, l
    <3>2. Len(l) = 2 /\ l[1] = x /\ l[2] = y /\ DOMAIN l = {1, 2}
      <4>1. <<x>> \in Seq(S) /\ <<y>> \in Seq(S) /\ Len(<<x>>) = 1 /\ Len(<<y>>) = 1 /\ <<x>>[1] = x /\ <<y>>[1] = y
        BY <3>1
      <4>2. /\ l \in Seq(S) /\ Len(l) = 1 + 1
            /\ \A i \in 1 .. 1 + 1 : l[i] = IF i <= 1 THEN <<x>>[i] ELSE <<y>>[i - 1]
        BY <3>1, <4>1, ConcatProperties
      <4>3. Len(l) = 2 /\ DOMAIN l = 1 .. 2
        BY <4>2, LenProperties
      <4>4. l[1] = <<x>>[1] /\ l[2] = <<y>>[1]
        BY <4>2
      <4>. QED
        BY <4>1, <4>3, <4>4
    <3>. QED
      BY <2>1, <2>2, <2>3, <2>5, <3>2 DEF Decodes, LabelIssuer, Account, x, y, l
  <2>. QED
    BY <2>4, <2>5
<1> HIDE DEF q
<1>11. KnownParams = {"secret", "issuer", "algorithm", "digits", "period", "counter", "pin"}
  BY DEF KnownParams
<1>12. /\ Param(q, "secret") = f.secret /\ HasParam(q, "secret")
       /\ HasParam(q, "issuer") <=> u.issuer # None
       /\ u.issuer # None => Param(q, "issuer") = Encoded(u.issuer)
       /\ HasParam(q, "algorithm") <=> FixedAlgorithm(kind) = None
       /\ Param(q, "algorithm") = IF FixedAlgorithm(kind) = None THEN c.algorithm ELSE None
       /\ HasParam(q, "digits") <=> FixedDigits(kind) = None
       /\ Param(q, "digits") = IF FixedDigits(kind) = None THEN c.digits ELSE None
       /\ HasParam(q, "period") <=> FixedPeriod(kind) = None
       /\ Param(q, "period") = IF FixedPeriod(kind) = None THEN c.period ELSE None
       /\ HasParam(q, "counter") <=> UsesCounter(kind)
       /\ Param(q, "counter") = IF UsesCounter(kind) THEN c.counter ELSE None
       /\ HasParam(q, "pin") <=> c.pin # None
       /\ c.pin # None => Param(q, "pin") = f.pin
  BY <1>5, <1>6, <1>7, <1>11
<1>13. /\ f.secret.pct = c.secret /\ f.secret.enc = SecretEncoding(kind)
       /\ f.pin.pct = c.pin /\ f.pin.enc = PinEncoding(kind)
  BY <1>5 DEF EncodeField
<1>14. ParamIssuer(uri) = u.issuer
  BY <1>12 DEF ParamIssuer, TextsOk, Encoded, q
<1>15. Warnings(uri, kind) = {}
  <2>1. Overridden(kind, q) = {}
    BY <1>1, <1>2, <1>12 DEF Overridden
  <2>. QED
    BY <1>3, <1>10, <1>14, <2>1 DEF Warnings, q
<1>16. Issuer(uri) = u.issuer
  BY <1>10, <1>14 DEF Issuer, OrElse
<1>17. uri.query = q
  BY DEF q
<1>18. UriSound(uri, kind)
  <2>1. FieldOk(SecretEncoding(kind), Param(q, "secret"))
    BY <1>2, <1>12, <1>13 DEF FieldOk
  <2>2. HasParam(q, "pin") => FieldOk(PinEncoding(kind), Param(q, "pin"))
    BY <1>1, <1>2, <1>12, <1>13 DEF FieldOk, PinReads, c
  <2>3. /\ NumberOk(Param(q, "digits"), 256) /\ NumberOk(Param(q, "period"), 65536)
        /\ NumberOk(Param(q, "counter"), MaxU64 + 1)
    <3>1. c.digits \in Nat /\ c.digits < 256 /\ c.period \in Nat /\ c.period < 65536
      BY <1>1, FewDigits, ShortPeriods
    <3>2. c.counter \in Nat /\ c.counter < MaxU64 + 1
      BY <1>1, OtpAssumption
    <3>. QED
      BY <1>12, <3>1, <3>2 DEF NumberOk
  <2>4. kind # None /\ Param(q, "algorithm") \in Algorithms \cup {None}
    BY <1>1, <1>2, <1>12, NoneAssumption
  <2>. QED
    <3>1. UriFits(uri) /\ uri.scheme = "otpauth" /\ kind # None /\ \A i \in DOMAIN uri.label : Decodes(uri.label[i])
      BY <1>3, <1>10, <2>4 DEF uri
    <3>2. QueryDecodes(uri.query) /\ SetOnce(uri.query)
      BY <1>7, <1>9, <1>17
    <3>3. HasParam(uri.query, "secret") /\ FieldOk(SecretEncoding(kind), Param(uri.query, "secret"))
      BY <1>12, <1>17, <2>1
    <3>4. /\ Param(uri.query, "algorithm") \in Algorithms \cup {None}
          /\ NumberOk(Param(uri.query, "digits"), 256) /\ NumberOk(Param(uri.query, "period"), 65536)
          /\ NumberOk(Param(uri.query, "counter"), MaxU64 + 1)
      BY <1>17, <2>3, <2>4
    <3>5. UsesCounter(kind) => HasParam(uri.query, "counter")
      BY <1>12, <1>17
    <3>6. HasParam(uri.query, "pin") => FieldOk(PinEncoding(kind), Param(uri.query, "pin"))
      BY <1>17, <2>2
    <3>. QED
      BY <3>1, <3>2, <3>3, <3>4, <3>5, <3>6 DEF UriSound
<1> DEFINE b == Asked(uri)
<1>19. /\ b = [g \in ConfigFields |-> b[g]] /\ b.kind = kind /\ b.secret = c.secret
       /\ b.algorithm = Param(q, "algorithm") /\ b.digits = Param(q, "digits") /\ b.period = Param(q, "period")
       /\ b.counter = OrElse(Param(q, "counter"), 0) /\ b.pin = c.pin
  <2>1. /\ b = [g \in ConfigFields |-> b[g]] /\ b.kind = FromUriType(uri.type) /\ b.secret = Param(q, "secret").pct
        /\ b.algorithm = Param(q, "algorithm") /\ b.digits = Param(q, "digits") /\ b.period = Param(q, "period")
        /\ b.counter = OrElse(Param(q, "counter"), 0)
        /\ b.pin = IF HasParam(q, "pin") THEN Param(q, "pin").pct ELSE None
    BY <1>17 DEF Asked, ConfigFields
  <2> HIDE DEF b
  <2>. QED
    BY <1>2, <1>3, <1>12, <1>13, <2>1
<1> HIDE DEF b
<1>20. c.algorithm # None /\ c.digits # None /\ c.period # None /\ c.counter # None
  <2>1. c.digits \in 0 .. MaxU64 /\ c.period \in 0 .. MaxU64
    BY <1>1, OtpAssumption, FewDigits, ShortPeriods
  <2>. QED
    BY <1>1, <2>1, NoneAssumption
<1>21. b.counter \in 0 .. MaxU64 /\ b.counter = (IF UsesCounter(kind) THEN c.counter ELSE 0)
  BY <1>1, <1>12, <1>19, <1>20, OtpAssumption DEF OrElse
<1>22. \E e : Build(b) = Ok(e) /\ ConfigOk(e) /\ IsBuilt(b, e)
  <2>1. b.algorithm \in Algorithms \cup {None}
    BY <1>1, <1>12, <1>19
  <2>2. DigitsOk(OrElse(b.digits, DefaultDigits(b.kind))) /\ PeriodOk(OrElse(b.period, DefaultPeriod(b.kind)))
    BY <1>1, <1>2, <1>12, <1>19, KindsFix DEF OrElse
  <2>. QED
    BY <1>1, <1>2, <1>19, <1>21, <2>1, <2>2, BuiltIsOk
<1> DEFINE e == ExportForm(u)
<1>24. /\ e = [g \in UriFields |-> e[g]] /\ e.issuer = u.issuer /\ e.account = u.account /\ e.extra = u.extra
       /\ e.config = [g \in ConfigFields |-> e.config[g]]
       /\ e.config.kind = kind /\ e.config.secret = c.secret
       /\ e.config.algorithm = OrElse(FixedAlgorithm(kind), c.algorithm)
       /\ e.config.digits = OrElse(FixedDigits(kind), c.digits)
       /\ e.config.period = OrElse(FixedPeriod(kind), c.period)
       /\ e.config.counter = (IF UsesCounter(kind) THEN c.counter ELSE 0)
       /\ e.config.pin = (IF UsesPin(kind) THEN c.pin ELSE None)
  BY ExportIs DEF kind, c
<1> HIDE DEF e
<1>25. ASSUME NEW x, IsBuilt(b, x) PROVE x = e.config
  <2> DEFINE y == e.config
  <2>1. IsBuilt(b, x)
    BY <1>25
  <2>2. x = [g \in ConfigFields |-> x[g]] /\ x.kind = y.kind /\ x.secret = y.secret
    BY <1>19, <1>24, <2>1 DEF IsBuilt
  <2>3. x.algorithm = y.algorithm /\ x.digits = y.digits /\ x.period = y.period
    BY <1>12, <1>19, <1>20, <1>24, <2>1 DEF IsBuilt, OrElse
  <2>4. x.counter = y.counter /\ x.pin = y.pin
    BY <1>1, <1>19, <1>21, <1>24, <2>1 DEF IsBuilt, KeptPin
  <2> HIDE DEF y
  <2>5. \A g \in ConfigFields : x[g] = y[g]
    BY <2>2, <2>3, <2>4 DEF ConfigFields
  <2>6. y = [g \in ConfigFields |-> y[g]]
    BY <1>24 DEF y
  <2>7. x = y
    BY <2>2, <2>5, <2>6
  <2>. QED
    BY <2>7 DEF y
<1>28. \A x : ~TooLongWith(uri, x)
  <2>1. SUFFICES ASSUME NEW x, Build(b) = Ok(x)
                 PROVE  UriFits(ToUri([config |-> x, issuer |-> Issuer(uri), account |-> Account(uri), extra |-> Extra(uri.query)]))
    BY DEF TooLongWith, b
  <2>2. IsBuilt(b, x)
    <3>1. PICK y : Build(b) = Ok(y) /\ IsBuilt(b, y)
      BY <1>22
    <3>2. Ok(x).ok = x /\ Ok(y).ok = y
      BY Results
    <3>3. Ok(x) = Ok(y)
      BY <2>1, <3>1
    <3>4. x = y
      BY <3>2, <3>3
    <3>. QED
      BY <3>1, <3>4
  <2>3. x = e.config
    BY <1>25, <2>2
  <2> DEFINE r == [config |-> x, issuer |-> Issuer(uri), account |-> Account(uri), extra |-> Extra(uri.query)]
  <2>4. r.config = e.config /\ r.issuer = e.issuer /\ r.account = e.account /\ r.extra = e.extra /\ r = [g \in UriFields |-> r[g]]
    BY <1>8, <1>10, <1>16, <1>17, <1>24, <2>3 DEF UriFields
  <2> HIDE DEF r
  <2>5. \A g \in UriFields : r[g] = e[g]
    BY <2>4 DEF UriFields
  <2>6. r = e
    BY <1>24, <2>4, <2>5
  <2>7. ToUri(e) = ToUri(u)
    BY ExportIsWrittenAlike DEF e
  <2>. QED
    BY <2>6, <2>7 DEF r
<1>23. PICK v, w : Reads(uri, v, w)
  <2>1. UriProblem(uri, FromUriType(uri.type)) = None
    BY <1>2, <1>3, <1>18, SoundIsNoProblem
  <2>2. \A x : Build(Asked(uri)) # Err(x)
    BY <1>22, Results DEF b
  <2>. QED
    BY <1>28, <2>1, <2>2, UriIsRead
<1>29. v.config = e.config
  BY <1>23, <1>25 DEF Reads, b
<1>26. v = e
  <2>1. v = [g \in UriFields |-> v[g]] /\ v.issuer = e.issuer /\ v.account = e.account /\ v.extra = e.extra
    BY <1>8, <1>10, <1>16, <1>17, <1>23, <1>24 DEF Reads
  <2>2. \A g \in UriFields : v[g] = e[g]
    BY <1>29, <2>1 DEF UriFields
  <2>. QED
    BY <1>24, <2>1, <2>2
<1>27. w = {}
  BY <1>2, <1>3, <1>15, <1>23 DEF Reads
<1>. QED
  BY <1>23, <1>26, <1>27 DEF Reads, uri, e

LEMMA InvIsShape == OtpInv <=> OtpShape /\ failed \in OtpErrors \cup UriErrors \cup {None}
<1>1. otp # None => (UriOk(otp) <=> InForm(otp.config) /\ otp = [f \in UriFields |-> otp[f]] /\ TextsOk(otp))
  BY ShapeIs DEF UriOk
<1>. QED
  BY <1>1 DEF OtpInv, OtpTypeOK, InForm, OtpShape

LEMMA OtpStep ==
  ASSUME OtpInv, [OtpNext]_otpVars
  PROVE  OtpInv'
<1> DEFINE Fails == OtpErrors \cup UriErrors \cup {None}
<1>0. OtpShape /\ failed \in Fails
  BY InvIsShape
<1>1. SUFFICES OtpShape' /\ failed' \in Fails
  <2>1. (OtpInv <=> OtpShape /\ failed \in Fails)'
    BY InvIsShape, PTL
  <2>. QED
    BY <2>1
<1>2. ASSUME NEW uri, uri.label \in Seq(ToSet(uri.label)), uri.query \in Seq(ToSet(uri.query)),
             NEW u, NEW w, Reads(uri, u, w)
      PROVE  UriOk(u)
  BY <1>2, ReadTexts DEF UriOk, Reads
<1>3. ASSUME NEW uri \in OtpInputs, Scan(uri) PROVE OtpShape' /\ failed' \in Fails
  <2> DEFINE parsed == ParseWithWarnings(uri)
  <2>0. uri.label \in Seq(ToSet(uri.label)) /\ uri.query \in Seq(ToSet(uri.query))
    BY OtpAssumption
  <2>1. IF IsOk(parsed)
        THEN otp' = parsed.ok.uri /\ failed' = None /\ given' = [uri |-> uri, warnings |-> parsed.ok.warnings]
        ELSE failed' = parsed.err /\ otp' = otp /\ given' = given
    BY <1>3 DEF Scan
  <2> HIDE DEF parsed
  <2>2. CASE \E e \in OtpErrors \cup UriErrors : parsed = Err(e)
    BY <1>0, <2>1, <2>2, Results DEF OtpShape
  <2>3. CASE \E u, w : Reads(uri, u, w)
    <3>1. PICK u, w : Reads(uri, u, w)
      BY <2>3
    <3> DEFINE r == [uri |-> u, warnings |-> w]
               g == [uri |-> uri, warnings |-> w]
    <3>2. parsed = Ok(r)
      BY <3>1 DEF Reads, parsed
    <3>3. r.uri = u /\ r.warnings = w /\ g.uri = uri /\ g.warnings = w
      OBVIOUS
    <3>4. UriOk(u)
      BY <1>2, <2>0, <3>1
    <3>5. IsOk(parsed) /\ parsed.ok = r
      BY <3>2, Results
    <3>6. otp' = u /\ failed' = None /\ given' = g
      BY <2>1, <3>3, <3>5
    <3>7. given'.uri \in OtpInputs /\ ParseWithWarnings(given'.uri) = Ok([uri |-> otp', warnings |-> given'.warnings])
      <4>1. given'.uri = uri /\ given'.warnings = w
        BY <3>3, <3>6
      <4>. QED
        BY <3>2, <3>6, <4>1 DEF parsed
    <3>. QED
      BY <3>4, <3>6, <3>7 DEF OtpShape
  <2>. QED
    BY <2>2, <2>3, UriIsRead DEF parsed
<1>4. ASSUME Reimport PROVE OtpShape' /\ failed' \in Fails
  <2> DEFINE uri == ToUri(otp)
             parsed == ParseWithWarnings(uri)
  <2>1. /\ otp # None /\ given' = None
        /\ IF IsOk(parsed) THEN otp' = parsed.ok.uri /\ failed' = None ELSE failed' = parsed.err /\ otp' = otp
    BY <1>4 DEF Reimport
  <2>2. uri.label \in Seq(ToSet(uri.label)) /\ uri.query \in Seq(ToSet(uri.query))
    BY <1>0, <2>1, WrittenIsListed DEF OtpShape, UriOk
  <2> HIDE DEF parsed, uri
  <2>3. CASE \E e \in OtpErrors \cup UriErrors : parsed = Err(e)
    BY <1>0, <2>1, <2>3, Results DEF OtpShape
  <2>4. CASE \E u, w : Reads(uri, u, w)
    <3>1. PICK u, w : Reads(uri, u, w)
      BY <2>4
    <3> DEFINE r == [uri |-> u, warnings |-> w]
    <3>2. parsed = Ok(r) /\ r.uri = u
      BY <3>1 DEF Reads, parsed
    <3>3. UriOk(u)
      BY <1>2, <2>2, <3>1
    <3>4. IsOk(parsed) /\ parsed.ok = r
      BY <3>2, Results
    <3> HIDE DEF r
    <3>. QED
      BY <2>1, <3>2, <3>3, <3>4 DEF OtpShape
  <2>. QED
    BY <2>3, <2>4, UriIsRead DEF parsed
<1>5. ASSUME otp # None, NEW r, IsSetter(otp.config, r), Edit(r) PROVE OtpShape' /\ failed' \in Fails
  <2>1. UriOk(otp)
    BY <1>0, <1>5 DEF OtpShape
  <2>2. CASE \E e : r = Ok(e) /\ ConfigOk(e)
    <3>1. PICK e : r = Ok(e) /\ ConfigOk(e)
      BY <2>2
    <3>2. otp' = [otp EXCEPT !.config = e] /\ failed' = None /\ given' = None
      BY <1>5, <3>1, Results DEF Edit
    <3>3. otp = [f \in UriFields |-> otp[f]] /\ TextsOk(otp)
      BY <2>1 DEF UriOk
    <3>4. /\ otp'.config = e /\ otp' = [f \in UriFields |-> otp'[f]]
          /\ otp'.issuer = otp.issuer /\ otp'.account = otp.account /\ otp'.extra = otp.extra
      BY <3>2, <3>3 DEF UriFields
    <3>5. TextsOk(otp')
      BY <3>3, <3>4 DEF TextsOk
    <3>. QED
      BY <3>1, <3>2, <3>4, <3>5 DEF OtpShape, UriOk
  <2>3. CASE \E e \in OtpErrors : r = Err(e)
    <3>1. otp' = otp /\ failed' \in OtpErrors /\ given' = None
      BY <1>5, <2>3, Results DEF Edit
    <3>. QED
      BY <1>0, <3>1 DEF OtpShape
  <2>. QED
    BY <1>5, <2>1, <2>2, <2>3, SettersKeep DEF UriOk
<1>6. ASSUME EditDigits \/ EditPeriod \/ EditAlgorithm \/ EditCounter \/ EditPin \/ EditSecret
      PROVE  OtpShape' /\ failed' \in Fails
  <2>1. 2 \in 0 .. MaxU64 /\ MaxU64 \in 0 .. MaxU64
    BY OtpAssumption
  <2>2. CASE EditDigits
    BY <1>5, <2>2 DEF EditDigits, IsSetter
  <2>3. CASE EditPeriod
    BY <1>5, <2>3 DEF EditPeriod, IsSetter
  <2>4. CASE EditAlgorithm
    BY <1>5, <2>4 DEF EditAlgorithm, IsSetter
  <2>5. CASE EditCounter
    BY <1>5, <2>1, <2>5 DEF EditCounter, IsSetter
  <2>6. CASE EditPin
    BY <1>5, <2>6 DEF EditPin, IsSetter
  <2>7. CASE EditSecret
    BY <1>5, <2>7 DEF EditSecret, IsSetter
  <2>. QED
    BY <1>6, <2>2, <2>3, <2>4, <2>5, <2>6, <2>7
<1>7. ASSUME UNCHANGED otpVars PROVE OtpShape' /\ failed' \in Fails
  BY <1>0, <1>7 DEF otpVars, OtpShape
<1>. QED
  BY <1>3, <1>4, <1>6, <1>7 DEF OtpNext

(***************************************************************************)
(* Codes.                                                                  *)
(***************************************************************************)
LEMMA ListLength ==
  ASSUME NEW n \in Nat, NEW s, DOMAIN s = 1 .. n, s = [i \in 1 .. n |-> s[i]]
  PROVE  Len(s) = n
<1> DEFINE S == {s[i] : i \in 1 .. n}
<1>1. s \in [1 .. n -> S]
  OBVIOUS
<1>2. s \in Seq(S)
  BY <1>1
<1>. QED
  BY <1>2, LenProperties

\* A value has the length that is asked for, whatever it was computed from, and only a missing PIN
\* keeps it from being made.
LEMMA ValueHasLength ==
  ASSUME NEW c, ConfigOk(c), NEW factor
  PROVE  \/ ValueAt(c, factor) = Err("MissingPin") /\ UsesPin(c.kind) /\ c.pin = None
         \/ /\ ~(UsesPin(c.kind) /\ c.pin = None)
            /\ \E v : ValueAt(c, factor) = Ok(v) /\ Len(v) = c.digits
<1>1. c.kind \in Kinds /\ c.digits \in Nat
  BY FormIsFixed, ShapeIs DEF InForm, DigitsOk
<1> DEFINE n == c.digits
<1>2. \A x : Len(DecimalDigits(x, n)) = n
  <2>1. SUFFICES ASSUME NEW x PROVE Len(DecimalDigits(x, n)) = n
    OBVIOUS
  <2> DEFINE s == DecimalDigits(x, n)
  <2>2. DOMAIN s = 1 .. n /\ s = [i \in 1 .. n |-> s[i]]
    BY DEF DecimalDigits
  <2> HIDE DEF s
  <2>. QED
    BY <1>1, <2>2, ListLength DEF s
<1>3. \A x : DOMAIN Base26(x, n) = 1 .. n /\ Len(Base26(x, n)) = n
  <2>1. SUFFICES ASSUME NEW x PROVE DOMAIN Base26(x, n) = 1 .. n /\ Len(Base26(x, n)) = n
    OBVIOUS
  <2> DEFINE s == Base26(x, n)
  <2>2. DOMAIN s = 1 .. n /\ s = [i \in 1 .. n |-> s[i]]
    BY DEF Base26
  <2> HIDE DEF s
  <2>. QED
    BY <1>1, <2>2, ListLength DEF s
<1>4. Len(MotpValue(c, factor)) = n
  <2> DEFINE s == MotpValue(c, factor)
  <2>1. DOMAIN s = 1 .. n /\ s = [i \in 1 .. n |-> s[i]]
    BY DEF MotpValue
  <2> HIDE DEF s
  <2>. QED
    BY <1>1, <2>1, ListLength DEF s
<1>5. Len(YandexValue(c, factor)) = n
  <2>1. PICK x : YandexValue(c, factor) = Reverse(Base26(x, n))
    BY DEF YandexValue
  <2> DEFINE b == Base26(x, n)
             s == Reverse(b)
  <2>2. Len(b) = n
    BY <1>3
  <2> HIDE DEF b
  <2>3. DOMAIN s = 1 .. n /\ s = [i \in 1 .. n |-> s[i]]
    BY <2>2 DEF Reverse
  <2> HIDE DEF s
  <2>4. Len(s) = n
    BY <1>1, <2>3, ListLength
  <2>. QED
    BY <2>1, <2>4 DEF s, b
<1>6. CASE c.kind \in {"totp", "hotp", "blizzard"}
  BY <1>2, <1>6 DEF ValueAt, UsesPin
<1>7. CASE c.kind = "steam"
  BY <1>3, <1>7 DEF ValueAt, UsesPin, SteamValue
<1>8. CASE c.kind \in {"motp", "yaotp"} /\ c.pin = None
  BY <1>8 DEF ValueAt, UsesPin
<1>9. CASE c.kind = "motp" /\ c.pin # None
  BY <1>4, <1>9 DEF ValueAt, UsesPin
<1>10. CASE c.kind = "yaotp" /\ c.pin # None
  BY <1>5, <1>10 DEF ValueAt, UsesPin
<1>. QED
  BY <1>1, <1>6, <1>7, <1>8, <1>9, <1>10 DEF Kinds

\* The window of an instant holds it, and the next one starts where it ends.
IsWindow(p, ms, from) ==
  LET until == from + 1000 * p IN
  /\ from <= ms /\ ms < until /\ until \in Nat
  /\ WindowAt(p, ms) = IF until > MaxU64 THEN Err("TimeOutOfRange")
                       ELSE Ok([counter |-> ms \div (1000 * p), from |-> from, until |-> until])
  /\ WindowAt(p, until) = IF until + 1000 * p > MaxU64 THEN Err("TimeOutOfRange")
                          ELSE Ok([counter |-> until \div (1000 * p), from |-> until, until |-> until + 1000 * p])
LEMMA WindowHolds ==
  ASSUME NEW p, PeriodOk(p), NEW ms \in Nat
  PROVE  \E from \in Nat : IsWindow(p, ms, from)
<1> DEFINE y == 1000 * p
           q == ms \div y
           from == q * y
<1>1. p \in Nat /\ y \in Nat /\ y > 0
  BY DEF PeriodOk
<1>2. q \in Nat /\ from <= ms /\ ms < from + y
  <2> HIDE DEF y
  <2>. QED
    BY <1>1, Quotient
<1>3. from \in Nat /\ from + y \in Nat /\ from + y = (q + 1) * y
  <2> HIDE DEF y, q
  <2>. QED
    BY <1>1, <1>2
<1>4. (from + y) \div y = q + 1
  <2> HIDE DEF y, q, from
  <2>. QED
    BY <1>1, <1>2, <1>3, QuotientOf
<1>5. \A k \in Nat : k * 1000 * p = k * y
  BY <1>1
<1>6. /\ WindowAt(p, ms) = IF from + y > MaxU64 THEN Err("TimeOutOfRange")
                           ELSE Ok([counter |-> q, from |-> from, until |-> from + y])
  <2>1. q * 1000 * p = from
    BY <1>2, <1>5
  <2> HIDE DEF from
  <2>. QED
    BY <2>1 DEF WindowAt
<1>7. /\ WindowAt(p, from + y) = IF (from + y) + y > MaxU64 THEN Err("TimeOutOfRange")
                                ELSE Ok([counter |-> (from + y) \div y, from |-> from + y, until |-> (from + y) + y])
  <2> DEFINE until == from + y
  <2>1. (until \div (1000 * p)) * 1000 * p = until
    BY <1>2, <1>3, <1>4, <1>5
  <2> HIDE DEF until
  <2>. QED
    BY <2>1 DEF WindowAt, until
<1> HIDE DEF from, q
<1>8. IsWindow(p, ms, from)
  BY <1>2, <1>3, <1>6, <1>7 DEF q, IsWindow
<1>. QED
  BY <1>3, <1>8

LEMMA CodeCovers ==
  ASSUME NEW c, ConfigOk(c), NEW instant \in Nat
  PROVE  CodesCover(c, instant)
<1> DEFINE code == GenerateAt(c, instant)
           next == NextCodeAt(c, instant)
<1>1. PeriodOk(c.period) /\ c.kind \in Kinds
  BY ShapeIs DEF InForm
<1>2. \A v, w : CodeOf(Err(v), w) = Err(v) /\ CodeOf(Ok(v), w) = Ok([value |-> v, window |-> w])
  BY Results DEF CodeOf
<1>3. CASE UsesCounter(c.kind)
  <2>1. ~UsesPin(c.kind)
    BY <1>3 DEF UsesCounter, UsesPin
  <2>2. PICK v : ValueAt(c, c.counter) = Ok(v) /\ Len(v) = c.digits
    BY <2>1, ValueHasLength
  <2>3. code = Ok([value |-> v, window |-> None])
    BY <1>2, <1>3, <2>2 DEF GenerateAt
  <2>4. IsOk(code) /\ code.ok.value = v
    <3> HIDE DEF code
    <3>. QED
      BY <2>3, Results
  <2>5. c.counter # MaxU64 => IsOk(next)
    <3>1. PICK x : ValueAt(c, c.counter + 1) = Ok(x)
      BY <2>1, ValueHasLength
    <3>2. c.counter # MaxU64 => next = Ok([value |-> x, window |-> None])
      BY <1>2, <1>3, <3>1 DEF NextCodeAt
    <3> HIDE DEF next
    <3>. QED
      BY <3>2, Results
  <2> HIDE DEF code, next
  <2>. QED
    BY <1>3, <2>2, <2>4, <2>5 DEF code, next, CodesCover
<1>4. CASE ~UsesCounter(c.kind)
  <2> DEFINE p == c.period
  <2>0. PICK from \in Nat : IsWindow(p, instant, from)
    BY <1>1, WindowHolds
  <2>1.   /\ from <= instant /\ instant < from + 1000 * p /\ from + 1000 * p \in Nat
          /\ WindowAt(p, instant) = IF from + 1000 * p > MaxU64 THEN Err("TimeOutOfRange")
                               ELSE Ok([counter |-> instant \div (1000 * p), from |-> from, until |-> from + 1000 * p])
          /\ WindowAt(p, from + 1000 * p) =
               IF (from + 1000 * p) + 1000 * p > MaxU64 THEN Err("TimeOutOfRange")
               ELSE Ok([counter |-> (from + 1000 * p) \div (1000 * p), from |-> from + 1000 * p,
                        until |-> (from + 1000 * p) + 1000 * p])
    BY <2>0 DEF IsWindow
  <2> DEFINE until == from + 1000 * p
             w == WindowAt(p, instant)
             x == WindowAt(p, until)
  <2>2. /\ code = IF IsOk(w) THEN CodeOf(ValueAt(c, w.ok.counter), w.ok) ELSE w
        /\ next = IF IsOk(w) THEN GenerateAt(c, w.ok.until) ELSE w
        /\ GenerateAt(c, until) = IF IsOk(x) THEN CodeOf(ValueAt(c, x.ok.counter), x.ok) ELSE x
    BY <1>4 DEF GenerateAt, NextCodeAt
  <2>3. CASE until > MaxU64
    <3>1. w = Err("TimeOutOfRange")
      BY <2>1, <2>3
    <3> HIDE DEF w, code, next
    <3>2. code = Err("TimeOutOfRange") /\ next = Err("TimeOutOfRange")
      BY <2>2, <3>1, Results
    <3>3. ~IsOk(code) /\ code.err = "TimeOutOfRange" /\ ~IsOk(next)
      BY <3>2, Results
    <3>. QED
      BY <3>3 DEF code, next, CodesCover
  <2>4. CASE ~(until > MaxU64) /\ UsesPin(c.kind) /\ c.pin = None
    <3> DEFINE r == [counter |-> instant \div (1000 * p), from |-> from, until |-> until]
    <3>1. w = Ok(r)
      BY <2>1, <2>4
    <3>2. \A factor : ValueAt(c, factor) = Err("MissingPin")
      BY <2>4, ValueHasLength
    <3> HIDE DEF w, code, next, x
    <3>3. IsOk(w) /\ w.ok = r
      BY <3>1, Results
    <3>4. code = Err("MissingPin") /\ r.until = until
      BY <1>2, <2>2, <3>2, <3>3
    <3>5. ~IsOk(code) /\ code.err = "MissingPin"
      BY <3>4, Results
    <3>6. ~IsOk(x) \/ GenerateAt(c, until) = Err("MissingPin")
      BY <1>2, <2>2, <3>2
    <3>7. x = Err("TimeOutOfRange") \/ IsOk(x)
      BY <2>1, Results DEF x
    <3>8. next = Err("MissingPin") \/ next = Err("TimeOutOfRange")
      BY <2>2, <3>3, <3>4, <3>6, <3>7, Results
    <3>9. ~IsOk(next)
      BY <3>8, Results
    <3>. QED
      BY <2>4, <3>5, <3>9 DEF code, next, CodesCover
  <2>5. CASE ~(until > MaxU64) /\ ~(UsesPin(c.kind) /\ c.pin = None)
    <3> DEFINE r == [counter |-> instant \div (1000 * p), from |-> from, until |-> until]
    <3>1. w = Ok(r)
      BY <2>1, <2>5
    <3>2. PICK v : ValueAt(c, r.counter) = Ok(v) /\ Len(v) = c.digits
      BY <2>5, ValueHasLength
    <3> HIDE DEF w, code, next, x
    <3>3. IsOk(w) /\ w.ok = r
      BY <3>1, Results
    <3>4. r.from = from /\ r.until = until
      OBVIOUS
    <3>5. code = Ok([value |-> v, window |-> r])
      <4> HIDE DEF r
      <4>. QED
        BY <1>2, <2>2, <3>2, <3>3
    <3>6. next = GenerateAt(c, until)
      BY <2>2, <3>3, <3>4
    <3> HIDE DEF r
    <3>7. IsOk(code) /\ code.ok.value = v /\ code.ok.window = r
      BY <3>5, Results
    <3>8. CASE until + 1000 * p > MaxU64
      <4>1. x = Err("TimeOutOfRange")
        BY <2>1, <3>8 DEF x
      <4>2. ~IsOk(next)
        BY <2>2, <3>6, <4>1, Results
      <4>. QED
        BY <2>1, <3>2, <3>4, <3>7, <3>8, <4>2 DEF code, next, CodesCover
    <3>9. CASE ~(until + 1000 * p > MaxU64)
      <4> DEFINE z == [counter |-> until \div (1000 * p), from |-> until, until |-> until + 1000 * p]
      <4>1. x = Ok(z)
        BY <2>1, <3>9 DEF x
      <4>2. PICK y : ValueAt(c, z.counter) = Ok(y)
        BY <2>5, ValueHasLength
      <4>3. z.from = until
        OBVIOUS
      <4> HIDE DEF z
      <4>4. IsOk(x) /\ x.ok = z
        BY <4>1, Results
      <4>5. next = Ok([value |-> y, window |-> z])
        BY <1>2, <2>2, <3>6, <4>2, <4>4
      <4>6. IsOk(next) /\ next.ok.window = z
        BY <4>5, Results
      <4>. QED
        BY <2>1, <3>2, <3>4, <3>6, <3>7, <4>3, <4>6 DEF code, next, CodesCover
    <3>. QED
      BY <3>8, <3>9
  <2>. QED
    BY <2>3, <2>4, <2>5
<1>. QED
  BY <1>3, <1>4

\* The first counter of the window with the observed code.
LEMMA ResyncIsFirst ==
  ASSUME NEW c, ConfigOk(c), UsesCounter(c.kind), NEW n \in 0 .. MaxResyncWindow, c.counter + n <= MaxU64
  PROVE  LET found == ResyncCounter(c, ValueAt(c, c.counter + n).ok, n) IN
         /\ found \in c.counter .. (c.counter + n)
         /\ ValueAt(c, found) = ValueAt(c, c.counter + n)
         /\ \A o \in c.counter .. (found - 1) : ValueAt(c, o) # ValueAt(c, found)
<1> DEFINE k == c.counter
           value == ValueAt(c, k + n)
           hits == {m \in k .. k + n : m <= MaxU64 /\ ValueAt(c, m) = value}
           found == ResyncCounter(c, value.ok, n)
<1>1. k \in Nat /\ n \in Nat /\ n <= MaxResyncWindow /\ MaxResyncWindow \in Nat /\ MaxU64 \in Nat
  BY ShapeIs, OtpAssumption DEF InForm
<1>2. PICK v : value = Ok(v)
  <2>1. ~UsesPin(c.kind)
    BY DEF UsesPin, UsesCounter
  <2>. QED
    BY <2>1, ValueHasLength
<1>3. value = Ok(value.ok)
  BY <1>2, Results
<1> HIDE DEF value
<1>4. k + n \in hits /\ hits \subseteq Nat /\ IsFiniteSet(hits)
  <2>1. k + n \in hits /\ hits \subseteq k .. k + n
    BY <1>1 DEF value
  <2>2. IsFiniteSet(k .. k + n)
    BY <1>1, FS_Interval
  <2>. QED
    BY <1>1, <2>1, <2>2, FS_Subset
<1>5. found = CHOOSE m \in hits : \A o \in hits : m <= o
  <2>1. k + (IF n < MaxResyncWindow THEN n ELSE MaxResyncWindow) = k + n
    BY <1>1
  <2>2. {m \in k .. k + n : m <= MaxU64 /\ ValueAt(c, m) = Ok(value.ok)} = hits
    BY <1>3
  <2>3. hits # {}
    BY <1>4
  <2> HIDE DEF hits
  <2>. QED
    BY <2>1, <2>2, <2>3 DEF ResyncCounter
<1>6. PICK m \in hits : \A o \in hits : m <= o
  <2> HIDE DEF hits
  <2>. QED
    BY <1>4, MinOfFinite
<1>7. found \in hits /\ \A o \in hits : found <= o
  <2> HIDE DEF hits
  <2>. QED
    BY <1>5, <1>6
<1> HIDE DEF found
<1>8. ASSUME NEW o \in k .. found - 1, ValueAt(c, o) = value PROVE FALSE
  <2>1. o \in hits /\ o < found
    BY <1>1, <1>7, <1>8
  <2>. QED
    BY <1>1, <1>7, <2>1
<1>9. found \in k .. k + n /\ ValueAt(c, found) = value
  BY <1>7
<1>. QED
  BY <1>8, <1>9 DEF found, value

(***************************************************************************)
(* For every input, clock reading, correction and width of the clock: what *)
(* can be reached through the parser and the setters generates, its        *)
(* windows tile time, and a counter that fell behind is found              *)
(* (generate_at, next_code_at, resync_counter).                            *)
(***************************************************************************)
THEOREM CodesStayRight == OtpSpec => []CodesAreRight
<1>1. OtpInit => OtpInv
  BY DEF OtpInit, OtpInv, OtpTypeOK
<1>2. OtpInv => CodesAreRight
  <2>1. SUFFICES ASSUME OtpInv PROVE CodesAreRight
    OBVIOUS
  <2>2. otp # None => ConfigOk(otp.config)
    <3>1. otp # None => InForm(otp.config)
      BY <2>1 DEF OtpInv, OtpTypeOK, InForm
    <3>. QED
      BY <3>1, ShapeIs
  <2>3. CodesCoverTime
    <3>1. ASSUME NEW ms \in Instants, NEW offset \in Offsets PROVE SkewedNow(ms, offset) \in Nat
      <4>1. ms \in Int /\ offset \in Int /\ MaxU64 \in Nat
        BY OtpAssumption
      <4>. QED
        BY <4>1 DEF SkewedNow
    <3>. QED
      BY <2>2, <3>1, CodeCovers DEF CodesCoverTime
  <2>4. ResyncFindsIt
    BY <2>2, ResyncIsFirst, Zenon DEF ResyncFindsIt
  <2>. QED
    BY <2>1, <2>3, <2>4 DEF CodesAreRight, OtpInv
<1>. QED
  BY <1>1, <1>2, OtpStep, PTL DEF OtpSpec

(***************************************************************************)
(* The kind that is not written has the codes of the one that is.          *)
(***************************************************************************)
LEMMA ExportKeeps ==
  ASSUME NEW u, UriOk(u), NEW ms
  PROVE  GenerateAt(ExportForm(u).config, ms) = GenerateAt(u.config, ms)
<1> DEFINE c == u.config
           kind == SerializesAs(c.kind)
           e == ExportForm(u).config
<1>1. /\ e = [f \in ConfigFields |-> e[f]] /\ e.kind = kind /\ e.secret = c.secret
      /\ e.algorithm = OrElse(FixedAlgorithm(kind), c.algorithm)
      /\ e.digits = OrElse(FixedDigits(kind), c.digits) /\ e.period = OrElse(FixedPeriod(kind), c.period)
      /\ e.counter = (IF UsesCounter(kind) THEN c.counter ELSE 0)
      /\ e.pin = (IF UsesPin(kind) THEN c.pin ELSE None)
  BY ExportIs DEF UriOk
<1>2. c = [f \in ConfigFields |-> c[f]] /\ c.kind \in Kinds /\ \A f \in ConfigFields : MayBe(c.kind, f, c[f])
  BY DEF UriOk, ConfigOk
<1> HIDE DEF e, c, kind
<1>3. CASE c.kind # "blizzard"
  <2>1. kind = c.kind
    BY <1>3 DEF kind, SerializesAs
  <2>2. \A f \in ConfigFields : e[f] = c[f]
    BY <1>1, <1>2, <2>1 DEF MayBe, ConfigFields
  <2>3. e = c
    BY <1>1, <1>2, <2>2
  <2>. QED
    BY <2>3 DEF e, c
<1>4. CASE c.kind = "blizzard"
  <2>1. kind = "totp"
    BY <1>4 DEF kind, SerializesAs
  <2>2. e.algorithm = c.algorithm /\ e.digits = c.digits /\ e.period = c.period /\ e.kind = "totp"
    BY <1>1, <2>1 DEF OrElse, FixedAlgorithm, FixedDigits, FixedPeriod
  <2>3. \A factor : ValueAt(e, factor) = ValueAt(c, factor)
    <3>1. ASSUME NEW x, x.kind \in {"totp", "hotp", "blizzard"}, NEW factor
          PROVE  ValueAt(x, factor) = Ok(DecimalDigits(Mac(x.algorithm, x.secret, factor), x.digits))
      BY <3>1 DEF ValueAt, UsesPin
    <3>. QED
      BY <1>1, <1>4, <2>2, <3>1
  <2>4. GenerateAt(e, ms) = GenerateAt(c, ms)
    BY <1>4, <2>2, <2>3 DEF GenerateAt, UsesCounter
  <2>. QED
    BY <2>4 DEF e, c
<1>. QED
  BY <1>3, <1>4

\* A parameter that is not in effect is reported.
LEMMA OverridesAreSaid ==
  ASSUME NEW uri, NEW u, NEW w, Reads(uri, u, w), uri.query \in Seq(ToSet(uri.query)),
         \A param \in ToSet(uri.query) : param[2] # None
  PROVE  /\ \A name \in {"algorithm", "digits", "period", "counter"} :
              \/ ~HasParam(uri.query, name) \/ Param(uri.query, name) = u.config[name] \/ name \in w
         /\ \/ ~HasParam(uri.query, "pin") \/ Param(uri.query, "pin").pct \in {<< >>, u.config.pin}
            \/ "pin" \in w
         /\ LabelIssuer(uri) \in {None, u.issuer} \/ "issuer" \in w
         /\ PinReads(u.config)
<1> DEFINE kind == FromUriType(uri.type)
           q == uri.query
           c == u.config
           b == Asked(uri)
<1>1. /\ IsBuilt(b, c) /\ w = Warnings(uri, kind) /\ u.issuer = Issuer(uri) /\ UriSound(uri, kind)
  BY SoundIsNoProblem DEF Reads
<1>2. /\ b.kind = kind /\ b.algorithm = Param(q, "algorithm") /\ b.digits = Param(q, "digits")
      /\ b.period = Param(q, "period") /\ b.counter = OrElse(Param(q, "counter"), 0)
      /\ b.pin = IF HasParam(q, "pin") THEN Param(q, "pin").pct ELSE None
  BY DEF Asked
<1> HIDE DEF b, c, kind, q
<1>3. \A name : HasParam(q, name) => Param(q, name) # None
  <2>1. SUFFICES ASSUME NEW name, HasParam(q, name) PROVE Param(q, name) # None
    OBVIOUS
  <2> DEFINE i == CHOOSE j \in Occurrences(q, name) : TRUE
  <2>2. i \in Occurrences(q, name)
    BY <2>1 DEF HasParam
  <2>3. Param(q, name) = q[i][2]
    BY <2>1 DEF Param
  <2> HIDE DEF i
  <2>4. i \in DOMAIN q
    BY <2>2 DEF Occurrences
  <2>5. q[i] \in ToSet(q)
    BY <2>4, ListElements DEF q
  <2>. QED
    BY <2>3, <2>5 DEF q
<1>4. Overridden(kind, q) \subseteq w
  BY <1>1 DEF Warnings, q
<1>5. /\ HasParam(q, "algorithm") /\ FixedAlgorithm(kind) # None /\ Param(q, "algorithm") # FixedAlgorithm(kind)
           => "algorithm" \in w
      /\ HasParam(q, "digits") /\ FixedDigits(kind) # None /\ Param(q, "digits") # FixedDigits(kind) => "digits" \in w
      /\ HasParam(q, "period") /\ FixedPeriod(kind) # None /\ Param(q, "period") # FixedPeriod(kind) => "period" \in w
      /\ HasParam(q, "counter") /\ ~UsesCounter(kind) => "counter" \in w
      /\ HasParam(q, "pin") /\ ~UsesPin(kind) => "pin" \in w
  BY <1>4 DEF Overridden
<1>6. HasParam(q, "algorithm") => Param(q, "algorithm") = c.algorithm \/ "algorithm" \in w
  BY <1>1, <1>2, <1>3, <1>5 DEF IsBuilt, OrElse
<1>7. HasParam(q, "digits") => Param(q, "digits") = c.digits \/ "digits" \in w
  BY <1>1, <1>2, <1>3, <1>5 DEF IsBuilt, OrElse
<1>8. HasParam(q, "period") => Param(q, "period") = c.period \/ "period" \in w
  BY <1>1, <1>2, <1>3, <1>5 DEF IsBuilt, OrElse
<1>9. HasParam(q, "counter") => Param(q, "counter") = c.counter \/ "counter" \in w
  BY <1>1, <1>2, <1>3, <1>5 DEF IsBuilt, OrElse
<1>10. HasParam(q, "pin") => Param(q, "pin").pct \in {<< >>, c.pin} \/ "pin" \in w
  BY <1>1, <1>2, <1>5 DEF IsBuilt, KeptPin
<1>11. LabelIssuer(uri) \in {None, u.issuer} \/ "issuer" \in w
  BY <1>1 DEF Warnings, Issuer, OrElse
<1>12. PinReads(c)
  <2>1. SUFFICES ASSUME c.kind = "motp", c.pin # None PROVE c.pin \notin Unprintable
    BY DEF PinReads
  <2>2. kind = "motp" /\ HasParam(q, "pin") /\ c.pin = Param(q, "pin").pct
    BY <1>1, <1>2, <2>1 DEF IsBuilt, KeptPin
  <2>3. FieldOk("text", Param(q, "pin")) /\ QueryDecodes(q)
    BY <1>1, <2>2 DEF UriSound, PinEncoding, q
  <2> DEFINE i == CHOOSE j \in Occurrences(q, "pin") : TRUE
  <2>4. i \in Occurrences(q, "pin")
    BY <2>2 DEF HasParam
  <2>5. Param(q, "pin") = q[i][2]
    BY <2>2 DEF Param
  <2> HIDE DEF i
  <2>6. i \in DOMAIN q /\ q[i][1] = "pin"
    BY <2>4 DEF Occurrences
  <2>7. ParamDecodes(q[i])
    BY <2>3, <2>6 DEF QueryDecodes
  <2>. QED
    BY <2>2, <2>3, <2>5, <2>6, <2>7 DEF FieldOk, ParamDecodes, Decodes
<1>. QED
  BY <1>6, <1>7, <1>8, <1>9, <1>10, <1>11, <1>12 DEF q, c

(***************************************************************************)
(* For every input, secret and PIN, every set of texts that cannot be      *)
(* shown, and however often it is edited, exported and read back: what     *)
(* to_uri writes of a URI that was read parse_with_warnings reads again as *)
(* the exported form, without a warning and with the same codes at every   *)
(* instant; after a setter it refuses a text beyond the limit, however long*)
(* a part is, and may refuse a PIN that is no text. A parameter of a       *)
(* scanned URI that is not in effect is reported.                          *)
(***************************************************************************)
THEOREM UrisStayRight == OtpSpec => []UrisKeepCodes
<1>1. OtpInit => OtpInv
  BY DEF OtpInit, OtpInv, OtpTypeOK
<1>2. OtpInv => UrisKeepCodes
  <2>1. SUFFICES ASSUME OtpInv PROVE UrisKeepCodes
    OBVIOUS
  <2>2. OtpShape
    BY <2>1, InvIsShape
  <2>3. ASSUME given # None
        PROVE  /\ Reads(given.uri, otp, given.warnings) /\ given.uri.query \in Seq(ToSet(given.uri.query))
               /\ \A param \in ToSet(given.uri.query) : param[2] # None
    <3> DEFINE r == [uri |-> otp, warnings |-> given.warnings]
    <3>1. given.uri \in OtpInputs /\ ParseWithWarnings(given.uri) = Ok(r)
      BY <2>2, <2>3 DEF OtpShape
    <3>2. PICK u, w : Reads(given.uri, u, w)
      BY <3>1, UriIsRead, Results
    <3> DEFINE s == [uri |-> u, warnings |-> w]
    <3>3. r.uri = otp /\ r.warnings = given.warnings /\ s.uri = u /\ s.warnings = w
      OBVIOUS
    <3>4. Ok(r) = Ok(s)
      BY <3>1, <3>2 DEF Reads
    <3> HIDE DEF r, s
    <3>5. r = s
      BY <3>4, Results
    <3>6. u = otp /\ w = given.warnings
      BY <3>3, <3>5
    <3>. QED
      BY <3>1, <3>2, <3>6, OtpAssumption
  <2>4. RoundTrip
    <3>0. "TooLong" # None
      BY NoneAssumption DEF UriErrors
    <3>4. ~UriFits(ToUri(otp)) => ParseWithWarnings(ToUri(otp)) = Err("TooLong")
      BY <3>0 DEF ParseWithWarnings, UriProblem
    <3>1. SUFFICES ASSUME otp # None, given # None \/ (Printable(otp) /\ UriFits(ToUri(otp)))
                   PROVE  ParseWithWarnings(ToUri(otp)) = Ok([uri |-> ExportForm(otp), warnings |-> {}])
      BY <3>4 DEF RoundTrip
    <3>2. UriOk(otp)
      BY <2>2, <3>1 DEF OtpShape
    <3>3. PinReads(otp.config)
      <4>1. CASE given # None
        BY <2>3, <4>1, OverridesAreSaid
      <4>2. CASE Printable(otp)
        BY <4>2 DEF Printable, PinReads
      <4>. QED
        BY <3>1, <4>1, <4>2
    <3>5. UriFits(ToUri(otp))
      BY <2>3, <3>1 DEF Reads
    <3>. QED
      BY <3>2, <3>3, <3>5, WrittenIsRead DEF UriOk
  <2>5. ExportKeepsCodes
    BY <2>2, ExportKeeps DEF ExportKeepsCodes, OtpShape
  <2>6. OverridesAreWarned
    BY <2>3, OverridesAreSaid DEF OverridesAreWarned
  <2>. QED
    BY <2>4, <2>5, <2>6 DEF UrisKeepCodes
<1>. QED
  BY <1>1, <1>2, OtpStep, PTL DEF OtpSpec

(***************************************************************************)
(* Forks.                                                                  *)
(***************************************************************************)
LEMMA FirstIsASecret == FirstSecret \in SecretBytes /\ \A t \in SecretBytes : FirstSecret <= t
<1>1. \E s \in SecretBytes : \A t \in SecretBytes : s <= t
  BY ForkAssumption, MinOfFinite
<1>. QED
  BY <1>1 DEF FirstSecret

LEMMA SecretsAreNumbers == SecretBytes \subseteq Nat
BY ForkAssumption

\* A derived id is an id, one longer, with its secret at the end.
LEMMA DerivedId ==
  ASSUME NEW id \in ForkIds, NEW secret \in SecretBytes
  PROVE  /\ ForkId(id, secret) \in ForkIds /\ ForkId(id, secret) # id
         /\ Len(id) \in Nat /\ Len(id) >= 1 /\ Len(ForkId(id, secret)) = Len(id) + 1
         /\ Native(ForkId(id, secret)) = secret
<1> DEFINE S == {OriginalId} \cup SecretBytes
           new == Append(id, secret)
<1>1. id \in Seq(S) /\ id # << >> /\ Head(id) = OriginalId /\ secret \in S
  BY DEF ForkIds
<1> HIDE DEF S
<1>2. Len(id) \in Nat /\ Len(id) # 0
  BY <1>1, EmptySeq, LenProperties
<1>3. new \in Seq(S) /\ Len(new) = Len(id) + 1 /\ new[Len(id) + 1] = secret /\ new[1] = id[1]
  BY <1>1, <1>2, AppendProperties
<1>4. Head(new) = new[1] /\ Head(id) = id[1]
  BY <1>1, <1>2, <1>3
<1>5. new # << >>
  BY <1>2, <1>3
<1>. QED
  BY <1>1, <1>2, <1>3, <1>4, <1>5 DEF ForkId, ForkIds, Native, S

\* The items new are those of items, with a secret and writes under id.
IsWith(new, heldItems, id, secret, writes) ==
  /\ ItemsOk(new) /\ DOMAIN new = DOMAIN heldItems \cup {id}
  /\ new[id].secret = secret /\ new[id].writes = writes
  /\ \A i \in DOMAIN heldItems : i # id => new[i] = heldItems[i]

LEMMA WithIs ==
  ASSUME NEW heldItems, ItemsOk(heldItems), NEW id \in ForkIds, NEW secret \in SecretBytes, NEW writes \in WriteSets
  PROVE  IsWith(With(heldItems, id, Item(secret, writes)), heldItems, id, secret, writes)
<1> DEFINE new == With(heldItems, id, Item(secret, writes))
<1>1. DOMAIN new = DOMAIN heldItems \cup {id} /\ new[id] = Item(secret, writes)
      /\ \A i \in DOMAIN heldItems : i # id => new[i] = heldItems[i]
  BY DEF With
<1>2. IsFiniteSet(DOMAIN heldItems \cup {id})
  BY FS_AddElement DEF ItemsOk
<1>3. \A i \in DOMAIN new : new[i] \in [secret : SecretBytes, writes : WriteSets]
  BY <1>1 DEF ItemsOk, Item
<1>4. new = [i \in DOMAIN new |-> new[i]]
  BY DEF With
<1>5. DOMAIN new \subseteq ForkIds
  BY <1>1 DEF ItemsOk
<1> HIDE DEF new
<1>6. ItemsOk(new)
  BY <1>1, <1>2, <1>3, <1>4, <1>5 DEF ItemsOk
<1>7. new[id].secret = secret /\ new[id].writes = writes
  BY <1>1 DEF Item
<1>. QED
  BY <1>1, <1>6, <1>7 DEF new, IsWith

(***************************************************************************)
(* One turn of absorb.                                                     *)
(***************************************************************************)
\* What holds of the loop's state: one candidate at most waits.
TurnOk(s) ==
  /\ s = [items |-> s.items, queue |-> s.queue, touched |-> s.touched, conflicts |-> s.conflicts]
  /\ ItemsOk(s.items) /\ s.touched \subseteq DOMAIN s.items
  /\ s.queue = <<>> \/ \E c \in CopySet : s.queue = <<c>>

\* The candidate c lands, under an id that is free or holds its own secret.
Lands(s, r, c, writes) ==
  /\ s.queue = <<c>> /\ r.queue = <<>>
  /\ IsWith(r.items, s.items, c.id, c.secret, writes)
  /\ r.touched = s.touched \cup {c.id} /\ r.conflicts = s.conflicts
  /\ \/ c.id \notin DOMAIN s.items /\ writes = c.writes
     \/ /\ c.id \in DOMAIN s.items /\ s.items[c.id].secret = c.secret
        /\ writes = s.items[c.id].writes \cup c.writes

\* Two secrets meet under the id of c: k keeps it, m moves on.
Splits(s, r, c, k, m) ==
  /\ s.queue = <<c>> /\ c.id \in DOMAIN s.items
  /\ \/ k = s.items[c.id] /\ m = Item(c.secret, c.writes)
     \/ m = s.items[c.id] /\ k = Item(c.secret, c.writes)
  /\ k.secret < m.secret
  /\ IsWith(r.items, s.items, c.id, k.secret, k.writes)
  /\ r.queue = <<[id |-> ForkId(c.id, m.secret), secret |-> m.secret, writes |-> m.writes]>>
  /\ r.touched = s.touched \cup {c.id}
  /\ r.conflicts = s.conflicts \cup {[kept |-> c.id, forked |-> ForkId(c.id, m.secret)]}

LEMMA OneTurn ==
  ASSUME NEW s, TurnOk(s)
  PROVE  \/ s.queue = <<>> /\ AbsorbStep(s) = s
         \/ \E c \in CopySet : \E writes \in WriteSets : Lands(s, AbsorbStep(s), c, writes)
         \/ \E c \in CopySet : \E k, m \in [secret : SecretBytes, writes : WriteSets] :
              Splits(s, AbsorbStep(s), c, k, m)
<1> DEFINE r == AbsorbStep(s)
<1>1. CASE s.queue = <<>>
  BY <1>1 DEF AbsorbStep
<1>2. ASSUME NEW c \in CopySet, s.queue = <<c>>
      PROVE  \/ \E writes \in WriteSets : Lands(s, AbsorbStep(s), c, writes)
             \/ \E k, m \in [secret : SecretBytes, writes : WriteSets] : Splits(s, AbsorbStep(s), c, k, m)
  <2>1. Head(s.queue) = c /\ Tail(s.queue) = <<>> /\ s.queue # <<>>
    BY <1>2
  <2>2. c.id \in ForkIds /\ c.secret \in SecretBytes /\ c.writes \in WriteSets
    BY DEF CopySet
  <2> DEFINE local == s.items[c.id]
             own == Item(c.secret, c.writes)
  <2>3. own \in [secret : SecretBytes, writes : WriteSets] /\ own.secret = c.secret /\ own.writes = c.writes
    BY <2>2 DEF Item
  <2>4. CASE c.id \notin DOMAIN s.items
    <3>1. r = [s EXCEPT !.queue = <<>>, !.items = With(@, c.id, own), !.touched = @ \cup {c.id}]
      BY <2>1, <2>4 DEF AbsorbStep
    <3>2. r.items = With(s.items, c.id, own) /\ r.queue = <<>> /\ r.touched = s.touched \cup {c.id}
          /\ r.conflicts = s.conflicts
      BY <3>1 DEF TurnOk
    <3>3. IsWith(r.items, s.items, c.id, c.secret, c.writes)
      BY <2>2, <3>2, WithIs DEF TurnOk
    <3>4. Lands(s, r, c, c.writes)
      BY <1>2, <2>4, <3>2, <3>3 DEF Lands
    <3>. QED
      BY <2>2, <3>4
  <2>5. CASE c.id \in DOMAIN s.items /\ local.secret = c.secret
    <3> DEFINE W == local.writes \cup c.writes
    <3>0. local \in [secret : SecretBytes, writes : WriteSets]
      BY <2>5 DEF TurnOk, ItemsOk
    <3>1. r = [s EXCEPT !.queue = <<>>, !.items = With(@, c.id, Item(c.secret, W)), !.touched = @ \cup {c.id}]
      BY <2>1, <2>5 DEF AbsorbStep, Joined
    <3>2. W \in WriteSets
      BY <2>2, <3>0 DEF WriteSets
    <3> HIDE DEF W
    <3>3. r.items = With(s.items, c.id, Item(c.secret, W)) /\ r.queue = <<>> /\ r.touched = s.touched \cup {c.id}
          /\ r.conflicts = s.conflicts
      BY <3>1 DEF TurnOk
    <3>4. IsWith(r.items, s.items, c.id, c.secret, W)
      BY <2>2, <3>2, <3>3, WithIs DEF TurnOk
    <3>5. Lands(s, r, c, W)
      BY <1>2, <2>5, <3>3, <3>4 DEF Lands, W
    <3>. QED
      BY <3>2, <3>5
  <2>6. CASE c.id \in DOMAIN s.items /\ local.secret # c.secret
    <3> DEFINE stays == LocalKeepsId(local.secret, c.secret)
               k == IF stays THEN local ELSE own
               m == IF stays THEN own ELSE local
    <3>1. local \in [secret : SecretBytes, writes : WriteSets]
      BY <2>6 DEF TurnOk, ItemsOk
    <3>2. k \in [secret : SecretBytes, writes : WriteSets] /\ m \in [secret : SecretBytes, writes : WriteSets]
      BY <2>3, <3>1
    <3>3. k.secret < m.secret
      <4>1. local.secret \in Nat /\ c.secret \in Nat
        BY <2>2, <3>1, SecretsAreNumbers
      <4> HIDE DEF own, local
      <4>2. CASE stays
        BY <2>3, <2>6, <4>1, <4>2 DEF LocalKeepsId
      <4>3. CASE ~stays
        BY <2>3, <2>6, <4>1, <4>3 DEF LocalKeepsId
      <4>. QED
        BY <4>2, <4>3
    <3>4. k = Item(k.secret, k.writes)
      BY <3>2 DEF Item
    <3>5. r = [items |-> With(s.items, c.id, k), touched |-> s.touched \cup {c.id},
               queue |-> <<[id |-> ForkId(c.id, m.secret), secret |-> m.secret, writes |-> m.writes]>>,
               conflicts |-> s.conflicts \cup {[kept |-> c.id, forked |-> ForkId(c.id, m.secret)]}]
      <4> DEFINE forked == ForkId(c.id, m.secret)
                 moved == [id |-> forked, secret |-> m.secret, writes |-> m.writes]
      <4>1. Append(<<>>, moved) = <<moved>>
        OBVIOUS
      <4>2. r = [items |-> With(s.items, c.id, k), touched |-> s.touched \cup {c.id},
                 queue |-> Requeued(<<>>, forked, m),
                 conflicts |-> s.conflicts \cup {DivergentSecret(c.id, forked)}]
        BY <2>1, <2>6, Zenon DEF AbsorbStep
      <4>. QED
        BY <4>1, <4>2 DEF Requeued, DivergentSecret
    <3>6. (k = local /\ m = own) \/ (m = local /\ k = own)
      OBVIOUS
    <3> HIDE DEF k, m, stays
    <3>7. r.items = With(s.items, c.id, Item(k.secret, k.writes))
      BY <3>4, <3>5
    <3>8. IsWith(r.items, s.items, c.id, k.secret, k.writes)
      BY <2>2, <3>2, <3>7, WithIs DEF TurnOk
    <3>9. Splits(s, r, c, k, m)
      BY <1>2, <2>6, <3>3, <3>5, <3>6, <3>8 DEF Splits
    <3>. QED
      BY <3>2, <3>9
  <2>. QED
    BY <2>4, <2>5, <2>6
<1>. QED
  BY <1>1, <1>2 DEF TurnOk

\* The fields of a candidate that moves.
LEMMA MoverIs ==
  ASSUME NEW id \in ForkIds, NEW m \in [secret : SecretBytes, writes : WriteSets]
  PROVE  LET c == [id |-> ForkId(id, m.secret), secret |-> m.secret, writes |-> m.writes] IN
         c \in CopySet /\ c.id = ForkId(id, m.secret) /\ c.secret = m.secret /\ c.writes = m.writes
BY DerivedId DEF CopySet

LEMMA TurnKeepsForm ==
  ASSUME NEW s, TurnOk(s)
  PROVE  TurnOk(AbsorbStep(s))
<1> DEFINE r == AbsorbStep(s)
<1>0. r.queue # s.queue => r = [items |-> r.items, queue |-> r.queue, touched |-> r.touched, conflicts |-> r.conflicts]
  BY DEF AbsorbStep, TurnOk
<1>1. CASE s.queue = <<>> /\ r = s
  BY <1>1
<1> HIDE DEF r
<1>2. ASSUME NEW c \in CopySet, NEW writes \in WriteSets, Lands(s, r, c, writes) PROVE TurnOk(r)
  <2>1. c.id \in ForkIds /\ c.secret \in SecretBytes
    BY DEF CopySet
  <2>2. ItemsOk(r.items) /\ DOMAIN r.items = DOMAIN s.items \cup {c.id}
    BY <1>2 DEF Lands, IsWith
  <2>3. r.queue = <<>> /\ s.queue = <<c>> /\ r.touched = s.touched \cup {c.id}
    BY <1>2 DEF Lands
  <2>. QED
    BY <1>0, <2>2, <2>3 DEF TurnOk
<1>3. ASSUME NEW c \in CopySet, NEW k \in [secret : SecretBytes, writes : WriteSets],
             NEW m \in [secret : SecretBytes, writes : WriteSets], Splits(s, r, c, k, m)
      PROVE  TurnOk(r)
  <2>1. c.id \in ForkIds /\ c.secret \in SecretBytes
    BY DEF CopySet
  <2>2. ItemsOk(r.items) /\ DOMAIN r.items = DOMAIN s.items \cup {c.id}
    BY <1>3 DEF Splits, IsWith
  <2> DEFINE moved == [id |-> ForkId(c.id, m.secret), secret |-> m.secret, writes |-> m.writes]
  <2>3. moved \in CopySet /\ moved.id # c.id
    BY <2>1, MoverIs, DerivedId
  <2>4. r.queue = <<moved>> /\ s.queue = <<c>> /\ r.touched = s.touched \cup {c.id}
    BY <1>3 DEF Splits
  <2> HIDE DEF moved
  <2>5. r.queue # s.queue
    BY <2>3, <2>4
  <2>. QED
    BY <1>0, <2>2, <2>3, <2>4, <2>5 DEF TurnOk
<1>. QED
  BY <1>1, <1>2, <1>3, OneTurn DEF r

\* The credits of the items and of the candidate.
Known(s) == Credits(s.items) \cup (IF s.queue = <<>> THEN {} ELSE {<<s.queue[1].secret, w>> : w \in s.queue[1].writes})

LEMMA CreditsAre ==
  ASSUME NEW heldItems, NEW x
  PROVE  x \in Credits(heldItems) <=> \E id \in DOMAIN heldItems : \E w \in heldItems[id].writes : x = <<heldItems[id].secret, w>>
BY DEF Credits

\* An item that is put where another was: what the others hold is known still.
LEMMA CreditsWith ==
  ASSUME NEW new, NEW heldItems, NEW id, NEW secret, NEW writes, IsWith(new, heldItems, id, secret, writes), NEW x
  PROVE  x \in Credits(new) <=>
           \/ \E w \in writes : x = <<secret, w>>
           \/ \E i \in DOMAIN heldItems \ {id} : \E w \in heldItems[i].writes : x = <<heldItems[i].secret, w>>
<1>1. x \in Credits(new) <=> \E i \in DOMAIN new : \E w \in new[i].writes : x = <<new[i].secret, w>>
  BY CreditsAre
<1>. QED
  BY <1>1 DEF IsWith

\* A turn forgets nothing: what moves is with the candidate.
LEMMA TurnKeepsCredits ==
  ASSUME NEW s, TurnOk(s)
  PROVE  Known(s) \subseteq Known(AbsorbStep(s))
<1> DEFINE r == AbsorbStep(s)
<1> HIDE DEF r
<1>1. SUFFICES ASSUME NEW x \in Known(s) PROVE x \in Known(r)
  BY DEF r
<1>2. CASE s.queue = <<>> /\ r = s
  BY <1>2
<1>3. ASSUME NEW c \in CopySet, NEW writes \in WriteSets, Lands(s, r, c, writes) PROVE x \in Known(r)
  <2>1. c.id \in ForkIds /\ c.secret \in SecretBytes
    BY DEF CopySet
  <2>2. s.queue = <<c>> /\ IsWith(r.items, s.items, c.id, c.secret, writes) /\ c.writes \subseteq writes
        /\ (c.id \in DOMAIN s.items => s.items[c.id].secret = c.secret /\ s.items[c.id].writes \subseteq writes)
    BY <1>3 DEF Lands
  <2>3. x \in Credits(s.items) \/ \E w \in c.writes : x = <<c.secret, w>>
    BY <1>1, <2>2 DEF Known
  <2>4. x \in Credits(r.items)
    BY <2>2, <2>3, CreditsAre, CreditsWith
  <2>. QED
    BY <2>4 DEF Known
<1>4. ASSUME NEW c \in CopySet, NEW k \in [secret : SecretBytes, writes : WriteSets],
             NEW m \in [secret : SecretBytes, writes : WriteSets], Splits(s, r, c, k, m)
      PROVE  x \in Known(r)
  <2> DEFINE own == Item(c.secret, c.writes)
             moved == [id |-> ForkId(c.id, m.secret), secret |-> m.secret, writes |-> m.writes]
  <2>1. c.id \in ForkIds /\ own.secret = c.secret /\ own.writes = c.writes
    BY DEF CopySet, Item
  <2>2. moved.secret = m.secret /\ moved.writes = m.writes
    OBVIOUS
  <2>3. /\ s.queue = <<c>> /\ IsWith(r.items, s.items, c.id, k.secret, k.writes) /\ r.queue = <<moved>>
        /\ (k = s.items[c.id] /\ m = own) \/ (m = s.items[c.id] /\ k = own)
    BY <1>4 DEF Splits
  <2> HIDE DEF own, moved
  <2>4. x \in Credits(s.items) \/ \E w \in c.writes : x = <<c.secret, w>>
    BY <1>1, <2>3 DEF Known
  <2>5. \/ \E i \in DOMAIN s.items \ {c.id} : \E w \in s.items[i].writes : x = <<s.items[i].secret, w>>
        \/ \E w \in k.writes : x = <<k.secret, w>>
        \/ \E w \in m.writes : x = <<m.secret, w>>
    BY <2>1, <2>3, <2>4, CreditsAre
  <2>6. x \in Credits(r.items) \/ \E w \in m.writes : x = <<m.secret, w>>
    BY <2>3, <2>5, CreditsWith
  <2>7. r.queue # <<>> /\ r.queue[1] = moved
    BY <2>3
  <2>. QED
    BY <2>2, <2>6, <2>7 DEF Known
<1>. QED
  BY <1>2, <1>3, <1>4, OneTurn DEF r

\* Every derived id of the state, where an item is or where the candidate goes, is in T
\* or told of.
Tells(s, T) ==
  /\ \A id \in DOMAIN s.items : Len(id) > 1 => id \in T \cup {n.forked : n \in s.conflicts}
  /\ s.queue # <<>> /\ Len(s.queue[1].id) > 1 => s.queue[1].id \in T \cup {n.forked : n \in s.conflicts}
  /\ \A n \in s.conflicts : n.forked # n.kept

LEMMA TurnTells ==
  ASSUME NEW s, TurnOk(s), NEW T, Tells(s, T)
  PROVE  Tells(AbsorbStep(s), T)
<1> USE DEF Tells
<1> DEFINE r == AbsorbStep(s)
           Goal == Tells(r, T)
<1> HIDE DEF r
<1>2. ASSUME r = s PROVE Goal
  BY <1>2
<1>3. ASSUME NEW c \in CopySet, NEW writes \in WriteSets, Lands(s, r, c, writes) PROVE Goal
  <2>1. c.id \in ForkIds /\ c.secret \in SecretBytes
    BY DEF CopySet
  <2>2. s.queue = <<c>> /\ r.queue = <<>> /\ IsWith(r.items, s.items, c.id, c.secret, writes)
        /\ r.conflicts = s.conflicts
    BY <1>3 DEF Lands
  <2>3. DOMAIN r.items = DOMAIN s.items \cup {c.id}
    BY <2>2 DEF IsWith
  <2>. QED
    BY <2>2, <2>3
<1>4. ASSUME NEW c \in CopySet, NEW k \in [secret : SecretBytes, writes : WriteSets],
             NEW m \in [secret : SecretBytes, writes : WriteSets], Splits(s, r, c, k, m)
      PROVE  Goal
  <2> DEFINE forked == ForkId(c.id, m.secret)
             moved == [id |-> forked, secret |-> m.secret, writes |-> m.writes]
             notice == [kept |-> c.id, forked |-> forked]
  <2>1. c.id \in ForkIds
    BY DEF CopySet
  <2>2. /\ s.queue = <<c>> /\ IsWith(r.items, s.items, c.id, k.secret, k.writes) /\ r.queue = <<moved>>
        /\ r.conflicts = s.conflicts \cup {notice} /\ c.id \in DOMAIN s.items
    BY <1>4 DEF Splits
  <2>3. moved.id = forked /\ notice.forked = forked /\ notice.kept = c.id /\ forked # c.id
    BY <2>1, DerivedId
  <2>4. DOMAIN r.items = DOMAIN s.items
    BY <2>2 DEF IsWith
  <2> HIDE DEF forked, moved, notice
  <2>5. r.queue[1] = moved
    BY <2>2
  <2>. QED
    BY <2>2, <2>3, <2>4, <2>5
<1>. QED
  BY <1>2, <1>3, <1>4, OneTurn DEF r

EarnedIn(n, s) ==
  /\ \A id \in DOMAIN s.items : Earned(n, id, s.items[id].secret)
  /\ s.queue # <<>> => Earned(n, s.queue[1].id, s.queue[1].secret)

\* Two secrets under one id: one of them was repaired, so that the id was derived less
\* often than there were repairs, and the mover's new id is its own.
LEMMA TurnEarns ==
  ASSUME NEW s, TurnOk(s), NEW n \in Nat, EarnedIn(n, s)
  PROVE  /\ EarnedIn(n, AbsorbStep(s))
         /\ AbsorbStep(s).queue # <<>> =>
              s.queue # <<>> /\ Len(AbsorbStep(s).queue[1].id) = Len(s.queue[1].id) + 1
<1> DEFINE r == AbsorbStep(s)
           Goal == EarnedIn(n, r) /\ (r.queue # <<>> => s.queue # <<>> /\ Len(r.queue[1].id) = Len(s.queue[1].id) + 1)
<1> HIDE DEF r
<1>1. ASSUME s.queue = <<>>, r = s PROVE Goal
  BY <1>1
<1>2. ASSUME NEW c \in CopySet, NEW writes \in WriteSets, Lands(s, r, c, writes) PROVE Goal
  <2>1. s.queue = <<c>> /\ r.queue = <<>> /\ IsWith(r.items, s.items, c.id, c.secret, writes)
    BY <1>2 DEF Lands
  <2>2. Earned(n, c.id, c.secret)
    BY <2>1 DEF EarnedIn
  <2>3. \A id \in DOMAIN r.items : Earned(n, id, r.items[id].secret)
    BY <2>1, <2>2 DEF EarnedIn, IsWith
  <2>. QED
    BY <2>1, <2>3 DEF EarnedIn
<1>3. ASSUME NEW c \in CopySet, NEW k \in [secret : SecretBytes, writes : WriteSets],
             NEW m \in [secret : SecretBytes, writes : WriteSets], Splits(s, r, c, k, m)
      PROVE  Goal
  <2> DEFINE forked == ForkId(c.id, m.secret)
             moved == [id |-> forked, secret |-> m.secret, writes |-> m.writes]
             own == Item(c.secret, c.writes)
  <2>1. c.id \in ForkIds /\ own.secret = c.secret /\ moved.id = forked /\ moved.secret = m.secret
    BY DEF CopySet, Item
  <2>2. /\ s.queue = <<c>> /\ IsWith(r.items, s.items, c.id, k.secret, k.writes) /\ r.queue = <<moved>>
        /\ (k = s.items[c.id] /\ m = own) \/ (m = s.items[c.id] /\ k = own)
        /\ c.id \in DOMAIN s.items /\ k.secret < m.secret
    BY <1>3 DEF Splits
  <2>3. Earned(n, c.id, k.secret) /\ Earned(n, c.id, m.secret)
    <3>1. Earned(n, c.id, c.secret) /\ Earned(n, c.id, s.items[c.id].secret)
      BY <2>2 DEF EarnedIn
    <3> HIDE DEF own, moved, forked
    <3>. QED
      BY <2>1, <2>2, <3>1
  <2>4. k.secret # m.secret
    <3>1. k.secret \in Nat /\ m.secret \in Nat
      BY SecretsAreNumbers
    <3>. QED
      BY <2>2, <3>1
  <2>5. Len(c.id) \in Nat /\ Len(c.id) <= n
    BY <2>1, <2>3, <2>4, DerivedId DEF Earned
  <2>6. Len(forked) = Len(c.id) + 1 /\ Native(forked) = m.secret
    BY <2>1, DerivedId
  <2> HIDE DEF own, moved, forked
  <2>7. Earned(n, moved.id, moved.secret)
    BY <2>1, <2>5, <2>6 DEF Earned
  <2>8. \A id \in DOMAIN r.items : Earned(n, id, r.items[id].secret)
    BY <2>2, <2>3 DEF EarnedIn, IsWith
  <2>9. r.queue # <<>> /\ r.queue[1] = moved /\ s.queue # <<>> /\ s.queue[1] = c
    BY <2>2
  <2>. QED
    BY <2>1, <2>6, <2>7, <2>8, <2>9 DEF EarnedIn
<1>. QED
  BY <1>1, <1>2, <1>3, OneTurn DEF r

(***************************************************************************)
(* Convergence. A claim <<id, secret, w>> is a write w of a credential     *)
(* that was under id. Where two secrets claim an id, the claims of the     *)
(* greater one are also claims of the id derived with it: a set of claims  *)
(* with that property is closed. A set of items stands for a set P of      *)
(* claims when it holds, under every id, the least secret that the least   *)
(* closed set of claims with P has there, and its writes. The order in     *)
(* which claims came in is not in this, so items that stand for the same   *)
(* claims are the same.                                                    *)
(***************************************************************************)
Within(P, Q) == \A id \in ForkIds, s \in SecretBytes, w \in Nat : <<id, s, w>> \in P => <<id, s, w>> \in Q
Closed(H) ==
  \A id \in ForkIds, s \in SecretBytes, t \in SecretBytes, v \in Nat, w \in Nat :
    <<id, s, v>> \in H /\ <<id, t, w>> \in H /\ t < s => <<ForkId(id, s), s, v>> \in H
IsClosure(H, P) ==
  /\ Closed(H) /\ Within(P, H)
  /\ \A Q : Closed(Q) /\ Within(P, Q) => Within(H, Q)
HoldsLeast(heldItems, H) ==
  /\ ItemsOk(heldItems)
  /\ \A id \in ForkIds : (\E s \in SecretBytes, w \in Nat : <<id, s, w>> \in H) => id \in DOMAIN heldItems
  /\ \A id \in DOMAIN heldItems :
       /\ \A s \in SecretBytes, w \in Nat : <<id, s, w>> \in H => heldItems[id].secret <= s
       /\ \A w \in Nat : w \in heldItems[id].writes <=> <<id, heldItems[id].secret, w>> \in H
StandsFor(heldItems, P) == \E H : IsClosure(H, P) /\ HoldsLeast(heldItems, H)
ClaimsOf(id, secret, writes) == {<<id, secret, w>> : w \in writes}
Claims(heldItems) == UNION {ClaimsOf(id, heldItems[id].secret, heldItems[id].writes) : id \in DOMAIN heldItems}

LEMMA ClaimsAre ==
  ASSUME NEW heldItems, NEW id, NEW s, NEW w
  PROVE  <<id, s, w>> \in Claims(heldItems) <=> id \in DOMAIN heldItems /\ s = heldItems[id].secret /\ w \in heldItems[id].writes
BY DEF Claims, ClaimsOf

LEMMA ClaimsOfOne ==
  ASSUME NEW id, NEW s, NEW w, NEW i, NEW t, NEW W
  PROVE  <<id, s, w>> \in ClaimsOf(i, t, W) <=> id = i /\ s = t /\ w \in W
BY DEF ClaimsOf

LEMMA ItemFieldsOk ==
  ASSUME NEW heldItems, ItemsOk(heldItems), NEW id \in DOMAIN heldItems
  PROVE  /\ id \in ForkIds /\ heldItems[id].secret \in SecretBytes /\ heldItems[id].secret \in Nat
         /\ heldItems[id].writes \in WriteSets /\ heldItems[id].writes \subseteq Nat
         /\ \E w \in Nat : w \in heldItems[id].writes
         /\ heldItems[id] = [secret |-> heldItems[id].secret, writes |-> heldItems[id].writes]
<1>1. heldItems[id] \in [secret : SecretBytes, writes : WriteSets] /\ id \in ForkIds
  BY DEF ItemsOk
<1>2. heldItems[id].secret \in SecretBytes /\ heldItems[id].writes \in WriteSets
      /\ heldItems[id] = [secret |-> heldItems[id].secret, writes |-> heldItems[id].writes]
  BY <1>1
<1>3. ASSUME NEW W \in WriteSets PROVE W \subseteq Nat /\ \E w \in Nat : w \in W
  <2>1. W \subseteq Nat /\ W # {}
    BY DEF WriteSets
  <2>. QED
    BY <2>1
<1>. QED
  BY <1>1, <1>2, <1>3, SecretsAreNumbers

LEMMA SameItems ==
  ASSUME NEW a, NEW b, NEW H, NEW G, HoldsLeast(a, H), HoldsLeast(b, G), Within(H, G), Within(G, H)
  PROVE  a = b
<1>0. ItemsOk(a) /\ ItemsOk(b)
  BY DEF HoldsLeast
<1>1. \A id \in ForkIds, s \in SecretBytes, w \in Nat : <<id, s, w>> \in G <=> <<id, s, w>> \in H
  BY DEF Within
<1>2. DOMAIN a = DOMAIN b
  <2>1. ASSUME NEW id \in DOMAIN a PROVE id \in DOMAIN b
    <3>1. id \in ForkIds /\ a[id].secret \in SecretBytes /\ \E w \in Nat : w \in a[id].writes
      BY <1>0, ItemFieldsOk
    <3>. QED
      BY <1>1, <3>1 DEF HoldsLeast
  <2>2. ASSUME NEW id \in DOMAIN b PROVE id \in DOMAIN a
    <3>1. id \in ForkIds /\ b[id].secret \in SecretBytes /\ \E w \in Nat : w \in b[id].writes
      BY <1>0, ItemFieldsOk
    <3>. QED
      BY <1>1, <3>1 DEF HoldsLeast
  <2>. QED
    BY <2>1, <2>2
<1>3. ASSUME NEW id \in DOMAIN a PROVE a[id] = b[id]
  <2>0. id \in DOMAIN b
    BY <1>2
  <2>1. id \in ForkIds /\ a[id].secret \in SecretBytes /\ b[id].secret \in SecretBytes
        /\ a[id].secret \in Nat /\ b[id].secret \in Nat
        /\ (\E w \in Nat : w \in a[id].writes) /\ (\E w \in Nat : w \in b[id].writes)
        /\ a[id].writes \subseteq Nat /\ b[id].writes \subseteq Nat
    BY <1>0, <2>0, ItemFieldsOk
  <2>2. a[id].secret <= b[id].secret /\ b[id].secret <= a[id].secret
    <3>1. PICK v \in Nat : <<id, a[id].secret, v>> \in H
      BY <2>1 DEF HoldsLeast
    <3>2. PICK w \in Nat : <<id, b[id].secret, w>> \in G
      BY <2>0, <2>1 DEF HoldsLeast
    <3>3. <<id, a[id].secret, v>> \in G /\ <<id, b[id].secret, w>> \in H
      BY <1>1, <2>1, <3>1, <3>2
    <3>. QED
      BY <2>0, <2>1, <3>1, <3>2, <3>3 DEF HoldsLeast
  <2>3. a[id].secret = b[id].secret
    BY <2>1, <2>2
  <2>4. \A w \in Nat : w \in a[id].writes <=> w \in b[id].writes
    BY <1>1, <2>0, <2>1, <2>3 DEF HoldsLeast
  <2>5. a[id].writes = b[id].writes
    BY <2>1, <2>4
  <2>6. a[id] = [secret |-> a[id].secret, writes |-> a[id].writes] /\ b[id] = [secret |-> b[id].secret, writes |-> b[id].writes]
    BY <1>0, <2>0, ItemFieldsOk
  <2>. QED
    BY <2>3, <2>5, <2>6
<1>4. a = [id \in DOMAIN a |-> a[id]] /\ b = [id \in DOMAIN b |-> b[id]]
  BY <1>0 DEF ItemsOk
<1>. QED
  BY <1>2, <1>3, <1>4

LEMMA ClosuresAgree ==
  ASSUME NEW H, NEW G, NEW P, NEW R, IsClosure(H, P), IsClosure(G, R), Within(P, R), Within(R, P)
  PROVE  Within(H, G) /\ Within(G, H)
<1>1. Within(P, G)
  BY DEF IsClosure, Within
<1>2. Within(R, H)
  BY DEF IsClosure, Within
<1>. QED
  BY <1>1, <1>2 DEF IsClosure

LEMMA OrderIsNothing ==
  ASSUME NEW a, NEW b, NEW P, NEW R, StandsFor(a, P), StandsFor(b, R), Within(P, R), Within(R, P)
  PROVE  a = b
BY SameItems, ClosuresAgree DEF StandsFor

LEMMA StandsForItself ==
  ASSUME NEW heldItems, ItemsOk(heldItems)
  PROVE  StandsFor(heldItems, Claims(heldItems))
<1> DEFINE H == Claims(heldItems)
<1>1. \A id, s, w : <<id, s, w>> \in H <=> id \in DOMAIN heldItems /\ s = heldItems[id].secret /\ w \in heldItems[id].writes
  BY ClaimsAre
<1> HIDE DEF H
<1>2. Closed(H)
  <2>1. \A s \in SecretBytes : ~(s < s)
    BY SecretsAreNumbers
  <2>. QED
    BY <1>1, <2>1 DEF Closed
<1>3. IsClosure(H, H)
  BY <1>2 DEF IsClosure, Within
<1>4. HoldsLeast(heldItems, H)
  <2>1. \A id \in DOMAIN heldItems : heldItems[id].secret \in Nat
    BY ItemFieldsOk
  <2>2. \A id \in ForkIds : (\E s \in SecretBytes, w \in Nat : <<id, s, w>> \in H) => id \in DOMAIN heldItems
    BY <1>1
  <2>3. ASSUME NEW id \in DOMAIN heldItems
        PROVE  /\ \A s \in SecretBytes, w \in Nat : <<id, s, w>> \in H => heldItems[id].secret <= s
               /\ \A w \in Nat : w \in heldItems[id].writes <=> <<id, heldItems[id].secret, w>> \in H
    BY <1>1, <2>1
  <2>. QED
    BY <2>2, <2>3 DEF HoldsLeast
<1>. QED
  BY <1>3, <1>4 DEF StandsFor, H

\* The claims of the candidate.
Waiting(s) == IF s.queue = <<>> THEN {} ELSE ClaimsOf(s.queue[1].id, s.queue[1].secret, s.queue[1].writes)
\* H is what was claimed of P so far: it is closed but for the claims that wait.
Gathers(s, H, P) ==
  /\ HoldsLeast(s.items, H)
  /\ Within(P, H \cup Waiting(s))
  /\ \A id \in ForkIds, x \in SecretBytes, t \in SecretBytes, v \in Nat, w \in Nat :
       <<id, x, v>> \in H /\ <<id, t, w>> \in H /\ t < x => <<ForkId(id, x), x, v>> \in H \cup Waiting(s)
  /\ \A Q : Closed(Q) /\ Within(P, Q) => Within(H \cup Waiting(s), Q)

\* A candidate that lands.
LEMMA LandingGathers ==
  ASSUME NEW s, NEW r, NEW c \in CopySet, NEW writes \in WriteSets, Lands(s, r, c, writes), TurnOk(s),
         NEW H, NEW P, Gathers(s, H, P)
  PROVE  \E G : Gathers(r, G, P)
<1> DEFINE W == ClaimsOf(c.id, c.secret, c.writes)
           G == H \cup W
           local == s.items[c.id]
<1>1. /\ s.queue = <<c>> /\ r.queue = <<>> /\ IsWith(r.items, s.items, c.id, c.secret, writes)
      /\ \/ c.id \notin DOMAIN s.items /\ writes = c.writes
         \/ c.id \in DOMAIN s.items /\ local.secret = c.secret /\ writes = local.writes \cup c.writes
  BY DEF Lands
<1>2. Waiting(s) = W /\ Waiting(r) = {}
  BY <1>1 DEF Waiting
<1>3. \A id, x, w : <<id, x, w>> \in W <=> id = c.id /\ x = c.secret /\ w \in c.writes
  BY ClaimsOfOne
<1>4. c.id \in ForkIds /\ c.secret \in SecretBytes /\ c.secret \in Nat /\ c.writes \subseteq Nat
  BY SecretsAreNumbers DEF CopySet, WriteSets
<1>5. G \cup Waiting(r) = H \cup Waiting(s)
  BY <1>2
<1>6. ItemsOk(s.items) /\ HoldsLeast(s.items, H)
  BY DEF TurnOk, Gathers
<1>7. \A x \in SecretBytes, w \in Nat : <<c.id, x, w>> \in H => c.id \in DOMAIN s.items /\ c.secret <= x
  BY <1>1, <1>4, <1>6 DEF HoldsLeast
<1> HIDE DEF W
<1>8. HoldsLeast(r.items, G)
  <2>1. ItemsOk(r.items)
    BY <1>1 DEF IsWith
  <2>2. ASSUME NEW id \in ForkIds, NEW x \in SecretBytes, NEW w \in Nat, <<id, x, w>> \in G
        PROVE  id \in DOMAIN r.items
    BY <1>1, <1>3, <1>6, <2>2 DEF IsWith, HoldsLeast
  <2>3. ASSUME NEW id \in DOMAIN r.items
        PROVE  /\ \A x \in SecretBytes, w \in Nat : <<id, x, w>> \in G => r.items[id].secret <= x
               /\ \A w \in Nat : w \in r.items[id].writes <=> <<id, r.items[id].secret, w>> \in G
    <3>1. CASE id # c.id
      <4>1. id \in DOMAIN s.items /\ r.items[id] = s.items[id]
        BY <1>1, <3>1 DEF IsWith
      <4>. QED
        BY <1>3, <1>6, <3>1, <4>1 DEF HoldsLeast
    <3>2. CASE id = c.id
      <4>1. r.items[id].secret = c.secret /\ r.items[id].writes = writes
        BY <1>1, <3>2 DEF IsWith
      <4>2. \A x \in SecretBytes, w \in Nat : <<id, x, w>> \in G => c.secret <= x
        BY <1>3, <1>4, <1>7, <3>2
      <4>3. \A w \in Nat : w \in writes <=> <<c.id, c.secret, w>> \in G
        <5>1. CASE c.id \notin DOMAIN s.items
          BY <1>1, <1>3, <1>4, <1>7, <5>1
        <5>2. CASE c.id \in DOMAIN s.items
          <6>1. \A w \in Nat : w \in local.writes <=> <<c.id, c.secret, w>> \in H
            BY <1>1, <1>6, <5>2 DEF HoldsLeast
          <6>. QED
            BY <1>1, <1>3, <5>2, <6>1
        <5>. QED
          BY <5>1, <5>2
      <4>. QED
        BY <3>2, <4>1, <4>2, <4>3
    <3>. QED
      BY <3>1, <3>2
  <2>. QED
    BY <2>1, <2>2, <2>3 DEF HoldsLeast
<1>9. ASSUME NEW id \in ForkIds, NEW x \in SecretBytes, NEW t \in SecretBytes, NEW v \in Nat, NEW w \in Nat,
             <<id, x, v>> \in G, <<id, t, w>> \in G, t < x
      PROVE  <<ForkId(id, x), x, v>> \in G
  <2>0. t \in Nat /\ x \in Nat
    BY SecretsAreNumbers
  <2>1. CASE id # c.id
    <3>1. <<id, x, v>> \in H /\ <<id, t, w>> \in H
      BY <1>3, <1>9, <2>1
    <3>. QED
      BY <1>2, <1>9, <3>1 DEF Gathers
  <2>2. CASE id = c.id
    <3>1. c.secret <= t
      BY <1>3, <1>4, <1>7, <1>9, <2>2
    <3>2. x # c.secret
      BY <1>4, <1>9, <2>0, <3>1
    <3>3. <<id, x, v>> \in H
      BY <1>3, <1>9, <3>2
    <3>4. PICK u \in Nat : <<c.id, c.secret, u>> \in H
      <4>1. c.id \in DOMAIN s.items
        BY <1>7, <2>2, <3>3
      <4>2. \E u \in Nat : u \in s.items[c.id].writes
        BY <1>6, <4>1, ItemFieldsOk
      <4>. QED
        BY <1>1, <1>6, <4>1, <4>2 DEF HoldsLeast
    <3>5. c.secret < x
      BY <1>4, <1>9, <2>0, <3>1
    <3>. QED
      BY <1>2, <1>4, <2>2, <3>3, <3>4, <3>5 DEF Gathers
  <2>. QED
    BY <2>1, <2>2
<1> HIDE DEF G
<1>10. Gathers(r, G, P)
  BY <1>2, <1>5, <1>8, <1>9 DEF Gathers
<1>. QED
  BY <1>10

\* Two secrets under one id: the mover's claims wait under its new id.
LEMMA SplitGathers ==
  ASSUME NEW s, NEW r, NEW c \in CopySet, NEW k \in [secret : SecretBytes, writes : WriteSets],
         NEW m \in [secret : SecretBytes, writes : WriteSets], Splits(s, r, c, k, m), TurnOk(s),
         NEW H, NEW P, Gathers(s, H, P)
  PROVE  \E G : Gathers(r, G, P)
<1> DEFINE W == ClaimsOf(c.id, c.secret, c.writes)
           G == H \cup W
           local == s.items[c.id]
           forked == ForkId(c.id, m.secret)
           moved == [id |-> forked, secret |-> m.secret, writes |-> m.writes]
           M == ClaimsOf(forked, m.secret, m.writes)
           own == Item(c.secret, c.writes)
<1>0. own.secret = c.secret /\ own.writes = c.writes /\ moved.id = forked /\ moved.secret = m.secret /\ moved.writes = m.writes
  BY DEF Item
<1>1. /\ s.queue = <<c>> /\ r.queue = <<moved>> /\ IsWith(r.items, s.items, c.id, k.secret, k.writes)
      /\ c.id \in DOMAIN s.items /\ k.secret < m.secret
      /\ (k = local /\ m = own) \/ (m = local /\ k = own)
  BY DEF Splits
<1>2. c.id \in ForkIds /\ c.secret \in SecretBytes /\ c.secret \in Nat /\ c.writes \subseteq Nat
      /\ c.writes # {}
  BY SecretsAreNumbers DEF CopySet, WriteSets
<1>3. forked \in ForkIds /\ forked # c.id
  BY <1>2, DerivedId
<1> HIDE DEF own, moved, forked, local, W, M
<1>4. Waiting(s) = W /\ Waiting(r) = M
  BY <1>0, <1>1 DEF Waiting, W, M
<1>5. \A id, x, w : <<id, x, w>> \in W <=> id = c.id /\ x = c.secret /\ w \in c.writes
  BY ClaimsOfOne DEF W
<1>6. \A id, x, w : <<id, x, w>> \in M <=> id = forked /\ x = m.secret /\ w \in m.writes
  BY ClaimsOfOne DEF M
<1>7. ItemsOk(s.items) /\ HoldsLeast(s.items, H)
  BY DEF TurnOk, Gathers
<1>8. k.secret \in SecretBytes /\ m.secret \in SecretBytes /\ k.secret \in Nat /\ m.secret \in Nat
      /\ m.writes \subseteq Nat /\ k.writes \subseteq Nat /\ m.writes # {} /\ k.writes # {}
  BY SecretsAreNumbers DEF WriteSets
<1>9. /\ \A x \in SecretBytes, w \in Nat : <<c.id, x, w>> \in H => local.secret <= x
      /\ \A w \in Nat : w \in local.writes <=> <<c.id, local.secret, w>> \in H
      /\ local.secret \in SecretBytes /\ local.secret \in Nat
  BY <1>1, <1>7, ItemFieldsOk DEF HoldsLeast, local
\* Both are claims now, the keeper's the least.
<1>10. /\ \A w \in Nat : w \in k.writes <=> <<c.id, k.secret, w>> \in G
       /\ \A w \in Nat : w \in m.writes => <<c.id, m.secret, w>> \in G
       /\ \A x \in SecretBytes, w \in Nat : <<c.id, x, w>> \in G => k.secret <= x
  <2>1. CASE k = local /\ m = own
    BY <1>0, <1>1, <1>2, <1>5, <1>8, <1>9, <2>1
  <2>2. CASE m = local /\ k = own
    <3>1. \A w \in Nat : <<c.id, k.secret, w>> \notin H
      BY <1>1, <1>8, <1>9, <2>2
    <3>2. \A x \in SecretBytes, w \in Nat : <<c.id, x, w>> \in G => k.secret <= x
      <4>1. ASSUME NEW x \in SecretBytes, NEW w \in Nat, <<c.id, x, w>> \in G PROVE k.secret <= x
        <5>1. <<c.id, x, w>> \in H => m.secret <= x
          BY <1>9, <2>2
        <5>2. x \in Nat
          BY SecretsAreNumbers
        <5>3. <<c.id, x, w>> \in W => x = k.secret
          BY <1>0, <1>5, <2>2
        <5>. QED
          BY <1>1, <1>8, <4>1, <5>1, <5>2, <5>3
      <4>. QED
        BY <4>1
    <3>3. \A w \in Nat : w \in k.writes <=> <<c.id, k.secret, w>> \in G
      BY <1>0, <1>5, <2>2, <3>1
    <3>4. \A w \in Nat : w \in m.writes => <<c.id, m.secret, w>> \in G
      BY <1>9, <2>2
    <3>. QED
      BY <3>2, <3>3, <3>4
  <2>. QED
    BY <1>1, <2>1, <2>2
<1>11. HoldsLeast(r.items, G)
  <2>1. ItemsOk(r.items)
    BY <1>1 DEF IsWith
  <2>2. ASSUME NEW id \in ForkIds, NEW x \in SecretBytes, NEW w \in Nat, <<id, x, w>> \in G
        PROVE  id \in DOMAIN r.items
    BY <1>1, <1>5, <1>7, <2>2 DEF IsWith, HoldsLeast
  <2>3. ASSUME NEW id \in DOMAIN r.items
        PROVE  /\ \A x \in SecretBytes, w \in Nat : <<id, x, w>> \in G => r.items[id].secret <= x
               /\ \A w \in Nat : w \in r.items[id].writes <=> <<id, r.items[id].secret, w>> \in G
    <3>1. CASE id # c.id
      <4>1. id \in DOMAIN s.items /\ r.items[id] = s.items[id]
        BY <1>1, <3>1 DEF IsWith
      <4>. QED
        BY <1>5, <1>7, <3>1, <4>1 DEF HoldsLeast
    <3>2. CASE id = c.id
      <4>1. r.items[id].secret = k.secret /\ r.items[id].writes = k.writes
        BY <1>1, <3>2 DEF IsWith
      <4>. QED
        BY <1>10, <3>2, <4>1
    <3>. QED
      BY <3>1, <3>2
  <2>. QED
    BY <2>1, <2>2, <2>3 DEF HoldsLeast
<1>12. ASSUME NEW id \in ForkIds, NEW x \in SecretBytes, NEW t \in SecretBytes, NEW v \in Nat, NEW w \in Nat,
             <<id, x, v>> \in G, <<id, t, w>> \in G, t < x
      PROVE  <<ForkId(id, x), x, v>> \in G \cup M
  <2>0. t \in Nat /\ x \in Nat
    BY SecretsAreNumbers
  <2>1. CASE id # c.id
    <3>1. <<id, x, v>> \in H /\ <<id, t, w>> \in H
      BY <1>5, <1>12, <2>1
    <3>. QED
      BY <1>4, <1>12, <3>1 DEF Gathers
  <2>2. CASE id = c.id
    <3>1. k.secret < x
      BY <1>8, <1>10, <1>12, <2>0, <2>2
    <3>2. CASE x = m.secret /\ v \in m.writes
      BY <1>6, <2>2, <3>2 DEF forked
    <3>3. CASE ~(x = m.secret /\ v \in m.writes)
      \* Neither is of the two, so it was claimed before, against a lesser secret.
      <4>1. <<c.id, x, v>> \in H
        <5>1. <<c.id, x, v>> \in W => x = c.secret /\ v \in c.writes
          BY <1>5
        <5>2. (k = own => x # c.secret) /\ (m = own => ~(x = c.secret /\ v \in c.writes))
          BY <1>0, <1>8, <2>0, <3>1, <3>3
        <5>. QED
          BY <1>1, <1>12, <2>2, <5>1, <5>2
      <4>2. local.secret < x
        <5>1. local.secret <= x
          BY <1>9, <4>1
        <5>2. m = local => x # local.secret
          BY <1>9, <3>3, <4>1
        <5>. QED
          BY <1>1, <1>9, <2>0, <3>1, <5>1, <5>2
      <4>3. PICK u \in Nat : <<c.id, local.secret, u>> \in H
        BY <1>1, <1>8, <1>9, <1>7, ItemFieldsOk DEF local
      <4>. QED
        BY <1>2, <1>4, <1>9, <2>2, <4>1, <4>2, <4>3 DEF Gathers
    <3>. QED
      BY <3>2, <3>3
  <2>. QED
    BY <2>1, <2>2
<1>13. Within(P, G \cup M)
  BY <1>4 DEF Gathers, Within
<1>14. ASSUME NEW Q, Closed(Q), Within(P, Q) PROVE Within(G \cup M, Q)
  <2>1. Within(G, Q)
    BY <1>4, <1>14 DEF Gathers
  <2>2. ASSUME NEW w \in Nat, w \in m.writes PROVE <<forked, m.secret, w>> \in Q
    <3>1. <<c.id, m.secret, w>> \in Q
      BY <1>2, <1>8, <1>10, <2>1, <2>2 DEF Within
    <3>2. PICK u \in Nat : u \in k.writes
      BY <1>8
    <3>3. <<c.id, k.secret, u>> \in Q
      BY <1>2, <1>8, <1>10, <2>1, <3>2 DEF Within
    <3>. QED
      BY <1>1, <1>2, <1>8, <1>14, <3>1, <3>3 DEF Closed, forked
  <2>3. Within(M, Q)
    BY <1>6, <2>2 DEF Within
  <2>. QED
    BY <2>1, <2>3 DEF Within
<1> HIDE DEF G
<1>15. Gathers(r, G, P)
  BY <1>4, <1>11, <1>12, <1>13, <1>14 DEF Gathers
<1>. QED
  BY <1>15

LEMMA TurnGathers ==
  ASSUME NEW s, TurnOk(s), NEW P, \E H : Gathers(s, H, P)
  PROVE  \E H : Gathers(AbsorbStep(s), H, P)
<1>1. PICK H : Gathers(s, H, P)
  OBVIOUS
<1>. QED
  BY <1>1, OneTurn, LandingGathers, SplitGathers

(***************************************************************************)
(* The loop.                                                               *)
(***************************************************************************)
Start(heldItems, copy) == [items |-> heldItems, queue |-> <<copy>>, touched |-> {}, conflicts |-> {}]
IsRun(f, s) == f[0] = s /\ \A k \in Nat : k < MaxMergeSteps => f[k + 1] = AbsorbStep(f[k])

LEMMA LoopRuns ==
  ASSUME NEW heldItems, NEW copy
  PROVE  \E f : IsRun(f, Start(heldItems, copy)) /\ Absorb(heldItems, copy) = f[MaxMergeSteps]
<1> DEFINE a == MaxMergeSteps
           s == Start(heldItems, copy)
           Loops(n, f) == f = [k \in 0 .. n |-> IF k = 0 THEN s ELSE AbsorbStep(f[k - 1])]
           T == {n \in Nat : \E f : Loops(n, f)}
<1>0. a \in Nat
  BY ForkAssumption
<1> HIDE DEF s
<1>1. 0 \in T
  <2>1. Loops(0, [k \in 0 .. 0 |-> s])
    OBVIOUS
  <2> HIDE DEF Loops
  <2>. QED
    BY <2>1
<1>2. ASSUME NEW n \in Nat, n \in T PROVE n + 1 \in T
  <2>1. PICK f : Loops(n, f)
    BY <1>2
  <2> DEFINE g == [k \in 0 .. n + 1 |-> IF k = n + 1 THEN AbsorbStep(f[n]) ELSE f[k]]
  <2>2. \A k \in 0 .. n + 1 : g[k] = IF k = 0 THEN s ELSE AbsorbStep(g[k - 1])
    BY <2>1
  <2>3. Loops(n + 1, g)
    BY <2>2
  <2> HIDE DEF Loops, g
  <2>. QED
    BY <2>3
<1>3. \E f : Loops(a, f)
  <2> HIDE DEF T, a
  <2>1. a \in T
    BY <1>0, <1>1, <1>2, StepByStep
  <2>. QED
    BY <2>1 DEF T
<1>4. PICK f : Loops(a, f) /\ Absorb(heldItems, copy) = f[a]
  BY <1>3 DEF Absorb, s, Start
<1>5. f[0] = s
  BY <1>0, <1>4
<1>6. ASSUME NEW k \in Nat, k < a PROVE f[k + 1] = AbsorbStep(f[k])
  <2>1. k + 1 \in 0 .. a /\ k + 1 # 0 /\ (k + 1) - 1 = k
    BY <1>0, <1>6
  <2>. QED
    BY <1>4, <2>1
<1>. QED
  BY <1>4, <1>5, <1>6 DEF IsRun, s

\* What every turn keeps holds after the last.
LEMMA RunKeepsForm ==
  ASSUME NEW f, NEW s, IsRun(f, s), TurnOk(s)
  PROVE  \A k \in 0 .. MaxMergeSteps : TurnOk(f[k])
<1> DEFINE T == {k \in Nat : TurnOk(f[k])}
<1>1. 0 \in T
  BY DEF IsRun
<1>2. \A k \in Nat : k < MaxMergeSteps /\ k \in T => k + 1 \in T
  BY TurnKeepsForm DEF IsRun
<1>3. MaxMergeSteps \in Nat
  BY ForkAssumption
<1> HIDE DEF T
<1>4. \A k \in 0 .. MaxMergeSteps : k \in T
  BY <1>1, <1>2, <1>3, StepByStep
<1>. QED
  BY <1>4 DEF T

LEMMA RunKeepsCredits ==
  ASSUME NEW f, NEW s, IsRun(f, s), TurnOk(s)
  PROVE  Known(s) \subseteq Known(f[MaxMergeSteps])
<1> DEFINE T == {k \in Nat : Known(s) \subseteq Known(f[k])}
<1>1. 0 \in T
  BY DEF IsRun
<1>2. MaxMergeSteps \in Nat
  BY ForkAssumption
<1>3. \A k \in Nat : k < MaxMergeSteps /\ k \in T => k + 1 \in T
  <2>1. ASSUME NEW k \in Nat, k < MaxMergeSteps PROVE Known(f[k]) \subseteq Known(f[k + 1])
    BY <1>2, <2>1, RunKeepsForm, TurnKeepsCredits DEF IsRun
  <2>. QED
    BY <2>1
<1> HIDE DEF T
<1>4. \A k \in 0 .. MaxMergeSteps : k \in T
  BY <1>1, <1>2, <1>3, StepByStep
<1>. QED
  BY <1>2, <1>4 DEF T

LEMMA RunTells ==
  ASSUME NEW f, NEW s, IsRun(f, s), TurnOk(s), NEW N, Tells(s, N)
  PROVE  Tells(f[MaxMergeSteps], N)
<1> DEFINE T == {k \in Nat : Tells(f[k], N)}
<1>1. 0 \in T
  BY DEF IsRun
<1>2. MaxMergeSteps \in Nat
  BY ForkAssumption
<1>3. \A k \in Nat : k < MaxMergeSteps /\ k \in T => k + 1 \in T
  <2>1. ASSUME NEW k \in Nat, k < MaxMergeSteps, Tells(f[k], N) PROVE Tells(f[k + 1], N)
    <3>1. TurnOk(f[k]) /\ f[k + 1] = AbsorbStep(f[k])
      BY <1>2, <2>1, RunKeepsForm DEF IsRun
    <3>. QED
      BY <2>1, <3>1, TurnTells
  <2>. QED
    BY <2>1
<1> HIDE DEF T
<1>4. \A k \in 0 .. MaxMergeSteps : k \in T
  BY <1>1, <1>2, <1>3, StepByStep
<1>. QED
  BY <1>2, <1>4 DEF T

\* Every turn that does not end the loop leaves a candidate with a longer id.
LEMMA RunEarns ==
  ASSUME NEW f, NEW s, IsRun(f, s), TurnOk(s), NEW n \in Nat, EarnedIn(n, s)
  PROVE  /\ EarnedIn(n, f[MaxMergeSteps])
         /\ n < MaxMergeSteps => f[MaxMergeSteps].queue = <<>>
<1> DEFINE Longer(k) == f[k].queue # <<>> => Len(f[k].queue[1].id) \in Nat /\ Len(f[k].queue[1].id) >= k + 1
           T == {k \in Nat : EarnedIn(n, f[k]) /\ Longer(k)}
<1>1. MaxMergeSteps \in Nat
  BY ForkAssumption
<1>2. ASSUME NEW k \in 0 .. MaxMergeSteps, f[k].queue # <<>>
      PROVE  Len(f[k].queue[1].id) \in Nat /\ Len(f[k].queue[1].id) >= 1
  <2>1. PICK c \in CopySet : f[k].queue = <<c>>
    BY <1>2, RunKeepsForm DEF TurnOk
  <2>2. c.id \in ForkIds /\ f[k].queue[1] = c
    BY <2>1 DEF CopySet
  <2>3. FirstSecret \in SecretBytes
    BY FirstIsASecret
  <2>. QED
    BY <2>2, <2>3, DerivedId
<1>3. 0 \in T
  BY <1>1, <1>2 DEF IsRun
<1>4. ASSUME NEW k \in Nat, k < MaxMergeSteps, k \in T PROVE k + 1 \in T
  <2>1. TurnOk(f[k]) /\ f[k + 1] = AbsorbStep(f[k])
    BY <1>1, <1>4, RunKeepsForm DEF IsRun
  <2>2. EarnedIn(n, f[k + 1])
    BY <1>4, <2>1, TurnEarns
  <2>3. f[k + 1].queue # <<>> => f[k].queue # <<>> /\ Len(f[k + 1].queue[1].id) = Len(f[k].queue[1].id) + 1
    BY <1>4, <2>1, TurnEarns
  <2>4. f[k].queue # <<>> => Len(f[k].queue[1].id) \in Nat /\ Len(f[k].queue[1].id) >= k + 1
    BY <1>4
  <2>5. Longer(k + 1)
    <3> DEFINE x == Len(f[k].queue[1].id)
               y == Len(f[k + 1].queue[1].id)
    <3>1. SUFFICES ASSUME f[k + 1].queue # <<>> PROVE y \in Nat /\ y >= (k + 1) + 1
      OBVIOUS
    <3>2. x \in Nat /\ x >= k + 1 /\ y = x + 1
      BY <2>3, <2>4, <3>1
    <3> HIDE DEF x, y
    <3>. QED
      BY <3>2
  <2>. QED
    BY <2>2, <2>5
<1> HIDE DEF T
<1>5. \A k \in 0 .. MaxMergeSteps : k \in T
  BY <1>1, <1>3, <1>4, StepByStep
<1>6. EarnedIn(n, f[MaxMergeSteps]) /\ Longer(MaxMergeSteps)
  BY <1>1, <1>5 DEF T
<1>7. ASSUME n < MaxMergeSteps, f[MaxMergeSteps].queue # <<>> PROVE FALSE
  <2>1. Len(f[MaxMergeSteps].queue[1].id) - 1 <= n
    BY <1>6, <1>7 DEF EarnedIn, Earned
  <2>. QED
    BY <1>1, <1>6, <1>7, <2>1
<1>. QED
  BY <1>6, <1>7

LEMMA RunGathers ==
  ASSUME NEW f, NEW s, IsRun(f, s), TurnOk(s), NEW P, \E H : Gathers(s, H, P)
  PROVE  \E H : Gathers(f[MaxMergeSteps], H, P)
<1> DEFINE T == {k \in Nat : \E H : Gathers(f[k], H, P)}
<1>1. 0 \in T
  BY DEF IsRun
<1>2. MaxMergeSteps \in Nat
  BY ForkAssumption
<1>3. \A k \in Nat : k < MaxMergeSteps /\ k \in T => k + 1 \in T
  <2>1. ASSUME NEW k \in Nat, k < MaxMergeSteps, \E H : Gathers(f[k], H, P) PROVE \E H : Gathers(f[k + 1], H, P)
    <3>1. TurnOk(f[k]) /\ f[k + 1] = AbsorbStep(f[k])
      BY <1>2, <2>1, RunKeepsForm DEF IsRun
    <3>. QED
      BY <2>1, <3>1, TurnGathers
  <2>. QED
    BY <2>1
<1> HIDE DEF T
<1>4. \A k \in 0 .. MaxMergeSteps : k \in T
  BY <1>1, <1>2, <1>3, StepByStep
<1>. QED
  BY <1>2, <1>4 DEF T

(***************************************************************************)
(* absorb and merge.                                                       *)
(***************************************************************************)
\* No item of a set, and so nothing that is derived from it, needed more than n repairs.
AllEarned(n, heldItems) == \A id \in DOMAIN heldItems : Earned(n, id, heldItems[id].secret)

LEMMA StartIsOk ==
  ASSUME NEW heldItems, ItemsOk(heldItems), NEW copy \in CopySet
  PROVE  /\ TurnOk(Start(heldItems, copy))
         /\ Start(heldItems, copy).items = heldItems /\ Start(heldItems, copy).queue = <<copy>>
         /\ Start(heldItems, copy).queue[1] = copy /\ Start(heldItems, copy).queue # <<>>
         /\ Start(heldItems, copy).conflicts = {}
BY DEF Start, TurnOk

\* An absorb that settles.
LEMMA AbsorbIs ==
  ASSUME NEW heldItems, ItemsOk(heldItems), NEW copy \in CopySet, Absorb(heldItems, copy).queue = <<>>
  PROVE  /\ ItemsOk(Absorb(heldItems, copy).items)
         /\ Absorb(heldItems, copy).touched \subseteq DOMAIN Absorb(heldItems, copy).items
         /\ Credits(heldItems) \subseteq Credits(Absorb(heldItems, copy).items)
         /\ {<<copy.secret, w>> : w \in copy.writes} \subseteq Credits(Absorb(heldItems, copy).items)
<1> DEFINE s == Start(heldItems, copy)
           r == Absorb(heldItems, copy)
<1>1. PICK f : IsRun(f, s) /\ r = f[MaxMergeSteps]
  BY LoopRuns
<1>2. TurnOk(s) /\ s.items = heldItems /\ s.queue # <<>> /\ s.queue[1] = copy
  BY StartIsOk
<1> HIDE DEF s, r
<1>3. MaxMergeSteps \in 0 .. MaxMergeSteps
  BY ForkAssumption
<1>4. TurnOk(r)
  BY <1>1, <1>2, <1>3, RunKeepsForm
<1>5. Known(s) \subseteq Known(r)
  BY <1>1, <1>2, RunKeepsCredits
<1>6. Known(s) = Credits(heldItems) \cup {<<copy.secret, w>> : w \in copy.writes}
  BY <1>2 DEF Known
<1>7. Known(r) = Credits(r.items)
  BY DEF Known, r
<1>. QED
  BY <1>4, <1>5, <1>6, <1>7 DEF TurnOk, r

LEMMA AbsorbTells ==
  ASSUME NEW heldItems, ItemsOk(heldItems), NEW copy \in CopySet, NEW N,
         \A id \in DOMAIN heldItems : Len(id) > 1 => id \in N,
         Len(copy.id) > 1 => copy.id \in N
  PROVE  /\ \A id \in DOMAIN Absorb(heldItems, copy).items :
              Len(id) > 1 => id \in N \cup {n.forked : n \in Absorb(heldItems, copy).conflicts}
         /\ \A n \in Absorb(heldItems, copy).conflicts : n.forked # n.kept
<1> DEFINE s == Start(heldItems, copy)
           r == Absorb(heldItems, copy)
<1>1. PICK f : IsRun(f, s) /\ r = f[MaxMergeSteps]
  BY LoopRuns
<1>2. TurnOk(s) /\ s.items = heldItems /\ s.queue[1] = copy /\ s.conflicts = {}
  BY StartIsOk
<1> HIDE DEF s, r
<1>3. Tells(s, N)
  BY <1>2 DEF Tells
<1>4. Tells(r, N)
  BY <1>1, <1>2, <1>3, RunTells
<1>. QED
  BY <1>4 DEF Tells, r

LEMMA AbsorbSettles ==
  ASSUME NEW heldItems, ItemsOk(heldItems), NEW copy \in CopySet, NEW n \in Nat,
         AllEarned(n, heldItems), Earned(n, copy.id, copy.secret)
  PROVE  /\ AllEarned(n, Absorb(heldItems, copy).items)
         /\ n < MaxMergeSteps => Absorb(heldItems, copy).queue = <<>>
<1> DEFINE s == Start(heldItems, copy)
           r == Absorb(heldItems, copy)
<1>1. PICK f : IsRun(f, s) /\ r = f[MaxMergeSteps]
  BY LoopRuns
<1>2. TurnOk(s) /\ s.items = heldItems /\ s.queue[1] = copy
  BY StartIsOk
<1> HIDE DEF s, r
<1>3. EarnedIn(n, s)
  BY <1>2 DEF EarnedIn, AllEarned
<1>4. EarnedIn(n, r) /\ (n < MaxMergeSteps => r.queue = <<>>)
  BY <1>1, <1>2, <1>3, RunEarns
<1>. QED
  BY <1>4 DEF EarnedIn, AllEarned, r

LEMMA AbsorbStandsFor ==
  ASSUME NEW heldItems, NEW copy \in CopySet, NEW P, StandsFor(heldItems, P), Absorb(heldItems, copy).queue = <<>>
  PROVE  StandsFor(Absorb(heldItems, copy).items, P \cup ClaimsOf(copy.id, copy.secret, copy.writes))
<1> DEFINE s == Start(heldItems, copy)
           r == Absorb(heldItems, copy)
           C == ClaimsOf(copy.id, copy.secret, copy.writes)
<1>0. PICK H : IsClosure(H, P) /\ HoldsLeast(heldItems, H)
  BY DEF StandsFor
<1>1. PICK f : IsRun(f, s) /\ r = f[MaxMergeSteps]
  BY LoopRuns
<1>2. TurnOk(s) /\ s.items = heldItems /\ s.queue # <<>> /\ s.queue[1] = copy
  BY <1>0, StartIsOk DEF HoldsLeast
<1> HIDE DEF s, r
<1>3. Waiting(s) = C /\ Waiting(r) = {}
  BY <1>2 DEF Waiting, r
<1> HIDE DEF C
<1>4. Gathers(s, H, P \cup C)
  <2>1. HoldsLeast(s.items, H) /\ Within(P \cup C, H \cup C)
    BY <1>0, <1>2 DEF IsClosure, Within
  <2>2. ASSUME NEW Q, Closed(Q), Within(P \cup C, Q) PROVE Within(H \cup C, Q)
    <3>1. Within(P, Q) /\ Within(C, Q)
      BY <2>2 DEF Within
    <3>2. Within(H, Q)
      BY <1>0, <2>2, <3>1 DEF IsClosure
    <3>. QED
      BY <3>1, <3>2 DEF Within
  <2>3. \A id \in ForkIds, x \in SecretBytes, t \in SecretBytes, v \in Nat, w \in Nat :
          <<id, x, v>> \in H /\ <<id, t, w>> \in H /\ t < x => <<ForkId(id, x), x, v>> \in H \cup C
    BY <1>0 DEF IsClosure, Closed
  <2>. QED
    BY <1>3, <2>1, <2>2, <2>3 DEF Gathers
<1>5. PICK G : Gathers(r, G, P \cup C)
  BY <1>1, <1>2, <1>4, RunGathers
<1>6. G \cup Waiting(r) = G
  BY <1>3
<1>7. IsClosure(G, P \cup C)
  BY <1>5, <1>6 DEF Gathers, IsClosure, Closed
<1>8. HoldsLeast(r.items, G)
  BY <1>5 DEF Gathers
<1>. QED
  BY <1>7, <1>8 DEF StandsFor, r, C

\* What stands for the claims of a set that itself stands for R stands for R.
LEMMA StandsForAll ==
  ASSUME NEW x, NEW P, NEW heldItems, NEW R, StandsFor(heldItems, R), StandsFor(x, P \cup Claims(heldItems))
  PROVE  StandsFor(x, P \cup R)
<1>1. PICK K : IsClosure(K, R) /\ HoldsLeast(heldItems, K)
  BY DEF StandsFor
<1>2. PICK H : IsClosure(H, P \cup Claims(heldItems)) /\ HoldsLeast(x, H)
  BY DEF StandsFor
<1>3. ItemsOk(heldItems) /\ ItemsOk(x)
  BY <1>1, <1>2 DEF HoldsLeast
<1> DEFINE G == H \cup K
\* What is least in K is a claim of H.
<1>4. ASSUME NEW id \in ForkIds, NEW s \in SecretBytes, NEW w \in Nat, <<id, s, w>> \in K
      PROVE  /\ id \in DOMAIN heldItems /\ heldItems[id].secret \in SecretBytes /\ heldItems[id].secret \in Nat /\ s \in Nat
             /\ heldItems[id].secret <= s
             /\ s = heldItems[id].secret => <<id, s, w>> \in H
             /\ \E u \in Nat : <<id, heldItems[id].secret, u>> \in H /\ <<id, heldItems[id].secret, u>> \in K
  <2>1. id \in DOMAIN heldItems
    BY <1>1, <1>4 DEF HoldsLeast
  <2>2. heldItems[id].secret \in SecretBytes /\ heldItems[id].secret \in Nat /\ \E u \in Nat : u \in heldItems[id].writes
    BY <1>3, <2>1, ItemFieldsOk
  <2>3. heldItems[id].secret <= s
    BY <1>1, <1>4, <2>1 DEF HoldsLeast
  <2>4. \A u \in Nat : u \in heldItems[id].writes <=> <<id, heldItems[id].secret, u>> \in K
    BY <1>1, <2>1 DEF HoldsLeast
  <2>5. \A u \in Nat : u \in heldItems[id].writes => <<id, heldItems[id].secret, u>> \in H
    <3>1. Within(Claims(heldItems), H)
      BY <1>2 DEF IsClosure, Within
    <3>. QED
      BY <2>1, <2>2, <3>1, ClaimsAre DEF Within
  <2>. QED
    BY <1>4, <2>1, <2>2, <2>3, <2>4, <2>5, SecretsAreNumbers
<1>5. Closed(G)
  <2>1. SUFFICES ASSUME NEW id \in ForkIds, NEW s \in SecretBytes, NEW t \in SecretBytes, NEW v \in Nat, NEW w \in Nat,
                        <<id, s, v>> \in G, <<id, t, w>> \in G, t < s
                 PROVE  <<ForkId(id, s), s, v>> \in G
    BY DEF Closed
  <2>2. s \in Nat /\ t \in Nat
    BY SecretsAreNumbers
  <2>3. CASE <<id, s, v>> \in K /\ s # heldItems[id].secret
    <3>1. PICK u \in Nat : <<id, heldItems[id].secret, u>> \in K
      BY <1>4, <2>3
    <3>2. heldItems[id].secret < s /\ heldItems[id].secret \in SecretBytes
      BY <1>4, <2>2, <2>3
    <3>. QED
      BY <1>1, <2>3, <3>1, <3>2 DEF IsClosure, Closed
  <2>4. CASE <<id, s, v>> \in H
    <3>1. CASE <<id, t, w>> \in H
      BY <1>2, <2>1, <2>4, <3>1 DEF IsClosure, Closed
    <3>2. CASE <<id, t, w>> \in K
      <4>1. PICK u \in Nat : <<id, heldItems[id].secret, u>> \in H
        BY <1>4, <3>2
      <4>2. heldItems[id].secret < s /\ heldItems[id].secret \in SecretBytes
        BY <1>4, <2>1, <2>2, <3>2
      <4>. QED
        BY <1>2, <2>4, <4>1, <4>2 DEF IsClosure, Closed
    <3>. QED
      BY <2>1, <3>1, <3>2
  <2>. QED
    BY <1>4, <2>1, <2>3, <2>4
<1>6. Within(P \cup R, G)
  BY <1>1, <1>2 DEF IsClosure, Within
<1>7. ASSUME NEW Q, Closed(Q), Within(P \cup R, Q) PROVE Within(G, Q)
  <2>1. Within(P, Q) /\ Within(R, Q)
    BY <1>7 DEF Within
  <2>2. Within(K, Q)
    BY <1>1, <1>7, <2>1 DEF IsClosure
  <2>3. Within(Claims(heldItems), K)
    <3>1. ASSUME NEW id \in DOMAIN heldItems, NEW w \in heldItems[id].writes PROVE <<id, heldItems[id].secret, w>> \in K
      <4>1. w \in Nat
        BY <1>3, ItemFieldsOk
      <4>. QED
        BY <1>1, <4>1 DEF HoldsLeast
    <3>. QED
      BY <3>1, ClaimsAre DEF Within
  <2>4. Within(P \cup Claims(heldItems), Q)
    BY <2>1, <2>2, <2>3 DEF Within
  <2>5. Within(H, Q)
    BY <1>2, <1>7, <2>4 DEF IsClosure
  <2>. QED
    BY <2>2, <2>5 DEF Within
<1>8. HoldsLeast(x, G)
  <2>1. ASSUME NEW id \in ForkIds, NEW s \in SecretBytes, NEW w \in Nat, <<id, s, w>> \in G
        PROVE  id \in DOMAIN x
    <3>1. CASE <<id, s, w>> \in H
      BY <1>2, <3>1 DEF HoldsLeast
    <3>2. CASE <<id, s, w>> \in K
      BY <1>2, <1>4, <3>2 DEF HoldsLeast
    <3>. QED
      BY <2>1, <3>1, <3>2
  <2>2. ASSUME NEW id \in DOMAIN x
        PROVE  /\ \A s \in SecretBytes, w \in Nat : <<id, s, w>> \in G => x[id].secret <= s
               /\ \A w \in Nat : w \in x[id].writes <=> <<id, x[id].secret, w>> \in G
    <3>0. id \in ForkIds /\ x[id].secret \in SecretBytes /\ x[id].secret \in Nat
      BY <1>3, ItemFieldsOk
    <3>1. ASSUME NEW s \in SecretBytes, NEW w \in Nat, <<id, s, w>> \in K
          PROVE  x[id].secret <= s /\ (s = x[id].secret => <<id, s, w>> \in H)
      <4>1. PICK u \in Nat : <<id, heldItems[id].secret, u>> \in H
        BY <1>4, <3>0, <3>1
      <4>2. x[id].secret <= heldItems[id].secret /\ heldItems[id].secret \in Nat /\ s \in Nat /\ heldItems[id].secret <= s
        BY <1>2, <1>4, <3>0, <3>1, <4>1 DEF HoldsLeast
      <4>3. x[id].secret <= s /\ (s = x[id].secret => s = heldItems[id].secret)
        BY <3>0, <4>2
      <4>. QED
        BY <1>4, <3>0, <3>1, <4>3
    <3>2. \A s \in SecretBytes, w \in Nat : <<id, s, w>> \in H => x[id].secret <= s
      BY <1>2 DEF HoldsLeast
    <3>3. \A w \in Nat : w \in x[id].writes <=> <<id, x[id].secret, w>> \in H
      BY <1>2 DEF HoldsLeast
    <3>. QED
      BY <3>0, <3>1, <3>2, <3>3
  <2>. QED
    BY <1>3, <2>1, <2>2 DEF HoldsLeast
<1> HIDE DEF G
<1>9. IsClosure(G, P \cup R)
  BY <1>5, <1>6, <1>7 DEF IsClosure
<1>. QED
  BY <1>8, <1>9 DEF StandsFor

LEMMA SameClaims ==
  ASSUME NEW x, NEW P, NEW R, StandsFor(x, P), Within(P, R), Within(R, P)
  PROVE  StandsFor(x, R)
<1>1. PICK H : IsClosure(H, P) /\ HoldsLeast(x, H)
  BY DEF StandsFor
<1>2. \A Q : Within(R, Q) <=> Within(P, Q)
  BY DEF Within
<1>3. IsClosure(H, R)
  BY <1>1, <1>2 DEF IsClosure
<1>. QED
  BY <1>1, <1>3 DEF StandsFor

LEMMA CopyIs ==
  ASSUME NEW heldItems, ItemsOk(heldItems), NEW id \in DOMAIN heldItems
  PROVE  /\ Copy(heldItems, id) \in CopySet /\ Copy(heldItems, id).id = id
         /\ Copy(heldItems, id).secret = heldItems[id].secret /\ Copy(heldItems, id).writes = heldItems[id].writes
BY ItemFieldsOk DEF Copy, CopySet

IsMerge(h, heldItems, other, ids) ==
  /\ h[0] = heldItems
  /\ \A k \in Nat : k < Len(ids) => h[k + 1] = Absorb(h[k], Copy(other, ids[k + 1])).items

LEMMA MergeRuns ==
  ASSUME NEW heldItems, NEW other, ItemsOk(other)
  PROVE  LET ids == SetToSeq(DOMAIN other) IN
         \E h : IsMerge(h, heldItems, other, ids) /\ MergeSets(heldItems, other) = h[Len(ids)]
<1> DEFINE ids == SetToSeq(DOMAIN other)
           a == Len(ids)
           Turn(held, k) == Absorb(held, Copy(other, ids[k])).items
           Loops(n, f) == f = [k \in 0 .. n |-> IF k = 0 THEN heldItems ELSE Turn(f[k - 1], k)]
           T == {n \in Nat : \E f : Loops(n, f)}
<1>0. a \in Nat
  BY SetIsListed, ListElements DEF ItemsOk
<1>1. 0 \in T
  <2>1. Loops(0, [k \in 0 .. 0 |-> heldItems])
    OBVIOUS
  <2> HIDE DEF Loops
  <2>. QED
    BY <2>1
<1>2. ASSUME NEW n \in Nat, n \in T PROVE n + 1 \in T
  <2>1. PICK f : Loops(n, f)
    BY <1>2
  <2> DEFINE g == [k \in 0 .. n + 1 |-> IF k = n + 1 THEN Turn(f[n], n + 1) ELSE f[k]]
  <2> HIDE DEF Turn
  <2>2. \A k \in 0 .. n + 1 : g[k] = IF k = 0 THEN heldItems ELSE Turn(g[k - 1], k)
    BY <2>1
  <2>3. Loops(n + 1, g)
    BY <2>2
  <2> HIDE DEF Loops, g
  <2>. QED
    BY <2>3
<1>3. \E f : Loops(a, f)
  <2> HIDE DEF T, a
  <2>1. a \in T
    BY <1>0, <1>1, <1>2, StepByStep
  <2>. QED
    BY <2>1 DEF T
<1>4. PICK f : Loops(a, f) /\ MergeSets(heldItems, other) = f[a]
  <2>1. MergeSets(heldItems, other) = (CHOOSE f : Loops(a, f))[a]
    BY DEF MergeSets
  <2> HIDE DEF Loops
  <2>. QED
    BY <1>3, <2>1
<1>5. f[0] = heldItems
  BY <1>0, <1>4
<1>6. ASSUME NEW k \in Nat, k < a PROVE f[k + 1] = Turn(f[k], k + 1)
  <2>1. k + 1 \in 0 .. a /\ k + 1 # 0 /\ (k + 1) - 1 = k
    BY <1>0, <1>6
  <2> HIDE DEF Turn, a
  <2>. QED
    BY <1>4, <2>1
<1>7. IsMerge(f, heldItems, other, ids)
  <2> HIDE DEF ids
  <2>. QED
    BY <1>5, <1>6 DEF IsMerge
<1> HIDE DEF ids
<1>. QED
  BY <1>4, <1>7 DEF ids

\* merge, of sets that were repaired less often than it takes for an absorb to give up.
LEMMA MergeStandsFor ==
  ASSUME NEW heldItems, ItemsOk(heldItems), NEW other, ItemsOk(other), NEW n \in Nat, n < MaxMergeSteps,
         AllEarned(n, heldItems), AllEarned(n, other), NEW P, StandsFor(heldItems, P)
  PROVE  /\ ItemsOk(MergeSets(heldItems, other)) /\ AllEarned(n, MergeSets(heldItems, other))
         /\ StandsFor(MergeSets(heldItems, other), P \cup Claims(other))
<1> DEFINE ids == SetToSeq(DOMAIN other)
           a == Len(ids)
<1>1. a \in Nat /\ (\A k \in 1 .. a : ids[k] \in DOMAIN other) /\ \A id \in DOMAIN other : \E k \in 1 .. a : ids[k] = id
  BY SetIsListed, ListElements DEF ItemsOk
<1>2. PICK h : IsMerge(h, heldItems, other, ids) /\ MergeSets(heldItems, other) = h[a]
  BY MergeRuns
<1> HIDE DEF ids
<1> DEFINE Of(j) == ClaimsOf(ids[j], other[ids[j]].secret, other[ids[j]].writes)
           Upto(k) == UNION {Of(j) : j \in 1 .. k}
           Right(k) == ItemsOk(h[k]) /\ AllEarned(n, h[k]) /\ StandsFor(h[k], P \cup Upto(k))
           T == {k \in Nat : Right(k)}
<1>3. 0 \in T
  <2>1. P \cup Upto(0) = P
    OBVIOUS
  <2>. QED
    BY <1>2, <2>1 DEF IsMerge
<1>4. ASSUME NEW k \in Nat, k < a, Right(k) PROVE Right(k + 1)
  <2> DEFINE copy == Copy(other, ids[k + 1])
             r == Absorb(h[k], copy)
  <2>0. k + 1 \in 1 .. a
    BY <1>1, <1>4
  <2>1. copy \in CopySet /\ copy.id = ids[k + 1] /\ copy.secret = other[ids[k + 1]].secret
        /\ copy.writes = other[ids[k + 1]].writes
    BY <1>1, <2>0, CopyIs
  <2>2. h[k + 1] = r.items
    BY <1>2, <1>4 DEF IsMerge
  <2>3. Earned(n, copy.id, copy.secret)
    BY <1>1, <2>0, <2>1 DEF AllEarned
  <2> HIDE DEF copy, Of
  <2>4. AllEarned(n, r.items) /\ r.queue = <<>>
    BY <1>4, <2>1, <2>3, AbsorbSettles
  <2>5. ItemsOk(r.items)
    BY <1>4, <2>1, <2>4, AbsorbIs
  <2>6. StandsFor(r.items, (P \cup Upto(k)) \cup Of(k + 1))
    <3>1. Of(k + 1) = ClaimsOf(copy.id, copy.secret, copy.writes)
      BY <2>1 DEF Of
    <3> HIDE DEF Upto
    <3>. QED
      BY <1>4, <2>1, <2>4, <3>1, AbsorbStandsFor
  <2>7. (P \cup Upto(k)) \cup Of(k + 1) = P \cup Upto(k + 1)
    <3>1. 1 .. k + 1 = (1 .. k) \cup {k + 1}
      OBVIOUS
    <3>. QED
      BY <3>1
  <2> HIDE DEF r, Upto
  <2>. QED
    BY <2>2, <2>4, <2>5, <2>6, <2>7
<1>5. a \in T
  <2>1. \A k \in Nat : k < a /\ k \in T => k + 1 \in T
    <3> HIDE DEF Right
    <3>. QED
      BY <1>4
  <2>2. a \in Nat
    BY <1>1
  <2> HIDE DEF T, a
  <2>3. \A k \in 0 .. a : k \in T
    BY <1>3, <2>1, <2>2, StepByStep
  <2>. QED
    BY <2>2, <2>3
<1>6. \A id, s, w : <<id, s, w>> \in Upto(a) <=> <<id, s, w>> \in Claims(other)
  <2>1. ASSUME NEW id, NEW s, NEW w
        PROVE  <<id, s, w>> \in Upto(a) <=> id \in DOMAIN other /\ s = other[id].secret /\ w \in other[id].writes
    <3>1. <<id, s, w>> \in Upto(a) <=> \E j \in 1 .. a : <<id, s, w>> \in Of(j)
      <4> HIDE DEF Of, a
      <4>. QED
        OBVIOUS
    <3>2. \A j : <<id, s, w>> \in Of(j) <=> id = ids[j] /\ s = other[ids[j]].secret /\ w \in other[ids[j]].writes
      BY ClaimsOfOne
    <3> HIDE DEF Of, Upto, a
    <3>. QED
      BY <1>1, <3>1, <3>2
  <2> HIDE DEF Upto, a
  <2>. QED
    BY <2>1, ClaimsAre
<1> HIDE DEF Upto, a
<1>7. Within(P \cup Upto(a), P \cup Claims(other)) /\ Within(P \cup Claims(other), P \cup Upto(a))
  BY <1>6 DEF Within
<1>8. ItemsOk(h[a]) /\ AllEarned(n, h[a]) /\ StandsFor(h[a], P \cup Upto(a))
  BY <1>5
<1>. QED
  BY <1>2, <1>7, <1>8, SameClaims

\* Sets that were repaired less often than that end the same, whoever merges.
LEMMA MergesConverge ==
  ASSUME NEW n \in Nat, n < MaxMergeSteps,
         NEW A, ItemsOk(A), AllEarned(n, A), NEW B, ItemsOk(B), AllEarned(n, B)
  PROVE  /\ MergeSets(A, B) = MergeSets(B, A)
         /\ MergeSets(MergeSets(A, B), B) = MergeSets(A, B)
         /\ \A copy \in CopySet : Earned(n, copy.id, copy.secret) =>
              Absorb(MergeSets(A, B), copy).items = MergeSets(A, Absorb(B, copy).items)
<1> DEFINE J == MergeSets(A, B)
           K == MergeSets(B, A)
           TA == Claims(A)
           TB == Claims(B)
<1>0. StandsFor(A, TA) /\ StandsFor(B, TB)
  BY StandsForItself
<1>1. ItemsOk(J) /\ AllEarned(n, J) /\ StandsFor(J, TA \cup TB)
  BY <1>0, MergeStandsFor
<1>2. ItemsOk(K) /\ StandsFor(K, TB \cup TA)
  BY <1>0, MergeStandsFor
<1> HIDE DEF J, K, TA, TB
<1>3. J = K
  BY <1>1, <1>2, OrderIsNothing DEF Within
<1>4. MergeSets(J, B) = J
  <2>1. StandsFor(MergeSets(J, B), (TA \cup TB) \cup TB)
    BY <1>1, MergeStandsFor DEF TB
  <2>. QED
    BY <1>1, <2>1, OrderIsNothing DEF Within
<1>5. ASSUME NEW copy \in CopySet, Earned(n, copy.id, copy.secret)
      PROVE  Absorb(J, copy).items = MergeSets(A, Absorb(B, copy).items)
  <2> DEFINE C == ClaimsOf(copy.id, copy.secret, copy.writes)
             x == Absorb(J, copy)
             y == Absorb(B, copy)
  <2>1. x.queue = <<>> /\ y.queue = <<>> /\ AllEarned(n, y.items)
    BY <1>1, <1>5, AbsorbSettles
  <2>2. StandsFor(x.items, (TA \cup TB) \cup C)
    BY <1>1, <2>1, AbsorbStandsFor
  <2>3. ItemsOk(y.items) /\ StandsFor(y.items, TB \cup C)
    BY <1>0, <2>1, AbsorbIs, AbsorbStandsFor
  <2> HIDE DEF C, x, y
  <2>4. StandsFor(MergeSets(A, y.items), TA \cup Claims(y.items))
    BY <1>0, <2>1, <2>3, MergeStandsFor
  <2>5. StandsFor(MergeSets(A, y.items), TA \cup (TB \cup C))
    BY <2>3, <2>4, StandsForAll
  <2>6. x.items = MergeSets(A, y.items)
    BY <2>2, <2>5, OrderIsNothing DEF Within
  <2>. QED
    BY <2>6 DEF x, y
<1>. QED
  BY <1>3, <1>4, <1>5 DEF J, K

(***************************************************************************)
(* The invariant.                                                          *)
(***************************************************************************)
LEMMA ToldOnce ==
  ASSUME NEW notices, NEW d \in Peers, NEW id, \E c \in notices[d] : c.forked = id
  PROVE  id \in ToldIds(notices)
BY DEF ToldIds

LEMMA ForkStart == ForkInit => ForkInv
<1> SUFFICES ASSUME ForkInit PROVE ForkInv
  OBVIOUS
<1> DEFINE first == <<OriginalId>>
           heldItems == With(NoItems, first, Item(FirstSecret, {0}))
<1>1. first \in ForkIds /\ Len(first) = 1 /\ Native(first) = FirstSecret
  BY DEF ForkIds, Native
<1>2. FirstSecret \in SecretBytes /\ {0} \in WriteSets
  BY FirstIsASecret DEF WriteSets
<1>3. ItemsOk(NoItems) /\ DOMAIN NoItems = {}
  BY FS_EmptySet DEF NoItems, ItemsOk
<1>4. IsWith(heldItems, NoItems, first, FirstSecret, {0})
  BY <1>1, <1>2, <1>3, WithIs
<1> HIDE DEF heldItems, first
<1>5. ItemsOk(heldItems) /\ DOMAIN heldItems = {first} /\ heldItems[first].secret = FirstSecret
  BY <1>3, <1>4 DEF IsWith
<1>6. /\ item_set = [d \in Peers |-> heldItems] /\ copies = {Copy(heldItems, first)}
      /\ credited = [d \in Peers |-> Credits(heldItems)]
      /\ conflicts = [d \in Peers |-> {}] /\ repairs = 0 /\ edits = 0
  BY DEF ForkInit, heldItems, first
<1>7. Copy(heldItems, first) \in CopySet /\ Copy(heldItems, first).id = first /\ Copy(heldItems, first).secret = FirstSecret
  BY <1>5, CopyIs
<1>8. MaxRepairs \in Nat
  BY ForkAssumption
<1>9. Earned(0, first, FirstSecret) /\ Told(conflicts, first)
  BY <1>1 DEF Earned, Told
<1>10. \A c \in copies : c \in CopySet /\ Earned(repairs, c.id, c.secret) /\ Told(conflicts, c.id)
  BY <1>6, <1>7, <1>9
<1>11. \A d \in Peers :
         /\ ItemsOk(item_set[d]) /\ credited[d] \subseteq Credits(item_set[d])
         /\ \A id \in DOMAIN item_set[d] : Earned(repairs, id, item_set[d][id].secret) /\ Told(conflicts, id)
         /\ \A c \in conflicts[d] : c.forked # c.kept
  BY <1>5, <1>6, <1>9
<1>12. /\ item_set = [d \in Peers |-> item_set[d]] /\ conflicts = [d \in Peers |-> conflicts[d]]
       /\ credited = [d \in Peers |-> credited[d]]
  BY <1>6
<1>13. repairs \in 0 .. MaxRepairs /\ edits \in Nat /\ copies \subseteq CopySet
  BY <1>6, <1>8, <1>10
<1>. QED
  BY <1>10, <1>11, <1>12, <1>13, Zenon DEF ForkInv

\* What an Adopt of a good set leaves to show.
LEMMA AdoptKeeps ==
  ASSUME ForkInv, NEW d \in Peers, NEW heldItems, ItemsOk(heldItems), NEW ids, ids \subseteq DOMAIN heldItems,
         Adopt(d, heldItems, ids),
         repairs' \in 0 .. MaxRepairs, repairs <= repairs', edits' \in Nat,
         conflicts' = [e \in Peers |-> conflicts'[e]], \A e \in Peers : conflicts[e] \subseteq conflicts'[e],
         \A e \in Peers : \A c \in conflicts'[e] : c.forked # c.kept,
         credited' = [e \in Peers |-> credited'[e]], credited'[d] \subseteq Credits(heldItems),
         \A e \in Peers \ {d} : credited'[e] = credited[e],
         \A id \in DOMAIN heldItems : Earned(repairs', id, heldItems[id].secret) /\ Told(conflicts', id)
  PROVE  ForkInv'
<1>1. /\ item_set' = [item_set EXCEPT ![d] = heldItems]
      /\ copies' = copies \cup {Copy(heldItems, id) : id \in ids}
  BY DEF Adopt
<1>2. item_set = [e \in Peers |-> item_set[e]]
  BY DEF ForkInv
<1>3. item_set' = [e \in Peers |-> item_set'[e]] /\ item_set'[d] = heldItems
      /\ \A e \in Peers \ {d} : item_set'[e] = item_set[e]
  BY <1>1, <1>2
<1>4. \A id : Told(conflicts, id) => Told(conflicts', id)
  <2>1. ToldIds(conflicts) \subseteq ToldIds(conflicts')
    BY DEF ToldIds
  <2>. QED
    BY <2>1 DEF Told
<1>5. \A id \in ForkIds, s \in SecretBytes : Earned(repairs, id, s) => Earned(repairs', id, s)
  <2>1. repairs \in Nat /\ repairs' \in Nat
    BY DEF ForkInv
  <2>2. \A id \in ForkIds : Len(id) \in Nat
    BY FirstIsASecret, DerivedId
  <2>. QED
    BY <2>1, <2>2 DEF Earned
<1>6. \A c \in copies' : c \in CopySet /\ Earned(repairs', c.id, c.secret) /\ Told(conflicts', c.id)
  <2>1. ASSUME NEW c \in copies PROVE c \in CopySet /\ Earned(repairs', c.id, c.secret) /\ Told(conflicts', c.id)
    <3>1. c \in CopySet /\ Earned(repairs, c.id, c.secret) /\ Told(conflicts, c.id)
      BY DEF ForkInv
    <3>2. c.id \in ForkIds /\ c.secret \in SecretBytes
      BY <3>1 DEF CopySet
    <3>. QED
      BY <1>4, <1>5, <3>1, <3>2
  <2>2. ASSUME NEW id \in ids
        PROVE  LET c == Copy(heldItems, id) IN c \in CopySet /\ Earned(repairs', c.id, c.secret) /\ Told(conflicts', c.id)
    BY CopyIs
  <2>. QED
    BY <1>1, <2>1, <2>2
<1>7. ASSUME NEW e \in Peers
      PROVE  /\ ItemsOk(item_set'[e]) /\ credited'[e] \subseteq Credits(item_set'[e])
             /\ \A id \in DOMAIN item_set'[e] : Earned(repairs', id, item_set'[e][id].secret) /\ Told(conflicts', id)
  <2>1. CASE e = d
    BY <1>3, <2>1
  <2>2. CASE e # d
    <3>1. item_set'[e] = item_set[e] /\ credited'[e] = credited[e]
      BY <1>3, <2>2
    <3>2. /\ ItemsOk(item_set[e]) /\ credited[e] \subseteq Credits(item_set[e])
          /\ \A id \in DOMAIN item_set[e] : Earned(repairs, id, item_set[e][id].secret) /\ Told(conflicts, id)
      BY DEF ForkInv
    <3>3. \A id \in DOMAIN item_set[e] : id \in ForkIds /\ item_set[e][id].secret \in SecretBytes
      BY <3>2, ItemFieldsOk
    <3>. QED
      BY <1>4, <1>5, <3>1, <3>2, <3>3
  <2>. QED
    BY <2>1, <2>2
<1>. QED
  BY <1>3, <1>6, <1>7 DEF ForkInv

\* merge_remote.
LEMMA MergeKeeps ==
  ASSUME ForkInv, NEW d \in Peers, NEW copy \in copies, MergeRemote(d, copy)
  PROVE  ForkInv'
<1> DEFINE heldItems == item_set[d]
           r == Absorb(heldItems, copy)
<1>0. /\ ItemsOk(heldItems) /\ credited[d] \subseteq Credits(heldItems) /\ copy \in CopySet
      /\ AllEarned(repairs, heldItems) /\ Earned(repairs, copy.id, copy.secret) /\ repairs \in Nat
      /\ (\A id \in DOMAIN heldItems : Len(id) > 1 => id \in ToldIds(conflicts))
      /\ (Len(copy.id) > 1 => copy.id \in ToldIds(conflicts))
  <2>1. /\ ItemsOk(heldItems) /\ credited[d] \subseteq Credits(heldItems)
        /\ \A id \in DOMAIN heldItems : Earned(repairs, id, heldItems[id].secret) /\ Told(conflicts, id)
    BY DEF ForkInv
  <2>2. copy \in CopySet /\ Earned(repairs, copy.id, copy.secret) /\ Told(conflicts, copy.id)
    BY DEF ForkInv
  <2>3. repairs \in Nat
    BY DEF ForkInv
  <2> HIDE DEF heldItems
  <2>. QED
    BY <2>1, <2>2, <2>3 DEF AllEarned, Told
<1> DEFINE own == {<<copy.secret, w>> : w \in copy.writes}
           union == {n.forked : n \in r.conflicts}
<1>1. CASE r.queue # <<>>
  <2>1. UNCHANGED <<item_set, copies, conflicts, credited, repairs, edits>>
    BY <1>1 DEF MergeRemote
  <2>. QED
    BY <2>1 DEF ForkInv, Told, ToldIds, Credits
<1>2. CASE r.queue = <<>>
  <2>1. ItemsOk(r.items) /\ r.touched \subseteq DOMAIN r.items /\ Credits(heldItems) \subseteq Credits(r.items)
        /\ own \subseteq Credits(r.items)
    BY <1>0, <1>2, AbsorbIs
  <2>2. AllEarned(repairs, r.items)
    BY <1>0, AbsorbSettles
  <2>3. /\ \A id \in DOMAIN r.items : Len(id) > 1 => id \in ToldIds(conflicts) \cup union
        /\ \A n \in r.conflicts : n.forked # n.kept
    <3> DEFINE N == ToldIds(conflicts)
    <3>1. /\ \A id \in DOMAIN heldItems : Len(id) > 1 => id \in N
          /\ Len(copy.id) > 1 => copy.id \in N
      BY <1>0
    <3> HIDE DEF N, heldItems
    <3>2. /\ \A id \in DOMAIN r.items : Len(id) > 1 => id \in N \cup union
          /\ \A n \in r.conflicts : n.forked # n.kept
      BY <1>0, <3>1, AbsorbTells
    <3>. QED
      BY <3>2 DEF N
  <2> HIDE DEF heldItems, r, own, union
  <2>4. /\ Adopt(d, r.items, r.touched) /\ conflicts' = [conflicts EXCEPT ![d] = @ \cup r.conflicts]
        /\ credited' = [credited EXCEPT ![d] = @ \cup own] /\ repairs' = repairs /\ edits' = edits
    BY <1>2 DEF MergeRemote, r, heldItems, own
  <2>5. /\ conflicts = [e \in Peers |-> conflicts[e]] /\ credited = [e \in Peers |-> credited[e]]
        /\ repairs \in 0 .. MaxRepairs /\ edits \in Nat
        /\ \A e \in Peers : \A c \in conflicts[e] : c.forked # c.kept
    BY DEF ForkInv
  <2>6. /\ conflicts' = [e \in Peers |-> conflicts'[e]] /\ conflicts'[d] = conflicts[d] \cup r.conflicts
        /\ \A e \in Peers \ {d} : conflicts'[e] = conflicts[e]
    BY <2>4, <2>5
  <2>7. /\ credited' = [e \in Peers |-> credited'[e]] /\ credited'[d] = credited[d] \cup own
        /\ \A e \in Peers \ {d} : credited'[e] = credited[e]
    BY <2>4, <2>5
  <2>8. credited'[d] \subseteq Credits(r.items)
    BY <1>0, <2>1, <2>7
  <2>9. ToldIds(conflicts) \cup union \subseteq ToldIds(conflicts')
    BY <2>6 DEF ToldIds, union
  <2>10. \A id \in DOMAIN r.items : Earned(repairs', id, r.items[id].secret) /\ Told(conflicts', id)
    BY <2>2, <2>3, <2>4, <2>9 DEF AllEarned, Told
  <2>11. \A e \in Peers : conflicts[e] \subseteq conflicts'[e] /\ \A c \in conflicts'[e] : c.forked # c.kept
    BY <2>3, <2>5, <2>6
  <2>12. repairs' \in 0 .. MaxRepairs /\ repairs <= repairs' /\ edits' \in Nat
    BY <2>4, <2>5
  <2>. QED
    BY <2>1, <2>4, <2>6, <2>7, <2>8, <2>10, <2>11, <2>12, AdoptKeeps
<1>. QED
  BY <1>1, <1>2

\* update.
LEMMA EditKeeps ==
  ASSUME ForkInv, NEW d \in Peers, NEW id \in DOMAIN item_set[d], EditFork(d, id)
  PROVE  ForkInv'
<1> DEFINE old == item_set[d]
           W == old[id].writes \cup {edits + 1}
           heldItems == With(old, id, [old[id] EXCEPT !.writes = @ \cup {edits + 1}])
<1>0. /\ ItemsOk(old) /\ credited[d] \subseteq Credits(old) /\ edits \in Nat /\ repairs \in 0 .. MaxRepairs
      /\ (\A i \in DOMAIN old : Earned(repairs, i, old[i].secret) /\ Told(conflicts, i))
      /\ conflicts = [e \in Peers |-> conflicts[e]] /\ credited = [e \in Peers |-> credited[e]]
      /\ \A e \in Peers : \A c \in conflicts[e] : c.forked # c.kept
  BY DEF ForkInv
<1>1. id \in ForkIds /\ old[id].secret \in SecretBytes /\ old[id].writes \in WriteSets
      /\ old[id] = [secret |-> old[id].secret, writes |-> old[id].writes]
  BY <1>0, ItemFieldsOk
<1>2. W \in WriteSets
  BY <1>0, <1>1 DEF WriteSets
<1>3. [old[id] EXCEPT !.writes = @ \cup {edits + 1}] = Item(old[id].secret, W)
  <2> DEFINE r == old[id]
  <2>1. r = [secret |-> r.secret, writes |-> r.writes]
    BY <1>1
  <2> HIDE DEF r
  <2>2. [r EXCEPT !.writes = @ \cup {edits + 1}] = Item(r.secret, r.writes \cup {edits + 1})
    BY <2>1 DEF Item
  <2>. QED
    BY <2>2 DEF r
<1>4. IsWith(heldItems, old, id, old[id].secret, W)
  <2> HIDE DEF W, old
  <2>. QED
    BY <1>0, <1>1, <1>2, <1>3, WithIs
<1>5. /\ Adopt(d, heldItems, {id}) /\ credited' = [credited EXCEPT ![d] = @ \cup Credits(heldItems)]
      /\ conflicts' = conflicts /\ repairs' = repairs /\ edits' = edits + 1
  BY DEF EditFork
<1>6. old[id].writes \subseteq W
  OBVIOUS
<1> HIDE DEF heldItems, old, W
<1>7. Credits(old) \subseteq Credits(heldItems)
  <2>1. SUFFICES ASSUME NEW x \in Credits(old) PROVE x \in Credits(heldItems)
    OBVIOUS
  <2>2. PICK i \in DOMAIN old : \E w \in old[i].writes : x = <<old[i].secret, w>>
    BY <2>1, CreditsAre
  <2>3. CASE i = id
    BY <1>4, <1>6, <2>2, <2>3, CreditsWith
  <2>4. CASE i # id
    BY <1>4, <2>2, <2>4, CreditsWith
  <2>. QED
    BY <2>3, <2>4
<1>8. /\ credited' = [e \in Peers |-> credited'[e]] /\ credited'[d] = credited[d] \cup Credits(heldItems)
      /\ \A e \in Peers \ {d} : credited'[e] = credited[e]
  BY <1>0, <1>5
<1>9. ItemsOk(heldItems) /\ DOMAIN heldItems = DOMAIN old
      /\ \A i \in DOMAIN heldItems : heldItems[i].secret = old[i].secret
  BY <1>4 DEF IsWith, old
<1>10. \A i \in DOMAIN heldItems : Earned(repairs', i, heldItems[i].secret) /\ Told(conflicts', i)
  BY <1>0, <1>5, <1>9
<1>11. {id} \subseteq DOMAIN heldItems
  BY <1>9 DEF old
<1>12. credited'[d] \subseteq Credits(heldItems)
  BY <1>0, <1>7, <1>8
<1>13. repairs' \in 0 .. MaxRepairs /\ repairs <= repairs' /\ edits' \in Nat
  BY <1>0, <1>5
<1>14. /\ conflicts' = [e \in Peers |-> conflicts'[e]]
       /\ \A e \in Peers : conflicts[e] \subseteq conflicts'[e] /\ \A c \in conflicts'[e] : c.forked # c.kept
  BY <1>0, <1>5
<1>. QED
  BY <1>5, <1>8, <1>9, <1>10, <1>11, <1>12, <1>13, <1>14, AdoptKeeps

\* repair_secret: one more repair earns one more fork.
LEMMA RepairKeeps ==
  ASSUME ForkInv, NEW d \in Peers, NEW id \in DOMAIN item_set[d], NEW secret \in SecretBytes,
         RepairSecret(d, id, secret)
  PROVE  ForkInv'
<1> DEFINE old == item_set[d]
           heldItems == With(old, id, [old[id] EXCEPT !.secret = secret])
<1>0. /\ ItemsOk(old) /\ edits \in Nat /\ repairs \in 0 .. MaxRepairs
      /\ (\A i \in DOMAIN old : Earned(repairs, i, old[i].secret) /\ Told(conflicts, i))
      /\ conflicts = [e \in Peers |-> conflicts[e]] /\ credited = [e \in Peers |-> credited[e]]
      /\ \A e \in Peers : \A c \in conflicts[e] : c.forked # c.kept
  BY DEF ForkInv
<1>1. id \in ForkIds /\ old[id].secret \in SecretBytes /\ old[id].writes \in WriteSets
      /\ old[id] = [secret |-> old[id].secret, writes |-> old[id].writes]
  BY <1>0, ItemFieldsOk
<1>2. [old[id] EXCEPT !.secret = secret] = Item(secret, old[id].writes)
  BY <1>1 DEF Item
<1>3. IsWith(heldItems, old, id, secret, old[id].writes)
  <2> HIDE DEF old
  <2>. QED
    BY <1>0, <1>1, <1>2, WithIs
<1>4. /\ Adopt(d, heldItems, {id}) /\ credited' = [credited EXCEPT ![d] = Credits(heldItems)]
      /\ conflicts' = conflicts /\ repairs' = repairs + 1 /\ repairs < MaxRepairs /\ edits' = edits
  BY DEF RepairSecret
<1>5. id \in DOMAIN old
  OBVIOUS
<1> HIDE DEF heldItems, old
<1>6. /\ credited' = [e \in Peers |-> credited'[e]] /\ credited'[d] = Credits(heldItems)
      /\ \A e \in Peers \ {d} : credited'[e] = credited[e]
  BY <1>0, <1>4
<1>7. /\ ItemsOk(heldItems) /\ DOMAIN heldItems = DOMAIN old /\ heldItems[id].secret = secret
      /\ \A i \in DOMAIN heldItems : i # id => heldItems[i].secret = old[i].secret
  BY <1>3, <1>5 DEF IsWith
<1>8. repairs' \in 0 .. MaxRepairs /\ repairs <= repairs' /\ edits' \in Nat /\ repairs' = repairs + 1 /\ repairs \in Nat
  BY <1>0, <1>4, ForkAssumption
<1>9. ASSUME NEW i \in DOMAIN heldItems PROVE Earned(repairs', i, heldItems[i].secret)
  <2>1. Earned(repairs, i, old[i].secret) /\ i \in ForkIds
    BY <1>0, <1>7, ItemFieldsOk
  <2>2. Len(i) \in Nat
    BY <2>1, FirstIsASecret, DerivedId
  <2>3. Len(i) - 1 <= repairs
    BY <2>1 DEF Earned
  <2>4. Len(i) <= repairs' /\ Len(i) - 1 <= repairs'
    BY <1>8, <2>2, <2>3
  <2>. QED
    BY <2>4 DEF Earned
<1>10. \A i \in DOMAIN heldItems : Earned(repairs', i, heldItems[i].secret) /\ Told(conflicts', i)
  BY <1>0, <1>4, <1>7, <1>9
<1>11. {id} \subseteq DOMAIN heldItems /\ credited'[d] \subseteq Credits(heldItems)
  BY <1>5, <1>6, <1>7
<1>12. /\ conflicts' = [e \in Peers |-> conflicts'[e]]
       /\ \A e \in Peers : conflicts[e] \subseteq conflicts'[e] /\ \A c \in conflicts'[e] : c.forked # c.kept
  BY <1>0, <1>4
<1>. QED
  BY <1>4, <1>6, <1>7, <1>8, <1>10, <1>11, <1>12, AdoptKeeps

\* purge_tombstones.
LEMMA PurgeKeeps ==
  ASSUME ForkInv, NEW d \in Peers, NEW id \in DOMAIN item_set[d], PurgeItem(d, id)
  PROVE  ForkInv'
<1> DEFINE old == item_set[d]
           heldItems == [i \in DOMAIN old \ {id} |-> old[i]]
<1>0. /\ ItemsOk(old) /\ edits \in Nat /\ repairs \in 0 .. MaxRepairs
      /\ (\A i \in DOMAIN old : Earned(repairs, i, old[i].secret) /\ Told(conflicts, i))
      /\ conflicts = [e \in Peers |-> conflicts[e]] /\ credited = [e \in Peers |-> credited[e]]
      /\ \A e \in Peers : \A c \in conflicts[e] : c.forked # c.kept
  BY DEF ForkInv
<1>1. DOMAIN heldItems = DOMAIN old \ {id} /\ (\A i \in DOMAIN heldItems : heldItems[i] = old[i])
      /\ heldItems = [i \in DOMAIN heldItems |-> heldItems[i]]
  OBVIOUS
<1>2. /\ Adopt(d, heldItems, {}) /\ credited' = [credited EXCEPT ![d] = Credits(heldItems)]
      /\ conflicts' = conflicts /\ repairs' = repairs /\ edits' = edits
  BY DEF PurgeItem
<1> HIDE DEF heldItems, old
<1>3. ItemsOk(heldItems)
  <2>1. IsFiniteSet(DOMAIN heldItems)
    BY <1>0, <1>1, FS_Subset DEF ItemsOk
  <2>. QED
    BY <1>0, <1>1, <2>1 DEF ItemsOk
<1>4. /\ credited' = [e \in Peers |-> credited'[e]] /\ credited'[d] = Credits(heldItems)
      /\ \A e \in Peers \ {d} : credited'[e] = credited[e]
  BY <1>0, <1>2
<1>5. \A i \in DOMAIN heldItems : Earned(repairs', i, heldItems[i].secret) /\ Told(conflicts', i)
  BY <1>0, <1>1, <1>2
<1>6. {} \subseteq DOMAIN heldItems /\ credited'[d] \subseteq Credits(heldItems)
  BY <1>4
<1>7. repairs' \in 0 .. MaxRepairs /\ repairs <= repairs' /\ edits' \in Nat
  BY <1>0, <1>2
<1>8. /\ conflicts' = [e \in Peers |-> conflicts'[e]]
      /\ \A e \in Peers : conflicts[e] \subseteq conflicts'[e] /\ \A c \in conflicts'[e] : c.forked # c.kept
  BY <1>0, <1>2
<1>. QED
  BY <1>2, <1>3, <1>4, <1>5, <1>6, <1>7, <1>8, AdoptKeeps

LEMMA ForkStep == ForkInv /\ [ForkNext]_forkVars => ForkInv'
<1>1. SUFFICES ASSUME ForkInv, [ForkNext]_forkVars PROVE ForkInv'
  OBVIOUS
<1>2. CASE UNCHANGED forkVars
  BY <1>1, <1>2 DEF forkVars, ForkInv, Told, ToldIds, Credits
<1>3. CASE ForkNext
  BY <1>1, <1>3, MergeKeeps, EditKeeps, RepairKeeps, PurgeKeeps DEF ForkNext
<1>. QED
  BY <1>1, <1>2, <1>3

(***************************************************************************)
(* For every set of devices and secrets, every order in which rows arrive, *)
(* and whether or not a merge gives up: no secret a device held or was     *)
(* sent is lost, no write moves to another credential, and some user is    *)
(* told of each derived id (absorb, Conflict::DivergentSecret).            *)
(***************************************************************************)
THEOREM ForksNeverDrop == ForkSpec => []ForksKeepCredentials
<1>1. ForkInv => ForksKeepCredentials
  <2>1. SUFFICES ASSUME ForkInv PROVE NoCredentialLost /\ ForkIsTold
    BY DEF ForksKeepCredentials
  <2>2. NoCredentialLost
    BY <2>1 DEF ForkInv, NoCredentialLost
  <2>3. ForkIsTold
    BY <2>1 DEF ForkInv, ForkIsTold, Told, ToldIds
  <2>. QED
    BY <2>2, <2>3
<1>. QED
  BY <1>1, ForkStart, ForkStep, PTL DEF ForkSpec

(***************************************************************************)
(* When secrets were repaired less than MAX_MERGE_STEPS times, no merge    *)
(* gives up, and devices that exchange their items end with the same ids   *)
(* for the same credentials, whoever merges first, however often, and      *)
(* whether another row comes before or after (absorb, fork_id,             *)
(* ItemSet::merge).                                                        *)
(***************************************************************************)
THEOREM ForksComeTogether ==
  ASSUME MaxRepairs < MaxMergeSteps
  PROVE  ForkSpec => []ForksSettle
<1> DEFINE Settling == ForkInv /\ settled
<1>0. MaxRepairs \in Nat /\ MaxMergeSteps \in Nat
  BY ForkAssumption
<1>1. ForkInit => Settling
  BY ForkStart DEF ForkInit
<1>2. Settling /\ [ForkNext]_forkVars => Settling'
  <2>1. SUFFICES ASSUME ForkInv, settled, [ForkNext]_forkVars PROVE settled'
    BY ForkStep
  <2>2. ASSUME NEW d \in Peers, NEW copy \in copies, MergeRemote(d, copy) PROVE settled'
    <3>1. /\ ItemsOk(item_set[d]) /\ AllEarned(repairs, item_set[d]) /\ copy \in CopySet
          /\ Earned(repairs, copy.id, copy.secret) /\ repairs \in 0 .. MaxRepairs
      BY <2>1 DEF ForkInv, AllEarned
    <3>2. repairs \in Nat /\ repairs < MaxMergeSteps
      BY <1>0, <3>1
    <3>3. Absorb(item_set[d], copy).queue = <<>>
      BY <3>1, <3>2, AbsorbSettles
    <3>. QED
      BY <2>2, <3>3 DEF MergeRemote
  <2>. QED
    BY <2>1, <2>2 DEF ForkNext, EditFork, RepairSecret, PurgeItem, forkVars
<1>3. Settling => ForksSettle
  <2>1. SUFFICES ASSUME ForkInv, settled PROVE ForkTypeOK /\ MergeSettles /\ ForksConverge
    BY DEF ForksSettle
  <2>2. ForkTypeOK
    <3>1. \A d \in Peers : \A id \in DOMAIN item_set[d] : id \in ForkIds /\ item_set[d][id].secret \in SecretBytes
      BY <2>1, ItemFieldsOk DEF ForkInv
    <3>. QED
      BY <2>1, <3>1 DEF ForkTypeOK, ForkInv, ForkIds
  <2>3. ForksConverge
    <3>1. SUFFICES ASSUME NEW d \in Peers, NEW e \in Peers
                   PROVE  LET joined == MergeSets(item_set[d], item_set[e]) IN
                          /\ joined = MergeSets(item_set[e], item_set[d])
                          /\ MergeSets(joined, item_set[e]) = joined
                          /\ \A copy \in copies : Absorb(joined, copy).items
                                                    = MergeSets(item_set[d], Absorb(item_set[e], copy).items)
      BY DEF ForksConverge
    <3>2. /\ ItemsOk(item_set[d]) /\ AllEarned(repairs, item_set[d])
          /\ ItemsOk(item_set[e]) /\ AllEarned(repairs, item_set[e])
          /\ \A copy \in copies : copy \in CopySet /\ Earned(repairs, copy.id, copy.secret)
      BY <2>1 DEF ForkInv, AllEarned
    <3>3. repairs \in Nat /\ repairs < MaxMergeSteps
      BY <1>0, <2>1 DEF ForkInv
    <3>. QED
      BY <3>2, <3>3, MergesConverge
  <2>. QED
    BY <2>1, <2>2, <2>3 DEF MergeSettles
<1>. QED
  BY <1>1, <1>2, <1>3, PTL DEF ForkSpec

(***************************************************************************)
(* Imports. What a reader makes of a row: an item whose secret was checked *)
(* with warnings of the list, or an error of a row; some readers skip.     *)
(***************************************************************************)
WarnsOk(ws) == \A w \in ws : w[1] \in ImportWarnings
IsItem(r) ==
  /\ DOMAIN r = {"item", "warnings"} /\ "otp" \in DOMAIN r.item
  /\ CheckLen(r.item.otp.secret) = None /\ WarnsOk(r.warnings)
IsFailed(r) == \E e \in RowErrors : r = Fail(e)
IsMade(r) == IsItem(r) \/ IsFailed(r)
IsResult(r) == IsMade(r) \/ \E reason \in SkipReasons : r = Skip(reason)

LEMMA WarningsAre ==
  /\ WarnsOk({}) /\ WarnsOk({<<"ImportedAsArchived", "">>})
  /\ \A a, b : WarnsOk(a) /\ WarnsOk(b) => WarnsOk(a \cup b)
  /\ \A names : WarnsOk(Assumed(names)) /\ WarnsOk(Normalized(names)) /\ WarnsOk(Dropped(names))
<1>1. \A names : WarnsOk(Assumed(names))
  BY DEF WarnsOk, Assumed, ImportWarnings
<1>2. \A names : WarnsOk(Normalized(names))
  BY DEF WarnsOk, Normalized, ImportWarnings
<1>3. \A names : WarnsOk(Dropped(names))
  BY DEF WarnsOk, Dropped, ImportWarnings
<1>4. WarnsOk({<<"ImportedAsArchived", "">>})
  <2> DEFINE w == <<"ImportedAsArchived", "">>
  <2>1. w[1] \in ImportWarnings
    BY DEF ImportWarnings
  <2> HIDE DEF w
  <2>2. WarnsOk({w})
    BY <2>1 DEF WarnsOk
  <2>. QED
    BY <2>2 DEF w
<1>. QED
  BY <1>1, <1>2, <1>3, <1>4 DEF WarnsOk

LEMMA BuiltRow ==
  ASSUME NEW otpConfig, CheckLen(otpConfig.secret) = None, NEW issuer, NEW account, NEW ws, WarnsOk(ws)
  PROVE  IsItem(Built(NewItem(otpConfig, issuer, account), ws))
  BY DEF IsItem, Built, NewItem

LEMMA FailedRow ==
  ASSUME NEW e \in RowErrors
  PROVE  IsMade(Fail(e))
  BY DEF IsMade, IsFailed

LEMMA SkippedRow ==
  ASSUME NEW reason \in SkipReasons
  PROVE  IsResult(Skip(reason))
  BY DEF IsResult

LEMMA FailedIsNoItem ==
  ASSUME NEW r
  PROVE  /\ IsItem(r) => "fail" \notin DOMAIN r /\ "item" \in DOMAIN r
         /\ \A e : r = Fail(e) => "fail" \in DOMAIN r /\ "item" \notin DOMAIN r /\ "skip" \notin DOMAIN r
         /\ \A e : r = Skip(e) => "item" \notin DOMAIN r /\ "skip" \in DOMAIN r /\ r.skip = e
  BY DEF IsItem, Fail, Skip

\* A configuration that is built has a checked secret.
LEMMA ConstructedIsChecked ==
  ASSUME NEW kind, NEW secret, NEW algorithm, NEW digits, NEW period, NEW counter, NEW pin
  PROVE  LET built == Constructed(kind, secret, algorithm, digits, period, counter, pin) IN
         \/ IsOk(built) /\ CheckLen(built.ok.secret) = None
         \/ ~IsOk(built) /\ built.err \in OtpErrors
<1> DEFINE d == Builder(kind, secret)
           b == [d EXCEPT !.algorithm = algorithm, !.digits = digits, !.period = period, !.counter = counter, !.pin = pin]
           c == [b EXCEPT
                   !.algorithm = OrElse(FixedAlgorithm(b.kind), OrElse(@, DefaultAlgorithm(b.kind))),
                   !.digits = OrElse(FixedDigits(b.kind), OrElse(b.digits, DefaultDigits(b.kind))),
                   !.period = OrElse(FixedPeriod(b.kind), OrElse(b.period, DefaultPeriod(b.kind))),
                   !.counter = IF UsesCounter(b.kind) THEN @ ELSE 0,
                   !.pin = KeptPin(b.kind, @)]
<1>1. Constructed(kind, secret, algorithm, digits, period, counter, pin) = Build(b)
  BY DEF Constructed
<1>2. {"secret", "kind"} \subseteq DOMAIN d /\ d.secret = secret
  BY DEF Builder
<1>3. "secret" \in DOMAIN b /\ b.secret = secret
  <2> HIDE DEF d
  <2>. QED
    BY <1>2
<1> HIDE DEF b
<1>4. c.secret = secret
  BY <1>3
<1>5. \/ Build(b) = Err(CheckLen(b.secret)) /\ CheckLen(b.secret) # None
      \/ Build(b) = Err("InvalidDigits")
      \/ Build(b) = Err("InvalidPeriod")
      \/ Build(b) = Ok(c) /\ CheckLen(b.secret) = None
  <2>1. CASE CheckLen(b.secret) # None
    BY <2>1 DEF Build
  <2>2. CASE CheckLen(b.secret) = None
    BY <2>2 DEF Build
  <2>. QED
    BY <2>1, <2>2
<1>6. CheckLen(b.secret) # None => CheckLen(b.secret) \in OtpErrors
  BY DEF CheckLen, OtpErrors
<1>7. "InvalidDigits" \in OtpErrors /\ "InvalidPeriod" \in OtpErrors
  BY DEF OtpErrors
<1> HIDE DEF c
<1>. QED
  BY <1>1, <1>3, <1>4, <1>5, <1>6, <1>7, Results

\* A URI that is read has a checked secret.
LEMMA ParsedIsChecked ==
  ASSUME NEW uri
  PROVE  \/ \E e \in OtpErrors \cup UriErrors : ParseWithWarnings(uri) = Err(e)
         \/ \E u, w : ParseWithWarnings(uri) = Ok([uri |-> u, warnings |-> w]) /\ CheckLen(u.config.secret) = None
<1>1. ASSUME NEW u, NEW w, Reads(uri, u, w)
      PROVE  ParseWithWarnings(uri) = Ok([uri |-> u, warnings |-> w]) /\ CheckLen(u.config.secret) = None
  <2>1. ParseWithWarnings(uri) = Ok([uri |-> u, warnings |-> w]) /\ ConfigOk(u.config)
    BY <1>1 DEF Reads
  <2>2. MayBe(u.config.kind, "secret", u.config.secret)
    BY <2>1 DEF ConfigOk, ConfigFields
  <2>. QED
    BY <2>1, <2>2 DEF MayBe
<1>. QED
  BY <1>1, UriIsRead

LEMMA UriRow ==
  ASSUME NEW uri
  PROVE  IsMade(ItemFromUri(uri))
<1>1. CASE \E e \in OtpErrors \cup UriErrors : ParseWithWarnings(uri) = Err(e)
  <2>1. PICK e \in OtpErrors \cup UriErrors : ParseWithWarnings(uri) = Err(e)
    BY <1>1
  <2>2. ItemFromUri(uri) = Fail(e)
    BY <2>1, Results DEF ItemFromUri
  <2>. QED
    BY <2>2, FailedRow DEF RowErrors
<1>2. CASE \E u, w : ParseWithWarnings(uri) = Ok([uri |-> u, warnings |-> w]) /\ CheckLen(u.config.secret) = None
  <2>1. PICK u, w : ParseWithWarnings(uri) = Ok([uri |-> u, warnings |-> w]) /\ CheckLen(u.config.secret) = None
    BY <1>2
  <2> DEFINE p == [uri |-> u, warnings |-> w]
             x == {<<"Uri", n>> : n \in w \cap {"issuer", "fragment"}}
             y == IF u.extra # << >> THEN Dropped({"uri parameters"}) ELSE {}
             ws == Normalized((w \cap KnownParams) \ {"issuer"}) \cup x \cup y
  <2>2. ItemFromUri(uri) = Built(NewItem(u.config, u.issuer, u.account), ws)
    <3>1. p.uri = u /\ p.warnings = w
      OBVIOUS
    <3> HIDE DEF p
    <3>2. ParseWithWarnings(uri) = Ok(p)
      BY <2>1 DEF p
    <3>. QED
      BY <3>1, <3>2, Results DEF ItemFromUri
  <2>3. WarnsOk(x)
    BY DEF WarnsOk, ImportWarnings
  <2>4. WarnsOk(y)
    BY WarningsAre
  <2> HIDE DEF x, y
  <2>5. WarnsOk(ws)
    BY <2>3, <2>4, WarningsAre
  <2> HIDE DEF ws
  <2>. QED
    BY <2>1, <2>2, <2>5, BuiltRow DEF IsMade
<1>. QED
  BY <1>1, <1>2, ParsedIsChecked

\* config: the fields of a vendor.
LEMMA ConfigIsChecked ==
  ASSUME NEW f
  PROVE  \/ ~IsOk(Config(f)) /\ Config(f).err \in RowErrors
         \/ IsOk(Config(f)) /\ CheckLen(Config(f).ok.config.secret) = None /\ WarnsOk(Config(f).ok.warnings)
<1> DEFINE kind == IF f.kind = None THEN f.default_kind ELSE KindFromStr(f.kind)
           secret == IF f.secret_bytes # None THEN Ok(f.secret_bytes)
                     ELSE IF f.secret = None THEN Err("MissingField") ELSE DecodeSecret(kind, f.secret)
           built == Constructed(kind, secret.ok, f.algorithm, f.digits, f.period, OrElse(f.counter, 0), f.pin)
           ws == ConfigWarnings(kind, f)
           r == [config |-> built.ok, warnings |-> ws]
<1>1. {"MissingField", "InvalidField", "BadSecret"} \subseteq RowErrors /\ OtpErrors \subseteq RowErrors
  BY DEF RowErrors
<1>2. IsOk(secret) \/ (~IsOk(secret) /\ secret.err \in RowErrors)
  <2> HIDE DEF kind
  <2>. QED
    BY <1>1, Results DEF DecodeSecret
<1>3. \/ IsOk(built) /\ CheckLen(built.ok.secret) = None
      \/ ~IsOk(built) /\ built.err \in OtpErrors
  <2> HIDE DEF kind, secret
  <2>. QED
    BY ConstructedIsChecked
<1>4. WarnsOk(ws)
  <2> HIDE DEF kind
  <2>. QED
    BY WarningsAre DEF ConfigWarnings
<1>5. Config(f) = IF kind = None THEN Err("InvalidField")
                  ELSE IF ~IsOk(secret) THEN secret
                  ELSE IF f.algorithm \notin Algorithms \cup {None} THEN Err("InvalidField")
                  ELSE IF ~IsOk(built) THEN built
                  ELSE Ok(r)
  BY DEF Config
<1>6. r.config = built.ok /\ r.warnings = ws
  <2> HIDE DEF built, ws
  <2>. QED
    OBVIOUS
<1> HIDE DEF kind, secret, built, ws, r
<1>. QED
  BY <1>1, <1>2, <1>3, <1>4, <1>5, <1>6, Results

LEMMA FieldsRow ==
  ASSUME NEW f, NEW issuer, NEW account, NEW tags, NEW groupList, NEW more, WarnsOk(more)
  PROVE  IsMade(RowFrom(f, issuer, account, tags, groupList, more))
<1>1. CASE ~IsOk(Config(f))
  <2>1. Config(f).err \in RowErrors
    BY <1>1, ConfigIsChecked
  <2>2. RowFrom(f, issuer, account, tags, groupList, more) = Fail(Config(f).err)
    BY <1>1 DEF RowFrom
  <2>. QED
    BY <2>1, <2>2, FailedRow
<1>2. CASE IsOk(Config(f))
  <2> DEFINE c == Config(f).ok
             i == NewItem(c.config, issuer, account)
             j == [i EXCEPT !.tags = tags, !.groups = groupList]
             ws == c.warnings \cup more
  <2>1. CheckLen(c.config.secret) = None /\ WarnsOk(c.warnings)
    BY <1>2, ConfigIsChecked
  <2>2. RowFrom(f, issuer, account, tags, groupList, more) = Built(j, ws)
    BY <1>2 DEF RowFrom
  <2> HIDE DEF c
  <2>3. "otp" \in DOMAIN i /\ i.otp = c.config
    BY DEF NewItem
  <2> HIDE DEF i
  <2>4. "otp" \in DOMAIN j /\ j.otp = c.config
    BY <2>3
  <2>5. WarnsOk(ws)
    BY <2>1, WarningsAre
  <2> HIDE DEF j, ws
  <2>6. IsItem(Built(j, ws))
    BY <2>1, <2>4, <2>5 DEF IsItem, Built
  <2>. QED
    BY <2>2, <2>6 DEF IsMade
<1>. QED
  BY <1>1, <1>2

\* The errors that the readers name themselves.
LEMMA ReaderErrors ==
  /\ IsMade(Fail("MissingField")) /\ IsMade(Fail("InvalidField")) /\ IsMade(Fail("WrongShape"))
  /\ IsMade(Fail("Protobuf")) /\ IsMade(Fail("BadSecret")) /\ IsMade(Fail("FieldTooLong"))
  /\ \A e \in OtpErrors : IsMade(Fail(e))
  /\ \A reason \in SkipReasons : IsResult(Skip(reason))
  /\ \A r : IsMade(r) => IsResult(r)
<1>1. /\ {"MissingField", "InvalidField", "WrongShape", "Protobuf", "BadSecret", "FieldTooLong"} \subseteq RowErrors
      /\ OtpErrors \subseteq RowErrors
  BY DEF RowErrors
<1>. QED
  BY <1>1, FailedRow, SkippedRow DEF IsResult

LEMMA SkipNames ==
  {"NoOtpSecret", "UnsupportedAlgorithm", "UnsupportedType", "EncryptedSecret"} \subseteq SkipReasons
  BY DEF SkipReasons

LEMMA EnteRows ==
  ASSUME NEW row
  PROVE  IsMade(EnteRow(row))
<1> DEFINE r == ItemFromUri(row.uri)
           display == Get(row, "codeDisplay")
           less == [r EXCEPT !.warnings = @ \ Dropped({"uri parameters"})]
           trashed == Get(display, "trashed") = TRUE
           x == (IF trashed THEN {<<"ImportedAsArchived", "">>} ELSE {})
           y == (IF Get(display, "icon") # None THEN Dropped({"icon"}) ELSE {})
           tags == Truncated(OrElse(Get(display, "tags"), << >>))
<1>1. IsMade(r)
  BY UriRow
<1>2. EnteRow(row) = OnBuilt(r, LAMBDA built :
                       ApplyCodeDisplay([built EXCEPT !.warnings = @ \ Dropped({"uri parameters"})], display))
  BY DEF EnteRow
<1> HIDE DEF r, display
<1>3. CASE IsFailed(r)
  BY <1>2, <1>3 DEF OnBuilt, IsFailed, Fail, IsMade
<1>4. CASE IsItem(r)
  <2>1. EnteRow(row) = ApplyCodeDisplay(less, display)
    BY <1>2, <1>4, FailedIsNoItem DEF OnBuilt
  <2>2. IsItem(less)
    BY <1>4 DEF IsItem, WarnsOk
  <2>3. WarnsOk(x) /\ WarnsOk(y) /\ WarnsOk(Dropped({"codeDisplay"}))
    BY WarningsAre
  <2> HIDE DEF less
  <2>4. IsItem([less EXCEPT !.warnings = @ \cup Dropped({"codeDisplay"})])
    BY <2>2, <2>3 DEF IsItem, WarnsOk
  <2>5. IsItem([less EXCEPT !.item.tags = tags, !.item.archived = trashed, !.warnings = @ \cup x \cup y])
    <3> HIDE DEF tags, trashed, x, y
    <3>. QED
      BY <2>2, <2>3 DEF IsItem, WarnsOk
  <2>6. IsItem(ApplyCodeDisplay(less, display))
    BY <2>2, <2>4, <2>5 DEF ApplyCodeDisplay
  <2>. QED
    BY <2>1, <2>6 DEF IsMade
<1>. QED
  BY <1>1, <1>3, <1>4 DEF IsMade

LEMMA MigrationRows ==
  ASSUME NEW p
  PROVE  IsResult(MigrationRow(p))
<1> DEFINE algorithm == OrElse(Get(p, "algorithm"), 0)
           digits == OrElse(Get(p, "digits"), 0)
           kind == OrElse(Get(p, "type"), 0)
           counter == Get(p, "counter")
           built == Constructed(MigrationKind(kind), p.secret, MigrationAlgorithm(algorithm),
                                MigrationDigits(digits), None, OrElse(counter, 0), None)
           names == MigrationNames(p)
           ws == Assumed({n \in {"algorithm"} : algorithm = 0} \cup {n \in {"digits"} : digits = 0}
                           \cup {n \in {"counter"} : kind = 1 /\ counter = None})
           new == Built(NewItem(built.ok, names[1], names[2]), ws)
<1>1. \/ IsOk(built) /\ CheckLen(built.ok.secret) = None
      \/ ~IsOk(built) /\ built.err \in OtpErrors
  <2> HIDE DEF algorithm, digits, kind, counter
  <2>. QED
    BY ConstructedIsChecked
<1>2. MigrationRow(p) \in {Fail("Protobuf"), Skip("UnsupportedAlgorithm"), Fail("InvalidField"), Fail("MissingField")}
      \/ (~IsOk(built) /\ MigrationRow(p) = Fail(built.err))
      \/ (IsOk(built) /\ MigrationRow(p) = new)
  BY DEF MigrationRow
<1> HIDE DEF built
<1>3. WarnsOk(ws)
  BY WarningsAre
<1> HIDE DEF ws, names
<1>4. IsOk(built) => IsMade(new)
  BY <1>1, <1>3, BuiltRow, Results DEF IsMade
<1> HIDE DEF new
<1>. QED
  BY <1>1, <1>2, <1>4, ReaderErrors, SkipNames

LEMMA AegisRows ==
  ASSUME NEW e, NEW table
  PROVE  IsResult(AegisRow(e, table))
<1> DEFINE kind == KindFromStr(Get(e, "type"))
           f == [NoFields EXCEPT !.default_kind = kind, !.secret = e.info.secret,
                  !.algorithm = Get(e.info, "algo"), !.digits = Get(e.info, "digits"),
                  !.period = Get(e.info, "period"), !.counter = Get(e.info, "counter"),
                  !.pin = Name(e.info, "pin")]
           ws == IF Get(e, "icon") # None THEN Dropped({"icon"}) ELSE {}
           made == RowFrom(f, Name(e, "issuer"), OrElse(Name(e, "name"), << >>), << >>, EntryGroups(e, table), ws)
<1>1. AegisRow(e, table) \in {Fail("WrongShape"), Fail("MissingField"), Skip("UnsupportedType"), Fail("InvalidField"), made}
  BY DEF AegisRow
<1>2. WarnsOk(ws)
  BY WarningsAre
<1> HIDE DEF f, ws
<1>3. IsMade(made)
  BY <1>2, FieldsRow
<1> HIDE DEF made
<1>. QED
  BY <1>1, <1>3, ReaderErrors, SkipNames

LEMMA TwoFasRows ==
  ASSUME NEW s, NEW table
  PROVE  IsResult(TwoFasRow(s, table))
<1> DEFINE o == OrElse(Get(s, "otp"), [absent |-> TRUE])
           kind == IF Get(o, "tokenType") = None THEN "totp" ELSE KindFromStr(o.tokenType)
           number(field, width) == IF Fits(o, field, width) THEN Get(o, field) ELSE None
           f == [NoFields EXCEPT !.default_kind = kind, !.secret = s.secret,
                  !.algorithm = Get(o, "algorithm"), !.digits = number("digits", U8),
                  !.period = number("period", U16), !.counter = number("counter", U64)]
           made == RowFrom(f, OrElse(Name(s, "name"), Name(o, "issuer")),
                           OrElse(OrElse(Name(o, "account"), Name(o, "label")), << >>),
                           << >>, GroupNamed(table, Get(s, "groupId")), {})
<1>1. TwoFasRow(s, table) \in {Fail("WrongShape"), Skip("UnsupportedType"), Fail("MissingField"), made}
  BY DEF TwoFasRow
<1> HIDE DEF f, o
<1>2. IsMade(made)
  BY WarningsAre, FieldsRow
<1> HIDE DEF made
<1>. QED
  BY <1>1, <1>2, ReaderErrors, SkipNames

LEMMA AndOtpRows ==
  ASSUME NEW e
  PROVE  IsResult(AndOtpRow(e))
<1> DEFINE kind == IF Get(e, "type") = None THEN "totp" ELSE KindFromStr(e.type)
           label == OrElse(Name(e, "label"), << >>)
           names == IF Name(e, "issuer") # None THEN <<e.issuer, label>> ELSE SplitLabel(label)
           f == [NoFields EXCEPT !.default_kind = kind, !.secret = e.secret,
                  !.algorithm = Get(e, "algorithm"), !.digits = Get(e, "digits"),
                  !.period = Get(e, "period"), !.counter = Get(e, "counter"), !.pin = Name(e, "pin")]
           made == RowFrom(f, names[1], names[2], Truncated(OrElse(Get(e, "tags"), << >>)), << >>, {})
<1>1. AndOtpRow(e) \in {Fail("WrongShape"), Skip("UnsupportedType"), Fail("MissingField"), Fail("InvalidField"), made}
  BY DEF AndOtpRow
<1> HIDE DEF f, names
<1>2. IsMade(made)
  BY WarningsAre, FieldsRow
<1> HIDE DEF made
<1>. QED
  BY <1>1, <1>2, ReaderErrors, SkipNames

LEMMA RaivoRows ==
  ASSUME NEW e
  PROVE  IsResult(RaivoRow(e))
<1> DEFINE kind == IF Get(e, "kind") = None THEN "totp" ELSE KindFromStr(e.kind)
           f == [NoFields EXCEPT !.default_kind = kind, !.secret = e.secret,
                  !.algorithm = Get(e, "algorithm"), !.digits = Get(e, "digits"),
                  !.period = Get(e, "timer"), !.counter = Get(e, "counter"), !.pin = Name(e, "pin")]
           made == RowFrom(f, Name(e, "issuer"), OrElse(Name(e, "account"), << >>), << >>, << >>, {})
<1>1. RaivoRow(e) \in {Fail("WrongShape"), Skip("UnsupportedType"), Fail("MissingField"), Fail("InvalidField"), made}
  BY DEF RaivoRow
<1> HIDE DEF f
<1>2. IsMade(made)
  BY WarningsAre, FieldsRow
<1> HIDE DEF made
<1>. QED
  BY <1>1, <1>2, ReaderErrors, SkipNames

LEMMA LastPassRows ==
  ASSUME NEW a, NEW table
  PROVE  IsResult(LastPassRow(a, table))
<1> DEFINE f == [NoFields EXCEPT !.secret = a.secret, !.algorithm = Get(a, "algorithm"),
                  !.digits = Get(a, "digits"), !.period = Get(a, "timeStep")]
           made == RowFrom(f, OrElse(Name(a, "issuerName"), Name(a, "originalIssuerName")),
                           OrElse(OrElse(Name(a, "userName"), Name(a, "originalUserName")), << >>),
                           << >>, GroupNamed(table, Get(a, "folderId")), {})
<1>1. LastPassRow(a, table) \in {Fail("WrongShape"), Fail("MissingField"), Fail("InvalidField"), made}
  BY DEF LastPassRow
<1> HIDE DEF f
<1>2. IsMade(made)
  BY WarningsAre, FieldsRow
<1> HIDE DEF made
<1>. QED
  BY <1>1, <1>2, ReaderErrors

LEMMA AuthyRows ==
  ASSUME NEW t
  PROVE  IsResult(AuthyRow(t))
<1> DEFINE seed == OrElse(OrElse(Get(t, "decryptedSeed"), Get(t, "secretSeed")), Get(t, "secret"))
           bytes == DecodeSeed(seed)
           period == IF Get(t, "period") = None /\ IsAuthyNative(t) THEN AuthyNativePeriod ELSE Get(t, "period")
           name == OrElse(Name(t, "name"), Name(t, "originalName"))
           split == SplitLabel(OrElse(OrElse(Name(t, "original_name"), Name(t, "originalName")), << >>))
           f == [NoFields EXCEPT !.secret_bytes = bytes.ok[1], !.digits = Get(t, "digits"), !.period = period]
           ws == Assumed({n \in {"secret encoding"} : bytes.ok[2]}
                           \cup {n \in {"period"} : IsAuthyNative(t) /\ Get(t, "period") = None})
           made == RowFrom(f, OrElse(OrElse(Name(t, "issuer"), name), split[1]), split[2], << >>, << >>, ws)
<1>1. \/ AuthyRow(t) \in {Fail("WrongShape"), Skip("EncryptedSecret"), Fail("MissingField"), Fail("InvalidField"), made}
      \/ ~IsOk(bytes) /\ AuthyRow(t) = Fail(bytes.err)
  BY DEF AuthyRow
<1>2. ~IsOk(bytes) => bytes.err = "BadSecret"
  <2> HIDE DEF seed
  <2>. QED
    BY Results DEF DecodeSeed
<1> HIDE DEF bytes
<1>3. WarnsOk(ws)
  BY WarningsAre
<1> HIDE DEF f, ws, split, name
<1>4. IsMade(made)
  BY <1>3, FieldsRow
<1> HIDE DEF made
<1>. QED
  BY <1>1, <1>2, <1>4, ReaderErrors, SkipNames

LEMMA FreeOtpRows ==
  ASSUME NEW t, NEW key
  PROVE  IsResult(FreeOtpRow(t, key))
<1> DEFINE kind == IF Get(t, "type") = None THEN "totp" ELSE KindFromStr(t.type)
           label == IF key = None THEN <<None, None>> ELSE SplitLabel(key)
           bytes == Get(t, "secretBytes")
           f == [NoFields EXCEPT !.default_kind = kind, !.secret = Get(t, "secret"),
                  !.secret_bytes = IF bytes = None THEN None ELSE SignedBytes(bytes),
                  !.algorithm = Get(t, "algo"), !.digits = Get(t, "digits"), !.period = Get(t, "period"),
                  !.counter = NextCounter(kind, Get(t, "counter"))]
           made == RowFrom(f, OrElse(OrElse(Name(t, "issuerExt"), Name(t, "issuerInt")), label[1]),
                           OrElse(OrElse(Name(t, "label"), label[2]), << >>), << >>, << >>, {})
<1>1. FreeOtpRow(t, key) \in {Skip("NoOtpSecret"), Fail("InvalidField"), made}
  BY DEF FreeOtpRow
<1> HIDE DEF f, label
<1>2. IsMade(made)
  BY WarningsAre, FieldsRow
<1> HIDE DEF made
<1>. QED
  BY <1>1, <1>2, ReaderErrors, SkipNames

LEMMA FreeOtpMapRows ==
  ASSUME NEW row
  PROVE  IsResult(FreeOtpMapRow(row))
  BY FreeOtpRows, ReaderErrors, SkipNames DEF FreeOtpMapRow

LEMMA BareSecrets ==
  ASSUME NEW secret, NEW kind, NEW title, NEW username, NEW ws, WarnsOk(ws)
  PROVE  IsMade(BareSecret(secret, kind, title, username, ws))
<1> DEFINE built == Build(Builder(kind, secret.pct))
           made == Built(NewItem(built.ok, title, OrElse(username, << >>)), ws)
<1>1. \/ IsOk(built) /\ CheckLen(built.ok.secret) = None
      \/ ~IsOk(built) /\ built.err \in OtpErrors
  <2> DEFINE b == Builder(kind, secret.pct)
             c == Constructed(kind, secret.pct, None, None, None, 0, None)
             d == [b EXCEPT !.algorithm = None, !.digits = None, !.period = None, !.counter = 0, !.pin = None]
  <2>1. b = d
    <3>1. /\ b = [f \in DOMAIN b |-> b[f]] /\ b.algorithm = None /\ b.digits = None /\ b.period = None
          /\ b.counter = 0 /\ b.pin = None
      BY DEF Builder
    <3> HIDE DEF b
    <3>2. DOMAIN d = DOMAIN b /\ d = [f \in DOMAIN b |-> d[f]] /\ \A f \in DOMAIN b : d[f] = b[f]
      BY <3>1
    <3> HIDE DEF d
    <3>. QED
      BY <3>1, <3>2
  <2>2. c = built
    BY <2>1 DEF Constructed
  <2>3. \/ IsOk(c) /\ CheckLen(c.ok.secret) = None
        \/ ~IsOk(c) /\ c.err \in OtpErrors
    BY ConstructedIsChecked
  <2>. QED
    BY <2>2, <2>3
<1>2. \/ BareSecret(secret, kind, title, username, ws) = Fail("BadSecret")
      \/ ~IsOk(built) /\ BareSecret(secret, kind, title, username, ws) = Fail(built.err)
      \/ IsOk(built) /\ BareSecret(secret, kind, title, username, ws) = made
  BY DEF BareSecret
<1> HIDE DEF built
<1>3. IsOk(built) => IsMade(made)
  BY <1>1, BuiltRow DEF IsMade
<1> HIDE DEF made
<1>. QED
  BY <1>1, <1>2, <1>3, ReaderErrors

LEMMA TotpFields ==
  ASSUME NEW raw, NEW name, NEW username
  PROVE  IsMade(TotpField(raw, name, username))
<1> DEFINE r == ItemFromUri(raw.uri)
           made == [r EXCEPT !.item.issuer = OrElse(@, name),
                             !.item.account = IF @ = << >> THEN OrElse(username, << >>) ELSE @]
           fromUri == OnBuilt(r, LAMBDA built :
                        [built EXCEPT !.item.issuer = OrElse(@, name),
                                      !.item.account = IF @ = << >> THEN OrElse(username, << >>) ELSE @])
           steam == BareSecret(raw.steam, "steam", name, username, {})
           bare == BareSecret(raw.secret, "totp", name, username, Assumed({"algorithm", "digits", "period"}))
<1>1. TotpField(raw, name, username) \in {fromUri, steam, bare, Fail("InvalidField")}
  BY DEF TotpField
<1>2. IsMade(steam) /\ IsMade(bare)
  BY BareSecrets, WarningsAre
<1>3. IsMade(fromUri)
  <2>1. IsMade(r)
    BY UriRow
  <2> HIDE DEF r
  <2>2. CASE IsFailed(r)
    BY <2>2 DEF OnBuilt, IsFailed, Fail, IsMade
  <2>3. CASE IsItem(r)
    <3>1. fromUri = made
      BY <2>3, FailedIsNoItem DEF OnBuilt
    <3>2. IsItem(made)
      BY <2>3 DEF IsItem
    <3>. QED
      BY <3>1, <3>2 DEF IsMade
  <2>. QED
    BY <2>1, <2>2, <2>3 DEF IsMade
<1> HIDE DEF fromUri, steam, bare
<1>. QED
  BY <1>1, <1>2, <1>3, ReaderErrors

LEMMA BitwardenRows ==
  ASSUME NEW i, NEW table
  PROVE  IsResult(BitwardenRow(i, table))
<1> DEFINE r == TotpField(i.login.totp, Name(i, "name"), OrElse(Name(i.login, "username"), Name(i.login, "email")))
           ws == IF Get(i, "organizationId") # None THEN Dropped({"organizationId"}) ELSE {}
           made == [r EXCEPT !.item.groups = GroupNamed(table, Get(i, "folderId")), !.warnings = @ \cup ws]
           row == OnBuilt(r, LAMBDA built :
                    [built EXCEPT !.item.groups = GroupNamed(table, Get(i, "folderId")),
                                  !.warnings = @ \cup IF Get(i, "organizationId") # None
                                                      THEN Dropped({"organizationId"}) ELSE {}])
<1>1. BitwardenRow(i, table) \in {Fail("WrongShape"), Fail("InvalidField"), Skip("NoOtpSecret"), row}
  BY DEF BitwardenRow
<1>2. IsMade(r)
  BY TotpFields
<1> HIDE DEF r
<1>3. IsMade(row)
  <2>1. CASE IsFailed(r)
    BY <2>1 DEF OnBuilt, IsFailed, Fail, IsMade
  <2>2. CASE IsItem(r)
    <3>1. row = made
      BY <2>2, FailedIsNoItem DEF OnBuilt
    <3>2. WarnsOk(ws)
      BY WarningsAre
    <3> HIDE DEF ws
    <3>3. IsItem(made)
      BY <2>2, <3>2 DEF IsItem, WarnsOk
    <3>. QED
      BY <3>1, <3>3 DEF IsMade
  <2>. QED
    BY <1>2, <2>1, <2>2 DEF IsMade
<1> HIDE DEF row
<1>. QED
  BY <1>1, <1>3, ReaderErrors, SkipNames

LEMMA ProtonIsMade ==
  ASSUME NEW i, NEW source, NEW vaultName
  PROVE  IsResult(ProtonRow(i, source, vaultName))
<1> DEFINE r == TotpField(source, Name(i, "name"), Name(i, "email"))
           trashed == Get(i, "state") = 2
           ws == IF trashed THEN {<<"ImportedAsArchived", "">>} ELSE {}
           groupList == IF vaultName = None THEN << >> ELSE <<vaultName>>
           made == [r EXCEPT !.item.groups = groupList, !.item.archived = trashed, !.warnings = @ \cup ws]
<1>1. IsMade(r)
  BY TotpFields
<1>2. ProtonRow(i, source, vaultName) = OnBuilt(r, LAMBDA built :
        [built EXCEPT !.item.groups = groupList, !.item.archived = trashed, !.warnings = @ \cup ws])
  BY DEF ProtonRow
<1>3. WarnsOk(ws)
  BY WarningsAre
<1> HIDE DEF r, ws, groupList, trashed
<1>4. CASE IsFailed(r)
  BY <1>2, <1>4, ReaderErrors DEF OnBuilt, IsFailed, Fail, IsMade
<1>5. CASE IsItem(r)
  <2>1. ProtonRow(i, source, vaultName) = made
    BY <1>2, <1>5, FailedIsNoItem DEF OnBuilt
  <2>2. IsItem(made)
    BY <1>3, <1>5 DEF IsItem, WarnsOk
  <2>. QED
    BY <2>1, <2>2 DEF IsMade, IsResult
<1>. QED
  BY <1>1, <1>4, <1>5 DEF IsMade

LEMMA KeeOtps ==
  ASSUME NEW value, NEW title, NEW username
  PROVE  IsMade(KeeOtp(value, title, username))
<1> DEFINE digits == IF Fits(value, "size", U8) THEN Get(value, "size") ELSE None
           period == IF Fits(value, "step", U16) THEN Get(value, "step") ELSE None
           built == Constructed("totp", value.key.pct, None, digits, period, 0, None)
           ws == Assumed({n \in {"digits"} : digits = None} \cup {n \in {"period"} : period = None})
           made == Built(NewItem(built.ok, title, OrElse(username, << >>)), ws)
<1>1. \/ IsOk(built) /\ CheckLen(built.ok.secret) = None
      \/ ~IsOk(built) /\ built.err \in OtpErrors
  <2> HIDE DEF digits, period
  <2>. QED
    BY ConstructedIsChecked
<1>2. \/ KeeOtp(value, title, username) \in {Fail("MissingField"), Fail("BadSecret")}
      \/ ~IsOk(built) /\ KeeOtp(value, title, username) = Fail(built.err)
      \/ IsOk(built) /\ KeeOtp(value, title, username) = made
  BY DEF KeeOtp
<1>3. WarnsOk(ws)
  BY WarningsAre
<1> HIDE DEF built, ws
<1>4. IsOk(built) => IsMade(made)
  BY <1>1, <1>3, BuiltRow DEF IsMade
<1> HIDE DEF made
<1>. QED
  BY <1>1, <1>2, <1>4, ReaderErrors

LEMMA KeeLegacies ==
  ASSUME NEW seed, NEW settings, NEW title, NEW username
  PROVE  IsMade(KeeLegacy(seed, settings, title, username))
<1> DEFINE period == IF settings = None THEN None
                     ELSE IF Fits(settings, "period", U16) THEN Get(settings, "period") ELSE None
           kind == IF settings = None THEN "totp" ELSE IF "steam" \in DOMAIN settings THEN "steam" ELSE "totp"
           digits == IF settings = None \/ kind = "steam" THEN None
                     ELSE IF Fits(settings, "digits", U8) THEN Get(settings, "digits") ELSE None
           built == Constructed(kind, seed.pct, None, digits, period, 0, None)
           ws == Assumed({n \in {"TOTP Settings"} : settings = None}
                           \cup {n \in {"digits"} : digits = None /\ kind = "totp"})
           made == Built(NewItem(built.ok, title, OrElse(username, << >>)), ws)
<1>1. \/ IsOk(built) /\ CheckLen(built.ok.secret) = None
      \/ ~IsOk(built) /\ built.err \in OtpErrors
  <2> HIDE DEF digits, period, kind
  <2>. QED
    BY ConstructedIsChecked
<1>2. \/ KeeLegacy(seed, settings, title, username) \in {Fail("InvalidField"), Fail("BadSecret")}
      \/ ~IsOk(built) /\ KeeLegacy(seed, settings, title, username) = Fail(built.err)
      \/ IsOk(built) /\ KeeLegacy(seed, settings, title, username) = made
  BY DEF KeeLegacy
<1>3. WarnsOk(ws)
  BY WarningsAre
<1> HIDE DEF built, ws
<1>4. IsOk(built) => IsMade(made)
  BY <1>1, <1>3, BuiltRow DEF IsMade
<1> HIDE DEF made
<1>. QED
  BY <1>1, <1>2, <1>4, ReaderErrors

LEMMA KeePassRows ==
  ASSUME NEW row
  PROVE  IsResult(KeePassRow(row))
<1> DEFINE title == Get(row.entry, "Title")
           username == Get(row.entry, "UserName")
           otpField == Get(row.entry, "otp")
           a == KeeLegacy(row.entry["TOTP Seed"], Get(row.entry, "TOTP Settings"), title, username)
           b == KeeOtp(otpField.keeotp, title, username)
           c == TotpField(otpField, title, username)
           r == IF otpField = None THEN a ELSE IF "keeotp" \in DOMAIN otpField THEN b ELSE c
           groupList == SelectSeq(row.groups, LAMBDA g : g \notin {<< >>, RootName})
           made == [r EXCEPT !.item.groups = groupList]
<1>1. KeePassRow(row) = Skip("NoOtpSecret")
      \/ KeePassRow(row) = OnBuilt(r, LAMBDA built : [built EXCEPT !.item.groups = groupList])
  BY DEF KeePassRow
<1>2. IsMade(a) /\ IsMade(b) /\ IsMade(c)
  BY KeeLegacies, KeeOtps, TotpFields
<1>3. IsMade(r)
  <2> HIDE DEF a, b, c, otpField
  <2>. QED
    BY <1>2
<1> HIDE DEF r, groupList
<1>4. CASE IsFailed(r)
  BY <1>1, <1>4, ReaderErrors, SkipNames DEF OnBuilt, IsFailed, Fail, IsMade
<1>5. CASE IsItem(r)
  <2>1. KeePassRow(row) \in {Skip("NoOtpSecret"), made}
    BY <1>1, <1>5, FailedIsNoItem DEF OnBuilt
  <2>2. IsItem(made)
    BY <1>5 DEF IsItem
  <2> HIDE DEF made
  <2>. QED
    BY <2>1, <2>2, ReaderErrors, SkipNames DEF IsMade
<1>. QED
  BY <1>3, <1>4, <1>5 DEF IsMade

LEMMA GenericRows ==
  ASSUME NEW row, NEW mapping
  PROVE  IsResult(GenericRow(row, mapping))
<1> DEFINE field(name) == IF name \in DOMAIN mapping THEN Get(row, mapping[name]) ELSE None
           named(name) == IF field(name) = << >> THEN None ELSE field(name)
           tags == Truncated(OrElse(field("tags"), << >>))
           groupList == IF named("group") = None THEN << >> ELSE <<field("group")>>
           r == ItemFromUri(field("uri"))
           n == [r EXCEPT !.item.issuer = OrElse(@, named("issuer")),
                          !.item.account = IF @ = << >> THEN OrElse(field("account"), << >>) ELSE @]
           f == [NoFields EXCEPT !.kind = field("kind"), !.secret = field("secret"),
                          !.algorithm = field("algorithm"), !.digits = field("digits"),
                          !.period = field("period"), !.counter = field("counter"), !.pin = named("pin")]
           s == RowFrom(f, named("issuer"), OrElse(field("account"), << >>), << >>, << >>, {})
           fromUri == OnBuilt(r, LAMBDA built :
             [[built EXCEPT !.item.issuer = OrElse(@, named("issuer")),
                 !.item.account = IF @ = << >> THEN OrElse(field("account"), << >>) ELSE @]
              EXCEPT !.item.tags = tags, !.item.groups = groupList])
           fromFields == OnBuilt(s, LAMBDA built : [built EXCEPT !.item.tags = tags, !.item.groups = groupList])
<1>1. GenericRow(row, mapping) \in {fromUri, Skip("NoOtpSecret"), Fail("InvalidField"), fromFields}
  BY DEF GenericRow
<1>2. IsMade(r)
  BY UriRow
<1>3. IsMade(s)
  <2> HIDE DEF f, named, field
  <2>. QED
    BY FieldsRow, WarningsAre
<1>4. IsMade(fromUri)
  <2> HIDE DEF r, tags, groupList, named, field
  <2>1. CASE IsFailed(r)
    BY <2>1 DEF OnBuilt, IsFailed, Fail, IsMade
  <2>2. CASE IsItem(r)
    <3>1. fromUri = [n EXCEPT !.item.tags = tags, !.item.groups = groupList]
      BY <2>2, FailedIsNoItem DEF OnBuilt
    <3>2. IsItem(n)
      BY <2>2 DEF IsItem
    <3> HIDE DEF n
    <3>3. IsItem([n EXCEPT !.item.tags = tags, !.item.groups = groupList])
      BY <3>2 DEF IsItem
    <3>. QED
      BY <3>1, <3>3 DEF IsMade
  <2>. QED
    BY <1>2, <2>1, <2>2 DEF IsMade
<1>5. IsMade(fromFields)
  <2> HIDE DEF s, tags, groupList
  <2>1. CASE IsFailed(s)
    BY <2>1 DEF OnBuilt, IsFailed, Fail, IsMade
  <2>2. CASE IsItem(s)
    <3>1. fromFields = [s EXCEPT !.item.tags = tags, !.item.groups = groupList]
      BY <2>2, FailedIsNoItem DEF OnBuilt
    <3>2. IsItem([s EXCEPT !.item.tags = tags, !.item.groups = groupList])
      BY <2>2 DEF IsItem
    <3>. QED
      BY <3>1, <3>2 DEF IsMade
  <2>. QED
    BY <1>3, <2>1, <2>2 DEF IsMade
<1> HIDE DEF fromUri, fromFields
<1>. QED
  BY <1>1, <1>4, <1>5, ReaderErrors, SkipNames

(***************************************************************************)
(* The lists the readers make.                                             *)
(***************************************************************************)
LEMMA ChosenRuns ==
  ASSUME NEW list, NEW places, Len(list) \in Nat
  PROVE  \E f : /\ f[0] = << >> /\ Chosen(list, places) = f[Len(list)]
                /\ \A k \in Nat : k < Len(list) =>
                     f[k + 1] = IF k + 1 \in places THEN Append(f[k], list[k + 1]) ELSE f[k]
<1> DEFINE a == Len(list)
           Turn(e, k) == IF k \in places THEN Append(e, list[k]) ELSE e
           Loops(n, f) == f = [k \in 0 .. n |-> IF k = 0 THEN << >> ELSE Turn(f[k - 1], k)]
           T == {n \in Nat : \E f : Loops(n, f)}
<1>1. 0 \in T
  <2>1. Loops(0, [k \in 0 .. 0 |-> << >>])
    OBVIOUS
  <2> HIDE DEF Loops
  <2>. QED
    BY <2>1
<1>2. ASSUME NEW n \in Nat, n \in T PROVE n + 1 \in T
  <2>1. PICK f : Loops(n, f)
    BY <1>2
  <2> DEFINE g == [k \in 0 .. n + 1 |-> IF k = n + 1 THEN Turn(f[n], n + 1) ELSE f[k]]
  <2> HIDE DEF Turn
  <2>2. \A k \in 0 .. n + 1 : g[k] = IF k = 0 THEN << >> ELSE Turn(g[k - 1], k)
    BY <2>1
  <2>3. Loops(n + 1, g)
    BY <2>2
  <2> HIDE DEF Loops, g
  <2>. QED
    BY <2>3
<1>3. \E f : Loops(a, f)
  <2>0. a \in Nat
    OBVIOUS
  <2>1. \A k \in Nat : k < a /\ k \in T => k + 1 \in T
    <3> HIDE DEF T
    <3>. QED
      BY <1>2
  <2> HIDE DEF T, a
  <2>2. \A k \in 0 .. a : k \in T
    BY <1>1, <2>0, <2>1, StepByStep
  <2>3. a \in T
    BY <2>0, <2>2
  <2>. QED
    BY <2>3 DEF T
<1>4. PICK f : Loops(a, f) /\ Chosen(list, places) = f[a]
  <2>1. Chosen(list, places) = (CHOOSE f : Loops(a, f))[a]
    BY DEF Chosen
  <2> HIDE DEF Loops
  <2>. QED
    BY <1>3, <2>1
<1>5. f[0] = << >>
  BY <1>4
<1>6. ASSUME NEW k \in Nat, k < a PROVE f[k + 1] = Turn(f[k], k + 1)
  <2>1. k + 1 \in 0 .. a /\ k + 1 # 0 /\ (k + 1) - 1 = k
    BY <1>6
  <2> HIDE DEF Turn, a
  <2>. QED
    BY <1>4, <2>1
<1>. QED
  BY <1>4, <1>5, <1>6

LEMMA ChosenAreOfList ==
  ASSUME NEW list, list \in Seq(ToSet(list)), NEW places
  PROVE  Chosen(list, places) \in Seq({list[i] : i \in {j \in DOMAIN list : j \in places}})
<1> DEFINE a == Len(list)
           X == {list[i] : i \in {j \in DOMAIN list : j \in places}}
<1>1. a \in Nat /\ DOMAIN list = 1 .. a
  BY LenProperties
<1>2. PICK f : /\ f[0] = << >> /\ Chosen(list, places) = f[a]
               /\ \A k \in Nat : k < a => f[k + 1] = IF k + 1 \in places THEN Append(f[k], list[k + 1]) ELSE f[k]
  BY <1>1, ChosenRuns
<1> DEFINE T == {k \in Nat : f[k] \in Seq(X)}
<1>3. \A k \in 1 .. a : k \in places => list[k] \in X
  BY <1>1
<1> HIDE DEF X
<1>4. 0 \in T
  <2>1. << >> \in Seq(X)
    OBVIOUS
  <2>. QED
    BY <1>2, <2>1
<1>5. ASSUME NEW k \in Nat, k < a, f[k] \in Seq(X) PROVE f[k + 1] \in Seq(X)
  <2>1. k + 1 \in 1 .. a
    BY <1>1, <1>5
  <2>2. CASE k + 1 \notin places
    BY <1>2, <1>5, <2>2
  <2>3. CASE k + 1 \in places
    <3>1. f[k + 1] = Append(f[k], list[k + 1]) /\ list[k + 1] \in X
      BY <1>2, <1>3, <1>5, <2>1, <2>3
    <3>. QED
      BY <1>5, <3>1, AppendProperties
  <2>. QED
    BY <2>2, <2>3
<1>6. \A k \in Nat : k < a /\ k \in T => k + 1 \in T
  BY <1>5
<1> HIDE DEF T
<1>7. \A k \in 0 .. a : k \in T
  BY <1>1, <1>4, <1>6, StepByStep
<1>8. a \in T
  BY <1>1, <1>7
<1>. QED
  BY <1>2, <1>8 DEF T, X

LEMMA TruncatedList ==
  ASSUME NEW list, list \in Seq(ToSet(list)), NEW n \in Nat
  PROVE  SubSeq(list, 1, IF Len(list) < n THEN Len(list) ELSE n) \in Seq(ToSet(list))
<1>1. Len(list) \in Nat
  BY LenProperties
<1>2. (IF Len(list) < n THEN Len(list) ELSE n) \in 0 .. Len(list)
  BY <1>1
<1> DEFINE m == IF Len(list) < n THEN Len(list) ELSE n
<1> HIDE DEF m
<1>3. m \in 0 .. Len(list)
  BY <1>2 DEF m
<1>4. SubSeq(list, 1, m) \in Seq(ToSet(list))
  BY <1>1, <1>3
<1>. QED
  BY <1>4 DEF m

\* The results of a row.
AreResults(rs) == rs \in Seq(ToSet(rs)) /\ \A i \in 1 .. Len(rs) : IsResult(rs[i])

LEMMA OneResult ==
  ASSUME NEW r, IsResult(r)
  PROVE  AreResults(<<r>>) /\ Len(<<r>>) = 1
<1>1. <<r>> \in Seq({r}) /\ Len(<<r>>) = 1 /\ <<r>>[1] = r
  OBVIOUS
<1> DEFINE s == <<r>>
<1> HIDE DEF s
<1>2. s \in Seq({r}) /\ Len(s) = 1 /\ s[1] = r
  BY <1>1 DEF s
<1>3. AreResults(s)
  BY <1>2, OwnList DEF AreResults
<1>. QED
  BY <1>1, <1>3 DEF s

LEMMA ManyResults ==
  ASSUME NEW list, list \in Seq(ToSet(list)), NEW rs, DOMAIN rs = DOMAIN list, rs = [i \in DOMAIN list |-> rs[i]],
         \A i \in DOMAIN list : IsResult(rs[i])
  PROVE  AreResults(rs)
<1>1. Len(list) \in Nat /\ DOMAIN list = 1 .. Len(list)
  BY LenProperties
<1> DEFINE n == Len(list)
           X == {rs[i] : i \in 1 .. n}
<1> HIDE DEF n
<1>2. n \in Nat /\ DOMAIN rs = 1 .. n /\ rs \in [1 .. n -> X] /\ \A i \in 1 .. n : IsResult(rs[i])
  BY <1>1 DEF n
<1> HIDE DEF X
<1>3. rs \in Seq(X) /\ Len(rs) = n
  BY <1>2, LenProperties
<1>. QED
  BY <1>2, <1>3, OwnList DEF AreResults

LEMMA NoResults == AreResults(<< >>) /\ Len(<< >>) = 0
<1>1. << >> \in Seq({}) /\ Len(<< >>) = 0
  OBVIOUS
<1> DEFINE s == << >>
<1> HIDE DEF s
<1>2. s \in Seq({}) /\ Len(s) = 0
  BY <1>1 DEF s
<1>3. AreResults(s)
  BY <1>2, OwnList DEF AreResults
<1>. QED
  BY <1>1, <1>3 DEF s

LEMMA ProtonRowsAre ==
  ASSUME NEW i, NEW vaultName, Get(i, "extraFields") # None => i.extraFields \in Seq(ToSet(i.extraFields))
  PROVE  AreResults(ProtonRows(i, vaultName))
<1> DEFINE given_ == OrElse(Get(i, "extraFields"), << >>)
           extra == Truncated(given_)
           places == {n \in DOMAIN extra : "other" \notin DOMAIN extra[n]}
           a == IF Get(i, "totpUri") # None THEN <<i.totpUri>> ELSE << >>
           b == Chosen(extra, places)
           s == ProtonSources(i)
           rs == [n \in DOMAIN s |-> ProtonRow(i, s[n], vaultName)]
<1>1. given_ \in Seq(ToSet(given_))
  <2>1. CASE Get(i, "extraFields") = None
    <3>1. given_ = << >> /\ << >> \in Seq({})
      BY <2>1 DEF OrElse
    <3> HIDE DEF given_
    <3>. QED
      BY <3>1, OwnList
  <2>2. CASE Get(i, "extraFields") # None
    <3>1. given_ = i.extraFields
      BY <2>2 DEF OrElse, Get
    <3>. QED
      BY <2>2, <3>1
  <2>. QED
    BY <2>1, <2>2
<1> HIDE DEF given_
<1>2. extra \in Seq(ToSet(extra))
  <2>1. MaxTags \in Nat
    BY FilesAssumption
  <2>2. extra \in Seq(ToSet(given_))
    BY <1>1, <2>1, TruncatedList DEF Truncated
  <2> HIDE DEF extra
  <2>. QED
    BY <2>2, OwnList
<1> HIDE DEF extra
<1>3. b \in Seq(ToSet(b))
  <2>1. b \in Seq({extra[n] : n \in {j \in DOMAIN extra : j \in places}})
    <3> HIDE DEF places
    <3>. QED
      BY <1>2, ChosenAreOfList
  <2> HIDE DEF b
  <2>. QED
    BY <2>1, OwnList
<1> HIDE DEF b
<1>4. a \in Seq(ToSet(a))
  <2>1. << >> \in Seq({i.totpUri}) /\ <<i.totpUri>> \in Seq({i.totpUri})
    OBVIOUS
  <2>2. a \in {<< >>, <<i.totpUri>>}
    OBVIOUS
  <2> HIDE DEF a
  <2>3. a \in Seq({i.totpUri})
    BY <2>1, <2>2
  <2>. QED
    BY <2>3, OwnList
<1>5. s = a \o b
  BY DEF ProtonSources, b, extra, given_
<1> HIDE DEF a
<1>6. s \in Seq(ToSet(s))
  BY <1>3, <1>4, <1>5, JoinedLists
<1>7. AreResults(rs)
  <2> HIDE DEF s
  <2>1. DOMAIN rs = DOMAIN s /\ rs = [n \in DOMAIN s |-> rs[n]] /\ \A n \in DOMAIN s : rs[n] = ProtonRow(i, s[n], vaultName)
    OBVIOUS
  <2> HIDE DEF rs
  <2>2. \A n \in DOMAIN s : IsResult(rs[n])
    BY <2>1, ProtonIsMade
  <2>. QED
    BY <1>6, <2>1, <2>2, ManyResults
<1>8. AreResults(<<Fail("WrongShape")>>) /\ AreResults(<<Skip("NoOtpSecret")>>)
  BY OneResult, ReaderErrors, SkipNames
<1>9. ProtonRows(i, vaultName) \in {<<Fail("WrongShape")>>, <<Skip("NoOtpSecret")>>, rs}
  BY DEF ProtonRows
<1> HIDE DEF rs
<1>. QED
  BY <1>7, <1>8, <1>9

\* What the readers are given of a row: lists are lists.
RowTyped(format, row) ==
  /\ format = "proton" => (Get(row, "extraFields") # None => row.extraFields \in Seq(ToSet(row.extraFields)))
  /\ format = "migration" =>
       IF "payload" \in DOMAIN row
       THEN /\ row.payload.parts \in Seq(ToSet(row.payload.parts))
            /\ row.payload.index \in Nat /\ row.payload.total \in Nat
       ELSE row.broken \in ImportErrors

LEMMA ReadIsList ==
  ASSUME NEW f, NEW format \in SourceFormats, NEW row, RowTyped(format, row)
  PROVE  /\ AreResults(Read(f, format, row))
         /\ format \notin {"proton", "migration"} => Len(Read(f, format, row)) <= 1
<1> DEFINE table == OrElse(Get(f, "groups"), [id \in {} |-> id])
           Fine(rs) == AreResults(rs) /\ Len(rs) = 1
<1>1. CASE format = "otpauth"
  <2>1. Read(f, format, row) = <<OtpauthRow(row)>>
    BY <1>1 DEF Read
  <2>2. IsResult(OtpauthRow(row))
    BY UriRow DEF OtpauthRow, IsResult
  <2>. QED
    BY <2>1, <2>2, OneResult
<1>2. CASE format = "ente"
  <2>1. Read(f, format, row) = <<EnteRow(row)>>
    BY <1>2 DEF Read
  <2>2. IsResult(EnteRow(row))
    BY EnteRows DEF IsResult
  <2>. QED
    BY <2>1, <2>2, OneResult
<1>3. CASE format \in {"aegis", "twofas", "lastpass", "bitwarden"}
  <2>1. Read(f, format, row) = CASE format = "aegis" -> <<AegisRow(row, table)>>
                                 [] format = "twofas" -> <<TwoFasRow(row, table)>>
                                 [] format = "lastpass" -> <<LastPassRow(row, table)>>
                                 [] OTHER -> <<BitwardenRow(row, table)>>
    BY <1>3 DEF Read
  <2> HIDE DEF table
  <2>2. /\ Fine(<<AegisRow(row, table)>>) /\ Fine(<<TwoFasRow(row, table)>>)
        /\ Fine(<<LastPassRow(row, table)>>) /\ Fine(<<BitwardenRow(row, table)>>)
    BY OneResult, AegisRows, TwoFasRows, LastPassRows, BitwardenRows
  <2>. QED
    BY <2>1, <2>2
<1>4. CASE format \in {"andotp", "raivo", "authy", "freeotpplus", "freeotp", "keepass"}
  <2>1. Read(f, format, row) = CASE format = "andotp" -> <<AndOtpRow(row)>>
                                 [] format = "raivo" -> <<RaivoRow(row)>>
                                 [] format = "authy" -> <<AuthyRow(row)>>
                                 [] format = "freeotpplus" -> <<FreeOtpRow(row, None)>>
                                 [] format = "freeotp" -> <<FreeOtpMapRow(row)>>
                                 [] OTHER -> <<KeePassRow(row)>>
    BY <1>4 DEF Read
  <2>2. /\ Fine(<<AndOtpRow(row)>>) /\ Fine(<<RaivoRow(row)>>) /\ Fine(<<AuthyRow(row)>>)
        /\ Fine(<<FreeOtpRow(row, None)>>) /\ Fine(<<FreeOtpMapRow(row)>>) /\ Fine(<<KeePassRow(row)>>)
    BY OneResult, AndOtpRows, RaivoRows, AuthyRows, FreeOtpRows, FreeOtpMapRows, KeePassRows
  <2>. QED
    BY <2>1, <2>2
<1>5. CASE format = "proton"
  <2>1. Read(f, format, row) = ProtonRows(row, Get(f, "vaultName"))
    BY <1>5 DEF Read
  <2>. QED
    BY <1>5, <2>1, ProtonRowsAre DEF RowTyped
<1>6. CASE format = "migration"
  <2> DEFINE parts == row.payload.parts
             rs == [i \in DOMAIN parts |-> MigrationRow(parts[i])]
  <2>1. Read(f, format, row) = IF IsOk(MigrationPayload(row)) THEN rs ELSE << >>
    BY <1>6 DEF Read
  <2>2. ASSUME IsOk(MigrationPayload(row)) PROVE AreResults(rs)
    <3>1. "payload" \in DOMAIN row
      BY <2>2, Results DEF MigrationPayload
    <3>2. parts \in Seq(ToSet(parts))
      BY <1>6, <3>1 DEF RowTyped
    <3> HIDE DEF parts
    <3>3. DOMAIN rs = DOMAIN parts /\ rs = [n \in DOMAIN parts |-> rs[n]] /\ \A n \in DOMAIN parts : rs[n] = MigrationRow(parts[n])
      OBVIOUS
    <3> HIDE DEF rs
    <3>4. \A n \in DOMAIN parts : IsResult(rs[n])
      BY <3>3, MigrationRows
    <3>. QED
      BY <3>2, <3>3, <3>4, ManyResults
  <2> HIDE DEF rs
  <2>. QED
    BY <1>6, <2>1, <2>2, NoResults
<1>7. CASE format = "csv"
  <2>1. Read(f, format, row) \in {<<Fail("FieldTooLong")>>, << >>, <<GenericRow(row, CsvMapping(f))>>}
    BY <1>7 DEF Read
  <2> DEFINE Few(rs) == AreResults(rs) /\ Len(rs) <= 1
  <2>2. Few(<<Fail("FieldTooLong")>>)
    BY OneResult, ReaderErrors
  <2>3. Few(<<GenericRow(row, CsvMapping(f))>>)
    BY OneResult, GenericRows
  <2>4. Few(<< >>)
    BY NoResults
  <2> HIDE DEF Few
  <2>5. Few(Read(f, format, row))
    BY <2>1, <2>2, <2>3, <2>4
  <2>. QED
    BY <2>5 DEF Few
<1>8. CASE format = "json"
  <2>1. Read(f, format, row) = <<GenericRow(row, MappingOf(f))>>
    BY <1>8 DEF Read
  <2>. QED
    BY <2>1, OneResult, GenericRows
<1>. QED
  BY <1>1, <1>2, <1>3, <1>4, <1>5, <1>6, <1>7, <1>8 DEF SourceFormats

(***************************************************************************)
(* The errors that end a file or a row.                                    *)
(***************************************************************************)
LEMMA LeastIsOne ==
  ASSUME NEW S, S \subseteq Nat, IsFiniteSet(S), S # {}
  PROVE  (CHOOSE i \in S : \A j \in S : i <= j) \in S
<1>1. PICK m \in S : \A j \in S : m <= j
  BY MinOfFinite
<1>. QED
  BY <1>1

LEMMA PlacesAreFinite ==
  ASSUME NEW n \in Nat, NEW S, S \subseteq 1 .. n
  PROVE  IsFiniteSet(S) /\ S \subseteq Nat
<1>1. IsFiniteSet(1 .. n)
  BY FS_Interval
<1>2. IsFiniteSet(S)
  BY <1>1, FS_Subset
<1>. QED
  BY <1>2

LEMMA FirstIsOne ==
  ASSUME NEW S, None \in S, NEW errors \in Seq(S)
  PROVE  FirstOf(errors) \in S
<1> DEFINE found == {i \in DOMAIN errors : errors[i] # None}
<1>1. Len(errors) \in Nat /\ DOMAIN errors = 1 .. Len(errors) /\ \A i \in DOMAIN errors : errors[i] \in S
  BY LenProperties
<1>2. found \subseteq 1 .. Len(errors) /\ found \subseteq Nat
  BY <1>1
<1>3. IsFiniteSet(found)
  BY <1>1, <1>2, PlacesAreFinite
<1> HIDE DEF found
<1>4. found # {} => (CHOOSE i \in found : \A j \in found : i <= j) \in DOMAIN errors
  BY <1>1, <1>2, <1>3, LeastIsOne
<1>5. FirstOf(errors) = IF found = {} THEN None ELSE errors[CHOOSE i \in found : \A j \in found : i <= j]
  BY DEF FirstOf, found
<1>. QED
  BY <1>1, <1>4, <1>5

LEMMA FieldErrors ==
  ASSUME NEW item
  PROVE  ValidateItem(item) \in {None, "FieldTooLong", "InvalidField"}
<1> DEFINE S == {None, "FieldTooLong", "InvalidField"}
           a == FieldError(item.issuer)
           b == FieldError(item.account)
           c == ListError(item.tags)
           d == ListError(item.groups)
           e == IF Len(item.tags) > MaxTags \/ Len(item.groups) > MaxTags THEN "FieldTooLong" ELSE None
<1>1. \A name : FieldError(name) \in S
  BY DEF FieldError
<1>2. \A list : ListError(list) \in S
  <2> TAKE list
  <2> DEFINE found == {i \in DOMAIN list : FieldError(list[i]) # None}
             one == CHOOSE i \in found : \A j \in found : i <= j
  <2>1. ListError(list) = IF found = {} THEN None ELSE FieldError(list[one])
    BY DEF ListError
  <2> HIDE DEF found, one
  <2>. QED
    BY <1>1, <2>1
<1>3. e \in S
  OBVIOUS
<1>4. ValidateItem(item) = FirstOf(<<a, b, c, d, e>>)
  BY DEF ValidateItem
<1>5. a \in S /\ b \in S /\ c \in S /\ d \in S /\ None \in S
  BY <1>1, <1>2
<1> HIDE DEF a, b, c, d, e, S
<1>6. <<a, b, c, d, e>> \in Seq(S)
  BY <1>3, <1>5
<1>7. FirstOf(<<a, b, c, d, e>>) \in S
  BY <1>5, <1>6, FirstIsOne
<1>. QED
  BY <1>4, <1>7 DEF S

\* The formats that are detected are those of the registry.
LEMMA DetectedFormat ==
  ASSUME NEW f
  PROVE  Detect(f) \in SourceFormats \cup {None}
<1> DEFINE s == Sniffs(f)
           best == BestOf(s)
           one == CHOOSE i \in best : \A j \in best : i <= j
<1>1. Detect(f) = IF best = {} THEN None ELSE Registry[one]
  BY DEF Detect
<1>2. DOMAIN s = 1 .. 16
  BY DEF Sniffs
<1>3. best \subseteq 1 .. 16
  BY <1>2 DEF BestOf
<1> HIDE DEF best
<1>4. best # {} => one \in best
  <2>1. 16 \in Nat
    OBVIOUS
  <2>2. IsFiniteSet(best) /\ best \subseteq Nat
    BY <1>3, <2>1, PlacesAreFinite
  <2>. QED
    BY <2>2, LeastIsOne
<1>5. \A i \in 1 .. 16 : Registry[i] \in SourceFormats
  BY DEF Registry, SourceFormats
<1> HIDE DEF one
<1>. QED
  BY <1>1, <1>3, <1>4, <1>5

FileErrors == ImportErrors \cup {None}
LEMMA ErrorNames ==
  /\ None \in FileErrors
  /\ {"UnrecognizedFormat", "MissingField", "InvalidField", "UnsupportedVersion", "PassphraseRequired"} \subseteq FileErrors
  /\ {"EncryptedNotSupported", "DecryptionFailed", "KdfParam", "MappingRequired"} \subseteq FileErrors
  /\ {"MappedColumnMissing", "TooManyRows"} \subseteq FileErrors
  BY DEF FileErrors, ImportErrors

LEMMA DecryptErrors ==
  ASSUME NEW slots, slots \in Seq(ToSet(slots)), NEW pass, \A slot \in ToSet(slots) : slot.broken \in FileErrors
  PROVE  DecryptDb(slots, pass) \in FileErrors
<1> DEFINE places == {i \in DOMAIN slots : slots[i].type = 1}
           password == Chosen(slots, places)
           tried == SubSeq(password, 1, IF Len(password) < MaxSlotsTried THEN Len(password) ELSE MaxSlotsTried)
           stop == {i \in DOMAIN tried : SlotError(tried[i], pass) \in {None, "KdfParam"}}
           one == CHOOSE i \in stop : \A j \in stop : i <= j
<1>1. password \in Seq(ToSet(slots)) /\ password \in Seq(ToSet(password))
  <2> HIDE DEF places
  <2>1. password \in Seq({slots[i] : i \in {j \in DOMAIN slots : j \in places}})
    BY ChosenAreOfList
  <2>2. {slots[i] : i \in {j \in DOMAIN slots : j \in places}} \subseteq ToSet(slots)
    BY DEF ToSet
  <2> HIDE DEF password
  <2>3. password \in Seq(ToSet(slots))
    BY <2>1, <2>2
  <2>. QED
    BY <2>3, OwnList
<1>2. DecryptDb(slots, pass) = IF pass = None THEN "PassphraseRequired"
                               ELSE IF tried = << >> THEN "MissingField"
                               ELSE IF stop # {} THEN SlotError(tried[one], pass)
                               ELSE SlotError(tried[Len(tried)], pass)
  BY DEF DecryptDb
<1> HIDE DEF password
<1>3. tried \in Seq(ToSet(password)) /\ ToSet(password) \subseteq ToSet(slots)
  <2>1. MaxSlotsTried \in Nat
    BY FilesAssumption
  <2>2. tried \in Seq(ToSet(password))
    BY <1>1, <2>1, TruncatedList
  <2>. QED
    BY <1>1, <2>2, ListElements
<1> HIDE DEF tried
<1>4. /\ Len(tried) \in Nat /\ DOMAIN tried = 1 .. Len(tried)
      /\ \A i \in DOMAIN tried : tried[i] \in ToSet(slots)
      /\ tried # << >> => Len(tried) \in DOMAIN tried
  <2>1. /\ Len(tried) \in Nat /\ DOMAIN tried = 1 .. Len(tried) /\ \A i \in 1 .. Len(tried) : tried[i] \in ToSet(password)
    BY <1>3, LenProperties
  <2>2. tried # << >> => Len(tried) # 0
    BY <1>3, EmptySeq
  <2>. QED
    BY <1>3, <2>1, <2>2
<1>5. \A slot \in ToSet(slots) : SlotError(slot, pass) \in FileErrors
  BY ErrorNames DEF SlotError
<1>6. stop # {} => one \in DOMAIN tried
  <2>1. stop \subseteq 1 .. Len(tried)
    BY <1>4
  <2> HIDE DEF stop
  <2>2. IsFiniteSet(stop) /\ stop \subseteq Nat
    BY <1>4, <2>1, PlacesAreFinite
  <2>. QED
    BY <1>4, <2>1, <2>2, LeastIsOne
<1> HIDE DEF stop, one
<1>. QED
  BY <1>2, <1>4, <1>5, <1>6, ErrorNames

LEMMA FileErrorIsOne ==
  ASSUME NEW n \in DOMAIN Files, NEW pass
  PROVE  FileError(Files[n], Detect(Files[n]), pass) \in FileErrors
<1> DEFINE f == Files[n]
           format == Detect(f)
<1>1. f.broken \in FileErrors
  BY FilesAssumption DEF FileErrors
<1>2. (format = "aegis" /\ Get(f, "sealed") # None) => DecryptDb(f.sealed, pass) \in FileErrors
  <2>1. (format = "aegis" /\ Get(f, "sealed") # None) =>
           f.sealed \in Seq(ToSet(f.sealed)) /\ \A slot \in ToSet(f.sealed) : slot.broken \in FileErrors
    BY FilesAssumption DEF FileErrors
  <2> HIDE DEF f, format
  <2>. QED
    BY <2>1, DecryptErrors
<1> HIDE DEF f
<1>3. /\ WantsObject(f) \in FileErrors /\ \A field : Wants(f, field) \in FileErrors
      /\ OpenRaivo(f) \in FileErrors /\ OpenAuthy(f) \in FileErrors /\ OpenEnte(f) \in FileErrors /\ OpenJson(f) \in FileErrors
  BY ErrorNames DEF WantsObject, Wants, OpenRaivo, OpenAuthy, OpenEnte, OpenJson
<1>4. /\ \A sealed : DecryptTwoFas(sealed, pass) \in FileErrors /\ DecryptAndOtp(sealed, pass) \in FileErrors
      /\ \A mapping, header : ResolveColumns(mapping, header) \in FileErrors
  BY ErrorNames DEF DecryptTwoFas, DecryptAndOtp, ResolveColumns
<1>5. /\ \A a, b \in FileErrors : FirstOf(<<a, b>>) \in FileErrors
      /\ \A a, b, c \in FileErrors : FirstOf(<<a, b, c>>) \in FileErrors
      /\ \A a, b, c, d, e \in FileErrors : FirstOf(<<a, b, c, d, e>>) \in FileErrors
  <2> DEFINE S == FileErrors
  <2> HIDE DEF S
  <2>1. /\ \A a, b \in S : <<a, b>> \in Seq(S)
        /\ \A a, b, c \in S : <<a, b, c>> \in Seq(S)
        /\ \A a, b, c, d, e \in S : <<a, b, c, d, e>> \in Seq(S)
    OBVIOUS
  <2>2. \A errors \in Seq(S) : FirstOf(errors) \in S
    BY FirstIsOne, ErrorNames DEF S
  <2>3. /\ \A a, b \in S : FirstOf(<<a, b>>) \in S
        /\ \A a, b, c \in S : FirstOf(<<a, b, c>>) \in S
        /\ \A a, b, c, d, e \in S : FirstOf(<<a, b, c, d, e>>) \in S
    BY <2>1, <2>2, Zenon
  <2>. QED
    BY <2>3 DEF S
<1>6. format = "aegis" => OpenAegis(f, pass) \in FileErrors
  BY <1>2, <1>3, <1>5, ErrorNames DEF OpenAegis
<1>7. OpenTwoFas(f, pass) \in FileErrors
  BY <1>3, <1>4, <1>5, ErrorNames DEF OpenTwoFas
<1>8. OpenAndOtp(f, pass) \in FileErrors
  BY <1>3, <1>4, <1>5, ErrorNames DEF OpenAndOtp
<1>9. OpenLastPass(f) \in FileErrors /\ OpenBitwarden(f) \in FileErrors /\ OpenProton(f) \in FileErrors /\ OpenFreeOtpPlus(f) \in FileErrors
  BY <1>3, <1>5, ErrorNames DEF OpenLastPass, OpenBitwarden, OpenProton, OpenFreeOtpPlus
<1>10. OpenCsv(f) \in FileErrors
  BY <1>4, <1>5, ErrorNames DEF OpenCsv
<1> HIDE DEF format
<1>11. FileError(f, format, pass) \in FileErrors
  BY <1>1, <1>3, <1>6, <1>7, <1>8, <1>9, <1>10, ErrorNames DEF FileError
<1>. QED
  BY <1>11 DEF f, format

(***************************************************************************)
(* The collector: every result it is offered adds one outcome and leaves   *)
(* the report tidy.                                                        *)
(***************************************************************************)
Aside(c, o, S) == [items |-> c.items, outcomes |-> Append(c.outcomes, o), seen |-> S]
TakenFrom(c, item, ws) ==
  [items |-> Append(c.items, item),
   outcomes |-> Append(c.outcomes, [item |-> Len(c.items) + 1, warnings |-> ws]),
   seen |-> c.seen \cup {Triple(item)}]

MayTake(c, item, how, known) == how = "Skip" => Triple(item) \notin c.seen /\ Triple(item) \notin known
ToldOf(c, item, known, ws) == Triple(item) \in c.seen \cup known => <<"DuplicateOfExisting", "">> \in ws

\* One element more at the end of a list.
Grown(s, x, more) ==
  /\ more \in Seq(ToSet(more)) /\ Len(s) \in Nat /\ Len(more) = Len(s) + 1
  /\ DOMAIN s = 1 .. Len(s) /\ DOMAIN more = 1 .. Len(s) + 1
  /\ \A i \in 1 .. Len(s) : more[i] = s[i]
  /\ more[Len(s) + 1] = x
LEMMA OneMore ==
  ASSUME NEW s, s \in Seq(ToSet(s)), NEW x, NEW more, more = Append(s, x)
  PROVE  Grown(s, x, more)
<1> DEFINE S == ToSet(s) \cup {x}
<1>0. ToSet(s) \subseteq S /\ x \in S
  OBVIOUS
<1> HIDE DEF S
<1>1. s \in Seq(S) /\ Len(s) \in Nat /\ DOMAIN s = 1 .. Len(s)
  BY <1>0, LenProperties
<1>2. more \in Seq(S) /\ Len(more) = Len(s) + 1 /\ \A i \in 1 .. Len(s) : more[i] = s[i]
  BY <1>0, <1>1, AppendProperties
<1>3. more[Len(s) + 1] = x
  BY <1>0, <1>1, AppendProperties
<1>4. more \in Seq(ToSet(more)) /\ DOMAIN more = 1 .. Len(more)
  BY <1>2, OwnList, LenProperties
<1>. QED
  BY <1>1, <1>2, <1>3, <1>4 DEF Grown

\* The numbers of the imported rows, before and after one row more.
Ranked(os, o, more) ==
  /\ IsFiniteSet(ImportedIn(os)) /\ Cardinality(ImportedIn(os)) \in Nat
  /\ ImportedIn(os) \subseteq 1 .. Len(os)
  /\ ImportedIn(more) = IF "item" \in DOMAIN o THEN ImportedIn(os) \cup {Len(os) + 1} ELSE ImportedIn(os)
  /\ \A i \in ImportedIn(os) : RankIn(more, i) = RankIn(os, i)
  /\ \A i \in ImportedIn(os) : RankIn(os, i) \in 1 .. Cardinality(ImportedIn(os))
  /\ "item" \in DOMAIN o =>
       /\ Cardinality(ImportedIn(more)) = Cardinality(ImportedIn(os)) + 1
       /\ RankIn(more, Len(os) + 1) = Cardinality(ImportedIn(os)) + 1
LEMMA RanksKept ==
  ASSUME NEW os, os \in Seq(ToSet(os)), NEW o, NEW more, more = Append(os, o)
  PROVE  Ranked(os, o, more)
<1> DEFINE n == Len(os)
           I == ImportedIn(os)
<1>1. /\ n \in Nat /\ Len(more) = n + 1 /\ DOMAIN os = 1 .. n /\ DOMAIN more = 1 .. n + 1
      /\ \A i \in 1 .. n : more[i] = os[i]
      /\ more[n + 1] = o
  BY OneMore DEF Grown
<1> HIDE DEF n
<1>2. I \subseteq 1 .. n
  BY <1>1 DEF ImportedIn
<1>3. IsFiniteSet(I) /\ Cardinality(I) \in Nat
  <2>1. IsFiniteSet(I)
    BY <1>1, <1>2, PlacesAreFinite
  <2>. QED
    BY <2>1, FS_CardinalityType
<1>4. ImportedIn(more) = IF "item" \in DOMAIN o THEN I \cup {n + 1} ELSE I
  <2>1. \A i : i \in ImportedIn(more) <=> i \in I \/ (i = n + 1 /\ "item" \in DOMAIN o)
    <3>1. \A i : i \in 1 .. n + 1 <=> i \in 1 .. n \/ i = n + 1
      BY <1>1
    <3>. QED
      BY <1>1, <3>1 DEF ImportedIn
  <2> HIDE DEF I
  <2>. QED
    BY <2>1
<1> DEFINE Upto(i) == {j \in I : j <= i}
<1>5. \A i \in I : {j \in ImportedIn(more) : j <= i} = Upto(i)
  <2> HIDE DEF I
  <2>. QED
    BY <1>1, <1>2, <1>4
<1>6. \A i \in I : RankIn(more, i) = RankIn(os, i) /\ RankIn(os, i) = Cardinality(Upto(i))
  BY <1>5 DEF RankIn
<1> HIDE DEF I
<1>7. ASSUME NEW i \in I PROVE Cardinality(Upto(i)) \in 1 .. Cardinality(I)
  <2>1. Upto(i) \in SUBSET I /\ i \in Upto(i)
    BY <1>1, <1>2
  <2> HIDE DEF Upto
  <2>2. IsFiniteSet(Upto(i)) /\ Cardinality(Upto(i)) <= Cardinality(I)
    BY <1>3, <2>1, FS_Subset
  <2>3. Cardinality(Upto(i)) \in Nat /\ Cardinality(Upto(i)) # 0
    BY <2>1, <2>2, FS_EmptySet, FS_CardinalityType
  <2>. QED
    BY <1>3, <2>2, <2>3
<1>8. ASSUME "item" \in DOMAIN o
      PROVE  Cardinality(ImportedIn(more)) = Cardinality(I) + 1 /\ RankIn(more, n + 1) = Cardinality(I) + 1
  <2>1. n + 1 \notin I
    BY <1>1, <1>2
  <2>2. Cardinality(I \cup {n + 1}) = Cardinality(I) + 1
    BY <1>3, <2>1, FS_AddElement
  <2>3. ImportedIn(more) = I \cup {n + 1}
    BY <1>4, <1>8
  <2>4. \A j \in I \cup {n + 1} : j <= n + 1
    BY <1>1, <1>2
  <2>5. {j \in ImportedIn(more) : j <= n + 1} = ImportedIn(more)
    BY <2>3, <2>4
  <2>. QED
    BY <2>2, <2>3, <2>5 DEF RankIn
<1>. QED
  BY <1>2, <1>3, <1>4, <1>6, <1>7, <1>8 DEF n, I, Ranked

\* A row that is not imported: skipped or failed, and perhaps a secret is remembered.
LEMMA SetAside ==
  ASSUME NEW c, NEW how, NEW known, Tidy(c, how, known),
         NEW o, "item" \notin DOMAIN o, OutcomeOk(o), NEW S, c.seen \subseteq S, S \subseteq known \cup TriplesOf(c)
  PROVE  Tidy(Aside(c, o, S), how, known) /\ Len(Aside(c, o, S).outcomes) = Len(c.outcomes) + 1
<1> DEFINE d == Aside(c, o, S)
           os == c.outcomes
           more == Append(os, o)
<1>1. DOMAIN d = {"items", "outcomes", "seen"} /\ d.items = c.items /\ d.outcomes = more /\ d.seen = S
  BY DEF Aside
<1> HIDE DEF d
<1>2. /\ os \in Seq(ToSet(os)) /\ c.items \in Seq(ToSet(c.items))
      /\ \A i \in 1 .. Len(os) : OutcomeOk(os[i])
      /\ Len(c.items) = Cardinality(ImportedIn(os))
      /\ \A i \in ImportedIn(os) : os[i].item = RankIn(os, i)
      /\ \A i \in 1 .. Len(c.items) : ValidateItem(c.items[i]) = None /\ CheckLen(c.items[i].otp.secret) = None
  BY DEF Tidy, Numbered
<1> HIDE DEF os
<1>0. more = Append(os, o)
  OBVIOUS
<1> HIDE DEF more
<1>3. /\ more \in Seq(ToSet(more)) /\ Len(os) \in Nat /\ Len(more) = Len(os) + 1
      /\ \A i \in 1 .. Len(os) : more[i] = os[i]
      /\ more[Len(os) + 1] = o
  <2>1. Grown(os, o, more)
    BY <1>0, <1>2, OneMore
  <2>. QED
    BY <2>1 DEF Grown
<1>4. ImportedIn(more) = ImportedIn(os) /\ ImportedIn(os) \subseteq 1 .. Len(os)
      /\ \A i \in ImportedIn(os) : RankIn(more, i) = RankIn(os, i)
  <2>1. Ranked(os, o, more)
    BY <1>0, <1>2, RanksKept
  <2>. QED
    BY <2>1 DEF Ranked
<1>5. \A i \in 1 .. Len(more) : OutcomeOk(more[i])
  <2>1. \A i \in 1 .. Len(os) + 1 : i \in 1 .. Len(os) \/ i = Len(os) + 1
    BY <1>3
  <2>. QED
    BY <1>2, <1>3, <2>1
<1>6. Numbered(d)
  <2>1. \A i \in ImportedIn(more) : more[i].item = RankIn(more, i)
    BY <1>2, <1>3, <1>4
  <2>. QED
    BY <1>1, <1>2, <1>3, <1>4, <1>5, <2>1 DEF Numbered
<1>7. TriplesOf(d) = TriplesOf(c)
  BY <1>1 DEF TriplesOf
<1>8. NoDoubles(d, how, known)
  BY <1>1, <1>7 DEF Tidy, NoDoubles
<1>9. PointedOut(c, known) => PointedOut(d, known)
  <2> SUFFICES ASSUME PointedOut(c, known), NEW i \in ImportedIn(os),
                      \/ Triple(d.items[more[i].item]) \in known
                      \/ \E j \in 1 .. (more[i].item - 1) : Triple(d.items[j]) = Triple(d.items[more[i].item])
               PROVE  <<"DuplicateOfExisting", "">> \in more[i].warnings
    BY <1>1, <1>4 DEF PointedOut
  <2>1. more[i] = os[i] /\ d.items = c.items /\ os = c.outcomes
    BY <1>1, <1>3, <1>4 DEF os
  <2>. QED
    BY <2>1 DEF PointedOut
<1>. QED
  BY <1>1, <1>3, <1>6, <1>8, <1>9 DEF Tidy, os, d

\* A row that is imported.
LEMMA TakenIn ==
  ASSUME NEW c, NEW how, NEW known, Tidy(c, how, known),
         NEW item, ValidateItem(item) = None, CheckLen(item.otp.secret) = None,
         NEW ws, WarnsOk(ws),
         MayTake(c, item, how, known), ToldOf(c, item, known, ws)
  PROVE  LET d == TakenFrom(c, item, ws)
         IN Tidy(d, how, known) /\ Len(d.outcomes) = Len(c.outcomes) + 1
<1> DEFINE d == TakenFrom(c, item, ws)
           os == c.outcomes
           its == c.items
           t == Triple(item)
           o == [item |-> Len(its) + 1, warnings |-> ws]
           more == Append(os, o)
           all == Append(its, item)
           k == Len(its)
<1>1. DOMAIN d = {"items", "outcomes", "seen"} /\ d.items = all /\ d.outcomes = more /\ d.seen = c.seen \cup {t}
  BY DEF TakenFrom
<1> HIDE DEF d
<1>2. /\ os \in Seq(ToSet(os)) /\ its \in Seq(ToSet(its))
      /\ \A i \in 1 .. Len(os) : OutcomeOk(os[i])
      /\ Len(its) = Cardinality(ImportedIn(os))
      /\ \A i \in ImportedIn(os) : os[i].item = RankIn(os, i)
      /\ \A i \in 1 .. Len(its) : ValidateItem(its[i]) = None /\ CheckLen(its[i].otp.secret) = None
  BY DEF Tidy, Numbered
<1>3. "item" \in DOMAIN o /\ o.item = Len(its) + 1 /\ o.warnings = ws
  OBVIOUS
<1>4. OutcomeOk(o)
  BY <1>3 DEF OutcomeOk, WarnsOk
<1>5. (how = "Keep" => PointedOut(c, known)) /\ NoDoubles(c, how, known)
  BY DEF Tidy
<1>0. more = Append(os, o) /\ all = Append(its, item) /\ k = Len(its)
  OBVIOUS
<1> HIDE DEF o, os, its, more, all, k, t
<1>6. /\ more \in Seq(ToSet(more)) /\ Len(os) \in Nat /\ Len(more) = Len(os) + 1
      /\ \A i \in 1 .. Len(os) : more[i] = os[i]
      /\ more[Len(os) + 1] = o
  <2>1. Grown(os, o, more)
    BY <1>0, <1>2, OneMore
  <2>. QED
    BY <2>1 DEF Grown
<1>7. /\ all \in Seq(ToSet(all)) /\ k \in Nat /\ Len(all) = k + 1
      /\ \A i \in 1 .. k : all[i] = its[i]
      /\ all[k + 1] = item
  <2>1. Grown(its, item, all)
    BY <1>0, <1>2, OneMore
  <2>. QED
    BY <1>0, <2>1 DEF Grown
<1>n. k \in Nat /\ Len(os) \in Nat
  BY <1>6, <1>7
<1>8. /\ ImportedIn(more) = ImportedIn(os) \cup {Len(os) + 1}
      /\ ImportedIn(os) \subseteq 1 .. Len(os)
      /\ \A i \in ImportedIn(os) : RankIn(more, i) = RankIn(os, i) /\ RankIn(os, i) \in 1 .. k
      /\ Cardinality(ImportedIn(more)) = k + 1
      /\ RankIn(more, Len(os) + 1) = k + 1
  <2>1. Ranked(os, o, more)
    BY <1>0, <1>2, RanksKept
  <2>2. k = Cardinality(ImportedIn(os))
    BY <1>0, <1>2
  <2>. QED
    BY <1>3, <2>1, <2>2 DEF Ranked
<1>9. \A i \in 1 .. Len(more) : OutcomeOk(more[i])
  <2>1. \A i \in 1 .. Len(os) + 1 : i \in 1 .. Len(os) \/ i = Len(os) + 1
    BY <1>n
  <2>. QED
    BY <1>2, <1>4, <1>6, <2>1
<1>10. \A i \in 1 .. k + 1 : i \in 1 .. k \/ i = k + 1
  BY <1>n
<1>11. \A i \in 1 .. Len(all) : ValidateItem(all[i]) = None /\ CheckLen(all[i].otp.secret) = None
  BY <1>2, <1>7, <1>10 DEF k
<1>12. \A i \in ImportedIn(more) : more[i].item = RankIn(more, i)
  BY <1>2, <1>3, <1>6, <1>8 DEF k
<1>13. Numbered(d)
  BY <1>1, <1>6, <1>7, <1>8, <1>9, <1>11, <1>12 DEF Numbered
<1>14. \A i \in 1 .. k : Triple(all[i]) = Triple(c.items[i])
  BY <1>7 DEF its
<1>15. Triple(all[k + 1]) = t /\ k = Len(c.items)
  BY <1>7 DEF t, k, its
<1>16. TriplesOf(d) = TriplesOf(c) \cup {t}
  <2>1. \A x : (\E i \in 1 .. k + 1 : x = Triple(all[i])) <=> (\E i \in 1 .. k : x = Triple(c.items[i])) \/ x = t
    <3>1. \A i \in 1 .. k : i \in 1 .. k + 1
      BY <1>n
    <3>2. k + 1 \in 1 .. k + 1
      BY <1>n
    <3>. QED
      BY <1>10, <1>14, <1>15, <3>1, <3>2
  <2>2. \A x : x \in TriplesOf(d) <=> \E i \in 1 .. k + 1 : x = Triple(all[i])
    BY <1>1, <1>7 DEF TriplesOf
  <2>3. \A x : x \in TriplesOf(c) <=> \E i \in 1 .. k : x = Triple(c.items[i])
    BY <1>15 DEF TriplesOf
  <2>. QED
    BY <2>1, <2>2, <2>3
<1>17. NoDoubles(d, how, known)
  <2>1. TriplesOf(d) \subseteq d.seen /\ d.seen \subseteq known \cup TriplesOf(d)
    BY <1>1, <1>5, <1>16 DEF NoDoubles
  <2>2. ASSUME how = "Skip"
        PROVE  /\ \A i, j \in 1 .. Len(all) : i # j => Triple(all[i]) # Triple(all[j])
               /\ \A i \in 1 .. Len(all) : Triple(all[i]) \notin known
    <3>1. t \notin known /\ \A i \in 1 .. k : Triple(all[i]) # t
      BY <1>5, <1>14, <1>15, <2>2 DEF NoDoubles, TriplesOf, t, MayTake
    <3>2. /\ \A i, j \in 1 .. k : i # j => Triple(all[i]) # Triple(all[j])
          /\ \A i \in 1 .. k : Triple(all[i]) \notin known
      BY <1>5, <1>14, <1>15, <2>2 DEF NoDoubles
    <3>. QED
      BY <1>7, <1>10, <1>15, <3>1, <3>2
  <2>. QED
    BY <1>1, <2>1, <2>2 DEF NoDoubles
<1>18. ASSUME PointedOut(c, known) PROVE PointedOut(d, known)
  <2> SUFFICES ASSUME NEW i \in ImportedIn(more),
                      \/ Triple(all[more[i].item]) \in known
                      \/ \E j \in 1 .. (more[i].item - 1) : Triple(all[j]) = Triple(all[more[i].item])
               PROVE  <<"DuplicateOfExisting", "">> \in more[i].warnings
    BY <1>1 DEF PointedOut
  <2>1. CASE i \in ImportedIn(os)
    <3>1. more[i] = os[i] /\ more[i].item \in 1 .. k
      BY <1>2, <1>6, <1>8, <2>1
    <3>2. Triple(all[os[i].item]) = Triple(c.items[os[i].item])
      BY <1>14, <3>1
    <3>3. \A j \in 1 .. (os[i].item - 1) : Triple(all[j]) = Triple(c.items[j])
      <4>1. \A j \in 1 .. (os[i].item - 1) : j \in 1 .. k
        BY <1>n, <3>1
      <4>. QED
        BY <1>14, <4>1
    <3>. QED
      BY <1>18, <2>1, <3>1, <3>2, <3>3 DEF PointedOut, os
  <2>2. CASE i = Len(os) + 1
    <3>1. more[i] = o /\ more[i].item = k + 1 /\ more[i].warnings = ws
      BY <1>3, <1>6, <2>2 DEF k
    <3>2. \A j \in 1 .. k : Triple(all[j]) \in c.seen
      BY <1>5, <1>14, <1>15 DEF NoDoubles, TriplesOf
    <3>3. t \in known \/ t \in c.seen
      <4>1. (k + 1) - 1 = k
        BY <1>n
      <4>. QED
        BY <1>15, <3>1, <3>2, <4>1
    <3>. QED
      BY <3>1, <3>3 DEF t, ToldOf
  <2>. QED
    BY <1>8, <2>1, <2>2
<1>. QED
  BY <1>1, <1>5, <1>6, <1>13, <1>17, <1>18 DEF Tidy, os, d

LEMMA RowsAside ==
  ASSUME NEW c, DOMAIN c = {"items", "outcomes", "seen"}, NEW S
  PROVE  /\ \A reason : SkipRow(c, reason) = Aside(c, [skipped |-> reason], c.seen)
         /\ \A error : FailRow(c, error) = Aside(c, [failed |-> error], c.seen)
         /\ \A reason : SkipRow([c EXCEPT !.seen = S], reason) = Aside(c, [skipped |-> reason], S)
<1>1. \A o : [c EXCEPT !.outcomes = Append(@, o)] = Aside(c, o, c.seen)
  BY DEF Aside
<1> DEFINE d == [c EXCEPT !.seen = S]
<1>2. DOMAIN d = {"items", "outcomes", "seen"} /\ d.items = c.items /\ d.outcomes = c.outcomes /\ d.seen = S
  OBVIOUS
<1> HIDE DEF d
<1>3. \A o : [d EXCEPT !.outcomes = Append(@, o)] = Aside(c, o, S)
  BY <1>2 DEF Aside
<1>4. \A reason : SkipRow(c, reason) = Aside(c, [skipped |-> reason], c.seen)
  BY <1>1 DEF SkipRow
<1>5. \A error : FailRow(c, error) = Aside(c, [failed |-> error], c.seen)
  BY <1>1 DEF FailRow
<1>6. \A reason : SkipRow(d, reason) = Aside(c, [skipped |-> reason], S)
  BY <1>3 DEF SkipRow
<1>. QED
  BY <1>4, <1>5, <1>6 DEF d

LEMMA AsideOk ==
  /\ \A reason \in SkipReasons : "item" \notin DOMAIN [skipped |-> reason] /\ OutcomeOk([skipped |-> reason])
  /\ \A error \in RowErrors : "item" \notin DOMAIN [failed |-> error] /\ OutcomeOk([failed |-> error])
  BY DEF OutcomeOk

\* accept: a row with an item.
LEMMA AcceptTidy ==
  ASSUME NEW c, Tidy(c, policy, vault), NEW r, IsItem(r)
  PROVE  Tidy(Accept(c, r), policy, vault) /\ Len(Accept(c, r).outcomes) = Len(c.outcomes) + 1
<1> DEFINE item == r.item
           t == Triple(item)
           S == c.seen \cup {t}
           later == [c EXCEPT !.seen = @ \cup {t}]
           more == AcceptWarnings(c, item)
           ws == r.warnings \cup more
<1>1. DOMAIN c = {"items", "outcomes", "seen"}
  BY DEF Tidy
<1>2. CASE ValidateItem(item) # None
  <2>1. Accept(c, r) = FailRow(c, ValidateItem(item))
    BY <1>2 DEF Accept
  <2>2. ValidateItem(item) \in RowErrors
    BY <1>2, FieldErrors DEF RowErrors
  <2>3. Accept(c, r) = Aside(c, [failed |-> ValidateItem(item)], c.seen)
    BY <1>1, <2>1, RowsAside
  <2>4. c.seen \subseteq vault \cup TriplesOf(c)
    BY DEF Tidy, NoDoubles
  <2>5. "item" \notin DOMAIN [failed |-> ValidateItem(item)] /\ OutcomeOk([failed |-> ValidateItem(item)])
    BY <2>2, AsideOk
  <2>. QED
    BY <2>3, <2>4, <2>5, SetAside
<1>3. CASE ValidateItem(item) = None /\ policy = "Skip" /\ (t \in c.seen \/ t \in vault)
  <2>1. Accept(c, r) = SkipRow(later, "DuplicateInBatch") \/ Accept(c, r) = SkipRow(later, "DuplicateOfExisting")
    BY <1>3 DEF Accept, KnownTriple
  <2>2. later = [c EXCEPT !.seen = S]
    OBVIOUS
  <2>3. PICK reason \in SkipReasons : Accept(c, r) = SkipRow([c EXCEPT !.seen = S], reason)
    BY <2>1, <2>2 DEF SkipReasons
  <2> HIDE DEF later
  <2>4. c.seen \subseteq S /\ S \subseteq vault \cup TriplesOf(c)
    BY <1>3 DEF Tidy, NoDoubles
  <2> HIDE DEF S
  <2>5. Accept(c, r) = Aside(c, [skipped |-> reason], S)
    BY <1>1, <2>3, RowsAside
  <2>6. "item" \notin DOMAIN [skipped |-> reason] /\ OutcomeOk([skipped |-> reason])
    BY AsideOk
  <2>. QED
    BY <2>4, <2>5, <2>6, SetAside
<1>4. CASE ValidateItem(item) = None /\ ~(policy = "Skip" /\ (t \in c.seen \/ t \in vault))
  <2>1. Accept(c, r) = [later EXCEPT !.items = Append(@, item),
                          !.outcomes = Append(@, [item |-> Len(c.items) + 1, warnings |-> ws])]
    BY <1>4 DEF Accept, KnownTriple, ItemRef
  <2>2. WarnsOk(more) /\ ToldOf(c, item, vault, ws)
    <3> DEFINE a == IF t \in c.seen \/ KnownTriple(t) THEN {<<"DuplicateOfExisting", "">>} ELSE {}
               b == IF ~KnownTriple(t) /\ \E v \in vault : Pair(v) = Pair(t) THEN {<<"CollidesWithExisting", "">>} ELSE {}
               d == IF item.otp.kind = "yaotp" /\ Len(item.otp.secret) > PrefixLen THEN {<<"SecretPrefixUsed", "">>} ELSE {}
    <3>1. more = a \cup b \cup d
      BY DEF AcceptWarnings
    <3>2. \A name \in ImportWarnings : WarnsOk({<<name, "">>})
      <4> TAKE name \in ImportWarnings
      <4> DEFINE w == <<name, "">>
      <4>1. w[1] \in ImportWarnings
        OBVIOUS
      <4> HIDE DEF w
      <4>2. WarnsOk({w})
        BY <4>1 DEF WarnsOk
      <4>. QED
        BY <4>2 DEF w
    <3>3. {"DuplicateOfExisting", "CollidesWithExisting", "SecretPrefixUsed"} \subseteq ImportWarnings
      BY DEF ImportWarnings
    <3>4. WarnsOk(a) /\ WarnsOk(b) /\ WarnsOk(d)
      <4> HIDE DEF t, item
      <4>. QED
        BY <3>2, <3>3, WarningsAre
    <3>5. t \in c.seen \cup vault => <<"DuplicateOfExisting", "">> \in a
      BY DEF KnownTriple
    <3> HIDE DEF a, b, d
    <3>6. WarnsOk(more)
      BY <3>1, <3>4, WarningsAre
    <3>. QED
      BY <3>1, <3>5, <3>6 DEF ToldOf
  <2>3. WarnsOk(r.warnings) /\ CheckLen(item.otp.secret) = None
    BY DEF IsItem
  <2> HIDE DEF more
  <2>4. WarnsOk(ws)
    BY <2>2, <2>3, WarningsAre
  <2>5. MayTake(c, item, policy, vault)
    BY <1>4 DEF MayTake
  <2> HIDE DEF ws, item
  <2>6. Accept(c, r) = TakenFrom(c, item, ws)
    BY <1>1, <2>1 DEF TakenFrom
  <2>7. Tidy(TakenFrom(c, item, ws), policy, vault) /\ Len(TakenFrom(c, item, ws).outcomes) = Len(c.outcomes) + 1
    BY <1>4, <2>2, <2>3, <2>4, <2>5, TakenIn
  <2>. QED
    BY <2>6, <2>7
<1>. QED
  BY <1>2, <1>3, <1>4

LEMMA OfferTidy ==
  ASSUME NEW c, Tidy(c, policy, vault), NEW r, IsResult(r)
  PROVE  Tidy(Offer(c, r), policy, vault) /\ Len(Offer(c, r).outcomes) = Len(c.outcomes) + 1
<1>1. DOMAIN c = {"items", "outcomes", "seen"} /\ c.seen \subseteq vault \cup TriplesOf(c)
  BY DEF Tidy, NoDoubles
<1>2. CASE IsItem(r)
  <2>1. Offer(c, r) = Accept(c, r)
    BY <1>2 DEF Offer, IsItem
  <2>. QED
    BY <1>2, <2>1, AcceptTidy
<1>3. CASE \E reason \in SkipReasons : r = Skip(reason)
  <2>1. PICK reason \in SkipReasons : r = Skip(reason)
    BY <1>3
  <2>2. Offer(c, r) = SkipRow(c, reason)
    BY <2>1 DEF Offer, Skip
  <2>3. Offer(c, r) = Aside(c, [skipped |-> reason], c.seen)
    BY <1>1, <2>2, RowsAside
  <2>4. "item" \notin DOMAIN [skipped |-> reason] /\ OutcomeOk([skipped |-> reason])
    BY AsideOk
  <2>. QED
    BY <1>1, <2>3, <2>4, SetAside
<1>4. CASE IsFailed(r)
  <2>1. PICK e \in RowErrors : r = Fail(e)
    BY <1>4 DEF IsFailed
  <2>2. Offer(c, r) = FailRow(c, e)
    BY <2>1 DEF Offer, Fail
  <2>3. Offer(c, r) = Aside(c, [failed |-> e], c.seen)
    BY <1>1, <2>2, RowsAside
  <2>4. "item" \notin DOMAIN [failed |-> e] /\ OutcomeOk([failed |-> e])
    BY AsideOk
  <2>. QED
    BY <1>1, <2>3, <2>4, SetAside
<1>. QED
  BY <1>2, <1>3, <1>4 DEF IsResult, IsMade

\* A report that grew, and an outcome that was told before.
GrewTo(c, d) ==
  /\ Len(c.items) \in Nat /\ Len(d.items) \in Nat /\ Len(c.items) <= Len(d.items)
  /\ Len(c.outcomes) \in Nat /\ Len(d.outcomes) \in Nat /\ Len(c.outcomes) <= Len(d.outcomes)
  /\ \A i \in 1 .. Len(c.items) : d.items[i] = c.items[i]
  /\ \A i \in 1 .. Len(c.outcomes) : d.outcomes[i] = c.outcomes[i]
LEMMA ToldStays ==
  ASSUME NEW c, NEW d, GrewTo(c, d), NEW how, NEW known, NEW o, NEW r, Reports(c, how, known, o, r)
  PROVE  Reports(d, how, known, o, r)
<1>1. \A i \in 1 .. Len(c.items) : i \in 1 .. Len(d.items) /\ d.items[i] = c.items[i]
  BY DEF GrewTo
<1>2. TriplesOf(c) \subseteq TriplesOf(d)
  BY <1>1 DEF TriplesOf
<1>. QED
  BY <1>1, <1>2 DEF Reports

LEMMA LaterIsLate ==
  ASSUME NEW c, NEW d, NEW e, GrewTo(c, d), GrewTo(d, e)
  PROVE  GrewTo(c, e)
<1>1. /\ \A i \in 1 .. Len(c.items) : i \in 1 .. Len(d.items)
      /\ \A i \in 1 .. Len(c.outcomes) : i \in 1 .. Len(d.outcomes)
  BY DEF GrewTo
<1>2. /\ Len(c.items) \in Nat /\ Len(e.items) \in Nat /\ Len(c.items) <= Len(e.items)
      /\ Len(c.outcomes) \in Nat /\ Len(e.outcomes) \in Nat /\ Len(c.outcomes) <= Len(e.outcomes)
  BY DEF GrewTo
<1>3. \A i \in 1 .. Len(c.items) : e.items[i] = c.items[i]
  BY <1>1 DEF GrewTo
<1>4. \A i \in 1 .. Len(c.outcomes) : e.outcomes[i] = c.outcomes[i]
  BY <1>1 DEF GrewTo
<1>. QED
  BY <1>2, <1>3, <1>4 DEF GrewTo

\* An outcome that is set aside, and one that names its item.
LEMMA AsideIsLater ==
  ASSUME NEW c, NEW how, NEW known, Tidy(c, how, known), NEW o, NEW S
  PROVE  LET d == Aside(c, o, S) IN GrewTo(c, d) /\ d.outcomes[Len(c.outcomes) + 1] = o /\ TriplesOf(d) = TriplesOf(c)
<1> DEFINE os == Append(c.outcomes, o)
           d == Aside(c, o, S)
<1>1. c.items \in Seq(ToSet(c.items)) /\ c.outcomes \in Seq(ToSet(c.outcomes))
  BY DEF Tidy, Numbered
<1>2. Grown(c.outcomes, o, os)
  BY <1>1, OneMore
<1>3. d.items = c.items /\ d.outcomes = os
  BY DEF Aside
<1>4. Len(c.items) \in Nat
  BY <1>1, LenProperties
<1> HIDE DEF d, os
<1>5. GrewTo(c, d)
  BY <1>2, <1>3, <1>4 DEF GrewTo, Grown
<1>6. d.outcomes[Len(c.outcomes) + 1] = o /\ TriplesOf(d) = TriplesOf(c)
  BY <1>2, <1>3 DEF Grown, TriplesOf
<1>. QED
  BY <1>5, <1>6 DEF d
LEMMA TakenIsLater ==
  ASSUME NEW c, NEW how, NEW known, Tidy(c, how, known), NEW item, NEW ws
  PROVE  LET d == TakenFrom(c, item, ws)
             o == d.outcomes[Len(c.outcomes) + 1]
         IN /\ GrewTo(c, d) /\ o = [item |-> Len(c.items) + 1, warnings |-> ws]
            /\ o.item \in 1 .. Len(d.items) /\ d.items[o.item] = item
<1> DEFINE o == [item |-> Len(c.items) + 1, warnings |-> ws]
           os == Append(c.outcomes, o)
           list == Append(c.items, item)
           d == TakenFrom(c, item, ws)
<1>1. c.items \in Seq(ToSet(c.items)) /\ c.outcomes \in Seq(ToSet(c.outcomes))
  BY DEF Tidy, Numbered
<1>2. Grown(c.outcomes, o, os) /\ Grown(c.items, item, list)
  BY <1>1, OneMore
<1>3. d.items = list /\ d.outcomes = os
  BY DEF TakenFrom
<1>4. o.item = Len(c.items) + 1
  OBVIOUS
<1> HIDE DEF d, os, list, o
<1>5. GrewTo(c, d)
  BY <1>2, <1>3 DEF GrewTo, Grown
<1>6. d.outcomes[Len(c.outcomes) + 1] = o /\ o.item \in 1 .. Len(d.items) /\ d.items[o.item] = item
  BY <1>2, <1>3, <1>4 DEF Grown
<1>. QED
  BY <1>5, <1>6 DEF d, o

\* What is offered is told of, after what was told before.
OfferedTo(c, d, r) == GrewTo(c, d) /\ Reports(d, policy, vault, d.outcomes[Len(c.outcomes) + 1], r)
LEMMA SkipTells ==
  ASSUME NEW c, Tidy(c, policy, vault), NEW S, NEW reason, NEW r,
         \/ "skip" \in DOMAIN r /\ reason = r.skip
         \/ /\ "item" \in DOMAIN r /\ policy = "Skip" /\ reason \in {"DuplicateInBatch", "DuplicateOfExisting"}
            /\ Triple(r.item) \in vault \cup TriplesOf(c)
  PROVE  OfferedTo(c, Aside(c, [skipped |-> reason], S), r)
<1> DEFINE o == [skipped |-> reason]
           d == Aside(c, o, S)
<1>1. DOMAIN o = {"skipped"} /\ o.skipped = reason
  OBVIOUS
<1> HIDE DEF o
<1>2. GrewTo(c, d) /\ d.outcomes[Len(c.outcomes) + 1] = o /\ TriplesOf(d) = TriplesOf(c)
  BY AsideIsLater
<1> HIDE DEF d
<1>3. Reports(d, policy, vault, o, r)
  BY <1>1, <1>2 DEF Reports
<1>. QED
  BY <1>2, <1>3 DEF OfferedTo, d, o
LEMMA FailTells ==
  ASSUME NEW c, Tidy(c, policy, vault), NEW S, NEW error, NEW r,
         \/ "fail" \in DOMAIN r /\ error = r.fail
         \/ "item" \in DOMAIN r /\ error = ValidateItem(r.item)
  PROVE  OfferedTo(c, Aside(c, [failed |-> error], S), r)
<1> DEFINE o == [failed |-> error]
           d == Aside(c, o, S)
<1>1. DOMAIN o = {"failed"} /\ o.failed = error
  OBVIOUS
<1> HIDE DEF o
<1>2. GrewTo(c, d) /\ d.outcomes[Len(c.outcomes) + 1] = o
  BY AsideIsLater
<1> HIDE DEF d
<1>3. Reports(d, policy, vault, o, r)
  BY <1>1 DEF Reports
<1>. QED
  BY <1>2, <1>3 DEF OfferedTo, d, o

LEMMA AcceptTells ==
  ASSUME NEW c, Tidy(c, policy, vault), NEW r, IsItem(r)
  PROVE  OfferedTo(c, Accept(c, r), r)
<1> DEFINE item == r.item
           t == Triple(item)
           S == c.seen \cup {t}
           later == [c EXCEPT !.seen = @ \cup {t}]
           ws == r.warnings \cup AcceptWarnings(c, item)
<1>1. DOMAIN c = {"items", "outcomes", "seen"} /\ "item" \in DOMAIN r
  BY DEF Tidy, IsItem
<1>2. CASE ValidateItem(item) # None
  <2>1. Accept(c, r) = Aside(c, [failed |-> ValidateItem(item)], c.seen)
    BY <1>1, <1>2, RowsAside DEF Accept
  <2>. QED
    BY <1>1, <2>1, FailTells
<1>3. CASE ValidateItem(item) = None /\ policy = "Skip" /\ (t \in c.seen \/ t \in vault)
  <2>1. PICK reason \in {"DuplicateInBatch", "DuplicateOfExisting"} : Accept(c, r) = SkipRow([c EXCEPT !.seen = S], reason)
    BY <1>3 DEF Accept, KnownTriple
  <2>2. t \in vault \cup TriplesOf(c)
    BY <1>3 DEF Tidy, NoDoubles
  <2> HIDE DEF S, later
  <2>3. Accept(c, r) = Aside(c, [skipped |-> reason], S)
    BY <1>1, <2>1, RowsAside
  <2>. QED
    BY <1>1, <1>3, <2>2, <2>3, SkipTells
<1>4. CASE ValidateItem(item) = None /\ ~(policy = "Skip" /\ (t \in c.seen \/ t \in vault))
  <2>1. Accept(c, r) = [later EXCEPT !.items = Append(@, item),
                          !.outcomes = Append(@, [item |-> Len(c.items) + 1, warnings |-> ws])]
    BY <1>4 DEF Accept, KnownTriple, ItemRef
  <2> HIDE DEF item, ws
  <2>2. Accept(c, r) = TakenFrom(c, item, ws)
    BY <1>1, <2>1 DEF TakenFrom
  <2> DEFINE d == TakenFrom(c, item, ws)
             o == d.outcomes[Len(c.outcomes) + 1]
  <2>3. /\ GrewTo(c, d) /\ o = [item |-> Len(c.items) + 1, warnings |-> ws]
        /\ o.item \in 1 .. Len(d.items) /\ d.items[o.item] = item
    BY TakenIsLater
  <2>4. "item" \in DOMAIN o /\ o.warnings = ws
    <3> HIDE DEF o
    <3>. QED
      BY <2>3
  <2>5. Reports(d, policy, vault, o, r)
    <3> HIDE DEF d, o
    <3>. QED
      BY <1>1, <2>3, <2>4 DEF Reports, item, ws
  <2>. QED
    BY <2>2, <2>3, <2>5 DEF OfferedTo
<1>. QED
  BY <1>2, <1>3, <1>4

LEMMA OfferTells ==
  ASSUME NEW c, Tidy(c, policy, vault), NEW r, IsResult(r)
  PROVE  OfferedTo(c, Offer(c, r), r)
<1>1. DOMAIN c = {"items", "outcomes", "seen"}
  BY DEF Tidy
<1>2. CASE IsItem(r)
  <2>1. Offer(c, r) = Accept(c, r)
    BY <1>2 DEF Offer, IsItem
  <2>. QED
    BY <1>2, <2>1, AcceptTells
<1>3. CASE \E reason \in SkipReasons : r = Skip(reason)
  <2>1. PICK reason \in SkipReasons : r = Skip(reason)
    BY <1>3
  <2>2. Offer(c, r) = SkipRow(c, reason) /\ "skip" \in DOMAIN r /\ reason = r.skip
    BY <2>1 DEF Offer, Skip
  <2>3. Offer(c, r) = Aside(c, [skipped |-> reason], c.seen)
    BY <1>1, <2>2, RowsAside
  <2>. QED
    BY <2>2, <2>3, SkipTells
<1>4. CASE IsFailed(r)
  <2>1. PICK e \in RowErrors : r = Fail(e)
    BY <1>4 DEF IsFailed
  <2>2. Offer(c, r) = FailRow(c, e) /\ "fail" \in DOMAIN r /\ e = r.fail
    BY <2>1 DEF Offer, Fail
  <2>3. Offer(c, r) = Aside(c, [failed |-> e], c.seen)
    BY <1>1, <2>2, RowsAside
  <2>. QED
    BY <2>2, <2>3, FailTells
<1>. QED
  BY <1>2, <1>3, <1>4 DEF IsResult, IsMade

\* The results of a row, one after the other.
LEMMA OfferRuns ==
  ASSUME NEW c, NEW results, NEW n \in Nat
  PROVE  \E f : /\ f[0] = c /\ OfferAll(c, results, n) = f[n]
                /\ \A k \in Nat : k < n => f[k + 1] = Offer(f[k], results[k + 1])
<1> DEFINE Loops(m, f) == f = [k \in 0 .. m |-> IF k = 0 THEN c ELSE Offer(f[k - 1], results[k])]
           T == {m \in Nat : \E f : Loops(m, f)}
<1>1. 0 \in T
  <2>1. Loops(0, [k \in 0 .. 0 |-> c])
    OBVIOUS
  <2> HIDE DEF Loops
  <2>. QED
    BY <2>1
<1>2. ASSUME NEW m \in Nat, m \in T PROVE m + 1 \in T
  <2>1. PICK f : Loops(m, f)
    BY <1>2
  <2> DEFINE g == [k \in 0 .. m + 1 |-> IF k = m + 1 THEN Offer(f[m], results[m + 1]) ELSE f[k]]
  <2>2. \A k \in 0 .. m + 1 : g[k] = IF k = 0 THEN c ELSE Offer(g[k - 1], results[k])
    BY <2>1
  <2>3. Loops(m + 1, g)
    BY <2>2
  <2> HIDE DEF Loops, g
  <2>. QED
    BY <2>3
<1>3. \E f : Loops(n, f)
  <2>1. \A k \in Nat : k < n /\ k \in T => k + 1 \in T
    <3> HIDE DEF T
    <3>. QED
      BY <1>2
  <2> HIDE DEF T
  <2>2. \A k \in 0 .. n : k \in T
    BY <1>1, <2>1, StepByStep
  <2>3. n \in T
    BY <2>2
  <2>. QED
    BY <2>3 DEF T
<1>4. PICK f : Loops(n, f) /\ OfferAll(c, results, n) = f[n]
  <2>1. OfferAll(c, results, n) = (CHOOSE f : Loops(n, f))[n]
    BY DEF OfferAll
  <2> HIDE DEF Loops
  <2>. QED
    BY <1>3, <2>1
<1>5. f[0] = c
  BY <1>4
<1>6. ASSUME NEW k \in Nat, k < n PROVE f[k + 1] = Offer(f[k], results[k + 1])
  <2>1. k + 1 \in 0 .. n /\ k + 1 # 0 /\ (k + 1) - 1 = k
    BY <1>6
  <2>. QED
    BY <1>4, <2>1
<1>. QED
  BY <1>4, <1>5, <1>6

LEMMA AllOffered ==
  ASSUME NEW c, Tidy(c, policy, vault), NEW results, NEW n \in Nat, \A i \in 1 .. n : IsResult(results[i])
  PROVE  LET d == OfferAll(c, results, n) IN
         /\ Tidy(d, policy, vault) /\ Len(d.outcomes) = Len(c.outcomes) + n /\ GrewTo(c, d)
         /\ \A i \in 1 .. n : Reports(d, policy, vault, d.outcomes[Len(c.outcomes) + i], results[i])
<1>1. PICK f : /\ f[0] = c /\ OfferAll(c, results, n) = f[n]
               /\ \A k \in Nat : k < n => f[k + 1] = Offer(f[k], results[k + 1])
  BY OfferRuns
<1> DEFINE a == Len(c.outcomes)
           Reported(k) == \A i \in 1 .. k : Reports(f[k], policy, vault, f[k].outcomes[a + i], results[i])
           T == {k \in Nat : Tidy(f[k], policy, vault) /\ Len(f[k].outcomes) = a + k /\ GrewTo(c, f[k]) /\ Reported(k)}
<1>2. a \in Nat /\ Len(c.items) \in Nat
  BY LenProperties DEF Tidy, Numbered
<1>3. 0 \in T
  <2>1. Len(f[0].outcomes) = a + 0 /\ GrewTo(c, f[0]) /\ Reported(0)
    BY <1>1, <1>2 DEF GrewTo
  <2> HIDE DEF a, Reported
  <2>. QED
    BY <1>1, <2>1
<1> HIDE DEF a
<1>4. ASSUME NEW k \in Nat, k < n, k \in T PROVE k + 1 \in T
  <2>1. k + 1 \in 1 .. n
    BY <1>4
  <2>2. IsResult(results[k + 1]) /\ f[k + 1] = Offer(f[k], results[k + 1])
    BY <1>1, <1>4, <2>1
  <2>3. Tidy(f[k + 1], policy, vault) /\ Len(f[k + 1].outcomes) = Len(f[k].outcomes) + 1
    BY <1>4, <2>2, OfferTidy
  <2>4. OfferedTo(f[k], f[k + 1], results[k + 1])
    BY <1>4, <2>2, OfferTells
  <2>5. GrewTo(f[k], f[k + 1]) /\ GrewTo(c, f[k + 1])
    BY <1>4, <2>4, LaterIsLate DEF OfferedTo
  <2>6. Len(f[k].outcomes) + 1 = a + (k + 1) /\ Len(f[k].outcomes) = a + k
    BY <1>2, <1>4
  <2>7. ASSUME NEW i \in 1 .. k + 1 PROVE Reports(f[k + 1], policy, vault, f[k + 1].outcomes[a + i], results[i])
    <3>1. CASE i = k + 1
      <4>1. Reports(f[k + 1], policy, vault, f[k + 1].outcomes[Len(f[k].outcomes) + 1], results[k + 1])
        BY <2>4 DEF OfferedTo
      <4>. QED
        BY <2>6, <3>1, <4>1
    <3>2. CASE i \in 1 .. k
      <4>1. Reports(f[k], policy, vault, f[k].outcomes[a + i], results[i])
        BY <1>4, <3>2
      <4>2. a + i \in 1 .. Len(f[k].outcomes)
        BY <1>2, <2>6, <3>2
      <4>3. f[k + 1].outcomes[a + i] = f[k].outcomes[a + i]
        BY <2>5, <4>2 DEF GrewTo
      <4>. QED
        BY <2>5, <4>1, <4>3, ToldStays
    <3>. QED
      BY <3>1, <3>2
  <2>8. Reported(k + 1)
    BY <2>7
  <2> HIDE DEF Reported
  <2>. QED
    BY <2>3, <2>5, <2>6, <2>8
<1> HIDE DEF T
<1>5. \A k \in 0 .. n : k \in T
  BY <1>3, <1>4, StepByStep
<1>6. n \in T
  BY <1>5
<1>. QED
  BY <1>1, <1>6 DEF T, a

(***************************************************************************)
(* Rows and their outcomes.                                                *)
(***************************************************************************)
\* The rows of a file are what its reader is given.
LEMMA FileRowsTyped ==
  ASSUME NEW n \in DOMAIN Files, NEW rows, rows = RowsOf(Files[n], Detect(Files[n])),
         Detect(Files[n]) = "proton" => "rows" \in DOMAIN Files[n],
         NEW k \in Nat, k > 0, k <= Len(rows)
  PROVE  RowTyped(Detect(Files[n]), rows[k])
<1> DEFINE f == Files[n]
           format == Detect(f)
<1>1. CASE format = "proton"
  <2>1. /\ f.rows \in Seq(ToSet(f.rows))
        /\ \A row \in {f.rows[i] : i \in DOMAIN f.rows} :
             Get(row, "extraFields") # None => row.extraFields \in Seq(ToSet(row.extraFields))
    BY <1>1, FilesAssumption
  <2>2. rows = f.rows
    BY <1>1 DEF RowsOf
  <2>3. k \in DOMAIN f.rows
    BY <2>1, <2>2, LenProperties
  <2> HIDE DEF f
  <2>4. Get(rows[k], "extraFields") # None => rows[k].extraFields \in Seq(ToSet(rows[k].extraFields))
    BY <2>1, <2>2, <2>3
  <2>. QED
    BY <1>1, <2>4 DEF RowTyped, f
<1>2. CASE format = "migration"
  <2> DEFINE places == {i \in DOMAIN f.rows : IsUriLine(f.rows[i])}
             Lines == {f.rows[i] : i \in {j \in DOMAIN f.rows : j \in places}}
  <2>1. /\ f.rows \in Seq(ToSet(f.rows))
        /\ \A row \in {r \in {f.rows[i] : i \in DOMAIN f.rows} : IsUriLine(r)} :
             IF "payload" \in DOMAIN row
             THEN row.payload.parts \in Seq(ToSet(row.payload.parts)) /\ {row.payload.index, row.payload.total} \subseteq Nat
             ELSE row.broken \in ImportErrors
    BY <1>2, FilesAssumption
  <2>2. rows = Chosen(f.rows, places)
    BY <1>2 DEF RowsOf
  <2> HIDE DEF f
  <2>3. \A x \in Lines : x \in {r \in {f.rows[i] : i \in DOMAIN f.rows} : IsUriLine(r)}
    OBVIOUS
  <2>4. rows \in Seq(Lines)
    <3> HIDE DEF places
    <3>. QED
      BY <2>1, <2>2, ChosenAreOfList
  <2> HIDE DEF Lines
  <2>5. rows[k] \in Lines
    BY <2>4, LenProperties
  <2> DEFINE row == rows[k]
  <2>6. IF "payload" \in DOMAIN row
        THEN row.payload.parts \in Seq(ToSet(row.payload.parts)) /\ {row.payload.index, row.payload.total} \subseteq Nat
        ELSE row.broken \in ImportErrors
    BY <2>1, <2>3, <2>5
  <2>. QED
    BY <1>2, <2>6 DEF RowTyped, f
<1>3. CASE format \notin {"proton", "migration"}
  BY <1>3 DEF RowTyped
<1>. QED
  BY <1>1, <1>2, <1>3

\* The lines of a migration are a list.
LEMMA LinesAreList ==
  ASSUME NEW n \in DOMAIN Files, Detect(Files[n]) = "migration"
  PROVE  LET rows == RowsOf(Files[n], "migration")
         IN Len(rows) \in Nat /\ DOMAIN rows = 1 .. Len(rows)
<1> DEFINE f == Files[n]
           places == {i \in DOMAIN f.rows : IsUriLine(f.rows[i])}
           rows == RowsOf(f, "migration")
<1>1. f.rows \in Seq(ToSet(f.rows))
  BY FilesAssumption
<1>2. rows = Chosen(f.rows, places)
  BY DEF RowsOf
<1> HIDE DEF f, places, rows
<1>3. rows \in Seq({f.rows[i] : i \in {j \in DOMAIN f.rows : j \in places}})
  BY <1>1, <1>2, ChosenAreOfList
<1>4. Len(rows) \in Nat /\ DOMAIN rows = 1 .. Len(rows)
  BY <1>3, LenProperties
<1>. QED
  BY <1>4 DEF rows, f

\* A Proton export that is opened has its rows.
LEMMA ProtonHasRows ==
  ASSUME NEW f, NEW pass, FileError(f, "proton", pass) = None
  PROVE  "rows" \in DOMAIN f
<1> DEFINE a == WantsObject(f)
           b == IF Get(f, "encrypted") = TRUE THEN "EncryptedNotSupported" ELSE None
           c == Wants(f, "rows")
           errors == <<a, b, c>>
           found == {i \in DOMAIN errors : errors[i] # None}
           one == CHOOSE i \in found : \A j \in found : i <= j
<1>1. FirstOf(errors) = None
  <2>1. f.broken = None
    BY DEF FileError
  <2>. QED
    BY <2>1 DEF FileError, OpenProton
<1> HIDE DEF a, b, c
<1>2. DOMAIN errors = 1 .. 3 /\ errors[3] = c
  OBVIOUS
<1> HIDE DEF errors
<1>3. FirstOf(errors) = IF found = {} THEN None ELSE errors[one]
  BY DEF FirstOf
<1>4. found # {} => errors[one] # None
  <2>1. 3 \in Nat /\ found \subseteq 1 .. 3
    BY <1>2
  <2>2. IsFiniteSet(found) /\ found \subseteq Nat
    <3> HIDE DEF found
    <3>. QED
      BY <2>1, PlacesAreFinite
  <2>3. found # {} => one \in found
    <3> HIDE DEF found
    <3>. QED
      BY <2>2, LeastIsOne
  <2> HIDE DEF one
  <2>. QED
    BY <2>3
<1>5. 3 \notin found
  <2> HIDE DEF found, one
  <2>. QED
    BY <1>1, <1>3, <1>4
<1>6. c = None
  BY <1>2, <1>5
<1>7. "MissingField" # None
  BY FilesAssumption DEF ImportErrors
<1>. QED
  BY <1>6, <1>7 DEF c, Wants

\* The results of one row more.
Cells(f, format, rows, n) == UNION {{k} \X DOMAIN Read(f, format, rows[k]) : k \in 1 .. n}
LEMMA CellsGrow ==
  ASSUME NEW f, NEW format, NEW rows, NEW n \in Nat,
         \A k \in 1 .. n + 1 : Len(Read(f, format, rows[k])) \in Nat
                               /\ DOMAIN Read(f, format, rows[k]) = 1 .. Len(Read(f, format, rows[k])),
         IsFiniteSet(Cells(f, format, rows, n))
  PROVE  /\ IsFiniteSet(Cells(f, format, rows, n + 1))
         /\ Cardinality(Cells(f, format, rows, n + 1)) =
              Cardinality(Cells(f, format, rows, n)) + Len(Read(f, format, rows[n + 1]))
<1> DEFINE m == Len(Read(f, format, rows[n + 1]))
           old == Cells(f, format, rows, n)
           new == {n + 1} \X (1 .. m)
<1>0. n + 1 \in 1 .. n + 1
  OBVIOUS
<1>1. m \in Nat /\ DOMAIN Read(f, format, rows[n + 1]) = 1 .. m
  BY <1>0
<1>2. Cells(f, format, rows, n + 1) = old \cup new
  <2> DEFINE Of(k) == {k} \X DOMAIN Read(f, format, rows[k])
  <2>1. Of(n + 1) = new
    BY <1>1
  <2>2. \A k : k \in 1 .. n + 1 <=> k \in 1 .. n \/ k = n + 1
    OBVIOUS
  <2>3. Cells(f, format, rows, n + 1) = UNION {Of(k) : k \in 1 .. n + 1} /\ old = UNION {Of(k) : k \in 1 .. n}
    BY DEF Cells
  <2> HIDE DEF Of, new, old
  <2>. QED
    BY <2>1, <2>2, <2>3
<1>3. old \cap new = {}
  <2>1. \A x \in new : x[1] = n + 1
    OBVIOUS
  <2>2. \A x \in old : x[1] \in 1 .. n
    BY DEF Cells
  <2> HIDE DEF old, new
  <2>. QED
    BY <2>1, <2>2
<1> HIDE DEF m
<1>4. IsFiniteSet(new) /\ Cardinality(new) = m
  <2>1. IsFiniteSet({n + 1}) /\ Cardinality({n + 1}) = 1
    BY FS_Singleton
  <2>2. IsFiniteSet(1 .. m) /\ Cardinality(1 .. m) = m
    BY <1>1, FS_Interval
  <2>3. IsFiniteSet(new) /\ Cardinality(new) = Cardinality({n + 1}) * Cardinality(1 .. m)
    BY <2>1, <2>2, FS_Product
  <2>. QED
    BY <1>1, <2>1, <2>2, <2>3
<1> HIDE DEF old, new
<1>5. IsFiniteSet(old) /\ Cardinality(old) \in Nat
  BY FS_CardinalityType DEF old
<1>6. Cardinality({}) = 0
  BY FS_EmptySet
<1>7. IsFiniteSet(old \cup new) /\ Cardinality(old \cup new) = Cardinality(old) + Cardinality(new) - Cardinality(old \cap new)
  BY <1>4, <1>5, FS_Union
<1>8. Cardinality(old \cup new) = Cardinality(old) + m
  <2>1. Cardinality(old \cap new) = 0
    BY <1>3, <1>6
  <2> DEFINE x == Cardinality(old)
             y == Cardinality(new)
             z == Cardinality(old \cap new)
             w == Cardinality(old \cup new)
  <2>2. x \in Nat /\ y = m /\ m \in Nat /\ z = 0 /\ w = x + y - z
    BY <1>1, <1>4, <1>5, <1>7, <2>1
  <2> HIDE DEF x, y, z, w
  <2>3. w = x + m
    BY <2>2
  <2>. QED
    BY <2>3 DEF x, w
<1>. QED
  BY <1>2, <1>7, <1>8 DEF m, old

LEMMA CellsFinite ==
  ASSUME NEW f, NEW format, NEW rows, NEW n \in Nat,
         \A k \in 1 .. n : Len(Read(f, format, rows[k])) \in Nat
                           /\ DOMAIN Read(f, format, rows[k]) = 1 .. Len(Read(f, format, rows[k]))
  PROVE  IsFiniteSet(Cells(f, format, rows, n))
<1> DEFINE T == {k \in Nat : IsFiniteSet(Cells(f, format, rows, k))}
<1>1. 0 \in T
  <2>1. Cells(f, format, rows, 0) = {}
    BY DEF Cells
  <2>. QED
    BY <2>1, FS_EmptySet
<1>2. ASSUME NEW k \in Nat, k < n, k \in T PROVE k + 1 \in T
  <2>1. \A j \in 1 .. k + 1 : j \in 1 .. n
    BY <1>2
  <2>2. \A j \in 1 .. k + 1 : Len(Read(f, format, rows[j])) \in Nat
                              /\ DOMAIN Read(f, format, rows[j]) = 1 .. Len(Read(f, format, rows[j]))
    BY <2>1
  <2>3. IsFiniteSet(Cells(f, format, rows, k + 1))
    BY <1>2, <2>2, CellsGrow
  <2>. QED
    BY <2>3
<1> HIDE DEF T
<1>3. \A k \in 0 .. n : k \in T
  BY <1>1, <1>2, StepByStep
<1>4. n \in T
  BY <1>3
<1>. QED
  BY <1>4 DEF T

\* The parts of one line more.
LEMMA PartsGrow ==
  ASSUME NEW parts, NEW rows, NEW n \in Nat, PartsNoted(parts, rows, n), rows[n + 1].payload.total \in Nat
  PROVE  PartsNoted(NoteBatchPart(parts, rows[n + 1].payload), rows, n + 1)
<1> DEFINE p1 == rows[n + 1].payload
           new == [index |-> p1.index, total |-> p1.total]
           all == NoteBatchPart(parts, p1)
<1>1. \A k : k \in 1 .. n + 1 <=> k \in 1 .. n \/ k = n + 1
  OBVIOUS
<1>2. new.index = p1.index
  OBVIOUS
<1>3. /\ parts \subseteq all /\ \A p \in all : p \in parts \/ (p = new /\ p1.total > 1)
      /\ p1.total > 1 => (\E p \in parts : p.index = p1.index) \/ new \in all
  BY DEF NoteBatchPart
<1> HIDE DEF all, new
<1>4. /\ \A k \in 1 .. n :
           /\ rows[k].payload.total \in Nat
           /\ rows[k].payload.total > 1 => \E p \in parts : p.index = rows[k].payload.index
      /\ \A p \in parts : \E k \in 1 .. n :
           rows[k].payload.total > 1 /\ p = [index |-> rows[k].payload.index, total |-> rows[k].payload.total]
  BY DEF PartsNoted
<1>5. ASSUME NEW k \in 1 .. n + 1
      PROVE  /\ rows[k].payload.total \in Nat
             /\ rows[k].payload.total > 1 => \E p \in all : p.index = rows[k].payload.index
  BY <1>1, <1>2, <1>3, <1>4
<1>6. ASSUME NEW p \in all
      PROVE  \E k \in 1 .. n + 1 :
               rows[k].payload.total > 1 /\ p = [index |-> rows[k].payload.index, total |-> rows[k].payload.total]
  <2>1. CASE p \in parts
    BY <1>1, <1>4, <2>1
  <2>2. CASE p = new /\ p1.total > 1
    BY <1>1, <2>2 DEF new
  <2>. QED
    BY <1>3, <2>1, <2>2
<1>. QED
  BY <1>5, <1>6 DEF PartsNoted, all

\* All other readers give one result a row.
LEMMA OneOfARow ==
  ASSUME NEW f, NEW format \in SourceFormats \ {"migration", "csv", "proton"}, NEW row
  PROVE  Len(Read(f, format, row)) = 1
  BY DEF Read, SourceFormats

\* The scanner of CSV stops at the limit, and nowhere else.
LEMMA CsvIsCut ==
  ASSUME NEW f, f.rows \in Seq(ToSet(f.rows)), MaxRows \in Nat, Len(CsvRows(f)) < Len(f.rows)
  PROVE  MaxRows \in {Len(CsvRows(f)), Len(CsvRows(f)) + 1}
<1> DEFINE s == f.rows
           n == IF f.header # None THEN MaxRows - 1 ELSE MaxRows
           m == IF Len(s) < n THEN Len(s) ELSE n
<1>1. Len(s) \in Nat /\ n \in Int /\ n >= -1 /\ m \in Int /\ m <= Len(s) /\ n \in {MaxRows, MaxRows - 1}
  BY LenProperties
<1>2. CsvRows(f) = SubSeq(s, 1, m)
  BY DEF CsvRows, Take
<1> HIDE DEF s
<1>3. s \in Seq(ToSet(s))
  BY DEF s
<1>4. Len(SubSeq(s, 1, m)) = IF m < 1 THEN 0 ELSE m
  <2> HIDE DEF m
  <2>. QED
    BY <1>1, <1>3, SubSeqProperties
<1>5. Len(CsvRows(f)) < Len(s)
  BY DEF s
<1> HIDE DEF n
<1>. QED
  BY <1>1, <1>2, <1>4, <1>5

LEMMA NothingIsTidy ==
  ASSUME NEW how, NEW known
  PROVE  /\ Tidy([items |-> << >>, outcomes |-> << >>, seen |-> {}], how, known) /\ Len(<< >>) = 0
         /\ \A rows : PartsNoted({}, rows, 0)
         /\ \A f, format, rows : Cardinality(Cells(f, format, rows, 0)) = 0
<1> DEFINE none == << >>
           c == [items |-> none, outcomes |-> none, seen |-> {}]
<1>1. none \in Seq({}) /\ Len(none) = 0 /\ DOMAIN none = {}
  OBVIOUS
<1>2. DOMAIN c = {"items", "outcomes", "seen"} /\ c.items = none /\ c.outcomes = none /\ c.seen = {}
  OBVIOUS
<1> HIDE DEF none
<1>3. none \in Seq(ToSet(none))
  BY <1>1, OwnList
<1> HIDE DEF c
<1>4. ImportedIn(none) = {} /\ Cardinality({}) = 0
  BY <1>1, FS_EmptySet DEF ImportedIn
<1>5. Numbered(c)
  BY <1>1, <1>2, <1>3, <1>4 DEF Numbered
<1>6. NoDoubles(c, how, known)
  BY <1>1, <1>2 DEF NoDoubles, TriplesOf
<1>7. PointedOut(c, known)
  BY <1>2, <1>4 DEF PointedOut
<1>8. \A rows : PartsNoted({}, rows, 0)
  BY DEF PartsNoted
<1>9. \A f, format, rows : Cells(f, format, rows, 0) = {}
  BY DEF Cells
<1>. QED
  BY <1>1, <1>2, <1>4, <1>5, <1>6, <1>7, <1>8, <1>9 DEF Tidy, c, none

(***************************************************************************)
(* The steps of an import.                                                 *)
(***************************************************************************)
\* The rows of the file that is read, up to the one that is next, give lists of results.
LEMMA RowsGiveResults ==
  ASSUME ImportInv, file # None, importError = None, NEW n \in Nat, n <= Len(file.rows), NEW k \in 1 .. n
  PROVE  /\ RowTyped(file.format, file.rows[k])
         /\ AreResults(Read(From, file.format, file.rows[k]))
         /\ Len(Read(From, file.format, file.rows[k])) \in Nat
         /\ DOMAIN Read(From, file.format, file.rows[k]) = 1 .. Len(Read(From, file.format, file.rows[k]))
<1> DEFINE row == file.rows[k]
           rs == Read(From, file.format, row)
<1>1. /\ file.number \in DOMAIN Files /\ file.format = Detect(From) /\ file.format # None
      /\ file.rows = RowsOf(From, file.format) /\ (file.format = "proton" => "rows" \in DOMAIN From)
  BY DEF ImportInv, ReadSoFar
<1>2. k \in Nat /\ k > 0 /\ k <= Len(file.rows)
  OBVIOUS
<1>3. RowTyped(file.format, row)
  BY <1>1, <1>2, FileRowsTyped DEF From
<1>4. file.format \in SourceFormats
  BY <1>1, DetectedFormat
<1> HIDE DEF row
<1>5. AreResults(rs)
  BY <1>3, <1>4, ReadIsList
<1> HIDE DEF rs
<1>6. Len(rs) \in Nat /\ DOMAIN rs = 1 .. Len(rs)
  BY <1>5, LenProperties DEF AreResults
<1>. QED
  BY <1>3, <1>5, <1>6 DEF rs, row

LEMMA ImportStarts == ImportInit => ImportInv
<1> SUFFICES ASSUME ImportInit PROVE ImportInv
  OBVIOUS
<1>1. /\ file = None /\ finished = FALSE /\ importError = None /\ at = 0
      /\ Collector = [items |-> << >>, outcomes |-> << >>, seen |-> {}] /\ outcomes = << >>
  BY DEF ImportInit, Collector
<1>2. Tidy(Collector, policy, vault) /\ Len(outcomes) = 0
  BY <1>1, NothingIsTidy
<1>3. MaxRows \in Nat
  BY FilesAssumption
<1>. QED
  BY <1>1, <1>2, <1>3 DEF ImportInv

\* A report that is dropped leaves nothing behind.
LEMMA CloseKeeps ==
  ASSUME Close
  PROVE  ImportInv'
<1>1. /\ file' = None /\ finished' = FALSE /\ importError' = None /\ at' = 0
      /\ Collector' = [items |-> << >>, outcomes |-> << >>, seen |-> {}] /\ outcomes' = << >>
  BY DEF Close, Collector
<1>2. Tidy(Collector', policy', vault') /\ Len(outcomes') = 0
  BY <1>1, NothingIsTidy
<1>3. MaxRows \in Nat
  BY FilesAssumption
<1>. QED
  BY <1>1, <1>2, <1>3 DEF ImportInv

LEMMA OpenFileKeeps ==
  ASSUME NEW n \in DOMAIN Files, NEW context, OpenFile(n, context)
  PROVE  ImportInv'
<1> DEFINE f == Files[n]
           format == Detect(f)
           pass == context.passphrase
           error == IF format = None THEN "UnrecognizedFormat" ELSE FileError(f, format, pass)
<1>1. /\ file'.number = n /\ file'.format = format
      /\ file'.rows = IF error = None THEN RowsOf(f, format) ELSE << >>
      /\ at' = 0 /\ batch_parts' = {} /\ importError' = error /\ finished' = (error # None)
      /\ Collector' = [items |-> << >>, outcomes |-> << >>, seen |-> {}] /\ outcomes' = << >>
  BY DEF OpenFile, OpenAs, Collector
<1>2. From' = f
  BY <1>1 DEF From
<1>3. Tidy(Collector', policy', vault') /\ Len(outcomes') = 0
  BY <1>1, NothingIsTidy
<1>4. MaxRows \in Nat /\ "UnrecognizedFormat" # None
  BY FilesAssumption DEF ImportErrors
<1>5. error \in ImportErrors \cup {None}
  BY FileErrorIsOne, ErrorNames DEF FileErrors
<1>6. ASSUME error = None PROVE ReadSoFar'
  <2>1. format # None /\ FileError(f, format, pass) = None
    BY <1>4, <1>6
  <2>2. format = "proton" => "rows" \in DOMAIN f
    BY <2>1, ProtonHasRows
  <2>3. Cardinality(ResultsUpTo(at)') = 0
    <3>1. ResultsUpTo(at)' = Cells(From', file'.format, file'.rows, 0)
      BY <1>1 DEF ResultsUpTo, Cells
    <3>. QED
      BY <3>1, NothingIsTidy
  <2>4. PartsNoted(batch_parts', file'.rows, at')
    BY <1>1, NothingIsTidy
  <2>5. InTheirPlaces(at)' /\ at' = 0
    BY <1>1 DEF InTheirPlaces
  <2> DEFINE none == Cardinality(ResultsUpTo(at)')
  <2>6. Len(outcomes') = IF file'.format = "proton" /\ none > MaxRows THEN MaxRows ELSE none
    <3> HIDE DEF none
    <3>. QED
      BY <1>3, <1>4, <2>3 DEF none
  <2>7. (finished => at = Len(file.rows))' /\ file'.rows = RowsOf(f, format)
    BY <1>1, <1>6
  <2> HIDE DEF f, format, error
  <2>. QED
    BY <1>1, <1>2, <2>1, <2>2, <2>4, <2>5, <2>6, <2>7 DEF ReadSoFar
<1> HIDE DEF f, error
<1>7. file'.number \in DOMAIN Files /\ file'.format = Detect(From')
  BY <1>1, <1>2
<1>8. at' \in Nat /\ Len(outcomes') <= MaxRows /\ importError' \in ImportErrors \cup {None}
  BY <1>1, <1>3, <1>4, <1>5
<1>9. (~finished' => importError' = None) /\ (importError' = None => ReadSoFar')
  BY <1>1, <1>6
<1>. QED
  BY <1>3, <1>7, <1>8, <1>9 DEF ImportInv

LEMMA FinishKeeps ==
  ASSUME ImportInv, Finish
  PROVE  ImportInv'
<1>1. /\ file # None /\ file' = file /\ at' = at /\ at = Len(file.rows) /\ finished' = TRUE /\ ~finished
      /\ batch_parts' = batch_parts /\ outcomes' = outcomes /\ Collector' = Collector
      /\ policy' = policy /\ vault' = vault /\ importError' \in {"UnrecognizedFormat", None}
  BY DEF Finish, Collector
<1>2. From' = From /\ ResultsUpTo(at)' = ResultsUpTo(at)
  BY <1>1 DEF From, ResultsUpTo
<1>3. ReadSoFar'
  <2>1. InTheirPlaces(at)' <=> InTheirPlaces(at)
    BY <1>1, <1>2 DEF InTheirPlaces, PlaceOf, ResultsUpTo
  <2>2. ReadSoFar
    BY <1>1 DEF ImportInv
  <2>. QED
    BY <1>1, <1>2, <2>1, <2>2 DEF ReadSoFar
<1>4. importError' \in ImportErrors \cup {None}
  BY <1>1 DEF ImportErrors
<1>. QED
  BY <1>1, <1>2, <1>3, <1>4 DEF ImportInv

LEMMA SameReport ==
  ASSUME NEW c, NEW how, NEW known, Tidy(c, how, known)
  PROVE  Tidy([items |-> c.items, outcomes |-> c.outcomes, seen |-> c.seen], how, known)
<1> DEFINE d == [items |-> c.items, outcomes |-> c.outcomes, seen |-> c.seen]
<1>1. DOMAIN d = {"items", "outcomes", "seen"} /\ d.items = c.items /\ d.outcomes = c.outcomes /\ d.seen = c.seen
  OBVIOUS
<1> HIDE DEF d
<1>2. Numbered(d)
  BY <1>1 DEF Tidy, Numbered
<1>3. TriplesOf(d) = TriplesOf(c)
  BY <1>1 DEF TriplesOf
<1>4. NoDoubles(d, how, known)
  BY <1>1, <1>3 DEF Tidy, NoDoubles
<1>5. PointedOut(c, known) => PointedOut(d, known)
  BY <1>1 DEF PointedOut
<1>. QED
  BY <1>1, <1>2, <1>4, <1>5 DEF Tidy, d

LEMMA ReadRowKeeps ==
  ASSUME ImportInv, ReadRow
  PROVE  ImportInv'
<1> DEFINE row == file.rows[at + 1]
           rs == Read(From, file.format, row)
           room == Room(rs)
           read == OfferAll(Collector, rs, room)
           error == IF RowError(row) # None THEN RowError(row) ELSE IF OutOfRoom(rs) THEN "TooManyRows" ELSE None
<1>1. /\ file # None /\ ~finished /\ at < Len(file.rows) /\ at' = at + 1 /\ file' = file /\ policy' = policy /\ vault' = vault
      /\ importError' = error /\ finished' = (error # None)
      /\ IF error = None
         THEN /\ Collector' = [items |-> read.items, outcomes |-> read.outcomes, seen |-> read.seen]
              /\ outcomes' = read.outcomes
              /\ batch_parts' = IF file.format = "migration" THEN NoteBatchPart(batch_parts, row.payload) ELSE batch_parts
         ELSE outcomes' = << >> /\ Collector' = [items |-> << >>, outcomes |-> << >>, seen |-> {}]
  BY DEF ReadRow, Offered, Collect, Collector
<1>2. /\ Tidy(Collector, policy, vault) /\ Len(outcomes) <= MaxRows /\ at \in Nat /\ importError = None
      /\ file.number \in DOMAIN Files /\ file.format = Detect(From)
      /\ file.format # None /\ file.rows = RowsOf(From, file.format)
      /\ Len(outcomes) = IF file.format = "proton" /\ Cardinality(ResultsUpTo(at)) > MaxRows
                         THEN MaxRows ELSE Cardinality(ResultsUpTo(at))
      /\ InTheirPlaces(at)
      /\ file.format = "migration" => PartsNoted(batch_parts, file.rows, at)
      /\ file.format = "proton" => "rows" \in DOMAIN From
  BY <1>1 DEF ImportInv, ReadSoFar
<1>3. From' = From
  BY <1>1 DEF From
<1>4. at + 1 \in Nat /\ at + 1 <= Len(file.rows) /\ at + 1 \in 1 .. at + 1 /\ MaxRows \in Nat
  BY <1>1, <1>2, FilesAssumption
<1>5. \A k \in 1 .. at + 1 :
        /\ RowTyped(file.format, file.rows[k])
        /\ AreResults(Read(From, file.format, file.rows[k]))
        /\ Len(Read(From, file.format, file.rows[k])) \in Nat
        /\ DOMAIN Read(From, file.format, file.rows[k]) = 1 .. Len(Read(From, file.format, file.rows[k]))
  BY <1>1, <1>2, <1>4, RowsGiveResults
<1>6. RowTyped(file.format, row) /\ AreResults(rs) /\ Len(rs) \in Nat
  BY <1>4, <1>5
<1>7. Len(outcomes) \in Nat /\ Collector.outcomes = outcomes
  <2>1. Collector.outcomes = outcomes
    BY DEF Collector
  <2>. QED
    BY <1>2, <2>1, LenProperties DEF Tidy, Numbered
<1>8. room \in Nat /\ room <= Len(rs) /\ room <= MaxRows - Len(outcomes)
      /\ (room < MaxRows - Len(outcomes) => room = Len(rs))
  <2> HIDE DEF rs
  <2>. QED
    BY <1>2, <1>4, <1>6, <1>7 DEF Room
<1>9. /\ Tidy(read, policy, vault) /\ Len(read.outcomes) = Len(outcomes) + room /\ GrewTo(Collector, read)
      /\ \A i \in 1 .. room : Reports(read, policy, vault, read.outcomes[Len(outcomes) + i], rs[i])
  <2>1. \A i \in 1 .. room : IsResult(rs[i])
    <3> HIDE DEF rs, room
    <3>. QED
      BY <1>6, <1>8 DEF AreResults
  <2> HIDE DEF rs, room
  <2>. QED
    BY <1>2, <1>7, <1>8, <2>1, AllOffered
<1>10. error \in ImportErrors \cup {None}
  <2>1. RowError(row) \in ImportErrors \cup {None}
    <3> HIDE DEF row
    <3>. QED
      BY <1>6, Results DEF RowError, RowTyped, MigrationPayload
  <2> HIDE DEF row, rs
  <2>. QED
    BY <2>1, ErrorNames DEF FileErrors
<1>11. CASE error # None
  <2>1. Tidy(Collector', policy', vault') /\ Len(outcomes') = 0
    BY <1>1, <1>11, NothingIsTidy
  <2> HIDE DEF error
  <2>2. at' \in Nat /\ Len(outcomes') <= MaxRows /\ importError' \in ImportErrors \cup {None} /\ importError' # None
    BY <1>1, <1>4, <1>10, <1>11, <2>1
  <2>3. file'.number \in DOMAIN Files /\ file'.format = Detect(From') /\ finished' = TRUE
    BY <1>1, <1>2, <1>3, <1>11
  <2>. QED
    BY <2>1, <2>2, <2>3 DEF ImportInv
<1>12. CASE error = None
  <2>1. Tidy(Collector', policy', vault')
    <3> HIDE DEF read, error
    <3>1. Collector' = [items |-> read.items, outcomes |-> read.outcomes, seen |-> read.seen]
      BY <1>1, <1>12
    <3>. QED
      BY <1>1, <1>9, <3>1, SameReport
  <2>2. outcomes' = read.outcomes /\ Collector'.outcomes = read.outcomes /\ Len(outcomes') = Len(outcomes) + room
    <3> HIDE DEF read, error, room
    <3>. QED
      BY <1>1, <1>9, <1>12
  <2> HIDE DEF read, error
  <2>3. /\ importError' = None /\ finished' = FALSE
        /\ batch_parts' = IF file.format = "migration" THEN NoteBatchPart(batch_parts, row.payload) ELSE batch_parts
    BY <1>1, <1>12
  <2>4. Len(outcomes') <= MaxRows
    <3> HIDE DEF room
    <3>. QED
      BY <1>4, <1>7, <1>8, <2>2
  <2> DEFINE had == Cardinality(ResultsUpTo(at))
             has == Cardinality(ResultsUpTo(at)')
  <2>5. had \in Nat /\ has = had + Len(rs)
    <3>1. ResultsUpTo(at) = Cells(From, file.format, file.rows, at)
      BY DEF ResultsUpTo, Cells
    <3>2. ResultsUpTo(at)' = Cells(From, file.format, file.rows, at + 1)
      BY <1>1, <1>3 DEF ResultsUpTo, Cells
    <3>3. \A k \in 1 .. at : k \in 1 .. at + 1
      BY <1>2
    <3>4. IsFiniteSet(Cells(From, file.format, file.rows, at))
      BY <1>2, <1>5, <3>3, CellsFinite
    <3>5. Cardinality(Cells(From, file.format, file.rows, at + 1)) =
            Cardinality(Cells(From, file.format, file.rows, at)) + Len(rs)
      BY <1>2, <1>5, <3>4, CellsGrow
    <3>. QED
      BY <3>1, <3>2, <3>4, <3>5, FS_CardinalityType
  <2>6. Len(outcomes) = had /\ (file.format # "proton" => room = Len(rs))
    <3>1. ~OutOfRoom(rs)
      <4>1. "TooManyRows" # None
        BY FilesAssumption DEF ImportErrors
      <4> HIDE DEF row, rs
      <4>. QED
        BY <1>12, <4>1 DEF error
    <3>2. IsFull(Collector) <=> Len(outcomes) >= MaxRows
      BY <1>7 DEF IsFull
    <3>3. file.format = "proton" => Len(outcomes) < MaxRows
      BY <1>4, <1>7, <3>1, <3>2 DEF OutOfRoom
    <3>4. file.format \in {"migration", "csv"} => Len(rs) <= room
      <4> HIDE DEF rs
      <4>. QED
        BY <1>4, <1>6, <1>7, <1>8, <3>1 DEF OutOfRoom
    <3>5. file.format \notin {"migration", "csv", "proton"} => Len(outcomes) < MaxRows /\ Len(rs) = 1
      <4>1. file.format \in SourceFormats
        BY <1>2, DetectedFormat
      <4>2. file.format \notin {"migration", "csv", "proton"} => Len(outcomes) < MaxRows
        BY <1>4, <1>7, <3>1, <3>2 DEF OutOfRoom
      <4>. QED
        BY <4>1, <4>2, OneOfARow
    <3> HIDE DEF rs, room, had
    <3>6. Len(outcomes) = had
      <4>1. Len(outcomes) = IF file.format = "proton" /\ had > MaxRows THEN MaxRows ELSE had
        BY <1>2 DEF had
      <4>. QED
        BY <1>4, <1>7, <2>5, <3>3, <4>1
    <3>7. CASE file.format \in {"migration", "csv"}
      <4>1. room = Len(rs)
        BY <1>6, <1>8, <3>4, <3>7
      <4>. QED
        BY <3>6, <4>1
    <3>8. CASE file.format \notin {"migration", "csv", "proton"}
      <4>1. Len(outcomes) < MaxRows /\ Len(rs) = 1
        BY <3>5, <3>8
      <4>2. room = Len(rs)
        BY <1>4, <1>7, <1>8, <4>1
      <4>. QED
        BY <3>6, <4>2
    <3>. QED
      BY <3>6, <3>7, <3>8
  <2>7. Len(outcomes') = IF file.format = "proton" /\ has > MaxRows THEN MaxRows ELSE has
    <3> HIDE DEF rs, room, had, has
    <3>. QED
      BY <1>4, <1>6, <1>7, <1>8, <2>2, <2>5, <2>6
  <2>8. InTheirPlaces(at)'
    <3> DEFINE Of(k) == Read(From, file.format, file.rows[k])
    <3> SUFFICES ASSUME NEW k \in 1 .. at + 1, NEW j \in DOMAIN Of(k)
                 PROVE  IF PlaceOf(k, j) <= Len(outcomes')
                        THEN Reports(Collector', policy, vault, outcomes'[PlaceOf(k, j)], Of(k)[j])
                        ELSE file.format = "proton" /\ Len(outcomes') >= MaxRows
      <4>1. \A k, j : PlaceOf(k, j)' = PlaceOf(k, j)
        BY <1>1, <1>3 DEF PlaceOf, ResultsUpTo
      <4>2. Collector'.outcomes = outcomes'
        BY <2>2
      <4>. QED
        BY <1>1, <1>3, <4>1, <4>2 DEF InTheirPlaces, IsFull
    <3>1. /\ Collector'.items = read.items /\ outcomes' = read.outcomes
          /\ \A o, r : Reports(read, policy, vault, o, r) => Reports(Collector', policy, vault, o, r)
      <4>1. Collector' = [items |-> read.items, outcomes |-> read.outcomes, seen |-> read.seen]
        BY <1>1, <1>12
      <4>2. Collector'.items = read.items /\ outcomes' = read.outcomes
        BY <2>2, <4>1
      <4>. QED
        BY <4>2 DEF Reports, TriplesOf
    <3>2. CASE k \in 1 .. at
      <4>1. IF PlaceOf(k, j) <= Len(outcomes)
            THEN Reports(Collector, policy, vault, outcomes[PlaceOf(k, j)], Of(k)[j])
            ELSE file.format = "proton" /\ Len(outcomes) >= MaxRows
        BY <1>2, <1>7, <3>2 DEF InTheirPlaces, IsFull
      <4>2. PlaceOf(k, j) \in Nat /\ PlaceOf(k, j) > 0
        <5>1. ResultsUpTo(k - 1) = Cells(From, file.format, file.rows, k - 1)
          BY DEF ResultsUpTo, Cells
        <5>2. k - 1 \in Nat /\ \A i \in 1 .. k - 1 : i \in 1 .. at + 1
          BY <1>2, <3>2
        <5>3. IsFiniteSet(ResultsUpTo(k - 1))
          BY <1>5, <5>1, <5>2, CellsFinite
        <5>4. Cardinality(ResultsUpTo(k - 1)) \in Nat
          BY <5>3, FS_CardinalityType
        <5>5. j \in Nat /\ j > 0
          BY <1>5
        <5>. QED
          BY <5>4, <5>5 DEF PlaceOf
      <4>3. CASE PlaceOf(k, j) <= Len(outcomes)
        <5>1. PlaceOf(k, j) \in 1 .. Len(Collector.outcomes)
          BY <1>7, <4>2, <4>3
        <5>2. outcomes'[PlaceOf(k, j)] = outcomes[PlaceOf(k, j)]
          BY <1>7, <1>9, <3>1, <5>1 DEF GrewTo
        <5>3. Reports(read, policy, vault, outcomes[PlaceOf(k, j)], Of(k)[j])
          BY <1>9, <4>1, <4>3, ToldStays
        <5>4. PlaceOf(k, j) <= Len(outcomes')
          <6> HIDE DEF room
          <6>. QED
            BY <1>7, <1>8, <2>2, <4>2, <4>3
        <5>. QED
          BY <3>1, <5>2, <5>3, <5>4
      <4>4. CASE ~(PlaceOf(k, j) <= Len(outcomes))
        <5>1. file.format = "proton" /\ Len(outcomes) >= MaxRows
          BY <4>1, <4>4
        <5>2. Len(outcomes') = Len(outcomes)
          <6> HIDE DEF room
          <6>. QED
            BY <1>4, <1>7, <1>8, <2>2, <5>1
        <5>. QED
          BY <4>4, <5>1, <5>2
      <4>. QED
        BY <4>3, <4>4
    <3>3. CASE k = at + 1
      <4>1. j \in 1 .. Len(rs) /\ Of(k) = rs
        BY <1>5, <3>3
      <4>2. PlaceOf(k, j) = Len(outcomes) + j
        <5>1. k - 1 = at
          BY <1>2, <3>3
        <5>. QED
          BY <2>6, <5>1 DEF PlaceOf
      <4> HIDE DEF rs, room
      <4>3. CASE j <= room
        <5>1. j \in 1 .. room /\ Len(outcomes) + j <= Len(outcomes')
          BY <1>6, <1>7, <1>8, <2>2, <4>1, <4>3
        <5>2. Reports(read, policy, vault, read.outcomes[Len(outcomes) + j], rs[j])
          BY <1>9, <5>1
        <5>. QED
          BY <3>1, <4>1, <4>2, <5>1, <5>2
      <4>4. CASE ~(j <= room)
        <5>1. room < Len(rs) /\ room = MaxRows - Len(outcomes)
          BY <1>4, <1>6, <1>7, <1>8, <4>1, <4>4
        <5>2. file.format = "proton" /\ Len(outcomes') >= MaxRows
          BY <1>4, <1>6, <1>7, <1>8, <2>2, <2>6, <5>1
        <5>3. ~(Len(outcomes) + j <= Len(outcomes'))
          BY <1>6, <1>7, <1>8, <2>2, <4>1, <4>4
        <5>. QED
          BY <4>2, <5>2, <5>3
      <4>. QED
        BY <4>3, <4>4
    <3>4. k \in 1 .. at \/ k = at + 1
      BY <1>2
    <3>. QED
      BY <3>2, <3>3, <3>4
  <2>9. ASSUME file.format = "migration" PROVE PartsNoted(batch_parts', file'.rows, at')
    <3>1. RowError(row) = None
      BY <1>12 DEF error
    <3>2. "payload" \in DOMAIN row
      <4> HIDE DEF row
      <4>1. ASSUME "payload" \notin DOMAIN row PROVE FALSE
        <5>1. row.broken \in ImportErrors /\ RowError(row) = row.broken
          BY <1>6, <2>9, <4>1, Results DEF RowTyped, RowError, MigrationPayload
        <5>. QED
          BY <3>1, <5>1, FilesAssumption
      <4>. QED
        BY <4>1
    <3>3. row.payload.total \in Nat
      <4> HIDE DEF row
      <4>. QED
        BY <1>6, <2>9, <3>2 DEF RowTyped
    <3>4. PartsNoted(NoteBatchPart(batch_parts, row.payload), file.rows, at + 1)
      BY <1>2, <2>9, <3>3, PartsGrow
    <3>. QED
      BY <1>1, <2>3, <2>9, <3>4
  <2>10. ReadSoFar'
    <3>1. Len(outcomes') = IF file'.format = "proton" /\ Cardinality(ResultsUpTo(at)') > MaxRows
                           THEN MaxRows ELSE Cardinality(ResultsUpTo(at)')
      BY <1>1, <2>7
    <3> HIDE DEF row, rs, room, had, has
    <3>. QED
      BY <1>1, <1>2, <1>3, <2>3, <2>8, <2>9, <3>1 DEF ReadSoFar
  <2>11. file'.number \in DOMAIN Files /\ file'.format = Detect(From') /\ at' \in Nat
    BY <1>1, <1>2, <1>3, <1>4
  <2> HIDE DEF row, rs, room
  <2>. QED
    BY <2>1, <2>3, <2>4, <2>10, <2>11 DEF ImportInv
<1>. QED
  BY <1>11, <1>12

(***************************************************************************)
(* What the invariant says of the report.                                  *)
(***************************************************************************)
LEMMA InvGivesTypes ==
  ASSUME ImportInv
  PROVE  ImportTypeOK
<1>1. Collector.items = items /\ Collector.outcomes = outcomes
  BY DEF Collector
<1>2. /\ items \in Seq(ToSet(items)) /\ outcomes \in Seq(ToSet(outcomes))
      /\ \A i \in 1 .. Len(outcomes) : OutcomeOk(outcomes[i])
      /\ Len(items) = Cardinality(ImportedIn(outcomes))
      /\ \A i \in ImportedIn(outcomes) : outcomes[i].item = RankIn(outcomes, i)
      /\ \A i \in 1 .. Len(items) : ValidateItem(items[i]) = None /\ CheckLen(items[i].otp.secret) = None
  BY <1>1 DEF ImportInv, Tidy, Numbered
<1>3. DOMAIN items = 1 .. Len(items) /\ DOMAIN outcomes = 1 .. Len(outcomes)
  BY <1>2, LenProperties
<1>4. Imported = ImportedIn(outcomes)
  BY DEF Imported, ImportedIn
<1>5. \A i \in Imported : outcomes[i].item = Cardinality({j \in Imported : j <= i})
  BY <1>2, <1>4 DEF RankIn
<1>6. \A item \in Items : ValidateItem(item) = None /\ CheckLen(item.otp.secret) = None
  BY <1>2, <1>3 DEF Items
<1>7. file # None => file.format \in SourceFormats \cup {None}
  BY DetectedFormat DEF ImportInv
<1>8. Len(items) = Cardinality(Imported) /\ \A i \in DOMAIN outcomes : OutcomeOk(outcomes[i])
  BY <1>2, <1>3, <1>4
<1>9. importError \in ImportErrors \cup {None} /\ Len(outcomes) <= MaxRows
  BY DEF ImportInv
<1>. QED
  BY <1>5, <1>6, <1>7, <1>8, <1>9 DEF ImportTypeOK

LEMMA InvGivesDuplicates ==
  ASSUME ImportInv
  PROVE  DuplicatesAreHeld
<1>1. Collector.items = items /\ Collector.outcomes = outcomes /\ Collector.seen = seen
  BY DEF Collector
<1>2. items \in Seq(ToSet(items))
  BY <1>1 DEF ImportInv, Tidy, Numbered
<1>3. DOMAIN items = 1 .. Len(items)
  BY <1>2, LenProperties
<1>4. Imported = ImportedIn(outcomes)
  BY DEF Imported, ImportedIn
<1>5. TriplesOf(Collector) = {Triple(item) : item \in Items}
  BY <1>1, <1>3 DEF TriplesOf, Items
<1>6. policy = "Skip" => /\ \A i, j \in DOMAIN items : i # j => Triple(items[i]) # Triple(items[j])
                         /\ \A item \in Items : Triple(item) \notin vault
  BY <1>1, <1>3 DEF ImportInv, Tidy, NoDoubles, Items
<1>7. seen \subseteq vault \cup {Triple(item) : item \in Items}
  BY <1>1, <1>5 DEF ImportInv, Tidy, NoDoubles
<1>8. policy = "Keep" => PointedOut(Collector, vault)
  BY DEF ImportInv, Tidy
<1>9. policy = "Keep" => \A i \in Imported :
        (\/ Triple(items[outcomes[i].item]) \in vault
         \/ \E j \in 1 .. (outcomes[i].item - 1) : Triple(items[j]) = Triple(items[outcomes[i].item]))
          => <<"DuplicateOfExisting", "">> \in outcomes[i].warnings
  BY <1>1, <1>4, <1>8 DEF PointedOut
<1>. QED
  BY <1>6, <1>7, <1>9 DEF DuplicatesAreHeld

LEMMA InvGivesRows ==
  ASSUME ImportInv
  PROVE  RowsAccounted
<1> SUFFICES ASSUME finished, importError = None
             PROVE  /\ InTheirPlaces(Len(file.rows))
                    /\ ~CutShort => Len(outcomes) = Cardinality(ResultsUpTo(Len(file.rows)))
                    /\ CutShort => MaxRows \in {Len(outcomes), Len(file.rows), Len(file.rows) + 1}
  BY DEF RowsAccounted
<1>1. /\ at = Len(file.rows) /\ InTheirPlaces(at) /\ file.rows = RowsOf(From, file.format)
      /\ Len(outcomes) = IF file.format = "proton" /\ Cardinality(ResultsUpTo(at)) > MaxRows
                         THEN MaxRows ELSE Cardinality(ResultsUpTo(at))
      /\ file.number \in DOMAIN Files /\ file.format = Detect(From)
  BY DEF ImportInv, ReadSoFar
<1>2. ASSUME file.format = "csv", Len(file.rows) < Len(From.rows)
      PROVE  MaxRows \in {Len(file.rows), Len(file.rows) + 1}
  <2>1. file.rows = CsvRows(From)
    BY <1>1, <1>2 DEF RowsOf
  <2>2. MaxRows \in Nat /\ From.rows \in Seq(ToSet(From.rows))
    BY <1>1, <1>2, FilesAssumption DEF From
  <2>. QED
    BY <1>2, <2>1, <2>2, CsvIsCut
<1>. QED
  BY <1>1, <1>2 DEF CutShort

\* missing_parts is empty exactly when the codes of one batch are all there.
MissingIsRight(parts, rows, n, total) ==
  MissingParts(parts) = {} <=> 0 .. (total - 1) \subseteq {rows[k].payload.index : k \in 1 .. n} \/ total <= 1
LEMMA PartsComplete ==
  ASSUME NEW parts, NEW rows, NEW n \in Nat, PartsNoted(parts, rows, n), NEW total,
         {rows[k].payload.total : k \in 1 .. n} = {total}
  PROVE  MissingIsRight(parts, rows, n, total)
<1> DEFINE Index == {rows[k].payload.index : k \in 1 .. n}
<1>1. /\ \A k \in 1 .. n : rows[k].payload.total = total
      /\ \E k \in 1 .. n : rows[k].payload.total = total
  <2>1. \A k \in 1 .. n : rows[k].payload.total \in {total}
    OBVIOUS
  <2>2. total \in {rows[k].payload.total : k \in 1 .. n}
    OBVIOUS
  <2>. QED
    BY <2>1, <2>2
<1>2. /\ \A k \in 1 .. n : total > 1 => \E p \in parts : p.index = rows[k].payload.index
      /\ \A p \in parts : total > 1 /\ p.total = total /\ p.index \in Index
      /\ total \in Nat
  <2>1. \A p \in parts : \E k \in 1 .. n :
          rows[k].payload.total > 1 /\ p = [index |-> rows[k].payload.index, total |-> rows[k].payload.total]
    BY DEF PartsNoted
  <2>2. \A p \in parts : total > 1 /\ p.total = total /\ p.index \in Index
    BY <1>1, <2>1
  <2>3. \A k \in 1 .. n : rows[k].payload.total \in Nat
                          /\ (rows[k].payload.total > 1 => \E p \in parts : p.index = rows[k].payload.index)
    BY DEF PartsNoted
  <2>. QED
    BY <1>1, <2>2, <2>3
<1>3. CASE total <= 1
  <2>1. parts = {}
    BY <1>2, <1>3
  <2>. QED
    BY <1>3, <2>1 DEF MissingParts, MissingIsRight
<1>4. CASE total > 1
  <2>1. parts # {}
    BY <1>1, <1>2, <1>4
  <2>2. {p.total : p \in parts} = {total} /\ {p.index : p \in parts} = Index
    BY <1>2, <1>4, <2>1
  <2>3. Best({total}) = total
    <3>1. \A c \in {total} : \A d \in {total} : c >= d
      BY <1>2
    <3>. QED
      BY <3>1 DEF Best
  <2> HIDE DEF Index
  <2>4. MissingParts(parts) = (0 .. (total - 1)) \ Index
    BY <2>1, <2>2, <2>3 DEF MissingParts
  <2>5. ~(total <= 1)
    BY <1>2, <1>4
  <2>6. MissingParts(parts) = {} <=> 0 .. (total - 1) \subseteq Index
    BY <2>4
  <2>. QED
    BY <2>5, <2>6 DEF Index, MissingIsRight
<1>. QED
  BY <1>2, <1>3, <1>4

LEMMA InvGivesBatch ==
  ASSUME ImportInv
  PROVE  BatchIsWhole
<1> SUFFICES ASSUME finished, importError = None, file.format = "migration"
             PROVE  LET payloads == {file.rows[i].payload : i \in DOMAIN file.rows} IN
                    \A total \in {p.total : p \in payloads} :
                      ({p.total : p \in payloads} = {total}) =>
                        (MissingParts(batch_parts) = {} <=>
                           0 .. (total - 1) \subseteq {p.index : p \in payloads} \/ total <= 1)
  BY DEF BatchIsWhole
<1>1. /\ at \in Nat /\ at = Len(file.rows) /\ PartsNoted(batch_parts, file.rows, at)
      /\ file.number \in DOMAIN Files /\ file.format = Detect(From) /\ file.rows = RowsOf(From, "migration")
  BY DEF ImportInv, ReadSoFar
<1>2. DOMAIN file.rows = 1 .. at
  BY <1>1, LinesAreList DEF From
<1> DEFINE payloads == {file.rows[i].payload : i \in DOMAIN file.rows}
<1>3. /\ {p.total : p \in payloads} = {file.rows[k].payload.total : k \in 1 .. at}
      /\ {p.index : p \in payloads} = {file.rows[k].payload.index : k \in 1 .. at}
  BY <1>2
<1> HIDE DEF payloads
<1>4. ASSUME NEW total, {p.total : p \in payloads} = {total}
      PROVE  MissingParts(batch_parts) = {} <=> 0 .. (total - 1) \subseteq {p.index : p \in payloads} \/ total <= 1
  <2>1. {file.rows[k].payload.total : k \in 1 .. at} = {total}
    BY <1>3, <1>4
  <2>2. MissingIsRight(batch_parts, file.rows, at, total)
    BY <1>1, <2>1, PartsComplete
  <2>. QED
    BY <1>3, <2>2 DEF MissingIsRight
<1>. QED
  BY <1>4 DEF payloads

\* Whatever the file and the limit, the outcome in the place of a row's result tells what became of
\* that result, none is missing unless CSV or an item of Proton Pass was cut at the limit, and a
\* batch of QR codes is called whole exactly when it is (accept, validate, batch_is_complete).
THEOREM RowsStayAccounted == ImportSpec => []EveryRowIsAccounted
<1>1. ImportInit => ImportInv
  BY ImportStarts
<1>2. ImportInv /\ [ImportNext]_importVars => ImportInv'
  <2> SUFFICES ASSUME ImportInv, [ImportNext]_importVars PROVE ImportInv'
    OBVIOUS
  <2>1. ASSUME NEW n \in DOMAIN Files, NEW context \in ImportContexts, OpenFile(n, context) PROVE ImportInv'
    BY <2>1, OpenFileKeeps
  <2>2. CASE ReadRow
    BY <2>2, ReadRowKeeps
  <2>3. CASE Finish
    BY <2>3, FinishKeeps
  <2>4. CASE Insert
    BY <2>4, CloseKeeps DEF Insert
  <2>5. CASE Drop
    BY <2>5, CloseKeeps DEF Drop
  <2>6. CASE UNCHANGED importVars
    BY <2>6 DEF importVars, ImportInv, ReadSoFar, InTheirPlaces, PlaceOf, Collector, From, ResultsUpTo, IsFull
  <2>. QED
    BY <2>1, <2>2, <2>3, <2>4, <2>5, <2>6 DEF ImportNext
<1>3. ImportInv => EveryRowIsAccounted
  BY InvGivesTypes, InvGivesDuplicates, InvGivesRows, InvGivesBatch DEF EveryRowIsAccounted
<1>. QED
  BY <1>1, <1>2, <1>3, PTL DEF ImportSpec
=============================================================================
