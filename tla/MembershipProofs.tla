-------------------------- MODULE MembershipProofs --------------------------
(***************************************************************************)
(* The roster, the enrollments and the revocations of a vault, proved for  *)
(* every set of devices and items and every number of writes: nobody works *)
(* under a roster that was not published, no member is taken off by a      *)
(* roster change of another while hosts adopt what they are offered, a     *)
(* page that stops at the newest roster skips no row, and a revocation     *)
(* opens the vault again. The inductive invariant is MembershipInv.        *)
(***************************************************************************)
EXTENDS Membership, FiniteFacts

(***************************************************************************)
(* The parts of the state.                                                 *)
(***************************************************************************)
LEMMA IdleIs == Idle \in Tasks /\ Idle.step = "idle"
  BY DEF Idle, Tasks

LEMMA TaskIs ==
  ASSUME NEW t \in Tasks
  PROVE  /\ t.step = "push" => t.todo \subseteq Item
         /\ t.step = "approve" => t.new \in Device /\ t.current \in BOOLEAN
         /\ t.step = "deliver" => t.new \in Device /\ t.current \in BOOLEAN /\ t.devices \subseteq Device
         /\ t.step \in {"push", "approve", "deliver"} \/ t = Idle
<1>1. CASE t = Idle
  BY <1>1, IdleIs
<1>2. CASE t # Idle
  BY <1>2 DEF Tasks
<1>. QED
  BY <1>1, <1>2

LEMMA PushingIs ==
  ASSUME NEW q, q \subseteq Item
  PROVE  /\ Pushing(q) \in Tasks /\ Pushing(q).step \in {"idle", "push"}
         /\ Pushing(q).step = "push" => Pushing(q).todo # {}
<1>1. CASE q = {}
  BY <1>1, IdleIs DEF Pushing
<1>2. CASE q # {}
  BY <1>2 DEF Pushing, Tasks
<1>. QED
  BY <1>1, <1>2

LEMMA ApprovingIs ==
  ASSUME NEW n \in Device
  PROVE  Approving(n) \in Tasks /\ Approving(n).step = "approve" /\ Approving(n).new = n
  BY DEF Approving, Tasks

\* Begin leaves everything of a task but whether its attempt is current.
LEMMA OutdatedIs ==
  ASSUME NEW t \in Tasks, NEW n \in Device
  PROVE  /\ Outdated(t, n) \in Tasks /\ Outdated(t, n).step = t.step /\ (t = Idle <=> Outdated(t, n) = Idle)
         /\ t.step = "push" => Outdated(t, n).todo = t.todo
         /\ t.step = "deliver" => Outdated(t, n).new = t.new /\ Outdated(t, n).devices = t.devices
<1>1. CASE t.step = "approve" /\ t.new = n
  <2>1. t \in [step : {"approve"}, new : Device, current : BOOLEAN]
    BY <1>1 DEF Tasks, Idle
  <2>2. Outdated(t, n) = [t EXCEPT !.current = FALSE]
    BY <1>1 DEF Outdated
  <2>3. Outdated(t, n) \in [step : {"approve"}, new : Device, current : BOOLEAN] /\ Outdated(t, n).step = "approve"
    BY <2>1, <2>2
  <2>. QED
    BY <1>1, <2>3, IdleIs DEF Tasks
<1>2. CASE t.step = "deliver" /\ t.new = n
  <2>1. t \in [step : {"deliver"}, new : Device, current : BOOLEAN, devices : SUBSET Device]
    BY <1>2 DEF Tasks, Idle
  <2>2. Outdated(t, n) = [t EXCEPT !.current = FALSE]
    BY <1>2 DEF Outdated
  <2>3. /\ Outdated(t, n) \in [step : {"deliver"}, new : Device, current : BOOLEAN, devices : SUBSET Device]
        /\ Outdated(t, n).step = "deliver" /\ Outdated(t, n).new = t.new /\ Outdated(t, n).devices = t.devices
    BY <2>1, <2>2
  <2>. QED
    BY <1>2, <2>3, IdleIs DEF Tasks
<1>3. CASE ~(t.step \in {"approve", "deliver"} /\ t.new = n)
  BY <1>3 DEF Outdated
<1>. QED
  BY <1>1, <1>2, <1>3

\* Envelopes, and what a merge leaves in a row.
LEMMA SealIs ==
  ASSUME MembershipTypes, NEW d \in Device, NEW v, v \subseteq Device
  PROVE  /\ Seal(d, v) \in Envelopes /\ Seal(d, v) # None /\ Seal(d, v).by = d
         /\ Seal(d, v).epoch = epoch[d] /\ Seal(d, v).value = v /\ Value(Seal(d, v)) = v
<1>1. /\ Seal(d, v) \in Envelopes /\ Seal(d, v).by = d
      /\ Seal(d, v).epoch = epoch[d] /\ Seal(d, v).value = v
  BY DEF Seal, Envelopes, MembershipTypes
<1>. QED
  BY <1>1, MembershipAssumption DEF Value

LEMMA ValueIs ==
  ASSUME NEW e \in Envelopes \cup {None}
  PROVE  Value(e) \subseteq Device /\ (e # None => Value(e) = e.value)
  BY DEF Value, Envelopes

LEMMA MergedIs ==
  ASSUME MembershipTypes, NEW d \in Device, NEW i \in Item, NEW e \in Envelopes, SealedIn(e)
  PROVE  /\ Merged(d, i, e) \in Envelopes /\ SealedIn(Merged(d, i, e))
         /\ e.value \subseteq Value(Merged(d, i, e)) /\ Value(vault[d][i]) \subseteq Value(Merged(d, i, e))
<1>1. vault[d][i] \in Envelopes \cup {None} /\ e # None /\ e.value \subseteq Device /\ epoch[d] \in Nat
  BY MembershipAssumption DEF MembershipTypes, Envelopes
<1>2. Value(vault[d][i]) \subseteq Device /\ Value(e) = e.value
  BY <1>1, ValueIs
<1>3. CASE Value(vault[d][i]) \subseteq e.value
  BY <1>2, <1>3 DEF Merged
<1>4. CASE ~(Value(vault[d][i]) \subseteq e.value)
  <2> DEFINE v == Value(vault[d][i]) \cup e.value
  <2>1. Merged(d, i, e) = Seal(d, v) /\ v \subseteq Device
    BY <1>1, <1>2, <1>4 DEF Merged
  <2>2. v = Value(vault[d][i]) \cup e.value
    OBVIOUS
  <2> HIDE DEF v
  <2>3. /\ Seal(d, v) \in Envelopes /\ Seal(d, v).by = d
        /\ Seal(d, v).epoch = epoch[d] /\ Value(Seal(d, v)) = v
    BY <2>1, SealIs
  <2>4. SealedIn(Seal(d, v))
    BY <1>1, <2>3 DEF SealedIn
  <2>. QED
    BY <2>1, <2>2, <2>3, <2>4
<1>. QED
  BY <1>3, <1>4

-----------------------------------------------------------------------------
(***************************************************************************)
(* The steps that leave the rosters alone: a write, a push, the relay, and *)
(* the tasks but the delivery of a grant. A vault only gains; a row that   *)
(* changes lands past every cursor.                                        *)
(***************************************************************************)
SameRosters ==
  UNCHANGED <<published, trusted, roster_version, cursor, epoch, offered, heeded, lost, ever>>

TasksGoOn ==
  /\ task' \in [Device -> Tasks]
  /\ \A e \in Device : /\ task'[e].step = "push" =>
                            task'[e].todo # {} /\ \A i \in task'[e].todo : i \in Item /\ vault[e][i] # None
                       /\ task'[e] # Idle => member'[e] = "joined"
                       /\ task'[e].step = "deliver" <=> task[e].step = "deliver"
                       /\ task[e].step = "deliver" =>
                            task'[e].new = task[e].new /\ task'[e].devices = task[e].devices

MembersStay ==
  /\ member' \in [Device -> {"new", "waiting", "joined", "poisoned"}]
  /\ \A e \in Device : member'[e] = member[e] \/ (member[e] \in {"new", "waiting"} /\ member'[e] = "waiting")

RelayAddsNothing ==
  /\ relay' \in [Device -> [taken : BOOLEAN, grant : Grants \cup {None}] \cup {None}]
  /\ \A e \in Device : relay'[e] # None => (relay'[e].grant # None =>
       relay[e] # None /\ relay[e].grant = relay'[e].grant)

VaultsGain ==
  /\ vault' \in [Device -> [Item -> Envelopes \cup {None}]]
  /\ known' \in [Device -> [Item -> [env : Envelopes \cup {None}, version : Nat]]]
  /\ \A e \in Device, i \in Item : /\ SealedIn(vault'[e][i]) /\ Value(vault[e][i]) \subseteq Value(vault'[e][i])
                                   /\ vault[e][i] # None => vault'[e][i] # None
                                   /\ row'[i] = None => known'[e][i].version = 0

RowsLandLate ==
  /\ row' \in [Item -> Rows \cup {None}]
  /\ next_seq' \in Nat /\ next_seq <= next_seq'
  /\ \A i \in Item : row'[i] # None => /\ SealedIn(row'[i].env)
                                       /\ row'[i] = row[i] \/ row'[i].seq >= next_seq

LEMMA TypesAre ==
  ASSUME MembershipInv
  PROVE  /\ published.seq \in Nat /\ published.version \in Nat /\ published.by \in Device
         /\ published.devices \subseteq Device /\ next_seq \in Nat
         /\ \A d \in Device : cursor[d] \in Nat /\ roster_version[d] \in Nat /\ epoch[d] \in Nat /\ task[d] \in Tasks
         /\ MembershipTypes /\ QueuesAreSound /\ OnlyMembersWork /\ NumbersAreAllocated /\ ListsWerePublished
         /\ EpochsAreReached /\ VersionMeansRoster /\ GrantedAreListed /\ RosterIsMet /\ ReopensUnlessEpochMet
         /\ \A d \in Device : heeded[d] => MergedSince(published.seq, d)
<1>1. MembershipTypes
  BY DEF MembershipInv
<1>2. /\ published.seq \in Nat /\ published.version \in Nat /\ published.by \in Device
      /\ published.devices \subseteq Device /\ next_seq \in Nat
  BY <1>1 DEF MembershipTypes, Rosters
<1>3. \A d \in Device : cursor[d] \in Nat /\ roster_version[d] \in Nat /\ epoch[d] \in Nat /\ task[d] \in Tasks
  BY <1>1 DEF MembershipTypes
<1>. QED
  BY <1>1, <1>2, <1>3 DEF MembershipInv

LEMMA QuietKeeps ==
  ASSUME MembershipInv, SameRosters, TasksGoOn, MembersStay, RelayAddsNothing, VaultsGain, RowsLandLate
  PROVE  MembershipInv'
<1>1. /\ MembershipTypes /\ OnlyMembersWork /\ NumbersAreAllocated /\ ListsWerePublished
      /\ EpochsAreReached /\ VersionMeansRoster /\ GrantedAreListed /\ RosterIsMet /\ ReopensUnlessEpochMet
      /\ \A d \in Device : heeded[d] => MergedSince(published.seq, d)
  BY TypesAre
<1>2. /\ published' = published /\ trusted' = trusted /\ roster_version' = roster_version /\ cursor' = cursor
      /\ epoch' = epoch /\ offered' = offered /\ heeded' = heeded /\ lost' = lost /\ ever' = ever
  BY DEF SameRosters
<1>3. MembershipTypes'
  BY <1>1, <1>2 DEF MembershipTypes, TasksGoOn, MembersStay, RelayAddsNothing, VaultsGain, RowsLandLate
<1>4. QueuesAreSound' /\ OnlyMembersWork'
  <2>1. QueuesAreSound'
    BY DEF QueuesAreSound, TasksGoOn, VaultsGain
  <2>2. OnlyMembersWork'
    BY <1>1, <1>2 DEF OnlyMembersWork, TasksGoOn, MembersStay
  <2>. QED
    BY <2>1, <2>2
<1>5. NumbersAreAllocated'
  <2>1. published.seq \in Nat /\ next_seq \in Nat /\ next_seq' \in Nat /\ next_seq <= next_seq'
        /\ \A d \in Device : cursor[d] \in Nat
    BY TypesAre DEF RowsLandLate
  <2>. QED
    BY <1>1, <1>2, <2>1 DEF NumbersAreAllocated
<1>6. ListsWerePublished'
  BY <1>1, <1>2 DEF ListsWerePublished, TasksGoOn, MembersStay, RelayAddsNothing
<1>7. EpochsAreReached'
  BY <1>2 DEF EpochsAreReached, SealedIn, VaultsGain, RowsLandLate
<1>8. VersionMeansRoster'
  BY <1>1, <1>2 DEF VersionMeansRoster, TasksGoOn
<1>9. GrantedAreListed'
  BY <1>1, <1>2 DEF GrantedAreListed, TasksGoOn, MembersStay, RelayAddsNothing, JoinedStaysListed, Members, EverListed
<1>10. RosterIsMet'
  BY <1>1, <1>2 DEF RosterIsMet, TasksGoOn
<1>11. ASSUME NEW d \in Device, heeded[d] PROVE MergedSince(published.seq, d)'
  <2>1. SUFFICES ASSUME NEW i \in Item, row'[i] # None, published.seq < row'[i].seq, row'[i].seq <= cursor[d],
                        row'[i].env.by \in trusted[d]
                 PROVE  row'[i].env.value \subseteq Value(vault'[d][i])
    BY <1>2 DEF MergedSince
  <2>2. cursor[d] \in Nat /\ next_seq \in Nat /\ cursor[d] < next_seq /\ row'[i].seq \in Nat
    BY <1>1, <2>1, TypesAre DEF NumbersAreAllocated, RowsLandLate, Rows
  <2>3. row'[i] = row[i]
    BY <2>1, <2>2 DEF RowsLandLate
  <2>4. row[i].env.value \subseteq Value(vault[d][i])
    BY <1>1, <1>11, <2>1, <2>3 DEF MergedSince
  <2>. QED
    BY <2>3, <2>4 DEF VaultsGain
<1>12. ReopensUnlessEpochMet'
  BY <1>1, <1>2 DEF ReopensUnlessEpochMet, MembersStay
<1>. QED
  BY <1>2, <1>3, <1>4, <1>5, <1>6, <1>7, <1>8, <1>9, <1>10, <1>11, <1>12 DEF MembershipInv

\* What a step leaves alone satisfies its part.
LEMMA SameTasks == ASSUME MembershipInv, UNCHANGED <<task, member>> PROVE TasksGoOn
<1>1. MembershipTypes /\ QueuesAreSound /\ OnlyMembersWork
  BY TypesAre
<1>2. task \in [Device -> Tasks] /\ \A e \in Device : task[e].step = "push" => task[e].todo \subseteq Item
  BY <1>1, TaskIs DEF MembershipTypes
<1>. QED
  BY <1>1, <1>2 DEF TasksGoOn, QueuesAreSound, OnlyMembersWork

LEMMA SameMembers == ASSUME MembershipInv, UNCHANGED member PROVE MembersStay
  BY TypesAre DEF MembersStay, MembershipTypes

LEMMA SameRelay == ASSUME MembershipInv, UNCHANGED relay PROVE RelayAddsNothing
  BY TypesAre DEF RelayAddsNothing, MembershipTypes

LEMMA SameVaults ==
  ASSUME MembershipInv, UNCHANGED <<vault, known>>, \A i \in Item : row[i] # None => row'[i] # None
  PROVE  VaultsGain
<1>1. MembershipTypes /\ QueuesAreSound /\ EpochsAreReached
  BY TypesAre
<1>. QED
  BY <1>1 DEF VaultsGain, MembershipTypes, QueuesAreSound, EpochsAreReached

LEMMA SameRows == ASSUME MembershipInv, UNCHANGED <<row, next_seq>> PROVE RowsLandLate
<1>1. MembershipTypes /\ EpochsAreReached
  BY TypesAre
<1>. QED
  BY <1>1 DEF RowsLandLate, MembershipTypes, EpochsAreReached

\* One task changes, and delivers neither before nor after.
LEMMA OneTask ==
  ASSUME MembershipInv, UNCHANGED member, NEW d \in Device, member[d] = "joined", task[d].step # "deliver",
         NEW t \in Tasks, t.step # "deliver", task' = [task EXCEPT ![d] = t],
         t.step = "push" => t.todo # {} /\ \A i \in t.todo : i \in Item /\ vault[d][i] # None
  PROVE  TasksGoOn
<1>1. MembershipTypes /\ QueuesAreSound /\ OnlyMembersWork
  BY TypesAre
<1>2. task \in [Device -> Tasks] /\ \A e \in Device : task[e].step = "push" =>
        task[e].todo # {} /\ \A i \in task[e].todo : i \in Item /\ vault[e][i] # None
  BY <1>1, TaskIs DEF MembershipTypes, QueuesAreSound
<1>3. task' \in [Device -> Tasks] /\ task'[d] = t /\ \A e \in Device \ {d} : task'[e] = task[e]
  BY <1>2
<1>4. \A e \in Device : task[e] # Idle => member[e] = "joined"
  BY <1>1 DEF OnlyMembersWork
<1>. QED
  BY <1>2, <1>3, <1>4 DEF TasksGoOn

LEMMA WriteKeeps ==
  ASSUME MembershipInv, NEW d \in Device, NEW i \in Item, Write(d, i)
  PROVE  MembershipInv'
<1>1. /\ MembershipTypes /\ EpochsAreReached /\ QueuesAreSound
  BY TypesAre
<1> DEFINE v == Value(vault[d][i]) \cup {d}
<1>2. vault[d][i] \in Envelopes \cup {None} /\ vault \in [Device -> [Item -> Envelopes \cup {None}]]
      /\ known \in [Device -> [Item -> [env : Envelopes \cup {None}, version : Nat]]]
  BY <1>1 DEF MembershipTypes
<1>3. v \subseteq Device /\ v = Value(vault[d][i]) \cup {d}
  BY <1>2, ValueIs
<1>4. vault' = [vault EXCEPT ![d][i] = Seal(d, v)] /\ UNCHANGED <<known, row, next_seq, relay, task, member>>
      /\ SameRosters
  BY DEF Write, SameRosters, server
<1> HIDE DEF v
<1>5. Seal(d, v) \in Envelopes /\ Seal(d, v) # None /\ Value(Seal(d, v)) = v /\ Seal(d, v).by = d /\ Seal(d, v).epoch = epoch[d]
  BY <1>1, <1>3, SealIs
<1>6. SealedIn(Seal(d, v))
  <2>1. epoch[d] \in Nat
    BY TypesAre
  <2>. QED
    BY <1>5, <2>1 DEF SealedIn
<1>7. VaultsGain
  <2>1. vault' \in [Device -> [Item -> Envelopes \cup {None}]]
    BY <1>2, <1>4, <1>5
  <2>2. \A e \in Device, j \in Item : vault'[e][j] = IF e = d /\ j = i THEN Seal(d, v) ELSE vault[e][j]
    BY <1>2, <1>4
  <2>3. \A e \in Device, j \in Item : SealedIn(vault[e][j]) /\ (row[j] = None => known[e][j].version = 0)
    BY <1>1 DEF EpochsAreReached, QueuesAreSound
  <2>. QED
    BY <1>2, <1>3, <1>4, <1>5, <1>6, <2>1, <2>2, <2>3 DEF VaultsGain
<1>. QED
  BY <1>4, <1>7, QuietKeeps, SameTasks, SameMembers, SameRelay, SameRows

LEMMA PushKeeps ==
  ASSUME MembershipInv, NEW d \in Device, Push(d)
  PROVE  MembershipInv'
<1>1. MembershipTypes /\ QueuesAreSound /\ EpochsAreReached /\ OnlyMembersWork
  BY TypesAre
<1> DEFINE i == Min(task[d].todo)
           version == IF row[i] = None THEN 0 ELSE row[i].version
           rest == Pushing(task[d].todo \ {i})
<1>2. task[d].step = "push" /\ task[d] \in Tasks /\ task[d].todo # {} /\ member[d] = "joined"
  <2>1. task[d].step = "push" /\ task[d] \in Tasks /\ task[d].todo # {}
    BY <1>1 DEF Push, MembershipTypes, QueuesAreSound
  <2>2. task[d] # Idle
    BY <2>1, IdleIs
  <2>. QED
    BY <1>1, <2>1, <2>2 DEF OnlyMembersWork
<1>3. i \in Item /\ task[d].todo \subseteq Item /\ i \in task[d].todo /\ vault[d][i] # None
  <2>1. task[d].todo \subseteq Item
    BY <1>2, TaskIs
  <2>2. IsFiniteSet(task[d].todo) /\ task[d].todo \subseteq Nat
    BY <2>1, FS_Subset, MembershipAssumption
  <2>3. i \in task[d].todo
    BY <1>2, <2>2, MinOfFinite
  <2>. QED
    BY <1>1, <1>2, <2>1, <2>3 DEF QueuesAreSound
<1>4. /\ rest \in Tasks /\ rest.step \in {"idle", "push"}
      /\ rest.step = "push" => rest.todo # {} /\ \A j \in rest.todo : j \in Item /\ vault[d][j] # None
  <2>1. \A j \in task[d].todo : j \in Item /\ vault[d][j] # None
    BY <1>1, <1>2, <1>3 DEF QueuesAreSound
  <2>2. rest.step = "push" => rest.todo = task[d].todo \ {i}
    BY IdleIs DEF Pushing
  <2>. QED
    BY <1>3, <2>1, <2>2, PushingIs
<1>5. /\ vault \in [Device -> [Item -> Envelopes \cup {None}]]
      /\ known \in [Device -> [Item -> [env : Envelopes \cup {None}, version : Nat]]]
      /\ row \in [Item -> Rows \cup {None}] /\ next_seq \in Nat
      /\ version \in Nat
  BY <1>1, <1>3 DEF MembershipTypes, Rows
<1>7. UNCHANGED <<relay, member>> /\ SameRosters
  BY DEF Push, SameRosters, server
<1>8. CASE task' = [task EXCEPT ![d] = rest] /\ UNCHANGED <<server, vault, known>>
  <2>1. TasksGoOn
    BY <1>2, <1>4, <1>7, <1>8, OneTask
  <2>2. UNCHANGED <<row, next_seq, vault, known>>
    BY <1>8 DEF server
  <2>. QED
    BY <1>7, <2>1, <2>2, QuietKeeps, SameMembers, SameRelay, SameVaults, SameRows
<1>9. CASE /\ row' = [row EXCEPT ![i] = [version |-> version + 1, seq |-> next_seq, env |-> vault[d][i]]]
           /\ vault[d][i] # known[d][i].env
           /\ next_seq' = next_seq + 1
           /\ known' = [known EXCEPT ![d][i] = [env |-> vault[d][i], version |-> version + 1]]
           /\ task' = [task EXCEPT ![d] = rest] /\ UNCHANGED vault
  <2>1. TasksGoOn
    BY <1>2, <1>4, <1>7, <1>9, OneTask
  <2> HIDE DEF i, version, rest
  <2>2. vault[d][i] \in Envelopes /\ SealedIn(vault[d][i])
    BY <1>1, <1>3, <1>5, <1>9 DEF EpochsAreReached
  <2>3. VaultsGain
    <3>1. [env |-> vault[d][i], version |-> version + 1] \in [env : Envelopes \cup {None}, version : Nat]
      BY <1>5, <2>2
    <3>2. known' \in [Device -> [Item -> [env : Envelopes \cup {None}, version : Nat]]]
      BY <1>3, <1>5, <1>9, <3>1
    <3>3. row'[i] # None /\ \A j \in Item \ {i} : row'[j] = row[j]
      <4>1. row'[i].env = vault[d][i] /\ row'[i] \in Rows
        BY <1>3, <1>5, <1>9, <2>2 DEF Rows
      <4>. QED
        BY <1>3, <1>5, <1>9, <4>1, MembershipAssumption
    <3>4. \A e \in Device, j \in Item : e # d \/ j # i => known'[e][j] = known[e][j]
      BY <1>5, <1>9
    <3>5. \A e \in Device, j \in Item : row'[j] = None => known'[e][j].version = 0
      BY <1>1, <3>3, <3>4 DEF QueuesAreSound
    <3>. QED
      BY <1>1, <1>5, <1>9, <3>2, <3>5 DEF VaultsGain, EpochsAreReached
  <2>4. RowsLandLate
    <3>1. [version |-> version + 1, seq |-> next_seq, env |-> vault[d][i]] \in Rows
      BY <1>5, <2>2 DEF Rows
    <3>2. row' \in [Item -> Rows \cup {None}]
      BY <1>3, <1>5, <1>9, <3>1
    <3>3. \A j \in Item : row'[j] = IF j = i THEN [version |-> version + 1, seq |-> next_seq, env |-> vault[d][i]]
                                    ELSE row[j]
      BY <1>5, <1>9
    <3>4. \A j \in Item : row[j] # None => SealedIn(row[j].env)
      BY <1>1 DEF EpochsAreReached
    <3>5. next_seq' \in Nat /\ next_seq <= next_seq'
      BY <1>5, <1>9
    <3>. QED
      BY <1>5, <2>2, <3>2, <3>3, <3>4, <3>5 DEF RowsLandLate
  <2>. QED
    BY <1>7, <2>1, <2>3, <2>4, QuietKeeps, SameMembers, SameRelay
<1>10. CASE /\ vault' = [vault EXCEPT ![d][i] = Merged(d, i, row[i].env)]
            /\ known' = [known EXCEPT ![d][i] = [env |-> row[i].env, version |-> version]]
            /\ UNCHANGED <<server, task>> /\ version # known[d][i].version
  <2>0. row[i] # None
    BY <1>1, <1>3, <1>10 DEF QueuesAreSound
  <2> HIDE DEF i, version, rest
  <2>1. row[i].env \in Envelopes /\ SealedIn(row[i].env)
    BY <1>1, <1>3, <1>5, <2>0 DEF EpochsAreReached, Rows
  <2>2. /\ Merged(d, i, row[i].env) \in Envelopes /\ SealedIn(Merged(d, i, row[i].env))
        /\ Value(vault[d][i]) \subseteq Value(Merged(d, i, row[i].env))
    BY <1>1, <1>3, <2>1, MergedIs
  <2>3. VaultsGain
    <3>1. [env |-> row[i].env, version |-> version] \in [env : Envelopes \cup {None}, version : Nat]
      BY <1>5, <2>1
    <3>2. known' \in [Device -> [Item -> [env : Envelopes \cup {None}, version : Nat]]]
      BY <1>3, <1>5, <1>10, <3>1
    <3>3. vault' \in [Device -> [Item -> Envelopes \cup {None}]]
      BY <1>3, <1>5, <1>10, <2>2
    <3>4. \A e \in Device, j \in Item : vault'[e][j] = IF e = d /\ j = i THEN Merged(d, i, row[i].env) ELSE vault[e][j]
      BY <1>5, <1>10
    <3>5. \A e \in Device, j \in Item : SealedIn(vault[e][j])
      BY <1>1 DEF EpochsAreReached
    <3>6. \A e \in Device, j \in Item : row'[j] = None => known'[e][j].version = 0
      <4>1. \A e \in Device, j \in Item : e # d \/ j # i => known'[e][j] = known[e][j]
        BY <1>5, <1>10
      <4>2. row' = row
        BY <1>10 DEF server
      <4>. QED
        BY <1>1, <2>0, <4>1, <4>2 DEF QueuesAreSound
    <3>7. Merged(d, i, row[i].env) # None
      BY <2>2, MembershipAssumption
    <3>. QED
      BY <2>2, <3>2, <3>3, <3>4, <3>5, <3>6, <3>7 DEF VaultsGain
  <2>. QED
    BY <1>7, <1>10, <2>3, QuietKeeps, SameTasks, SameMembers, SameRelay, SameRows DEF server
<1>11. CASE task' = [task EXCEPT ![d] = Idle] /\ UNCHANGED <<server, vault, known>>
  <2>1. TasksGoOn
    BY <1>2, <1>7, <1>11, OneTask, IdleIs
  <2>2. UNCHANGED <<row, next_seq, vault, known>>
    BY <1>11 DEF server
  <2>. QED
    BY <1>7, <2>1, <2>2, QuietKeeps, SameMembers, SameRelay, SameVaults, SameRows
<1>. QED
  BY <1>8, <1>9, <1>10, <1>11 DEF Push

LEMMA RelayKeeps ==
  ASSUME MembershipInv, NEW d \in Device, NEW n \in Device,
         Begin(d) \/ Fetch(d, n) \/ Scan(d, n) \/ ApproveRefused(d) \/ Expire(d)
  PROVE  MembershipInv'
<1>1. /\ MembershipTypes /\ QueuesAreSound /\ OnlyMembersWork /\ SameRosters /\ UNCHANGED <<row, next_seq, vault, known>>
  BY TypesAre DEF Begin, Fetch, Scan, ApproveRefused, Expire, SameRosters, server, store
<1>2. task \in [Device -> Tasks] /\ member \in [Device -> {"new", "waiting", "joined", "poisoned"}]
      /\ relay \in [Device -> [taken : BOOLEAN, grant : Grants \cup {None}] \cup {None}]
      /\ task[d] \in Tasks
  BY <1>1 DEF MembershipTypes
<1>3. NewRecord \in [taken : BOOLEAN, grant : Grants \cup {None}] /\ NewRecord.grant = None
  BY DEF NewRecord
<1>4. CASE Begin(d)
  <2>1. /\ relay' = [relay EXCEPT ![d] = NewRecord] /\ member' = [member EXCEPT ![d] = "waiting"]
        /\ task' = [e \in Device |-> Outdated(task[e], d)] /\ member[d] \in {"new", "waiting"}
    BY <1>4 DEF Begin
  <2>2. RelayAddsNothing
    BY <1>2, <1>3, <2>1 DEF RelayAddsNothing
  <2>3. MembersStay
    BY <1>2, <2>1 DEF MembersStay
  <2>4. TasksGoOn
    <3>1. \A e \in Device :
            /\ task'[e] \in Tasks /\ task'[e].step = task[e].step /\ (task[e] = Idle <=> task'[e] = Idle)
            /\ task[e].step = "push" => task'[e].todo = task[e].todo
            /\ task[e].step = "deliver" => task'[e].new = task[e].new /\ task'[e].devices = task[e].devices
      BY <1>2, <2>1, OutdatedIs
    <3>2. \A e \in Device : task[e] # Idle => e # d /\ member'[e] = member[e]
      BY <1>1, <1>2, <2>1 DEF OnlyMembersWork
    <3>3. task' \in [Device -> Tasks]
      BY <2>1, <3>1
    <3>4. \A e \in Device : task[e].step = "push" =>
            task[e].todo # {} /\ \A i \in task[e].todo : i \in Item /\ vault[e][i] # None
      BY <1>1, <1>2, TaskIs DEF QueuesAreSound
    <3>. QED
      BY <1>1, <3>1, <3>2, <3>3, <3>4 DEF TasksGoOn, OnlyMembersWork
  <2>. QED
    BY <1>1, <2>2, <2>3, <2>4, QuietKeeps, SameVaults, SameRows
<1>5. ASSUME member[d] = "joined", task[d].step # "deliver", member' = member, RelayAddsNothing,
             NEW t \in Tasks, t.step \in {"idle", "approve"}, task' = [task EXCEPT ![d] = t]
      PROVE  MembershipInv'
  <2>1. TasksGoOn
    BY <1>5, OneTask
  <2>. QED
    BY <1>1, <1>5, <2>1, QuietKeeps, SameMembers, SameVaults, SameRows
<1>6. CASE Fetch(d, n)
  <2>1. RelayAddsNothing
    <3>1. relay[n] # None /\ relay' = [relay EXCEPT ![n].taken = TRUE]
      BY <1>6 DEF Fetch, RequestReady, RequestTaken
    <3>2. relay[n] \in [taken : BOOLEAN, grant : Grants \cup {None}]
      BY <1>2, <3>1
    <3>3. [relay[n] EXCEPT !.taken = TRUE] \in [taken : BOOLEAN, grant : Grants \cup {None}]
          /\ [relay[n] EXCEPT !.taken = TRUE].grant = relay[n].grant
      BY <3>2
    <3>4. relay' = [relay EXCEPT ![n] = [relay[n] EXCEPT !.taken = TRUE]]
      BY <3>1
    <3>. QED
      BY <1>2, <3>1, <3>3, <3>4 DEF RelayAddsNothing
  <2>2. /\ member[d] = "joined" /\ task[d] = Idle /\ member' = member /\ task' = [task EXCEPT ![d] = Approving(n)]
    BY <1>6 DEF Fetch, CanStart
  <2>. QED
    BY <1>5, <2>1, <2>2, IdleIs, ApprovingIs
<1>7. CASE Scan(d, n)
  <2>1. /\ member[d] = "joined" /\ task[d] = Idle /\ member' = member /\ task' = [task EXCEPT ![d] = Approving(n)]
        /\ relay' = relay
    BY <1>7 DEF Scan, CanStart
  <2>. QED
    BY <1>5, <2>1, IdleIs, ApprovingIs, SameRelay
<1>8. CASE ApproveRefused(d)
  <2>1. task[d].step = "approve" /\ member' = member /\ task' = [task EXCEPT ![d] = Idle] /\ relay' = relay
    BY <1>8 DEF ApproveRefused
  <2>2. member[d] = "joined"
    <3>1. task[d] # Idle
      BY <2>1, IdleIs
    <3>. QED
      BY <1>1, <3>1 DEF OnlyMembersWork
  <2>. QED
    BY <1>5, <2>1, <2>2, IdleIs, SameRelay
<1>9. CASE Expire(d)
  <2>1. relay' = [relay EXCEPT ![d] = None] /\ UNCHANGED <<task, member>>
    BY <1>9 DEF Expire
  <2>2. RelayAddsNothing
    BY <1>2, <2>1 DEF RelayAddsNothing
  <2>. QED
    BY <1>1, <2>1, <2>2, QuietKeeps, SameTasks, SameMembers, SameVaults, SameRows
<1>. QED
  BY <1>4, <1>6, <1>7, <1>8, <1>9

LEMMA StutterKeeps ==
  ASSUME MembershipInv, UNCHANGED vars
  PROVE  MembershipInv'
<1>1. SameRosters /\ UNCHANGED <<row, next_seq, vault, known, relay, task, member>>
  BY DEF vars, SameRosters
<1>. QED
  BY <1>1, QuietKeeps, SameTasks, SameMembers, SameRelay, SameVaults, SameRows

-----------------------------------------------------------------------------
(***************************************************************************)
(* The steps of one member under the roster that is published: it pulls,   *)
(* adopts, is told that its roster is superseded, or delivers a grant.     *)
(* What the invariant says of that member, part by part.                   *)
(***************************************************************************)
QueueOf(d) ==
  /\ task[d].step = "push" => task[d].todo # {} /\ \A i \in task[d].todo : vault[d][i] # None
  /\ \A i \in Item : row[i] = None => known[d][i].version = 0
  /\ \A i \in Item : SealedIn(vault[d][i])
  /\ cursor[d] < next_seq /\ roster_version[d] <= published.version

ListsOf(d) ==
  /\ trusted[d] \in ever.rosters /\ d \in trusted[d]
  /\ offered[d] # None => offered[d].devices \in ever.rosters
  /\ task[d].step = "deliver" => task[d].devices \in ever.rosters /\ d \in task[d].devices

VersionOf(d) ==
  (lost = {} /\ heeded[d] /\ roster_version[d] = published.version) =>
    published.devices = IF offered[d] # None THEN offered[d].devices
                        ELSE IF task[d].step = "deliver" THEN task[d].devices ELSE trusted[d]

MetOf(d) ==
  /\ task[d].step = "deliver" => cursor[d] < published.seq
  /\ cursor[d] >= published.seq =>
       /\ published.by \in trusted[d] => roster_version[d] = published.version
       /\ offered[d] # None => (offered[d].by \in trusted[d] =>
            cursor[d] = published.seq /\ roster_version[d] = published.version)

AllHeeded == lost = {} /\ \A d \in Device : heeded[d]

RelayIsSound ==
  \A e \in Device : relay[e] # None => (relay[e].grant # None =>
    relay[e].grant.devices \in ever.rosters /\ (AllHeeded => e \in EverListed))

LEMMA OfEach ==
  ASSUME MembershipInv, NEW d \in Device
  PROVE  /\ QueueOf(d) /\ VersionOf(d) /\ (heeded[d] => MetOf(d) /\ MergedSince(published.seq, d))
         /\ member[d] = "joined" => ListsOf(d)
         /\ AllHeeded => (task[d].step = "deliver" => task[d].new \in EverListed)
         /\ RelayIsSound
<1>1. /\ MembershipTypes /\ QueuesAreSound /\ OnlyMembersWork /\ NumbersAreAllocated /\ ListsWerePublished
      /\ EpochsAreReached /\ VersionMeansRoster /\ GrantedAreListed /\ RosterIsMet
      /\ \A e \in Device : heeded[e] => MergedSince(published.seq, e)
  BY TypesAre
<1>2. QueueOf(d)
  BY <1>1 DEF QueuesAreSound, NumbersAreAllocated, EpochsAreReached, QueueOf
<1>3. VersionOf(d)
  BY <1>1 DEF VersionMeansRoster, VersionOf
<1>4. heeded[d] => MetOf(d)
  BY <1>1 DEF RosterIsMet, MetOf
<1>5. member[d] = "joined" => ListsOf(d)
  BY <1>1 DEF ListsWerePublished, ListsOf
<1>6. AllHeeded => (task[d].step = "deliver" => task[d].new \in EverListed)
  BY <1>1 DEF GrantedAreListed, AllHeeded
<1>7. RelayIsSound
  BY <1>1 DEF GrantedAreListed, ListsWerePublished, AllHeeded, RelayIsSound
<1>. QED
  BY <1>1, <1>2, <1>3, <1>4, <1>5, <1>6, <1>7

\* Only d's own state, the relay, and what was lost or heeded may change.
Moves(d) ==
  /\ UNCHANGED <<published, row, next_seq, epoch, member, ever>> /\ member[d] = "joined"
  /\ \A e \in Device \ {d} :
       /\ trusted'[e] = trusted[e] /\ roster_version'[e] = roster_version[e] /\ vault'[e] = vault[e]
       /\ known'[e] = known[e] /\ cursor'[e] = cursor[e] /\ task'[e] = task[e] /\ offered'[e] = offered[e]
       /\ heeded'[e] = heeded[e]
  /\ heeded'[d] => heeded[d]
  /\ lost' = {} => lost = {}

LEMMA MoveKeeps ==
  ASSUME MembershipInv, NEW d \in Device, Moves(d), MembershipTypes', QueueOf(d)', ListsOf(d)', VersionOf(d)',
         heeded'[d] => MetOf(d)' /\ MergedSince(published.seq, d)',
         AllHeeded' => (task'[d].step = "deliver" => task'[d].new \in EverListed), RelayIsSound'
  PROVE  MembershipInv'
<1>1. /\ MembershipTypes /\ QueuesAreSound /\ OnlyMembersWork /\ NumbersAreAllocated /\ ListsWerePublished
      /\ EpochsAreReached /\ VersionMeansRoster /\ GrantedAreListed /\ RosterIsMet /\ ReopensUnlessEpochMet
      /\ \A e \in Device : heeded[e] => MergedSince(published.seq, e)
  BY TypesAre
<1>2. UNCHANGED <<published, row, next_seq, epoch, member, ever>> /\ member[d] = "joined"
  BY DEF Moves
<1>3. \A e \in Device \ {d} :
        /\ trusted'[e] = trusted[e] /\ roster_version'[e] = roster_version[e] /\ vault'[e] = vault[e]
        /\ known'[e] = known[e] /\ cursor'[e] = cursor[e] /\ task'[e] = task[e] /\ offered'[e] = offered[e]
        /\ heeded'[e] = heeded[e]
  BY DEF Moves
<1>4. AllHeeded' => AllHeeded
  BY <1>3 DEF Moves, AllHeeded
<1>5. QueuesAreSound'
  BY <1>1, <1>2, <1>3 DEF QueuesAreSound, QueueOf
<1>6. OnlyMembersWork'
  BY <1>1, <1>2, <1>3 DEF OnlyMembersWork
<1>7. NumbersAreAllocated'
  BY <1>1, <1>2, <1>3 DEF NumbersAreAllocated, QueueOf
<1>8. ListsWerePublished'
  BY <1>1, <1>2, <1>3 DEF ListsWerePublished, ListsOf, RelayIsSound
<1>9. EpochsAreReached'
  BY <1>1, <1>2, <1>3 DEF EpochsAreReached, SealedIn, QueueOf
<1>10. VersionMeansRoster'
  <2>1. lost' = {} => lost = {}
    BY DEF Moves
  <2>. QED
    BY <1>1, <1>2, <1>3, <2>1 DEF VersionMeansRoster, VersionOf
<1>11. GrantedAreListed'
  BY <1>1, <1>2, <1>3, <1>4 DEF GrantedAreListed, RelayIsSound, AllHeeded, EverListed, JoinedStaysListed, Members
<1>12. RosterIsMet'
  BY <1>1, <1>2, <1>3 DEF RosterIsMet, MetOf
<1>13. \A e \in Device : heeded'[e] => MergedSince(published.seq, e)'
  BY <1>1, <1>2, <1>3 DEF MergedSince
<1>14. ReopensUnlessEpochMet'
  BY <1>1, <1>2 DEF ReopensUnlessEpochMet
<1>. QED
  BY <1>5, <1>6, <1>7, <1>8, <1>9, <1>10, <1>11, <1>12, <1>13, <1>14 DEF MembershipInv

\* The relay is left alone, or changed in nobody's favour.
LEMMA RelayStaysSound ==
  ASSUME MembershipInv, NEW d \in Device, Moves(d), UNCHANGED relay
  PROVE  RelayIsSound'
<1>1. RelayIsSound
  BY OfEach
<1>2. AllHeeded' => AllHeeded
  BY DEF Moves, AllHeeded
<1>. QED
  BY <1>1, <1>2 DEF Moves, RelayIsSound, EverListed

LEMMA AdoptKeeps ==
  ASSUME MembershipInv, NEW d \in Device, Adopt(d)
  PROVE  MembershipInv'
<1>1. MembershipTypes /\ task[d] = Idle /\ task[d].step = "idle" /\ member[d] = "joined" /\ offered[d] # None
      /\ offered[d].by \in trusted[d] /\ d \in offered[d].devices
  BY TypesAre, IdleIs DEF Adopt, CanStart, Opens
<1>2. /\ trusted' = [trusted EXCEPT ![d] = offered[d].devices] /\ offered' = [offered EXCEPT ![d] = None]
      /\ UNCHANGED <<published, row, next_seq, relay, roster_version, vault, known, cursor, epoch, task, member,
                     heeded, lost, ever>>
  BY DEF Adopt, server, store
<1>3. trusted \in [Device -> SUBSET Device] /\ offered \in [Device -> Rosters \cup {None}]
      /\ offered[d].devices \subseteq Device
  BY <1>1 DEF MembershipTypes, Rosters
<1>4. trusted'[d] = offered[d].devices /\ offered'[d] = None
      /\ \A e \in Device \ {d} : trusted'[e] = trusted[e] /\ offered'[e] = offered[e]
  BY <1>2, <1>3
<1>5. Moves(d)
  BY <1>1, <1>2, <1>4 DEF Moves
<1>6. MembershipTypes'
  <2>1. trusted' \in [Device -> SUBSET Device] /\ offered' \in [Device -> Rosters \cup {None}]
    BY <1>2, <1>3
  <2>. QED
    BY <1>1, <1>2, <2>1 DEF MembershipTypes
<1>7. QueueOf(d) /\ ListsOf(d) /\ VersionOf(d) /\ (heeded[d] => MetOf(d) /\ MergedSince(published.seq, d))
  BY <1>1, OfEach
<1>8. QueueOf(d)'
  BY <1>2, <1>7 DEF QueueOf, SealedIn
<1>9. ListsOf(d)'
  BY <1>1, <1>2, <1>4, <1>7 DEF ListsOf
<1>10. VersionOf(d)'
  BY <1>1, <1>2, <1>4, <1>7 DEF VersionOf
<1>11. ASSUME heeded'[d] PROVE MetOf(d)' /\ MergedSince(published.seq, d)'
  <2>1. heeded[d] /\ MetOf(d)
    BY <1>2, <1>7, <1>11
  <2>2. cursor[d] >= published.seq => cursor[d] = published.seq /\ roster_version[d] = published.version
    BY <1>1, <2>1 DEF MetOf
  <2>3. MetOf(d)'
    BY <1>1, <1>2, <1>4, <2>2 DEF MetOf
  <2>4. cursor[d] \in Nat /\ published.seq \in Nat /\ \A i \in Item : row[i] # None => row[i].seq \in Nat
    BY <1>1, TypesAre DEF MembershipTypes, Rows
  <2>5. \A i \in Item : ~(row[i] # None /\ published.seq < row[i].seq /\ row[i].seq <= cursor[d])
    BY <2>2, <2>4
  <2>. QED
    BY <1>2, <2>3, <2>5 DEF MergedSince
<1>12. RelayIsSound'
  BY <1>2, <1>5, RelayStaysSound
<1>13. task'[d].step # "deliver"
  BY <1>1, <1>2
<1>. QED
  BY <1>5, <1>6, <1>8, <1>9, <1>10, <1>11, <1>12, <1>13, MoveKeeps

\* What PassesOver leaves of the history.
LEMMA PassingIs ==
  ASSUME MembershipTypes, NEW d \in Device, PassesOver(d)
  PROVE  /\ heeded' \in [Device -> BOOLEAN]
         /\ heeded'[d] => heeded[d] /\ offered[d] = None
         /\ \A e \in Device \ {d} : heeded'[e] = heeded[e]
  BY DEF PassesOver, MembershipTypes

LEMMA SupersededKeeps ==
  ASSUME MembershipInv, NEW d \in Device, Superseded(d), PassesOver(d), member[d] = "joined",
         task[d].step # "deliver"
  PROVE  MembershipInv'
<1> DEFINE o == IF published.devices # trusted[d] THEN published ELSE None
<1>1. MembershipTypes /\ roster_version[d] # published.version
  BY TypesAre DEF Superseded
<1>2. /\ roster_version' = [roster_version EXCEPT ![d] = published.version]
      /\ offered' = [offered EXCEPT ![d] = o] /\ task' = [task EXCEPT ![d] = Idle]
      /\ UNCHANGED <<published, row, next_seq, relay, trusted, vault, known, cursor, epoch, member, lost, ever>>
  BY DEF Superseded, server, store
<1>3. /\ roster_version \in [Device -> Nat] /\ offered \in [Device -> Rosters \cup {None}]
      /\ task \in [Device -> Tasks] /\ published.version \in Nat /\ o \in Rosters \cup {None}
  BY <1>1, TypesAre DEF MembershipTypes
<1>4. /\ o = None => published.devices = trusted[d]
      /\ o # None => o = published
  BY <1>1, MembershipAssumption DEF MembershipTypes
<1> HIDE DEF o
<1>5. /\ roster_version'[d] = published.version /\ offered'[d] = o /\ task'[d] = Idle /\ task'[d].step = "idle"
      /\ \A e \in Device \ {d} : /\ roster_version'[e] = roster_version[e] /\ offered'[e] = offered[e]
                                 /\ task'[e] = task[e]
  BY <1>2, <1>3, IdleIs
<1>6. /\ heeded' \in [Device -> BOOLEAN] /\ (heeded'[d] => heeded[d])
      /\ \A e \in Device \ {d} : heeded'[e] = heeded[e]
  BY <1>1, PassingIs
<1>7. Moves(d)
  BY <1>2, <1>5, <1>6 DEF Moves
<1>8. MembershipTypes'
  <2>1. /\ roster_version' \in [Device -> Nat] /\ offered' \in [Device -> Rosters \cup {None}]
        /\ task' \in [Device -> Tasks]
    BY <1>2, <1>3, IdleIs
  <2>. QED
    BY <1>1, <1>2, <1>6, <2>1 DEF MembershipTypes
<1>9. QueueOf(d) /\ ListsOf(d) /\ (heeded[d] => MetOf(d) /\ MergedSince(published.seq, d))
  BY OfEach
<1>10. QueueOf(d)'
  BY <1>2, <1>3, <1>5, <1>9 DEF QueueOf, SealedIn
<1>11. ListsOf(d)'
  <2>1. published.devices \in ever.rosters
    BY TypesAre DEF ListsWerePublished
  <2>. QED
    BY <1>2, <1>4, <1>5, <1>9, <2>1 DEF ListsOf
<1>12. VersionOf(d)'
  BY <1>2, <1>4, <1>5 DEF VersionOf
<1>13. ASSUME heeded'[d] PROVE MetOf(d)' /\ MergedSince(published.seq, d)'
  <2>1. heeded[d] /\ MetOf(d) /\ MergedSince(published.seq, d)
    BY <1>6, <1>9, <1>13
  <2>2. cursor[d] >= published.seq => published.by \notin trusted[d]
    BY <1>1, <2>1 DEF MetOf
  <2>3. MetOf(d)'
    BY <1>2, <1>4, <1>5, <2>2 DEF MetOf
  <2>. QED
    BY <1>2, <2>1, <2>3 DEF MergedSince
<1>14. RelayIsSound'
  BY <1>2, <1>7, RelayStaysSound
<1>15. task'[d].step # "deliver"
  BY <1>5
<1>. QED
  BY <1>7, <1>8, <1>10, <1>11, <1>12, <1>13, <1>14, <1>15, MoveKeeps

LEMMA DeliverKeeps ==
  ASSUME MembershipInv, NEW d \in Device, Deliver(d)
  PROVE  MembershipInv'
<1> DEFINE n == task[d].new
<1>1. MembershipTypes /\ task[d].step = "deliver" /\ task[d] \in Tasks
  BY TypesAre DEF Deliver
<1>2. n \in Device /\ task[d].current \in BOOLEAN /\ task[d].devices \subseteq Device /\ member[d] = "joined"
  <2>1. task[d] # Idle
    BY <1>1, IdleIs
  <2>2. member[d] = "joined"
    BY <2>1, TypesAre DEF OnlyMembersWork
  <2>. QED
    BY <1>1, <2>2, TaskIs
<1>3. /\ task' = [task EXCEPT ![d] = Idle]
      /\ UNCHANGED <<published, row, next_seq, roster_version, vault, known, cursor, epoch, offered, member,
                     heeded, ever>>
  BY DEF Deliver, server, store
<1>4. /\ task \in [Device -> Tasks] /\ trusted \in [Device -> SUBSET Device]
      /\ relay \in [Device -> [taken : BOOLEAN, grant : Grants \cup {None}] \cup {None}]
      /\ Grant(d) \in Grants /\ Grant(d).devices = task[d].devices
  BY <1>1, <1>2 DEF MembershipTypes, Grant, Grants
<1>5. task' \in [Device -> Tasks] /\ task'[d] = Idle /\ task'[d].step = "idle"
      /\ \A e \in Device \ {d} : task'[e] = task[e]
  BY <1>3, <1>4, IdleIs
<1>6. /\ QueueOf(d) /\ ListsOf(d) /\ VersionOf(d) /\ (heeded[d] => MetOf(d) /\ MergedSince(published.seq, d))
      /\ (AllHeeded => n \in EverListed) /\ RelayIsSound
  BY <1>1, <1>2, OfEach
<1>7. heeded[d] => cursor[d] < published.seq /\ cursor[d] \in Nat /\ published.seq \in Nat
  BY <1>1, <1>6, TypesAre DEF MetOf
<1>8. relay' = relay \/ (/\ relay[n] # None /\ relay' = [relay EXCEPT ![n].grant = Grant(d)])
  BY DEF Deliver, Unanswered, ResponseStored
<1>9. /\ relay' \in [Device -> [taken : BOOLEAN, grant : Grants \cup {None}] \cup {None}]
      /\ \A e \in Device : relay'[e] # None => (relay'[e].grant # None =>
           (relay[e] # None /\ relay'[e].grant = relay[e].grant) \/ (e = n /\ relay'[e].grant = Grant(d)))
  <2>1. CASE relay' = relay
    BY <1>4, <2>1
  <2>2. CASE relay[n] # None /\ relay' = [relay EXCEPT ![n].grant = Grant(d)]
    <3>1. relay[n] \in [taken : BOOLEAN, grant : Grants \cup {None}]
      BY <1>2, <1>4, <2>2
    <3>2. [relay[n] EXCEPT !.grant = Grant(d)] \in [taken : BOOLEAN, grant : Grants \cup {None}]
          /\ [relay[n] EXCEPT !.grant = Grant(d)].grant = Grant(d)
      BY <1>4, <3>1
    <3>3. relay' = [relay EXCEPT ![n] = [relay[n] EXCEPT !.grant = Grant(d)]]
      BY <2>2
    <3> HIDE DEF n
    <3>. QED
      BY <1>2, <1>4, <3>2, <3>3
  <2>. QED
    BY <1>8, <2>1, <2>2
<1>10. \/ trusted' = [trusted EXCEPT ![d] = task[d].devices] /\ UNCHANGED lost
       \/ lost' # {} /\ UNCHANGED trusted
  BY DEF Deliver, Losing
<1>11. /\ trusted' \in [Device -> SUBSET Device] /\ \A e \in Device \ {d} : trusted'[e] = trusted[e]
       /\ \/ trusted'[d] = task[d].devices /\ lost' = lost
          \/ trusted'[d] = trusted[d] /\ lost' # {}
  BY <1>2, <1>4, <1>10
<1> HIDE DEF n
<1>12. Moves(d)
  BY <1>2, <1>3, <1>5, <1>11 DEF Moves
<1>13. MembershipTypes'
  BY <1>1, <1>3, <1>5, <1>9, <1>11 DEF MembershipTypes
<1>14. QueueOf(d)'
  BY <1>3, <1>5, <1>6 DEF QueueOf, SealedIn
<1>15. ListsOf(d)'
  BY <1>1, <1>3, <1>5, <1>6, <1>11 DEF ListsOf
<1>16. VersionOf(d)'
  BY <1>1, <1>3, <1>5, <1>6, <1>11 DEF VersionOf
<1>17. ASSUME heeded'[d] PROVE MetOf(d)' /\ MergedSince(published.seq, d)'
  <2>1. cursor[d] < published.seq /\ cursor[d] \in Nat /\ published.seq \in Nat
    BY <1>3, <1>7, <1>17
  <2>2. MetOf(d)'
    BY <1>3, <1>5, <2>1 DEF MetOf
  <2>3. \A i \in Item : row[i] # None => row[i].seq \in Nat
    BY <1>1 DEF MembershipTypes, Rows
  <2>4. \A i \in Item : ~(row[i] # None /\ published.seq < row[i].seq /\ row[i].seq <= cursor[d])
    BY <2>1, <2>3
  <2>. QED
    BY <1>3, <2>2, <2>4 DEF MergedSince
<1>18. RelayIsSound'
  <2>1. AllHeeded' => AllHeeded
    BY <1>12 DEF Moves, AllHeeded
  <2>2. Grant(d).devices \in ever.rosters
    BY <1>1, <1>4, <1>6 DEF ListsOf
  <2>. QED
    BY <1>3, <1>6, <1>9, <2>1, <2>2 DEF RelayIsSound, EverListed
<1>19. task'[d].step # "deliver"
  BY <1>5
<1>. QED
  BY <1>12, <1>13, <1>14, <1>15, <1>16, <1>17, <1>18, <1>19, MoveKeeps

\* What a page leaves of d's rows when the rows of G are merged.
PageRows(d, G) == [i \in Item |-> IF i \in G THEN Merged(d, i, row[i].env) ELSE vault[d][i]]
PageKnown(d, G) == [i \in Item |-> IF i \in G THEN [env |-> row[i].env, version |-> row[i].version]
                                   ELSE known[d][i]]

LEMMA PageIs ==
  ASSUME MembershipInv, NEW d \in Device, NEW G, G \subseteq {i \in Item : row[i] # None}
  PROVE  /\ PageRows(d, G) \in [Item -> Envelopes \cup {None}]
         /\ PageKnown(d, G) \in [Item -> [env : Envelopes \cup {None}, version : Nat]]
         /\ \A i \in Item : /\ SealedIn(PageRows(d, G)[i])
                            /\ Value(vault[d][i]) \subseteq Value(PageRows(d, G)[i])
                            /\ row[i] = None => PageKnown(d, G)[i].version = 0
         /\ \A i \in G : row[i].env.value \subseteq Value(PageRows(d, G)[i])
<1>1. /\ MembershipTypes /\ EpochsAreReached /\ QueuesAreSound
  BY TypesAre
<1>2. \A i \in Item : vault[d][i] \in Envelopes \cup {None} /\ SealedIn(vault[d][i])
      /\ known[d][i] \in [env : Envelopes \cup {None}, version : Nat] /\ (row[i] = None => known[d][i].version = 0)
  BY <1>1 DEF MembershipTypes, EpochsAreReached, QueuesAreSound
<1>3. ASSUME NEW i \in G
      PROVE  /\ PageRows(d, G)[i] = Merged(d, i, row[i].env) /\ Merged(d, i, row[i].env) \in Envelopes
             /\ SealedIn(Merged(d, i, row[i].env)) /\ row[i].env.value \subseteq Value(Merged(d, i, row[i].env))
             /\ Value(vault[d][i]) \subseteq Value(Merged(d, i, row[i].env))
             /\ PageKnown(d, G)[i] = [env |-> row[i].env, version |-> row[i].version]
             /\ PageKnown(d, G)[i] \in [env : Envelopes \cup {None}, version : Nat] /\ row[i] # None /\ i \in Item
  <2>1. i \in Item /\ row[i] # None /\ row[i] \in Rows /\ SealedIn(row[i].env)
    BY <1>1 DEF MembershipTypes, EpochsAreReached
  <2>2. row[i].env \in Envelopes /\ row[i].version \in Nat
    BY <2>1 DEF Rows
  <2>. QED
    BY <1>1, <2>1, <2>2, MergedIs DEF PageRows, PageKnown
<1>4. \A i \in Item \ G : PageRows(d, G)[i] = vault[d][i] /\ PageKnown(d, G)[i] = known[d][i]
  BY DEF PageRows, PageKnown
<1>5. \A i \in Item : PageRows(d, G)[i] \in Envelopes \cup {None} /\ SealedIn(PageRows(d, G)[i])
      /\ PageKnown(d, G)[i] \in [env : Envelopes \cup {None}, version : Nat]
      /\ Value(vault[d][i]) \subseteq Value(PageRows(d, G)[i])
      /\ (row[i] = None => PageKnown(d, G)[i].version = 0)
  BY <1>2, <1>3, <1>4
<1>6. PageRows(d, G) \in [Item -> Envelopes \cup {None}]
  BY <1>2, <1>3 DEF PageRows
<1>7. PageKnown(d, G) \in [Item -> [env : Envelopes \cup {None}, version : Nat]]
  <2>1. \A i \in Item : IF i \in G THEN [env |-> row[i].env, version |-> row[i].version]
                                        \in [env : Envelopes \cup {None}, version : Nat]
                        ELSE known[d][i] \in [env : Envelopes \cup {None}, version : Nat]
    BY <1>2, <1>3
  <2>. QED
    BY <2>1 DEF PageKnown
<1>. QED
  BY <1>3, <1>5, <1>6, <1>7

LEMMA PullKeeps ==
  ASSUME MembershipInv, NEW d \in Device, Pull(d)
  PROVE  MembershipInv'
<1> DEFINE end == PageEnd(d)
           seen == {i \in Item : row[i] # None /\ row[i].seq > cursor[d] /\ row[i].seq <= end}
           G == {i \in seen : Accepted(d, row[i].env)}
           v == PageRows(d, G)
           k == PageKnown(d, G)
           roster == published.seq > cursor[d] /\ published.seq <= end /\ Accepted(d, published)
           o == IF roster /\ published.devices # trusted[d] THEN published ELSE None
           version == IF roster THEN published.version ELSE roster_version[d]
           t == Pushing(Pending(v, k))
<1>1. MembershipTypes /\ task[d] = Idle /\ task[d].step = "idle" /\ member[d] = "joined"
  BY TypesAre, IdleIs DEF Pull, CanStart
<1>2. /\ vault' = [vault EXCEPT ![d] = v] /\ known' = [known EXCEPT ![d] = k]
      /\ cursor' = [cursor EXCEPT ![d] = end]
      /\ roster_version' = [roster_version EXCEPT ![d] = version]
      /\ offered' = [offered EXCEPT ![d] = o]
      /\ task' = [task EXCEPT ![d] = t]
      /\ PassesOver(d)
      /\ UNCHANGED <<published, row, next_seq, relay, trusted, epoch, member, lost, ever>>
  BY DEF Pull, PageRows, PageKnown, server
<1>3. /\ published.seq \in Nat /\ next_seq \in Nat /\ cursor[d] \in Nat /\ published.version \in Nat
      /\ roster_version[d] \in Nat /\ roster_version[d] <= published.version
      /\ cursor[d] < next_seq /\ published.seq < next_seq
  BY TypesAre DEF NumbersAreAllocated
<1>4. /\ end \in Nat /\ end < next_seq /\ published.seq <= end
      /\ published.seq > cursor[d] => end = published.seq
  BY <1>3 DEF PageEnd
<1>5. /\ published.seq > cursor[d] /\ published.by \in trusted[d] => roster
      /\ roster => published.seq > cursor[d] /\ published.by \in trusted[d]
  BY <1>4 DEF Accepted
<1>6. /\ o \in Rosters \cup {None} /\ version \in Nat /\ version <= published.version
      /\ o # None => roster /\ o = published
      /\ roster /\ o = None => published.devices = trusted[d]
      /\ roster => version = published.version
      /\ ~roster => version = roster_version[d]
  BY <1>1, <1>3, MembershipAssumption DEF MembershipTypes
<1>7. /\ v \in [Item -> Envelopes \cup {None}] /\ k \in [Item -> [env : Envelopes \cup {None}, version : Nat]]
      /\ \A i \in Item : /\ SealedIn(v[i]) /\ Value(vault[d][i]) \subseteq Value(v[i])
                         /\ row[i] = None => k[i].version = 0
      /\ \A i \in G : row[i].env.value \subseteq Value(v[i])
  BY PageIs
<1>8. \A i \in Item : row[i] # None /\ row[i].seq > cursor[d] /\ row[i].seq <= end /\ row[i].env.by \in trusted[d]
                      => i \in G
  BY DEF Accepted
<1>9. /\ t \in Tasks /\ t.step \in {"idle", "push"}
      /\ t.step = "push" => t.todo # {} /\ \A i \in t.todo : v[i] # None
  <2> HIDE DEF v, k
  <2> DEFINE q == Pending(v, k)
  <2>1. q \subseteq Item /\ \A i \in q : v[i] # None
    BY DEF Pending
  <2>2. t.step = "push" => t.todo = q
    BY IdleIs DEF Pushing
  <2> HIDE DEF q
  <2>. QED
    BY <2>1, <2>2, PushingIs DEF q
<1> HIDE DEF end, seen, G, v, k, roster, o, version, t
<1>10. /\ heeded' \in [Device -> BOOLEAN] /\ (heeded'[d] => heeded[d] /\ offered[d] = None)
       /\ \A e \in Device \ {d} : heeded'[e] = heeded[e]
  BY <1>1, <1>2, PassingIs
<1>11. /\ vault' \in [Device -> [Item -> Envelopes \cup {None}]]
       /\ known' \in [Device -> [Item -> [env : Envelopes \cup {None}, version : Nat]]]
       /\ cursor' \in [Device -> Nat] /\ roster_version' \in [Device -> Nat]
       /\ offered' \in [Device -> Rosters \cup {None}] /\ task' \in [Device -> Tasks]
  BY <1>1, <1>2, <1>4, <1>6, <1>7, <1>9 DEF MembershipTypes
<1>12. /\ vault'[d] = v /\ known'[d] = k /\ cursor'[d] = end /\ roster_version'[d] = version
       /\ offered'[d] = o /\ task'[d] = t
       /\ \A e \in Device \ {d} :
            /\ roster_version'[e] = roster_version[e] /\ vault'[e] = vault[e] /\ known'[e] = known[e]
            /\ cursor'[e] = cursor[e] /\ task'[e] = task[e] /\ offered'[e] = offered[e]
  BY <1>1, <1>2 DEF MembershipTypes
<1>13. Moves(d)
  BY <1>1, <1>2, <1>10, <1>12 DEF Moves
<1>14. MembershipTypes'
  BY <1>1, <1>2, <1>10, <1>11 DEF MembershipTypes
<1>15. QueueOf(d)'
  BY <1>2, <1>4, <1>6, <1>7, <1>9, <1>12 DEF QueueOf, SealedIn
<1>16. ListsOf(d) /\ VersionOf(d) /\ (heeded[d] => MetOf(d) /\ MergedSince(published.seq, d))
  BY <1>1, OfEach
<1>17. ListsOf(d)'
  <2>1. published.devices \in ever.rosters
    BY TypesAre DEF ListsWerePublished
  <2>. QED
    BY <1>2, <1>6, <1>9, <1>12, <1>16, <2>1 DEF ListsOf
<1>18. VersionOf(d)'
  BY <1>1, <1>2, <1>6, <1>9, <1>10, <1>12, <1>16 DEF VersionOf
<1>19. ASSUME heeded'[d] PROVE MetOf(d)' /\ MergedSince(published.seq, d)'
  <2>1. heeded[d] /\ MetOf(d) /\ MergedSince(published.seq, d)
    BY <1>10, <1>16, <1>19
  <2>2. published.by \in trusted[d] => version = published.version
    <3>1. CASE published.seq > cursor[d]
      BY <1>5, <1>6, <3>1
    <3>2. CASE ~(published.seq > cursor[d])
      <4>1. cursor[d] >= published.seq
        BY <1>3, <3>2
      <4>2. published.by \in trusted[d] => roster_version[d] = published.version
        BY <2>1, <4>1 DEF MetOf
      <4>. QED
        BY <1>6, <4>2
    <3>. QED
      BY <3>1, <3>2
  <2>3. o # None => end = published.seq /\ version = published.version
    BY <1>4, <1>5, <1>6
  <2>4. MetOf(d)'
    BY <1>2, <1>9, <1>12, <2>2, <2>3 DEF MetOf
  <2>5. ASSUME NEW i \in Item, row[i] # None, published.seq < row[i].seq, row[i].seq <= end, row[i].env.by \in trusted[d]
        PROVE  row[i].env.value \subseteq Value(v[i])
    <3>1. row[i].seq \in Nat
      BY <1>1, <2>5 DEF MembershipTypes, Rows
    <3>2. CASE row[i].seq <= cursor[d]
      BY <1>7, <2>1, <2>5, <3>2 DEF MergedSince
    <3>3. CASE row[i].seq > cursor[d]
      BY <1>7, <1>8, <2>5, <3>3
    <3>. QED
      BY <1>3, <3>1, <3>2, <3>3
  <2>. QED
    BY <1>2, <1>12, <2>4, <2>5 DEF MergedSince
<1>20. RelayIsSound'
  BY <1>2, <1>13, RelayStaysSound
<1>21. task'[d].step # "deliver"
  BY <1>9, <1>12
<1>. QED
  BY <1>13, <1>14, <1>15, <1>17, <1>18, <1>19, <1>20, <1>21, MoveKeeps

-----------------------------------------------------------------------------
(***************************************************************************)
(* A roster is published. It lands past every cursor, and its version is   *)
(* one that no other device knows; so nobody else is concerned with it yet.*)
(***************************************************************************)
OnlyTouches(d) ==
  /\ UNCHANGED <<relay, cursor, offered, known>>
  /\ \A e \in Device \ {d} :
       /\ trusted'[e] = trusted[e] /\ roster_version'[e] = roster_version[e] /\ vault'[e] = vault[e]
       /\ task'[e] = task[e] /\ member'[e] = member[e] /\ epoch'[e] = epoch[e] /\ heeded'[e] = heeded[e]

LEMMA PublishKeeps ==
  ASSUME MembershipInv, NEW d \in Device, NEW S \in SUBSET Device, NEW R \in SUBSET Device, d \in S,
         Publish(d, S, R), OnlyTouches(d), member[d] = "joined", MembershipTypes', QueuesAreSound',
         EpochsAreReached', OnlyMembersWork', ReopensUnlessEpochMet',
         member'[d] = "joined" => ListsOf(d)',
         roster_version'[d] <= published.version + 1, VersionOf(d)',
         AllHeeded' => /\ AllHeeded /\ EverListed \subseteq EverListed'
                       /\ task'[d].step = "deliver" => task'[d].new \in EverListed'
  PROVE  MembershipInv'
<1>1. /\ MembershipTypes /\ QueuesAreSound /\ OnlyMembersWork /\ NumbersAreAllocated /\ ListsWerePublished
      /\ VersionMeansRoster /\ GrantedAreListed
  BY TypesAre
<1>2. /\ published'.version = published.version + 1 /\ published'.seq = next_seq /\ published'.by = d
      /\ published'.devices = S /\ next_seq' = next_seq + 1 /\ row' = row
      /\ ever'.rosters = ever.rosters \cup {S} /\ ever'.revoked = ever.revoked \cup R
  BY DEF Publish
<1>3. /\ UNCHANGED <<relay, cursor, offered, known>>
      /\ \A e \in Device \ {d} :
           /\ trusted'[e] = trusted[e] /\ roster_version'[e] = roster_version[e] /\ vault'[e] = vault[e]
           /\ task'[e] = task[e] /\ member'[e] = member[e] /\ epoch'[e] = epoch[e] /\ heeded'[e] = heeded[e]
  BY DEF OnlyTouches
<1>4. /\ published.seq \in Nat /\ next_seq \in Nat /\ published.version \in Nat /\ published.seq < next_seq
      /\ \A e \in Device : /\ cursor[e] \in Nat /\ roster_version[e] \in Nat /\ cursor[e] < next_seq
                           /\ roster_version[e] <= published.version
  BY TypesAre DEF NumbersAreAllocated
<1>5. NumbersAreAllocated'
  <2>1. \A e \in Device : roster_version'[e] \in Nat
    BY DEF MembershipTypes
  <2>2. \A e \in Device : roster_version'[e] <= published.version + 1
    BY <1>3, <1>4, <2>1
  <2>. QED
    BY <1>2, <1>3, <1>4, <2>2 DEF NumbersAreAllocated
<1>6. ListsWerePublished'
  <2>1. \A e \in Device : member'[e] = "joined" => trusted'[e] \in ever'.rosters /\ e \in trusted'[e]
    BY <1>1, <1>2, <1>3 DEF ListsWerePublished, ListsOf
  <2>2. \A e \in Device : task'[e].step = "deliver" => task'[e].devices \in ever'.rosters /\ e \in task'[e].devices
    <3>1. task'[d].step = "deliver" => member'[d] = "joined"
      BY IdleIs DEF OnlyMembersWork
    <3>. QED
      BY <1>1, <1>2, <1>3, <3>1 DEF ListsWerePublished, ListsOf
  <2>3. \A e \in Device : offered'[e] # None => offered'[e].devices \in ever'.rosters
    BY <1>1, <1>2, <1>3 DEF ListsWerePublished
  <2>4. \A e \in Device : relay'[e] # None => (relay'[e].grant # None => relay'[e].grant.devices \in ever'.rosters)
    BY <1>1, <1>2, <1>3 DEF ListsWerePublished
  <2>. QED
    BY <1>2, <2>1, <2>2, <2>3, <2>4 DEF ListsWerePublished
<1>7. VersionMeansRoster'
  <2>1. \A e \in Device \ {d} : roster_version'[e] # published'.version
    BY <1>2, <1>3, <1>4
  <2>. QED
    BY <2>1 DEF VersionMeansRoster, VersionOf
<1>8. GrantedAreListed'
  <2>1. SUFFICES ASSUME AllHeeded'
                 PROVE  /\ JoinedStaysListed'
                        /\ \A e \in Device : /\ task'[e].step = "deliver" => task'[e].new \in EverListed'
                                             /\ relay'[e] # None => (relay'[e].grant # None => e \in EverListed')
    BY DEF GrantedAreListed, AllHeeded
  <2>2. /\ Members \subseteq EverListed
        /\ \A e \in Device : /\ task[e].step = "deliver" => task[e].new \in EverListed
                             /\ relay[e] # None => (relay[e].grant # None => e \in EverListed)
    BY <1>1, <2>1 DEF GrantedAreListed, AllHeeded, JoinedStaysListed, EverListed
  <2>3. Members' \subseteq Members
    BY <1>3 DEF Members
  <2>4. JoinedStaysListed'
    BY <2>1, <2>2, <2>3 DEF JoinedStaysListed, EverListed
  <2>. QED
    BY <1>3, <2>1, <2>2, <2>4
<1>9. RosterIsMet'
  BY <1>2, <1>3, <1>4 DEF RosterIsMet
<1>10. \A e \in Device : MergedSince(published.seq, e)'
  <2>1. \A i \in Item : row[i] # None => row[i].seq \in Nat
    BY <1>1 DEF MembershipTypes, Rows
  <2>2. \A e \in Device, i \in Item : ~(row[i] # None /\ next_seq < row[i].seq /\ row[i].seq <= cursor[e])
    BY <1>4, <2>1
  <2>. QED
    BY <1>2, <1>3, <2>2 DEF MergedSince
<1>. QED
  BY <1>5, <1>6, <1>7, <1>8, <1>9, <1>10 DEF MembershipInv

\* A published roster is a roster, and what was ever published stays in its type.
LEMMA PublishedIs ==
  ASSUME MembershipInv, NEW d \in Device, NEW S \in SUBSET Device, NEW R \in SUBSET Device, Publish(d, S, R)
  PROVE  /\ published' \in Rosters /\ next_seq' \in Nat /\ row' = row
         /\ ever' \in [rosters : SUBSET SUBSET Device, revoked : SUBSET Device]
         /\ published'.version = published.version + 1 /\ published'.devices = S
         /\ ever'.rosters = ever.rosters \cup {S} /\ ever'.revoked = ever.revoked \cup R
         /\ roster_version[d] = published.version
<1>1. published.version \in Nat /\ next_seq \in Nat
  BY TypesAre
<1>2. ever \in [rosters : SUBSET SUBSET Device, revoked : SUBSET Device]
  BY TypesAre DEF MembershipTypes
<1>3. ever.rosters \subseteq SUBSET Device /\ ever.revoked \subseteq Device
  BY <1>2
<1>4. ever' = [rosters |-> ever.rosters \cup {S}, revoked |-> ever.revoked \cup R]
  BY DEF Publish
<1>5. ever' \in [rosters : SUBSET SUBSET Device, revoked : SUBSET Device]
  BY <1>3, <1>4
<1>. QED
  BY <1>1, <1>4, <1>5 DEF Publish, Rosters

\* The reply is lost: the device is as before, and idle.
LEMMA PublishLostKeeps ==
  ASSUME MembershipInv, NEW d \in Device, NEW S \in SUBSET Device, NEW R \in SUBSET Device, d \in S,
         PublishLost(d, S, R), PassesOver(d), member[d] = "joined"
  PROVE  MembershipInv'
<1>1. /\ MembershipTypes /\ QueuesAreSound /\ OnlyMembersWork /\ EpochsAreReached /\ ReopensUnlessEpochMet
  BY TypesAre
<1>2. /\ Publish(d, S, R) /\ task' = [task EXCEPT ![d] = Idle] /\ lost' # {}
      /\ UNCHANGED <<relay, trusted, roster_version, vault, known, cursor, epoch, offered, member>>
  BY DEF PublishLost, Losing, store
<1>3. /\ published' \in Rosters /\ next_seq' \in Nat /\ row' = row
      /\ ever' \in [rosters : SUBSET SUBSET Device, revoked : SUBSET Device]
      /\ ever'.rosters = ever.rosters \cup {S}
  BY <1>2, PublishedIs
<1>4. task' \in [Device -> Tasks] /\ task'[d] = Idle /\ task'[d].step = "idle"
      /\ \A e \in Device \ {d} : task'[e] = task[e]
  BY <1>1, <1>2, IdleIs DEF MembershipTypes
<1>5. heeded' \in [Device -> BOOLEAN] /\ \A e \in Device \ {d} : heeded'[e] = heeded[e]
  BY <1>1, PassingIs
<1>6. OnlyTouches(d)
  BY <1>2, <1>4, <1>5 DEF OnlyTouches
<1>7. MembershipTypes'
  BY <1>1, <1>2, <1>3, <1>4, <1>5 DEF MembershipTypes
<1>8. QueuesAreSound'
  BY <1>1, <1>2, <1>3, <1>4 DEF QueuesAreSound
<1>9. EpochsAreReached'
  BY <1>1, <1>2, <1>3 DEF EpochsAreReached, SealedIn
<1>10. OnlyMembersWork'
  BY <1>1, <1>2, <1>4 DEF OnlyMembersWork
<1>11. ReopensUnlessEpochMet'
  BY <1>1, <1>2 DEF ReopensUnlessEpochMet
<1>12. ListsOf(d)'
  <2>1. ListsOf(d)
    BY OfEach
  <2>. QED
    BY <1>2, <1>3, <1>4, <2>1 DEF ListsOf
<1>13. roster_version'[d] <= published.version + 1
  <2>1. roster_version[d] <= published.version /\ roster_version[d] \in Nat /\ published.version \in Nat
    BY TypesAre DEF NumbersAreAllocated
  <2>. QED
    BY <1>2, <2>1
<1>14. VersionOf(d)' /\ ~AllHeeded'
  BY <1>2 DEF VersionOf, AllHeeded
<1>. QED
  BY <1>2, <1>6, <1>7, <1>8, <1>9, <1>10, <1>11, <1>12, <1>13, <1>14, PublishKeeps

\* A device that heeded what it was offered and holds the newest version lists
\* exactly whom the newest roster lists.
LEMMA NewestIsTrusted ==
  ASSUME MembershipInv, NEW d \in Device, lost = {}, heeded[d], offered[d] = None, task[d].step # "deliver",
         roster_version[d] = published.version
  PROVE  trusted[d] = published.devices
<1>1. VersionOf(d)
  BY OfEach
<1>. QED
  BY <1>1 DEF VersionOf

LEMMA ApproveKeeps ==
  ASSUME MembershipInv, NEW d \in Device, Approve(d)
  PROVE  MembershipInv'
<1> DEFINE n == task[d].new
           S == trusted[d] \cup {n}
           t == [step |-> "deliver", new |-> n, current |-> task[d].current, devices |-> S]
<1>1. /\ MembershipTypes /\ QueuesAreSound /\ OnlyMembersWork /\ EpochsAreReached /\ ReopensUnlessEpochMet
  BY TypesAre
<1>2. task[d].step = "approve" /\ PassesOver(d) /\ task[d] \in Tasks
  BY <1>1 DEF Approve, MembershipTypes
<1>3. n \in Device /\ task[d].current \in BOOLEAN /\ member[d] = "joined"
  <2>1. task[d] # Idle
    BY <1>2, IdleIs
  <2>2. member[d] = "joined"
    BY <1>1, <2>1 DEF OnlyMembersWork
  <2>. QED
    BY <1>2, <2>2, TaskIs
<1>4. ListsOf(d) /\ trusted[d] \subseteq Device
  BY <1>1, <1>3, OfEach DEF MembershipTypes
<1>5. S \in SUBSET Device /\ {} \in SUBSET Device /\ d \in S /\ trusted[d] \subseteq S /\ n \in S
  BY <1>3, <1>4 DEF ListsOf
<1>6. t \in Tasks /\ t.step = "deliver" /\ t.new = n /\ t.devices = S
  BY <1>3, <1>5 DEF Tasks
<1>7. CASE Superseded(d)
  BY <1>2, <1>3, <1>7, SupersededKeeps
<1>8. CASE PublishLost(d, S, {})
  <2> HIDE DEF S
  <2>. QED
    BY <1>2, <1>3, <1>5, <1>8, PublishLostKeeps
<1>9. CASE /\ Publish(d, S, {}) /\ roster_version' = [roster_version EXCEPT ![d] = published.version + 1]
           /\ task' = [task EXCEPT ![d] = t]
           /\ UNCHANGED <<relay, trusted, vault, known, cursor, epoch, offered, member, lost>>
  <2> HIDE DEF n, S, t
  <2>1. /\ published' \in Rosters /\ next_seq' \in Nat /\ row' = row
        /\ ever' \in [rosters : SUBSET SUBSET Device, revoked : SUBSET Device]
        /\ ever'.rosters = ever.rosters \cup {S} /\ ever'.revoked = ever.revoked \cup {}
        /\ published'.devices = S /\ published'.version = published.version + 1
        /\ roster_version[d] = published.version
    BY <1>5, <1>9, PublishedIs
  <2>2. task' \in [Device -> Tasks] /\ task'[d] = t /\ \A e \in Device \ {d} : task'[e] = task[e]
    BY <1>1, <1>6, <1>9 DEF MembershipTypes
  <2>3. /\ heeded' \in [Device -> BOOLEAN] /\ (heeded'[d] => heeded[d] /\ offered[d] = None)
        /\ \A e \in Device \ {d} : heeded'[e] = heeded[e]
    BY <1>1, <1>2, PassingIs
  <2>4. /\ roster_version' \in [Device -> Nat] /\ roster_version'[d] = published.version + 1
        /\ \A e \in Device \ {d} : roster_version'[e] = roster_version[e]
    BY <1>1, <1>9, TypesAre DEF MembershipTypes
  <2>5. OnlyTouches(d)
    BY <1>9, <2>2, <2>3, <2>4 DEF OnlyTouches
  <2>6. MembershipTypes'
    BY <1>1, <1>9, <2>1, <2>2, <2>3, <2>4 DEF MembershipTypes
  <2>7. QueuesAreSound'
    BY <1>1, <1>6, <1>9, <2>1, <2>2 DEF QueuesAreSound
  <2>8. EpochsAreReached'
    BY <1>1, <1>9, <2>1 DEF EpochsAreReached, SealedIn
  <2>9. OnlyMembersWork'
    BY <1>1, <1>3, <1>9, <2>2, <2>4 DEF OnlyMembersWork
  <2>10. ReopensUnlessEpochMet'
    BY <1>1, <1>9 DEF ReopensUnlessEpochMet
  <2>11. ListsOf(d)'
    BY <1>4, <1>5, <1>6, <1>9, <2>1, <2>2 DEF ListsOf
  <2>12. roster_version'[d] <= published.version + 1
    <3>1. published.version \in Nat
      BY TypesAre
    <3>. QED
      BY <2>4, <3>1
  <2>13. VersionOf(d)'
    BY <1>6, <1>9, <2>1, <2>2, <2>3 DEF VersionOf
  <2>14. ASSUME AllHeeded' PROVE AllHeeded /\ EverListed \subseteq EverListed' /\ task'[d].new \in EverListed'
    <3>1. AllHeeded /\ heeded'[d]
      BY <1>9, <2>3, <2>14 DEF AllHeeded
    <3>2. trusted[d] = published.devices
      BY <1>2, <2>1, <2>3, <3>1, NewestIsTrusted DEF AllHeeded
    <3>. QED
      BY <1>5, <1>6, <2>1, <2>2, <3>1, <3>2 DEF EverListed
  <2>. QED
    BY <1>3, <1>5, <1>9, <2>5, <2>6, <2>7, <2>8, <2>9, <2>10, <2>11, <2>12, <2>13, <2>14, PublishKeeps
<1>. QED
  BY <1>7, <1>8, <1>9 DEF Approve, store

\* rotate_step: values and holes stay, and what is not sealed by d is of the new
\* epoch already.
LEMMA RewrappedIs ==
  ASSUME MembershipInv, NEW d \in Device
  PROVE  /\ Rewrapped(d) \in [Item -> Envelopes \cup {None}]
         /\ \A i \in Item : /\ Rewrapped(d)[i] = vault[d][i]
                                 /\ (vault[d][i] # None => vault[d][i].epoch = epoch[d] + 1)
                            \/ /\ vault[d][i] # None /\ Rewrapped(d)[i] # None
                               /\ Rewrapped(d)[i].by = d /\ Rewrapped(d)[i].epoch = epoch[d] + 1
<1>1. epoch[d] \in Nat /\ \A i \in Item : vault[d][i] \in Envelopes \cup {None}
  BY TypesAre DEF MembershipTypes
<1> DEFINE anew(i) == [by |-> d, epoch |-> epoch[d] + 1, value |-> vault[d][i].value]
<1>2. \A i \in Item : vault[d][i] # None => anew(i) \in Envelopes
  BY <1>1 DEF Envelopes
<1>3. \A i \in Item : anew(i).by = d /\ anew(i).epoch = epoch[d] + 1
  OBVIOUS
<1>4. Rewrapped(d) = [i \in Item |-> IF vault[d][i] = None \/ vault[d][i].epoch = epoch[d] + 1 THEN vault[d][i]
                                     ELSE anew(i)]
  BY DEF Rewrapped
<1> HIDE DEF anew
<1>5. \A i \in Item : Rewrapped(d)[i] = IF vault[d][i] = None \/ vault[d][i].epoch = epoch[d] + 1 THEN vault[d][i]
                                        ELSE anew(i)
  BY <1>4
<1>6. Rewrapped(d) \in [Item -> Envelopes \cup {None}]
  BY <1>1, <1>2, <1>4
<1>7. \A i \in Item : vault[d][i] # None => anew(i) # None
  BY <1>2, MembershipAssumption
<1>. QED
  BY <1>3, <1>5, <1>6, <1>7

LEMMA RevokeKeeps ==
  ASSUME MembershipInv, NEW d \in Device, NEW r \in Device, Revoke(d, r)
  PROVE  MembershipInv'
<1> DEFINE S == trusted[d] \ {r}
           w == Rewrapped(d)
           m == IF Opens(d, S, w) THEN "joined" ELSE "poisoned"
<1>1. /\ MembershipTypes /\ QueuesAreSound /\ OnlyMembersWork /\ EpochsAreReached /\ ReopensUnlessEpochMet
  BY TypesAre
<1>2. task[d] = Idle /\ task[d].step = "idle" /\ member[d] = "joined" /\ r # d /\ PassesOver(d)
  BY IdleIs DEF Revoke, CanStart
<1>3. ListsOf(d) /\ trusted[d] \subseteq Device
  BY <1>1, <1>2, OfEach DEF MembershipTypes
<1>4. S \in SUBSET Device /\ {r} \in SUBSET Device /\ d \in S /\ trusted[d] \subseteq S \cup {r}
  BY <1>2, <1>3 DEF ListsOf
<1>5. CASE Superseded(d)
  BY <1>2, <1>5, SupersededKeeps
<1>6. CASE PublishLost(d, S, {r})
  <2> HIDE DEF S
  <2>. QED
    BY <1>2, <1>4, <1>6, PublishLostKeeps
<1>7. CASE /\ Publish(d, S, {r}) /\ roster_version' = [roster_version EXCEPT ![d] = published.version + 1]
           /\ epoch' = [epoch EXCEPT ![d] = @ + 1] /\ vault' = [vault EXCEPT ![d] = w]
           /\ trusted' = [trusted EXCEPT ![d] = S] /\ member' = [member EXCEPT ![d] = m]
           /\ UNCHANGED <<relay, known, cursor, task, offered, lost>>
  <2>1. /\ w \in [Item -> Envelopes \cup {None}]
        /\ \A i \in Item : /\ w[i] = vault[d][i]
                                /\ (vault[d][i] # None => vault[d][i].epoch = epoch[d] + 1)
                           \/ /\ vault[d][i] # None /\ w[i] # None
                              /\ w[i].by = d /\ w[i].epoch = epoch[d] + 1
    BY RewrappedIs
  <2>2. m \in {"joined", "poisoned"} /\ (m = "poisoned" => \E i \in Item : w[i] # None /\ w[i].by \notin S)
    BY <1>4 DEF Opens
  <2> HIDE DEF S, w, m
  <2>3. /\ published' \in Rosters /\ next_seq' \in Nat /\ row' = row
        /\ ever' \in [rosters : SUBSET SUBSET Device, revoked : SUBSET Device]
        /\ ever'.rosters = ever.rosters \cup {S} /\ ever'.revoked = ever.revoked \cup {r}
        /\ published'.devices = S /\ published'.version = published.version + 1
        /\ roster_version[d] = published.version
    BY <1>4, <1>7, PublishedIs
  <2>4. /\ heeded' \in [Device -> BOOLEAN] /\ (heeded'[d] => heeded[d] /\ offered[d] = None)
        /\ \A e \in Device \ {d} : heeded'[e] = heeded[e]
    BY <1>1, <1>2, PassingIs
  <2>5. published.version \in Nat /\ \A e \in Device : epoch[e] \in Nat
    BY TypesAre
  <2>6. /\ roster_version' \in [Device -> Nat] /\ epoch' \in [Device -> Nat] /\ trusted' \in [Device -> SUBSET Device]
        /\ vault' \in [Device -> [Item -> Envelopes \cup {None}]]
        /\ member' \in [Device -> {"new", "waiting", "joined", "poisoned"}]
    BY <1>1, <1>4, <1>7, <2>1, <2>2, <2>5 DEF MembershipTypes
  <2>7. /\ roster_version'[d] = published.version + 1 /\ epoch'[d] = epoch[d] + 1 /\ trusted'[d] = S
        /\ vault'[d] = w /\ member'[d] = m
        /\ \A e \in Device \ {d} :
             /\ roster_version'[e] = roster_version[e] /\ epoch'[e] = epoch[e] /\ trusted'[e] = trusted[e]
             /\ vault'[e] = vault[e] /\ member'[e] = member[e]
    BY <1>1, <1>7 DEF MembershipTypes
  <2>8. OnlyTouches(d)
    BY <1>7, <2>4, <2>7 DEF OnlyTouches
  <2>9. MembershipTypes'
    BY <1>1, <1>7, <2>3, <2>4, <2>6 DEF MembershipTypes
  <2>10. QueuesAreSound'
    BY <1>1, <1>2, <1>7, <2>3, <2>7 DEF QueuesAreSound
  <2>11. \A e \in Device : epoch'[e] \in Nat /\ epoch[e] <= epoch'[e]
    BY <2>5, <2>6, <2>7
  <2>12. EpochsAreReached'
    <3> DEFINE Fits(x) == x # None => x.epoch <= epoch'[x.by]
    <3>1. ASSUME NEW x \in Envelopes \cup {None}, SealedIn(x) PROVE Fits(x)
      <4>1. x # None => x.by \in Device /\ x.epoch \in Nat
        BY DEF Envelopes
      <4>. QED
        BY <2>5, <2>11, <3>1, <4>1 DEF SealedIn
    <3>2. \A i \in Item : row[i] # None => Fits(row[i].env)
      <4>1. \A i \in Item : row[i] # None => row[i].env \in Envelopes \cup {None} /\ SealedIn(row[i].env)
        BY <1>1 DEF MembershipTypes, Rows, EpochsAreReached
      <4>. QED
        BY <3>1, <4>1
    <3>3. \A e \in Device, i \in Item : Fits(vault[e][i])
      <4>1. \A e \in Device, i \in Item : vault[e][i] \in Envelopes \cup {None} /\ SealedIn(vault[e][i])
        BY <1>1 DEF MembershipTypes, EpochsAreReached
      <4>. QED
        BY <3>1, <4>1
    <3>4. \A i \in Item : Fits(w[i])
      <4>1. ASSUME NEW i \in Item, w[i] # vault[d][i] PROVE Fits(w[i])
        BY <2>1, <2>5, <2>7, <4>1
      <4>. QED
        BY <3>3, <4>1
    <3>5. \A e \in Device, i \in Item : Fits(vault'[e][i])
      BY <2>7, <3>3, <3>4
    <3>. QED
      BY <2>3, <3>2, <3>5 DEF EpochsAreReached, SealedIn
  <2>13. OnlyMembersWork'
    BY <1>1, <1>2, <1>7, <2>2, <2>7 DEF OnlyMembersWork
  <2>14. ReopensUnlessEpochMet'
    <3>1. ASSUME m = "poisoned" PROVE \E e \in Device \ {d} : epoch'[e] >= epoch'[d]
      <4>1. PICK i \in Item : w[i] # None /\ w[i].by \notin S
        BY <2>2, <3>1
      <4>2. w[i] = vault[d][i] /\ vault[d][i].epoch = epoch[d] + 1 /\ vault[d][i].by # d
        BY <1>4, <2>1, <4>1
      <4>3. vault[d][i] \in Envelopes /\ epoch[d] + 1 <= epoch[vault[d][i].by]
        BY <1>1, <4>1, <4>2 DEF MembershipTypes, EpochsAreReached, SealedIn
      <4>4. vault[d][i].by \in Device \ {d}
        BY <4>2, <4>3 DEF Envelopes
      <4>. QED
        BY <2>5, <2>7, <4>3, <4>4
    <3>2. ASSUME NEW p \in Device \ {d}, member[p] = "poisoned" PROVE \E e \in Device \ {p} : epoch'[e] >= epoch'[p]
      <4>1. PICK e \in Device \ {p} : epoch[e] >= epoch[p]
        BY <1>1, <3>2 DEF ReopensUnlessEpochMet
      <4>2. epoch'[p] = epoch[p]
        BY <2>7
      <4>. QED
        BY <2>5, <2>11, <4>1, <4>2
    <3>. QED
      BY <2>7, <3>1, <3>2 DEF ReopensUnlessEpochMet
  <2>15. ListsOf(d)'
    BY <1>2, <1>3, <1>4, <1>7, <2>3, <2>7 DEF ListsOf
  <2>16. roster_version'[d] <= published.version + 1
    BY <2>5, <2>7
  <2>17. VersionOf(d)'
    BY <1>2, <1>7, <2>3, <2>4, <2>7 DEF VersionOf
  <2>18. ASSUME AllHeeded' PROVE AllHeeded /\ EverListed \subseteq EverListed' /\ task'[d].step # "deliver"
    <3>1. AllHeeded /\ heeded'[d]
      BY <1>7, <2>4, <2>18 DEF AllHeeded
    <3>2. trusted[d] = published.devices
      BY <1>2, <2>3, <2>4, <3>1, NewestIsTrusted DEF AllHeeded
    <3>. QED
      BY <1>2, <1>4, <1>7, <2>3, <3>1, <3>2 DEF EverListed
  <2>. QED
    BY <1>2, <1>4, <1>7, <2>8, <2>9, <2>10, <2>12, <2>13, <2>14, <2>15, <2>16, <2>17, <2>18, PublishKeeps
<1>. QED
  BY <1>5, <1>6, <1>7 DEF Revoke

LEMMA JoinKeeps ==
  ASSUME MembershipInv, NEW n \in Device, Join(n)
  PROVE  MembershipInv'
<1> DEFINE g == relay[n].grant
<1>1. /\ MembershipTypes /\ QueuesAreSound /\ OnlyMembersWork /\ NumbersAreAllocated /\ ListsWerePublished
      /\ EpochsAreReached /\ VersionMeansRoster /\ GrantedAreListed /\ RosterIsMet /\ ReopensUnlessEpochMet
      /\ \A d \in Device : heeded[d] => MergedSince(published.seq, d)
  BY TypesAre
<1>2. member[n] = "waiting" /\ relay[n] # None /\ g # None /\ n \in g.devices
  BY DEF Join, ResponseReady, GrantOpens
<1>3. /\ relay' = [relay EXCEPT ![n] = None] /\ member' = [member EXCEPT ![n] = "joined"]
      /\ trusted' = [trusted EXCEPT ![n] = g.devices] /\ epoch' = [epoch EXCEPT ![n] = g.epoch]
      /\ UNCHANGED <<published, row, next_seq, roster_version, vault, known, cursor, task, offered, heeded, lost, ever>>
  BY DEF Join, ResponseTaken, server
<1>4. g \in Grants /\ g.devices \in ever.rosters
  BY <1>1, <1>2 DEF MembershipTypes, ListsWerePublished
<1>5. g.devices \in SUBSET Device /\ g.epoch \in Nat
  BY <1>4 DEF Grants
<1> HIDE DEF g
<1>6. task[n] = Idle /\ task[n].step = "idle" /\ cursor[n] = 0 /\ epoch[n] = 0 /\ roster_version[n] = 0
      /\ offered[n] = None
  BY <1>1, <1>2, IdleIs DEF OnlyMembersWork
<1>7. /\ relay' \in [Device -> [taken : BOOLEAN, grant : Grants \cup {None}] \cup {None}]
      /\ member' \in [Device -> {"new", "waiting", "joined", "poisoned"}]
      /\ trusted' \in [Device -> SUBSET Device] /\ epoch' \in [Device -> Nat]
  BY <1>1, <1>3, <1>5 DEF MembershipTypes
<1>8. /\ relay'[n] = None /\ member'[n] = "joined" /\ trusted'[n] = g.devices /\ epoch'[n] = g.epoch
      /\ \A e \in Device \ {n} :
           relay'[e] = relay[e] /\ member'[e] = member[e] /\ trusted'[e] = trusted[e] /\ epoch'[e] = epoch[e]
  BY <1>1, <1>3 DEF MembershipTypes
<1>9. \A e \in Device : epoch[e] \in Nat /\ epoch'[e] \in Nat /\ epoch[e] <= epoch'[e]
  BY <1>5, <1>6, <1>7, <1>8, TypesAre
<1>10. MembershipTypes'
  BY <1>1, <1>3, <1>7 DEF MembershipTypes
<1>11. QueuesAreSound' /\ OnlyMembersWork' /\ NumbersAreAllocated'
  BY <1>1, <1>3, <1>6, <1>8 DEF QueuesAreSound, OnlyMembersWork, NumbersAreAllocated
<1>12. ListsWerePublished'
  BY <1>1, <1>2, <1>3, <1>4, <1>8 DEF ListsWerePublished
<1>13. EpochsAreReached'
  <2>1. ASSUME NEW x \in Envelopes \cup {None}, SealedIn(x) PROVE SealedIn(x)'
    <3>1. x # None => x.by \in Device /\ x.epoch \in Nat
      BY DEF Envelopes
    <3>. QED
      BY <1>9, <2>1, <3>1 DEF SealedIn
  <2>2. \A i \in Item : row[i] # None => row[i].env \in Envelopes \cup {None} /\ SealedIn(row[i].env)
    BY <1>1 DEF MembershipTypes, Rows, EpochsAreReached
  <2>3. \A e \in Device, i \in Item : vault[e][i] \in Envelopes \cup {None} /\ SealedIn(vault[e][i])
    BY <1>1 DEF MembershipTypes, EpochsAreReached
  <2>. QED
    BY <1>3, <2>1, <2>2, <2>3 DEF EpochsAreReached
<1>14. VersionMeansRoster'
  <2>1. roster_version[n] # published.version
    <3>1. published.version > 0 /\ published.version \in Nat
      BY TypesAre DEF NumbersAreAllocated
    <3>. QED
      BY <1>6, <3>1
  <2>. QED
    BY <1>1, <1>3, <1>8, <2>1 DEF VersionMeansRoster
<1>15. GrantedAreListed'
  <2>1. SUFFICES ASSUME AllHeeded'
                 PROVE  /\ JoinedStaysListed'
                        /\ \A e \in Device : /\ task'[e].step = "deliver" => task'[e].new \in EverListed'
                                             /\ relay'[e] # None => (relay'[e].grant # None => e \in EverListed')
    BY DEF GrantedAreListed, AllHeeded
  <2>2. AllHeeded /\ EverListed' = EverListed
    BY <1>3, <2>1 DEF AllHeeded, EverListed
  <2>3. /\ Members \subseteq EverListed /\ n \in EverListed
        /\ \A e \in Device : /\ task[e].step = "deliver" => task[e].new \in EverListed
                             /\ relay[e] # None => (relay[e].grant # None => e \in EverListed)
    BY <1>1, <1>2, <2>2 DEF GrantedAreListed, AllHeeded, JoinedStaysListed, EverListed, g
  <2>4. Members' \subseteq Members \cup {n}
    BY <1>8 DEF Members
  <2>5. JoinedStaysListed'
    BY <2>2, <2>3, <2>4 DEF JoinedStaysListed, EverListed
  <2>. QED
    BY <1>3, <1>8, <2>2, <2>3, <2>5
<1>16. published.seq > 0 /\ published.seq \in Nat
  BY TypesAre DEF NumbersAreAllocated
<1>17. RosterIsMet'
  BY <1>1, <1>3, <1>6, <1>8, <1>16 DEF RosterIsMet
<1>18. ASSUME NEW d \in Device, heeded'[d] PROVE MergedSince(published.seq, d)'
  <2>1. CASE d = n
    <3>1. \A i \in Item : row[i] # None => row[i].seq \in Nat
      BY <1>1 DEF MembershipTypes, Rows
    <3>2. \A i \in Item : ~(row[i] # None /\ published.seq < row[i].seq /\ row[i].seq <= cursor[d])
      BY <1>6, <1>16, <2>1, <3>1
    <3>. QED
      BY <1>3, <3>2 DEF MergedSince
  <2>2. CASE d # n
    BY <1>1, <1>3, <1>8, <1>18, <2>2 DEF MergedSince
  <2>. QED
    BY <2>1, <2>2
<1>19. ReopensUnlessEpochMet'
  <2>1. SUFFICES ASSUME NEW p \in Device, member'[p] = "poisoned" PROVE \E e \in Device \ {p} : epoch'[e] >= epoch'[p]
    BY DEF ReopensUnlessEpochMet
  <2>2. member[p] = "poisoned" /\ epoch'[p] = epoch[p]
    BY <1>8, <2>1
  <2>3. PICK e \in Device \ {p} : epoch[e] >= epoch[p]
    BY <1>1, <2>2 DEF ReopensUnlessEpochMet
  <2>. QED
    BY <1>9, <2>2, <2>3
<1>. QED
  BY <1>10, <1>11, <1>12, <1>13, <1>14, <1>15, <1>17, <1>18, <1>19 DEF MembershipInv

-----------------------------------------------------------------------------
LEMMA InitKeeps == Init => MembershipInv
<1>1. SUFFICES ASSUME Init PROVE MembershipInv
  OBVIOUS
<1>2. PICK f \in Founders : published = [version |-> 1, seq |-> 1, by |-> f, devices |-> Founders]
  BY <1>1 DEF Init
<1>3. Founders \subseteq Device /\ None \notin Rows /\ None \notin Envelopes /\ None \notin Rosters
  BY MembershipAssumption
<1>4. /\ published \in Rosters /\ published.version = 1 /\ published.seq = 1 /\ published.by \in Founders
      /\ published.devices = Founders /\ next_seq = 2
  BY <1>1, <1>2, <1>3 DEF Init, Rosters
<1>5. /\ trusted \in [Device -> SUBSET Device] /\ roster_version \in [Device -> Nat] /\ cursor = roster_version
      /\ member \in [Device -> {"new", "waiting", "joined", "poisoned"}]
      /\ \A d \in Device : /\ d \in Founders => trusted[d] = Founders /\ roster_version[d] = 1 /\ member[d] = "joined"
                           /\ d \notin Founders => roster_version[d] = 0 /\ member[d] = "new"
  BY <1>1, <1>3 DEF Init
<1>6. /\ row \in [Item -> Rows \cup {None}] /\ \A i \in Item : row[i] = None
      /\ relay \in [Device -> [taken : BOOLEAN, grant : Grants \cup {None}] \cup {None}]
      /\ epoch \in [Device -> Nat] /\ heeded \in [Device -> BOOLEAN] /\ offered \in [Device -> Rosters \cup {None}]
      /\ \A d \in Device : relay[d] = None /\ epoch[d] = 0 /\ offered[d] = None
  BY <1>1 DEF Init
<1>7. task \in [Device -> Tasks] /\ \A d \in Device : task[d] = Idle /\ task[d].step = "idle"
  BY <1>1, IdleIs DEF Init
<1>8. /\ vault \in [Device -> [Item -> Envelopes \cup {None}]] /\ \A d \in Device, i \in Item : vault[d][i] = None
  BY <1>1 DEF Init
<1>9. /\ known \in [Device -> [Item -> [env : Envelopes \cup {None}, version : Nat]]]
      /\ \A d \in Device, i \in Item : known[d][i].version = 0
  <2>1. NoKnown \in [env : Envelopes \cup {None}, version : Nat] /\ NoKnown.version = 0
    BY DEF NoKnown
  <2>2. known = [d \in Device |-> [i \in Item |-> NoKnown]]
    BY <1>1 DEF Init
  <2>. QED
    BY <2>1, <2>2
<1>10. ever \in [rosters : SUBSET SUBSET Device, revoked : SUBSET Device] /\ Founders \in ever.rosters
  BY <1>1, <1>3 DEF Init
<1>11. MembershipTypes
  BY <1>4, <1>5, <1>6, <1>7, <1>8, <1>9, <1>10 DEF MembershipTypes
<1>12. QueuesAreSound /\ OnlyMembersWork
  BY <1>5, <1>6, <1>7, <1>9 DEF QueuesAreSound, OnlyMembersWork
<1>13. NumbersAreAllocated
  BY <1>4, <1>5 DEF NumbersAreAllocated
<1>14. ListsWerePublished
  BY <1>4, <1>5, <1>6, <1>7, <1>10 DEF ListsWerePublished
<1>15. EpochsAreReached
  BY <1>6, <1>8 DEF EpochsAreReached, SealedIn
<1>16. VersionMeansRoster
  BY <1>4, <1>5, <1>6, <1>7 DEF VersionMeansRoster
<1>17. GrantedAreListed
  BY <1>4, <1>5, <1>6, <1>7 DEF GrantedAreListed, JoinedStaysListed, Members
<1>18. RosterIsMet
  BY <1>4, <1>5, <1>6, <1>7 DEF RosterIsMet
<1>19. \A d \in Device : MergedSince(published.seq, d)
  BY <1>6 DEF MergedSince
<1>20. ReopensUnlessEpochMet
  BY <1>5 DEF ReopensUnlessEpochMet
<1>. QED
  BY <1>11, <1>12, <1>13, <1>14, <1>15, <1>16, <1>17, <1>18, <1>19, <1>20 DEF MembershipInv

LEMMA StepKeeps == MembershipInv /\ [Next]_vars => MembershipInv'
<1>1. ASSUME MembershipInv, UNCHANGED vars PROVE MembershipInv'
  BY <1>1, StutterKeeps
<1>2. ASSUME MembershipInv, Next PROVE MembershipInv'
  <2>1. PICK d \in Device :
          \/ \E i \in Item : Write(d, i)
          \/ Pull(d) \/ Push(d) \/ Adopt(d)
          \/ \E e \in Device : Revoke(d, e) \/ Fetch(d, e) \/ Scan(d, e)
          \/ ApproveRefused(d) \/ Approve(d) \/ Deliver(d)
          \/ Begin(d) \/ Join(d) \/ Expire(d)
    BY <1>2 DEF Next
  <2>2. ASSUME NEW i \in Item, Write(d, i) PROVE MembershipInv'
    BY <1>2, <2>2, WriteKeeps
  <2>3. CASE Pull(d)
    BY <1>2, <2>3, PullKeeps
  <2>4. CASE Push(d)
    BY <1>2, <2>4, PushKeeps
  <2>5. CASE Adopt(d)
    BY <1>2, <2>5, AdoptKeeps
  <2>6. ASSUME NEW r \in Device, Revoke(d, r) PROVE MembershipInv'
    BY <1>2, <2>6, RevokeKeeps
  <2>7. ASSUME NEW n \in Device, Begin(d) \/ Fetch(d, n) \/ Scan(d, n) \/ ApproveRefused(d) \/ Expire(d)
        PROVE  MembershipInv'
    BY <1>2, <2>7, RelayKeeps
  <2>8. CASE Approve(d)
    BY <1>2, <2>8, ApproveKeeps
  <2>9. CASE Deliver(d)
    BY <1>2, <2>9, DeliverKeeps
  <2>10. CASE Join(d)
    BY <1>2, <2>10, JoinKeeps
  <2>. QED
    BY <2>1, <2>2, <2>3, <2>4, <2>5, <2>6, <2>7, <2>8, <2>9, <2>10
<1>. QED
  BY <1>1, <1>2

LEMMA MembershipHolds == Spec => []MembershipInv
  BY InitKeeps, StepKeeps, PTL DEF Spec

(***************************************************************************)
(* pull (engine.rs) stops a page at a roster: whatever was written under   *)
(* the newest roster, lies behind the cursor and is signed by a device the *)
(* reader trusts has been merged, if its host adopts what it is offered.   *)
(***************************************************************************)
THEOREM NothingIsSkipped == Spec => []NothingSkippedSinceRoster
<1>1. MembershipInv => NothingSkippedSinceRoster
  BY DEF MembershipInv, NothingSkippedSinceRoster, Members
<1>. QED
  BY <1>1, MembershipHolds, PTL

(***************************************************************************)
(* approve_enrollment publishes before it grants (enroll.rs:33), and a     *)
(* superseded roster is handed to the host: a member works under a         *)
(* published roster that lists it, and, while replies arrive and hosts     *)
(* adopt, the newest roster lists every member that was not revoked.       *)
(***************************************************************************)
THEOREM MembersStayListed == Spec => []ListedWhileHeeded
<1>1. ASSUME MembershipInv PROVE ListedWhileHeeded
  <2>1. MembershipTypes /\ ListsWerePublished /\ GrantedAreListed /\ NumbersAreAllocated
    BY <1>1, TypesAre
  <2>2. MembershipTypeOK
    BY <2>1 DEF MembershipTypeOK, MembershipTypes, ListsWerePublished, NumbersAreAllocated
  <2>3. WorksUnderPublished
    BY <2>1 DEF WorksUnderPublished, ListsWerePublished, Members
  <2>. QED
    BY <2>1, <2>2, <2>3 DEF ListedWhileHeeded, GrantedAreListed
<1>. QED
  BY <1>1, MembershipHolds, PTL

(***************************************************************************)
(* do_revoke_device (facade.rs) rotates before it opens the vault again: a *)
(* revocation leaves the facade without a vault only when another device   *)
(* had rotated to the same epoch.                                          *)
(***************************************************************************)
THEOREM RevocationsReopen == Spec => []ReopensUnlessEpochMet
<1>1. MembershipInv => ReopensUnlessEpochMet
  BY DEF MembershipInv
<1>. QED
  BY <1>1, MembershipHolds, PTL
=============================================================================
