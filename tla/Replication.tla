----------------------------- MODULE Replication -----------------------------
(***************************************************************************)
(* What replication promises of the items of one vault, without versions,  *)
(* cursors, envelopes, failures or restarts. A device holds a set of       *)
(* writes of every item, and the server relays one. Sync implements this.  *)
(***************************************************************************)
CONSTANTS
  Device, Item,
  Writes,      \* what a user can write
  Deleted(_)   \* whether a tombstone wins over everything else in a value

VARIABLES
  held,      \* held[d][i]: the writes d has of i
  relayed,   \* relayed[i]: the writes the server gives out
  collected  \* collected[d][i]: the values d has forgotten under a tombstone

replicationVars == <<held, relayed, collected>>

ReplicationInit ==
  /\ held = [d \in Device |-> [i \in Item |-> {}]]
  /\ relayed = [i \in Item |-> {}]
  /\ collected = [d \in Device |-> [i \in Item |-> {}]]

\* A user writes something new.
MakeWrite(d, i, w) ==
  /\ \A e \in Device : w \notin held[e][i]
  /\ held' = [held EXCEPT ![d][i] = @ \cup {w}]
  /\ UNCHANGED <<relayed, collected>>

\* A device learns what the server relays, and loses nothing of its own.
Receive(d, S) ==
  /\ held' = [held EXCEPT ![d] = [i \in Item |-> IF i \in S THEN @[i] \cup relayed[i] ELSE @[i]]]
  /\ UNCHANGED <<relayed, collected>>

\* A device replaces what is relayed, by something that includes it: nobody
\* overwrites a write it has not merged.
Publish(d, i) ==
  /\ relayed[i] \subseteq held[d][i]
  /\ relayed' = [relayed EXCEPT ![i] = held[d][i]]
  /\ UNCHANGED <<held, collected>>

\* A device forgets items under their tombstones.
Forget(d, S) ==
  /\ \A i \in S : Deleted(held[d][i])
  /\ held' = [held EXCEPT ![d] = [i \in Item |-> IF i \in S THEN {} ELSE @[i]]]
  /\ collected' = [collected EXCEPT ![d] =
                     [i \in Item |-> IF i \in S THEN @[i] \cup {held[d][i]} ELSE @[i]]]
  /\ UNCHANGED relayed

\* The server stops relaying what a device has had, all of it, and forgotten.
Reclaim(i) ==
  /\ \E d \in Device : \E v \in collected[d][i] : relayed[i] \subseteq v
  /\ relayed' = [relayed EXCEPT ![i] = {}]
  /\ UNCHANGED <<held, collected>>

ReplicationNext ==
  \/ \E d \in Device, S \in SUBSET Item : Receive(d, S) \/ Forget(d, S)
  \/ \E d \in Device, i \in Item : Publish(d, i) \/ \E w \in Writes : MakeWrite(d, i, w)
  \/ \E i \in Item : Reclaim(i)

ReplicationSpec == ReplicationInit /\ [][ReplicationNext]_replicationVars
=============================================================================
