--------------------------- MODULE MCMaintenance ---------------------------
(***************************************************************************)
(* Sync on small instances, with a history of what the sweep does to the   *)
(* versions that devices hold. A behaviour explores one of four: two items *)
(* beside failed merges, failed saves and restarts; or one item that is    *)
(* collected and swept, that is collected and swept beside engines that    *)
(* are reset, or whose row is sealed again and again.                      *)
(***************************************************************************)
EXTENDS Sync

VARIABLES
  explored,
  outdated,  \* history: the <<d, i>> whose version, in d's state, is of a row since swept
  reused     \* history: the server has acted on such a version

(***************************************************************************)
(* A version is outdated from the sweep of its row until its device hears  *)
(* of the item again. Versions start over with a row that is made anew, so *)
(* that an outdated one may match.                                         *)
(***************************************************************************)
Outdated ==
  {<<d, i>> \in Device \X Item :
     /\ state'[d].known[i].version > 0
     /\ \/ rows[i].version > 0 /\ rows'[i].version = 0
        \/ <<d, i>> \in outdated /\ state'[d].known[i] = state[d].known[i]}

ActsOnOutdated ==
  \E d \in Device :
    /\ task[d].phase \in {"delete", "push"} /\ task'[d] # task[d]
    /\ <<d, Current(d)>> \in outdated
    /\ rows'[Current(d)] # rows[Current(d)]

-----------------------------------------------------------------------------
\* Bounds of the model: the writes, and one item and the numbers allocated for it.
\* Where there is one item no merge and no save fails, so that both states of a
\* device agree.
MostWrites(n) == Cardinality(UNION {had'[d][i] : d \in Device, i \in Item}) <= n
OneItem(writes, seqs) ==
  /\ state' = saved'
  /\ \A d \in Device, i \in Item \ {Min(Item)} : had'[d][i] = {}
  /\ MostWrites(writes)
  /\ next_seq' <= seqs + 1

Explored == {"faults", "collection", "resets", "rotation"}
Collects == {"collection", "resets"}

MCInit ==
  /\ Init
  /\ explored \in Explored
  /\ outdated = {} /\ reused = FALSE

\* What is part of every step: the bounds of the instance, and the history.
Noted ==
  /\ CASE explored = "faults" -> MostWrites(2)
       [] explored = "collection" -> OneItem(3, 4)
       [] explored = "resets" -> OneItem(2, 5)
       [] explored = "rotation" -> OneItem(2, 3)
  /\ outdated' = Outdated
  /\ reused' = (reused \/ ActsOnOutdated)
  /\ UNCHANGED explored
In(S) == explored \in S

MCNext ==
  \/ \E d \in Device :
       \/ \E i \in Item :
            \/ Create(d, i) /\ Noted
            \/ Edit(d, i) /\ Noted
            \/ In(Collects) /\ DeleteItem(d, i) /\ Noted
            \/ In({"rotation"}) /\ Rewrap(d, i) /\ Noted
       \/ \E S \in SUBSET Item : In(Collects) /\ PurgeTombstones(d, S) /\ Noted
       \/ StartSync(d) /\ Noted
       \/ In(Collects) /\ PushDelete(d) /\ Noted
       \/ \E n \in 1 .. PageLimit : PullPage(d, n) /\ Noted
       \/ PushApplied(d) /\ Noted
       \/ PushConflict(d) /\ Noted
       \/ In(Explored \ {"faults"}) /\ RequestFails(d) /\ Noted
       \/ In(Explored \ {"faults"}) /\ ReplyLost(d) /\ Noted
       \/ In({"faults"}) /\ Restart(d) /\ Noted
       \/ In({"resets", "rotation"}) /\ Reset(d) /\ Noted
  \/ \E S \in SUBSET Item : In(Collects) /\ SweepRows(S) /\ Noted
MCSpec == MCInit /\ [][MCNext]_<<vars, explored, outdated, reused>>
-----------------------------------------------------------------------------

=============================================================================
