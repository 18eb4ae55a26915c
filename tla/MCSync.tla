------------------------------- MODULE MCSync -------------------------------
(***************************************************************************)
(* Sync on small instances. Where nothing is deleted, sealed again, reset  *)
(* or swept, WritesNext is all that Next can do: the writes of the devices *)
(* and their syncs, with every failure of a request and of the process.    *)
(***************************************************************************)
EXTENDS Sync

WritesNext ==
  \E d \in Device :
    \/ \E i \in Item : Create(d, i) \/ Edit(d, i)
    \/ StartSync(d)
    \/ \E n \in 1 .. PageLimit : PullPage(d, n)
    \/ PushApplied(d)
    \/ PushConflict(d)
    \/ RequestFails(d) \/ ReplyLost(d) \/ Restart(d)
WritesSpec == Init /\ [][WritesNext]_vars /\ Fairness
=============================================================================
