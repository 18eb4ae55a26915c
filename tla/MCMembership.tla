---------------------------- MODULE MCMembership ----------------------------
(* The founders of a vault are interchangeable, and so are the newcomers.  *)
EXTENDS Membership, TLC

Alike == Permutations(Founders) \cup Permutations(Device \ Founders)

\* A smaller search: nobody is revoked, and every host adopts what it is offered.
NoneRevoked == ever.revoked = {} /\ \A d \in Device : heeded[d]
=============================================================================
