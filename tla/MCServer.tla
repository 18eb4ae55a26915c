------------------------------ MODULE MCServer ------------------------------
(***************************************************************************)
(* The server, each part by itself: the item store with its change feed,   *)
(* and what stands before it, the tokens, the signed time, and the limits  *)
(* on requests with the client's retries. The parts share no state; a      *)
(* behaviour is one of theirs, with the others at rest.                    *)
(***************************************************************************)
EXTENDS Auth, ServerTime, Requests, ChangeFeed, TLC

VARIABLE part

(***************************************************************************)
(* Envelopes of two sizes, so that the byte quota is met, and one item     *)
(* more than there are slots. Items are interchangeable, so that they are  *)
(* first written in the order of their numbers.                            *)
(***************************************************************************)
CONSTANTS small, large

Envelopes == {small, large}
Sizes(e) == IF e = large THEN 2 ELSE 1
Written == {i \in Item : rows[i].version > 0} \cup swept
InOrder == \A i, j \in Item : (i < j /\ j \in Written) => i \in Written

\* Devices are interchangeable too, at each of the two.
Symmetry == Permutations(Client) \cup Permutations(FeedClient)

(***************************************************************************)
(* The local clock is behind or ahead of the server's, which may be set    *)
(* back.                                                                   *)
(***************************************************************************)
Starts == {-3, 2}
Steps == {0, 1}

(***************************************************************************)
(* Requests: of every route, without and with what it needs, too long, for *)
(* another vault, and unauthenticated.                                     *)
(***************************************************************************)
PerAddress == [per_minute |-> 60, capacity |-> 1]
PerVault == [per_minute |-> 25, capacity |-> 2]
TokenOf == [t1 |-> "v1"]
OwnVault == <<"vault", "v1">>
With(x, extra) == [f \in DOMAIN x \cup DOMAIN extra |-> IF f \in DOMAIN extra THEN extra[f] ELSE x[f]]
Base == [route |-> "put", address |-> "a", vault |-> "v1", item |-> "i", token |-> "t1", media |-> "json", length |-> 1, size |-> 1,
         envelope |-> [length |-> 1, base64 |-> TRUE]]
AskedRequests == {With(Base, [if_match |-> "3"]), Base, With(Base, [if_none_match |-> "*", address |-> "b"]),
  With(Base, [if_match |-> "1", vault |-> "v2"]), With(Base, [if_match |-> "1", if_none_match |-> "*"]),
  With(Base, [length |-> 9]), With(Base, [size |-> 9, if_match |-> "1"]), With(Base, [if_match |-> "1", envelope |-> [length |-> 5, base64 |-> TRUE]]),
  [route |-> "delete", address |-> "a", vault |-> "v1", item |-> "i", token |-> "t1", if_match |-> "0"],
  [route |-> "delete", address |-> "b", vault |-> "v1", item |-> "i", token |-> "t1", if_match |-> "2"],
  [route |-> "changes", address |-> "b", vault |-> "v1", token |-> "t1", since |-> 3, limit |-> 1],
  [route |-> "changes", address |-> "b", vault |-> "v1", limit |-> 0],
  [route |-> "time", address |-> "b", nonce |-> [hex |-> TRUE, length |-> 2]],
  [route |-> "quota", address |-> "b", token |-> "t1"],
  [route |-> "healthz", address |-> "b"], [route |-> "other_method", address |-> "b"], [route |-> "x", address |-> "b"]}
\* A run of the client that is over, and the one request it makes.
Finished == [attempt |-> 0, error |-> "Ok", wakes |-> 0, tried |-> Nothing, over |-> TRUE]
Harmless == [route |-> "healthz", address |-> "b"]

-----------------------------------------------------------------------------
MCInit ==
  /\ part \in {"feed", "auth", "time", "requests", "retries"}
  /\ FeedInit /\ AuthInit
  /\ TimeInit /\ (part # "time" => local_clock = 2 /\ time_key = KeyFor("File", 0))
  /\ seconds = 0 /\ buckets = [k \in {} |-> 0] /\ inflight = Nothing /\ answer = Nothing
  /\ retry = (IF part = "retries" THEN Nothing ELSE Finished)
  /\ admitted = [k \in Keys |-> 0] /\ told = [k \in Keys |-> Nothing] /\ loose = {}

\* Everything but a run of the client; and a run, with one other request beside it.
Asked == Second \/ (\E r \in HttpRequests : Observe(r)) \/ Handle \/ EvictIdle
Retried ==
  \/ Second \/ Observe(Harmless) \/ Handle \/ EvictIdle
  \/ StartRun \/ \E e \in SyncEnds, y \in Entropy : Attempt(e, y)

MCNext ==
  /\ UNCHANGED part
  /\ \/ part = "feed" /\ FeedNext /\ InOrder' /\ UNCHANGED <<authVars, timeVars, requestVars>>
     \/ part = "auth" /\ AuthNext /\ UNCHANGED <<feedVars, timeVars, requestVars>>
     \/ part = "time" /\ TimeNext /\ UNCHANGED <<feedVars, authVars, requestVars>>
     \/ part = "requests" /\ Asked /\ UNCHANGED <<feedVars, authVars, timeVars>>
     \/ part = "retries" /\ Retried /\ UNCHANGED <<feedVars, authVars, timeVars>>
MCSpec == MCInit /\ [][MCNext]_<<part, feedVars, authVars, timeVars, requestVars>>
=============================================================================
