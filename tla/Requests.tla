------------------------------ MODULE Requests ------------------------------
(***************************************************************************)
(* A request on its way through the server: the limiter, the checks of the *)
(* routes and the answer; and the loop in which a client tries again.      *)
(*                                                                         *)
(* Source: misty-server rate_limit.rs, routes/mod.rs, routes/items.rs,     *)
(* routes/meta.rs, error.rs and main.rs, misty-sync backoff.rs and         *)
(* engine.rs (run). A request is the record of the parts that are present. *)
(* What the store answers is any of its answers here; ServerStore says     *)
(* which. Tokens of a bucket are counted in sixtieths, time in seconds.    *)
(***************************************************************************)
EXTENDS Integers, Sequences, FiniteSets

CONSTANTS
  Nothing,                  \* a part that is missing
  IpRate, VaultRate,       \* Rate: [per_minute, capacity]
  MaxBuckets,              \* max_buckets
  MaxBodyLen, MaxEnvelopeLen,   \* max_body_bytes, max_envelope_bytes
  MinNonceLen, MaxNonceLen,     \* MIN_NONCE_BYTES, MAX_NONCE_BYTES
  MaxLimit, MaxSeqNumber,   \* of the changes feed
  HttpRequests,            \* the requests that are made
  HttpTokens,              \* the access tokens that are live, and their vaults
  BaseDelay, MaxDelay, Multiplier, Jitter,   \* Backoff
  Entropy,                 \* what the generator may draw
  RunAttempts,             \* attempts, given to run
  RunKey,                  \* the bucket the client's requests are charged to
  MaxSeconds               \* where time stops, a bound of the model

ASSUME RequestAssumption ==
  /\ {MaxBuckets, MaxBodyLen, MaxEnvelopeLen, MaxLimit, BaseDelay, MaxDelay, Multiplier,
      RunAttempts, MaxSeconds} \subseteq Nat
  /\ Jitter \in {"None", "Full", "Equal"} /\ Entropy \subseteq Nat
  /\ {IpRate, VaultRate} \subseteq [per_minute : Nat, capacity : Nat]
  /\ Nothing \notin Int /\ Nothing \notin DOMAIN HttpTokens

VARIABLES
  seconds,     \* Instant::now
  buckets,     \* RateLimiter::buckets: key -> [tokens, updated]
  inflight,    \* the request that passed observe and is being handled, or Nothing
  answer,      \* the answer the last step gave, or Nothing: [request, error, charged]
  retry,       \* the client's run: [attempt, error, wakes, tried], or Nothing
  admitted,    \* ghost: requests let through for each key
  told,        \* ghost: when a refused key was told to come back, until it does
  loose        \* ghost: keys whose bucket was shed before it was full

requestVars == <<seconds, buckets, inflight, answer, retry, admitted, told, loose>>

-----------------------------------------------------------------------------
(***************************************************************************)
(* The limiter.                                                            *)
(***************************************************************************)
Keys == {<<"ip", r.address>> : r \in HttpRequests} \cup {<<"vault", HttpTokens[t]>> : t \in DOMAIN HttpTokens}
          \cup {RunKey}
RateOf(key) == IF key[1] = "ip" THEN IpRate ELSE VaultRate
Full(rate) == 60 * rate.capacity
Refilled(bucket, rate) == bucket.tokens + (seconds - bucket.updated) * rate.per_minute
Only(table, keys) == [k \in DOMAIN table \cap keys |-> table[k]]

\* At the limit a new key drops the buckets that are full at its own rate.
SheddableBy(key) ==
  IF Cardinality(DOMAIN buckets) >= MaxBuckets /\ key \notin DOMAIN buckets
  THEN {k \in DOMAIN buckets : Refilled(buckets[k], RateOf(key)) >= Full(RateOf(key))} ELSE {}
\* What the bucket of a key holds when it is charged.
Available(key) ==
  LET rate == RateOf(key) IN
  IF key \in DOMAIN buckets \ SheddableBy(key) /\ Refilled(buckets[key], rate) < Full(rate)
  THEN Refilled(buckets[key], rate) ELSE Full(rate)
Unlimited(key) == RateOf(key).per_minute = 0 \/ RateOf(key).capacity = 0
Admits(key) == Unlimited(key) \/ Available(key) >= 60
\* Mutant of RetryAfter: the wait is rounded down.
RetryAfterDown(key) == (60 - Available(key)) \div RateOf(key).per_minute
\* Retry-After: rounded up to a second, and never nothing.
RetryAfter(key) == (60 - Available(key) + RateOf(key).per_minute - 1) \div RateOf(key).per_minute

Left(held) == IF held >= 60 THEN held - 60 ELSE held

\* check: the state of the limiter after a key was charged.
Charge(key) ==
  LET shed == SheddableBy(key)
      kept == Only(buckets, DOMAIN buckets \ shed)
      held == Available(key)
      left == Left(held) IN
  IF Unlimited(key) THEN UNCHANGED <<buckets, admitted, told, loose>>
  ELSE /\ buckets' = [k \in DOMAIN kept \cup {key} |->
                        IF k = key THEN [tokens |-> left, updated |-> seconds] ELSE kept[k]]
       /\ admitted' = IF held >= 60 THEN [admitted EXCEPT ![key] = @ + 1] ELSE admitted
       /\ told' = [told EXCEPT ![key] = IF held >= 60 THEN Nothing ELSE seconds + RetryAfter(key)]
       /\ loose' = loose \cup {k \in shed : Refilled(buckets[k], RateOf(k)) < Full(RateOf(k))}

\* Mutant of IdleKeys: a bucket that could admit a request counts as idle.
IdleKeysEarly == {k \in DOMAIN buckets : Refilled(buckets[k], RateOf(k)) >= 60}
IdleKeys == {k \in DOMAIN buckets : Refilled(buckets[k], RateOf(k)) >= Full(RateOf(k))}

-----------------------------------------------------------------------------
(***************************************************************************)
(* The checks of a route: an ApiError, or Ok.                              *)
(***************************************************************************)
ErrorCodes == {"BadRequest", "Unauthorized", "Forbidden", "NotFound", "MethodNotAllowed", "Conflict",
               "PreconditionRequired", "PayloadTooLarge", "UnsupportedMediaType", "RateLimited",
               "QuotaExceeded", "Internal"}
StatusOf(error) ==
  CASE error = "Ok" -> 200 [] error = "BadRequest" -> 400 [] error = "Unauthorized" -> 401
    [] error = "Forbidden" -> 403 [] error = "NotFound" -> 404 [] error = "MethodNotAllowed" -> 405
    [] error = "Conflict" -> 409 [] error = "PayloadTooLarge" -> 413 [] error = "UnsupportedMediaType" -> 415
    [] error = "PreconditionRequired" -> 428 [] error = "RateLimited" -> 429 [] error = "QuotaExceeded" -> 507
    [] OTHER -> 500
Part(r, name) == IF name \in DOMAIN r THEN r[name] ELSE Nothing
FirstError(errors) ==
  LET found == {i \in DOMAIN errors : errors[i] # "Ok"}
  IN IF found = {} THEN "Ok" ELSE errors[CHOOSE i \in found : \A j \in found : i <= j]
Needs(holds, error) == IF holds THEN "Ok" ELSE error

\* Authenticated: the token's vault; the vault's bucket is charged after it is known.
VaultOf(r) == IF Part(r, "token") \in DOMAIN HttpTokens THEN HttpTokens[Part(r, "token")] ELSE Nothing
ForVault(r) == Needs(VaultOf(r) = r.vault, "Forbidden")
\* VaultId::parse and ItemId::parse.
ParseId(id) == Needs(id # "malformed", "BadRequest")
\* JsonBody: the body may be longer than the header declared, or declare nothing.
ReadBody(r) ==
  FirstError(<<Needs(Part(r, "media") = "json", "UnsupportedMediaType"),
               Needs(r.size <= MaxBodyLen, "PayloadTooLarge"),
               Needs(Part(r, "envelope") # Nothing, "BadRequest")>>)
\* precondition: exactly one of the two headers, * for a create and a version for the rest.
PreconditionError(r) ==
  IF {"if_match", "if_none_match"} \subseteq DOMAIN r THEN "BadRequest"
  ELSE IF "if_none_match" \in DOMAIN r THEN Needs(r.if_none_match = "*", "BadRequest")
  ELSE IF "if_match" \notin DOMAIN r THEN "PreconditionRequired"
  ELSE Needs(r.if_match \notin {"*", "weak", "malformed"}, "BadRequest")
\* expects_absent.
ExpectsAbsent(r) == "if_none_match" \in DOMAIN r \/ r.if_match = "0"
\* decode_blob: the length of the text before its alphabet, the decoded one after it.
DecodeBlob(envelope) ==
  FirstError(<<Needs(envelope.length <= MaxEnvelopeLen + 3, "PayloadTooLarge"),
               Needs(envelope.base64, "BadRequest"),
               Needs(envelope.length <= MaxEnvelopeLen, "PayloadTooLarge"),
               Needs(envelope.length > 0, "BadRequest")>>)
\* parse_since and parse_limit.
ParseSince(since) == Needs(since = Nothing \/ since \in 0..MaxSeqNumber, "BadRequest")
ParseLimit(limit) == Needs(limit = Nothing \/ limit \in 1..MaxLimit, "BadRequest")
\* decode_nonce.
DecodeNonce(nonce) ==
  Needs(nonce # Nothing /\ nonce.hex /\ nonce.length \in MinNonceLen..MaxNonceLen, "BadRequest")

\* The handlers, up to the store; an extractor runs before the handler's own checks.
Changes(r) == FirstError(<<ParseId(r.vault), ForVault(r), ParseSince(Part(r, "since")), ParseLimit(Part(r, "limit"))>>)
PutItem(r) ==
  FirstError(<<ReadBody(r), ParseId(r.vault), ParseId(r.item), ForVault(r), PreconditionError(r),
               IF Part(r, "envelope") = Nothing THEN "Ok" ELSE DecodeBlob(r.envelope)>>)
DeleteItem(r) ==
  FirstError(<<ParseId(r.vault), ParseId(r.item), ForVault(r), PreconditionError(r),
               IF PreconditionError(r) = "Ok" THEN Needs(~ExpectsAbsent(r), "BadRequest") ELSE "Ok">>)
Time(r) == DecodeNonce(Part(r, "nonce"))

VaultRoutes == {"changes", "put", "delete"}
HandlerOf(r) ==
  CASE r.route = "changes" -> Changes(r) [] r.route = "put" -> PutItem(r) [] r.route = "delete" -> DeleteItem(r)
    [] r.route = "time" -> Time(r) [] r.route \in {"quota", "healthz"} -> "Ok"
    [] r.route = "other_method" -> "MethodNotAllowed" [] OTHER -> "NotFound"
\* What the handlers make of the store's answer to a request that reached it (ServerStore says
\* which answer it is; any failure of the store is Internal).
StoreAnswers(r) ==
  CASE r.route = "put" -> {"Ok", "Conflict", "QuotaExceeded", "Internal"}
    [] r.route = "delete" -> {"Ok", "Conflict", "NotFound", "Internal"}
    [] r.route \in {"changes", "quota", "healthz"} -> {"Ok", "Internal"}
    [] OTHER -> {"Ok"}

-----------------------------------------------------------------------------
(***************************************************************************)
(* The client's retries.                                                   *)
(***************************************************************************)
\* ceiling_ms: the product saturates at the cap.
CeilingMs(attempt) ==
  LET grown[n \in 0..attempt] ==
        IF n = 0 THEN BaseDelay
        ELSE IF n > 1 /\ grown[n - 1] >= MaxDelay THEN MaxDelay ELSE grown[n - 1] * Multiplier
  IN IF grown[attempt] < MaxDelay THEN grown[attempt] ELSE MaxDelay
DelayMs(attempt, entropy) ==
  LET ceiling == CeilingMs(attempt)
      half == ceiling \div 2 IN
  CASE Jitter = "None" -> ceiling
    [] Jitter = "Full" -> entropy % (ceiling + 1)
    [] Jitter = "Equal" -> half + (entropy % (ceiling - half + 1))
\* is_retriable; put_item gives 507 a meaning of its own.
IsRetriable(error) ==
  error = "Transport" \/ (error \in ErrorCodes /\ (StatusOf(error) = 429 \/ StatusOf(error) >= 500))
\* How sync_once may end once the limiter let its request through: Ok, or the errors of its
\* requests, of a push and of a page (Sync and Membership say when).
SyncEnds == {"Ok", "Transport", "Internal", "Conflict", "QuotaExhausted", "UnknownSigner"}

-----------------------------------------------------------------------------
RequestInit ==
  /\ seconds = 0 /\ buckets = [k \in {} |-> 0] /\ inflight = Nothing /\ answer = Nothing /\ retry = Nothing
  /\ admitted = [k \in Keys |-> 0] /\ told = [k \in Keys |-> Nothing] /\ loose = {}

LimiterVars == <<buckets, admitted, told, loose>>
Second ==
  /\ seconds < MaxSeconds /\ seconds' = seconds + 1 /\ answer' = Nothing
  /\ UNCHANGED <<LimiterVars, inflight, retry>>

\* observe: the address is charged, then the declared length is looked at.
Observe(r) ==
  LET key == <<"ip", r.address>>
      error == IF ~Admits(key) THEN "RateLimited"
               ELSE Needs(Part(r, "length") = Nothing \/ r.length <= MaxBodyLen, "PayloadTooLarge") IN
  /\ inflight = Nothing
  /\ Charge(key)
  /\ inflight' = IF error = "Ok" THEN r ELSE Nothing
  /\ answer' = IF error = "Ok" THEN Nothing ELSE [request |-> r, error |-> error, charged |-> {key}]
  /\ UNCHANGED <<seconds, retry>>

\* The extractors, the handler and the store.
Handle ==
  LET r == inflight
      key == <<"vault", VaultOf(r)>>
      open == r.route \notin VaultRoutes \cup {"quota"}
      refused == IF open THEN "Ok"
                 ELSE FirstError(<<Needs(VaultOf(r) # Nothing, "Unauthorized"),
                                   IF VaultOf(r) # Nothing THEN Needs(Admits(key), "RateLimited") ELSE "Ok">>)
      checked == IF refused # "Ok" THEN refused ELSE HandlerOf(r) IN
  /\ inflight # Nothing
  /\ IF open \/ VaultOf(r) = Nothing THEN UNCHANGED LimiterVars ELSE Charge(key)
  /\ \E error \in IF checked # "Ok" THEN {checked} ELSE StoreAnswers(r) :
       answer' = [request |-> r, error |-> error,
                  charged |-> {<<"ip", r.address>>} \cup (IF open \/ VaultOf(r) = Nothing THEN {} ELSE {key})]
  /\ inflight' = Nothing
  /\ UNCHANGED <<seconds, retry>>

\* evict_idle, called by the sweeper.
EvictIdle ==
  /\ IdleKeys # {} /\ answer' = Nothing
  /\ buckets' = Only(buckets, DOMAIN buckets \ IdleKeys)
  /\ UNCHANGED <<seconds, inflight, retry, admitted, told, loose>>

\* run: a loop of attempts.max(1) attempts; it also waits after the last one. A run that goes on
\* has forgotten its session (forget_session), so ~over also says that the next attempt
\* authenticates again; the session itself is Auth's.
Attempts == IF RunAttempts = 0 THEN 1 ELSE RunAttempts
StartRun ==
  /\ retry = Nothing /\ answer' = Nothing
  /\ retry' = [attempt |-> 0, error |-> "Ok", wakes |-> seconds, tried |-> Nothing, over |-> FALSE]
  /\ UNCHANGED <<seconds, inflight, LimiterVars>>
Attempt(ended, entropy) ==
  LET error == IF Admits(RunKey) THEN ended ELSE "RateLimited" IN
  /\ retry # Nothing /\ ~retry.over /\ seconds >= retry.wakes
  /\ retry.attempt < Attempts
  /\ Charge(RunKey) /\ answer' = Nothing
  /\ retry' = [attempt |-> retry.attempt + 1, error |-> error, tried |-> seconds,
               wakes |-> IF IsRetriable(error) THEN seconds + DelayMs(retry.attempt, entropy) ELSE seconds,
               over |-> ~IsRetriable(error)]
  /\ UNCHANGED <<seconds, inflight>>

RequestNext ==
  \/ Second
  \/ \E r \in HttpRequests : Observe(r)
  \/ Handle
  \/ EvictIdle
  \/ StartRun
  \/ \E ended \in SyncEnds, entropy \in Entropy : Attempt(ended, entropy)
RequestSpec == RequestInit /\ [][RequestNext]_requestVars

-----------------------------------------------------------------------------
\* Buckets hold what they may hold, and every answer has a status of its own.
RequestTypeOK ==
  /\ \A k \in DOMAIN buckets : k \in Keys /\ buckets[k].tokens \in 0..Full(RateOf(k)) /\ buckets[k].updated <= seconds
  /\ answer # Nothing => answer.error \in ErrorCodes \cup {"Ok"}
  /\ retry # Nothing => retry.attempt \in 0..Attempts

\* Over any time a key is let through at most for its burst and its rate, whatever the sweeper
\* drops in between; only a bucket that a new key of a faster rate shed starts again from full
\* (check sheds by the rate of the key that comes, not of the bucket).
WithinRate ==
  \A k \in Keys \ loose : ~Unlimited(k) => 60 * admitted[k] <= Full(RateOf(k)) + seconds * RateOf(k).per_minute

\* A key that was refused and waits as long as it was told is let through
\* ("an honest Retry-After", rate_limit.rs).
RetryAfterSuffices == \A k \in Keys : (told[k] # Nothing /\ seconds >= told[k]) => Admits(k)

\* A request reaches the rows of a vault only with a token of that vault, charged to the vault
\* and to the address, and a write only with one precondition (for_vault, precondition: "a
\* write with no precondition is a blind overwrite").
ServedRightly ==
  (answer # Nothing /\ answer.request.route \in VaultRoutes /\ answer.error \in {"Ok", "Conflict", "Internal", "QuotaExceeded"}) =>
    LET r == answer.request IN
    /\ VaultOf(r) = r.vault /\ answer.charged = {<<"ip", r.address>>, <<"vault", r.vault>>}
    /\ r.route # "changes" => Cardinality({"if_match", "if_none_match"} \cap DOMAIN r) = 1
    /\ r.route = "delete" => ~ExpectsAbsent(r)

\* A run that is refused waits at least half of the delay that is multiplied with each attempt,
\* and never more than the cap, before the server hears of it again (Jitter::Equal: "keeps the
\* exponential floor"; Jitter::Full keeps none); what a retry cannot mend ends it at once.
Uncapped(attempt) ==
  LET grows[n \in 0..attempt] == IF n = 0 THEN BaseDelay ELSE grows[n - 1] * Multiplier IN grows[attempt]
RetriesArePaced ==
  (retry # Nothing /\ retry.attempt > 0) =>
    LET uncapped == Uncapped(retry.attempt - 1)
        delay == IF uncapped < MaxDelay THEN uncapped ELSE MaxDelay
        floor == IF Jitter = "Full" THEN 0 ELSE delay \div 2 IN
    IF retry.error \in {"Ok", "Conflict", "QuotaExhausted", "UnknownSigner"} THEN retry.over
    ELSE ~retry.over /\ retry.wakes - retry.tried \in floor..delay

\* What is served is served within its rate, and to whom it belongs (check, for_vault).
ServedWithinRate == RequestTypeOK /\ WithinRate /\ ServedRightly

\* A client that waits as it is told, or as its backoff says, neither hammers the server nor
\* is sent away again (retry_after, delay_ms).
RetriesSucceed == RetryAfterSuffices /\ RetriesArePaced

-----------------------------------------------------------------------------
(***************************************************************************)
(* The inductive invariant behind WithinRate and RetryAfterSuffices. What  *)
(* a bucket holds and what was let through come to no more than the burst  *)
(* and the rate up to the bucket's last charge; a bucket that is gone was  *)
(* full, unless it is loose; and a bucket grows to a whole token by the    *)
(* time its key was told.                                                  *)
(***************************************************************************)
LimiterTypes ==
  /\ seconds \in Nat /\ admitted \in [Keys -> Nat] /\ told \in [Keys -> Int \cup {Nothing}]
  /\ \A k \in DOMAIN buckets :
       /\ k \in Keys /\ ~Unlimited(k)
       /\ buckets[k].tokens \in 0 .. Full(RateOf(k)) /\ buckets[k].updated \in 0 .. seconds

WithinBudget ==
  \A k \in Keys \ loose : ~Unlimited(k) =>
    IF k \in DOMAIN buckets
    THEN 60 * admitted[k] + buckets[k].tokens
           <= Full(RateOf(k)) + buckets[k].updated * RateOf(k).per_minute
    ELSE 60 * admitted[k] <= seconds * RateOf(k).per_minute

PromisesKept ==
  \A k \in Keys : told[k] # Nothing =>
    /\ ~Unlimited(k)
    /\ k \in DOMAIN buckets =>
         buckets[k].tokens + (told[k] - buckets[k].updated) * RateOf(k).per_minute >= 60

LimiterInv == LimiterTypes /\ WithinBudget /\ PromisesKept

AnswersRightly ==
  /\ answer # Nothing => answer.error \in ErrorCodes \cup {"Ok"}
  /\ retry # Nothing => retry.attempt \in 0..Attempts
  /\ ServedRightly
=============================================================================
