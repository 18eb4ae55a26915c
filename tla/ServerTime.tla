----------------------------- MODULE ServerTime -----------------------------
(***************************************************************************)
(* The signed clock of the server and the offset a client keeps from it.   *)
(*                                                                         *)
(* Source: misty-server time_key.rs and routes/meta.rs, misty-sync time.rs,*)
(* client.rs (signed_time) and engine.rs (measure_time). A reply may be    *)
(* delayed, repeated or lost; the server may restart and its clock may be  *)
(* set back; the client may stop between two calls. A signature is the     *)
(* record of what was signed and with which key.                           *)
(***************************************************************************)
EXTENDS Integers, FiniteSets

CONSTANTS
  Unset,            \* no sample, no request
  KeyOrigins,       \* where the server may take its key from, a subset of Origins
  BackwardsTolerance,   \* BACKWARDS_TOLERANCE_MS, in ticks
  DriftWarning,     \* DRIFT_WARNING_MS
  DriftStale,       \* DRIFT_STALE_MS
  SetBack,          \* by how much the server's clock may be set back
  MaxClock,         \* where the clocks stop, a bound of the model
  MaxAsked,         \* how many requests are made, a bound of the model
  MaxReplies,       \* how many replies are on their way, a bound of the model
  MaxRestarts,      \* how often the server restarts, a bound of the model
  LocalStarts       \* what the client's clock may read at first

Origins == {"Environment", "File", "Ephemeral"}
ASSUME TimeAssumption ==
  /\ {BackwardsTolerance, DriftWarning, DriftStale, MaxClock, MaxAsked, MaxReplies, MaxRestarts} \subseteq Nat
  /\ KeyOrigins \subseteq Origins /\ SetBack \subseteq Nat /\ LocalStarts \subseteq Int
  /\ Unset \notin Int /\ Unset \notin [measured_at : Int, server : Int, offset : Int]

VARIABLES
  elapsed,       \* time itself, which nobody reads
  server_clock,  \* the server's clock
  local_clock,   \* the client's clock
  time_key,      \* TimeKey: [origin, key]
  pinned,        \* config.time_public_key
  replies,       \* the signed replies on their way
  asking,        \* the request in flight: [nonce, local, at], or Unset
  time_state,    \* SyncState::time, persisted: [measured_at, server, offset], or Unset
  time_error,    \* how the last measurement ended
  asked, restarts,   \* nonces drawn and restarts made
  highest, backs,    \* the latest reading accepted, and how many came after it
  lag                \* how long the answer of the sample took

timeVars == <<elapsed, server_clock, local_clock, time_key, pinned, replies, asking, time_state, time_error,
              asked, restarts, highest, backs, lag>>

-----------------------------------------------------------------------------
(***************************************************************************)
(* The server.                                                             *)
(***************************************************************************)
\* from_env, from_file and generate: only a configured key is the same after a restart.
KeyFor(origin, run) == [origin |-> origin, key |-> IF origin = "Ephemeral" THEN <<origin, run>> ELSE <<origin, 0>>]
\* time_payload and time_signing_bytes: the nonce and the time are both covered.
Payload(nonce, unix_ms) == <<nonce, unix_ms>>
SignTime(key, nonce, unix_ms) == [key |-> key.key, payload |-> Payload(nonce, unix_ms)]
TimeResponse(nonce) ==
  [unix_ms |-> server_clock, nonce |-> nonce, sig |-> SignTime(time_key, nonce, server_clock)]

-----------------------------------------------------------------------------
(***************************************************************************)
(* The client.                                                             *)
(***************************************************************************)
\* Mutant of VerifyTime: the reply is checked against the nonce it brings.
VerifyTimeEchoed(sent, reply) ==
  IF reply.sig # [key |-> pinned, payload |-> Payload(reply.nonce, reply.unix_ms)]
  THEN "TimeSignatureInvalid" ELSE "Ok"
VerifyTime(sent, reply) ==
  IF reply.nonce # sent THEN "TimeNonceMismatch"
  ELSE IF reply.sig # [key |-> pinned, payload |-> Payload(sent, reply.unix_ms)]
  THEN "TimeSignatureInvalid" ELSE "Ok"

\* DriftTracker::accept.
WentBackwards(previous, server_ms) ==
  previous # Unset /\ server_ms < previous.server - BackwardsTolerance
Sample(local, server_ms) == [measured_at |-> local, server |-> server_ms, offset |-> server_ms - local]

\* Drift.
OffsetMs == IF time_state = Unset THEN 0 ELSE time_state.offset
ExceedsWarning == OffsetMs > DriftWarning \/ -OffsetMs > DriftWarning
IsStale == time_state = Unset \/ local_clock - time_state.measured_at > DriftStale
EffectiveNow == local_clock + OffsetMs

-----------------------------------------------------------------------------
TimeInit ==
  /\ elapsed = 0 /\ server_clock = 0 /\ local_clock \in LocalStarts
  /\ \E origin \in KeyOrigins : time_key = KeyFor(origin, 0)
  /\ pinned = time_key.key
  /\ replies = {} /\ asking = Unset /\ time_state = Unset /\ time_error = "Ok"
  /\ asked = 0 /\ restarts = 0 /\ highest = Unset /\ backs = 0 /\ lag = 0

Clocks == <<elapsed, server_clock, local_clock>>
ServerSide == <<time_key, pinned, restarts>>
Measured == <<time_state, highest, backs, lag>>

\* Both clocks run at the same rate.
Pass ==
  /\ elapsed < MaxClock
  /\ elapsed' = elapsed + 1 /\ server_clock' = server_clock + 1 /\ local_clock' = local_clock + 1
  /\ UNCHANGED <<ServerSide, replies, asking, time_error, asked, Measured>>

\* measure_time and signed_time, up to the request.
AskTime ==
  /\ asking = Unset /\ asked < MaxAsked
  /\ asked' = asked + 1
  /\ asking' = [nonce |-> asked + 1, local |-> local_clock, at |-> elapsed]
  /\ time_error' = "Ok"
  /\ UNCHANGED <<Clocks, ServerSide, replies, Measured>>

\* GET /v1/time: whoever asks with a nonce is answered; a request may be served more than once.
ServeTime ==
  /\ asking # Unset /\ Cardinality(replies) < MaxReplies
  /\ replies' = replies \cup {TimeResponse(asking.nonce)}
  /\ UNCHANGED <<Clocks, ServerSide, asking, time_error, asked, Measured>>

\* The rest of measure_time, with whichever reply arrives.
MeasureTime(reply) ==
  LET verified == VerifyTime(asking.nonce, reply)
      outcome == IF verified # "Ok" THEN verified
                 ELSE IF WentBackwards(time_state, reply.unix_ms) THEN "TimeWentBackwards" ELSE "Ok" IN
  /\ asking # Unset /\ reply \in replies
  /\ asking' = Unset /\ time_error' = outcome
  /\ IF outcome = "Ok"
     THEN /\ time_state' = Sample(asking.local, reply.unix_ms)
          /\ highest' = IF highest = Unset \/ reply.unix_ms >= highest THEN reply.unix_ms ELSE highest
          /\ backs' = IF highest = Unset \/ reply.unix_ms >= highest THEN 0 ELSE backs + 1
          /\ lag' = elapsed - asking.at
     ELSE UNCHANGED Measured
  /\ UNCHANGED <<Clocks, ServerSide, replies, asked>>

\* The transport fails, or the client stops: what was persisted is read back.
GiveUpOnTime ==
  /\ asking # Unset
  /\ asking' = Unset /\ time_error' = "Transport"
  /\ UNCHANGED <<Clocks, ServerSide, replies, asked, Measured>>

\* External: the server process restarts and its machine's clock may have been set back.
RestartServer(origin, back) ==
  /\ restarts < MaxRestarts
  /\ restarts' = restarts + 1
  /\ origin = time_key.origin
  /\ time_key' = KeyFor(origin, restarts + 1)
  /\ server_clock' = server_clock - back
  /\ UNCHANGED <<elapsed, local_clock, pinned, replies, asking, time_error, asked, Measured>>

TimeNext ==
  \/ Pass
  \/ AskTime
  \/ ServeTime
  \/ \E reply \in replies : MeasureTime(reply)
  \/ GiveUpOnTime
  \/ \E origin \in KeyOrigins, back \in SetBack : RestartServer(origin, back)
TimeSpec == TimeInit /\ [][TimeNext]_timeVars

-----------------------------------------------------------------------------
\* A sample is what accept makes of a reading, and the warnings follow from it.
TimeTypeOK ==
  /\ time_error \in {"Ok", "Transport", "TimeNonceMismatch", "TimeSignatureInvalid", "TimeWentBackwards"}
  /\ time_key.origin \in KeyOrigins /\ asked \in 0..MaxAsked
  /\ time_state # Unset => time_state.offset = time_state.server - time_state.measured_at
  /\ (time_state = Unset) = (highest = Unset)
  /\ (ExceedsWarning \/ ~IsStale) => time_state # Unset

\* However late or often replies arrive, the offset a client applies was the true one at some
\* moment of its own request: while no clock is set, the time it computes is ahead by at most
\* the time its answer took (verify_time: the nonce is what makes a replay impossible).
OffsetWithinRoundTrip ==
  (time_state # Unset /\ restarts = 0) =>
    EffectiveNow - server_clock \in 0..lag

\* Readings never fall behind the latest one by more than the tolerance for each reading that
\* was accepted since (accept compares with the previous reading, not with the latest).
RollbackBounded ==
  time_state # Unset => time_state.server >= highest - backs * BackwardsTolerance

\* A key the operator configured survives restarts: only a generated one breaks the pin
\* (KeyOrigin: "whether restarts will invalidate pinned keys").
PinOutlivesRestart ==
  time_error = "TimeSignatureInvalid" => time_key.origin = "Ephemeral" /\ restarts > 0

\* The time a client applies is the server's, within what a slow answer, a clock that is set back
\* and a restart allow (verify_time, DriftTracker::accept, TimeKey).
TimeIsSound == TimeTypeOK /\ OffsetWithinRoundTrip /\ RollbackBounded /\ PinOutlivesRestart

-----------------------------------------------------------------------------
(***************************************************************************)
(* The inductive invariant behind TimeIsSound. The client's clock keeps    *)
(* its distance from time itself; a nonce is asked for once, so that every *)
(* reply to the request in flight was signed while it was in flight; and   *)
(* a key that was not generated is the pinned one in every reply.          *)
(***************************************************************************)
TimeRequest == [nonce : Nat \ {0}, local : Int, at : Nat]
TimeSample == [measured_at : Int, server : Int, offset : Int]

TimeTypes ==
  /\ elapsed \in Nat /\ server_clock \in Int /\ local_clock \in Int
  /\ asked \in 0 .. MaxAsked /\ restarts \in Nat /\ backs \in Nat /\ lag \in Nat
  /\ asking \in TimeRequest \cup {Unset}
  /\ time_state \in TimeSample \cup {Unset} /\ highest \in Int \cup {Unset}
  /\ time_key.origin \in KeyOrigins
  /\ time_error \in {"Ok", "Transport", "TimeNonceMismatch", "TimeSignatureInvalid", "TimeWentBackwards"}
  /\ \A r \in replies : r.unix_ms \in Int /\ r.nonce \in 1 .. asked

KeyIsPinned ==
  /\ time_key = KeyFor(time_key.origin, restarts)
  /\ pinned = KeyFor(time_key.origin, 0).key
  /\ time_key.origin # "Ephemeral" \/ restarts = 0 =>
       \A r \in replies : r.sig = [key |-> pinned, payload |-> Payload(r.nonce, r.unix_ms)]

RepliesInFlight ==
  asking # Unset =>
    /\ asking.nonce = asked /\ asking.at <= elapsed
    /\ local_clock - elapsed = asking.local - asking.at
    /\ restarts = 0 => \A r \in replies : r.nonce = asking.nonce => r.unix_ms \in asking.at .. elapsed

SampleIsSound ==
  /\ (time_state = Unset) = (highest = Unset)
  /\ time_state # Unset =>
       /\ time_state.offset = time_state.server - time_state.measured_at
       /\ restarts = 0 => (local_clock - elapsed) + time_state.offset \in 0 .. lag

TimeInv ==
  /\ TimeTypes /\ KeyIsPinned /\ RepliesInFlight /\ SampleIsSound
  /\ restarts = 0 => server_clock = elapsed
  /\ RollbackBounded /\ PinOutlivesRestart
=============================================================================
