-------------------------------- MODULE Auth --------------------------------
(***************************************************************************)
(* Sessions: challenge, signature, access and refresh tokens, rotation and *)
(* the revocation of a token family, and the admission of a device to the  *)
(* server's device table.                                                  *)
(*                                                                         *)
(* Sources: misty-sync client.rs, misty-server routes/auth.rs and its part *)
(* of store/sqlite.rs. A server handler is several transactions and other  *)
(* requests run between them, so a handler is a record of its own; the two *)
(* inserts of issue are one step. Secrets are numbers that are never used  *)
(* twice, a signature is the record of whose it is, and a device has one   *)
(* key, so that no admission meets another (KeyMismatch).                  *)
(***************************************************************************)
EXTENDS Naturals, Sequences, FiniteSets

CONSTANTS
  Client,       \* the devices that talk to the server
  Nil,
  AuthFaults,   \* what can go wrong, see AuthAssumption
  ChallengeTtl, AccessTtl, RefreshTtl,  \* lifetimes, in ticks
  MaxTime, MaxNonce, MaxToken           \* bounds of the model

ASSUME AuthAssumption ==
  /\ AuthFaults \subseteq {"request", "reply", "duplicate", "dropped", "turned_away"}
  /\ {ChallengeTtl, AccessTtl, RefreshTtl} \subseteq Nat \ {0}  \* parse_secs refuses a zero
  /\ {MaxTime, MaxNonce, MaxToken} \subseteq Nat
  /\ Nil \notin Client /\ Nil \notin Nat /\ Nil \notin {"ok", "error", "refused"}

VARIABLES
  now,         \* the server's clock
  challenges,  \* the challenges table
  sponsor,     \* the devices table: sponsor[c] vouched for c, c itself founded, or Nil
  access, refresh_tokens, revoked,   \* the token tables and the revoked families
  families,    \* families[f]: for whom and by which nonce family f was opened
  nonces, issued,  \* nonces and token pairs made so far; each is its number
  handlers,    \* server handlers between two transactions
  session,     \* session[c]: the token pair the client holds, or Nil
  flow,        \* flow[c]: where the client's current request is
  outcome,     \* outcome[c]: how its last request ended
  hit,         \* history: hit[c], its request met a fault or a clock tick, or c was not
               \* admitted when it began
  sent,        \* history: what a network that duplicates may deliver again
  duplicated,  \* history: something was delivered again
  late         \* history: tokens issued into a family that was revoked by then

tables == <<challenges, sponsor, access, refresh_tokens, revoked, families, nonces, issued>>
authVars == <<now, tables, handlers, session, flow, outcome, hit, sent, duplicated, late>>

Resting == [step |-> "idle"]
Dropped(c) == {IF h.client = c THEN [h EXCEPT !.live = FALSE] ELSE h : h \in handlers}

AuthInit ==
  /\ now = 0 /\ challenges = {} /\ access = {} /\ refresh_tokens = {} /\ revoked = {}
  /\ sponsor = [c \in Client |-> Nil] /\ families = << >> /\ nonces = 0 /\ issued = 0 /\ handlers = {}
  /\ session = [c \in Client |-> Nil] /\ flow = [c \in Client |-> Resting]
  /\ outcome = [c \in Client |-> Nil] /\ hit = [c \in Client |-> FALSE]
  /\ sent = {} /\ duplicated = FALSE /\ late = {}

\* The request of c goes on at this step, or ends.
Proceed(c, step) == flow' = [flow EXCEPT ![c].step = step]
End(c, result) ==
  /\ flow' = [flow EXCEPT ![c] = Resting]
  /\ outcome' = [outcome EXCEPT ![c] = result]
Sending(m) == sent' = IF "duplicate" \in AuthFaults THEN sent \cup {m} ELSE sent
Hit(c) == hit' = [hit EXCEPT ![c] = TRUE]

-----------------------------------------------------------------------------
(***************************************************************************)
(* The client.                                                             *)
(***************************************************************************)
\* send: without a session the client authenticates first. The request admits
\* another device, or is any other authenticated one.
Request(c, other) ==
  /\ flow[c] = Resting /\ other # c
  /\ flow' = [flow EXCEPT ![c] =
       [step |-> IF session[c] = Nil THEN "challenge" ELSE "send", retry |-> FALSE,
        admits |-> other, secret |-> 0]]
  /\ hit' = [hit EXCEPT ![c] = sponsor[c] = Nil]
  /\ outcome' = [outcome EXCEPT ![c] = Nil]
  /\ UNCHANGED <<now, tables, handlers, session, sent, duplicated, late>>

\* access_token: the token is there and has not expired.
Authenticated(token) == \E t \in access : t.id = token /\ t.expires > now

\* admit_device, where by is Nil for a device that speaks for itself.
Admission(c, by) ==
  LET vault_exists == \E o \in Client : sponsor[o] # Nil IN
  CASE sponsor[c] # Nil -> "AlreadyPresent"
    [] sponsor[c] = Nil /\ vault_exists = (by # Nil) ->
         IF vault_exists THEN "Admitted" ELSE "Bootstrapped"
    [] OTHER -> "NeedsSponsor"

\* add_device: the caller's session vouches for another device.
AddDevice(other, c) ==
  IF Admission(other, c) = "Admitted" THEN [sponsor EXCEPT ![other] = c] ELSE sponsor

\* Mutant of AfterRefused: the pair is kept for another attempt.
AfterRefusedKept(c) == session
\* reauthenticate: session.take(), before anything is sent.
AfterRefused(c) == [session EXCEPT ![c] = Nil]
\* send_authenticated, up to the token's look-up. The first 401 takes the session and its
\* refresh token; the second ends the request.
Send(c) ==
  LET token == session[c] IN
  /\ flow[c].step = "send"
  /\ \/ /\ Authenticated(token)
        /\ IF flow[c].admits = Nil THEN End(c, "ok") ELSE Proceed(c, "serve") /\ UNCHANGED outcome
        /\ UNCHANGED <<session, sent>>
     \/ /\ ~Authenticated(token) /\ ~flow[c].retry
        /\ session' = AfterRefused(c)
        /\ flow' = [flow EXCEPT ![c].step = "refresh", ![c].retry = TRUE, ![c].secret = token]
        /\ Sending([kind |-> "refresh", secret |-> token, client |-> c])
        /\ UNCHANGED outcome
     \/ /\ ~Authenticated(token) /\ flow[c].retry
        /\ End(c, "refused")
        /\ UNCHANGED <<session, sent>>
  /\ UNCHANGED <<now, tables, handlers, hit, duplicated, late>>

\* add_device's own transaction, after others ran; its reply may be lost or nobody wait for it.
Serve(c, delivered) ==
  /\ flow[c].step = "serve"
  /\ sponsor' = AddDevice(flow[c].admits, c)
  /\ \/ delivered /\ End(c, "ok") /\ UNCHANGED hit
     \/ ~delivered /\ End(c, "error") /\ Hit(c)
  /\ UNCHANGED <<now, challenges, access, refresh_tokens, revoked, families, nonces, issued,
                 handlers, session, sent, duplicated, late>>

-----------------------------------------------------------------------------
(***************************************************************************)
(* POST /v1/auth/challenge and /v1/auth/verify.                            *)
(***************************************************************************)
PutChallenge(n, c) ==
  challenges \cup {[nonce |-> n, client |-> c, expires |-> now + ChallengeTtl]}

\* A nonce bound to the device, and its expiry.
Challenge(c) ==
  /\ flow[c].step = "challenge" /\ nonces < MaxNonce
  /\ nonces' = nonces + 1
  /\ challenges' = PutChallenge(nonces', c)
  /\ flow' = [flow EXCEPT ![c].step = "verify", ![c].secret = nonces']
  /\ Sending([kind |-> "verify", secret |-> nonces', client |-> c])
  /\ UNCHANGED <<now, sponsor, access, refresh_tokens, revoked, families, issued, handlers,
                 session, outcome, hit, duplicated, late>>

\* take_challenge deletes the row whatever the answer is.
WithoutChallenge(nonce) == {ch \in challenges : ch.nonce # nonce}

\* A handler of a message: live while its sender waits for the reply.
Handler(m, step, live) == [client |-> m.client, step |-> step, secret |-> m.secret, live |-> live]

\* verify up to take_challenge and the binding; m.client signed the nonce.
TakeChallenge(m, live) ==
  /\ challenges' = WithoutChallenge(m.secret)
  /\ handlers' = handlers \cup
       IF \E ch \in challenges : ch.nonce = m.secret /\ ch.expires > now /\ ch.client = m.client
       THEN {Handler(m, "lookup", live)} ELSE {}
  /\ UNCHANGED <<now, sponsor, access, refresh_tokens, revoked, families, nonces, issued>>

Verify(c) ==
  LET m == [kind |-> "verify", secret |-> flow[c].secret, client |-> c] IN
  /\ flow[c].step = "verify"
  /\ TakeChallenge(m, TRUE)
  /\ IF handlers' # handlers THEN Proceed(c, "wait") /\ UNCHANGED outcome
     ELSE End(c, "refused")
  /\ UNCHANGED <<session, hit, sent, duplicated, late>>

KnownDevice(c) == sponsor[c] # Nil

\* A device the table holds needs no admission. Its key is the one it presents.
Lookup(h) ==
  /\ h.step = "lookup"
  /\ handlers' = (handlers \ {h}) \cup
       {[h EXCEPT !.step = IF KnownDevice(h.client) THEN "open" ELSE "admit"]}
  /\ UNCHANGED <<now, tables, session, flow, outcome, hit, sent, duplicated, late>>

\* admit_device, in a transaction of its own. NeedsSponsor is a 403.
Admit(h) ==
  LET admission == Admission(h.client, Nil) IN
  /\ h.step = "admit"
  /\ sponsor' = [sponsor EXCEPT ![h.client] = IF admission = "Bootstrapped" THEN h.client ELSE @]
  /\ IF admission = "NeedsSponsor"
     THEN /\ handlers' = handlers \ {h}
          /\ IF h.live THEN End(h.client, "refused") ELSE UNCHANGED <<flow, outcome>>
     ELSE /\ handlers' = (handlers \ {h}) \cup {[h EXCEPT !.step = "open"]}
          /\ UNCHANGED <<flow, outcome>>
  /\ UNCHANGED <<now, challenges, access, refresh_tokens, revoked, families, nonces, issued,
                 session, hit, sent, duplicated, late>>

-----------------------------------------------------------------------------
(***************************************************************************)
(* POST /v1/auth/refresh, and the tokens both endpoints issue.             *)
(***************************************************************************)
\* revoke_family_in: the family's access tokens go at once.
WithoutFamily(f) == {t \in access : t.family # f}

\* Mutant of Consumed: the token may be used until it expires.
ConsumedNever(r) == refresh_tokens
Consumed(r) == (refresh_tokens \ {r}) \cup {[r EXCEPT !.consumed = TRUE]}

\* consume_refresh_token, in the order of its early returns.
Consume(m, live) ==
  LET found == {r \in refresh_tokens : r.id = m.secret}
      usable == {r \in found : r.family \notin revoked}
      reused == {r \in usable : r.consumed}
      fresh == {r \in usable : ~r.consumed /\ r.expires > now} IN
  /\ revoked' = revoked \cup {r.family : r \in reused}
  /\ access' = IF reused = {} THEN access ELSE WithoutFamily((CHOOSE r \in reused : TRUE).family)
  /\ refresh_tokens' = IF fresh = {} THEN refresh_tokens ELSE Consumed(CHOOSE r \in fresh : TRUE)
  /\ handlers' = handlers \cup
       {[Handler(m, "issue", live) EXCEPT !.secret = r.family] : r \in fresh}
  /\ UNCHANGED <<now, challenges, sponsor, families, nonces, issued>>

\* Mutant of AfterRefresh: a refresh that failed is not followed by a challenge.
AfterRefreshResend(rotated) == IF rotated THEN "rotate" ELSE "send"
\* reauthenticate: whatever goes wrong with the refresh, the challenge is next.
AfterRefresh(rotated) == IF rotated THEN "rotate" ELSE "challenge"

Refresh(c) ==
  LET m == [kind |-> "refresh", secret |-> flow[c].secret, client |-> c] IN
  /\ flow[c].step = "refresh"
  /\ Consume(m, TRUE)
  /\ Proceed(c, AfterRefresh(handlers' # handlers))
  /\ UNCHANGED <<session, outcome, hit, sent, duplicated, late>>

Family(h) == IF h.step = "open" THEN Len(families) + 1 ELSE h.secret

PutAccess(id, f) == access \cup {[id |-> id, family |-> f, expires |-> now + AccessTtl]}
PutRefresh(id, f) ==
  refresh_tokens \cup {[id |-> id, family |-> f, expires |-> now + RefreshTtl, consumed |-> FALSE]}

\* issue: a pair in the family that was rotated, or in a new one. The client
\* stores it, unless the reply is lost or nobody waits for it any more.
Issue(h, delivered) ==
  LET f == Family(h)  id == issued + 1 IN
  /\ h.step \in {"open", "issue"} /\ issued < MaxToken
  /\ issued' = id /\ handlers' = handlers \ {h}
  /\ families' = IF h.step = "open"
                 THEN Append(families, [client |-> h.client, nonce |-> h.secret]) ELSE families
  /\ access' = PutAccess(id, f) /\ refresh_tokens' = PutRefresh(id, f)
  /\ late' = IF f \in revoked THEN late \cup {id} ELSE late
  /\ \/ /\ h.live /\ delivered
        /\ session' = [session EXCEPT ![h.client] = id]
        /\ Proceed(h.client, "send")
        /\ UNCHANGED <<outcome, hit>>
     \/ /\ h.live /\ ~delivered /\ Hit(h.client)
        /\ IF h.step = "open" THEN End(h.client, "error")
           ELSE Proceed(h.client, AfterRefresh(FALSE)) /\ UNCHANGED outcome
        /\ UNCHANGED session
     \/ ~h.live /\ delivered /\ UNCHANGED <<session, flow, outcome, hit>>
  /\ UNCHANGED <<now, challenges, sponsor, revoked, nonces, sent, duplicated>>

\* A handler that ends half way: the registration secret or the instance's vault limit keeps a
\* new device out (403, 507), or the vault's limiter refuses a rotation whose token is
\* consumed by then (429), and the client falls back to a challenge.
TurnedAway(h) ==
  /\ "turned_away" \in AuthFaults /\ h.step \in {"admit", "issue"}
  /\ handlers' = handlers \ {h}
  /\ IF ~h.live THEN UNCHANGED <<flow, outcome, hit>>
     ELSE /\ Hit(h.client)
          /\ IF h.step = "admit" THEN End(h.client, "refused")
             ELSE Proceed(h.client, AfterRefresh(FALSE)) /\ UNCHANGED outcome
  /\ UNCHANGED <<now, tables, session, sent, duplicated, late>>

-----------------------------------------------------------------------------
(***************************************************************************)
(* Time and faults.                                                        *)
(***************************************************************************)
\* A request is shorter than a tick.
Tick ==
  /\ now < MaxTime /\ handlers = {}
  /\ now' = now + 1
  /\ hit' = [c \in Client |-> hit[c] \/ flow[c] # Resting]
  /\ UNCHANGED <<tables, handlers, session, flow, outcome, sent, duplicated, late>>

\* sweep: what has expired, and then the revocations of families with no
\* refresh token left.
SweepTokens ==
  LET live == {r \in refresh_tokens : r.expires > now} IN
  /\ challenges' = {ch \in challenges : ch.expires > now}
  /\ access' = {t \in access : t.expires > now}
  /\ refresh_tokens' = live
  /\ revoked' = revoked \cap {r.family : r \in live}
  /\ <<challenges', access', refresh_tokens', revoked'>>
       # <<challenges, access, refresh_tokens, revoked>>
  /\ UNCHANGED <<now, sponsor, families, nonces, issued, handlers, session, flow, outcome, hit,
                 sent, duplicated, late>>

\* A request that never arrives, or that the limiter refuses before anything is done: an
\* error, but a lost refresh falls through.
RequestLost(c) ==
  /\ "request" \in AuthFaults /\ flow[c].step \in {"send", "challenge", "verify", "refresh"}
  /\ Hit(c)
  /\ IF flow[c].step = "refresh" THEN Proceed(c, AfterRefresh(FALSE)) /\ UNCHANGED outcome
     ELSE End(c, "error")
  /\ UNCHANGED <<now, tables, handlers, session, sent, duplicated, late>>

\* The caller drops the future: its handler runs to the end, unanswered.
RequestDropped(c) ==
  /\ "dropped" \in AuthFaults /\ flow[c] # Resting
  /\ End(c, "error") /\ Hit(c)
  /\ handlers' = Dropped(c)
  /\ UNCHANGED <<now, tables, session, sent, duplicated, late>>

\* A message is delivered a second time, or before the first.
Duplicate(m) ==
  /\ duplicated' = TRUE
  /\ Hit(m.client)
  /\ IF m.kind = "verify"
     THEN TakeChallenge(m, FALSE) /\ UNCHANGED <<access, refresh_tokens, revoked>>
     ELSE Consume(m, FALSE) /\ UNCHANGED challenges
  /\ UNCHANGED <<session, flow, outcome, sent, late>>

AuthNext ==
  \/ \E c \in Client :
       \/ \E other \in Client \cup {Nil} : Request(c, other)
       \/ Send(c) \/ Serve(c, TRUE)
       \/ AuthFaults \cap {"reply", "dropped"} # {} /\ Serve(c, FALSE)
       \/ Challenge(c) \/ Verify(c) \/ Refresh(c)
       \/ RequestLost(c) \/ RequestDropped(c)
  \/ \E h \in handlers : Lookup(h) \/ Admit(h) \/ TurnedAway(h)
  \/ \E h \in handlers : Issue(h, TRUE) \/ ("reply" \in AuthFaults /\ Issue(h, FALSE))
  \/ Tick \/ SweepTokens
  \/ \E m \in sent : Duplicate(m)

AuthSpec == AuthInit /\ [][AuthNext]_authVars

-----------------------------------------------------------------------------
AuthTypeOK ==
  /\ now \in 0..MaxTime /\ issued \in 0..MaxToken /\ nonces \in 0..MaxNonce
  /\ sponsor \in [Client -> Client \cup {Nil}] /\ session \in [Client -> 1..issued \cup {Nil}]
  /\ revoked \subseteq DOMAIN families
  /\ outcome \in [Client -> {Nil, "ok", "error", "refused"}]
  /\ \A t \in access \cup refresh_tokens : t.id \in 1..issued /\ t.family \in DOMAIN families

(***************************************************************************)
(* client.rs:200: a token is presented once and dropped whatever happens,  *)
(* so a lost reply, a lost request or a dropped future never looks like    *)
(* reuse. Only a network that delivers twice gets a family revoked.        *)
(***************************************************************************)
NoReuseWithoutDuplicate == revoked # {} => duplicated

(***************************************************************************)
(* Rotation: of one family at most one refresh token can still be used,    *)
(* and while one is being rotated, none.                                   *)
(***************************************************************************)
OneLiveRefresh ==
  \A f \in DOMAIN families :
    Cardinality({r \in refresh_tokens : r.family = f /\ ~r.consumed})
      + Cardinality({h \in handlers : h.step = "issue" /\ h.secret = f}) <= 1

\* A revoked family keeps no access token, but for one whose issue was under
\* way when it was revoked (sqlite.rs:275, auth.rs:419).
RevokedHasNoAccess == \A t \in access : t.family \in revoked => t.id \in late

\* A challenge opens one session, and opens it for the device it was issued to.
OneFamilyPerChallenge ==
  \A f, g \in DOMAIN families : families[f].nonce = families[g].nonce => f = g

\* A vault is founded once, whichever verifications race; every other device was
\* vouched for by one that was admitted (sqlite.rs:402).
OneFounder ==
  /\ Cardinality({c \in Client : sponsor[c] = c}) <= 1
  /\ \A c \in Client : sponsor[c] # Nil => sponsor[sponsor[c]] # Nil

(***************************************************************************)
(* send retries once, and once is enough: an admitted device whose request *)
(* meets no fault, no 429 and no clock tick is served, however stale its   *)
(* tokens are and whichever requests of the others run between its own.    *)
(***************************************************************************)
MemberIsServed ==
  \A c \in Client : outcome[c] \in {"refused", "error"} => hit[c]

(***************************************************************************)
(* Sessions are sound: a vault has one founder, a challenge opens one      *)
(* session, a session has one live refresh token, and a revoked one no     *)
(* access (routes/auth.rs over the store's separate calls).                *)
(***************************************************************************)
SessionsAreSound ==
  AuthTypeOK /\ OneLiveRefresh /\ RevokedHasNoAccess /\ OneFamilyPerChallenge /\ OneFounder

-----------------------------------------------------------------------------
(***************************************************************************)
(* The inductive invariant behind the three properties.                    *)
(***************************************************************************)
Verifying == {"lookup", "admit", "open"}
AuthFlow ==
  [step : {"send", "serve", "refresh", "rotate", "challenge", "verify", "wait"}, retry : BOOLEAN,
   admits : Client \cup {Nil}, secret : Nat]
AuthTypes ==
  /\ now \in 0..MaxTime /\ issued \in 0..MaxToken /\ nonces \in 0..MaxNonce
  /\ families \in Seq([client : Client, nonce : 1..nonces])
  /\ sponsor \in [Client -> Client \cup {Nil}] /\ session \in [Client -> 1..issued \cup {Nil}]
  /\ flow \in [Client -> {Resting} \cup AuthFlow]
  /\ outcome \in [Client -> {Nil, "ok", "error", "refused"}] /\ hit \in [Client -> BOOLEAN]
  /\ challenges \subseteq [nonce : 1..nonces, client : Client, expires : Nat]
  /\ access \subseteq [id : 1..issued, family : DOMAIN families, expires : Nat]
  /\ refresh_tokens \subseteq [id : 1..issued, family : DOMAIN families, expires : Nat, consumed : BOOLEAN]
  /\ revoked \subseteq DOMAIN families
  /\ handlers \subseteq [client : Client, step : Verifying, secret : 1..nonces, live : BOOLEAN]
                   \cup [client : Client, step : {"issue"}, secret : DOMAIN families, live : BOOLEAN]
  /\ sent \subseteq [kind : {"verify"}, secret : 1..nonces, client : Client]
               \cup [kind : {"refresh"}, secret : 1..issued, client : Client]

\* A refresh token is one of a kind, and a family has one that can be used or one rotation.
RefreshOnce ==
  /\ \A r, s \in refresh_tokens :
       r.id = s.id \/ (r.family = s.family /\ ~r.consumed /\ ~s.consumed) => r = s
  /\ \A h, g \in handlers : h.step = "issue" /\ g.step = "issue" /\ h.secret = g.secret => h = g
  /\ \A r \in refresh_tokens, h \in handlers : ~r.consumed /\ h.step = "issue" => h.secret # r.family

\* A nonce is in one place: a challenge, a verification or a family.
NonceOnce ==
  /\ \A h, g \in handlers : h.step \in Verifying /\ g.step \in Verifying /\ h.secret = g.secret => h = g
  /\ \A h \in handlers : h.step \in Verifying =>
       /\ \A ch \in challenges : ch.nonce # h.secret
       /\ \A f \in DOMAIN families : families[f].nonce # h.secret
  /\ \A ch \in challenges, f \in DOMAIN families : families[f].nonce # ch.nonce
  /\ OneFamilyPerChallenge

\* Whoever holds a token, or presented one, was admitted.
HoldersAreAdmitted ==
  /\ \A c, d \in Client : sponsor[c] = c /\ sponsor[d] = d => c = d
  /\ \A c \in Client :
       /\ sponsor[c] # Nil => sponsor[sponsor[c]] # Nil
       /\ session[c] # Nil \/ flow[c].step \in {"refresh", "serve"} => sponsor[c] # Nil
       /\ flow[c].step = "serve" => flow[c].admits \in Client
       /\ flow[c].step = "send" => session[c] # Nil
  /\ \A h \in handlers : h.step \in {"open", "issue"} => sponsor[h.client] # Nil
  /\ \A m \in sent : m.kind = "refresh" => sponsor[m.client] # Nil

\* A client presents a token nobody else holds, that was consumed only by a duplicate.
Presented(c) == IF flow[c].step = "refresh" THEN {flow[c].secret} ELSE {}
Held(c) == {session[c]} \ {Nil}
TokensHeldOnce ==
  /\ \A c, d \in Client :
       /\ Held(c) \cap Presented(d) = {}
       /\ c # d => Held(c) \cap Held(d) = {} /\ Presented(c) \cap Presented(d) = {}
  /\ \A c \in Client : Presented(c) \subseteq 1..issued
  /\ ~duplicated =>
       /\ revoked = {}
       /\ \A c \in Client, r \in refresh_tokens : r.id \in Held(c) \cup Presented(c) => ~r.consumed

\* A handler is live while its client waits for it, and for no other.
ClientsWait ==
  /\ \A h \in handlers : h.live => flow[h.client].step = IF h.step = "issue" THEN "rotate" ELSE "wait"
  /\ \A h, g \in handlers : h.live /\ g.live /\ h.client = g.client => h = g

\* A token is its family's, and the family the client's.
OwnFamilies ==
  /\ \A c \in Client : \A t \in access \cup refresh_tokens :
       t.id \in Held(c) \cup Presented(c) => families[t.family].client = c
  /\ \A m \in sent, r \in refresh_tokens :
       m.kind = "refresh" /\ r.id = m.secret => families[r.family].client = m.client
  /\ \A h \in handlers : h.step = "issue" => families[h.secret].client = h.client

\* A request that nothing hit is of an admitted device, whose challenge and whose new token
\* are good.
Unhit(c) ==
  /\ flow[c] # Resting => sponsor[c] # Nil
  /\ flow[c].step = "verify" =>
       \E ch \in challenges : ch.nonce = flow[c].secret /\ ch.client = c /\ ch.expires > now
  /\ flow[c].step = "send" /\ flow[c].retry => Authenticated(session[c])
NoncesAreOwn ==
  \A c \in Client : flow[c].step = "verify" =>
    /\ flow[c].secret \in 1..nonces
    /\ \A d \in Client : flow[d].step = "verify" /\ flow[d].secret = flow[c].secret => d = c
    /\ \A m \in sent : m.kind = "verify" /\ m.secret = flow[c].secret => m.client = c
RequestsGoOn == MemberIsServed /\ NoncesAreOwn /\ \A c \in Client : hit[c] \/ Unhit(c)

AuthInv ==
  /\ AuthTypes /\ RefreshOnce /\ RevokedHasNoAccess /\ NonceOnce /\ HoldersAreAdmitted
  /\ TokensHeldOnce /\ ClientsWait /\ OwnFamilies /\ RequestsGoOn
=============================================================================
