---------------------------- MODULE ServerProofs ----------------------------
(***************************************************************************)
(* What stands before the item store, proved for every number of clients,  *)
(* every rate and every run of the clocks: the sessions (Auth), the signed *)
(* time (ServerTime) and the limits on requests (Requests). Each part has an *)
(* inductive invariant of its own, stated in its module: AuthInv, TimeInv, and *)
(* LimiterInv with AnswersRightly.                                         *)
(***************************************************************************)
EXTENDS Auth, ServerTime, Requests, FiniteFacts, SequenceTheorems, TLAPS

-----------------------------------------------------------------------------
(***************************************************************************)
(* Auth: what a client has under way, and what a handler is.               *)
(***************************************************************************)
Others(c) == \A d \in Client : d # c => flow'[d] = flow[d]

\* The request of a client that is under way.
LEMMA FlowIs ==
  ASSUME AuthTypes, NEW c \in Client
  PROVE  /\ flow[c] = Resting <=> flow[c].step = "idle"
         /\ flow[c] # Resting => flow[c] \in AuthFlow
         /\ Resting.step = "idle"
  BY DEF AuthTypes, Resting, AuthFlow

LEMMA ProceedIs ==
  ASSUME AuthTypes, NEW c \in Client, flow[c] # Resting, NEW step, Proceed(c, step),
         step \in {"send", "serve", "refresh", "rotate", "challenge", "verify", "wait"}
  PROVE  /\ Others(c) /\ flow' \in [Client -> {Resting} \cup AuthFlow] /\ flow'[c] # Resting
         /\ flow'[c].step = step /\ flow'[c].retry = flow[c].retry
         /\ flow'[c].admits = flow[c].admits /\ flow'[c].secret = flow[c].secret
<1>1. flow[c] \in AuthFlow /\ flow \in [Client -> {Resting} \cup AuthFlow]
  BY FlowIs DEF AuthTypes
<1>2. flow' = [flow EXCEPT ![c] = [flow[c] EXCEPT !.step = step]]
  BY DEF Proceed
<1>3. /\ [flow[c] EXCEPT !.step = step] \in AuthFlow
      /\ [flow[c] EXCEPT !.step = step].step = step /\ [flow[c] EXCEPT !.step = step].retry = flow[c].retry
      /\ [flow[c] EXCEPT !.step = step].admits = flow[c].admits
      /\ [flow[c] EXCEPT !.step = step].secret = flow[c].secret
  BY <1>1 DEF AuthFlow
<1>4. Resting.step # step
  BY DEF Resting
<1>. QED
  BY <1>1, <1>2, <1>3, <1>4 DEF Others

LEMMA EndIs ==
  ASSUME AuthTypes, NEW c \in Client, NEW result, End(c, result), result \in {"ok", "error", "refused"}
  PROVE  /\ Others(c) /\ flow' \in [Client -> {Resting} \cup AuthFlow]
         /\ flow'[c] = Resting /\ flow'[c].step = "idle"
         /\ outcome' \in [Client -> {Nil, "ok", "error", "refused"}] /\ outcome'[c] = result
         /\ \A d \in Client : d # c => outcome'[d] = outcome[d]
  BY DEF AuthTypes, End, Others, Resting

\* A handler, and a message that may be delivered again.
LEMMA HandlerIs ==
  ASSUME AuthTypes
  PROVE  /\ \A h \in handlers :
              /\ h.client \in Client /\ h.step \in Verifying \cup {"issue"} /\ h.live \in BOOLEAN
              /\ h.step = "issue" => h.secret \in DOMAIN families
              /\ h.step # "issue" => h.secret \in 1 .. nonces
         /\ \A m \in sent :
              /\ m.client \in Client /\ m.kind \in {"verify", "refresh"}
              /\ m.kind = "verify" => m.secret \in 1 .. nonces
              /\ m.kind = "refresh" => m.secret \in 1 .. issued
<1>1. \A h \in handlers :
        /\ h.client \in Client /\ h.step \in Verifying \cup {"issue"} /\ h.live \in BOOLEAN
        /\ h.step = "issue" => h.secret \in DOMAIN families
        /\ h.step # "issue" => h.secret \in 1 .. nonces
  BY DEF AuthTypes, Verifying
<1>2. \A m \in sent :
        /\ m.client \in Client /\ m.kind \in {"verify", "refresh"}
        /\ m.kind = "verify" => m.secret \in 1 .. nonces
        /\ m.kind = "refresh" => m.secret \in 1 .. issued
  BY DEF AuthTypes
<1>. QED
  BY <1>1, <1>2

LEMMA FamilyIs ==
  ASSUME AuthTypes
  PROVE  /\ Len(families) \in Nat /\ DOMAIN families = 1 .. Len(families)
         /\ \A f \in DOMAIN families : families[f].client \in Client /\ families[f].nonce \in 1 .. nonces
<1>1. families \in Seq([client : Client, nonce : 1 .. nonces])
  BY DEF AuthTypes
<1>2. Len(families) \in Nat /\ DOMAIN families = 1 .. Len(families)
  BY <1>1, LenProperties
<1>3. \A f \in DOMAIN families : families[f] \in [client : Client, nonce : 1 .. nonces]
  BY <1>1, <1>2, ElementOfSeq
<1>. QED
  BY <1>2, <1>3

LEMMA AuthInitially == ASSUME AuthInit PROVE AuthInv
<1> USE DEF AuthInit
<1>1. AuthTypes
  BY AuthAssumption DEF AuthTypes
<1>2. \A c \in Client : flow[c] = Resting /\ flow[c].step = "idle" /\ session[c] = Nil
  BY DEF Resting
<1>3. RefreshOnce /\ RevokedHasNoAccess /\ NonceOnce
  BY DEF RefreshOnce, RevokedHasNoAccess, NonceOnce, OneFamilyPerChallenge
<1>4. HoldersAreAdmitted
  BY <1>2, AuthAssumption DEF HoldersAreAdmitted
<1>5. \A c \in Client : Held(c) = {} /\ Presented(c) = {}
  BY <1>2 DEF Held, Presented
<1>6. TokensHeldOnce /\ ClientsWait /\ OwnFamilies
  BY <1>5 DEF TokensHeldOnce, ClientsWait, OwnFamilies
<1>7. RequestsGoOn
  BY <1>2, AuthAssumption DEF RequestsGoOn, MemberIsServed, NoncesAreOwn, Unhit
<1>. QED
  BY <1>1, <1>3, <1>4, <1>6, <1>7 DEF AuthInv

LEMMA RequestKeeps ==
  ASSUME AuthInv, NEW c \in Client, NEW other \in Client \cup {Nil}, Request(c, other)
  PROVE  AuthInv'
<1> USE DEF AuthInv
<1>1. /\ UNCHANGED <<now, challenges, sponsor, access, refresh_tokens, revoked, families, nonces, issued,
                     handlers, session, sent, duplicated, late>>
      /\ flow[c] = Resting /\ flow[c].step = "idle"
  BY FlowIs DEF Request, tables
<1>2. /\ Others(c) /\ flow' \in [Client -> {Resting} \cup AuthFlow]
      /\ flow'[c].step = IF session[c] = Nil THEN "challenge" ELSE "send"
      /\ flow'[c].retry = FALSE /\ flow'[c] # Resting
  BY DEF Request, AuthTypes, AuthFlow, Others, Resting
<1>3. /\ hit' \in [Client -> BOOLEAN] /\ outcome' \in [Client -> {Nil, "ok", "error", "refused"}]
      /\ hit'[c] <=> sponsor[c] = Nil
      /\ outcome'[c] = Nil
      /\ \A d \in Client : d # c => hit'[d] = hit[d] /\ outcome'[d] = outcome[d]
  BY DEF Request, AuthTypes
<1>4. AuthTypes'
  BY <1>1, <1>2, <1>3 DEF AuthTypes
<1>5. RefreshOnce' /\ RevokedHasNoAccess' /\ NonceOnce'
  BY <1>1 DEF RefreshOnce, RevokedHasNoAccess, NonceOnce, OneFamilyPerChallenge
<1>6. HoldersAreAdmitted'
  BY <1>1, <1>2 DEF HoldersAreAdmitted, Others
<1>7. \A d \in Client : Held(d)' = Held(d) /\ Presented(d)' = Presented(d)
  BY <1>1, <1>2 DEF Held, Presented, Others
<1>8. TokensHeldOnce' /\ OwnFamilies'
  BY <1>1, <1>7 DEF TokensHeldOnce, OwnFamilies
<1>9. ClientsWait'
  BY <1>1, <1>2, HandlerIs DEF ClientsWait, Others
<1>10. RequestsGoOn'
  <2>1. MemberIsServed'
    BY <1>3, AuthAssumption DEF RequestsGoOn, MemberIsServed
  <2>2. NoncesAreOwn'
    BY <1>1, <1>2 DEF RequestsGoOn, NoncesAreOwn, Others
  <2>3. ASSUME NEW d \in Client PROVE hit'[d] \/ Unhit(d)'
    BY <1>1, <1>2, <1>3 DEF RequestsGoOn, Unhit, Others, Authenticated
  <2>. QED
    BY <2>1, <2>2, <2>3 DEF RequestsGoOn
<1>. QED
  BY <1>4, <1>5, <1>6, <1>8, <1>9, <1>10

\* The handlers that are left when the request of c ends: none of its is live.
Fading(c) ==
  /\ \A g \in handlers' : \E h \in handlers :
       g = [client |-> h.client, step |-> h.step, secret |-> h.secret, live |-> g.live]
  /\ \A g \in handlers' : g.live \in BOOLEAN /\ (g.live => g \in handlers /\ g.client # c)

\* A request that ends. Its challenge may have been taken.
LEMMA EndFades ==
  ASSUME AuthInv, NEW c \in Client, NEW result, End(c, result), result \in {"ok", "error", "refused"},
         Fading(c), RefreshOnce', NonceOnce',
         challenges' = challenges \/ (flow[c].step = "verify" /\ challenges' = WithoutChallenge(flow[c].secret)),
         UNCHANGED <<now, sponsor, access, refresh_tokens, revoked, families, nonces, issued,
                     session, sent, duplicated, late>>,
         hit' \in [Client -> BOOLEAN], result = "ok" \/ hit'[c],
         \A d \in Client : d # c => hit'[d] = hit[d]
  PROVE  AuthInv'
<1> USE DEF AuthInv
<1>1. /\ Others(c) /\ flow' \in [Client -> {Resting} \cup AuthFlow]
      /\ flow'[c] = Resting /\ flow'[c].step = "idle"
      /\ outcome' \in [Client -> {Nil, "ok", "error", "refused"}] /\ outcome'[c] = result
      /\ \A d \in Client : d # c => outcome'[d] = outcome[d]
  BY EndIs
<1>2. /\ challenges' \subseteq challenges
      /\ \A ch \in challenges \ challenges' : flow[c].step = "verify" /\ ch.nonce = flow[c].secret
  BY DEF WithoutChallenge
<1>3. AuthTypes'
  <2>1. \A g \in handlers' :
          g \in [client : Client, step : Verifying, secret : 1 .. nonces, live : BOOLEAN]
                  \cup [client : Client, step : {"issue"}, secret : DOMAIN families, live : BOOLEAN]
    <3>1. SUFFICES ASSUME NEW g \in handlers'
                   PROVE  g \in [client : Client, step : Verifying, secret : 1 .. nonces, live : BOOLEAN]
                             \cup [client : Client, step : {"issue"}, secret : DOMAIN families, live : BOOLEAN]
      OBVIOUS
    <3>2. PICK h \in handlers : g = [client |-> h.client, step |-> h.step, secret |-> h.secret, live |-> g.live]
      BY DEF Fading
    <3>3. g.live \in BOOLEAN
      BY DEF Fading
    <3>. QED
      BY <3>2, <3>3, HandlerIs
  <2>. QED
    BY <1>1, <1>2, <2>1 DEF AuthTypes
<1>4. RevokedHasNoAccess'
  BY DEF RevokedHasNoAccess
<1>5. HoldersAreAdmitted'
  <2>1. \A g \in handlers' : g.step \in {"open", "issue"} => sponsor[g.client] # Nil
    BY DEF HoldersAreAdmitted, Fading
  <2>. QED
    BY <1>1, <2>1 DEF HoldersAreAdmitted, Others
<1>6. \A d \in Client : Held(d)' = Held(d) /\ Presented(d)' \subseteq Presented(d)
  BY <1>1 DEF Held, Presented, Others
<1>7. TokensHeldOnce'
  BY <1>6 DEF TokensHeldOnce
<1>8. OwnFamilies'
  <2>1. \A g \in handlers' : g.step = "issue" => families[g.secret].client = g.client
    BY DEF OwnFamilies, Fading
  <2>. QED
    BY <1>6, <2>1 DEF OwnFamilies
<1>9. ClientsWait'
  BY <1>1, HandlerIs DEF ClientsWait, Others, Fading
<1>10. RequestsGoOn'
  <2>1. MemberIsServed'
    BY <1>1 DEF RequestsGoOn, MemberIsServed
  <2>2. NoncesAreOwn'
    BY <1>1 DEF RequestsGoOn, NoncesAreOwn, Others
  <2>3. ASSUME NEW d \in Client, ~hit'[d] PROVE Unhit(d)'
    <3>1. CASE d = c
      BY <1>1, <2>3, <3>1 DEF Unhit
    <3>2. CASE d # c
      <4>1. Unhit(d) /\ flow'[d] = flow[d]
        BY <1>1, <2>3, <3>2 DEF RequestsGoOn, Others
      <4>2. ASSUME NEW ch \in challenges, flow[d].step = "verify", ch.nonce = flow[d].secret
            PROVE  ch \in challenges'
        BY <1>2, <3>2, <4>2 DEF RequestsGoOn, NoncesAreOwn
      <4>. QED
        BY <4>1, <4>2 DEF Unhit, Authenticated
    <3>. QED
      BY <3>1, <3>2
  <2>. QED
    BY <2>1, <2>2, <2>3 DEF RequestsGoOn
<1>. QED
  BY <1>3, <1>4, <1>5, <1>7, <1>8, <1>9, <1>10

\* A request that ends, with nothing done at the server.
LEMMA EndKeeps ==
  ASSUME AuthInv, NEW c \in Client, NEW result, End(c, result), result \in {"ok", "error", "refused"},
         flow[c].step \notin {"wait", "rotate"},
         UNCHANGED <<now, challenges, sponsor, access, refresh_tokens, revoked, families, nonces, issued,
                     handlers, session, sent, duplicated, late>>,
         hit' \in [Client -> BOOLEAN], result = "ok" \/ hit'[c],
         \A d \in Client : d # c => hit'[d] = hit[d]
  PROVE  AuthInv'
<1>1. RefreshOnce' /\ NonceOnce'
  BY DEF AuthInv, RefreshOnce, NonceOnce, OneFamilyPerChallenge
<1>2. Fading(c)
  <2>1. \A g \in handlers : g = [client |-> g.client, step |-> g.step, secret |-> g.secret, live |-> g.live]
    BY DEF AuthInv, AuthTypes
  <2>. QED
    BY <2>1, HandlerIs DEF Fading, AuthInv, ClientsWait
<1>. QED
  BY <1>1, <1>2, EndFades

\* add_device, by a device that is admitted.
LEMMA AddDeviceIs ==
  ASSUME AuthInv, NEW c \in Client, sponsor[c] # Nil, NEW other \in Client
  PROVE  \/ AddDevice(other, c) = sponsor
         \/ sponsor[other] = Nil /\ other # c /\ AddDevice(other, c) = [sponsor EXCEPT ![other] = c]
  BY DEF AddDevice, Admission

\* A request whose token is good: it is served, or goes on to add_device.
LEMMA SendServed ==
  ASSUME AuthInv, NEW c \in Client, Send(c), Authenticated(session[c])
  PROVE  AuthInv'
<1> USE DEF AuthInv
<1>1. /\ flow[c].step = "send"
      /\ IF flow[c].admits = Nil THEN End(c, "ok") ELSE Proceed(c, "serve") /\ UNCHANGED outcome
      /\ UNCHANGED <<now, challenges, sponsor, access, refresh_tokens, revoked, families, nonces, issued,
                     handlers, session, sent, duplicated, late, hit>>
  BY DEF Send, tables
<1>2. CASE flow[c].admits = Nil
  BY <1>1, <1>2, EndKeeps DEF AuthTypes
<1>3. CASE flow[c].admits # Nil
  <2>1. flow[c] # Resting /\ sponsor[c] # Nil /\ flow[c].admits \in Client
    BY <1>1, <1>3, FlowIs DEF HoldersAreAdmitted, AuthFlow
  <2>2. Proceed(c, "serve") /\ UNCHANGED outcome
    BY <1>1, <1>3
  <2>3. /\ Others(c) /\ flow' \in [Client -> {Resting} \cup AuthFlow] /\ flow'[c].step = "serve"
        /\ flow'[c].admits = flow[c].admits
    BY <2>1, <2>2, ProceedIs
  <2>4. AuthTypes'
    BY <1>1, <2>2, <2>3 DEF AuthTypes
  <2>5. RefreshOnce' /\ RevokedHasNoAccess' /\ NonceOnce'
    BY <1>1 DEF RefreshOnce, RevokedHasNoAccess, NonceOnce, OneFamilyPerChallenge
  <2>6. HoldersAreAdmitted'
    BY <1>1, <2>1, <2>3 DEF HoldersAreAdmitted, Others
  <2>7. \A d \in Client : Held(d)' = Held(d) /\ Presented(d)' \subseteq Presented(d)
    BY <1>1, <2>3 DEF Held, Presented, Others
  <2>8. TokensHeldOnce'
    BY <1>1, <2>7 DEF TokensHeldOnce
  <2>9. OwnFamilies'
    BY <1>1, <2>7 DEF OwnFamilies
  <2>10. ClientsWait'
    BY <1>1, <2>3, HandlerIs DEF ClientsWait, Others
  <2>11. RequestsGoOn'
    <3>1. MemberIsServed'
      BY <1>1, <2>2 DEF RequestsGoOn, MemberIsServed
    <3>2. NoncesAreOwn'
      BY <1>1, <2>3 DEF RequestsGoOn, NoncesAreOwn, Others
    <3>3. ASSUME NEW d \in Client PROVE hit'[d] \/ Unhit(d)'
      BY <1>1, <2>1, <2>3 DEF RequestsGoOn, Unhit, Others, Authenticated
    <3>. QED
      BY <3>1, <3>2, <3>3 DEF RequestsGoOn
  <2>. QED
    BY <2>4, <2>5, <2>6, <2>8, <2>9, <2>10, <2>11
<1>. QED
  BY <1>2, <1>3

\* add_device: its transaction, and the end of the request.
LEMMA ServeKeeps ==
  ASSUME AuthInv, NEW c \in Client, NEW delivered \in BOOLEAN, Serve(c, delivered)
  PROVE  AuthInv'
<1> USE DEF AuthInv
<1> DEFINE result == IF delivered THEN "ok" ELSE "error"
<1>1. /\ flow[c].step = "serve" /\ End(c, result)
      /\ sponsor' = AddDevice(flow[c].admits, c)
      /\ UNCHANGED <<now, challenges, access, refresh_tokens, revoked, families, nonces, issued,
                     handlers, session, sent, duplicated, late>>
      /\ hit' \in [Client -> BOOLEAN] /\ (result = "ok" \/ hit'[c])
      /\ \A d \in Client : d # c => hit'[d] = hit[d]
      /\ result \in {"ok", "error", "refused"}
  BY DEF Serve, Hit, AuthTypes
<1> HIDE DEF result
<1>2. sponsor[c] # Nil /\ flow[c].admits \in Client
  BY <1>1 DEF HoldersAreAdmitted
<1>3. sponsor' = sponsor \/ \E o \in Client : sponsor[o] = Nil /\ o # c /\ sponsor' = [sponsor EXCEPT ![o] = c]
  BY <1>1, <1>2, AddDeviceIs
<1>4. CASE sponsor' = sponsor
  BY <1>1, <1>4, EndKeeps DEF AuthTypes
<1>5. CASE \E o \in Client : sponsor[o] = Nil /\ o # c /\ sponsor' = [sponsor EXCEPT ![o] = c]
  <2>1. PICK o \in Client : sponsor[o] = Nil /\ o # c /\ sponsor' = [sponsor EXCEPT ![o] = c]
    BY <1>5
  <2>2. /\ sponsor' \in [Client -> Client \cup {Nil}] /\ sponsor'[o] = c
        /\ \A d \in Client : d # o => sponsor'[d] = sponsor[d]
        /\ \A d \in Client : sponsor[d] # Nil => sponsor'[d] = sponsor[d]
    BY <2>1 DEF AuthTypes
  <2>3. /\ Others(c) /\ flow' \in [Client -> {Resting} \cup AuthFlow]
        /\ flow'[c] = Resting /\ flow'[c].step = "idle"
        /\ outcome' \in [Client -> {Nil, "ok", "error", "refused"}] /\ outcome'[c] = result
        /\ \A d \in Client : d # c => outcome'[d] = outcome[d]
    BY <1>1, EndIs
  <2>4. AuthTypes'
    BY <1>1, <2>2, <2>3 DEF AuthTypes
  <2>5. RefreshOnce' /\ RevokedHasNoAccess' /\ NonceOnce'
    BY <1>1 DEF RefreshOnce, RevokedHasNoAccess, NonceOnce, OneFamilyPerChallenge
  <2>6. HoldersAreAdmitted'
    <3>1. \A d, e \in Client : sponsor'[d] = d /\ sponsor'[e] = e => d = e
      BY <2>1, <2>2 DEF HoldersAreAdmitted
    <3>2. \A d \in Client : sponsor'[d] # Nil => sponsor'[sponsor'[d]] # Nil
      BY <1>2, <2>1, <2>2, AuthAssumption DEF HoldersAreAdmitted, AuthTypes
    <3>3. ASSUME NEW d \in Client
          PROVE  /\ session'[d] # Nil \/ flow'[d].step \in {"refresh", "serve"} => sponsor'[d] # Nil
                 /\ flow'[d].step = "serve" => flow'[d].admits \in Client
                 /\ flow'[d].step = "send" => session'[d] # Nil
      BY <1>1, <2>2, <2>3 DEF HoldersAreAdmitted, Others
    <3>4. /\ \A h \in handlers : h.step \in {"open", "issue"} => sponsor'[h.client] # Nil
          /\ \A m \in sent : m.kind = "refresh" => sponsor'[m.client] # Nil
      BY <2>2, HandlerIs DEF HoldersAreAdmitted
    <3>. QED
      BY <1>1, <3>1, <3>2, <3>3, <3>4 DEF HoldersAreAdmitted
  <2>7. \A d \in Client : Held(d)' = Held(d) /\ Presented(d)' \subseteq Presented(d)
    BY <1>1, <2>3 DEF Held, Presented, Others
  <2>8. TokensHeldOnce'
    BY <1>1, <2>7 DEF TokensHeldOnce
  <2>9. OwnFamilies'
    BY <1>1, <2>7 DEF OwnFamilies
  <2>10. ClientsWait'
    BY <1>1, <2>3, HandlerIs DEF ClientsWait, Others
  <2>11. RequestsGoOn'
    <3>1. MemberIsServed'
      BY <1>1, <2>3 DEF RequestsGoOn, MemberIsServed
    <3>2. NoncesAreOwn'
      BY <1>1, <2>3 DEF RequestsGoOn, NoncesAreOwn, Others
    <3>3. ASSUME NEW d \in Client PROVE hit'[d] \/ Unhit(d)'
      BY <1>1, <2>1, <2>2, <2>3 DEF RequestsGoOn, Unhit, Others, Authenticated
    <3>. QED
      BY <3>1, <3>2, <3>3 DEF RequestsGoOn
  <2>. QED
    BY <2>4, <2>5, <2>6, <2>8, <2>9, <2>10, <2>11
<1>. QED
  BY <1>3, <1>4, <1>5

\* The first 401: the pair is taken from the session and presented.
LEMMA SendRefused ==
  ASSUME AuthInv, NEW c \in Client, Send(c), ~Authenticated(session[c]), ~flow[c].retry
  PROVE  AuthInv'
<1> USE DEF AuthInv
<1> DEFINE token == session[c]
           m == [kind |-> "refresh", secret |-> token, client |-> c]
<1>1. /\ flow[c].step = "send" /\ session' = [session EXCEPT ![c] = Nil]
      /\ flow' = [flow EXCEPT ![c].step = "refresh", ![c].retry = TRUE, ![c].secret = token]
      /\ sent' \subseteq sent \cup {m}
      /\ UNCHANGED <<now, challenges, sponsor, access, refresh_tokens, revoked, families, nonces, issued,
                     handlers, duplicated, late, hit, outcome>>
  BY DEF Send, AfterRefused, Sending, tables
<1>2. token # Nil /\ sponsor[c] # Nil /\ token \in 1 .. issued /\ token \in Nat /\ flow[c] \in AuthFlow
  <2>1. token # Nil /\ sponsor[c] # Nil
    BY <1>1 DEF HoldersAreAdmitted
  <2>2. issued \in Nat /\ token \in 1 .. issued \cup {Nil}
    BY DEF AuthTypes
  <2>3. flow[c] \in AuthFlow
    BY <1>1, FlowIs
  <2>. QED
    BY <2>1, <2>2, <2>3
<1>3. /\ Others(c) /\ flow' \in [Client -> {Resting} \cup AuthFlow] /\ flow'[c] # Resting
      /\ flow'[c].step = "refresh" /\ flow'[c].secret = token
  <2>1. flow' = [flow EXCEPT ![c] = [flow[c] EXCEPT !.step = "refresh", !.retry = TRUE, !.secret = token]]
    BY <1>1
  <2> DEFINE new == [flow[c] EXCEPT !.step = "refresh", !.retry = TRUE, !.secret = token]
  <2>2. new \in AuthFlow /\ new.step = "refresh" /\ new.secret = token /\ Resting.step # "refresh"
    BY <1>2 DEF AuthFlow, Resting
  <2> HIDE DEF new
  <2>. QED
    BY <2>1, <2>2 DEF AuthTypes, Others, new
<1>4. /\ session'[c] = Nil /\ \A d \in Client : d # c => session'[d] = session[d]
      /\ session' \in [Client -> 1 .. issued \cup {Nil}]
  BY <1>1 DEF AuthTypes
<1>5. AuthTypes'
  <2>1. sent' \subseteq [kind : {"verify"}, secret : 1 .. nonces, client : Client]
                  \cup [kind : {"refresh"}, secret : 1 .. issued, client : Client]
    BY <1>1, <1>2 DEF AuthTypes
  <2>. QED
    BY <1>1, <1>3, <1>4, <2>1 DEF AuthTypes
<1>6. RefreshOnce' /\ RevokedHasNoAccess' /\ NonceOnce'
  BY <1>1 DEF RefreshOnce, RevokedHasNoAccess, NonceOnce, OneFamilyPerChallenge
<1>7. HoldersAreAdmitted'
  BY <1>1, <1>2, <1>3, <1>4 DEF HoldersAreAdmitted, Others
<1>8. /\ Held(c)' = {} /\ Presented(c)' = {token} /\ Held(c) = {token} /\ Presented(c) = {}
      /\ \A d \in Client : d # c => Held(d)' = Held(d) /\ Presented(d)' = Presented(d)
  BY <1>1, <1>2, <1>3, <1>4 DEF Held, Presented, Others
<1>9. TokensHeldOnce'
  <2>1. \A d, e \in Client :
          /\ Held(d)' \cap Presented(e)' = {}
          /\ d # e => Held(d)' \cap Held(e)' = {} /\ Presented(d)' \cap Presented(e)' = {}
    BY <1>8 DEF TokensHeldOnce
  <2>2. \A d \in Client : Presented(d)' \subseteq 1 .. issued
    BY <1>2, <1>8 DEF TokensHeldOnce
  <2>3. \A d \in Client : Held(d)' \cup Presented(d)' = Held(d) \cup Presented(d)
    BY <1>8
  <2>. QED
    BY <1>1, <2>1, <2>2, <2>3 DEF TokensHeldOnce
<1>10. ClientsWait'
  BY <1>1, <1>3, HandlerIs DEF ClientsWait, Others
<1>11. OwnFamilies'
  <2>1. \A d \in Client : Held(d)' \cup Presented(d)' = Held(d) \cup Presented(d)
    BY <1>8
  <2>2. ASSUME NEW x \in sent', NEW r \in refresh_tokens, x.kind = "refresh", r.id = x.secret
        PROVE  families[r.family].client = x.client
    <3>1. CASE x \in sent
      BY <2>2, <3>1 DEF OwnFamilies
    <3>2. CASE x = m
      BY <1>8, <2>2, <3>2 DEF OwnFamilies
    <3>. QED
      BY <1>1, <3>1, <3>2
  <2>. QED
    BY <1>1, <2>1, <2>2 DEF OwnFamilies
<1>12. RequestsGoOn'
  <2>1. MemberIsServed'
    BY <1>1 DEF RequestsGoOn, MemberIsServed
  <2>2. NoncesAreOwn'
    BY <1>1, <1>3 DEF RequestsGoOn, NoncesAreOwn, Others
  <2>3. ASSUME NEW d \in Client PROVE hit'[d] \/ Unhit(d)'
    BY <1>1, <1>2, <1>3, <1>4 DEF RequestsGoOn, Unhit, Others, Authenticated
  <2>. QED
    BY <2>1, <2>2, <2>3 DEF RequestsGoOn
<1>. QED
  BY <1>5, <1>6, <1>7, <1>9, <1>10, <1>11, <1>12

LEMMA SendKeeps ==
  ASSUME AuthInv, NEW c \in Client, Send(c)
  PROVE  AuthInv'
<1>1. CASE ~Authenticated(session[c]) /\ flow[c].retry
  <2>1. /\ End(c, "refused") /\ flow[c].step = "send"
        /\ UNCHANGED <<now, challenges, sponsor, access, refresh_tokens, revoked, families, nonces, issued,
                       handlers, session, sent, duplicated, late, hit>>
    BY <1>1 DEF Send, tables
  <2>2. hit[c] /\ hit \in [Client -> BOOLEAN]
    BY <1>1, <2>1 DEF AuthInv, AuthTypes, RequestsGoOn, Unhit
  <2>. QED
    BY <2>1, <2>2, EndKeeps
<1>. QED
  BY <1>1, SendServed, SendRefused

LEMMA LostKeeps ==
  ASSUME AuthInv, NEW c \in Client, RequestLost(c)
  PROVE  AuthInv'
<1> USE DEF AuthInv
<1>1. /\ flow[c].step \in {"send", "challenge", "verify", "refresh"}
      /\ hit' \in [Client -> BOOLEAN] /\ hit'[c] /\ \A d \in Client : d # c => hit'[d] = hit[d]
      /\ UNCHANGED <<now, challenges, sponsor, access, refresh_tokens, revoked, families, nonces, issued,
                     handlers, session, sent, duplicated, late>>
  BY DEF RequestLost, Hit, AuthTypes, tables
<1>2. CASE flow[c].step # "refresh"
  <2>1. End(c, "error")
    BY <1>2 DEF RequestLost
  <2>. QED
    BY <1>1, <2>1, EndKeeps
<1>3. CASE flow[c].step = "refresh"
  <2>1. Proceed(c, "challenge") /\ UNCHANGED outcome
    BY <1>3 DEF RequestLost, AfterRefresh
  <2>2. flow[c] # Resting
    BY <1>3, FlowIs
  <2>3. /\ Others(c) /\ flow' \in [Client -> {Resting} \cup AuthFlow] /\ flow'[c].step = "challenge"
    BY <2>1, <2>2, ProceedIs
  <2>4. AuthTypes'
    BY <1>1, <2>1, <2>3 DEF AuthTypes
  <2>5. RefreshOnce' /\ RevokedHasNoAccess' /\ NonceOnce'
    BY <1>1 DEF RefreshOnce, RevokedHasNoAccess, NonceOnce, OneFamilyPerChallenge
  <2>6. HoldersAreAdmitted'
    BY <1>1, <2>3 DEF HoldersAreAdmitted, Others
  <2>7. \A d \in Client : Held(d)' = Held(d) /\ Presented(d)' \subseteq Presented(d)
    BY <1>1, <2>3 DEF Held, Presented, Others
  <2>8. TokensHeldOnce'
    BY <1>1, <2>7 DEF TokensHeldOnce
  <2>9. OwnFamilies'
    BY <1>1, <2>7 DEF OwnFamilies
  <2>10. ClientsWait'
    BY <1>1, <1>3, <2>3, HandlerIs DEF ClientsWait, Others
  <2>11. RequestsGoOn'
    <3>1. MemberIsServed'
      BY <1>1, <2>1 DEF RequestsGoOn, MemberIsServed
    <3>2. NoncesAreOwn'
      BY <1>1, <2>3 DEF RequestsGoOn, NoncesAreOwn, Others
    <3>3. ASSUME NEW d \in Client PROVE hit'[d] \/ Unhit(d)'
      BY <1>1, <2>3 DEF RequestsGoOn, Unhit, Others, Authenticated
    <3>. QED
      BY <3>1, <3>2, <3>3 DEF RequestsGoOn
  <2>. QED
    BY <2>4, <2>5, <2>6, <2>8, <2>9, <2>10, <2>11
<1>. QED
  BY <1>2, <1>3

LEMMA DroppedKeeps ==
  ASSUME AuthInv, NEW c \in Client, RequestDropped(c)
  PROVE  AuthInv'
<1> USE DEF AuthInv
<1>1. /\ End(c, "error") /\ handlers' = Dropped(c)
      /\ hit' \in [Client -> BOOLEAN] /\ hit'[c] /\ \A d \in Client : d # c => hit'[d] = hit[d]
      /\ UNCHANGED <<now, challenges, sponsor, access, refresh_tokens, revoked, families, nonces, issued,
                     session, sent, duplicated, late>>
  BY DEF RequestDropped, Hit, AuthTypes, tables
<1>2. ASSUME NEW g \in handlers'
      PROVE  \E h \in handlers :
               /\ g = [client |-> h.client, step |-> h.step, secret |-> h.secret, live |-> g.live]
               /\ g.live \in BOOLEAN
               /\ h.client = c => ~g.live
               /\ h.client # c => g = h
  <2>1. PICK h \in handlers : g = IF h.client = c THEN [h EXCEPT !.live = FALSE] ELSE h
    BY <1>1, <1>2 DEF Dropped
  <2>2. h = [client |-> h.client, step |-> h.step, secret |-> h.secret, live |-> h.live] /\ h.live \in BOOLEAN
    BY DEF AuthTypes
  <2>3. [h EXCEPT !.live = FALSE] = [client |-> h.client, step |-> h.step, secret |-> h.secret, live |-> FALSE]
    <3> DEFINE e == [h EXCEPT !.live = FALSE]
               K == [client : Client, step : Verifying, secret : 1 .. nonces, live : BOOLEAN]
               L == [client : Client, step : {"issue"}, secret : DOMAIN families, live : BOOLEAN]
    <3>1. e \in K \cup L /\ e.client = h.client /\ e.step = h.step /\ e.secret = h.secret /\ e.live = FALSE
      <4>1. h \in K \/ h \in L
        BY DEF AuthTypes
      <4>. QED
        BY <4>1
    <3>2. e = [client |-> e.client, step |-> e.step, secret |-> e.secret, live |-> e.live]
      <4> HIDE DEF e
      <4>. QED
        BY <3>1
    <3> HIDE DEF e
    <3>3. e = [client |-> h.client, step |-> h.step, secret |-> h.secret, live |-> FALSE]
      BY <3>1, <3>2
    <3>. QED
      BY <3>3 DEF e
  <2>. QED
    BY <2>1, <2>2, <2>3
<1>3. Fading(c)
  BY <1>2 DEF Fading
<1>4. ASSUME NEW f \in handlers', NEW g \in handlers', f.client = g.client, f.step = g.step, f.secret = g.secret
      PROVE  f = g
  <2>1. PICK h \in handlers : /\ f = [client |-> h.client, step |-> h.step, secret |-> h.secret, live |-> f.live]
                              /\ f.live \in BOOLEAN
                              /\ h.client = c => ~f.live
                              /\ h.client # c => f = h
    BY <1>2
  <2>2. PICK k \in handlers : /\ g = [client |-> k.client, step |-> k.step, secret |-> k.secret, live |-> g.live]
                              /\ g.live \in BOOLEAN
                              /\ k.client = c => ~g.live
                              /\ k.client # c => g = k
    BY <1>2
  <2>3. h.client = k.client /\ h.step = k.step /\ h.secret = k.secret
    BY <1>4, <2>1, <2>2
  <2>4. h = k
    BY <2>3, HandlerIs DEF RefreshOnce, NonceOnce
  <2>5. f.live = g.live
    BY <2>1, <2>2, <2>4
  <2>. QED
    BY <2>1, <2>2, <2>3, <2>5
<1>5. \A f, g \in handlers' : \E h, k \in handlers :
        /\ f.client = h.client /\ f.step = h.step /\ f.secret = h.secret
        /\ g.client = k.client /\ g.step = k.step /\ g.secret = k.secret
        /\ h = k => f = g
  <2>1. \A f \in handlers' : \E h \in handlers : f.client = h.client /\ f.step = h.step /\ f.secret = h.secret
    BY <1>2
  <2>. QED
    BY <1>4, <2>1
<1>6. RefreshOnce'
  <2>1. \A h, g \in handlers' : h.step = "issue" /\ g.step = "issue" /\ h.secret = g.secret => h = g
    BY <1>5 DEF RefreshOnce
  <2>2. \A r \in refresh_tokens, g \in handlers' : ~r.consumed /\ g.step = "issue" => g.secret # r.family
    BY <1>5 DEF RefreshOnce
  <2>. QED
    BY <1>1, <2>1, <2>2 DEF RefreshOnce
<1>7. NonceOnce'
  <2>1. \A h, g \in handlers' : h.step \in Verifying /\ g.step \in Verifying /\ h.secret = g.secret => h = g
    BY <1>5 DEF NonceOnce
  <2>2. \A g \in handlers' : g.step \in Verifying =>
          /\ \A ch \in challenges : ch.nonce # g.secret
          /\ \A f \in DOMAIN families : families[f].nonce # g.secret
    BY <1>5 DEF NonceOnce
  <2>. QED
    BY <1>1, <2>1, <2>2 DEF NonceOnce, OneFamilyPerChallenge
<1>. QED
  BY <1>1, <1>3, <1>6, <1>7, EndFades

LEMMA ChallengeKeeps ==
  ASSUME AuthInv, NEW c \in Client, Challenge(c)
  PROVE  AuthInv'
<1> USE DEF AuthInv
<1> DEFINE n == nonces + 1
           ch == [nonce |-> n, client |-> c, expires |-> now + ChallengeTtl]
           m == [kind |-> "verify", secret |-> n, client |-> c]
<1>1. /\ flow[c].step = "challenge" /\ nonces < MaxNonce /\ nonces' = n
      /\ challenges' = challenges \cup {ch}
      /\ flow' = [flow EXCEPT ![c].step = "verify", ![c].secret = n]
      /\ sent' \subseteq sent \cup {m}
      /\ UNCHANGED <<now, sponsor, access, refresh_tokens, revoked, families, issued, handlers,
                     session, outcome, hit, duplicated, late>>
  BY DEF Challenge, PutChallenge, Sending
<1>2. /\ nonces \in Nat /\ n \in 0 .. MaxNonce /\ n \in Nat /\ 1 .. nonces \subseteq 1 .. n /\ n \in 1 .. n
      /\ n \notin 1 .. nonces
      /\ now \in Nat /\ now + ChallengeTtl \in Nat /\ now + ChallengeTtl > now /\ flow[c] \in AuthFlow
  <2>1. ChallengeTtl \in Nat \ {0} /\ MaxNonce \in Nat /\ MaxTime \in Nat
    BY AuthAssumption
  <2>2. nonces \in 0 .. MaxNonce /\ now \in 0 .. MaxTime
    BY DEF AuthTypes
  <2>3. flow[c] \in AuthFlow
    BY <1>1, FlowIs
  <2>. QED
    BY <1>1, <2>1, <2>2, <2>3
<1>3. /\ Others(c) /\ flow' \in [Client -> {Resting} \cup AuthFlow] /\ flow'[c] # Resting
      /\ flow'[c].step = "verify" /\ flow'[c].secret = n
  <2> DEFINE new == [flow[c] EXCEPT !.step = "verify", !.secret = n]
  <2>1. flow' = [flow EXCEPT ![c] = new]
    BY <1>1
  <2>2. new \in AuthFlow /\ new.step = "verify" /\ new.secret = n /\ Resting.step # "verify"
    BY <1>2 DEF AuthFlow, Resting
  <2> HIDE DEF new, n
  <2>. QED
    BY <2>1, <2>2 DEF AuthTypes, Others
<1> HIDE DEF n
<1>4. AuthTypes'
  <2>1. families \in Seq([client : Client, nonce : 1 .. n])
    <3>1. [client : Client, nonce : 1 .. nonces] \subseteq [client : Client, nonce : 1 .. n]
      BY <1>2
    <3>. QED
      BY <3>1, SeqMonotonic DEF AuthTypes
  <2>2. challenges' \subseteq [nonce : 1 .. n, client : Client, expires : Nat]
    BY <1>1, <1>2 DEF AuthTypes
  <2>3. handlers \subseteq [client : Client, step : Verifying, secret : 1 .. n, live : BOOLEAN]
                   \cup [client : Client, step : {"issue"}, secret : DOMAIN families, live : BOOLEAN]
    BY <1>2 DEF AuthTypes
  <2>4. sent' \subseteq [kind : {"verify"}, secret : 1 .. n, client : Client]
                  \cup [kind : {"refresh"}, secret : 1 .. issued, client : Client]
    BY <1>1, <1>2 DEF AuthTypes
  <2>. QED
    BY <1>1, <1>2, <1>3, <2>1, <2>2, <2>3, <2>4 DEF AuthTypes
<1>5. RefreshOnce' /\ RevokedHasNoAccess'
  BY <1>1 DEF RefreshOnce, RevokedHasNoAccess
<1>6. NonceOnce'
  <2>1. \A f \in DOMAIN families : families[f].nonce \in 1 .. nonces
    BY FamilyIs
  <2>2. \A h \in handlers : h.step \in Verifying => h.secret \in 1 .. nonces
    BY HandlerIs DEF Verifying
  <2>3. ch.nonce = n
    OBVIOUS
  <2> HIDE DEF ch
  <2>. QED
    BY <1>1, <1>2, <2>1, <2>2, <2>3 DEF NonceOnce, OneFamilyPerChallenge
<1>7. HoldersAreAdmitted'
  BY <1>1, <1>3 DEF HoldersAreAdmitted, Others
<1>8. \A d \in Client : Held(d)' = Held(d) /\ Presented(d)' = Presented(d)
  BY <1>1, <1>3 DEF Held, Presented, Others
<1>9. TokensHeldOnce'
  BY <1>1, <1>8 DEF TokensHeldOnce
<1>10. OwnFamilies'
  BY <1>1, <1>8 DEF OwnFamilies
<1>11. ClientsWait'
  BY <1>1, <1>3, HandlerIs DEF ClientsWait, Others
<1>12. RequestsGoOn'
  <2>1. MemberIsServed'
    BY <1>1 DEF RequestsGoOn, MemberIsServed
  <2>2. NoncesAreOwn'
    <3>1. \A x \in sent' : x.kind = "verify" => x = m \/ (x \in sent /\ x.secret \in 1 .. nonces)
      BY <1>1, HandlerIs
    <3>2. \A d \in Client : flow[d].step = "verify" => flow[d].secret \in 1 .. nonces
      BY DEF RequestsGoOn, NoncesAreOwn
    <3>3. m.secret = n /\ m.client = c
      OBVIOUS
    <3> HIDE DEF m
    <3>4. SUFFICES ASSUME NEW d \in Client, flow'[d].step = "verify"
                   PROVE  /\ flow'[d].secret \in 1 .. n
                          /\ \A e \in Client : flow'[e].step = "verify" /\ flow'[e].secret = flow'[d].secret => e = d
                          /\ \A x \in sent' : x.kind = "verify" /\ x.secret = flow'[d].secret => x.client = d
      BY <1>1 DEF NoncesAreOwn
    <3>5. CASE d = c
      BY <1>2, <1>3, <3>1, <3>2, <3>3, <3>5 DEF Others
    <3>6. CASE d # c
      <4>1. flow'[d] = flow[d] /\ flow[d].secret \in 1 .. nonces /\ flow[d].secret # n
        BY <1>2, <1>3, <3>2, <3>4, <3>6 DEF Others
      <4>2. \A e \in Client : flow'[e].step = "verify" /\ flow'[e].secret = flow'[d].secret => e = d
        BY <1>3, <3>4, <4>1 DEF Others, RequestsGoOn, NoncesAreOwn
      <4>3. \A x \in sent' : x.kind = "verify" /\ x.secret = flow'[d].secret => x.client = d
        BY <3>1, <3>3, <3>4, <4>1 DEF RequestsGoOn, NoncesAreOwn
      <4>. QED
        BY <1>2, <4>1, <4>2, <4>3
    <3>. QED
      BY <3>5, <3>6
  <2>3. ASSUME NEW d \in Client PROVE hit'[d] \/ Unhit(d)'
    <3>1. ch.nonce = n /\ ch.client = c /\ ch.expires = now + ChallengeTtl
      OBVIOUS
    <3> HIDE DEF ch
    <3>2. CASE d = c
      <4>1. hit[d] \/ (sponsor[d] # Nil)
        BY <1>1, <3>2, FlowIs DEF RequestsGoOn, Unhit
      <4>. QED
        BY <1>1, <1>2, <1>3, <3>1, <3>2, <4>1 DEF Unhit
    <3>3. CASE d # c
      BY <1>1, <1>3, <3>3 DEF RequestsGoOn, Unhit, Others, Authenticated
    <3>. QED
      BY <3>2, <3>3
  <2>. QED
    BY <2>1, <2>2, <2>3 DEF RequestsGoOn
<1>. QED
  BY <1>4, <1>5, <1>6, <1>7, <1>9, <1>10, <1>11, <1>12

\* take_challenge: a nonce moves from the table to its one verification.
LEMMA TakeIs ==
  ASSUME AuthInv, NEW m, NEW live \in BOOLEAN, TakeChallenge(m, live), m.client \in Client
  PROVE  /\ RefreshOnce' /\ NonceOnce'
         /\ challenges' = WithoutChallenge(m.secret)
         /\ UNCHANGED <<now, sponsor, access, refresh_tokens, revoked, families, nonces, issued>>
         /\ \/ /\ handlers' = handlers
               /\ ~\E ch \in challenges : ch.nonce = m.secret /\ ch.expires > now /\ ch.client = m.client
            \/ /\ handlers' = handlers \cup {Handler(m, "lookup", live)}
               /\ m.secret \in 1 .. nonces /\ Handler(m, "lookup", live) \notin handlers
<1> USE DEF AuthInv
<1> DEFINE H == Handler(m, "lookup", live)
           Good == \E ch \in challenges : ch.nonce = m.secret /\ ch.expires > now /\ ch.client = m.client
<1>1. /\ challenges' = WithoutChallenge(m.secret)
      /\ handlers' = handlers \cup IF Good THEN {H} ELSE {}
      /\ UNCHANGED <<now, sponsor, access, refresh_tokens, revoked, families, nonces, issued>>
  BY DEF TakeChallenge
<1>2. H.step = "lookup" /\ H.secret = m.secret
  BY DEF Handler
<1>3. Good => m.secret \in 1 .. nonces /\ H \notin handlers
  BY <1>2 DEF AuthTypes, NonceOnce, Verifying
<1>4. \A ch \in challenges' : ch \in challenges /\ ch.nonce # m.secret
  BY <1>1 DEF WithoutChallenge
<1>5. Good => /\ \A h \in handlers : h.step \in Verifying => h.secret # m.secret
              /\ \A f \in DOMAIN families : families[f].nonce # m.secret
  BY DEF NonceOnce
<1> HIDE DEF Good, H
<1>6. RefreshOnce'
  BY <1>1, <1>2 DEF RefreshOnce
<1>7. NonceOnce'
  <2>1. CASE Good
    BY <1>1, <1>2, <1>4, <1>5, <2>1 DEF NonceOnce, OneFamilyPerChallenge
  <2>2. CASE ~Good
    BY <1>1, <1>4, <2>2 DEF NonceOnce, OneFamilyPerChallenge
  <2>. QED
    BY <2>1, <2>2
<1>. QED
  BY <1>1, <1>3, <1>6, <1>7 DEF Good, H

LEMMA VerifyKeeps ==
  ASSUME AuthInv, NEW c \in Client, Verify(c)
  PROVE  AuthInv'
<1> USE DEF AuthInv
<1> DEFINE m == [kind |-> "verify", secret |-> flow[c].secret, client |-> c]
           H == Handler(m, "lookup", TRUE)
<1>1. /\ flow[c].step = "verify" /\ TakeChallenge(m, TRUE)
      /\ IF handlers' # handlers THEN Proceed(c, "wait") /\ UNCHANGED outcome ELSE End(c, "refused")
      /\ UNCHANGED <<session, hit, sent, duplicated, late>>
  BY DEF Verify
<1>2. m.secret = flow[c].secret /\ m.client = c
  OBVIOUS
<1>3. H = [client |-> c, step |-> "lookup", secret |-> flow[c].secret, live |-> TRUE]
  BY DEF Handler
<1> HIDE DEF m
<1>4. /\ RefreshOnce' /\ NonceOnce'
      /\ challenges' = WithoutChallenge(flow[c].secret)
      /\ UNCHANGED <<now, sponsor, access, refresh_tokens, revoked, families, nonces, issued>>
      /\ \/ /\ handlers' = handlers
            /\ ~\E ch \in challenges : ch.nonce = flow[c].secret /\ ch.expires > now /\ ch.client = c
         \/ /\ handlers' = handlers \cup {H}
            /\ flow[c].secret \in 1 .. nonces /\ H \notin handlers
  BY <1>1, <1>2, TakeIs
<1> HIDE DEF H
<1>5. CASE handlers' = handlers
  <2>1. End(c, "refused")
    BY <1>1, <1>5
  <2>2. hit[c] /\ hit \in [Client -> BOOLEAN]
    BY <1>1, <1>4, <1>5 DEF AuthTypes, RequestsGoOn, Unhit
  <2>3. Fading(c)
    <3>1. \A g \in handlers : g = [client |-> g.client, step |-> g.step, secret |-> g.secret, live |-> g.live]
      BY DEF AuthTypes
    <3>. QED
      BY <1>1, <1>5, <3>1, HandlerIs DEF Fading, ClientsWait
  <2>. QED
    BY <1>1, <1>4, <2>1, <2>2, <2>3, EndFades
<1>6. CASE handlers' # handlers
  <2>1. handlers' = handlers \cup {H} /\ flow[c].secret \in 1 .. nonces /\ Proceed(c, "wait") /\ UNCHANGED outcome
    BY <1>1, <1>4, <1>6
  <2>2. flow[c] # Resting
    BY <1>1, FlowIs
  <2>3. /\ Others(c) /\ flow' \in [Client -> {Resting} \cup AuthFlow] /\ flow'[c].step = "wait"
    BY <2>1, <2>2, ProceedIs
  <2>4. AuthTypes'
    <3>1. H \in [client : Client, step : Verifying, secret : 1 .. nonces, live : BOOLEAN]
      BY <1>3, <2>1 DEF Verifying
    <3>2. challenges' \subseteq challenges
      BY <1>4 DEF WithoutChallenge
    <3>. QED
      BY <1>1, <1>4, <2>1, <2>3, <3>1, <3>2 DEF AuthTypes
  <2>5. RevokedHasNoAccess'
    BY <1>1, <1>4 DEF RevokedHasNoAccess
  <2>6. HoldersAreAdmitted'
    BY <1>1, <1>3, <1>4, <2>1, <2>3 DEF HoldersAreAdmitted, Others
  <2>7. \A d \in Client : Held(d)' = Held(d) /\ Presented(d)' = Presented(d)
    BY <1>1, <2>3 DEF Held, Presented, Others
  <2>8. TokensHeldOnce'
    BY <1>1, <1>4, <2>7 DEF TokensHeldOnce
  <2>9. OwnFamilies'
    BY <1>1, <1>3, <1>4, <2>1, <2>7 DEF OwnFamilies
  <2>10. ClientsWait'
    <3>1. \A h \in handlers : h.live => h.client # c /\ h.client \in Client
      BY <1>1, HandlerIs DEF ClientsWait
    <3>2. H.client = c /\ H.live = TRUE /\ H.step = "lookup"
      BY <1>3
    <3>. QED
      BY <2>1, <2>3, <3>1, <3>2 DEF ClientsWait, Others
  <2>11. RequestsGoOn'
    <3>1. MemberIsServed'
      BY <1>1, <2>1 DEF RequestsGoOn, MemberIsServed
    <3>2. NoncesAreOwn'
      BY <1>1, <1>4, <2>3 DEF RequestsGoOn, NoncesAreOwn, Others
    <3>3. ASSUME NEW d \in Client, ~hit'[d] PROVE Unhit(d)'
      <4>1. CASE d = c
        BY <1>1, <1>4, <2>2, <2>3, <3>3, <4>1 DEF RequestsGoOn, Unhit
      <4>2. CASE d # c
        <5>1. Unhit(d) /\ flow'[d] = flow[d]
          BY <1>1, <2>3, <3>3, <4>2 DEF RequestsGoOn, Others
        <5>2. ASSUME NEW ch \in challenges, flow[d].step = "verify", ch.nonce = flow[d].secret
              PROVE  ch \in challenges'
          BY <1>1, <1>4, <4>2, <5>2 DEF RequestsGoOn, NoncesAreOwn, WithoutChallenge
        <5>. QED
          BY <1>1, <1>4, <5>1, <5>2 DEF Unhit, Authenticated
      <4>. QED
        BY <4>1, <4>2
    <3>. QED
      BY <3>1, <3>2, <3>3 DEF RequestsGoOn
  <2>. QED
    BY <1>4, <2>4, <2>5, <2>6, <2>8, <2>9, <2>10, <2>11
<1>. QED
  BY <1>5, <1>6

\* Devices are admitted, never removed, and one of them founded.
SponsorsGrow ==
  /\ sponsor' \in [Client -> Client \cup {Nil}]
  /\ \A d \in Client : sponsor[d] # Nil => sponsor'[d] # Nil
  /\ \A d, e \in Client : sponsor'[d] = d /\ sponsor'[e] = e => d = e
  /\ \A d \in Client : sponsor'[d] # Nil => sponsor'[sponsor'[d]] # Nil

\* A verification that goes on to its next transaction.
LEMMA MoveKeeps ==
  ASSUME AuthInv, NEW h \in handlers, h.step \in Verifying, NEW step \in Verifying, SponsorsGrow,
         step = "open" => sponsor'[h.client] # Nil,
         handlers' = (handlers \ {h}) \cup {[h EXCEPT !.step = step]},
         UNCHANGED <<now, challenges, access, refresh_tokens, revoked, families, nonces, issued,
                     session, flow, outcome, hit, sent, duplicated, late>>
  PROVE  AuthInv'
<1> USE DEF AuthInv
<1> DEFINE g == [h EXCEPT !.step = step]
           K == [client : Client, step : Verifying, secret : 1 .. nonces, live : BOOLEAN]
<1>1. h \in K
  BY HandlerIs DEF AuthTypes, Verifying
<1>2. g \in K /\ g.client = h.client /\ g.step = step /\ g.secret = h.secret /\ g.live = h.live
  BY <1>1
<1>3. handlers' = (handlers \ {h}) \cup {g}
  OBVIOUS
<1>4. "issue" \notin Verifying
  BY DEF Verifying
<1> HIDE DEF g
<1>5. AuthTypes'
  BY <1>2, <1>3 DEF AuthTypes, SponsorsGrow
<1>6. RefreshOnce' /\ RevokedHasNoAccess'
  BY <1>2, <1>3, <1>4 DEF RefreshOnce, RevokedHasNoAccess
<1>7. NonceOnce'
  BY <1>2, <1>3 DEF NonceOnce, OneFamilyPerChallenge
<1>8. HoldersAreAdmitted'
  <2>1. \A x \in handlers' : x.step \in {"open", "issue"} => sponsor'[x.client] # Nil
    BY <1>2, <1>3, <1>4, HandlerIs DEF HoldersAreAdmitted, SponsorsGrow
  <2>2. \A m \in sent : m.kind = "refresh" => sponsor'[m.client] # Nil
    BY HandlerIs DEF HoldersAreAdmitted, SponsorsGrow
  <2>. QED
    BY <2>1, <2>2 DEF HoldersAreAdmitted, SponsorsGrow
<1>9. \A d \in Client : Held(d)' = Held(d) /\ Presented(d)' = Presented(d)
  BY DEF Held, Presented
<1>10. TokensHeldOnce'
  BY <1>9 DEF TokensHeldOnce
<1>11. OwnFamilies'
  BY <1>2, <1>3, <1>4, <1>9 DEF OwnFamilies
<1>12. ClientsWait'
  BY <1>2, <1>3, <1>4 DEF ClientsWait
<1>13. RequestsGoOn'
  <2>1. MemberIsServed' /\ NoncesAreOwn'
    BY DEF RequestsGoOn, MemberIsServed, NoncesAreOwn
  <2>2. ASSUME NEW d \in Client PROVE hit'[d] \/ Unhit(d)'
    BY DEF RequestsGoOn, Unhit, Authenticated, SponsorsGrow
  <2>. QED
    BY <2>1, <2>2 DEF RequestsGoOn
<1>. QED
  BY <1>5, <1>6, <1>7, <1>8, <1>10, <1>11, <1>12, <1>13

LEMMA LookupKeeps ==
  ASSUME AuthInv, NEW h \in handlers, Lookup(h)
  PROVE  AuthInv'
<1> DEFINE step == IF KnownDevice(h.client) THEN "open" ELSE "admit"
<1>1. /\ h.step \in Verifying /\ step \in Verifying
      /\ handlers' = (handlers \ {h}) \cup {[h EXCEPT !.step = step]}
      /\ UNCHANGED <<now, challenges, sponsor, access, refresh_tokens, revoked, families, nonces, issued,
                     session, flow, outcome, hit, sent, duplicated, late>>
  BY DEF Lookup, Verifying, tables
<1>2. step = "open" => sponsor'[h.client] # Nil
  BY <1>1 DEF KnownDevice
<1>3. SponsorsGrow
  BY <1>1 DEF SponsorsGrow, AuthInv, AuthTypes, HoldersAreAdmitted
<1> HIDE DEF step
<1>. QED
  BY <1>1, <1>2, <1>3, MoveKeeps

\* A handler that ends with nothing said to its client.
LEMMA GoneKeeps ==
  ASSUME AuthInv, NEW h \in handlers, handlers' = handlers \ {h},
         UNCHANGED <<now, challenges, sponsor, access, refresh_tokens, revoked, families, nonces, issued,
                     session, flow, outcome, hit, sent, duplicated, late>>
  PROVE  AuthInv'
<1> USE DEF AuthInv
<1>1. AuthTypes'
  BY DEF AuthTypes
<1>2. RefreshOnce' /\ NonceOnce'
  BY DEF RefreshOnce, NonceOnce, OneFamilyPerChallenge
<1>3. RevokedHasNoAccess' /\ HoldersAreAdmitted'
  BY DEF RevokedHasNoAccess, HoldersAreAdmitted
<1>4. \A d \in Client : Held(d)' = Held(d) /\ Presented(d)' = Presented(d)
  BY DEF Held, Presented
<1>5. TokensHeldOnce' /\ OwnFamilies'
  BY <1>4 DEF TokensHeldOnce, OwnFamilies
<1>6. ClientsWait'
  BY DEF ClientsWait
<1>7. RequestsGoOn'
  BY DEF RequestsGoOn, MemberIsServed, NoncesAreOwn, Unhit, Authenticated
<1>. QED
  BY <1>1, <1>2, <1>3, <1>5, <1>6, <1>7

\* A rotation that is refused after its token was consumed: the client turns to a challenge.
LEMMA RotationRefused ==
  ASSUME AuthInv, NEW h \in handlers, h.live, h.step = "issue", handlers' = handlers \ {h},
         Proceed(h.client, "challenge"), Hit(h.client), UNCHANGED outcome,
         UNCHANGED <<now, challenges, sponsor, access, refresh_tokens, revoked, families, nonces, issued,
                     session, sent, duplicated, late>>
  PROVE  AuthInv'
<1> USE DEF AuthInv
<1> DEFINE c == h.client
<1>1. c \in Client /\ flow[c].step = "rotate" /\ flow[c] # Resting
  BY HandlerIs, FlowIs DEF ClientsWait
<1>2. /\ Others(c) /\ flow' \in [Client -> {Resting} \cup AuthFlow] /\ flow'[c].step = "challenge"
  BY <1>1, ProceedIs
<1>3. hit' \in [Client -> BOOLEAN] /\ hit'[c] /\ \A d \in Client : d # c => hit'[d] = hit[d]
  BY <1>1 DEF Hit, AuthTypes
<1>4. \A g \in handlers' : g \in handlers /\ (g.live => g.client # c)
  BY <1>1, HandlerIs DEF ClientsWait
<1> HIDE DEF c
<1>5. AuthTypes'
  BY <1>2, <1>3, <1>4 DEF AuthTypes
<1>6. RefreshOnce' /\ RevokedHasNoAccess' /\ NonceOnce'
  BY <1>4 DEF RefreshOnce, RevokedHasNoAccess, NonceOnce, OneFamilyPerChallenge
<1>7. HoldersAreAdmitted'
  BY <1>1, <1>2, <1>4 DEF HoldersAreAdmitted, Others
<1>8. \A d \in Client : Held(d)' = Held(d) /\ Presented(d)' \subseteq Presented(d)
  BY <1>1, <1>2 DEF Held, Presented, Others
<1>9. TokensHeldOnce'
  BY <1>8 DEF TokensHeldOnce
<1>10. OwnFamilies'
  BY <1>4, <1>8 DEF OwnFamilies
<1>11. ClientsWait'
  BY <1>2, <1>4, HandlerIs DEF ClientsWait, Others
<1>12. RequestsGoOn'
  <2>1. MemberIsServed'
    BY <1>3 DEF RequestsGoOn, MemberIsServed
  <2>2. NoncesAreOwn'
    BY <1>1, <1>2 DEF RequestsGoOn, NoncesAreOwn, Others
  <2>3. ASSUME NEW d \in Client PROVE hit'[d] \/ Unhit(d)'
    BY <1>2, <1>3 DEF RequestsGoOn, Unhit, Others, Authenticated
  <2>. QED
    BY <2>1, <2>2, <2>3 DEF RequestsGoOn
<1>. QED
  BY <1>5, <1>6, <1>7, <1>9, <1>10, <1>11, <1>12

LEMMA TurnedAwayKeeps ==
  ASSUME AuthInv, NEW h \in handlers, TurnedAway(h)
  PROVE  AuthInv'
<1> USE DEF AuthInv
<1> DEFINE c == h.client
<1>1. /\ h.step \in {"admit", "issue"} /\ c \in Client /\ handlers' = handlers \ {h}
      /\ UNCHANGED <<now, challenges, sponsor, access, refresh_tokens, revoked, families, nonces, issued,
                     session, sent, duplicated, late>>
  BY HandlerIs DEF TurnedAway, tables
<1>2. CASE ~h.live
  <2>1. UNCHANGED <<flow, outcome, hit>>
    BY <1>2 DEF TurnedAway
  <2>. QED
    BY <1>1, <2>1, GoneKeeps
<1>3. CASE h.live /\ h.step = "issue"
  <2>1. Hit(c) /\ Proceed(c, "challenge") /\ UNCHANGED outcome
    BY <1>3 DEF TurnedAway, AfterRefresh
  <2>. QED
    BY <1>1, <1>3, <2>1, RotationRefused
<1>4. CASE h.live /\ h.step = "admit"
  <2>1. Hit(c) /\ End(c, "refused")
    BY <1>4 DEF TurnedAway
  <2>2. hit' \in [Client -> BOOLEAN] /\ hit'[c] /\ \A d \in Client : d # c => hit'[d] = hit[d]
    BY <1>1, <2>1 DEF Hit, AuthTypes
  <2>3. RefreshOnce' /\ NonceOnce'
    BY <1>1 DEF RefreshOnce, NonceOnce, OneFamilyPerChallenge
  <2>4. Fading(c)
    <3>1. \A g \in handlers : g = [client |-> g.client, step |-> g.step, secret |-> g.secret, live |-> g.live]
      BY DEF AuthTypes
    <3>. QED
      BY <1>1, <1>4, <3>1, HandlerIs DEF Fading, ClientsWait
  <2> HIDE DEF c
  <2>. QED
    BY <1>1, <2>1, <2>2, <2>3, <2>4, EndFades
<1>. QED
  BY <1>1, <1>2, <1>3, <1>4

LEMMA AdmitKeeps ==
  ASSUME AuthInv, NEW h \in handlers, Admit(h)
  PROVE  AuthInv'
<1> USE DEF AuthInv
<1> DEFINE c == h.client
           admission == Admission(c, Nil)
<1>1. /\ h.step = "admit" /\ h.step \in Verifying /\ c \in Client /\ "open" \in Verifying
      /\ UNCHANGED <<now, challenges, access, refresh_tokens, revoked, families, nonces, issued,
                     session, hit, sent, duplicated, late>>
      /\ sponsor' = [sponsor EXCEPT ![c] = IF admission = "Bootstrapped" THEN c ELSE @]
  BY HandlerIs DEF Admit, Verifying
<1>2. sponsor \in [Client -> Client \cup {Nil}]
  BY DEF AuthTypes
<1>3. /\ admission = "Bootstrapped" => \A d \in Client : sponsor[d] = Nil
      /\ admission \in {"AlreadyPresent", "Bootstrapped", "NeedsSponsor"}
      /\ admission = "AlreadyPresent" <=> sponsor[c] # Nil
  BY <1>1 DEF Admission
<1>4. SponsorsGrow
  <2>1. CASE admission = "Bootstrapped"
    <3>1. sponsor'[c] = c /\ (\A d \in Client : d # c => sponsor'[d] = Nil)
             /\ sponsor' \in [Client -> Client \cup {Nil}]
      BY <1>1, <1>2, <1>3, <2>1
    <3>. QED
      BY <1>1, <1>3, <2>1, <3>1, AuthAssumption DEF SponsorsGrow
  <2>2. CASE admission # "Bootstrapped"
    <3>1. sponsor' = sponsor
      BY <1>1, <1>2, <2>2
    <3>. QED
      BY <1>2, <3>1 DEF SponsorsGrow, HoldersAreAdmitted
  <2>. QED
    BY <2>1, <2>2
<1>5. CASE admission # "NeedsSponsor"
  <2>1. handlers' = (handlers \ {h}) \cup {[h EXCEPT !.step = "open"]} /\ UNCHANGED <<flow, outcome>>
    BY <1>5 DEF Admit
  <2>2. sponsor'[c] # Nil
    BY <1>1, <1>2, <1>3, <1>5, AuthAssumption
  <2>. QED
    BY <1>1, <1>4, <2>1, <2>2, MoveKeeps
<1>6. CASE admission = "NeedsSponsor"
  <2>1. /\ handlers' = handlers \ {h} /\ sponsor' = sponsor
        /\ IF h.live THEN End(c, "refused") ELSE UNCHANGED <<flow, outcome>>
    BY <1>1, <1>2, <1>6 DEF Admit
  <2>2. RefreshOnce' /\ NonceOnce'
    BY <1>1, <2>1 DEF RefreshOnce, NonceOnce, OneFamilyPerChallenge
  <2>3. CASE h.live
    <3>1. flow[c] # Resting
      BY <1>1, <2>3, FlowIs DEF ClientsWait
    <3>2. hit[c] /\ hit \in [Client -> BOOLEAN]
      BY <1>1, <1>3, <1>6, <3>1 DEF RequestsGoOn, Unhit, AuthTypes
    <3>3. Fading(c)
      <4>1. \A g \in handlers : g = [client |-> g.client, step |-> g.step, secret |-> g.secret, live |-> g.live]
        BY DEF AuthTypes
      <4>. QED
        BY <2>1, <2>3, <4>1, HandlerIs DEF Fading, ClientsWait
    <3>4. End(c, "refused")
      BY <2>1, <2>3
    <3> HIDE DEF c
    <3>. QED
      BY <1>1, <2>1, <2>2, <3>2, <3>3, <3>4, EndFades
  <2>4. CASE ~h.live
    <3>1. UNCHANGED <<flow, outcome>>
      BY <2>1, <2>4
    <3>. QED
      BY <1>1, <2>1, <3>1, GoneKeeps
  <2>. QED
    BY <2>3, <2>4
<1>. QED
  BY <1>5, <1>6

LEMMA TickKeeps ==
  ASSUME AuthInv, Tick
  PROVE  AuthInv'
<1> USE DEF AuthInv
<1>1. /\ now' = now + 1 /\ now < MaxTime /\ hit' = [c \in Client |-> hit[c] \/ flow[c] # Resting]
      /\ UNCHANGED <<challenges, sponsor, access, refresh_tokens, revoked, families, nonces, issued,
                     handlers, session, flow, outcome, sent, duplicated, late>>
  BY DEF Tick, tables
<1>2. AuthTypes'
  <2>1. now' \in 0 .. MaxTime
    BY <1>1, AuthAssumption DEF AuthTypes
  <2>2. hit' \in [Client -> BOOLEAN]
    BY <1>1
  <2>. QED
    BY <1>1, <2>1, <2>2 DEF AuthTypes
<1>3. RefreshOnce' /\ RevokedHasNoAccess' /\ NonceOnce' /\ HoldersAreAdmitted' /\ ClientsWait'
  BY <1>1 DEF RefreshOnce, RevokedHasNoAccess, NonceOnce, OneFamilyPerChallenge, HoldersAreAdmitted, ClientsWait
<1>4. \A d \in Client : Held(d)' = Held(d) /\ Presented(d)' = Presented(d)
  BY <1>1 DEF Held, Presented
<1>5. TokensHeldOnce' /\ OwnFamilies'
  BY <1>1, <1>4 DEF TokensHeldOnce, OwnFamilies
<1>6. RequestsGoOn'
  <2>1. MemberIsServed' /\ NoncesAreOwn'
    BY <1>1 DEF RequestsGoOn, MemberIsServed, NoncesAreOwn
  <2>2. ASSUME NEW d \in Client PROVE hit'[d] \/ Unhit(d)'
    BY <1>1, FlowIs DEF Unhit
  <2>. QED
    BY <2>1, <2>2 DEF RequestsGoOn
<1>. QED
  BY <1>2, <1>3, <1>5, <1>6

LEMMA SweepTokensKeeps ==
  ASSUME AuthInv, SweepTokens
  PROVE  AuthInv'
<1> USE DEF AuthInv
<1>1. /\ challenges' = {ch \in challenges : ch.expires > now} /\ access' = {t \in access : t.expires > now}
      /\ refresh_tokens' \subseteq refresh_tokens /\ revoked' \subseteq revoked
      /\ UNCHANGED <<now, sponsor, families, nonces, issued, handlers, session, flow, outcome, hit,
                     sent, duplicated, late>>
  BY DEF SweepTokens
<1>2. AuthTypes'
  BY <1>1 DEF AuthTypes
<1>3. RefreshOnce' /\ RevokedHasNoAccess' /\ NonceOnce'
  BY <1>1 DEF RefreshOnce, RevokedHasNoAccess, NonceOnce, OneFamilyPerChallenge
<1>4. HoldersAreAdmitted' /\ ClientsWait'
  BY <1>1 DEF HoldersAreAdmitted, ClientsWait
<1>5. \A d \in Client : Held(d)' = Held(d) /\ Presented(d)' = Presented(d)
  BY <1>1 DEF Held, Presented
<1>6. TokensHeldOnce' /\ OwnFamilies'
  BY <1>1, <1>5 DEF TokensHeldOnce, OwnFamilies
<1>7. RequestsGoOn'
  <2>1. MemberIsServed' /\ NoncesAreOwn'
    BY <1>1 DEF RequestsGoOn, MemberIsServed, NoncesAreOwn
  <2>2. ASSUME NEW d \in Client PROVE hit'[d] \/ Unhit(d)'
    BY <1>1 DEF RequestsGoOn, Unhit, Authenticated
  <2>. QED
    BY <2>1, <2>2 DEF RequestsGoOn
<1>. QED
  BY <1>2, <1>3, <1>4, <1>6, <1>7

-----------------------------------------------------------------------------
(***************************************************************************)
(* What consume_refresh_token does to a token: nothing, revoke the family  *)
(* of one that was consumed, or consume it.                                *)
(***************************************************************************)
TokenLeft == UNCHANGED <<refresh_tokens, access, revoked, handlers>>
TokenReused(r) ==
  /\ r.consumed /\ revoked' = revoked \cup {r.family} /\ access' = WithoutFamily(r.family)
  /\ UNCHANGED <<refresh_tokens, handlers>>
TokenUsed(r, c, live) ==
  /\ ~r.consumed
  /\ refresh_tokens' = (refresh_tokens \ {r}) \cup {[r EXCEPT !.consumed = TRUE]}
  /\ handlers' = handlers \cup {[client |-> c, step |-> "issue", secret |-> r.family, live |-> live]}
  /\ UNCHANGED <<access, revoked>>

LEMMA ConsumeIs ==
  ASSUME AuthInv, NEW m, NEW live \in BOOLEAN, Consume(m, live), m.client \in Client
  PROVE  /\ UNCHANGED <<now, challenges, sponsor, families, nonces, issued>>
         /\ \/ TokenLeft
            \/ \E r \in refresh_tokens :
                 r.id = m.secret /\ (TokenReused(r) \/ TokenUsed(r, m.client, live))
<1> DEFINE found == {r \in refresh_tokens : r.id = m.secret}
           usable == {r \in found : r.family \notin revoked}
           reused == {r \in usable : r.consumed}
           fresh == {r \in usable : ~r.consumed /\ r.expires > now}
           H(r) == [Handler(m, "issue", live) EXCEPT !.secret = r.family]
<1>1. /\ revoked' = revoked \cup {r.family : r \in reused}
      /\ access' = IF reused = {} THEN access ELSE WithoutFamily((CHOOSE r \in reused : TRUE).family)
      /\ refresh_tokens' = IF fresh = {} THEN refresh_tokens ELSE Consumed(CHOOSE r \in fresh : TRUE)
      /\ handlers' = handlers \cup {H(r) : r \in fresh}
      /\ UNCHANGED <<now, challenges, sponsor, families, nonces, issued>>
  BY DEF Consume
<1>2. \A r, x \in found : r = x
  BY DEF AuthInv, RefreshOnce
<1>3. CASE reused # {}
  <2>1. PICK r \in refresh_tokens : r \in reused
    BY <1>3
  <2>2. reused = {r} /\ fresh = {} /\ r.consumed /\ r.id = m.secret
    BY <1>2, <2>1
  <2> HIDE DEF reused, fresh
  <2>3. TokenReused(r)
    BY <1>1, <2>2 DEF TokenReused
  <2>. QED
    BY <1>1, <2>2, <2>3
<1>4. CASE fresh # {}
  <2>1. PICK r \in refresh_tokens : r \in fresh
    BY <1>4
  <2>2. fresh = {r} /\ reused = {} /\ ~r.consumed /\ r.id = m.secret
    BY <1>2, <2>1
  <2>3. H(r) = [client |-> m.client, step |-> "issue", secret |-> r.family, live |-> live]
    <3> DEFINE e == H(r)
               c == m.client
    <3>1. e \in [client : {c}, step : {"issue"}, secret : {r.family}, live : {live}]
      BY DEF Handler
    <3> HIDE DEF e, c
    <3>2. e = [client |-> c, step |-> "issue", secret |-> r.family, live |-> live]
      BY <3>1
    <3>. QED
      BY <3>2 DEF e, c
  <2> HIDE DEF reused, fresh, H
  <2>4. TokenUsed(r, m.client, live)
    BY <1>1, <2>2, <2>3 DEF TokenUsed, Consumed
  <2>. QED
    BY <1>1, <2>2, <2>4
<1>5. CASE reused = {} /\ fresh = {}
  <2> HIDE DEF reused, fresh
  <2>1. TokenLeft
    BY <1>1, <1>5 DEF TokenLeft
  <2>. QED
    BY <1>1, <2>1
<1>. QED
  BY <1>3, <1>4, <1>5

\* What it keeps, whoever presents the token.
LEMMA LeftKeeps ==
  ASSUME AuthInv, TokenLeft, UNCHANGED <<now, challenges, sponsor, families, nonces, issued, late>>
  PROVE  RefreshOnce' /\ RevokedHasNoAccess' /\ NonceOnce'
  BY DEF AuthInv, TokenLeft, RefreshOnce, RevokedHasNoAccess, NonceOnce, OneFamilyPerChallenge

LEMMA ReusedKeeps ==
  ASSUME AuthInv, NEW r \in refresh_tokens, TokenReused(r),
         UNCHANGED <<now, challenges, sponsor, families, nonces, issued, late>>
  PROVE  /\ RefreshOnce' /\ RevokedHasNoAccess' /\ NonceOnce'
         /\ access' \subseteq access /\ revoked' \subseteq DOMAIN families
         /\ \A t \in access : families[t.family].client # families[r.family].client => t \in access'
<1> USE DEF AuthInv, TokenReused
<1>1. RefreshOnce' /\ NonceOnce'
  BY DEF RefreshOnce, NonceOnce, OneFamilyPerChallenge
<1>2. RevokedHasNoAccess'
  BY DEF RevokedHasNoAccess, WithoutFamily
<1>. QED
  BY <1>1, <1>2 DEF WithoutFamily, AuthTypes

LEMMA UsedKeeps ==
  ASSUME AuthInv, NEW r \in refresh_tokens, NEW c \in Client, NEW live \in BOOLEAN, TokenUsed(r, c, live),
         UNCHANGED <<now, challenges, sponsor, families, nonces, issued, late>>
  PROVE  /\ RefreshOnce' /\ RevokedHasNoAccess' /\ NonceOnce'
         /\ handlers' \subseteq [client : Client, step : Verifying, secret : 1 .. nonces, live : BOOLEAN]
                         \cup [client : Client, step : {"issue"}, secret : DOMAIN families, live : BOOLEAN]
         /\ refresh_tokens' \subseteq
              [id : 1 .. issued, family : DOMAIN families, expires : Nat, consumed : BOOLEAN]
         /\ \A x \in refresh_tokens' : \E y \in refresh_tokens :
              x.id = y.id /\ x.family = y.family /\ (x = y \/ y = r)
<1> USE DEF AuthInv
<1> DEFINE H == [client |-> c, step |-> "issue", secret |-> r.family, live |-> live]
           q == [r EXCEPT !.consumed = TRUE]
           R == [id : 1 .. issued, family : DOMAIN families, expires : Nat, consumed : BOOLEAN]
<1>1. /\ ~r.consumed /\ refresh_tokens' = (refresh_tokens \ {r}) \cup {q}
      /\ handlers' = handlers \cup {H} /\ UNCHANGED <<access, revoked>>
  BY DEF TokenUsed
<1>2. r \in R
  BY DEF AuthTypes
<1>3. q \in R /\ q.id = r.id /\ q.family = r.family /\ q.consumed = TRUE
  BY <1>2
<1>4. H.step = "issue" /\ H.secret = r.family /\ H.client = c /\ H.live = live
      /\ H \in [client : Client, step : {"issue"}, secret : DOMAIN families, live : BOOLEAN]
  BY <1>2
<1>5. "issue" \notin Verifying
  BY DEF Verifying
<1> HIDE DEF q, H
<1>6. RefreshOnce'
  <2>1. \A x, y \in refresh_tokens' :
          x.id = y.id \/ (x.family = y.family /\ ~x.consumed /\ ~y.consumed) => x = y
    BY <1>1, <1>3 DEF RefreshOnce
  <2>2. \A h, g \in handlers' : h.step = "issue" /\ g.step = "issue" /\ h.secret = g.secret => h = g
    BY <1>1, <1>4 DEF RefreshOnce
  <2>3. \A x \in refresh_tokens', h \in handlers' : ~x.consumed /\ h.step = "issue" => h.secret # x.family
    BY <1>1, <1>3, <1>4 DEF RefreshOnce
  <2>. QED
    BY <2>1, <2>2, <2>3 DEF RefreshOnce
<1>7. RevokedHasNoAccess'
  BY <1>1 DEF RevokedHasNoAccess
<1>8. NonceOnce'
  BY <1>1, <1>4, <1>5 DEF NonceOnce, OneFamilyPerChallenge
<1>. QED
  BY <1>1, <1>3, <1>4, <1>6, <1>7, <1>8 DEF AuthTypes

LEMMA RefreshKeeps ==
  ASSUME AuthInv, NEW c \in Client, Refresh(c)
  PROVE  AuthInv'
<1> USE DEF AuthInv
<1> DEFINE m == [kind |-> "refresh", secret |-> flow[c].secret, client |-> c]
<1>1. /\ flow[c].step = "refresh" /\ Consume(m, TRUE)
      /\ Proceed(c, AfterRefresh(handlers' # handlers))
      /\ UNCHANGED <<session, outcome, hit, sent, duplicated, late>>
  BY DEF Refresh
<1>2. m.secret = flow[c].secret /\ m.client = c
  OBVIOUS
<1> HIDE DEF m
<1>3. /\ UNCHANGED <<now, challenges, sponsor, families, nonces, issued>>
      /\ \/ TokenLeft
         \/ \E r \in refresh_tokens : r.id = flow[c].secret /\ (TokenReused(r) \/ TokenUsed(r, c, TRUE))
  BY <1>1, <1>2, ConsumeIs
<1>4. AfterRefresh(handlers' # handlers) = IF handlers' # handlers THEN "rotate" ELSE "challenge"
  BY DEF AfterRefresh
<1>5. flow[c] # Resting
  BY <1>1, FlowIs
<1>6. /\ Others(c) /\ flow' \in [Client -> {Resting} \cup AuthFlow]
      /\ flow'[c].step = IF handlers' # handlers THEN "rotate" ELSE "challenge"
  BY <1>1, <1>4, <1>5, ProceedIs
<1>7. /\ \A d \in Client : Held(d)' = Held(d) /\ Presented(d)' \subseteq Presented(d)
      /\ Presented(c)' = {} /\ Presented(c) = {flow[c].secret}
  BY <1>1, <1>6 DEF Held, Presented, Others
<1>8. \A h \in handlers : h.live => h.client # c
  BY <1>1 DEF ClientsWait
<1>9. MemberIsServed' /\ NoncesAreOwn'
  <2>1. MemberIsServed'
    BY <1>1 DEF RequestsGoOn, MemberIsServed
  <2>2. NoncesAreOwn'
    BY <1>1, <1>3, <1>6 DEF RequestsGoOn, NoncesAreOwn, Others
  <2>. QED
    BY <2>1, <2>2
<1>10. CASE TokenLeft
  <2>1. RefreshOnce' /\ RevokedHasNoAccess' /\ NonceOnce'
    BY <1>1, <1>3, <1>10, LeftKeeps
  <2>2. UNCHANGED <<refresh_tokens, access, revoked, handlers>>
    BY <1>10 DEF TokenLeft
  <2>3. AuthTypes'
    BY <1>1, <1>3, <1>6, <2>2 DEF AuthTypes
  <2>4. HoldersAreAdmitted'
    BY <1>1, <1>3, <1>6, <2>2 DEF HoldersAreAdmitted, Others
  <2>5. TokensHeldOnce'
    BY <1>1, <1>3, <1>7, <2>2 DEF TokensHeldOnce
  <2>6. OwnFamilies'
    BY <1>1, <1>3, <1>7, <2>2 DEF OwnFamilies
  <2>7. ClientsWait'
    BY <1>6, <1>8, <2>2, HandlerIs DEF ClientsWait, Others
  <2>8. ASSUME NEW d \in Client PROVE hit'[d] \/ Unhit(d)'
    BY <1>1, <1>3, <1>5, <1>6, <2>2 DEF RequestsGoOn, Unhit, Others, Authenticated
  <2>. QED
    BY <1>9, <2>1, <2>3, <2>4, <2>5, <2>6, <2>7, <2>8 DEF RequestsGoOn
<1>11. ASSUME NEW r \in refresh_tokens, r.id = flow[c].secret, TokenReused(r) PROVE AuthInv'
  <2>1. /\ RefreshOnce' /\ RevokedHasNoAccess' /\ NonceOnce'
        /\ access' \subseteq access /\ revoked' \subseteq DOMAIN families
        /\ \A t \in access : families[t.family].client # families[r.family].client => t \in access'
    BY <1>1, <1>3, <1>11, ReusedKeeps
  <2>2. UNCHANGED <<refresh_tokens, handlers>> /\ r.consumed
    BY <1>11 DEF TokenReused
  <2>3. AuthTypes'
    BY <1>1, <1>3, <1>6, <2>1, <2>2 DEF AuthTypes
  <2>4. HoldersAreAdmitted'
    BY <1>1, <1>3, <1>6, <2>2 DEF HoldersAreAdmitted, Others
  <2>5. duplicated /\ families[r.family].client = c
    BY <1>7, <1>11, <2>2 DEF TokensHeldOnce, OwnFamilies
  <2>6. TokensHeldOnce'
    BY <1>1, <1>3, <1>7, <2>5 DEF TokensHeldOnce
  <2>7. OwnFamilies'
    BY <1>1, <1>3, <1>7, <2>1, <2>2 DEF OwnFamilies
  <2>8. ClientsWait'
    BY <1>6, <1>8, <2>2, HandlerIs DEF ClientsWait, Others
  <2>9. ASSUME NEW d \in Client, ~hit'[d] PROVE Unhit(d)'
    <3>1. Unhit(d)
      BY <1>1, <2>9 DEF RequestsGoOn
    <3>2. CASE d = c
      BY <1>3, <1>5, <1>6, <2>2, <3>1, <3>2 DEF Unhit
    <3>3. CASE d # c
      <4>1. ASSUME NEW t \in access, flow[d].step = "send", t.id = session[d] PROVE t \in access'
        <5>1. families[t.family].client = d
          BY <4>1 DEF OwnFamilies, Held, HoldersAreAdmitted
        <5>. QED
          BY <2>1, <2>5, <3>3, <5>1
      <4>2. flow'[d] = flow[d]
        BY <1>6, <3>3 DEF Others
      <4>. QED
        BY <1>1, <1>3, <3>1, <4>1, <4>2 DEF Unhit, Authenticated
    <3>. QED
      BY <3>2, <3>3
  <2>. QED
    BY <1>9, <2>1, <2>3, <2>4, <2>6, <2>7, <2>8, <2>9 DEF RequestsGoOn
<1>12. ASSUME NEW r \in refresh_tokens, r.id = flow[c].secret, TokenUsed(r, c, TRUE) PROVE AuthInv'
  <2> DEFINE H == [client |-> c, step |-> "issue", secret |-> r.family, live |-> TRUE]
  <2>1. /\ RefreshOnce' /\ RevokedHasNoAccess' /\ NonceOnce'
        /\ handlers' \subseteq [client : Client, step : Verifying, secret : 1 .. nonces, live : BOOLEAN]
                        \cup [client : Client, step : {"issue"}, secret : DOMAIN families, live : BOOLEAN]
        /\ refresh_tokens' \subseteq
             [id : 1 .. issued, family : DOMAIN families, expires : Nat, consumed : BOOLEAN]
        /\ \A x \in refresh_tokens' : \E y \in refresh_tokens :
             x.id = y.id /\ x.family = y.family /\ (x = y \/ y = r)
    BY <1>1, <1>3, <1>12, UsedKeeps
  <2>2. /\ handlers' = handlers \cup {H} /\ UNCHANGED <<access, revoked>>
        /\ H.client = c /\ H.step = "issue" /\ H.secret = r.family /\ H.live = TRUE
    BY <1>12 DEF TokenUsed
  <2> HIDE DEF H
  <2>3. H \notin handlers /\ flow'[c].step = "rotate"
    BY <1>6, <1>8, <2>2
  <2>4. AuthTypes'
    BY <1>1, <1>3, <1>6, <2>1, <2>2 DEF AuthTypes
  <2>5. HoldersAreAdmitted'
    BY <1>1, <1>3, <1>6, <2>2, <2>3 DEF HoldersAreAdmitted, Others
  <2>6. TokensHeldOnce'
    <3>1. ~duplicated => \A d \in Client, x \in refresh_tokens' : x.id \in Held(d)' \cup Presented(d)' => ~x.consumed
      <4>1. SUFFICES ASSUME ~duplicated, NEW d \in Client, NEW x \in refresh_tokens',
                            x.id \in Held(d)' \cup Presented(d)'
                     PROVE  ~x.consumed
        OBVIOUS
      <4>2. PICK y \in refresh_tokens : x.id = y.id /\ (x = y \/ y = r)
        BY <2>1
      <4>3. x.id # flow[c].secret
        BY <1>7, <4>1 DEF TokensHeldOnce
      <4>. QED
        BY <1>7, <1>12, <4>1, <4>2, <4>3 DEF TokensHeldOnce
    <3>. QED
      BY <1>1, <1>3, <1>7, <2>2, <3>1 DEF TokensHeldOnce
  <2>7. OwnFamilies'
    <3>1. families[r.family].client = c
      BY <1>7, <1>12 DEF OwnFamilies
    <3>2. \A d \in Client : \A t \in access' \cup refresh_tokens' :
            t.id \in Held(d)' \cup Presented(d)' => families[t.family].client = d
      BY <1>7, <2>1, <2>2 DEF OwnFamilies
    <3>3. \A x \in sent, t \in refresh_tokens' :
            x.kind = "refresh" /\ t.id = x.secret => families[t.family].client = x.client
      BY <2>1 DEF OwnFamilies
    <3>. QED
      BY <1>1, <1>3, <2>2, <3>1, <3>2, <3>3 DEF OwnFamilies
  <2>8. ClientsWait'
    BY <1>6, <1>8, <2>2, <2>3, HandlerIs DEF ClientsWait, Others
  <2>9. ASSUME NEW d \in Client PROVE hit'[d] \/ Unhit(d)'
    BY <1>1, <1>3, <1>5, <1>6, <2>2, <2>3 DEF RequestsGoOn, Unhit, Others, Authenticated
  <2>. QED
    BY <1>9, <2>1, <2>4, <2>5, <2>6, <2>7, <2>8, <2>9 DEF RequestsGoOn
<1>. QED
  BY <1>3, <1>10, <1>11, <1>12

\* A message that is delivered again: its sender is hit, and nobody else notices.
LEMMA DuplicateKeeps ==
  ASSUME AuthInv, NEW m \in sent, Duplicate(m)
  PROVE  AuthInv'
<1> USE DEF AuthInv
<1> DEFINE c == m.client
<1>1. /\ duplicated' = TRUE /\ UNCHANGED <<session, flow, outcome, sent, late>>
      /\ hit' \in [Client -> BOOLEAN] /\ hit'[c] /\ \A d \in Client : d # c => hit'[d] = hit[d]
      /\ c \in Client /\ m.kind \in {"verify", "refresh"}
  BY HandlerIs DEF Duplicate, Hit, AuthTypes
<1>2. \A d \in Client : Held(d)' = Held(d) /\ Presented(d)' = Presented(d)
  BY <1>1 DEF Held, Presented
<1>3. MemberIsServed'
  BY <1>1 DEF RequestsGoOn, MemberIsServed
<1> HIDE DEF c
<1>4. CASE m.kind = "verify"
  <2> DEFINE H == Handler(m, "lookup", FALSE)
  <2>1. TakeChallenge(m, FALSE)
    BY <1>4 DEF Duplicate
  <2>2. /\ RefreshOnce' /\ NonceOnce'
        /\ challenges' = WithoutChallenge(m.secret)
        /\ UNCHANGED <<now, sponsor, access, refresh_tokens, revoked, families, nonces, issued>>
        /\ handlers' = handlers \/ (handlers' = handlers \cup {H} /\ m.secret \in 1 .. nonces)
    BY <1>1, <2>1, TakeIs DEF c
  <2>3. H = [client |-> c, step |-> "lookup", secret |-> m.secret, live |-> FALSE]
    BY DEF Handler, c
  <2> HIDE DEF H
  <2>4. AuthTypes'
    <3>1. handlers' \subseteq [client : Client, step : Verifying, secret : 1 .. nonces, live : BOOLEAN]
                        \cup [client : Client, step : {"issue"}, secret : DOMAIN families, live : BOOLEAN]
      <4>1. m.secret \in 1 .. nonces => H \in [client : Client, step : Verifying, secret : 1 .. nonces, live : BOOLEAN]
        BY <1>1, <2>3 DEF Verifying
      <4>. QED
        BY <2>2, <4>1 DEF AuthTypes
    <3>. QED
      BY <1>1, <2>2, <3>1 DEF AuthTypes, WithoutChallenge
  <2>5. RevokedHasNoAccess'
    BY <1>1, <2>2 DEF RevokedHasNoAccess
  <2>6. HoldersAreAdmitted'
    BY <1>1, <2>2, <2>3 DEF HoldersAreAdmitted
  <2>7. TokensHeldOnce'
    BY <1>1, <1>2, <2>2 DEF TokensHeldOnce
  <2>8. OwnFamilies'
    BY <1>1, <1>2, <2>2, <2>3 DEF OwnFamilies
  <2>9. ClientsWait'
    BY <1>1, <2>2, <2>3 DEF ClientsWait
  <2>10. NoncesAreOwn'
    BY <1>1, <2>2 DEF RequestsGoOn, NoncesAreOwn
  <2>11. ASSUME NEW d \in Client, ~hit'[d] PROVE Unhit(d)'
    <3>1. d # c /\ Unhit(d)
      BY <1>1, <2>11 DEF RequestsGoOn
    <3>2. ASSUME NEW ch \in challenges, flow[d].step = "verify", ch.nonce = flow[d].secret
          PROVE  ch \in challenges'
      BY <1>4, <2>2, <3>1, <3>2 DEF RequestsGoOn, NoncesAreOwn, WithoutChallenge, c
    <3>. QED
      BY <1>1, <2>2, <3>1, <3>2 DEF Unhit, Authenticated
  <2>. QED
    BY <1>3, <2>2, <2>4, <2>5, <2>6, <2>7, <2>8, <2>9, <2>10, <2>11 DEF RequestsGoOn
<1>5. CASE m.kind = "refresh"
  <2>1. Consume(m, FALSE)
    BY <1>5 DEF Duplicate
  <2>2. /\ UNCHANGED <<now, challenges, sponsor, families, nonces, issued>>
        /\ \/ TokenLeft
           \/ \E r \in refresh_tokens : r.id = m.secret /\ (TokenReused(r) \/ TokenUsed(r, c, FALSE))
    BY <1>1, <2>1, ConsumeIs DEF c
  <2>3. sponsor[c] # Nil /\ \A r \in refresh_tokens : r.id = m.secret => families[r.family].client = c
    BY <1>5 DEF HoldersAreAdmitted, OwnFamilies, c
  <2>4. NoncesAreOwn'
    BY <1>1, <2>2 DEF RequestsGoOn, NoncesAreOwn
  <2>5. CASE TokenLeft
    <3>1. RefreshOnce' /\ RevokedHasNoAccess' /\ NonceOnce'
      BY <1>1, <2>2, <2>5, LeftKeeps
    <3>2. UNCHANGED <<refresh_tokens, access, revoked, handlers>>
      BY <2>5 DEF TokenLeft
    <3>3. AuthTypes'
      BY <1>1, <2>2, <3>2 DEF AuthTypes
    <3>4. HoldersAreAdmitted' /\ ClientsWait'
      BY <1>1, <2>2, <3>2 DEF HoldersAreAdmitted, ClientsWait
    <3>5. TokensHeldOnce' /\ OwnFamilies'
      BY <1>1, <1>2, <2>2, <3>2 DEF TokensHeldOnce, OwnFamilies
    <3>6. ASSUME NEW d \in Client PROVE hit'[d] \/ Unhit(d)'
      BY <1>1, <2>2, <3>2 DEF RequestsGoOn, Unhit, Authenticated
    <3>. QED
      BY <1>3, <2>4, <3>1, <3>3, <3>4, <3>5, <3>6 DEF RequestsGoOn
  <2>6. ASSUME NEW r \in refresh_tokens, r.id = m.secret, TokenReused(r) PROVE AuthInv'
    <3>1. /\ RefreshOnce' /\ RevokedHasNoAccess' /\ NonceOnce'
          /\ access' \subseteq access /\ revoked' \subseteq DOMAIN families
          /\ \A t \in access : families[t.family].client # families[r.family].client => t \in access'
      BY <1>1, <2>2, <2>6, ReusedKeeps
    <3>2. UNCHANGED <<refresh_tokens, handlers>>
      BY <2>6 DEF TokenReused
    <3>3. AuthTypes'
      BY <1>1, <2>2, <3>1, <3>2 DEF AuthTypes
    <3>4. HoldersAreAdmitted' /\ ClientsWait'
      BY <1>1, <2>2, <3>2 DEF HoldersAreAdmitted, ClientsWait
    <3>5. TokensHeldOnce' /\ OwnFamilies'
      BY <1>1, <1>2, <2>2, <3>1, <3>2 DEF TokensHeldOnce, OwnFamilies
    <3>6. ASSUME NEW d \in Client, ~hit'[d] PROVE Unhit(d)'
      <4>1. d # c /\ Unhit(d)
        BY <1>1, <3>6 DEF RequestsGoOn
      <4>2. ASSUME NEW t \in access, flow[d].step = "send", t.id = session[d] PROVE t \in access'
        <5>1. families[t.family].client = d
          BY <4>2 DEF OwnFamilies, Held, HoldersAreAdmitted
        <5>. QED
          BY <2>3, <2>6, <3>1, <4>1, <5>1
      <4>. QED
        BY <1>1, <2>2, <4>1, <4>2 DEF Unhit, Authenticated
    <3>. QED
      BY <1>3, <2>4, <3>1, <3>3, <3>4, <3>5, <3>6 DEF RequestsGoOn
  <2>7. ASSUME NEW r \in refresh_tokens, r.id = m.secret, TokenUsed(r, c, FALSE) PROVE AuthInv'
    <3> DEFINE H == [client |-> c, step |-> "issue", secret |-> r.family, live |-> FALSE]
    <3>1. /\ RefreshOnce' /\ RevokedHasNoAccess' /\ NonceOnce'
          /\ handlers' \subseteq [client : Client, step : Verifying, secret : 1 .. nonces, live : BOOLEAN]
                          \cup [client : Client, step : {"issue"}, secret : DOMAIN families, live : BOOLEAN]
          /\ refresh_tokens' \subseteq
               [id : 1 .. issued, family : DOMAIN families, expires : Nat, consumed : BOOLEAN]
          /\ \A x \in refresh_tokens' : \E y \in refresh_tokens :
               x.id = y.id /\ x.family = y.family /\ (x = y \/ y = r)
      BY <1>1, <2>2, <2>7, UsedKeeps
    <3>2. /\ handlers' = handlers \cup {H} /\ UNCHANGED <<access, revoked>>
          /\ H.client = c /\ H.step = "issue" /\ H.secret = r.family /\ H.live = FALSE
      BY <2>7 DEF TokenUsed
    <3> HIDE DEF H
    <3>3. AuthTypes'
      BY <1>1, <2>2, <3>1, <3>2 DEF AuthTypes
    <3>4. HoldersAreAdmitted' /\ ClientsWait'
      BY <1>1, <2>2, <2>3, <3>2 DEF HoldersAreAdmitted, ClientsWait
    <3>5. TokensHeldOnce'
      BY <1>1, <1>2, <2>2, <3>2 DEF TokensHeldOnce
    <3>6. OwnFamilies'
      <4>1. \A d \in Client : \A t \in access' \cup refresh_tokens' :
              t.id \in Held(d)' \cup Presented(d)' => families[t.family].client = d
        BY <1>2, <3>1, <3>2 DEF OwnFamilies
      <4>2. \A x \in sent, t \in refresh_tokens' :
              x.kind = "refresh" /\ t.id = x.secret => families[t.family].client = x.client
        BY <3>1 DEF OwnFamilies
      <4>. QED
        BY <1>1, <2>2, <2>3, <2>7, <3>2, <4>1, <4>2 DEF OwnFamilies
    <3>7. ASSUME NEW d \in Client PROVE hit'[d] \/ Unhit(d)'
      BY <1>1, <2>2, <3>2 DEF RequestsGoOn, Unhit, Authenticated
    <3>. QED
      BY <1>3, <2>4, <3>1, <3>3, <3>4, <3>5, <3>6, <3>7 DEF RequestsGoOn
  <2>. QED
    BY <2>2, <2>5, <2>6, <2>7
<1>. QED
  BY <1>1, <1>4, <1>5

-----------------------------------------------------------------------------
(***************************************************************************)
(* issue: the new pair belongs to the family of its handler, which is the  *)
(* client's; a client that waited holds it alone.                          *)
(***************************************************************************)
FamilyGrows(h, f) ==
  /\ DOMAIN families \subseteq DOMAIN families' /\ \A g \in DOMAIN families : families'[g] = families[g]
  /\ f \in DOMAIN families' /\ families'[f].client = h.client
  /\ families' \in Seq([client : Client, nonce : 1 .. nonces])
  /\ h.step = "open" => f \notin DOMAIN families /\ DOMAIN families' = DOMAIN families \cup {f}
                        /\ families'[f].nonce = h.secret
  /\ h.step = "issue" => f = h.secret /\ families' = families

LEMMA FamilyOf ==
  ASSUME AuthInv, NEW h \in handlers, h.step \in {"open", "issue"},
         families' = IF h.step = "open"
                     THEN Append(families, [client |-> h.client, nonce |-> h.secret]) ELSE families
  PROVE  FamilyGrows(h, Family(h))
<1> USE DEF AuthInv
<1>1. families \in Seq([client : Client, nonce : 1 .. nonces]) /\ Len(families) \in Nat
        /\ DOMAIN families = 1 .. Len(families)
  BY FamilyIs DEF AuthTypes
<1>2. CASE h.step = "open"
  <2> DEFINE e == [client |-> h.client, nonce |-> h.secret]
             S == [client : Client, nonce : 1 .. nonces]
  <2>1. e \in S /\ e.client = h.client /\ e.nonce = h.secret
    BY <1>2, HandlerIs
  <2>2. families' = Append(families, e) /\ Family(h) = Len(families) + 1
    BY <1>2 DEF Family
  <2> HIDE DEF e, S
  <2>3. /\ Append(families, e) \in Seq(S) /\ Len(Append(families, e)) = Len(families) + 1
        /\ \A i \in 1 .. Len(families) : Append(families, e)[i] = families[i]
        /\ Append(families, e)[Len(families) + 1] = e
    BY <1>1, <2>1, AppendProperties DEF S
  <2>4. DOMAIN families' = 1 .. Len(families) + 1
    BY <2>2, <2>3, LenProperties
  <2>5. DOMAIN families' = DOMAIN families \cup {Family(h)} /\ Family(h) \notin DOMAIN families
    BY <1>1, <2>2, <2>4
  <2>. QED
    BY <1>1, <1>2, <2>1, <2>2, <2>3, <2>5 DEF FamilyGrows, S
<1>3. CASE h.step = "issue"
  BY <1>1, <1>3, HandlerIs DEF FamilyGrows, Family, OwnFamilies
<1>. QED
  BY <1>2, <1>3

LEMMA IssueKeeps ==
  ASSUME AuthInv, NEW h \in handlers, NEW delivered \in BOOLEAN, Issue(h, delivered)
  PROVE  AuthInv'
<1> USE DEF AuthInv
<1> DEFINE c == h.client
           f == Family(h)
           id == issued + 1
           t == [id |-> id, family |-> f, expires |-> now + AccessTtl]
           r == [id |-> id, family |-> f, expires |-> now + RefreshTtl, consumed |-> FALSE]
<1>1. /\ h.step \in {"open", "issue"} /\ issued < MaxToken
      /\ issued' = id /\ handlers' = handlers \ {h}
      /\ families' = IF h.step = "open"
                     THEN Append(families, [client |-> h.client, nonce |-> h.secret]) ELSE families
      /\ access' = access \cup {t} /\ refresh_tokens' = refresh_tokens \cup {r}
      /\ late' = IF f \in revoked THEN late \cup {id} ELSE late
      /\ UNCHANGED <<now, challenges, sponsor, revoked, nonces, sent, duplicated>>
  BY DEF Issue, PutAccess, PutRefresh
<1>2. \/ /\ h.live /\ delivered
         /\ session' = [session EXCEPT ![c] = id] /\ Proceed(c, "send") /\ UNCHANGED <<outcome, hit>>
      \/ /\ h.live /\ Hit(c) /\ UNCHANGED session
         /\ IF h.step = "open" THEN End(c, "error") ELSE Proceed(c, "challenge") /\ UNCHANGED outcome
      \/ ~h.live /\ UNCHANGED <<session, flow, outcome, hit>>
  BY DEF Issue, AfterRefresh
<1>3. FamilyGrows(h, f)
  BY <1>1, FamilyOf
<1>4. c \in Client /\ sponsor[c] # Nil
  BY <1>1, HandlerIs DEF HoldersAreAdmitted
<1>5. /\ issued \in Nat /\ id \in 0 .. MaxToken /\ id \in 1 .. id /\ 1 .. issued \subseteq 1 .. id
      /\ id \notin 1 .. issued /\ id # Nil /\ id \in Nat
      /\ now + AccessTtl \in Nat /\ now + AccessTtl > now /\ now + RefreshTtl \in Nat
  <2>1. AccessTtl \in Nat \ {0} /\ RefreshTtl \in Nat /\ MaxToken \in Nat /\ MaxTime \in Nat /\ Nil \notin Nat
    BY AuthAssumption
  <2>2. issued \in 0 .. MaxToken /\ now \in 0 .. MaxTime
    BY DEF AuthTypes
  <2>. QED
    BY <1>1, <2>1, <2>2
<1>6. /\ t.id = id /\ t.family = f /\ t.expires = now + AccessTtl
      /\ r.id = id /\ r.family = f /\ r.consumed = FALSE
      /\ t \in [id : 1 .. id, family : DOMAIN families', expires : Nat]
      /\ r \in [id : 1 .. id, family : DOMAIN families', expires : Nat, consumed : BOOLEAN]
  BY <1>3, <1>5 DEF FamilyGrows
<1>7. \A x \in refresh_tokens \cup access : x.id \in 1 .. issued /\ x.family \in DOMAIN families
  BY DEF AuthTypes
<1> HIDE DEF c, f, id, t, r
\* Where the client is afterwards.
<1>8. /\ flow' \in [Client -> {Resting} \cup AuthFlow]
      /\ outcome' \in [Client -> {Nil, "ok", "error", "refused"}] /\ hit' \in [Client -> BOOLEAN]
      /\ session' \in [Client -> 1 .. id \cup {Nil}]
      /\ \A d \in Client : d # c => /\ flow'[d] = flow[d] /\ session'[d] = session[d]
                                    /\ outcome'[d] = outcome[d] /\ hit'[d] = hit[d]
      /\ \/ /\ h.live /\ flow'[c].step = "send" /\ session'[c] = id
            /\ outcome'[c] = outcome[c] /\ hit'[c] = hit[c]
         \/ /\ h.live /\ flow'[c].step \in {"idle", "challenge"} /\ session'[c] = session[c] /\ hit'[c] = TRUE
         \/ /\ ~h.live /\ flow'[c] = flow[c] /\ session'[c] = session[c]
            /\ outcome'[c] = outcome[c] /\ hit'[c] = hit[c]
  <2>1. /\ session \in [Client -> 1 .. issued \cup {Nil}] /\ flow \in [Client -> {Resting} \cup AuthFlow]
        /\ outcome \in [Client -> {Nil, "ok", "error", "refused"}] /\ hit \in [Client -> BOOLEAN]
    BY DEF AuthTypes
  <2>2. h.live => flow[c] # Resting
    BY <1>4, FlowIs DEF ClientsWait, c
  <2>3. session \in [Client -> 1 .. id \cup {Nil}]
    BY <1>5, <2>1
  <2>4. CASE h.live /\ delivered /\ session' = [session EXCEPT ![c] = id] /\ Proceed(c, "send")
               /\ UNCHANGED <<outcome, hit>>
    <3>1. Others(c) /\ flow' \in [Client -> {Resting} \cup AuthFlow] /\ flow'[c].step = "send"
      BY <1>4, <2>2, <2>4, ProceedIs
    <3>. QED
      BY <1>4, <1>5, <2>1, <2>3, <2>4, <3>1 DEF Others
  <2>5. CASE h.live /\ Hit(c) /\ UNCHANGED session /\ End(c, "error")
    <3>1. /\ Others(c) /\ flow' \in [Client -> {Resting} \cup AuthFlow] /\ flow'[c].step = "idle"
          /\ outcome' \in [Client -> {Nil, "ok", "error", "refused"}]
          /\ \A d \in Client : d # c => outcome'[d] = outcome[d]
      BY <1>4, <2>5, EndIs
    <3>. QED
      BY <1>4, <2>1, <2>3, <2>5, <3>1 DEF Others, Hit
  <2>6. CASE h.live /\ Hit(c) /\ UNCHANGED <<session, outcome>> /\ Proceed(c, "challenge")
    <3>1. Others(c) /\ flow' \in [Client -> {Resting} \cup AuthFlow] /\ flow'[c].step = "challenge"
      BY <1>4, <2>2, <2>6, ProceedIs
    <3>. QED
      BY <1>4, <2>1, <2>3, <2>6, <3>1 DEF Others, Hit
  <2>7. CASE ~h.live /\ UNCHANGED <<session, flow, outcome, hit>>
    BY <2>1, <2>3, <2>7
  <2>. QED
    BY <1>2, <2>4, <2>5, <2>6, <2>7
<1>9. AuthTypes'
  <2>1. access' \subseteq [id : 1 .. id, family : DOMAIN families', expires : Nat]
    BY <1>1, <1>3, <1>5, <1>6 DEF AuthTypes, FamilyGrows
  <2>2. refresh_tokens' \subseteq [id : 1 .. id, family : DOMAIN families', expires : Nat, consumed : BOOLEAN]
    BY <1>1, <1>3, <1>5, <1>6 DEF AuthTypes, FamilyGrows
  <2>3. handlers' \subseteq [client : Client, step : Verifying, secret : 1 .. nonces, live : BOOLEAN]
                    \cup [client : Client, step : {"issue"}, secret : DOMAIN families', live : BOOLEAN]
    BY <1>1, <1>3 DEF AuthTypes, FamilyGrows
  <2>4. sent \subseteq [kind : {"verify"}, secret : 1 .. nonces, client : Client]
                 \cup [kind : {"refresh"}, secret : 1 .. id, client : Client]
    BY <1>5 DEF AuthTypes
  <2>. QED
    BY <1>1, <1>3, <1>5, <1>8, <2>1, <2>2, <2>3, <2>4 DEF AuthTypes, FamilyGrows
<1>10. RefreshOnce'
  <2>1. \A x \in refresh_tokens : x.id # id
    BY <1>5, <1>7
  <2>2. \A x \in refresh_tokens : x.family = f => x.consumed
    BY <1>1, <1>3, <1>7 DEF RefreshOnce, FamilyGrows
  <2>3. \A g \in handlers \ {h} : g.step = "issue" => g.secret # f
    BY <1>1, <1>3, HandlerIs DEF RefreshOnce, FamilyGrows
  <2>. QED
    BY <1>1, <1>6, <2>1, <2>2, <2>3 DEF RefreshOnce
<1>11. RevokedHasNoAccess'
  BY <1>1, <1>6 DEF RevokedHasNoAccess
<1>12. NonceOnce'
  <2>1. CASE h.step = "issue"
    <3>1. families' = families
      BY <1>3, <2>1 DEF FamilyGrows
    <3>. QED
      BY <1>1, <3>1 DEF NonceOnce, OneFamilyPerChallenge
  <2>2. CASE h.step = "open"
    <3>1. /\ DOMAIN families' = DOMAIN families \cup {f} /\ families'[f].nonce = h.secret
          /\ \A g \in DOMAIN families : families'[g] = families[g]
      BY <1>3, <2>2 DEF FamilyGrows
    <3>2. /\ \A g \in DOMAIN families : families[g].nonce # h.secret
          /\ \A ch \in challenges : ch.nonce # h.secret
          /\ \A g \in handlers : g.step \in Verifying /\ g # h => g.secret # h.secret
      BY <2>2 DEF NonceOnce, Verifying
    <3>3. OneFamilyPerChallenge'
      BY <3>1, <3>2 DEF NonceOnce, OneFamilyPerChallenge
    <3>. QED
      BY <1>1, <3>1, <3>2, <3>3 DEF NonceOnce
  <2>. QED
    BY <1>1, <2>1, <2>2
<1>13. HoldersAreAdmitted'
  <2>1. ASSUME NEW d \in Client
        PROVE  /\ session'[d] # Nil \/ flow'[d].step \in {"refresh", "serve"} => sponsor[d] # Nil
               /\ flow'[d].step = "serve" => flow'[d].admits \in Client
               /\ flow'[d].step = "send" => session'[d] # Nil
    BY <1>4, <1>5, <1>8 DEF HoldersAreAdmitted
  <2>. QED
    BY <1>1, <2>1 DEF HoldersAreAdmitted
<1>14. /\ \A d \in Client : d # c => Held(d)' = Held(d) /\ Presented(d)' = Presented(d)
       /\ Held(c)' \subseteq Held(c) \cup {id} /\ (Held(c)' = {id} \/ Held(c)' = Held(c))
       /\ Presented(c)' \subseteq Presented(c)
       /\ \A d \in Client : Held(d) \subseteq 1 .. issued /\ Presented(d) \subseteq 1 .. issued
  <2>1. \A d \in Client : d # c => Held(d)' = Held(d) /\ Presented(d)' = Presented(d)
    BY <1>8 DEF Held, Presented
  <2>2. Held(c)' = {id} \/ Held(c)' = Held(c)
    BY <1>5, <1>8 DEF Held
  <2>3. Presented(c)' \subseteq Presented(c)
    BY <1>8 DEF Presented
  <2>4. \A d \in Client : Held(d) \subseteq 1 .. issued /\ Presented(d) \subseteq 1 .. issued
    BY DEF AuthTypes, Held, TokensHeldOnce
  <2>. QED
    BY <2>1, <2>2, <2>3, <2>4
<1>15. TokensHeldOnce'
  <2>1. \A d, e \in Client :
          /\ Held(d)' \cap Presented(e)' = {}
          /\ d # e => Held(d)' \cap Held(e)' = {} /\ Presented(d)' \cap Presented(e)' = {}
    <3>1. \A d \in Client : Presented(d)' \subseteq Presented(d) /\ Held(d)' \subseteq Held(d) \cup {id}
      BY <1>14
    <3>2. \A d \in Client : id \notin Held(d) /\ id \notin Presented(d)
      BY <1>5, <1>14
    <3>3. \A d \in Client : d # c => Held(d)' = Held(d)
      BY <1>14
    <3>. QED
      BY <3>1, <3>2, <3>3 DEF TokensHeldOnce
  <2>2. \A d \in Client : Presented(d)' \subseteq 1 .. id
    BY <1>5, <1>14
  <2>3. ASSUME ~duplicated, NEW d \in Client, NEW x \in refresh_tokens', x.id \in Held(d)' \cup Presented(d)'
        PROVE  ~x.consumed
    <3>1. CASE x = r
      BY <1>6, <3>1
    <3>2. CASE x \in refresh_tokens
      <4>1. x.id # id
        BY <1>5, <1>7, <3>2
      <4>2. x.id \in Held(d) \cup Presented(d)
        BY <1>14, <2>3, <4>1
      <4>. QED
        BY <2>3, <3>2, <4>2 DEF TokensHeldOnce
    <3>. QED
      BY <1>1, <3>1, <3>2
  <2>. QED
    BY <1>1, <2>1, <2>2, <2>3 DEF TokensHeldOnce
<1>16. ClientsWait'
  <2>1. \A g \in handlers' : g.live /\ g.client = c => ~h.live
    BY <1>1 DEF ClientsWait, c
  <2>. QED
    BY <1>1, <1>8, <2>1, HandlerIs DEF ClientsWait
<1>17. OwnFamilies'
  <2>1. ASSUME NEW d \in Client, NEW x \in access' \cup refresh_tokens', x.id \in Held(d)' \cup Presented(d)'
        PROVE  families'[x.family].client = d
    <3>1. CASE x.id = id
      <4>1. x = t \/ x = r
        BY <1>1, <1>5, <1>7, <3>1
      <4>2. d = c
        BY <1>5, <1>14, <2>1, <3>1
      <4>. QED
        BY <1>3, <1>6, <4>1, <4>2 DEF FamilyGrows, c
    <3>2. CASE x.id # id
      <4>1. x \in access \cup refresh_tokens /\ x.id \in Held(d) \cup Presented(d)
        BY <1>1, <1>6, <1>14, <2>1, <3>2
      <4>2. families[x.family].client = d /\ x.family \in DOMAIN families
        BY <1>7, <4>1 DEF OwnFamilies
      <4>. QED
        BY <1>3, <4>2 DEF FamilyGrows
    <3>. QED
      BY <3>1, <3>2
  <2>2. ASSUME NEW m \in sent, NEW x \in refresh_tokens', m.kind = "refresh", x.id = m.secret
        PROVE  families'[x.family].client = m.client
    <3>1. x.id # id
      BY <1>5, <2>2, HandlerIs
    <3>2. x \in refresh_tokens
      BY <1>1, <1>6, <3>1
    <3>3. families[x.family].client = m.client /\ x.family \in DOMAIN families
      BY <1>7, <2>2, <3>2 DEF OwnFamilies
    <3>. QED
      BY <1>3, <3>3 DEF FamilyGrows
  <2>3. \A g \in handlers' : g.step = "issue" => families'[g.secret].client = g.client
    BY <1>1, <1>3, HandlerIs DEF OwnFamilies, FamilyGrows
  <2>. QED
    BY <1>1, <2>1, <2>2, <2>3 DEF OwnFamilies
<1>18. RequestsGoOn'
  <2>1. MemberIsServed'
    BY <1>8 DEF RequestsGoOn, MemberIsServed
  <2>2. NoncesAreOwn'
    <3>1. \A d \in Client : flow'[d].step = "verify" => flow'[d] = flow[d]
      BY <1>8
    <3>. QED
      BY <1>1, <3>1 DEF RequestsGoOn, NoncesAreOwn
  <2>3. ASSUME NEW d \in Client, ~hit'[d] PROVE Unhit(d)'
    <3>1. CASE d = c /\ h.live
      <4>1. flow'[c].step = "send" /\ session'[c] = id
        BY <1>8, <2>3, <3>1
      <4>. QED
        BY <1>1, <1>4, <1>5, <1>6, <3>1, <4>1 DEF Unhit, Authenticated
    <3>2. CASE ~(d = c /\ h.live)
      <4>1. flow'[d] = flow[d] /\ session'[d] = session[d] /\ hit'[d] = hit[d]
        BY <1>8, <3>2
      <4>. QED
        BY <1>1, <2>3, <4>1 DEF RequestsGoOn, Unhit, Authenticated
    <3>. QED
      BY <3>1, <3>2
  <2>. QED
    BY <2>1, <2>2, <2>3 DEF RequestsGoOn
<1>. QED
  BY <1>9, <1>10, <1>11, <1>12, <1>13, <1>15, <1>16, <1>17, <1>18

LEMMA AuthStep ==
  ASSUME AuthInv, [AuthNext]_authVars
  PROVE  AuthInv'
<1>1. CASE \E c \in Client : \E other \in Client \cup {Nil} : Request(c, other)
  BY <1>1, RequestKeeps
<1>2. CASE \E c \in Client : Send(c) \/ Serve(c, TRUE) \/ Serve(c, FALSE) \/ Challenge(c) \/ Verify(c) \/ Refresh(c)
  BY <1>2, SendKeeps, ServeKeeps, ChallengeKeeps, VerifyKeeps, RefreshKeeps
<1>3. CASE \E c \in Client : RequestLost(c) \/ RequestDropped(c)
  BY <1>3, LostKeeps, DroppedKeeps
<1>4. CASE \E h \in handlers : Lookup(h) \/ Admit(h) \/ TurnedAway(h)
  BY <1>4, LookupKeeps, AdmitKeeps, TurnedAwayKeeps
<1>5. CASE \E h \in handlers : Issue(h, TRUE) \/ Issue(h, FALSE)
  BY <1>5, IssueKeeps
<1>6. CASE Tick \/ SweepTokens
  BY <1>6, TickKeeps, SweepTokensKeeps
<1>7. CASE \E m \in sent : Duplicate(m)
  BY <1>7, DuplicateKeeps
<1>8. CASE UNCHANGED authVars
  <2> USE <1>8 DEF authVars, tables, AuthInv
  <2>1. AuthTypes' /\ RefreshOnce' /\ RevokedHasNoAccess' /\ NonceOnce'
    BY DEF AuthTypes, RefreshOnce, RevokedHasNoAccess, NonceOnce, OneFamilyPerChallenge
  <2>2. HoldersAreAdmitted' /\ TokensHeldOnce' /\ ClientsWait' /\ OwnFamilies'
    BY DEF HoldersAreAdmitted, TokensHeldOnce, ClientsWait, OwnFamilies, Held, Presented
  <2>3. RequestsGoOn'
    BY DEF RequestsGoOn, MemberIsServed, NoncesAreOwn, Unhit, Authenticated
  <2>. QED
    BY <2>1, <2>2, <2>3
<1>. QED
  BY <1>1, <1>2, <1>3, <1>4, <1>5, <1>6, <1>7, <1>8 DEF AuthNext

\* A set with at most one member.
LEMMA AtMostOne ==
  ASSUME NEW S, \A x, y \in S : x = y
  PROVE  Cardinality(S) \in {0, 1} /\ (Cardinality(S) = 1 <=> S # {})
<1>1. CASE S = {}
  BY <1>1, FS_EmptySet
<1>2. CASE S # {}
  <2>1. PICK x : S = {x}
    BY <1>2
  <2>. QED
    BY <2>1, FS_Singleton
<1>. QED
  BY <1>1, <1>2

LEMMA AuthIsSound ==
  ASSUME AuthInv
  PROVE  SessionsAreSound /\ NoReuseWithoutDuplicate /\ MemberIsServed
<1> USE DEF AuthInv
<1>1. AuthTypeOK
  BY DEF AuthTypeOK, AuthTypes
<1>2. OneLiveRefresh
  <2>1. SUFFICES ASSUME NEW f \in DOMAIN families
                 PROVE  Cardinality({r \in refresh_tokens : r.family = f /\ ~r.consumed})
                          + Cardinality({h \in handlers : h.step = "issue" /\ h.secret = f}) <= 1
    BY DEF OneLiveRefresh
  <2> DEFINE R == {r \in refresh_tokens : r.family = f /\ ~r.consumed}
             H == {h \in handlers : h.step = "issue" /\ h.secret = f}
  <2>2. (\A x, y \in R : x = y) /\ (\A x, y \in H : x = y) /\ (R = {} \/ H = {})
    BY DEF RefreshOnce
  <2> HIDE DEF R, H
  <2>3. /\ Cardinality(R) \in {0, 1} /\ (Cardinality(R) = 1 <=> R # {})
        /\ Cardinality(H) \in {0, 1} /\ (Cardinality(H) = 1 <=> H # {})
    BY <2>2, AtMostOne
  <2>4. Cardinality(R) + Cardinality(H) <= 1
    BY <2>2, <2>3
  <2>. QED
    BY <2>4 DEF R, H
<1>3. OneFounder
  <2> DEFINE F == {c \in Client : sponsor[c] = c}
  <2>1. \A x, y \in F : x = y
    BY DEF HoldersAreAdmitted
  <2> HIDE DEF F
  <2>2. Cardinality(F) <= 1
    BY <2>1, AtMostOne
  <2>. QED
    BY <2>2 DEF OneFounder, HoldersAreAdmitted, F
<1>4. NoReuseWithoutDuplicate
  BY DEF NoReuseWithoutDuplicate, TokensHeldOnce
<1>. QED
  BY <1>1, <1>2, <1>3, <1>4 DEF SessionsAreSound, NonceOnce, RequestsGoOn

\* Whatever races in the handlers' separate transactions, and whatever is lost, dropped or
\* delivered twice: a vault has one founder, a challenge opens one session, a session has one
\* live refresh token, and a revoked one no access but what was under way (verify, refresh).
THEOREM SessionsStaySound == AuthSpec => []SessionsAreSound
<1>1. AuthInit => AuthInv
  BY AuthInitially
<1>2. AuthInv /\ [AuthNext]_authVars => AuthInv'
  BY AuthStep
<1>3. AuthInv => SessionsAreSound
  BY AuthIsSound
<1>. QED
  BY <1>1, <1>2, <1>3, PTL DEF AuthSpec

\* A lost reply, a lost request or a dropped future never looks like reuse (reauthenticate,
\* consume_refresh_token).
THEOREM ReuseNeedsADuplicate == AuthSpec => []NoReuseWithoutDuplicate
<1>1. AuthInit => AuthInv
  BY AuthInitially
<1>2. AuthInv /\ [AuthNext]_authVars => AuthInv'
  BY AuthStep
<1>3. AuthInv => NoReuseWithoutDuplicate
  BY AuthIsSound
<1>. QED
  BY <1>1, <1>2, <1>3, PTL DEF AuthSpec

\* The one retry of send is enough for an admitted device that meets no fault (send,
\* reauthenticate).
THEOREM MembersAreServed == AuthSpec => []MemberIsServed
<1>1. AuthInit => AuthInv
  BY AuthInitially
<1>2. AuthInv /\ [AuthNext]_authVars => AuthInv'
  BY AuthStep
<1>3. AuthInv => MemberIsServed
  BY AuthIsSound
<1>. QED
  BY <1>1, <1>2, <1>3, PTL DEF AuthSpec

-----------------------------------------------------------------------------
(***************************************************************************)
(* ServerTime: the signed time and the clock of the client.                *)
(***************************************************************************)
LEMMA TimeInitial == TimeInit => TimeInv
<1>1. ASSUME TimeInit PROVE TimeInv
  <2> USE <1>1 DEF TimeInit
  <2>1. PICK origin \in KeyOrigins : time_key = KeyFor(origin, 0)
    OBVIOUS
  <2>2. time_key.origin = origin /\ pinned = KeyFor(origin, 0).key
    BY <2>1 DEF KeyFor
  <2>3. TimeTypes
    BY <2>2, TimeAssumption DEF TimeTypes
  <2>4. KeyIsPinned
    BY <2>1, <2>2 DEF KeyIsPinned
  <2>. QED
    BY <2>3, <2>4 DEF TimeInv, RepliesInFlight, SampleIsSound, RollbackBounded, PinOutlivesRestart
<1>. QED
  BY <1>1

\* What a signed reply of the server says, and that it is new to no nonce.
LEMMA ServeKeepsTime ==
  ASSUME TimeInv, ServeTime
  PROVE  TimeInv'
<1> DEFINE R == TimeResponse(asking.nonce)
<1>1. /\ replies' = replies \cup {R} /\ asking # Unset
      /\ UNCHANGED <<elapsed, server_clock, local_clock, time_key, pinned, restarts, asking,
                     time_error, asked, time_state, highest, backs, lag>>
  BY DEF ServeTime, Clocks, ServerSide, Measured
<1>2. /\ R.unix_ms = server_clock /\ R.nonce = asking.nonce
      /\ R.sig = [key |-> time_key.key, payload |-> Payload(asking.nonce, server_clock)]
  BY DEF TimeResponse, SignTime
<1> HIDE DEF R
<1> USE DEF TimeInv
<1>3. asking.nonce = asked /\ asking.nonce \in Nat \ {0} /\ asking.at \in Nat
  BY <1>1 DEF RepliesInFlight, TimeTypes, TimeRequest
<1>5. TimeTypes'
  BY <1>1, <1>2, <1>3 DEF TimeTypes
<1>6. KeyIsPinned'
  <2>1. time_key.origin # "Ephemeral" \/ restarts = 0 => time_key.key = pinned
    BY DEF KeyIsPinned, KeyFor
  <2>. QED
    BY <1>1, <1>2, <2>1 DEF KeyIsPinned
<1>7. RepliesInFlight'
  BY <1>1, <1>2 DEF RepliesInFlight, TimeTypes
<1>8. SampleIsSound' /\ RollbackBounded' /\ PinOutlivesRestart'
  BY <1>1 DEF SampleIsSound, RollbackBounded, PinOutlivesRestart
<1>. QED
  BY <1>1, <1>5, <1>6, <1>7, <1>8

LEMMA PassKeepsTime ==
  ASSUME TimeInv, Pass
  PROVE  TimeInv'
<1> USE DEF TimeInv
<1>1. /\ elapsed' = elapsed + 1 /\ server_clock' = server_clock + 1 /\ local_clock' = local_clock + 1
      /\ UNCHANGED <<time_key, pinned, restarts, replies, asking, time_error, asked,
                     time_state, highest, backs, lag>>
  BY DEF Pass, ServerSide, Measured
<1>2. TimeTypes'
  BY <1>1 DEF TimeTypes
<1>3. elapsed \in Nat /\ server_clock \in Int /\ local_clock \in Int
  BY DEF TimeTypes
<1>4. local_clock' - elapsed' = local_clock - elapsed
  BY <1>1, <1>3
<1>5. RepliesInFlight'
  <2>1. SUFFICES ASSUME asking # Unset
                 PROVE  /\ asking.nonce = asked /\ asking.at <= elapsed'
                        /\ local_clock' - elapsed' = asking.local - asking.at
                        /\ restarts = 0 => \A r \in replies :
                             r.nonce = asking.nonce => r.unix_ms \in asking.at .. elapsed'
    BY <1>1 DEF RepliesInFlight
  <2>2. asking.at \in Nat
    BY <2>1 DEF TimeTypes, TimeRequest
  <2>. QED
    BY <1>1, <1>3, <1>4, <2>1, <2>2 DEF RepliesInFlight, TimeTypes
<1>6. SampleIsSound'
  BY <1>1, <1>4 DEF SampleIsSound
<1>7. KeyIsPinned' /\ RollbackBounded' /\ PinOutlivesRestart'
  BY <1>1 DEF KeyIsPinned, RollbackBounded, PinOutlivesRestart
<1>. QED
  BY <1>1, <1>2, <1>5, <1>6, <1>7

LEMMA AskKeepsTime ==
  ASSUME TimeInv, AskTime
  PROVE  TimeInv'
<1> USE DEF TimeInv
<1>1. /\ asked < MaxAsked /\ asked' = asked + 1 /\ time_error' = "Ok"
      /\ asking' = [nonce |-> asked + 1, local |-> local_clock, at |-> elapsed]
      /\ UNCHANGED <<elapsed, server_clock, local_clock, time_key, pinned, restarts, replies,
                     time_state, highest, backs, lag>>
  BY DEF AskTime, Clocks, ServerSide, Measured
<1>2. /\ elapsed \in Nat /\ local_clock \in Int /\ asked \in Nat /\ MaxAsked \in Nat
      /\ \A r \in replies : r.nonce \in 1 .. asked
  BY TimeAssumption DEF TimeTypes
<1>3. TimeTypes'
  <2>1. asking' \in TimeRequest /\ asked' \in 0 .. MaxAsked
    BY <1>1, <1>2 DEF TimeRequest
  <2>2. \A r \in replies : r.unix_ms \in Int /\ r.nonce \in 1 .. asked'
    BY <1>1, <1>2 DEF TimeTypes
  <2>. QED
    BY <1>1, <2>1, <2>2 DEF TimeTypes
<1>4. RepliesInFlight'
  BY <1>1, <1>2 DEF RepliesInFlight
<1>5. SampleIsSound' /\ KeyIsPinned' /\ RollbackBounded' /\ PinOutlivesRestart'
  BY <1>1 DEF SampleIsSound, KeyIsPinned, RollbackBounded, PinOutlivesRestart
<1>. QED
  BY <1>1, <1>3, <1>4, <1>5

LEMMA GiveUpKeepsTime ==
  ASSUME TimeInv, GiveUpOnTime
  PROVE  TimeInv'
<1> USE DEF TimeInv
<1>1. /\ asking' = Unset /\ time_error' = "Transport"
      /\ UNCHANGED <<elapsed, server_clock, local_clock, time_key, pinned, restarts, replies, asked,
                     time_state, highest, backs, lag>>
  BY DEF GiveUpOnTime, Clocks, ServerSide, Measured
<1>2. TimeTypes'
  BY <1>1 DEF TimeTypes
<1>3. /\ RepliesInFlight' /\ SampleIsSound' /\ KeyIsPinned' /\ RollbackBounded'
      /\ PinOutlivesRestart'
  BY <1>1 DEF RepliesInFlight, SampleIsSound, KeyIsPinned, RollbackBounded, PinOutlivesRestart
<1>. QED
  BY <1>1, <1>2, <1>3

LEMMA RestartKeepsTime ==
  ASSUME TimeInv, NEW origin \in KeyOrigins, NEW back \in SetBack, RestartServer(origin, back)
  PROVE  TimeInv'
<1> USE DEF TimeInv
<1>1. /\ restarts' = restarts + 1 /\ origin = time_key.origin
      /\ time_key' = KeyFor(origin, restarts + 1) /\ server_clock' = server_clock - back
      /\ UNCHANGED <<elapsed, local_clock, pinned, replies, asking, time_error, asked,
                     time_state, highest, backs, lag>>
  BY DEF RestartServer, Measured
<1>2. time_key'.origin = origin /\ back \in Nat /\ restarts \in Nat /\ restarts' # 0
  BY <1>1, TimeAssumption DEF KeyFor, TimeTypes
<1>3. TimeTypes'
  BY <1>1, <1>2 DEF TimeTypes
<1>4. KeyIsPinned'
  BY <1>1, <1>2 DEF KeyIsPinned, KeyFor
<1>5. RepliesInFlight' /\ SampleIsSound' /\ RollbackBounded'
  BY <1>1, <1>2 DEF RepliesInFlight, SampleIsSound, RollbackBounded
<1>6. PinOutlivesRestart'
  BY <1>1, <1>2 DEF PinOutlivesRestart
<1>. QED
  BY <1>2, <1>3, <1>4, <1>5, <1>6

\* A sample that is accepted was signed while its request was in flight, and
\* is no more than the tolerance behind the one before it.
LEMMA MeasureKeepsTime ==
  ASSUME TimeInv, NEW reply \in replies, MeasureTime(reply)
  PROVE  TimeInv'
<1> USE DEF TimeInv
<1> DEFINE verified == VerifyTime(asking.nonce, reply)
           verdict == IF verified # "Ok" THEN verified
                      ELSE IF WentBackwards(time_state, reply.unix_ms) THEN "TimeWentBackwards" ELSE "Ok"
<1>1. /\ asking # Unset /\ asking' = Unset /\ time_error' = verdict
      /\ UNCHANGED <<elapsed, server_clock, local_clock, time_key, pinned, restarts, replies, asked>>
  BY DEF MeasureTime, Clocks, ServerSide
<1>2. /\ elapsed \in Nat /\ local_clock \in Int /\ reply.unix_ms \in Int
      /\ asking.at \in Nat /\ asking.local \in Int /\ asking.at <= elapsed
      /\ BackwardsTolerance \in Nat /\ backs \in Nat
  BY <1>1, TimeAssumption DEF TimeTypes, TimeRequest, RepliesInFlight
<1>3. /\ verdict \in {"Ok", "TimeNonceMismatch", "TimeSignatureInvalid", "TimeWentBackwards"}
      /\ verdict = "TimeSignatureInvalid" => reply.sig # [key |-> pinned, payload |-> Payload(reply.nonce, reply.unix_ms)]
      /\ verdict = "Ok" => reply.nonce = asking.nonce /\ ~WentBackwards(time_state, reply.unix_ms)
  BY DEF VerifyTime
<1>4. PinOutlivesRestart' /\ KeyIsPinned' /\ RepliesInFlight'
  <2>1. verdict = "TimeSignatureInvalid" => time_key.origin = "Ephemeral" /\ restarts > 0
    BY <1>3 DEF KeyIsPinned, TimeTypes
  <2> HIDE DEF verdict
  <2>. QED
    BY <1>1, <2>1 DEF PinOutlivesRestart, KeyIsPinned, RepliesInFlight
<1> HIDE DEF verdict
<1>5. CASE verdict # "Ok"
  <2>1. UNCHANGED <<time_state, highest, backs, lag>>
    BY <1>5 DEF MeasureTime, Measured, verdict
  <2>2. TimeTypes'
    BY <1>1, <1>3, <2>1 DEF TimeTypes
  <2>3. SampleIsSound' /\ RollbackBounded'
    BY <1>1, <2>1 DEF SampleIsSound, RollbackBounded
  <2>. QED
    BY <1>1, <1>4, <2>2, <2>3
<1>6. CASE verdict = "Ok"
  <2>1. /\ time_state' = Sample(asking.local, reply.unix_ms)
        /\ highest' = IF highest = Unset \/ reply.unix_ms >= highest THEN reply.unix_ms ELSE highest
        /\ backs' = IF highest = Unset \/ reply.unix_ms >= highest THEN 0 ELSE backs + 1
        /\ lag' = elapsed - asking.at
    BY <1>6 DEF MeasureTime, verdict
  <2>2. /\ time_state' \in TimeSample /\ time_state' # Unset
        /\ time_state'.server = reply.unix_ms /\ time_state'.measured_at = asking.local
        /\ time_state'.offset = reply.unix_ms - asking.local
    BY <1>2, <2>1, TimeAssumption DEF Sample, TimeSample
  <2>3. highest' \in Int /\ highest' # Unset /\ backs' \in Nat /\ lag' \in Nat
    BY <1>2, <2>1, TimeAssumption DEF TimeTypes
  <2>4. TimeTypes'
    BY <1>1, <1>3, <2>2, <2>3 DEF TimeTypes
  <2>5. SampleIsSound'
    <3>1. restarts = 0 => reply.unix_ms \in asking.at .. elapsed
      BY <1>1, <1>3, <1>6 DEF RepliesInFlight
    <3>2. local_clock - elapsed = asking.local - asking.at
      BY <1>1 DEF RepliesInFlight
    <3>3. restarts = 0 => (local_clock - elapsed) + (reply.unix_ms - asking.local) \in 0 .. lag'
      BY <1>2, <2>1, <3>1, <3>2
    <3>. QED
      BY <1>1, <2>2, <2>3, <3>3 DEF SampleIsSound
  <2>6. RollbackBounded'
    <3>1. CASE highest = Unset \/ reply.unix_ms >= highest
      BY <1>2, <2>1, <2>2, <3>1 DEF RollbackBounded
    <3>2. CASE ~(highest = Unset \/ reply.unix_ms >= highest)
      <4>1. /\ time_state # Unset /\ highest \in Int /\ time_state.server \in Int
            /\ time_state.server >= highest - backs * BackwardsTolerance
            /\ reply.unix_ms >= time_state.server - BackwardsTolerance
        BY <1>2, <1>3, <1>6, <3>2 DEF SampleIsSound, TimeTypes, TimeSample, RollbackBounded, WentBackwards
      <4>2. (backs + 1) * BackwardsTolerance = backs * BackwardsTolerance + BackwardsTolerance
        BY <1>2
      <4>3. backs * BackwardsTolerance \in Int
        BY <1>2
      <4>4. reply.unix_ms >= highest - (backs + 1) * BackwardsTolerance
        BY <1>2, <4>1, <4>2, <4>3
      <4>. QED
        BY <2>1, <2>2, <3>2, <4>4 DEF RollbackBounded
    <3>. QED
      BY <3>1, <3>2
  <2>. QED
    BY <1>1, <1>4, <2>4, <2>5, <2>6
<1>. QED
  BY <1>5, <1>6

(***************************************************************************)
(* For every number of requests, replies and restarts and every setting of *)
(* the clocks: the offset a client applies was true during its own request *)
(* (verify_time), a reading never falls behind by more than the tolerance  *)
(* allows (DriftTracker::accept), and a configured key outlives restarts.  *)
(***************************************************************************)
THEOREM TimeStaysSound == TimeSpec => []TimeIsSound
<1>1. TimeInv /\ [TimeNext]_timeVars => TimeInv'
  <2>1. ASSUME TimeInv, UNCHANGED timeVars PROVE TimeInv'
    BY <2>1 DEF timeVars, TimeInv, TimeTypes, KeyIsPinned, RepliesInFlight, SampleIsSound,
         RollbackBounded, PinOutlivesRestart
  <2>. QED
    BY <2>1, PassKeepsTime, AskKeepsTime, ServeKeepsTime, MeasureKeepsTime, GiveUpKeepsTime,
       RestartKeepsTime DEF TimeNext
<1>2. TimeInv => TimeIsSound
  <2>1. SUFFICES ASSUME TimeInv PROVE TimeIsSound
    OBVIOUS
  <2> USE <2>1 DEF TimeInv
  <2>2. TimeTypeOK
    BY TimeAssumption DEF TimeTypeOK, TimeTypes, SampleIsSound, ExceedsWarning, IsStale, OffsetMs
  <2>3. OffsetWithinRoundTrip
    <3>1. SUFFICES ASSUME time_state # Unset, restarts = 0
                   PROVE  EffectiveNow - server_clock \in 0 .. lag
      BY DEF OffsetWithinRoundTrip
    <3>2. /\ time_state.offset \in Int /\ local_clock \in Int /\ elapsed \in Nat
          /\ server_clock = elapsed
      BY <3>1 DEF TimeTypes, TimeSample
    <3>3. (local_clock - elapsed) + time_state.offset \in 0 .. lag
      BY <3>1 DEF SampleIsSound
    <3>4. EffectiveNow - server_clock = (local_clock - elapsed) + time_state.offset
      BY <3>1, <3>2 DEF EffectiveNow, OffsetMs
    <3>. QED
      BY <3>3, <3>4
  <2>. QED
    BY <2>2, <2>3 DEF TimeIsSound
<1>. QED
  BY <1>1, <1>2, TimeInitial, PTL DEF TimeSpec

-----------------------------------------------------------------------------
(***************************************************************************)
(* Requests: the limiter. Products are opaque to the steps, which use these *)
(* facts about them.                                                       *)
(***************************************************************************)
LEMMA TimesSum ==
  ASSUME NEW a \in Int, NEW b \in Int, NEW p \in Int
  PROVE  (a - b) * p = a * p - b * p /\ (a + b) * p = a * p + b * p /\ a * p \in Int /\ b * p \in Int
  OBVIOUS

LEMMA TimesGrow ==
  ASSUME NEW a \in Int, NEW b \in Int, NEW p \in Nat, a <= b
  PROVE  a * p <= b * p
  OBVIOUS

\* Division rounded up.
LEMMA RoundedUp ==
  ASSUME NEW n \in Int, NEW p \in Nat \ {0}
  PROVE  /\ (n + p - 1) \div p \in Int
         /\ ((n + p - 1) \div p) * p >= n
<1>1. PICK q \in Int : q = (n + p - 1) \div p
  OBVIOUS
<1>2. n + p - 1 = p * q + ((n + p - 1) % p) /\ (n + p - 1) % p \in 0 .. p - 1
  BY <1>1
<1>. QED
  BY <1>1, <1>2

\* What the rate of a key is, when it has one.
LEMMA Rates ==
  ASSUME NEW k
  PROVE  /\ RateOf(k).per_minute \in Nat /\ RateOf(k).capacity \in Nat
         /\ Full(RateOf(k)) \in Nat
         /\ ~Unlimited(k) => Full(RateOf(k)) >= 60 /\ RateOf(k).per_minute > 0
<1>1. RateOf(k) \in [per_minute : Nat, capacity : Nat]
  BY RequestAssumption DEF RateOf
<1>. QED
  BY <1>1 DEF Full, Unlimited

\* What a bucket has come to, and what was let through, is within the rate.
LEMMA RefilledWithin ==
  ASSUME LimiterInv, NEW k \in DOMAIN buckets
  PROVE  /\ Refilled(buckets[k], RateOf(k)) \in Nat
         /\ Refilled(buckets[k], RateOf(k)) >= buckets[k].tokens
         /\ k \notin loose =>
              60 * admitted[k] + Refilled(buckets[k], RateOf(k))
                <= Full(RateOf(k)) + seconds * RateOf(k).per_minute
<1> DEFINE p == RateOf(k).per_minute
           b == buckets[k].tokens
           u == buckets[k].updated
<1>1. /\ k \in Keys /\ ~Unlimited(k) /\ b \in Nat /\ u \in Nat /\ u <= seconds /\ seconds \in Nat
      /\ admitted[k] \in Nat /\ p \in Nat /\ Full(RateOf(k)) \in Nat
  BY Rates DEF LimiterInv, LimiterTypes
<1>2. (seconds - u) * p = seconds * p - u * p /\ seconds * p \in Int /\ u * p \in Int
  BY <1>1, TimesSum
<1>3. u * p <= seconds * p
  BY <1>1, TimesGrow
<1>4. Refilled(buckets[k], RateOf(k)) = b + (seconds - u) * p
  BY DEF Refilled
<1>5. k \notin loose => 60 * admitted[k] + b <= Full(RateOf(k)) + u * p
  BY <1>1 DEF LimiterInv, WithinBudget
<1> HIDE DEF p, b, u
<1>6. Refilled(buckets[k], RateOf(k)) = b + (seconds * p - u * p)
  BY <1>2, <1>4
<1>7. k \notin loose => 60 * admitted[k] + (b + (seconds * p - u * p)) <= Full(RateOf(k)) + seconds * p
  BY <1>1, <1>2, <1>5
<1>. QED
  BY <1>1, <1>2, <1>3, <1>6, <1>7 DEF p, b

\* What a key may spend.
LEMMA AvailableWithin ==
  ASSUME LimiterInv, NEW k \in Keys, ~Unlimited(k)
  PROVE  /\ Available(k) \in Nat /\ Available(k) <= Full(RateOf(k))
         /\ k \notin loose =>
              60 * admitted[k] + Available(k) <= Full(RateOf(k)) + seconds * RateOf(k).per_minute
         /\ k \in DOMAIN buckets =>
              Available(k) = IF Refilled(buckets[k], RateOf(k)) < Full(RateOf(k))
                             THEN Refilled(buckets[k], RateOf(k)) ELSE Full(RateOf(k))
<1>1. /\ Full(RateOf(k)) \in Nat /\ admitted[k] \in Nat /\ seconds \in Nat
      /\ seconds * RateOf(k).per_minute \in Int
  BY Rates, TimesSum DEF LimiterInv, LimiterTypes
<1>2. CASE k \in DOMAIN buckets
  <2>1. SheddableBy(k) = {}
    BY <1>2 DEF SheddableBy
  <2>2. Available(k) = IF Refilled(buckets[k], RateOf(k)) < Full(RateOf(k))
                       THEN Refilled(buckets[k], RateOf(k)) ELSE Full(RateOf(k))
    BY <1>2, <2>1 DEF Available
  <2>3. /\ Refilled(buckets[k], RateOf(k)) \in Nat
        /\ k \notin loose => 60 * admitted[k] + Refilled(buckets[k], RateOf(k))
                               <= Full(RateOf(k)) + seconds * RateOf(k).per_minute
    BY <1>2, RefilledWithin
  <2>. QED
    BY <1>1, <2>2, <2>3
<1>3. CASE k \notin DOMAIN buckets
  <2>1. Available(k) = Full(RateOf(k))
    BY <1>3 DEF Available
  <2>2. k \notin loose => 60 * admitted[k] <= seconds * RateOf(k).per_minute
    BY <1>3 DEF LimiterInv, WithinBudget
  <2>. QED
    BY <1>1, <1>3, <2>1, <2>2
<1>. QED
  BY <1>2, <1>3

\* Buckets that are full may go.
LEMMA DropKeepsBudget ==
  ASSUME LimiterInv, NEW k \in DOMAIN buckets, k \notin loose,
         Refilled(buckets[k], RateOf(k)) >= Full(RateOf(k))
  PROVE  60 * admitted[k] <= seconds * RateOf(k).per_minute
<1>1. /\ Full(RateOf(k)) \in Nat /\ admitted[k] \in Nat /\ seconds \in Nat
      /\ seconds * RateOf(k).per_minute \in Int
  BY Rates, TimesSum DEF LimiterInv, LimiterTypes
<1>. QED
  BY <1>1, RefilledWithin

LEMMA ChargeKeepsLimits ==
  ASSUME LimiterInv, NEW key \in Keys, Charge(key), UNCHANGED seconds
  PROVE  LimiterInv'
<1>1. CASE Unlimited(key)
  BY <1>1 DEF Charge, LimiterInv, LimiterTypes, WithinBudget, PromisesKept
<1>2. CASE ~Unlimited(key)
  <2> DEFINE shed == SheddableBy(key)
             held == Available(key)
             p == RateOf(key).per_minute
  <2>1. /\ DOMAIN buckets' = (DOMAIN buckets \ shed) \cup {key}
        /\ buckets'[key] = [tokens |-> Left(held), updated |-> seconds]
        /\ \A k \in (DOMAIN buckets \ shed) \ {key} : buckets'[k] = buckets[k]
        /\ admitted' = IF held >= 60 THEN [admitted EXCEPT ![key] = @ + 1] ELSE admitted
        /\ told' = [told EXCEPT ![key] = IF held >= 60 THEN Nothing ELSE seconds + RetryAfter(key)]
        /\ loose' = loose \cup {k \in shed : Refilled(buckets[k], RateOf(k)) < Full(RateOf(k))}
    BY <1>2 DEF Charge, Only
  <2>2. shed \subseteq DOMAIN buckets /\ key \notin shed
    BY DEF SheddableBy
  <2>3. /\ held \in Nat /\ held <= Full(RateOf(key))
        /\ key \notin loose => 60 * admitted[key] + held <= Full(RateOf(key)) + seconds * p
    BY <1>2, AvailableWithin
  <2>4. /\ seconds \in Nat /\ admitted \in [Keys -> Nat] /\ told \in [Keys -> Int \cup {Nothing}]
        /\ p \in Nat \ {0} /\ Full(RateOf(key)) \in Nat /\ seconds * p \in Int
    BY <1>2, Rates, TimesSum DEF LimiterInv, LimiterTypes
  <2> HIDE DEF shed, held, p
  <2>5. /\ Left(held) \in Nat /\ Left(held) <= Full(RateOf(key))
        /\ held >= 60 => Left(held) = held - 60
        /\ held < 60 => Left(held) = held
    BY <2>3, <2>4 DEF Left
  <2>6. held < 60 => /\ RetryAfter(key) \in Int
                     /\ held + RetryAfter(key) * p >= 60
    <3>1. RetryAfter(key) = ((60 - held) + p - 1) \div p
      BY DEF RetryAfter, held, p
    <3>2. 60 - held \in Int
      BY <2>3
    <3>3. RetryAfter(key) \in Int /\ RetryAfter(key) * p >= 60 - held
      BY <2>4, <3>1, <3>2, RoundedUp
    <3>4. RetryAfter(key) * p \in Int
      BY <2>4, <3>3, TimesSum
    <3>. QED
      BY <2>3, <3>3, <3>4
  <2>7. LimiterTypes'
    <3>1. admitted' \in [Keys -> Nat] /\ told' \in [Keys -> Int \cup {Nothing}]
      BY <2>1, <2>3, <2>4, <2>6
    <3>2. ASSUME NEW k \in DOMAIN buckets'
          PROVE  /\ k \in Keys /\ ~Unlimited(k)
                 /\ buckets'[k].tokens \in 0 .. Full(RateOf(k)) /\ buckets'[k].updated \in 0 .. seconds
      <4>1. CASE k = key
        BY <1>2, <2>1, <2>4, <2>5, <4>1
      <4>2. CASE k # key
        BY <2>1, <4>2 DEF LimiterInv, LimiterTypes
      <4>. QED
        BY <4>1, <4>2
    <3>. QED
      BY <2>4, <3>1, <3>2 DEF LimiterTypes, Unlimited
  <2>8. WithinBudget'
    <3>1. SUFFICES ASSUME NEW k \in Keys \ loose', ~Unlimited(k)
                   PROVE  IF k \in DOMAIN buckets'
                          THEN 60 * admitted'[k] + buckets'[k].tokens
                                 <= Full(RateOf(k)) + buckets'[k].updated * RateOf(k).per_minute
                          ELSE 60 * admitted'[k] <= seconds * RateOf(k).per_minute
      BY DEF WithinBudget, Unlimited
    <3>2. k \notin loose
      BY <2>1, <3>1
    <3>3. CASE k = key
      <4>1. 60 * admitted'[key] + Left(held) = 60 * admitted[key] + held
        BY <2>1, <2>3, <2>4, <2>5
      <4>. QED
        BY <2>1, <2>3, <3>2, <3>3, <4>1 DEF p
    <3>4. CASE k # key /\ k \in shed
      <4>1. ~(Refilled(buckets[k], RateOf(k)) < Full(RateOf(k)))
        BY <2>1, <3>1, <3>4
      <4>2. Refilled(buckets[k], RateOf(k)) >= Full(RateOf(k))
        BY <2>2, <3>4, <4>1, Rates, RefilledWithin
      <4>3. 60 * admitted[k] <= seconds * RateOf(k).per_minute
        BY <2>2, <3>2, <3>4, <4>2, DropKeepsBudget
      <4>. QED
        BY <2>1, <2>4, <3>4, <4>3
    <3>5. CASE k # key /\ k \notin shed
      <4>1. k \in DOMAIN buckets' <=> k \in DOMAIN buckets
        BY <2>1, <3>5
      <4>2. admitted'[k] = admitted[k] /\ (k \in DOMAIN buckets => buckets'[k] = buckets[k])
        BY <2>1, <2>4, <3>5
      <4>. QED
        BY <3>1, <3>2, <4>1, <4>2 DEF LimiterInv, WithinBudget
    <3>. QED
      BY <3>3, <3>4, <3>5
  <2>9. PromisesKept'
    <3>1. SUFFICES ASSUME NEW k \in Keys, told'[k] # Nothing
                   PROVE  /\ ~Unlimited(k)
                          /\ k \in DOMAIN buckets' =>
                               buckets'[k].tokens + (told'[k] - buckets'[k].updated) * RateOf(k).per_minute >= 60
      BY DEF PromisesKept, Unlimited
    <3>2. CASE k = key
      <4>1. held < 60 /\ told'[k] = seconds + RetryAfter(key)
        BY <2>1, <2>3, <2>4, <3>1, <3>2
      <4>2. told'[k] - seconds = RetryAfter(key)
        BY <2>4, <2>6, <4>1
      <4>3. buckets'[k].tokens = held /\ buckets'[k].updated = seconds
        BY <2>1, <2>5, <3>2, <4>1
      <4>. QED
        BY <1>2, <2>6, <3>2, <4>1, <4>2, <4>3 DEF p
    <3>3. CASE k # key
      <4>1. told'[k] = told[k] /\ (k \in DOMAIN buckets' => k \in DOMAIN buckets /\ buckets'[k] = buckets[k])
        BY <2>1, <2>4, <3>3
      <4>. QED
        BY <3>1, <4>1 DEF LimiterInv, PromisesKept
    <3>. QED
      BY <3>2, <3>3
  <2>. QED
    BY <2>7, <2>8, <2>9 DEF LimiterInv
<1>. QED
  BY <1>1, <1>2

\* evict_idle drops full buckets only.
LEMMA EvictKeepsLimits ==
  ASSUME LimiterInv, EvictIdle
  PROVE  LimiterInv'
<1>1. /\ DOMAIN buckets' = DOMAIN buckets \ IdleKeys
      /\ \A k \in DOMAIN buckets \ IdleKeys : buckets'[k] = buckets[k]
      /\ UNCHANGED <<seconds, admitted, told, loose>>
  BY DEF EvictIdle, Only
<1>2. \A k \in IdleKeys : k \in DOMAIN buckets /\ Refilled(buckets[k], RateOf(k)) >= Full(RateOf(k))
  BY DEF IdleKeys
<1>3. LimiterTypes'
  BY <1>1 DEF LimiterInv, LimiterTypes, Unlimited
<1>4. PromisesKept'
  BY <1>1 DEF LimiterInv, PromisesKept, Unlimited
<1>5. WithinBudget'
  <2>1. SUFFICES ASSUME NEW k \in Keys \ loose, ~Unlimited(k)
                 PROVE  IF k \in DOMAIN buckets'
                        THEN 60 * admitted[k] + buckets'[k].tokens
                               <= Full(RateOf(k)) + buckets'[k].updated * RateOf(k).per_minute
                        ELSE 60 * admitted[k] <= seconds * RateOf(k).per_minute
    BY <1>1 DEF WithinBudget, Unlimited
  <2>2. CASE k \in IdleKeys
    <3>1. 60 * admitted[k] <= seconds * RateOf(k).per_minute
      BY <1>2, <2>1, <2>2, DropKeepsBudget
    <3>. QED
      BY <1>1, <2>2, <3>1
  <2>3. CASE k \notin IdleKeys
    BY <1>1, <2>1, <2>3 DEF LimiterInv, WithinBudget
  <2>. QED
    BY <2>2, <2>3
<1>. QED
  BY <1>3, <1>4, <1>5 DEF LimiterInv

LEMMA SecondKeepsLimits ==
  ASSUME LimiterInv, Second
  PROVE  LimiterInv'
<1>1. seconds' = seconds + 1 /\ UNCHANGED <<buckets, admitted, told, loose>>
  BY DEF Second, LimiterVars
<1>2. seconds \in Nat
  BY DEF LimiterInv, LimiterTypes
<1>3. LimiterTypes'
  BY <1>1, <1>2 DEF LimiterInv, LimiterTypes, Unlimited
<1>4. PromisesKept'
  BY <1>1 DEF LimiterInv, PromisesKept, Unlimited
<1>5. WithinBudget'
  <2>1. ASSUME NEW k \in Keys, 60 * admitted[k] <= seconds * RateOf(k).per_minute
        PROVE  60 * admitted[k] <= seconds' * RateOf(k).per_minute
    <3>1. /\ RateOf(k).per_minute \in Nat /\ admitted[k] \in Nat
          /\ seconds * RateOf(k).per_minute \in Int /\ seconds' * RateOf(k).per_minute \in Int
      BY <1>1, <1>2, Rates, TimesSum DEF LimiterInv, LimiterTypes
    <3>2. seconds * RateOf(k).per_minute <= seconds' * RateOf(k).per_minute
      BY <1>1, <1>2, <3>1, TimesGrow
    <3>. QED
      BY <2>1, <3>1, <3>2
  <2>. QED
    BY <1>1, <2>1 DEF LimiterInv, WithinBudget, Unlimited
<1>. QED
  BY <1>3, <1>4, <1>5 DEF LimiterInv

\* What the limiter's invariant is for.
LEMMA LimitsHold ==
  ASSUME LimiterInv
  PROVE  WithinRate /\ RetryAfterSuffices
<1>1. WithinRate
  <2>1. SUFFICES ASSUME NEW k \in Keys \ loose, ~Unlimited(k)
                 PROVE  60 * admitted[k] <= Full(RateOf(k)) + seconds * RateOf(k).per_minute
    BY DEF WithinRate
  <2>2. /\ Available(k) \in Nat
        /\ 60 * admitted[k] + Available(k) <= Full(RateOf(k)) + seconds * RateOf(k).per_minute
    BY <2>1, AvailableWithin
  <2>3. /\ admitted[k] \in Nat /\ Full(RateOf(k)) \in Nat /\ seconds * RateOf(k).per_minute \in Int
    BY Rates, TimesSum DEF LimiterInv, LimiterTypes
  <2>. QED
    BY <2>2, <2>3
<1>2. RetryAfterSuffices
  <2>1. SUFFICES ASSUME NEW k \in Keys, told[k] # Nothing, seconds >= told[k], ~Unlimited(k)
                 PROVE  Available(k) >= 60
    BY DEF RetryAfterSuffices, Admits
  <2>2. Full(RateOf(k)) \in Nat /\ Full(RateOf(k)) >= 60 /\ RateOf(k).per_minute \in Nat
    BY <2>1, Rates
  <2>3. CASE k \notin DOMAIN buckets
    BY <2>2, <2>3 DEF Available
  <2>4. CASE k \in DOMAIN buckets
    <3> DEFINE p == RateOf(k).per_minute
               b == buckets[k].tokens
               u == buckets[k].updated
    <3>1. /\ b \in Nat /\ u \in Nat /\ seconds \in Nat /\ told[k] \in Int
          /\ b + (told[k] - u) * p >= 60
      BY <2>1, <2>4 DEF LimiterInv, LimiterTypes, PromisesKept
    <3>2. told[k] - u \in Int /\ seconds - u \in Int /\ told[k] - u <= seconds - u
      BY <2>1, <3>1
    <3> HIDE DEF p, b, u
    <3>3. (told[k] - u) * p <= (seconds - u) * p /\ (told[k] - u) * p \in Int /\ (seconds - u) * p \in Int
      BY <2>2, <3>2, TimesGrow, TimesSum DEF p
    <3>4. b + (seconds - u) * p >= 60
      BY <3>1, <3>3
    <3>5. Refilled(buckets[k], RateOf(k)) >= 60
      BY <3>4 DEF Refilled, p, b, u
    <3>6. Available(k) = IF Refilled(buckets[k], RateOf(k)) < Full(RateOf(k))
                         THEN Refilled(buckets[k], RateOf(k)) ELSE Full(RateOf(k))
      BY <2>1, <2>4, AvailableWithin
    <3>. QED
      BY <2>2, <3>5, <3>6
  <2>. QED
    BY <2>3, <2>4
<1>. QED
  BY <1>1, <1>2
-----------------------------------------------------------------------------
(***************************************************************************)
(* The checks of a route.                                                  *)
(***************************************************************************)
LEMMA FirstErrorIs ==
  ASSUME NEW n \in Nat, NEW e, DOMAIN e = 1 .. n
  PROVE  /\ FirstError(e) = "Ok" => \A i \in 1 .. n : e[i] = "Ok"
         /\ FirstError(e) # "Ok" => \E i \in 1 .. n : FirstError(e) = e[i]
<1> DEFINE found == {i \in DOMAIN e : e[i] # "Ok"}
<1>1. CASE found = {}
  BY <1>1 DEF FirstError
<1>2. CASE found # {}
  <2>1. found \in SUBSET (1 .. n) /\ IsFiniteSet(1 .. n) /\ found \subseteq Nat
    BY FS_Interval
  <2>2. IsFiniteSet(found)
    <3> HIDE DEF found
    <3>. QED
      BY <2>1, FS_Subset
  <2>3. \E i \in found : \A j \in found : i <= j
    <3> HIDE DEF found
    <3>. QED
      BY <1>2, <2>1, <2>2, MinOfFinite
  <2>4. PICK i \in found : FirstError(e) = e[i]
    <3> DEFINE First(i) == \A j \in found : i <= j
    <3>1. FirstError(e) = e[CHOOSE i \in found : First(i)]
      BY <1>2 DEF FirstError
    <3>2. (CHOOSE i \in found : First(i)) \in found
      <4>1. \E i \in found : First(i)
        BY <2>3
      <4> HIDE DEF First, found
      <4>. QED
        BY <4>1
    <3>. QED
      BY <3>1, <3>2
  <2>. QED
    BY <2>4
<1>. QED
  BY <1>1, <1>2

\* Errors that come from the checks and never from the store.
Refusals == {"BadRequest", "Unauthorized", "Forbidden", "NotFound", "MethodNotAllowed",
             "PreconditionRequired", "PayloadTooLarge", "UnsupportedMediaType", "RateLimited"}

LEMMA ListsRefuse ==
  ASSUME NEW n \in Nat, NEW e, DOMAIN e = 1 .. n, \A i \in 1 .. n : e[i] \in Refusals \cup {"Ok"}
  PROVE  FirstError(e) \in Refusals \cup {"Ok"}
  BY FirstErrorIs

LEMMA PreconditionIs ==
  ASSUME NEW r
  PROVE  /\ PreconditionError(r) \in Refusals \cup {"Ok"}
         /\ PreconditionError(r) = "Ok" => Cardinality({"if_match", "if_none_match"} \cap DOMAIN r) = 1
<1>1. PreconditionError(r) \in Refusals \cup {"Ok"}
  BY DEF PreconditionError, Needs, Refusals
<1>2. ASSUME PreconditionError(r) = "Ok"
      PROVE  Cardinality({"if_match", "if_none_match"} \cap DOMAIN r) = 1
  <2>1. \/ {"if_match", "if_none_match"} \cap DOMAIN r = {"if_match"}
        \/ {"if_match", "if_none_match"} \cap DOMAIN r = {"if_none_match"}
    BY <1>2 DEF PreconditionError, Needs
  <2>. QED
    BY <2>1, FS_Singleton
<1>. QED
  BY <1>1, <1>2

LEMMA BodyIs == \A r : ReadBody(r) \in Refusals \cup {"Ok"}
<1>1. ASSUME NEW r PROVE ReadBody(r) \in Refusals \cup {"Ok"}
  <2> DEFINE e == <<Needs(Part(r, "media") = "json", "UnsupportedMediaType"),
                    Needs(r.size <= MaxBodyLen, "PayloadTooLarge"),
                    Needs(Part(r, "envelope") # Nothing, "BadRequest")>>
  <2>1. DOMAIN e = 1 .. 3 /\ \A i \in 1 .. 3 : e[i] \in Refusals \cup {"Ok"}
    BY DEF Needs, Refusals
  <2>2. ReadBody(r) = FirstError(e)
    BY DEF ReadBody
  <2> HIDE DEF e
  <2>. QED
    BY <2>1, <2>2, ListsRefuse
<1>. QED
  BY <1>1

LEMMA BlobIs == \A b : DecodeBlob(b) \in Refusals \cup {"Ok"}
<1>1. ASSUME NEW b PROVE DecodeBlob(b) \in Refusals \cup {"Ok"}
  <2> DEFINE e == <<Needs(b.length <= MaxEnvelopeLen + 3, "PayloadTooLarge"),
                    Needs(b.base64, "BadRequest"),
                    Needs(b.length <= MaxEnvelopeLen, "PayloadTooLarge"),
                    Needs(b.length > 0, "BadRequest")>>
  <2>1. DOMAIN e = 1 .. 4 /\ \A i \in 1 .. 4 : e[i] \in Refusals \cup {"Ok"}
    BY DEF Needs, Refusals
  <2>2. DecodeBlob(b) = FirstError(e)
    BY DEF DecodeBlob
  <2> HIDE DEF e
  <2>. QED
    BY <2>1, <2>2, ListsRefuse
<1>. QED
  BY <1>1

\* What the checks of the routes over a vault's rows come to.
LEMMA ChangesIs ==
  ASSUME NEW r
  PROVE  Changes(r) \in Refusals \cup {"Ok"} /\ (Changes(r) = "Ok" => VaultOf(r) = r.vault)
<1> DEFINE e == <<ParseId(r.vault), ForVault(r), ParseSince(Part(r, "since")), ParseLimit(Part(r, "limit"))>>
<1>1. DOMAIN e = 1 .. 4 /\ \A i \in 1 .. 4 : e[i] \in Refusals \cup {"Ok"}
  BY DEF ParseId, ForVault, ParseSince, ParseLimit, Needs, Refusals
<1>2. Changes(r) = FirstError(e) /\ e[2] = ForVault(r)
  BY DEF Changes
<1>3. ForVault(r) = "Ok" => VaultOf(r) = r.vault
  BY DEF ForVault, Needs
<1> HIDE DEF e
<1>4. FirstError(e) \in Refusals \cup {"Ok"}
  BY <1>1, ListsRefuse
<1>5. FirstError(e) = "Ok" => \A i \in 1 .. 4 : e[i] = "Ok"
  BY <1>1, FirstErrorIs, 4 \in Nat
<1>. QED
  BY <1>2, <1>3, <1>4, <1>5

LEMMA PutIs ==
  ASSUME NEW r
  PROVE  /\ PutItem(r) \in Refusals \cup {"Ok"}
         /\ PutItem(r) = "Ok" => VaultOf(r) = r.vault /\ PreconditionError(r) = "Ok"
<1> DEFINE blob == IF Part(r, "envelope") = Nothing THEN "Ok" ELSE DecodeBlob(r.envelope)
           e == <<ReadBody(r), ParseId(r.vault), ParseId(r.item), ForVault(r), PreconditionError(r), blob>>
<1>1. blob \in Refusals \cup {"Ok"}
  BY BlobIs
<1>2. PutItem(r) = FirstError(e)
  BY DEF PutItem
<1> HIDE DEF blob
<1>3. ForVault(r) \in Refusals \cup {"Ok"} /\ ParseId(r.vault) \in Refusals \cup {"Ok"}
        /\ ParseId(r.item) \in Refusals \cup {"Ok"} /\ (ForVault(r) = "Ok" => VaultOf(r) = r.vault)
  BY DEF ParseId, ForVault, Needs, Refusals
<1>4. DOMAIN e = 1 .. 6 /\ \A i \in 1 .. 6 : e[i] \in Refusals \cup {"Ok"}
  <2> DEFINE R == Refusals \cup {"Ok"}
  <2>1. PreconditionError(r) \in R /\ ReadBody(r) \in R /\ ForVault(r) \in R /\ ParseId(r.vault) \in R /\ ParseId(r.item) \in R
          /\ blob \in R
    BY <1>1, <1>3, BodyIs, PreconditionIs
  <2> HIDE DEF R
  <2>2. DOMAIN e = 1 .. 6 /\ \A i \in 1 .. 6 : e[i] \in R
    BY <2>1
  <2>. QED
    BY <2>2 DEF R
<1>5. e[4] = ForVault(r) /\ e[5] = PreconditionError(r)
  OBVIOUS
<1> HIDE DEF e
<1>6. FirstError(e) \in Refusals \cup {"Ok"}
  BY <1>4, ListsRefuse
<1>7. FirstError(e) = "Ok" => \A i \in 1 .. 6 : e[i] = "Ok"
  BY <1>4, FirstErrorIs, 6 \in Nat
<1>. QED
  BY <1>2, <1>3, <1>5, <1>6, <1>7

LEMMA DeleteIs ==
  ASSUME NEW r
  PROVE  /\ DeleteItem(r) \in Refusals \cup {"Ok"}
         /\ DeleteItem(r) = "Ok" =>
              VaultOf(r) = r.vault /\ PreconditionError(r) = "Ok" /\ ~ExpectsAbsent(r)
<1> DEFINE last == IF PreconditionError(r) = "Ok" THEN Needs(~ExpectsAbsent(r), "BadRequest") ELSE "Ok"
           e == <<ParseId(r.vault), ParseId(r.item), ForVault(r), PreconditionError(r), last>>
<1>1. last \in Refusals \cup {"Ok"} /\ (last = "Ok" /\ PreconditionError(r) = "Ok" => ~ExpectsAbsent(r))
  BY DEF Needs, Refusals
<1>2. DeleteItem(r) = FirstError(e)
  BY DEF DeleteItem
<1> HIDE DEF last
<1>3. ForVault(r) \in Refusals \cup {"Ok"} /\ ParseId(r.vault) \in Refusals \cup {"Ok"}
        /\ ParseId(r.item) \in Refusals \cup {"Ok"} /\ (ForVault(r) = "Ok" => VaultOf(r) = r.vault)
  BY DEF ParseId, ForVault, Needs, Refusals
<1>4. DOMAIN e = 1 .. 5 /\ \A i \in 1 .. 5 : e[i] \in Refusals \cup {"Ok"}
  <2> DEFINE R == Refusals \cup {"Ok"}
  <2>1. PreconditionError(r) \in R /\ ForVault(r) \in R /\ ParseId(r.vault) \in R /\ ParseId(r.item) \in R
          /\ last \in R
    BY <1>1, <1>3, PreconditionIs
  <2> HIDE DEF R
  <2>2. DOMAIN e = 1 .. 5 /\ \A i \in 1 .. 5 : e[i] \in R
    BY <2>1
  <2>. QED
    BY <2>2 DEF R
<1>5. e[3] = ForVault(r) /\ e[4] = PreconditionError(r) /\ e[5] = last
  OBVIOUS
<1> HIDE DEF e
<1>6. FirstError(e) \in Refusals \cup {"Ok"}
  BY <1>4, ListsRefuse
<1>7. FirstError(e) = "Ok" => \A i \in 1 .. 5 : e[i] = "Ok"
  BY <1>4, FirstErrorIs, 5 \in Nat
<1>. QED
  BY <1>1, <1>2, <1>3, <1>5, <1>6, <1>7

LEMMA RouteIs ==
  ASSUME NEW r
  PROVE  /\ HandlerOf(r) \in Refusals \cup {"Ok"}
         /\ (HandlerOf(r) = "Ok" /\ r.route \in VaultRoutes) =>
              /\ VaultOf(r) = r.vault
              /\ r.route # "changes" => Cardinality({"if_match", "if_none_match"} \cap DOMAIN r) = 1
              /\ r.route = "delete" => ~ExpectsAbsent(r)
<1>1. Time(r) \in Refusals \cup {"Ok"}
  BY DEF Time, DecodeNonce, Needs, Refusals
<1>2. CASE r.route = "changes"
  BY <1>2, ChangesIs DEF HandlerOf
<1>3. CASE r.route = "put"
  <2>1. HandlerOf(r) = PutItem(r)
    BY <1>3 DEF HandlerOf
  <2>. QED
    BY <1>3, <2>1, PutIs, PreconditionIs
<1>4. CASE r.route = "delete"
  <2>1. HandlerOf(r) = DeleteItem(r)
    BY <1>4 DEF HandlerOf
  <2>. QED
    BY <1>4, <2>1, DeleteIs, PreconditionIs
<1>5. CASE r.route \notin {"changes", "put", "delete"}
  <2>1. HandlerOf(r) \in {Time(r), "Ok", "MethodNotAllowed", "NotFound"}
    BY <1>5 DEF HandlerOf
  <2>. QED
    BY <1>1, <1>5, <2>1 DEF Refusals, VaultRoutes
<1>. QED
  BY <1>2, <1>3, <1>4, <1>5

LEMMA StoreIs == \A r : StoreAnswers(r) \subseteq ErrorCodes \cup {"Ok"}
  BY DEF StoreAnswers, ErrorCodes

LEMMA RefusalsAre ==
  /\ Refusals \subseteq ErrorCodes
  /\ \A e \in Refusals : e \notin {"Ok", "Conflict", "Internal", "QuotaExceeded"}
  BY DEF Refusals, ErrorCodes

-----------------------------------------------------------------------------
(***************************************************************************)
(* The steps.                                                              *)
(***************************************************************************)
LEMMA ObserveKeeps ==
  ASSUME LimiterInv, AnswersRightly, NEW r \in HttpRequests, Observe(r)
  PROVE  LimiterInv' /\ AnswersRightly'
<1> DEFINE key == <<"ip", r.address>>
<1>1. key \in Keys
  BY DEF Keys
<1>2. Charge(key) /\ UNCHANGED <<seconds, retry>>
  BY DEF Observe
<1>3. answer' # Nothing => answer'.error \in {"RateLimited", "PayloadTooLarge"}
  BY DEF Observe, Needs
<1> HIDE DEF key
<1>4. LimiterInv'
  BY <1>1, <1>2, ChargeKeepsLimits
<1>5. AnswersRightly'
  BY <1>2, <1>3 DEF AnswersRightly, ServedRightly, ErrorCodes
<1>. QED
  BY <1>4, <1>5

LEMMA HandleKeeps ==
  ASSUME LimiterInv, AnswersRightly, Handle
  PROVE  LimiterInv' /\ AnswersRightly'
<1> DEFINE r == inflight
           key == <<"vault", VaultOf(r)>>
           open == r.route \notin VaultRoutes \cup {"quota"}
           e == <<Needs(VaultOf(r) # Nothing, "Unauthorized"),
                  IF VaultOf(r) # Nothing THEN Needs(Admits(key), "RateLimited") ELSE "Ok">>
           refused == IF open THEN "Ok" ELSE FirstError(e)
           checked == IF refused # "Ok" THEN refused ELSE HandlerOf(r)
<1>1. /\ IF open \/ VaultOf(r) = Nothing THEN UNCHANGED LimiterVars ELSE Charge(key)
      /\ UNCHANGED <<seconds, retry>>
  BY DEF Handle
<1>2. PICK error \in IF checked # "Ok" THEN {checked} ELSE StoreAnswers(r) :
        answer' = [request |-> r, error |-> error,
                   charged |-> {<<"ip", r.address>>} \cup (IF open \/ VaultOf(r) = Nothing THEN {} ELSE {key})]
  BY DEF Handle
<1>3. LimiterInv'
  <2>1. CASE open \/ VaultOf(r) = Nothing
    BY <1>1, <2>1 DEF LimiterVars, LimiterInv, LimiterTypes, WithinBudget, PromisesKept, Unlimited
  <2>2. CASE ~(open \/ VaultOf(r) = Nothing)
    <3>1. key \in Keys
      BY <2>2 DEF VaultOf, Keys
    <3>2. Charge(key)
      BY <1>1, <2>2
    <3> HIDE DEF key
    <3>. QED
      BY <1>1, <3>1, <3>2, ChargeKeepsLimits
  <2>. QED
    BY <2>1, <2>2
<1>4. /\ DOMAIN e = 1 .. 2 /\ \A i \in 1 .. 2 : e[i] \in Refusals \cup {"Ok"}
      /\ e[1] = "Ok" => VaultOf(r) # Nothing
  BY DEF Needs, Refusals
<1>5. FirstError(e) \in Refusals \cup {"Ok"} /\ (FirstError(e) = "Ok" => VaultOf(r) # Nothing)
  <2> HIDE DEF e, key, r
  <2>1. FirstError(e) \in Refusals \cup {"Ok"}
    BY <1>4, ListsRefuse
  <2>2. FirstError(e) = "Ok" => \A i \in 1 .. 2 : e[i] = "Ok"
    BY <1>4, FirstErrorIs, 2 \in Nat
  <2>. QED
    BY <1>4, <2>1, <2>2
<1> HIDE DEF e
<1>6. checked \in Refusals \cup {"Ok"}
  BY <1>5, RouteIs
<1>7. error \in ErrorCodes \cup {"Ok"}
  BY <1>2, <1>6, StoreIs, RefusalsAre
<1>8. ServedRightly'
  <2>1. SUFFICES ASSUME r.route \in VaultRoutes, error \in {"Ok", "Conflict", "Internal", "QuotaExceeded"}
                 PROVE  /\ VaultOf(r) = r.vault
                        /\ answer'.charged = {<<"ip", r.address>>, <<"vault", r.vault>>}
                        /\ r.route # "changes" => Cardinality({"if_match", "if_none_match"} \cap DOMAIN r) = 1
                        /\ r.route = "delete" => ~ExpectsAbsent(r)
    BY <1>2 DEF ServedRightly, VaultOf, Part, ExpectsAbsent
  <2>2. checked = "Ok"
    BY <1>2, <1>6, <2>1, RefusalsAre
  <2>3. ~open
    BY <2>1
  <2>4. FirstError(e) = "Ok" /\ HandlerOf(r) = "Ok"
    BY <2>2, <2>3
  <2>5. VaultOf(r) # Nothing
    BY <1>5, <2>4
  <2>6. answer'.charged = {<<"ip", r.address>>} \cup {key}
    BY <1>2, <2>3, <2>5
  <2>. QED
    BY <2>1, <2>4, <2>6, RouteIs
<1>9. AnswersRightly'
  BY <1>1, <1>2, <1>7, <1>8 DEF AnswersRightly
<1>. QED
  BY <1>3, <1>9

-----------------------------------------------------------------------------
(***************************************************************************)
(* The client's delays: the loop of ceiling_ms, which stops at the cap,    *)
(* computes the capped product. Each recursion is first shown to have a    *)
(* solution.                                                               *)
(***************************************************************************)
LEMMA UncappedIs ==
  ASSUME NEW a \in Nat
  PROVE  \E p : /\ p = [n \in 0 .. a |-> IF n = 0 THEN BaseDelay ELSE p[n - 1] * Multiplier]
                /\ Uncapped(a) = p[a]
<1> DEFINE Grows(n, p) == p = [k \in 0 .. n |-> IF k = 0 THEN BaseDelay ELSE p[k - 1] * Multiplier]
           T == {n \in Nat : \E p : Grows(n, p)}
<1>1. 0 \in T
  <2>1. Grows(0, [k \in 0 .. 0 |-> BaseDelay])
    OBVIOUS
  <2> HIDE DEF Grows
  <2>. QED
    BY <2>1
<1>2. ASSUME NEW n \in Nat, n \in T PROVE n + 1 \in T
  <2>1. PICK p : Grows(n, p)
    BY <1>2
  <2> DEFINE q == [k \in 0 .. n + 1 |-> IF k = n + 1 THEN p[n] * Multiplier ELSE p[k]]
  <2>2. \A k \in 0 .. n + 1 : q[k] = IF k = 0 THEN BaseDelay ELSE q[k - 1] * Multiplier
    BY <2>1
  <2>3. Grows(n + 1, q)
    BY <2>2
  <2> HIDE DEF Grows, q
  <2>. QED
    BY <2>3
<1>3. \E p : Grows(a, p)
  <2> HIDE DEF T
  <2>1. a \in T
    BY <1>1, <1>2, StepByStep
  <2>. QED
    BY <2>1 DEF T
<1>. QED
  BY <1>3 DEF Uncapped

LEMMA GrownIs ==
  ASSUME NEW a \in Nat
  PROVE  \E g : /\ g = [n \in 0 .. a |-> IF n = 0 THEN BaseDelay
                                        ELSE IF n > 1 /\ g[n - 1] >= MaxDelay THEN MaxDelay
                                        ELSE g[n - 1] * Multiplier]
                /\ CeilingMs(a) = IF g[a] < MaxDelay THEN g[a] ELSE MaxDelay
<1> DEFINE Grown(n, g) == g = [k \in 0 .. n |-> IF k = 0 THEN BaseDelay
                                               ELSE IF k > 1 /\ g[k - 1] >= MaxDelay THEN MaxDelay
                                               ELSE g[k - 1] * Multiplier]
           T == {n \in Nat : \E g : Grown(n, g)}
<1>1. 0 \in T
  <2>1. Grown(0, [k \in 0 .. 0 |-> BaseDelay])
    OBVIOUS
  <2> HIDE DEF Grown
  <2>. QED
    BY <2>1
<1>2. ASSUME NEW n \in Nat, n \in T PROVE n + 1 \in T
  <2>1. PICK g : Grown(n, g)
    BY <1>2
  <2> DEFINE next == IF n + 1 > 1 /\ g[n] >= MaxDelay THEN MaxDelay ELSE g[n] * Multiplier
             h == [k \in 0 .. n + 1 |-> IF k = n + 1 THEN next ELSE g[k]]
  <2>2. \A k \in 0 .. n + 1 : h[k] = IF k = 0 THEN BaseDelay
                                    ELSE IF k > 1 /\ h[k - 1] >= MaxDelay THEN MaxDelay
                                    ELSE h[k - 1] * Multiplier
    BY <2>1
  <2>3. Grown(n + 1, h)
    BY <2>2
  <2> HIDE DEF Grown, h
  <2>. QED
    BY <2>3
<1>3. \E g : Grown(a, g)
  <2> HIDE DEF T
  <2>1. a \in T
    BY <1>1, <1>2, StepByStep
  <2>. QED
    BY <2>1 DEF T
<1>. QED
  BY <1>3 DEF CeilingMs

LEMMA CeilingIsCapped ==
  ASSUME NEW a \in Nat
  PROVE  /\ Uncapped(a) \in Nat
         /\ CeilingMs(a) = IF Uncapped(a) < MaxDelay THEN Uncapped(a) ELSE MaxDelay
<1>1. PICK p : /\ p = [n \in 0 .. a |-> IF n = 0 THEN BaseDelay ELSE p[n - 1] * Multiplier]
               /\ Uncapped(a) = p[a]
  BY UncappedIs
<1>2. PICK g : /\ g = [n \in 0 .. a |-> IF n = 0 THEN BaseDelay
                                       ELSE IF n > 1 /\ g[n - 1] >= MaxDelay THEN MaxDelay
                                       ELSE g[n - 1] * Multiplier]
               /\ CeilingMs(a) = IF g[a] < MaxDelay THEN g[a] ELSE MaxDelay
  BY GrownIs
<1>3. BaseDelay \in Nat /\ MaxDelay \in Nat /\ Multiplier \in Nat
  BY RequestAssumption
<1> DEFINE Agree(n) == /\ g[n] \in Nat /\ p[n] \in Nat
                       /\ g[n] = p[n] \/ (n > 0 /\ g[n] >= MaxDelay /\ p[n] >= MaxDelay)
                       /\ (n > 0 /\ Multiplier = 0) => p[n] = 0
           T == {n \in 0 .. a : Agree(n)}
<1>4. 0 \in T
  BY <1>1, <1>2, <1>3
<1>5. ASSUME NEW n \in Nat, n < a, n \in T PROVE n + 1 \in T
  <2>1. /\ p[n + 1] = p[n] * Multiplier
        /\ g[n + 1] = IF n > 0 /\ g[n] >= MaxDelay THEN MaxDelay ELSE g[n] * Multiplier
    <3>1. n + 1 \in 0 .. a /\ n + 1 # 0 /\ (n + 1) - 1 = n /\ (n + 1 > 1 <=> n > 0)
      BY <1>5
    <3>. QED
      BY <1>1, <1>2, <3>1
  <2>2. Agree(n)
    BY <1>5
  <2>3. p[n] * Multiplier \in Nat /\ g[n] * Multiplier \in Nat
    BY <1>3, <2>2
  <2>4. CASE Multiplier = 0
    BY <1>3, <1>5, <2>1, <2>2, <2>3, <2>4
  <2>5. CASE Multiplier # 0
    <3>1. p[n] * Multiplier >= p[n]
      BY <1>3, <2>2, <2>5
    <3>. QED
      BY <1>3, <1>5, <2>1, <2>2, <2>3, <2>5, <3>1
  <2>. QED
    BY <2>4, <2>5
<1>6. Agree(a)
  <2> HIDE DEF T
  <2>1. a \in 0 .. a
    OBVIOUS
  <2>2. a \in T
    BY <1>4, <1>5, <2>1, StepByStep
  <2>. QED
    BY <2>2 DEF T
<1>. QED
  BY <1>1, <1>2, <1>3, <1>6

LEMMA DelayIsPaced ==
  ASSUME NEW c \in Nat, NEW a \in Nat, CeilingMs(a) = c, NEW entropy \in Nat
  PROVE  /\ DelayMs(a, entropy) \in Nat /\ DelayMs(a, entropy) <= c
         /\ Jitter # "Full" => c \div 2 <= DelayMs(a, entropy)
<1>1. c \div 2 \in Nat /\ c \div 2 <= c
  OBVIOUS
<1>2. entropy % (c + 1) \in 0 .. c
  OBVIOUS
<1>3. entropy % (c - c \div 2 + 1) \in 0 .. c - c \div 2
  <2>1. ASSUME NEW m \in Nat PROVE entropy % (m + 1) \in 0 .. m
    OBVIOUS
  <2>2. c - c \div 2 \in Nat
    BY <1>1
  <2>. QED
    BY <2>1, <2>2
<1>4. Jitter \in {"None", "Full", "Equal"}
  BY RequestAssumption
<1>5. CASE Jitter = "None"
  BY <1>1, <1>5 DEF DelayMs
<1>6. CASE Jitter = "Full"
  BY <1>1, <1>2, <1>6 DEF DelayMs
<1>7. CASE Jitter = "Equal"
  BY <1>1, <1>3, <1>7 DEF DelayMs
<1>. QED
  BY <1>4, <1>5, <1>6, <1>7

\* Only an attempt sets what a run waits for.
LEMMA AttemptIsPaced ==
  ASSUME LimiterInv, AnswersRightly, NEW ended \in SyncEnds, NEW entropy \in Entropy, Attempt(ended, entropy)
  PROVE  RetriesArePaced'
<1> DEFINE a == retry.attempt
           error == IF Admits(RunKey) THEN ended ELSE "RateLimited"
           delay == DelayMs(a, entropy)
<1>1. /\ retry # Nothing /\ retry'.attempt = a + 1 /\ retry'.error = error /\ retry'.tried = seconds
      /\ retry'.wakes = (IF IsRetriable(error) THEN seconds + delay ELSE seconds)
      /\ retry'.over = ~IsRetriable(error)
  BY DEF Attempt
<1>2. a \in Nat /\ entropy \in Nat /\ seconds \in Nat /\ MaxDelay \in Nat
  BY <1>1, RequestAssumption DEF AnswersRightly, LimiterInv, LimiterTypes
<1>3. /\ Uncapped(a) \in Nat
      /\ CeilingMs(a) = IF Uncapped(a) < MaxDelay THEN Uncapped(a) ELSE MaxDelay
  BY <1>2, CeilingIsCapped
<1>4. CeilingMs(a) \in Nat
  BY <1>2, <1>3
<1>5. /\ delay \in Nat /\ delay <= CeilingMs(a)
      /\ Jitter # "Full" => CeilingMs(a) \div 2 <= delay
  BY <1>2, <1>4, DelayIsPaced
<1>6. error \in SyncEnds \cup {"RateLimited"}
  OBVIOUS
<1>7. IsRetriable(error) <=> error \notin {"Ok", "Conflict", "QuotaExhausted", "UnknownSigner"}
  <2> HIDE DEF error
  <2>1. /\ StatusOf("RateLimited") = 429 /\ StatusOf("Internal") = 500 /\ StatusOf("Conflict") = 409
        /\ {"RateLimited", "Internal", "Conflict"} \subseteq ErrorCodes
        /\ {"Ok", "QuotaExhausted", "UnknownSigner"} \cap ErrorCodes = {}
    BY DEF StatusOf, ErrorCodes
  <2>2. error \in {"Ok", "Transport", "Internal", "Conflict", "QuotaExhausted", "UnknownSigner", "RateLimited"}
    BY <1>6 DEF SyncEnds
  <2>. QED
    BY <2>1, <2>2 DEF IsRetriable
<1> HIDE DEF a, error, delay
<1>8. (a + 1) - 1 = a /\ (seconds + delay) - seconds = delay
  BY <1>2, <1>5
<1>9. IsRetriable(error) =>
        retry'.wakes - retry'.tried \in (IF Jitter = "Full" THEN 0 ELSE CeilingMs(a) \div 2) .. CeilingMs(a)
  BY <1>1, <1>2, <1>4, <1>5, <1>8
<1>10. retry'.attempt - 1 = a
  BY <1>1, <1>8
<1>. QED
  BY <1>1, <1>3, <1>7, <1>9, <1>10 DEF RetriesArePaced

LEMMA RetryStep ==
  ASSUME LimiterInv, AnswersRightly, RetriesArePaced, [RequestNext]_requestVars
  PROVE  RetriesArePaced'
<1>1. CASE UNCHANGED retry
  BY <1>1 DEF RetriesArePaced
<1>2. CASE StartRun
  <2>1. retry'.attempt = 0
    BY <1>2 DEF StartRun
  <2>. QED
    BY <2>1 DEF RetriesArePaced
<1>3. CASE \E ended \in SyncEnds, entropy \in Entropy : Attempt(ended, entropy)
  BY <1>3, AttemptIsPaced
<1>4. ASSUME Second \/ (\E r \in HttpRequests : Observe(r)) \/ Handle \/ EvictIdle \/ UNCHANGED requestVars
      PROVE  UNCHANGED retry
  BY <1>4 DEF Second, Observe, Handle, EvictIdle, requestVars
<1>. QED
  BY <1>1, <1>2, <1>3, <1>4 DEF RequestNext

LEMMA RequestInitially == ASSUME RequestInit PROVE LimiterInv /\ AnswersRightly
<1>1. LimiterInv
  <2>1. \A k \in Keys : 60 * admitted[k] = 0 /\ told[k] = Nothing
    BY DEF RequestInit
  <2>2. \A k : seconds * RateOf(k).per_minute = 0
    BY Rates DEF RequestInit
  <2>. QED
    BY <2>1, <2>2 DEF RequestInit, LimiterInv, LimiterTypes, WithinBudget, PromisesKept
<1>2. AnswersRightly
  BY DEF RequestInit, AnswersRightly, ServedRightly
<1>. QED
  BY <1>1, <1>2

LEMMA RequestStep ==
  ASSUME LimiterInv, AnswersRightly, [RequestNext]_requestVars
  PROVE  LimiterInv' /\ AnswersRightly'
<1>1. CASE Second
  <2>1. LimiterInv'
    BY <1>1, SecondKeepsLimits
  <2>. QED
    BY <1>1, <2>1 DEF Second, AnswersRightly, ServedRightly
<1>2. CASE \E r \in HttpRequests : Observe(r)
  BY <1>2, ObserveKeeps
<1>3. CASE Handle
  BY <1>3, HandleKeeps
<1>4. CASE EvictIdle
  <2>1. LimiterInv'
    BY <1>4, EvictKeepsLimits
  <2>. QED
    BY <1>4, <2>1 DEF EvictIdle, AnswersRightly, ServedRightly
<1>5. CASE StartRun
  <2>1. LimiterInv'
    BY <1>5 DEF StartRun, LimiterVars, LimiterInv, LimiterTypes, WithinBudget, PromisesKept, Unlimited
  <2>2. retry'.attempt \in 0 .. Attempts
    BY <1>5, RequestAssumption DEF StartRun, Attempts
  <2>. QED
    BY <1>5, <2>1, <2>2 DEF StartRun, AnswersRightly, ServedRightly
<1>6. CASE \E ended \in SyncEnds, entropy \in Entropy : Attempt(ended, entropy)
  <2>1. PICK ended \in SyncEnds, entropy \in Entropy : Attempt(ended, entropy)
    BY <1>6
  <2>2. Charge(RunKey) /\ UNCHANGED seconds /\ RunKey \in Keys
    BY <2>1 DEF Attempt, Keys
  <2>3. LimiterInv'
    BY <2>2, ChargeKeepsLimits
  <2>4. retry'.attempt = retry.attempt + 1 /\ retry # Nothing /\ retry.attempt < Attempts /\ answer' = Nothing
    BY <2>1 DEF Attempt
  <2>5. retry'.attempt \in 0 .. Attempts
    BY <2>4, RequestAssumption DEF AnswersRightly, Attempts
  <2>. QED
    BY <2>3, <2>4, <2>5 DEF AnswersRightly, ServedRightly
<1>7. CASE UNCHANGED requestVars
  BY <1>7 DEF requestVars, LimiterInv, LimiterTypes, WithinBudget, PromisesKept, Unlimited, AnswersRightly,
              ServedRightly, VaultOf, Part, ExpectsAbsent
<1>. QED
  BY <1>1, <1>2, <1>3, <1>4, <1>5, <1>6, <1>7 DEF RequestNext

LEMMA ServedIs == ASSUME LimiterInv, AnswersRightly PROVE ServedWithinRate /\ RetryAfterSuffices
<1>1. RequestTypeOK
  BY DEF RequestTypeOK, LimiterInv, LimiterTypes, AnswersRightly
<1>. QED
  BY <1>1, LimitsHold DEF ServedWithinRate, AnswersRightly

\* Every key whose bucket was not shed early, by a new key of a faster rate, is let through
\* within its burst and its rate, whatever the sweeper evicts; and a vault's rows are reached
\* only with a token of that vault, a charge to both buckets and one precondition (check,
\* evict_idle, for_vault, precondition).
THEOREM EveryoneServedWithinRate == RequestSpec => []ServedWithinRate
<1>1. RequestInit => LimiterInv /\ AnswersRightly
  BY RequestInitially
<1>2. LimiterInv /\ AnswersRightly /\ [RequestNext]_requestVars => (LimiterInv /\ AnswersRightly)'
  BY RequestStep
<1>3. LimiterInv /\ AnswersRightly => ServedWithinRate
  BY ServedIs
<1>. QED
  BY <1>1, <1>2, <1>3, PTL DEF RequestSpec

\* A client that waits as it is told is not sent away again, whatever the sweeper or other keys
\* drop meanwhile; and a run that is refused waits at least half of the capped delay, which is
\* the capped product for every attempt although the loop stops at the cap (check,
\* retry_after, ceiling_ms, delay_ms).
THEOREM WaitingPaysOff == RequestSpec => []RetriesSucceed
<1> DEFINE Inv == LimiterInv /\ AnswersRightly /\ RetriesArePaced
<1>1. RequestInit => Inv
  <2>1. RequestInit => RetriesArePaced
    BY DEF RequestInit, RetriesArePaced
  <2>. QED
    BY <2>1, RequestInitially
<1>2. Inv /\ [RequestNext]_requestVars => Inv'
  BY RequestStep, RetryStep
<1>3. Inv => RetriesSucceed
  BY ServedIs DEF RetriesSucceed
<1> HIDE DEF Inv
<1>. QED
  BY <1>1, <1>2, <1>3, PTL DEF RequestSpec
=============================================================================
