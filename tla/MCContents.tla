----------------------------- MODULE MCContents -----------------------------
(***************************************************************************)
(* What a vault holds and how it gets there, each part by itself: the      *)
(* clock that stamps the writes, the merge of an item's copies, forks of   *)
(* one id, the user's edits, the one-time passwords and the import of      *)
(* foreign exports. The parts share no state here; a behaviour is one of   *)
(* theirs, with the others at rest.                                        *)
(***************************************************************************)
EXTENDS HlcClock, ItemMerge, Forks, Edits, MCFiles

VARIABLE part

(***************************************************************************)
(* The host clock of one device jumps from one side of the window to the   *)
(* other; that of its peer stands at the last millisecond. One vault loads *)
(* at a time: a load reads and writes nothing of the other device.         *)
(***************************************************************************)
HostWalls(d) == IF d = 1 THEN {0, 3} ELSE {2}
OneLoads == \A d, e \in Device : (loading[d] # {} /\ loading[e] # {}) => d = e

(***************************************************************************)
(* The merge: the readings 1, 2, ... are dealt to the devices in turn. The *)
(* clocked writes and the counts meet in no field, so that a behaviour     *)
(* explores one of the two: many readings and no count, or many counts and *)
(* the one reading the item is added with, without a tag. Values are       *)
(* interchangeable, so that they are first written in order.               *)
(***************************************************************************)
CONSTANT MaxStamp
Stamps == 1 .. MaxStamp
OwnerOf(h) == h % Cardinality(Replica)
SetTo(v) == \E d \in Replica, g \in Field : \E w \in absorbed[d] : g \in DOMAIN w.set /\ w.set[g] = v
ValuesInOrder == \A v, w \in Value : (v < w /\ SetTo(w)) => SetTo(v)
Counted ==
  /\ clock \in [Replica -> 0 .. 1] /\ used[1] <= 1
  /\ \A d \in Replica : \A w \in absorbed[d] : w.add = {}

(***************************************************************************)
(* URIs that are scanned, configurations that are built, and when codes    *)
(* are asked for.                                                          *)
(***************************************************************************)
Maybe(name, values) == {<< >>} \cup {<<<<name, v>>>> : v \in values}
Labels == {<<[pct |-> <<5>>]>>, <<[pct |-> <<4>>], [pct |-> <<5>>]>>, <<[pct |-> << >>], [pct |-> <<5>>]>>, << >>,
  <<[pct |-> <<9>>]>>}
SecretOf(enc) == {<<<<"secret", [enc |-> enc, pct |-> s]>>>> : s \in {<<1, 2, 1>>}}
PinOf(enc) == Maybe("pin", {[enc |-> enc, pct |-> p] : p \in {<< >>, <<3>>, <<9>>}})
Uris(scheme, types, labels, queries) ==
  [scheme : scheme, type : types, label : labels, query : queries, fragment : {FALSE}, len : {8}]
\* A long counter takes six places, everything else a place a letter.
Places(param) ==
  CASE param[1] \in {"algorithm", "digits", "period"} -> 1
    [] param[1] = "counter" -> IF param[2] > 9 THEN 6 ELSE 1
    [] OTHER -> Len(param[2].pct)
\* With a fragment, longer than the limit, and with an issuer that is written twice.
OddUris ==
  [scheme : {"otpauth"}, type : {"totp", "steam"}, label : {<<[pct |-> <<4, 4, 4>>], [pct |-> <<5>>]>>, <<[pct |-> <<5>>]>>},
   query : SecretOf("base32"), fragment : BOOLEAN, len : {11, 12}]
ScannedUris ==
  LET numeric == {a \o d \o p \o c : a \in Maybe("algorithm", {"SHA1", "SHA256"}),
       d \in Maybe("digits", {6, 8, 300}), p \in Maybe("period", {0, 30, 60}), c \in Maybe("counter", {0, 7})}
      names == {i \o e : i \in Maybe("issuer", {[pct |-> << >>], [pct |-> <<6>>]}), e \in Maybe("vendor", {[pct |-> <<7>>]})}
  IN Uris({"otpauth"}, Kinds \cup {"yandex"}, {<<[pct |-> <<5>>]>>},
        {s \o n \o p : s \in SecretOf("base32") \cup SecretOf("hex"), n \in numeric, p \in {<< >>}})
   \cup Uris({"otpauth"}, {"motp", "yaotp", "totp"}, {<<[pct |-> <<5>>]>>},
        {s \o p : s \in SecretOf("base32") \cup SecretOf("hex"), p \in PinOf("text") \cup PinOf("base32")})
   \cup Uris({"otpauth", "otpauth-migration", "https"}, {"totp", "blizzard", "none"}, Labels,
        {s \o n : s \in SecretOf("base32"), n \in names} \cup {<< >>}
         \cup {<<<<"digits", 6>>, <<"digits", 8>>>> \o s : s \in SecretOf("base32")}
         \cup {<<<<"digits", 6>>, <<"issuer", [pct |-> <<9>>]>>, <<"digits", 8>>>>,
               <<<<"digits", 6>>, <<"digits", 8>>, <<"issuer", [pct |-> <<9>>]>>>>})
   \cup OddUris
BuiltSecrets == {<< >>, <<2>>, <<1, 1, 1, 1>>}
BuiltPins == {None, << >>, <<3>>, <<9>>}
ControlPins == {<<9>>}
Times == {0, 9999, 30000, 94999, 121000, 125000}
Shifts == {-20000, 0, 20000}

(***************************************************************************)
(* Items that are added and edits that are asked for.                      *)
(***************************************************************************)
Plain(n) == Label(n, 0)
Fresh(n, form, nick, s) ==
  [issuer |-> Plain("site"), account |-> Label(n, form), nickname |-> nick, secret |-> s,
   tags |-> IF s = 2 THEN <<Plain("w")>> ELSE <<>>]
AddedItems == {Fresh("ada", 0, NoLabel, 1), Fresh("ada", 1, NoLabel, 2), Fresh("ada", 0, Plain("work"), 2),
               Fresh("bob", 0, NoLabel, 3), Fresh("", 0, NoLabel, 3)}
GivenEdits == {
  [clear |-> {}, account |-> Plain("ada")], [clear |-> {}, nickname |-> Label("work", 1)], [clear |-> {"nickname"}, nickname |-> Plain("work")],
  [clear |-> {}, account |-> Plain("forbidden"), tags |-> <<Plain("t")>>],
  [clear |-> {}, tags |-> <<Plain("t"), Plain("u")>>, groups |-> <<"g">>],
  [clear |-> {"note"}, note |-> Plain("n"), tags |-> <<Plain("u"), Plain("")>>],
  [clear |-> {}, tags |-> <<Plain("v")>>, origins |-> <<Plain("o")>>],
  [clear |-> {}, groups |-> <<>>, origins |-> <<Label("o", 1)>>]}

-----------------------------------------------------------------------------
clockVars == vars

MCInit ==
  /\ part \in {"clock", "readings", "counts", "forks", "edits", "otp", "imports"}
  /\ Init /\ MergeInit /\ ForkInit /\ EditInit /\ OtpInit /\ ImportInit
MCNext ==
  /\ UNCHANGED part
  /\ \/ part = "clock" /\ Next /\ OneLoads' /\ UNCHANGED <<mergeVars, forkVars, editVars, otpVars, importVars>>
     \/ /\ part = "readings" /\ MergeNext /\ ValuesInOrder' /\ UNCHANGED heard
        /\ UNCHANGED <<clockVars, forkVars, editVars, otpVars, importVars>>
     \/ /\ part = "counts" /\ MergeNext /\ ValuesInOrder' /\ Counted'
        /\ UNCHANGED <<clockVars, forkVars, editVars, otpVars, importVars>>
     \/ part = "forks" /\ ForkNext /\ UNCHANGED <<clockVars, mergeVars, editVars, otpVars, importVars>>
     \/ part = "edits" /\ EditNext /\ UNCHANGED <<clockVars, mergeVars, forkVars, otpVars, importVars>>
     \/ part = "otp" /\ OtpNext /\ UNCHANGED <<clockVars, mergeVars, forkVars, editVars, importVars>>
     \/ part = "imports" /\ ImportNext /\ UNCHANGED <<clockVars, mergeVars, forkVars, editVars, otpVars>>
MCSpec == MCInit /\ [][MCNext]_<<part, clockVars, mergeVars, forkVars, editVars, otpVars, importVars>>
=============================================================================
