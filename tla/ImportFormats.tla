--------------------------- MODULE ImportFormats ---------------------------
(***************************************************************************)
(* The readers of the import formats: how a file is recognised, what makes *)
(* it unusable as a whole, and what one of its rows becomes.               *)
(*                                                                         *)
(* Source: misty-importers importer.rs, build.rs, json.rs, text.rs,        *)
(* interop.rs, mapping.rs and formats/. A file is a record: the first      *)
(* character of its text (start), the marks its first bytes hold, what is  *)
(* broken about it, and its rows, each the record of the fields that are   *)
(* present. Names are sequences of small numbers in which 0 is the colon;  *)
(* the encodings of a secret have no text in common.                       *)
(***************************************************************************)
EXTENDS Otp

CONSTANTS
  MaxTags,           \* Limits::max_tags
  MaxKdfCost,        \* Limits::max_kdf_memory_bytes and max_kdf_iterations
  MaxSlotsTried      \* 8 in the code

-----------------------------------------------------------------------------
(***************************************************************************)
(* Fields of a row.                                                        *)
(***************************************************************************)
Get(r, field) == IF field \in DOMAIN r THEN r[field] ELSE None
\* Rec::str: an empty text is absent.
Name(r, field) == IF Get(r, field) = << >> THEN None ELSE Get(r, field)
\* Rec::u8, u16 and u64, and whether the value fits.
Fits(r, field, width) == NumberOk(Get(r, field), width)
U8 == 256
U16 == 65536
U64 == MaxU64 + 1
NonEmpty(name) == IF name = << >> THEN None ELSE name
\* The elements at these places, in their order.
Chosen(list, places) ==
  LET upTo[i \in 0..Len(list)] ==
        IF i = 0 THEN << >> ELSE IF i \in places THEN Append(upTo[i - 1], list[i]) ELSE upTo[i - 1]
  IN upTo[Len(list)]
Truncated(list) == SubSeq(list, 1, IF Len(list) < MaxTags THEN Len(list) ELSE MaxTags)

\* split_label: the issuer before the first colon and the account after it.
Colons(label) == {i \in DOMAIN label : label[i] = 0}
FirstColon(label) == CHOOSE i \in Colons(label) : \A j \in Colons(label) : i <= j
SplitLabel(label) ==
  IF Colons(label) = {} THEN <<None, label>>
  ELSE LET at == FirstColon(label)
       IN <<NonEmpty(SubSeq(label, 1, at - 1)), SubSeq(label, at + 1, Len(label))>>

\* ImportedItem::new; note, nickname, icon, colour, origins and times are left out.
NewItem(otpConfig, issuer, account) ==
  [otp |-> otpConfig, issuer |-> IF issuer = << >> THEN None ELSE issuer, account |-> account,
   tags |-> << >>, groups |-> << >>, archived |-> FALSE]

\* What a row becomes: an item with its warnings, a skip, or a failure.
Built(item, warnings) == [item |-> item, warnings |-> warnings]
Skip(reason) == [skip |-> reason]
Fail(error) == [fail |-> error]
\* A row that failed stays as it is.
OnBuilt(row, Change(_)) == IF "fail" \in DOMAIN row THEN row ELSE Change(row)
Assumed(names) == {<<"AssumedDefault", n>> : n \in names}
Normalized(names) == {<<"NormalizedParam", n>> : n \in names}
Dropped(names) == {<<"DroppedField", n>> : n \in names}

-----------------------------------------------------------------------------
(***************************************************************************)
(* build.rs: one vendor's fields as a configuration.                       *)
(***************************************************************************)
KindFromStr(raw) ==
  CASE raw \in {"totp", "time"} -> "totp" [] raw \in {"hotp", "counter"} -> "hotp"
    [] raw \in {"steam", "steamguard"} -> "steam" [] raw \in {"motp", "mobileotp"} -> "motp"
    [] raw \in {"yandex", "yaotp"} -> "yaotp" [] raw \in {"blizzard", "bnet"} -> "blizzard"
    [] OTHER -> None

DecodeSecret(kind, raw) ==
  IF raw.enc = SecretEncoding(kind) THEN Ok(raw.pct) ELSE Err("BadSecret")

NoFields == [kind |-> None, default_kind |-> "totp", secret |-> None, secret_bytes |-> None,
             algorithm |-> None, digits |-> None, period |-> None, counter |-> None, pin |-> None]

FixedOf(kind) == [algorithm |-> FixedAlgorithm(kind), digits |-> FixedDigits(kind),
                  period |-> FixedPeriod(kind)]

\* The warnings of config: what was assumed and what the kind overrode.
ConfigWarnings(kind, f) ==
  LET fixed == FixedOf(kind) IN
  Assumed({n \in DOMAIN fixed : f[n] = None /\ fixed[n] = None /\ ~(n = "period" /\ UsesCounter(kind))}
            \cup {n \in {"counter"} : UsesCounter(kind) /\ f.counter = None}
            \cup {n \in {"pin"} : UsesPin(kind) /\ f.pin = None})
    \cup Normalized({n \in DOMAIN fixed : f[n] # None /\ fixed[n] # None /\ f[n] # fixed[n]}
            \cup {n \in {"counter"} : ~UsesCounter(kind) /\ f.counter \notin {None, 0}}
            \cup {n \in {"pin"} : ~UsesPin(kind) /\ f.pin # None})

Config(f) ==
  LET kind == IF f.kind = None THEN f.default_kind ELSE KindFromStr(f.kind)
      secret == IF f.secret_bytes # None THEN Ok(f.secret_bytes)
                ELSE IF f.secret = None THEN Err("MissingField") ELSE DecodeSecret(kind, f.secret)
      built == Constructed(kind, secret.ok, f.algorithm, f.digits, f.period, OrElse(f.counter, 0), f.pin)
  IN IF kind = None THEN Err("InvalidField")
     ELSE IF ~IsOk(secret) THEN secret
     ELSE IF f.algorithm \notin Algorithms \cup {None} THEN Err("InvalidField")
     ELSE IF ~IsOk(built) THEN built
     ELSE Ok([config |-> built.ok, warnings |-> ConfigWarnings(kind, f)])

\* The end of most readers: a row from its fields, names and lists.
RowFrom(f, issuer, account, tags, groups, more) ==
  LET row(config) ==
        IF ~IsOk(config) THEN Fail(config.err)
        ELSE Built([NewItem(config.ok.config, issuer, account) EXCEPT !.tags = tags, !.groups = groups],
                   config.ok.warnings \cup more)
  IN row(Config(f))

\* A vendor's group or folder identifier, looked up in the file's table.
GroupNamed(table, id) == IF id \in DOMAIN table THEN <<table[id]>> ELSE << >>

-----------------------------------------------------------------------------
(***************************************************************************)
(* URI lines: otpauth.rs and ente.rs.                                      *)
(***************************************************************************)
ItemFromUri(uri) ==
  LET item(u, warnings) ==
        Built(NewItem(u.config, u.issuer, u.account),
              Normalized((warnings \cap KnownParams) \ {"issuer"})
                \cup {<<"Uri", n>> : n \in warnings \cap {"issuer", "fragment"}}
                \cup IF u.extra # << >> THEN Dropped({"uri parameters"}) ELSE {})
      row(parsed) == IF IsOk(parsed) THEN item(parsed.ok.uri, parsed.ok.warnings) ELSE Fail(parsed.err)
  IN row(ParseWithWarnings(uri))

\* Blank lines and comments are no rows.
IsUriLine(row) == "blank" \notin DOMAIN row
OtpauthRow(row) == ItemFromUri(row.uri)

ApplyCodeDisplay(built, display) ==
  IF display = None THEN built
  ELSE IF "malformed" \in DOMAIN display
  THEN [built EXCEPT !.warnings = @ \cup Dropped({"codeDisplay"})]
  ELSE LET trashed == Get(display, "trashed") = TRUE IN
       [built EXCEPT !.item.tags = Truncated(OrElse(Get(display, "tags"), << >>)),
                     !.item.archived = trashed,
                     !.warnings = @ \cup (IF trashed THEN {<<"ImportedAsArchived", "">>} ELSE {})
                                    \cup (IF Get(display, "icon") # None THEN Dropped({"icon"}) ELSE {})]
\* codeDisplay, a vendor parameter, is given beside the URI.
EnteRow(row) ==
  OnBuilt(ItemFromUri(row.uri), LAMBDA built :
    ApplyCodeDisplay([built EXCEPT !.warnings = @ \ Dropped({"uri parameters"})], Get(row, "codeDisplay")))

-----------------------------------------------------------------------------
(***************************************************************************)
(* Google Authenticator: a line is [parts, index, total], each part one    *)
(* protobuf message.                                                       *)
(***************************************************************************)
\* interpret: the enumerations; 0 is what a missing field reads as.
MigrationAlgorithm(v) == CASE v \in {0, 1} -> "SHA1" [] v = 2 -> "SHA256" [] v = 3 -> "SHA512" [] OTHER -> None
MigrationDigits(v) == CASE v \in {0, 1} -> 6 [] v = 2 -> 8 [] OTHER -> None
MigrationKind(v) == CASE v = 1 -> "hotp" [] v = 2 -> "totp" [] OTHER -> None
\* An explicit issuer keeps the whole label when the label names another one.
MigrationNames(p) ==
  LET split == SplitLabel(OrElse(Get(p, "name"), << >>))
      issuer == Name(p, "issuer") IN
  IF issuer # None /\ split[1] # None /\ issuer # split[1] THEN <<issuer, p.name>>
  ELSE <<OrElse(issuer, split[1]), split[2]>>
MigrationRow(p) ==
  LET algorithm == OrElse(Get(p, "algorithm"), 0)
      digits == OrElse(Get(p, "digits"), 0)
      kind == OrElse(Get(p, "type"), 0)
      counter == Get(p, "counter")
      built == Constructed(MigrationKind(kind), p.secret, MigrationAlgorithm(algorithm),
                           MigrationDigits(digits), None, OrElse(counter, 0), None)
      names == MigrationNames(p) IN
  IF "malformed" \in DOMAIN p THEN Fail("Protobuf")
  ELSE IF algorithm = 4 THEN Skip("UnsupportedAlgorithm")
  ELSE IF MigrationAlgorithm(algorithm) = None THEN Fail("InvalidField")
  ELSE IF MigrationDigits(digits) = None THEN Fail("InvalidField")
  ELSE IF MigrationKind(kind) = None THEN Fail(IF kind = 0 THEN "MissingField" ELSE "InvalidField")
  ELSE IF Get(p, "secret") = None THEN Fail("MissingField")
  ELSE IF ~IsOk(built) THEN Fail(built.err)
  ELSE Built(NewItem(built.ok, names[1], names[2]),
             Assumed({n \in {"algorithm"} : algorithm = 0} \cup {n \in {"digits"} : digits = 0}
                       \cup {n \in {"counter"} : kind = 1 /\ counter = None}))
\* decode_uri and read_payload: a line that is no payload ends the import.
MigrationPayload(line) ==
  IF "payload" \in DOMAIN line THEN Ok(line.payload) ELSE Err(line.broken)

-----------------------------------------------------------------------------
(***************************************************************************)
(* JSON exports.                                                           *)
(***************************************************************************)
Malformed(r) == "malformed" \in DOMAIN r
NumbersFit(r, digits, period, counter) ==
  Fits(r, digits, U8) /\ Fits(r, period, U16) /\ Fits(r, counter, U64)

EntryGroups(e, table) ==
  IF Get(e, "groups") # None
  THEN Truncated([i \in DOMAIN SelectSeq(e.groups, LAMBDA id : id \in DOMAIN table) |->
                    table[SelectSeq(e.groups, LAMBDA id : id \in DOMAIN table)[i]]])
  ELSE IF Get(e, "group") # None THEN <<e.group>> ELSE << >>
AegisRow(e, table) ==
  LET kind == KindFromStr(Get(e, "type")) IN
  IF Malformed(e) THEN Fail("WrongShape")
  ELSE IF Get(e, "type") = None THEN Fail("MissingField")
  ELSE IF kind = None THEN Skip("UnsupportedType")
  ELSE IF Get(e, "info") = None THEN Fail("MissingField")
  ELSE IF Get(e.info, "secret") = None THEN Fail("MissingField")
  ELSE IF ~NumbersFit(e.info, "digits", "period", "counter") THEN Fail("InvalidField")
  ELSE RowFrom([NoFields EXCEPT !.default_kind = kind, !.secret = e.info.secret,
                  !.algorithm = Get(e.info, "algo"), !.digits = Get(e.info, "digits"),
                  !.period = Get(e.info, "period"), !.counter = Get(e.info, "counter"),
                  !.pin = Name(e.info, "pin")],
               Name(e, "issuer"), OrElse(Name(e, "name"), << >>), << >>, EntryGroups(e, table),
               IF Get(e, "icon") # None THEN Dropped({"icon"}) ELSE {})

\* 2FAS: a number that does not fit is read as if it were absent.
TwoFasRow(s, table) ==
  LET o == OrElse(Get(s, "otp"), [absent |-> TRUE])
      kind == IF Get(o, "tokenType") = None THEN "totp" ELSE KindFromStr(o.tokenType)
      number(field, width) == IF Fits(o, field, width) THEN Get(o, field) ELSE None IN
  IF Malformed(s) THEN Fail("WrongShape")
  ELSE IF kind = None THEN Skip("UnsupportedType")
  ELSE IF Get(s, "secret") = None THEN Fail("MissingField")
  ELSE RowFrom([NoFields EXCEPT !.default_kind = kind, !.secret = s.secret,
                  !.algorithm = Get(o, "algorithm"), !.digits = number("digits", U8),
                  !.period = number("period", U16), !.counter = number("counter", U64)],
               OrElse(Name(s, "name"), Name(o, "issuer")),
               OrElse(OrElse(Name(o, "account"), Name(o, "label")), << >>),
               << >>, GroupNamed(table, Get(s, "groupId")), {})

AndOtpRow(e) ==
  LET kind == IF Get(e, "type") = None THEN "totp" ELSE KindFromStr(e.type)
      label == OrElse(Name(e, "label"), << >>)
      names == IF Name(e, "issuer") # None THEN <<e.issuer, label>> ELSE SplitLabel(label) IN
  IF Malformed(e) THEN Fail("WrongShape")
  ELSE IF kind = None THEN Skip("UnsupportedType")
  ELSE IF Get(e, "secret") = None THEN Fail("MissingField")
  ELSE IF ~NumbersFit(e, "digits", "period", "counter") THEN Fail("InvalidField")
  ELSE RowFrom([NoFields EXCEPT !.default_kind = kind, !.secret = e.secret,
                  !.algorithm = Get(e, "algorithm"), !.digits = Get(e, "digits"),
                  !.period = Get(e, "period"), !.counter = Get(e, "counter"), !.pin = Name(e, "pin")],
               names[1], names[2], Truncated(OrElse(Get(e, "tags"), << >>)), << >>, {})

RaivoRow(e) ==
  LET kind == IF Get(e, "kind") = None THEN "totp" ELSE KindFromStr(e.kind) IN
  IF Malformed(e) THEN Fail("WrongShape")
  ELSE IF kind = None THEN Skip("UnsupportedType")
  ELSE IF Get(e, "secret") = None THEN Fail("MissingField")
  ELSE IF ~NumbersFit(e, "digits", "timer", "counter") THEN Fail("InvalidField")
  ELSE RowFrom([NoFields EXCEPT !.default_kind = kind, !.secret = e.secret,
                  !.algorithm = Get(e, "algorithm"), !.digits = Get(e, "digits"),
                  !.period = Get(e, "timer"), !.counter = Get(e, "counter"), !.pin = Name(e, "pin")],
               Name(e, "issuer"), OrElse(Name(e, "account"), << >>), << >>, << >>, {})

LastPassRow(a, table) ==
  IF Malformed(a) THEN Fail("WrongShape")
  ELSE IF Get(a, "secret") = None THEN Fail("MissingField")
  ELSE IF ~NumbersFit(a, "digits", "timeStep", "none") THEN Fail("InvalidField")
  ELSE RowFrom([NoFields EXCEPT !.secret = a.secret, !.algorithm = Get(a, "algorithm"),
                  !.digits = Get(a, "digits"), !.period = Get(a, "timeStep")],
               OrElse(Name(a, "issuerName"), Name(a, "originalIssuerName")),
               OrElse(OrElse(Name(a, "userName"), Name(a, "originalUserName")), << >>),
               << >>, GroupNamed(table, Get(a, "folderId")), {})

\* Authy: its own tokens step every ten seconds, which the export leaves out.
IsAuthyNative(t) == Get(t, "secretSeed") # None \/ Get(t, "accountType") = "authy"
AuthyNativePeriod == 10
\* Base32 first, then hex: <<bytes, whether the encoding was assumed>>.
DecodeSeed(seed) ==
  CASE seed.enc = "base32" -> Ok(<<seed.pct, FALSE>>)
    [] seed.enc = "hex" -> Ok(<<seed.pct, TRUE>>)
    [] OTHER -> Err("BadSecret")
AuthyRow(t) ==
  LET seed == OrElse(OrElse(Get(t, "decryptedSeed"), Get(t, "secretSeed")), Get(t, "secret"))
      bytes == DecodeSeed(seed)
      period == IF Get(t, "period") = None /\ IsAuthyNative(t) THEN AuthyNativePeriod ELSE Get(t, "period")
      name == OrElse(Name(t, "name"), Name(t, "originalName"))
      split == SplitLabel(OrElse(OrElse(Name(t, "original_name"), Name(t, "originalName")), << >>)) IN
  IF Malformed(t) THEN Fail("WrongShape")
  ELSE IF seed = None THEN IF Get(t, "encryptedSeed") # None THEN Skip("EncryptedSecret") ELSE Fail("MissingField")
  ELSE IF ~IsOk(bytes) THEN Fail(bytes.err)
  ELSE IF ~NumbersFit(t, "digits", "period", "none") THEN Fail("InvalidField")
  ELSE RowFrom([NoFields EXCEPT !.secret_bytes = bytes.ok[1], !.digits = Get(t, "digits"), !.period = period],
               OrElse(OrElse(Name(t, "issuer"), name), split[1]),
               split[2], << >>, << >>,
               Assumed({n \in {"secret encoding"} : bytes.ok[2]}
                         \cup {n \in {"period"} : IsAuthyNative(t) /\ Get(t, "period") = None}))

\* FreeOTP stores the last counter it used, the configuration holds the next one.
NextCounter(kind, stored) ==
  IF UsesCounter(kind) /\ stored # None /\ stored < MaxU64 THEN stored + 1 ELSE stored
\* Java's signed bytes.
SignedByteOk(n) == n \in -128..255
SignedBytes(values) == [i \in DOMAIN values |-> IF values[i] < 0 THEN values[i] + 256 ELSE values[i]]
FreeOtpRow(t, key) ==
  LET kind == IF Get(t, "type") = None THEN "totp" ELSE KindFromStr(t.type)
      label == IF key = None THEN <<None, None>> ELSE SplitLabel(key)
      bytes == Get(t, "secretBytes") IN
  IF Malformed(t) \/ (bytes = None /\ Get(t, "secret") = None) THEN Skip("NoOtpSecret")
  ELSE IF kind = None THEN Fail("InvalidField")
  ELSE IF bytes # None /\ \E i \in DOMAIN bytes : ~SignedByteOk(bytes[i]) THEN Fail("InvalidField")
  ELSE IF ~NumbersFit(t, "digits", "period", "counter") THEN Fail("InvalidField")
  ELSE RowFrom([NoFields EXCEPT !.default_kind = kind, !.secret = Get(t, "secret"),
                  !.secret_bytes = IF bytes = None THEN None ELSE SignedBytes(bytes),
                  !.algorithm = Get(t, "algo"), !.digits = Get(t, "digits"), !.period = Get(t, "period"),
                  !.counter = NextCounter(kind, Get(t, "counter"))],
               OrElse(OrElse(Name(t, "issuerExt"), Name(t, "issuerInt")), label[1]),
               OrElse(OrElse(Name(t, "label"), label[2]), << >>), << >>, << >>, {})
FreeOtpMapRow(row) == IF Get(row, "json") = None THEN Skip("NoOtpSecret") ELSE FreeOtpRow(row.json, row.key)

-----------------------------------------------------------------------------
(***************************************************************************)
(* A password manager's TOTP field: a URI, steam:// or a bare secret.      *)
(***************************************************************************)
BareSecret(secret, kind, title, username, assumed) ==
  LET built == Build(Builder(kind, secret.pct)) IN
  IF secret.enc # "base32" THEN Fail("BadSecret")
  ELSE IF ~IsOk(built) THEN Fail(built.err)
  ELSE Built(NewItem(built.ok, title, OrElse(username, << >>)), assumed)
TotpField(raw, name, username) ==
  CASE "uri" \in DOMAIN raw ->
         OnBuilt(ItemFromUri(raw.uri), LAMBDA built :
           [built EXCEPT !.item.issuer = OrElse(@, name),
                         !.item.account = IF @ = << >> THEN OrElse(username, << >>) ELSE @])
    [] "steam" \in DOMAIN raw -> BareSecret(raw.steam, "steam", name, username, {})
    [] "secret" \in DOMAIN raw ->
         BareSecret(raw.secret, "totp", name, username, Assumed({"algorithm", "digits", "period"}))
    [] OTHER -> Fail("InvalidField")

BitwardenRow(i, table) ==
  IF Malformed(i) THEN Fail("WrongShape")
  ELSE IF ~Fits(i, "type", U64) THEN Fail("InvalidField")
  ELSE IF Get(i, "type") \notin {None, 1} THEN Skip("NoOtpSecret")
  ELSE IF Get(i, "login") = None THEN Skip("NoOtpSecret")
  ELSE IF Get(i.login, "totp") = None THEN Skip("NoOtpSecret")
  ELSE OnBuilt(TotpField(i.login.totp, Name(i, "name"),
                         OrElse(Name(i.login, "username"), Name(i.login, "email"))), LAMBDA built :
         [built EXCEPT !.item.groups = GroupNamed(table, Get(i, "folderId")),
                       !.warnings = @ \cup IF Get(i, "organizationId") # None
                                           THEN Dropped({"organizationId"}) ELSE {}])

\* Proton Pass: every TOTP field of an item is a row of its own.
ProtonSources(i) ==
  LET extra == Truncated(OrElse(Get(i, "extraFields"), << >>)) IN
  (IF Get(i, "totpUri") # None THEN <<i.totpUri>> ELSE << >>)
    \o Chosen(extra, {n \in DOMAIN extra : "other" \notin DOMAIN extra[n]})
ProtonRow(i, source, vaultName) ==
  LET trashed == Get(i, "state") = 2 IN
  OnBuilt(TotpField(source, Name(i, "name"), Name(i, "email")), LAMBDA built :
    [built EXCEPT !.item.groups = IF vaultName = None THEN << >> ELSE <<vaultName>>,
                  !.item.archived = trashed,
                  !.warnings = @ \cup IF trashed THEN {<<"ImportedAsArchived", "">>} ELSE {}])
\* The rows of an item; one row that is skipped or fails when it has no TOTP field.
ProtonRows(i, vaultName) ==
  IF Malformed(i) THEN <<Fail("WrongShape")>>
  ELSE IF Get(i, "data") = FALSE \/ ProtonSources(i) = << >> THEN <<Skip("NoOtpSecret")>>
  ELSE [n \in DOMAIN ProtonSources(i) |-> ProtonRow(i, ProtonSources(i)[n], vaultName)]

-----------------------------------------------------------------------------
(***************************************************************************)
(* KeePassXC: the events of the XML reader. A key and its value are one    *)
(* event, as are a group's name and any other leaf element.                *)
(***************************************************************************)
RootName == <<8>>   \* the text "Root"
EntryKeys == {"Title", "UserName", "otp", "TOTP Seed", "TOTP Settings"}
\* Entry::set: an empty value sets nothing.
EntrySet(entry, key, value) ==
  IF key \notin EntryKeys \/ value = << >> THEN entry
  ELSE [k \in DOMAIN entry \cup {key} |-> IF k = key THEN value ELSE entry[k]]

KeePassStart == [groups |-> << >>, entry |-> None, history |-> 0, in_group |-> FALSE, rows |-> << >>]
KeePassEvent(s, e) ==
  LET live == s.history = 0 IN
  CASE e[1] = "name" ->
         IF live /\ s.in_group THEN [s EXCEPT !.groups[Len(s.groups)] = e[2]]
         ELSE [s EXCEPT !.in_group = FALSE]
    [] e[1] = "leaf" -> [s EXCEPT !.in_group = FALSE]
    [] e[1] = "key" ->
         [s EXCEPT !.in_group = FALSE,
                   !.entry = IF live /\ @ # None THEN EntrySet(@, e[2], e[3]) ELSE @]
    [] e[1] = "start" ->
         [s EXCEPT !.in_group = e[2] = "Group",
                   !.history = IF e[2] = "History" THEN @ + 1 ELSE @,
                   !.groups = IF e[2] = "Group" /\ live THEN Append(@, << >>) ELSE @,
                   !.entry = IF e[2] = "Entry" /\ live THEN [k \in {} |-> 0] ELSE @]
    [] OTHER ->
         LET closes == e[2] = "Entry" /\ live /\ s.entry # None IN
         [s EXCEPT !.in_group = FALSE,
                   !.history = IF e[2] = "History" /\ @ > 0 THEN @ - 1 ELSE @,
                   !.groups = IF e[2] = "Group" /\ live /\ @ # << >> THEN Front(@) ELSE @,
                   !.entry = IF closes THEN None ELSE @,
                   !.rows = IF closes THEN Append(@, [entry |-> s.entry, groups |-> s.groups]) ELSE @]
KeePassEntries(events) == FoldLeft(KeePassEvent, KeePassStart, events).rows

\* A number that does not parse is read as if it were absent.
KeeOtp(value, title, username) ==
  LET digits == IF Fits(value, "size", U8) THEN Get(value, "size") ELSE None
      period == IF Fits(value, "step", U16) THEN Get(value, "step") ELSE None
      built == Constructed("totp", value.key.pct, None, digits, period, 0, None) IN
  IF Get(value, "key") = None THEN Fail("MissingField")
  ELSE IF value.key.enc # "base32" THEN Fail("BadSecret")
  ELSE IF ~IsOk(built) THEN Fail(built.err)
  ELSE Built(NewItem(built.ok, title, OrElse(username, << >>)),
             Assumed({n \in {"digits"} : digits = None} \cup {n \in {"period"} : period = None}))
\* TOTP Seed with TOTP Settings, "30;6" or "30;S".
KeeLegacy(seed, settings, title, username) ==
  LET period == IF settings = None THEN None
                ELSE IF Fits(settings, "period", U16) THEN Get(settings, "period") ELSE None
      kind == IF settings = None THEN "totp" ELSE IF "steam" \in DOMAIN settings THEN "steam" ELSE "totp"
      digits == IF settings = None \/ kind = "steam" THEN None
                ELSE IF Fits(settings, "digits", U8) THEN Get(settings, "digits") ELSE None
      built == Constructed(kind, seed.pct, None, digits, period, 0, None) IN
  IF settings # None /\ period = None THEN Fail("InvalidField")
  ELSE IF seed.enc # "base32" THEN Fail("BadSecret")
  ELSE IF ~IsOk(built) THEN Fail(built.err)
  ELSE Built(NewItem(built.ok, title, OrElse(username, << >>)),
             Assumed({n \in {"TOTP Settings"} : settings = None}
                       \cup {n \in {"digits"} : digits = None /\ kind = "totp"}))
KeePassRow(row) ==
  LET title == Get(row.entry, "Title")
      username == Get(row.entry, "UserName")
      otpField == Get(row.entry, "otp") IN
  IF otpField = None /\ Get(row.entry, "TOTP Seed") = None THEN Skip("NoOtpSecret")
  ELSE OnBuilt(
         IF otpField = None
         THEN KeeLegacy(row.entry["TOTP Seed"], Get(row.entry, "TOTP Settings"), title, username)
         ELSE IF "keeotp" \in DOMAIN otpField THEN KeeOtp(otpField.keeotp, title, username)
         ELSE TotpField(otpField, title, username),
         LAMBDA built :
           [built EXCEPT !.item.groups = SelectSeq(row.groups, LAMBDA g : g \notin {<< >>, RootName})])
=============================================================================
