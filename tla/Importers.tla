----------------------------- MODULE Importers -----------------------------
(***************************************************************************)
(* Importing a file: detection, decryption, and the collector that turns   *)
(* every row into one outcome.                                             *)
(*                                                                         *)
(* Source: misty-importers importer.rs, collect.rs, context.rs, outcome.rs,*)
(* csv.rs, mapping.rs, export.rs and the import and sniff functions of     *)
(* formats/. The caller, who inserts the items into the vault, is external.*)
(***************************************************************************)
EXTENDS ImportFormats

CONSTANTS
  MaxRows,       \* Limits::max_rows
  MaxNameLen,    \* Limits::max_text_field_bytes
  Files,         \* the files that are imported, a sequence
  Passphrases,   \* what the user may type, None for nothing
  MaxInserts     \* how many files are inserted, a bound of the model

VARIABLES
  vault,       \* ExistingItems: the triples the caller holds
  file,        \* the file being imported (its number), its format and rows, or None
  policy,      \* DuplicatePolicy
  at,          \* rows of the file read
  items, outcomes, batch_parts, seen,   \* Collector
  importError, \* ImportError, or None
  finished,    \* import returned
  inserted     \* how many files the caller inserted

importVars == <<vault, file, policy, at, items, outcomes, batch_parts, seen, importError, finished, inserted>>

\* SourceFormat, in the registry's order below.
SourceFormats == {"migration", "aegis", "twofas", "andotp", "freeotpplus", "freeotp", "raivo", "lastpass",
                  "authy", "proton", "bitwarden", "keepass", "ente", "otpauth", "csv", "json"}
\* ImportContext: what the caller chooses; limits are constants, the mapping comes with the file.
ImportContexts == [policy : {"Skip", "Keep"}, passphrase : Passphrases]
\* ImportError ends a file, RowError one row; what a row may be set aside for, or warned of.
ImportErrors == {"UnrecognizedFormat", "Empty", "InputTooLarge", "NotUtf8", "Json", "Xml", "Base64", "Hex",
                 "MissingField", "InvalidField", "UnsupportedVersion", "PassphraseRequired",
                 "EncryptedNotSupported", "DecryptionFailed", "KdfParam", "Protobuf", "MappingRequired",
                 "MappedColumnMissing", "TooManyRows", "RowTooLarge"}
RowErrors == {"MissingField", "InvalidField", "FieldTooLong", "WrongShape", "Protobuf", "BadSecret"}
               \cup OtpErrors \cup UriErrors
SkipReasons == {"DuplicateOfExisting", "DuplicateInBatch", "NoOtpSecret", "UnsupportedAlgorithm",
                "UnsupportedType", "EncryptedSecret", "Deleted"}
ImportWarnings == {"AssumedDefault", "NormalizedParam", "DroppedField", "CollidesWithExisting",
                   "DuplicateOfExisting", "SecretPrefixUsed", "Uri", "ImportedAsArchived"}
OutcomeOk(o) ==
  CASE "item" \in DOMAIN o -> \A w \in o.warnings : w[1] \in ImportWarnings
    [] "skipped" \in DOMAIN o -> o.skipped \in SkipReasons
    [] OTHER -> o.failed \in RowErrors

-----------------------------------------------------------------------------
(***************************************************************************)
(* Detection: No, Possible, Likely and Certain are 0 to 3.                 *)
(***************************************************************************)
Has(f, marks) == marks \subseteq f.marks
HasAny(f, marks) == marks \cap f.marks # {}
Best(options) == CHOOSE c \in options : \A d \in options : c >= d
Level(certain, likely, possible) ==
  Best({0} \cup {c \in {1, 2, 3} : (c = 3 /\ certain) \/ (c = 2 /\ likely) \/ (c = 1 /\ possible)})
IsObject(f) == f.start = "{"
IsArray(f) == f.start = "["
\* A list of URIs, one of which must carry a parameter.
SniffUriList(f, required) ==
  Level("otpauth://" \in f.marks /\ required \subseteq f.marks, FALSE, "otpauth://" \in f.marks)

SniffMigration(f) == Level("otpauth-migration://" \in f.marks, FALSE, FALSE)
SniffAegis(f) == IF IsObject(f) THEN Level(Has(f, {"db", "header"}), Has(f, {"db", "entries"}), FALSE) ELSE 0
SniffTwoFas(f) ==
  IF IsObject(f)
  THEN Level("schemaVersion" \in f.marks /\ HasAny(f, {"services", "servicesEncrypted"}),
             HasAny(f, {"servicesEncrypted", "appOrigin"}), FALSE)
  ELSE 0
SniffAndOtp(f) ==
  IF IsArray(f)
  THEN Level(/\ "secret" \in f.marks /\ HasAny(f, {"label", "issuer"})
             /\ HasAny(f, {"used_frequency", "thumbnail", "last_used"}), FALSE, "secret" \in f.marks)
  ELSE Level(FALSE, FALSE, "iterations" \in f.marks)
SniffFreeOtpPlus(f) ==
  IF IsObject(f)
  THEN Level("tokens" \in f.marks /\ HasAny(f, {"tokenOrder", "issuerExt"}), "issuerExt" \in f.marks, FALSE)
  ELSE 0
SniffFreeOtp(f) ==
  IF HasAny(f, {"<?xml", "<map>"}) THEN Level("tokenOrder" \in f.marks, FALSE, "<string name=" \in f.marks) ELSE 0
SniffRaivo(f) ==
  IF IsArray(f) THEN Level(Has(f, {"timer", "kind"}), HasAny(f, {"iconValue", "iconType"}), FALSE) ELSE 0
SniffLastPass(f) ==
  IF IsObject(f)
  THEN Level("accounts" \in f.marks /\ HasAny(f, {"issuerName", "deviceSecret"}),
             HasAny(f, {"originalIssuerName", "timeStep"}), FALSE)
  ELSE 0
SniffAuthy(f) ==
  Level("authenticator_tokens" \in f.marks,
        HasAny(f, {"decryptedSecret", "encrypted_seed", "encryptedSeed", "secretSeed"}), FALSE)
SniffProton(f) ==
  IF IsObject(f)
  THEN Level("vaults" \in f.marks /\ HasAny(f, {"userId", "encrypted"}), "totpUri" \in f.marks, FALSE)
  ELSE 0
SniffBitwarden(f) ==
  IF IsObject(f) THEN Level(Has(f, {"items", "encrypted"}), Has(f, {"items", "login"}), FALSE) ELSE 0
SniffKeePass(f) == Level("<KeePassFile" \in f.marks, Has(f, {"<Entry>", "<Key>"}), FALSE)
SniffEnte(f) ==
  IF IsObject(f) /\ "encryptedData" \in f.marks THEN 2 ELSE SniffUriList(f, {"codeDisplay"})
SniffOtpauth(f) == IF SniffUriList(f, {}) = 3 THEN 2 ELSE SniffUriList(f, {})
SniffCsv(f) == IF f.start \in {"{", "[", "<"} THEN 0 ELSE Level(FALSE, FALSE, "delimiter" \in f.marks)
SniffJson(f) == Level(FALSE, FALSE, IsObject(f) \/ IsArray(f))

\* The registry, in priority order.
Registry == <<"migration", "aegis", "twofas", "andotp", "freeotpplus", "freeotp", "raivo", "lastpass",
              "authy", "proton", "bitwarden", "keepass", "ente", "otpauth", "csv", "json">>
Sniffs(f) ==
  <<SniffMigration(f), SniffAegis(f), SniffTwoFas(f), SniffAndOtp(f), SniffFreeOtpPlus(f),
    SniffFreeOtp(f), SniffRaivo(f), SniffLastPass(f), SniffAuthy(f), SniffProton(f), SniffBitwarden(f),
    SniffKeePass(f), SniffEnte(f), SniffOtpauth(f), SniffCsv(f), SniffJson(f)>>
BestOf(found) == {i \in DOMAIN found : found[i] > 0 /\ \A j \in DOMAIN found : found[i] >= found[j]}
\* Mutant of Detect: the last of the best answers is taken.
DetectLast(f) ==
  LET best == BestOf(Sniffs(f))
  IN IF best = {} THEN None ELSE Registry[CHOOSE i \in best : \A j \in best : i >= j]
\* The best answer, the first of its equals: the stable sort of detect_all.
Detect(f) ==
  LET best == BestOf(Sniffs(f))
  IN IF best = {} THEN None ELSE Registry[CHOOSE i \in best : \A j \in best : i <= j]

\* What the types of the readers say: an error is one, lists are lists, numbers are numbers.
ASSUME FilesAssumption ==
  /\ {MaxRows, MaxTags, MaxSlotsTried} \subseteq Nat /\ None \notin ImportErrors
  /\ \A n \in DOMAIN Files :
       LET f == Files[n]
           rows == {f.rows[i] : i \in DOMAIN f.rows} IN
       /\ f.broken \in ImportErrors \cup {None}
       /\ (Detect(f) = "aegis" /\ Get(f, "sealed") # None) =>
            /\ f.sealed \in Seq(ToSet(f.sealed))
            /\ \A slot \in ToSet(f.sealed) : slot.broken \in ImportErrors \cup {None}
       /\ Detect(f) = "csv" => f.rows \in Seq(ToSet(f.rows))
       /\ (Detect(f) = "proton" /\ "rows" \in DOMAIN f) =>
            /\ f.rows \in Seq(ToSet(f.rows))
            /\ \A row \in rows :
                 Get(row, "extraFields") # None => row.extraFields \in Seq(ToSet(row.extraFields))
       /\ Detect(f) = "migration" =>
            /\ f.rows \in Seq(ToSet(f.rows))
            /\ \A row \in {r \in rows : IsUriLine(r)} :
                 IF "payload" \in DOMAIN row
                 THEN row.payload.parts \in Seq(ToSet(row.payload.parts)) /\ {row.payload.index, row.payload.total} \subseteq Nat
                 ELSE row.broken \in ImportErrors

-----------------------------------------------------------------------------
(***************************************************************************)
(* Encrypted exports: sealed is how a file was closed, [pass, ...].        *)
(***************************************************************************)
\* scrypt_key and check_iterations refuse a cost that is malformed or too high.
KdfOk(cost) == cost \in 1..MaxKdfCost
\* External: AES-256-GCM opens with the key it was closed with.
Opens(sealed, pass, hash) == sealed.pass = pass /\ sealed.hash = hash
\* Aegis: the error of a slot, None when it yields the master key.
SlotError(slot, pass) ==
  IF slot.broken # None THEN slot.broken
  ELSE IF ~KdfOk(slot.cost) THEN "KdfParam"
  ELSE IF slot.pass # pass THEN "DecryptionFailed" ELSE None
\* Password slots in turn, until one opens or one asks for a cost beyond the limit.
DecryptDb(slots, pass) ==
  LET password == Chosen(slots, {i \in DOMAIN slots : slots[i].type = 1})
      tried == SubSeq(password, 1, IF Len(password) < MaxSlotsTried THEN Len(password) ELSE MaxSlotsTried)
      stop == {i \in DOMAIN tried : SlotError(tried[i], pass) \in {None, "KdfParam"}} IN
  IF pass = None THEN "PassphraseRequired"
  ELSE IF tried = << >> THEN "MissingField"
  ELSE IF stop # {} THEN SlotError(tried[CHOOSE i \in stop : \A j \in stop : i <= j], pass)
  ELSE SlotError(tried[Len(tried)], pass)
\* 2FAS: SHA-256 first, SHA-1 for older files.
DecryptTwoFas(sealed, pass) ==
  IF pass = None THEN "PassphraseRequired"
  ELSE IF ~KdfOk(10000) THEN "KdfParam"
  ELSE IF Opens(sealed, pass, "sha256") \/ Opens(sealed, pass, "sha1") THEN None ELSE "DecryptionFailed"
\* andOTP: the two hashes when the header holds an iteration count, then the old scheme.
EncryptedIterations(sealed) == sealed.header \in 1000..10000000
DecryptAndOtp(sealed, pass) ==
  IF pass = None THEN "PassphraseRequired"
  ELSE IF EncryptedIterations(sealed) /\ ~KdfOk(sealed.header) THEN "KdfParam"
  ELSE IF EncryptedIterations(sealed) /\ \E hash \in {"sha1", "sha256"} : Opens(sealed, pass, hash) THEN None
  ELSE IF Opens(sealed, pass, "plain") THEN None
  ELSE "DecryptionFailed"
NeedsPassphrase(f, format) ==
  \/ format = "aegis" /\ Get(f, "sealed") # None
  \/ format = "twofas" /\ "servicesEncrypted" \in f.marks
  \/ format = "andotp" /\ ~IsArray(f)

-----------------------------------------------------------------------------
(***************************************************************************)
(* Generic CSV and JSON.                                                   *)
(***************************************************************************)
Slots == {"uri", "secret", "issuer", "account", "kind", "algorithm", "digits", "period", "counter", "pin",
          "tags", "group"}
\* CANDIDATES: the headings each field is recognised by, best first; two of each.
Candidates == [s \in Slots |->
  CASE s = "uri" -> <<"otpauth", "link">> [] s = "secret" -> <<"secret", "seed">>
    [] s = "issuer" -> <<"issuer", "service">> [] s = "account" -> <<"account", "username">>
    [] s = "kind" -> <<"kind", "type">> [] s = "tags" -> <<"tags", "labels">>
    [] s = "group" -> <<"group", "folder">> [] OTHER -> <<s>>]
Headings(header, slot) == SelectSeq(Candidates[slot], LAMBDA c : c \in header)
\* infer_from_header: what the caller mapped stays.
InferFromHeader(mapping, header) ==
  [s \in {s \in Slots : s \in DOMAIN mapping \/ Headings(header, s) # << >>} |->
     IF s \in DOMAIN mapping THEN mapping[s] ELSE Headings(header, s)[1]]
Usable(mapping) == {"uri", "secret"} \cap DOMAIN mapping # {}
\* Columns::resolve: every mapped column must be there.
ResolveColumns(mapping, header) ==
  IF \E s \in DOMAIN mapping : mapping[s] \notin header THEN "MappedColumnMissing"
  ELSE IF ~Usable(mapping) THEN "MappingRequired" ELSE None
\* read_row: a URI wins over a secret.
GenericRow(row, mapping) ==
  LET field(name) == IF name \in DOMAIN mapping THEN Get(row, mapping[name]) ELSE None
      named(name) == IF field(name) = << >> THEN None ELSE field(name)
      lists(r) == [r EXCEPT !.item.tags = Truncated(OrElse(field("tags"), << >>)),
                            !.item.groups = IF named("group") = None THEN << >> ELSE <<field("group")>>] IN
  IF field("uri") # None
  THEN OnBuilt(ItemFromUri(field("uri")), LAMBDA built :
         lists([built EXCEPT !.item.issuer = OrElse(@, named("issuer")),
                  !.item.account = IF @ = << >> THEN OrElse(field("account"), << >>) ELSE @]))
  ELSE IF field("secret") = None THEN Skip("NoOtpSecret")
  ELSE IF \E n \in {<<"digits", U8>>, <<"period", U16>>, <<"counter", U64>>} : ~NumberOk(field(n[1]), n[2])
  THEN Fail("InvalidField")
  ELSE OnBuilt(RowFrom([NoFields EXCEPT !.kind = field("kind"), !.secret = field("secret"),
                          !.algorithm = field("algorithm"), !.digits = field("digits"),
                          !.period = field("period"), !.counter = field("counter"), !.pin = named("pin")],
                       named("issuer"), OrElse(field("account"), << >>), << >>, << >>, {}), lists)

-----------------------------------------------------------------------------
(***************************************************************************)
(* What import does before the first row: an error, or the rows.           *)
(***************************************************************************)
Take(rows, n) == SubSeq(rows, 1, IF Len(rows) < n THEN Len(rows) ELSE n)
WantsObject(f) == IF IsObject(f) THEN None ELSE "UnrecognizedFormat"
Wants(f, field) == IF field \in DOMAIN f THEN None ELSE "MissingField"
FirstOf(errors) ==
  LET found == {i \in DOMAIN errors : errors[i] # None}
  IN IF found = {} THEN None ELSE errors[CHOOSE i \in found : \A j \in found : i <= j]

OpenAegis(f, pass) ==
  FirstOf(<<WantsObject(f), Wants(f, "version"),
            IF Get(f, "version") \in {None, 1} THEN None ELSE "UnsupportedVersion",
            IF Get(f, "sealed") # None THEN DecryptDb(f.sealed, pass) ELSE None, Wants(f, "rows")>>)
OpenTwoFas(f, pass) ==
  FirstOf(<<WantsObject(f), IF Get(f, "sealed") # None THEN DecryptTwoFas(f.sealed, pass) ELSE None,
            Wants(f, "rows")>>)
OpenAndOtp(f, pass) ==
  IF IsArray(f) THEN Wants(f, "rows")
  ELSE IF Get(f, "sealed") = None THEN IF pass = None THEN "PassphraseRequired" ELSE "DecryptionFailed"
  ELSE FirstOf(<<DecryptAndOtp(f.sealed, pass), Wants(f, "rows")>>)
OpenRaivo(f) == IF IsArray(f) THEN None ELSE "InvalidField"
OpenLastPass(f) == FirstOf(<<WantsObject(f), Wants(f, "rows")>>)
OpenAuthy(f) == IF IsArray(f) \/ IsObject(f) THEN Wants(f, "rows") ELSE "UnrecognizedFormat"
OpenBitwarden(f) ==
  FirstOf(<<WantsObject(f), IF Get(f, "encrypted") = TRUE THEN "EncryptedNotSupported" ELSE None, Wants(f, "rows")>>)
OpenProton(f) ==
  FirstOf(<<WantsObject(f), IF Get(f, "encrypted") = TRUE THEN "EncryptedNotSupported" ELSE None, Wants(f, "rows")>>)
OpenFreeOtpPlus(f) == FirstOf(<<WantsObject(f), Wants(f, "rows")>>)
OpenEnte(f) == IF IsObject(f) THEN "EncryptedNotSupported" ELSE None
\* CSV: the header is a row of the file, and the scanner stops at the limit.
MappingOf(f) == OrElse(Get(f, "mapping"), [s \in {} |-> s])
OpenCsv(f) ==
  IF f.header # None
  THEN FirstOf(<<IF Usable(InferFromHeader(MappingOf(f), f.header)) THEN None ELSE "MappingRequired",
                 ResolveColumns(InferFromHeader(MappingOf(f), f.header), f.header)>>)
  ELSE IF MappingOf(f) = [s \in {} |-> s] THEN "MappingRequired" ELSE ResolveColumns(MappingOf(f), f.columns)
CsvMapping(f) == IF f.header # None THEN InferFromHeader(MappingOf(f), f.header) ELSE MappingOf(f)
CsvRows(f) == Take(f.rows, IF f.header # None THEN MaxRows - 1 ELSE MaxRows)
OpenJson(f) == IF MappingOf(f) = [s \in {} |-> s] \/ "rows" \notin DOMAIN f THEN "MappingRequired" ELSE None

FileError(f, format, pass) ==
  IF f.broken # None THEN f.broken
  ELSE CASE format = "aegis" -> OpenAegis(f, pass) [] format = "twofas" -> OpenTwoFas(f, pass)
         [] format = "andotp" -> OpenAndOtp(f, pass) [] format = "raivo" -> OpenRaivo(f)
         [] format = "lastpass" -> OpenLastPass(f) [] format = "authy" -> OpenAuthy(f)
         [] format = "bitwarden" -> OpenBitwarden(f) [] format = "proton" -> OpenProton(f)
         [] format = "freeotpplus" -> OpenFreeOtpPlus(f) [] format = "ente" -> OpenEnte(f)
         [] format = "csv" -> OpenCsv(f) [] format = "json" -> OpenJson(f)
         [] OTHER -> None   \* lines and XML are read as they come

RowsOf(f, format) ==
  CASE format \in {"ente", "otpauth", "migration"} -> Chosen(f.rows, {i \in DOMAIN f.rows : IsUriLine(f.rows[i])})
    [] format = "csv" -> CsvRows(f)
    [] format = "keepass" -> KeePassEntries(f.rows)
    [] OTHER -> f.rows

\* The outcomes of one row; several for an item of Proton Pass or a line of Google's.
Read(f, format, row) ==
  LET table == OrElse(Get(f, "groups"), [id \in {} |-> id]) IN
  CASE format = "otpauth" -> <<OtpauthRow(row)>> [] format = "ente" -> <<EnteRow(row)>>
    [] format = "aegis" -> <<AegisRow(row, table)>> [] format = "twofas" -> <<TwoFasRow(row, table)>>
    [] format = "andotp" -> <<AndOtpRow(row)>> [] format = "raivo" -> <<RaivoRow(row)>>
    [] format = "lastpass" -> <<LastPassRow(row, table)>> [] format = "authy" -> <<AuthyRow(row)>>
    [] format = "bitwarden" -> <<BitwardenRow(row, table)>>
    [] format = "proton" -> ProtonRows(row, Get(f, "vaultName"))
    [] format = "freeotpplus" -> <<FreeOtpRow(row, None)>> [] format = "freeotp" -> <<FreeOtpMapRow(row)>>
    [] format = "keepass" -> <<KeePassRow(row)>>
    [] format = "migration" ->
         IF IsOk(MigrationPayload(row))
         THEN [i \in DOMAIN row.payload.parts |-> MigrationRow(row.payload.parts[i])] ELSE << >>
    [] format = "csv" ->
         IF Malformed(row) THEN <<Fail("FieldTooLong")>>
         ELSE IF row = [c \in {} |-> c] THEN << >> ELSE <<GenericRow(row, CsvMapping(f))>>
    [] format = "json" -> <<GenericRow(row, MappingOf(f))>>

-----------------------------------------------------------------------------
(***************************************************************************)
(* The collector.                                                          *)
(***************************************************************************)
Triple(item) == <<item.issuer, item.account, item.otp.secret>>
Pair(triple) == <<triple[1], triple[2]>>
Collector == [items |-> items, outcomes |-> outcomes, seen |-> seen]
IsFull(c) == Len(c.outcomes) >= MaxRows

Forbidden(name) == \E i \in DOMAIN name : name[i] = 9
FieldError(name) ==
  IF name = None THEN None
  ELSE IF Len(name) > MaxNameLen THEN "FieldTooLong" ELSE IF Forbidden(name) THEN "InvalidField" ELSE None
ListError(list) ==
  LET found == {i \in DOMAIN list : FieldError(list[i]) # None}
  IN IF found = {} THEN None ELSE FieldError(list[CHOOSE i \in found : \A j \in found : i <= j])
ValidateItem(item) ==
  FirstOf(<<FieldError(item.issuer), FieldError(item.account), ListError(item.tags), ListError(item.groups),
            IF Len(item.tags) > MaxTags \/ Len(item.groups) > MaxTags THEN "FieldTooLong" ELSE None>>)

SkipRow(c, reason) == [c EXCEPT !.outcomes = Append(@, [skipped |-> reason])]
FailRow(c, error) == [c EXCEPT !.outcomes = Append(@, [failed |-> error])]
\* Mutant of KnownTriple: the account is compared, not the secret.
KnownTripleByName(t) == \E v \in vault : Pair(v) = Pair(t)
KnownTriple(t) == t \in vault
\* Duplicates that are kept, names that collide, secrets that are used in part.
AcceptWarnings(c, item) ==
  LET t == Triple(item)
      known == KnownTriple(t) IN
  (IF t \in c.seen \/ known THEN {<<"DuplicateOfExisting", "">>} ELSE {})
    \cup (IF ~known /\ \E v \in vault : Pair(v) = Pair(t) THEN {<<"CollidesWithExisting", "">>} ELSE {})
    \cup (IF item.otp.kind = "yaotp" /\ Len(item.otp.secret) > PrefixLen
          THEN {<<"SecretPrefixUsed", "">>} ELSE {})
\* What an imported row says of its item: its place in the report's items.
ItemRef(c) == Len(c.items) + 1
Accept(c, built) ==
  LET t == Triple(built.item)
      later == [c EXCEPT !.seen = @ \cup {t}] IN
  IF ValidateItem(built.item) # None THEN FailRow(c, ValidateItem(built.item))
  ELSE IF policy = "Skip" /\ t \in c.seen THEN SkipRow(later, "DuplicateInBatch")
  ELSE IF policy = "Skip" /\ KnownTriple(t) THEN SkipRow(later, "DuplicateOfExisting")
  ELSE [later EXCEPT !.items = Append(@, built.item),
          !.outcomes = Append(@, [item |-> ItemRef(c),
                                  warnings |-> built.warnings \cup AcceptWarnings(c, built.item)])]
Offer(c, result) ==
  CASE "item" \in DOMAIN result -> Accept(c, result)
    [] "skip" \in DOMAIN result -> SkipRow(c, result.skip)
    [] OTHER -> FailRow(c, result.fail)

\* The first n results, one after the other.
OfferAll(c, results, n) ==
  LET upTo[i \in 0..n] == IF i = 0 THEN c ELSE Offer(upTo[i - 1], results[i])
  IN upTo[n]

NoteBatchPart(parts, payload) ==
  IF payload.total > 1 /\ \A p \in parts : p.index # payload.index
  THEN parts \cup {[index |-> payload.index, total |-> payload.total]} ELSE parts
\* missing_parts: the largest total counts.
MissingParts(parts) ==
  IF parts = {} THEN {}
  ELSE (0..(Best({p.total : p \in parts}) - 1)) \ {p.index : p \in parts}

-----------------------------------------------------------------------------
(***************************************************************************)
(* Export.                                                                 *)
(***************************************************************************)
\* as_otp_uri: vendor parameters are not kept.
ItemUri(item) == [config |-> item.otp, issuer |-> item.issuer, account |-> item.account, extra |-> << >>]
UriList(list) == [i \in DOMAIN list |-> [uri |-> ToUri(ItemUri(list[i]))]]
\* write_item: the URI is what an importer needs; the rest is for people.
PlaintextRow(item) ==
  [uri |-> ToUri(ItemUri(item)), issuer |-> OrElse(item.issuer, << >>), account |-> item.account]
PlaintextJson(list, confirmed) ==
  IF confirmed THEN Ok([i \in DOMAIN list |-> PlaintextRow(list[i])]) ELSE Err("ConfirmationRequired")
PlaintextMapping == [uri |-> "uri", issuer |-> "issuer", account |-> "account"]

-----------------------------------------------------------------------------
(***************************************************************************)
(* One import after the other.                                             *)
(***************************************************************************)
Idle == file = None
From == Files[file.number]
ImportInit ==
  /\ vault = {} /\ file = None /\ policy = "Skip" /\ at = 0
  /\ items = << >> /\ outcomes = << >> /\ batch_parts = {} /\ seen = {}
  /\ importError = None /\ finished = FALSE /\ inserted = 0

\* import_auto up to the first row.
OpenAs(n, f, format, error, context) ==
  /\ Idle
  /\ file' = [number |-> n, format |-> format,
              pass |-> IF Get(f, "sealed") = None THEN None ELSE context.passphrase,
              rows |-> IF error = None THEN RowsOf(f, format) ELSE << >>]
  /\ policy' = context.policy /\ at' = 0
  /\ items' = << >> /\ outcomes' = << >> /\ batch_parts' = {} /\ seen' = {}
  /\ importError' = error /\ finished' = (error # None)
  /\ UNCHANGED <<vault, inserted>>
OpenFile(n, context) ==
  LET f == Files[n]
      format == Detect(f) IN
  OpenAs(n, f, format, IF format = None THEN "UnrecognizedFormat" ELSE FileError(f, format, context.passphrase),
         context)

\* How many of the results the collector has room for.
Room(results) == IF Len(results) < MaxRows - Len(outcomes) THEN Len(results) ELSE MaxRows - Len(outcomes)
\* Whether running out of room ends the import: not within an item of Proton Pass.
OutOfRoom(results) ==
  IF file.format = "proton" THEN IsFull(Collector)
  ELSE IF file.format \in {"migration", "csv"} THEN Len(results) > Room(results)
  ELSE IsFull(Collector)
RowError(row) ==
  IF file.format = "migration" /\ ~IsOk(MigrationPayload(row)) THEN MigrationPayload(row).err ELSE None

\* The report so far, or none when an error ends the file.
Collect(row, read, error) ==
  /\ importError' = error /\ finished' = (error # None)
  /\ IF error = None
     THEN /\ items' = read.items /\ outcomes' = read.outcomes /\ seen' = read.seen
          /\ batch_parts' = IF file.format = "migration"
                            THEN NoteBatchPart(batch_parts, row.payload) ELSE batch_parts
     ELSE items' = << >> /\ outcomes' = << >> /\ seen' = {} /\ batch_parts' = {}
Offered(row, results) ==
  Collect(row, OfferAll(Collector, results, Room(results)),
          IF RowError(row) # None THEN RowError(row) ELSE IF OutOfRoom(results) THEN "TooManyRows" ELSE None)

ReadRow ==
  /\ file # None /\ ~finished /\ at < Len(file.rows)
  /\ at' = at + 1
  /\ LET row == file.rows[at + 1] IN Offered(row, Read(From, file.format, row))
  /\ UNCHANGED <<vault, file, policy, inserted>>

\* The report; a file of lines without a row was not of that format.
Finish ==
  /\ file # None /\ ~finished /\ at = Len(file.rows)
  /\ finished' = TRUE
  /\ importError' =
       IF (outcomes = << >> /\ file.format \in {"otpauth", "ente", "freeotp", "csv", "keepass"})
          \/ (file.rows = << >> /\ file.format = "migration")
       THEN "UnrecognizedFormat" ELSE None
  /\ UNCHANGED <<vault, file, policy, at, items, outcomes, batch_parts, seen, inserted>>

Close ==
  /\ file' = None /\ at' = 0 /\ finished' = FALSE /\ importError' = None
  /\ items' = << >> /\ outcomes' = << >> /\ batch_parts' = {} /\ seen' = {}
  /\ policy' = "Skip"
\* External: the caller adds the items to the vault.
Insert ==
  /\ finished /\ importError = None /\ inserted < MaxInserts
  /\ vault' = vault \cup {Triple(items[i]) : i \in DOMAIN items}
  /\ inserted' = inserted + 1
  /\ Close
\* A preview, or an error that was shown: the items are dropped.
Drop == finished /\ Close /\ UNCHANGED <<vault, inserted>>

ImportNext ==
  \/ \E n \in DOMAIN Files, context \in ImportContexts : OpenFile(n, context)
  \/ ReadRow
  \/ Finish
  \/ Insert
  \/ Drop
ImportSpec == ImportInit /\ [][ImportNext]_importVars

-----------------------------------------------------------------------------
\* The results of the first n rows, each with its row and its place there.
ResultsUpTo(n) == UNION {{k} \X DOMAIN Read(From, file.format, file.rows[k]) : k \in 1..n}
Items == {items[i] : i \in DOMAIN items}
Imported == {i \in DOMAIN outcomes : "item" \in DOMAIN outcomes[i]}

\* The report is joined by position: the n-th imported row names the n-th item, every item has
\* its row, and what a row became fits the limits (accept, validate).
ImportTypeOK ==
  /\ file # None => file.format \in SourceFormats \cup {None}
  /\ importError \in ImportErrors \cup {None} /\ \A i \in DOMAIN outcomes : OutcomeOk(outcomes[i])
  /\ Len(items) = Cardinality(Imported) /\ Len(outcomes) <= MaxRows
  /\ \A i \in Imported : outcomes[i].item = Cardinality({j \in Imported : j <= i})
  /\ \A item \in Items : ValidateItem(item) = None /\ CheckLen(item.otp.secret) = None

\* Under Skip no secret is taken twice and none is lost: a row that was set aside as a
\* duplicate has its triple in the vault or in the report; under Keep every double is pointed
\* out (DuplicatePolicy, accept).
DuplicatesAreHeld ==
  /\ policy = "Skip" => /\ \A i, j \in DOMAIN items : i # j => Triple(items[i]) # Triple(items[j])
                        /\ \A item \in Items : Triple(item) \notin vault
  /\ seen \subseteq vault \cup {Triple(item) : item \in Items}
  /\ policy = "Keep" => \A i \in Imported :
       (\/ Triple(items[outcomes[i].item]) \in vault
        \/ \E j \in 1..(outcomes[i].item - 1) : Triple(items[j]) = Triple(items[outcomes[i].item]))
         => <<"DuplicateOfExisting", "">> \in outcomes[i].warnings

\* The place of the j-th result of row k in a report that holds all of them.
PlaceOf(k, j) == Cardinality(ResultsUpTo(k - 1)) + j
TriplesOf(c) == {Triple(c.items[i]) : i \in 1..Len(c.items)}
\* An outcome says what became of a result: its item is in the report as it was read and with
\* its warnings, it was set aside for its own reason or as a duplicate of one that is held, or it
\* failed as it was read or as its item was checked.
Reports(c, how, known, outcome, result) ==
  CASE "item" \in DOMAIN outcome ->
         /\ "item" \in DOMAIN result /\ outcome.item \in 1..Len(c.items)
         /\ c.items[outcome.item] = result.item /\ result.warnings \subseteq outcome.warnings
    [] "skipped" \in DOMAIN outcome ->
         \/ "skip" \in DOMAIN result /\ outcome.skipped = result.skip
         \/ /\ "item" \in DOMAIN result /\ how = "Skip"
            /\ outcome.skipped \in {"DuplicateInBatch", "DuplicateOfExisting"}
            /\ Triple(result.item) \in known \cup TriplesOf(c)
    [] OTHER ->
         \/ "fail" \in DOMAIN result /\ outcome.failed = result.fail
         \/ "item" \in DOMAIN result /\ outcome.failed = ValidateItem(result.item)
InTheirPlaces(n) ==
  \A k \in 1..n : \A j \in DOMAIN Read(From, file.format, file.rows[k]) :
    IF PlaceOf(k, j) <= Len(outcomes)
    THEN Reports(Collector, policy, vault, outcomes[PlaceOf(k, j)], Read(From, file.format, file.rows[k])[j])
    ELSE file.format = "proton" /\ IsFull(Collector)
\* Where an import stops at its limit without an error: the scanner of CSV, which counts the
\* header, and an item of Proton Pass.
CutShort ==
  \/ file.format = "csv" /\ Len(file.rows) < Len(From.rows)
  \/ file.format = "proton" /\ Cardinality(ResultsUpTo(Len(file.rows))) > MaxRows

\* A report without an error tells of every result of every row of the file, in their order and
\* each of its own ("one outcome per row the importer looked at", outcome.rs); where the limit of
\* rows cuts a file short without an error, of the first ones, as many as there is room for.
RowsAccounted ==
  (finished /\ importError = None) =>
    /\ InTheirPlaces(Len(file.rows))
    /\ ~CutShort => Len(outcomes) = Cardinality(ResultsUpTo(Len(file.rows)))
    /\ CutShort => MaxRows \in {Len(outcomes), Len(file.rows), Len(file.rows) + 1}

\* No row of a file is left out of a report that has no error ("Refusing is the honest answer: a
\* silently truncated import of a credential file is indistinguishable from a complete one",
\* the_row_limit_stops_an_import_rather_than_truncating_it). CSV and Proton Pass do leave out rows.
NoRowIsLeftOut == (finished /\ importError = None) => ~CutShort

\* An export of the form a vendor writes is read by that vendor's reader, and what KeePass
\* keeps as the history of an entry is not a row (detect, keepass.rs).
ReadAsWritten ==
  file # None =>
    /\ From.origin \in {None, file.format}
    /\ ("expected" \in DOMAIN From /\ ~finished) => file.rows = From.expected

\* The passphrases a file was closed with (opensWith) open it, and no other reads a row
\* (decrypt_db, decrypt): opensWith is absent when the file asks for more than the limits allow.
PassphraseDecides ==
  (file # None /\ Get(From, "sealed") # None /\ NeedsPassphrase(From, file.format)) =>
    IF file.pass \in OrElse(Get(From, "opensWith"), {})
    THEN importError \in {None, "TooManyRows"}
    ELSE importError # None

\* Where each export states a parameter.
StatedIn(row, format) ==
  LET under(r, digits, period, counter, algorithm) ==
        [digits |-> Get(r, digits), period |-> Get(r, period), counter |-> Get(r, counter),
         algorithm |-> Get(r, algorithm)] IN
  CASE format = "aegis" -> under(row.info, "digits", "period", "counter", "algo")
    [] format = "twofas" -> under(OrElse(Get(row, "otp"), [x |-> 0]), "digits", "period", "counter", "algorithm")
    [] format = "raivo" -> under(row, "digits", "timer", "counter", "algorithm")
    [] format = "lastpass" -> under(row, "digits", "timeStep", "x", "algorithm")
    [] format = "freeotpplus" -> under(row, "digits", "period", "counter", "algo")
    [] OTHER -> under(row, "digits", "period", "counter", "algorithm")
\* A parameter an export states is in effect (FreeOTP states the counter it used last), or the row
\* says it was overridden or assumed; one it does not state and the kind leaves open is reported as assumed (config: "a defaulted HOTP
\* counter silently desynchronizes a token").
NothingAssumedSilently ==
  (file # None /\ file.format \in {"aegis", "twofas", "andotp", "raivo", "lastpass", "authy", "freeotpplus"}) =>
    \A i \in Imported :
      LET config == items[outcomes[i].item].otp
          stated == StatedIn(file.rows[i], file.format)
          told(name) == \E w \in outcomes[i].warnings : w[2] = name
          open == {n \in {"digits", "period", "algorithm"} : FixedOf(config.kind)[n] = None}
                    \cup {n \in {"counter"} : UsesCounter(config.kind)} IN
      \A n \in DOMAIN stated :
        \/ told(n)
        \/ stated[n] = None /\ n \notin open
        \/ n = "period" /\ UsesCounter(config.kind)
        \/ n = "counter" /\ stated[n] = 0
        \/ stated[n] # None /\ config[n] = IF n = "counter" /\ file.format = "freeotpplus"
                                          THEN stated[n] + 1 ELSE stated[n]

\* The parts of one export: a report calls the batch complete only when every part was in the
\* file (batch_is_complete: "a user who scans one of three ... has no way to know it").
BatchIsWhole ==
  (finished /\ importError = None /\ file.format = "migration") =>
    LET payloads == {file.rows[i].payload : i \in DOMAIN file.rows} IN
    \A total \in {p.total : p \in payloads} :
      ({p.total : p \in payloads} = {total}) =>
        (MissingParts(batch_parts) = {} <=> 0..(total - 1) \subseteq {p.index : p \in payloads} \/ total <= 1)

\* What is exported as a list of URIs or as plaintext JSON is read back as the same items in
\* the form their kind is written in, unless the names an importer takes make a URI that is too
\* long, which the export does not notice and the reader refuses (uri_list, plaintext_json,
\* export_form; "any batch of valid items exports to otpauth:// and re-imports to an identical
\* model", round_trip.rs).
ExportReimports ==
  \A i \in DOMAIN items :
    LET u == ItemUri(items[i])
        back == Built(NewItem(ExportForm(u).config, items[i].issuer, items[i].account), {}) IN
    /\ (Printable(u) /\ UriFits(ToUri(u))) =>
         /\ OtpauthRow(UriList(items)[i]) = back
         /\ GenericRow(PlaintextJson(items, TRUE).ok[i], PlaintextMapping) = back
    /\ ~UriFits(ToUri(u)) => OtpauthRow(UriList(items)[i]) = Fail("TooLong")

\* Every row of an import is accounted for once: as the item its outcome names, as a duplicate of
\* one that is held, or as skipped, and a batch of QR codes is called whole when it is
\* (accept, batch_is_complete).
EveryRowIsAccounted == ImportTypeOK /\ RowsAccounted /\ DuplicatesAreHeld /\ BatchIsWhole

\* A file is read as the vendor wrote it: by the right reader, with the right passphrase, without
\* a parameter that was guessed in silence, and what is exported again reads back the same
\* (detect, decrypt, config, uri_list).
FilesAreReadAsWritten == ReadAsWritten /\ PassphraseDecides /\ NothingAssumedSilently /\ ExportReimports

-----------------------------------------------------------------------------
(***************************************************************************)
(* The inductive invariant behind EveryRowIsAccounted. What the collector  *)
(* holds at any time (Tidy): an imported row names its item by the number  *)
(* of imported rows up to it, and what was seen is what was taken or is    *)
(* known. Each result of a row that was read has its outcome in its place  *)
(* in the report, as long as there is room, and the parts of a batch are   *)
(* those of the lines read.                                                *)
(***************************************************************************)
ImportedIn(os) == {i \in DOMAIN os : "item" \in DOMAIN os[i]}
RankIn(os, i) == Cardinality({j \in ImportedIn(os) : j <= i})
Numbered(c) ==
  /\ c.items \in Seq(ToSet(c.items)) /\ c.outcomes \in Seq(ToSet(c.outcomes))
  /\ \A i \in 1..Len(c.outcomes) : OutcomeOk(c.outcomes[i])
  /\ Len(c.items) = Cardinality(ImportedIn(c.outcomes))
  /\ \A i \in ImportedIn(c.outcomes) : c.outcomes[i].item = RankIn(c.outcomes, i)
  /\ \A i \in 1..Len(c.items) : ValidateItem(c.items[i]) = None /\ CheckLen(c.items[i].otp.secret) = None
NoDoubles(c, how, known) ==
  /\ how = "Skip" =>
       /\ \A i, j \in 1..Len(c.items) : i # j => Triple(c.items[i]) # Triple(c.items[j])
       /\ \A i \in 1..Len(c.items) : Triple(c.items[i]) \notin known
  /\ TriplesOf(c) \subseteq c.seen /\ c.seen \subseteq known \cup TriplesOf(c)
PointedOut(c, known) ==
  \A i \in ImportedIn(c.outcomes) :
    LET n == c.outcomes[i].item IN
    (\/ Triple(c.items[n]) \in known
     \/ \E j \in 1..(n - 1) : Triple(c.items[j]) = Triple(c.items[n]))
      => <<"DuplicateOfExisting", "">> \in c.outcomes[i].warnings
Tidy(c, how, known) ==
  /\ DOMAIN c = {"items", "outcomes", "seen"}
  /\ Numbered(c) /\ NoDoubles(c, how, known) /\ (how = "Keep" => PointedOut(c, known))

\* The parts of the lines rows[1] to rows[n], without those of a code that stands alone.
PartsNoted(parts, rows, n) ==
  /\ \A k \in 1..n :
       /\ rows[k].payload.total \in Nat
       /\ rows[k].payload.total > 1 => \E p \in parts : p.index = rows[k].payload.index
  /\ \A p \in parts : \E k \in 1..n :
       /\ rows[k].payload.total > 1
       /\ p = [index |-> rows[k].payload.index, total |-> rows[k].payload.total]
ReadSoFar ==
  /\ file.format # None /\ file.rows = RowsOf(From, file.format)
  /\ finished => at = Len(file.rows)
  /\ Len(outcomes) = IF file.format = "proton" /\ Cardinality(ResultsUpTo(at)) > MaxRows
                     THEN MaxRows ELSE Cardinality(ResultsUpTo(at))
  /\ InTheirPlaces(at)
  /\ file.format = "migration" => PartsNoted(batch_parts, file.rows, at)
  /\ file.format = "proton" => "rows" \in DOMAIN From
ImportInv ==
  /\ Tidy(Collector, policy, vault) /\ Len(outcomes) <= MaxRows /\ at \in Nat
  /\ importError \in ImportErrors \cup {None}
  /\ (file # None \/ finished) =>
       /\ file.number \in DOMAIN Files /\ file.format = Detect(From)
       /\ ~finished => importError = None
       /\ importError = None => ReadSoFar
=============================================================================
