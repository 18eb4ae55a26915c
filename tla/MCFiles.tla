------------------------------- MODULE MCFiles -------------------------------
(***************************************************************************)
(* The export files the importers are checked with: one or more of every   *)
(* format, whole, sealed under a passphrase, with rows that are malformed, *)
(* doubled, too long or too many, and files of no format.                  *)
(***************************************************************************)
EXTENDS Importers, TLC

\* Secrets and URIs.
Sec(enc, b) == [enc |-> enc, pct |-> b]
b32 == Sec("base32", <<1, 2>>)
b32b == Sec("base32", <<2, 2, 1>>)
hx == Sec("hex", <<3>>)
bad == Sec("none", <<3>>)
\* A file: the format that wrote it, its first character, what detection finds in it, its rows.
Export(origin, start, marks, rows) ==
  [origin |-> origin, start |-> start, marks |-> marks, broken |-> None, rows |-> rows]
\* r with one more field.
Also(r, field, v) == [f \in DOMAIN r \cup {field} |-> IF f = field THEN v ELSE r[f]]
Uri(type, label, query) ==
  [scheme |-> "otpauth", type |-> type, label |-> label, query |-> query, fragment |-> FALSE, len |-> 8]
lab == <<[pct |-> <<4>>], [pct |-> <<5>>]>>
u1 == Uri("totp", lab, <<<<"secret", b32>>>>)
u2 == Uri("totp", lab, <<<<"secret", b32b>>, <<"digits", 8>>, <<"vendor", [pct |-> <<7>>]>>>>)
u3 == Uri("hotp", lab, <<<<"secret", b32>>>>)
u4 == Uri("yaotp", << >>, <<<<"secret", b32b>>, <<"digits", 6>>>>)
Line(u) == [uri |-> u]
otpauthMarks == {"otpauth://"}
\* Rows of the single formats.
mig(parts, i, t) == [payload |-> [parts |-> parts, index |-> i, total |-> t]]
P1 == [secret |-> <<1, 2>>, name |-> <<4, 0, 5>>, type |-> 2]
P2 == [secret |-> <<2>>, name |-> <<4, 0, 5>>, issuer |-> <<6>>, type |-> 1, algorithm |-> 2, digits |-> 2]
P3 == [secret |-> <<1, 2>>, name |-> <<5>>, issuer |-> <<4>>, type |-> 2, algorithm |-> 1, digits |-> 1, counter |-> 3]
aeg(kind, info) == [type |-> kind, issuer |-> <<4>>, name |-> <<5>>, info |-> info]
slot(t, b, c, p) == [type |-> t, broken |-> b, cost |-> c, pass |-> p]
AegisMarks == {"db", "header"}
A1 == <<aeg("totp", [secret |-> b32, algo |-> "SHA1", digits |-> 6, period |-> 30, counter |-> 4]),
        aeg("steam", [secret |-> b32b, digits |-> 6]), aeg("yandex", [secret |-> b32b, pin |-> <<1>>])>>
A2 == <<aeg("hotp", [secret |-> b32, digits |-> 300]), aeg("weird", [secret |-> b32]),
        [malformed |-> TRUE], Also(aeg("hotp", [secret |-> b32b]), "groups", <<"g1", "g2", "g3">>)>>
Folders == [g1 |-> <<6>>, g2 |-> <<7>>]
\* A KeePass file as its XML events, the rows it holds, and one with the odd entries.
kdb == <<<<"start", "Group">>, <<"name", <<8>>>>, <<"start", "Entry">>, <<"key", "Title", <<4>>>>,
   <<"key", "otp", Line(u1)>>, <<"start", "History">>, <<"start", "Entry">>, <<"key", "otp", Line(u2)>>,
   <<"end", "Entry">>, <<"end", "History">>, <<"key", "UserName", <<5>>>>, <<"end", "Entry">>,
   <<"start", "Group">>, <<"name", <<6>>>>, <<"leaf">>, <<"start", "Entry">>, <<"key", "TOTP Seed", b32b>>,
   <<"key", "TOTP Settings", [period |-> 60, digits |-> 8]>>, <<"end", "Entry">>, <<"end", "Group">>,
   <<"start", "Entry">>, <<"key", "otp", [keeotp |-> [key |-> b32, step |-> 60]]>>, <<"end", "Entry">>,
   <<"end", "Group">>>>
kdbRows == <<[entry |-> ("Title" :> <<4>>) @@ ("otp" :> Line(u1)) @@ ("UserName" :> <<5>>), groups |-> <<<<8>>>>],
   [entry |-> ("TOTP Seed" :> b32b) @@ ("TOTP Settings" :> [period |-> 60, digits |-> 8]), groups |-> <<<<8>>, <<6>>>>],
   [entry |-> ("otp" :> [keeotp |-> [key |-> b32, step |-> 60]]), groups |-> <<<<8>>>>]>>
kdb2 == <<<<"start", "Group">>, <<"leaf">>, <<"name", <<6>>>>, <<"start", "Entry">>, <<"key", "TOTP Seed", b32>>, <<"key", "Other", <<4>>>>,
   <<"key", "TOTP Settings", [period |-> 30, steam |-> TRUE]>>, <<"end", "Entry">>,
   <<"start", "Entry">>, <<"key", "TOTP Seed", hx>>, <<"end", "Entry">>,
   <<"start", "Entry">>, <<"key", "TOTP Seed", b32>>, <<"end", "Entry">>,
   <<"start", "Entry">>, <<"key", "TOTP Seed", b32>>, <<"key", "TOTP Settings", [period |-> 99999]>>, <<"end", "Entry">>,
   <<"start", "Entry">>, <<"key", "Title", << >>>>, <<"end", "Entry">>, <<"end", "Group">>>>
ExportFiles == <<
  Export("otpauth", "o", otpauthMarks, <<Line(u1), [blank |-> TRUE], Line(u2), Line(u1)>>),
  Export("otpauth", "o", otpauthMarks, <<Line(u4), Line(u3), Line(Uri("totp", <<[pct |-> <<9>>]>>, <<<<"secret", b32>>>>)),
      Line([u1 EXCEPT !.fragment = TRUE])>>),
  Export("otpauth", "o", otpauthMarks, <<Line(u1), Line(u2), Line(u3), Line(u4), Line(u1), Line(u2)>>),
  Export("ente", "o", {"otpauth://", "codeDisplay"},
    <<Also(Line(u2), "codeDisplay", [trashed |-> TRUE, tags |-> <<<<4>>, <<5>>, <<6>>>>, icon |-> TRUE]),
      Also(Line(u1), "codeDisplay", [malformed |-> TRUE]), Line(u1), Line([u2 EXCEPT !.len = 12])>>),
  Export("migration", "o", {"otpauth-migration://"}, <<mig(<<P1, P2>>, 0, 2), mig(<<P3, [malformed |-> TRUE]>>, 1, 2)>>),
  Export("migration", "o", {"otpauth-migration://"}, <<mig(<<P1, Also(P2, "algorithm", 4), Also(P2, "type", 0)>>, 1, 3), mig(<< >>, 0, 3), mig(<<P3>>, 0, 3)>>),
  Export("migration", "o", {"otpauth-migration://"}, <<mig(<<P1>>, 0, 1), [blank |-> TRUE], [broken |-> "Base64"]>>),
  Also(Also(Export("aegis", "{", AegisMarks, A1), "version", 1), "sealed",
    <<slot(2, None, 1, "p"), slot(1, "Hex", 1, "p"), slot(1, None, 1, "q"), slot(1, None, 1, "p")>>),
  Also(Also(Export("aegis", "{", AegisMarks, A1), "version", 1), "sealed", <<slot(1, None, 30000, "p"), slot(1, None, 1, "p")>>),
  Also(Also(Export("aegis", "{", AegisMarks, A2), "version", 1), "groups", Folders),
  Also(Export("aegis", "{", {"db", "entries"}, A2), "version", 2),
  Also(Export("twofas", "{", {"schemaVersion", "servicesEncrypted"},
     <<[secret |-> b32, name |-> <<4>>, otp |-> [tokenType |-> "hotp", digits |-> 300, account |-> <<5>>, period |-> 30]],
       [secret |-> b32b, groupId |-> "g1"], [secret |-> b32, otp |-> [tokenType |-> "weird"]]>>),
     "sealed", [pass |-> "p", hash |-> "sha1"]),
  Export("twofas", "{", {"schemaVersion", "services"}, <<[secret |-> bad], [secret |-> b32, otp |-> [algorithm |-> "MD5"]]>>),
  Export("andotp", "[", {"secret", "label", "thumbnail"},
     <<[secret |-> b32, label |-> <<4, 0, 5>>, digits |-> 6, period |-> 30, algorithm |-> "SHA1"],
       [secret |-> b32b, issuer |-> <<4>>, label |-> <<4, 0, 5>>, type |-> "hotp", counter |-> 7, period |-> 60],
       [secret |-> hx, type |-> "motp", pin |-> <<9>>]>>),
  Also(Export("andotp", "b", {"iterations"}, <<[secret |-> b32, type |-> "steam", digits |-> 6]>>), "sealed",
     [pass |-> "p", hash |-> "sha256", header |-> 10000]),
  Also(Export("andotp", "b", {"iterations"}, <<[secret |-> b32]>>), "sealed", [pass |-> "p", hash |-> "plain", header |-> 5000]),
  Export("raivo", "[", {"secret", "timer", "kind", "issuer"},
     <<[secret |-> b32, kind |-> "totp", timer |-> 60, digits |-> 8, algorithm |-> "SHA256", issuer |-> <<4, 4, 4>>, account |-> <<5, 5, 5>>],
       [kind |-> "hotp", secret |-> b32b, counter |-> 0]>>),
  Also(Export("lastpass", "{", {"accounts", "issuerName"},
     <<[secret |-> b32, issuerName |-> <<4>>, originalUserName |-> <<5>>, timeStep |-> 30, folderId |-> "g2"],
       [secret |-> b32b, digits |-> 6]>>), "groups", Folders),
  Export("authy", "{", {"authenticator_tokens"},
     <<[secretSeed |-> hx, name |-> <<4>>, originalName |-> <<4, 0, 5>>], [decryptedSeed |-> b32, digits |-> 7, original_name |-> <<4, 0, 5>>],
       [encryptedSeed |-> b32]>>),
  Export("authy", "[", {"encryptedSeed"}, <<[secret |-> b32, accountType |-> "authy", period |-> 30], [secret |-> bad], [name |-> <<4>>]>>),
  Also(Export("bitwarden", "{", {"items", "login", "encrypted"},
     <<[type |-> 1, login |-> [totp |-> Line(u1), username |-> <<5>>], name |-> <<4>>, folderId |-> "g1", organizationId |-> TRUE],
       [type |-> 2], [login |-> [totp |-> [steam |-> b32]], name |-> <<4>>],
       [login |-> [totp |-> [secret |-> b32b], username |-> <<5>>], name |-> <<4>>], [login |-> [x |-> 1]]>>), "groups", Folders),
  Also(Export("bitwarden", "{", {"items", "encrypted"}, << >>), "encrypted", TRUE),
  Also(Export("proton", "{", {"vaults", "userId"},
     <<[totpUri |-> Line(u1), name |-> <<4>>, extraFields |-> <<[other |-> TRUE], [secret |-> b32b]>>, state |-> 2],
       [data |-> FALSE], [totpUri |-> [scheme |-> "x"]]>>), "vaultName", <<6>>),
  Export("proton", "{", {"vaults", "userId"},
     <<[totpUri |-> Line(u1)], [totpUri |-> Line(u2)], [totpUri |-> Line(u4)], [totpUri |-> [secret |-> b32], extraFields |-> <<[secret |-> b32b], Line(u1)>>]>>),
  Export("freeotpplus", "{", {"tokens", "issuerExt"},
     <<[secretBytes |-> <<-1, 2>>, type |-> "hotp", counter |-> 4, issuerExt |-> <<4>>, label |-> <<5>>, algo |-> "SHA1", digits |-> 6],
       [secretBytes |-> <<300>>], [secret |-> b32, type |-> "weird"], [label |-> <<5>>]>>),
  Export("freeotp", "<", {"<?xml", "<map>", "tokenOrder"},
     <<[key |-> <<4, 0, 5>>, json |-> [secret |-> b32]], [key |-> <<4>>]>>),
  Also(Export("keepass", "<", {"<?xml", "<KeePassFile", "<Entry>", "<Key>"}, kdb), "expected", kdbRows),
  Export("keepass", "<", {"<KeePassFile"}, kdb2),
  Also(Export("csv", "t", {"delimiter"}, <<[secret |-> b32, service |-> <<4>>, username |-> <<5>>],
      [c \in {} |-> 0], [secret |-> b32b, service |-> <<4>>, username |-> <<5>>, digits |-> 300], [malformed |-> TRUE]>>),
     "header", {"secret", "service", "username", "digits"}),
  Also(Also(Export("csv", "t", {"delimiter"}, <<[link |-> u1, group |-> <<6>>], [link |-> u2], [link |-> u1]>>),
     "header", {"link", "group"}), "mapping", [issuer |-> "nowhere"]),
  Also(Export("csv", "t", {"delimiter"}, << >>), "header", {"account"}),
  Also(Also(Export("csv", "t", {"delimiter"}, <<[c1 |-> b32], [c1 |-> b32b], [c1 |-> b32], [c1 |-> b32b], [c1 |-> b32b]>>), "header", None),
     "columns", {"c1"}),
  Also(Also(Also(Export("csv", "t", {"delimiter"}, <<[c1 |-> b32], [c1 |-> b32b], [c1 |-> hx], [c1 |-> b32b], [c1 |-> b32b]>>), "header", None),
     "columns", {"c1"}), "mapping", [secret |-> "c1"]),
  Also(Export("json", "[", {"x"}, <<[uri |-> u1, issuer |-> <<4>>], [issuer |-> <<4>>], [uri |-> Uri("totp", << >>, <<<<"secret", b32>>>>), account |-> <<5>>]>>), "mapping", PlaintextMapping),
  Export("json", "{", {"x"}, << >>),
  Also(Export(None, "o", otpauthMarks, << >>), "broken", "NotUtf8"),
  Export(None, "x", {}, << >>),
  Export("andotp", "[", {"secret", "label"}, <<[secret |-> b32, label |-> <<5>>]>>)
>>

\* The sealed ones, with the passphrases that open them.
SealedFiles == [i \in DOMAIN ExportFiles |->
  IF "sealed" \notin DOMAIN ExportFiles[i] \/ i = 9 THEN ExportFiles[i]
  ELSE Also(ExportFiles[i], "opensWith", IF i = 8 THEN {"p", "q"} ELSE {"p"})]
=============================================================================
