-------------------------------- MODULE Otp --------------------------------
(***************************************************************************)
(* One-time passwords: a configuration and its setters, the codes it       *)
(* generates, and the otpauth URI it is written to and read from.          *)
(*                                                                         *)
(* Source: misty-otp config.rs, generate.rs, code.rs, clock.rs, raw.rs,    *)
(* secret.rs, uri.rs, percent.rs and error.rs. Bytes and names are         *)
(* sequences of small numbers; a MAC is a number computed from its inputs. *)
(* A URI is the record of its parts: escaping leaves no separator in a     *)
(* part, so the parts are what the parser splits. Its length is a field of *)
(* its own: an input may be written more tightly than to_uri writes it.    *)
(***************************************************************************)
EXTENDS Integers, Sequences, FiniteSets, SequencesExt

CONSTANTS
  None,
  MaxSecretLen, PrefixLen,   \* 1024 and 16 bytes in the code
  MaxU64,                    \* the largest millisecond count and counter
  MaxResyncWindow,           \* 1000 in the code
  MaxUriLen,                 \* 4096 bytes in the code
  Width(_),                  \* how long a parameter, or <<"label", part>>, is as written
  OtpSecrets, OtpPins,       \* byte strings the setters are called with
  Unprintable,               \* texts and byte strings that percent::decode refuses
  OtpInputs,                 \* the URIs that are scanned
  Instants, Offsets          \* clock readings and corrections, in milliseconds

ASSUME OtpAssumption ==
  /\ {MaxSecretLen, PrefixLen, MaxU64, MaxResyncWindow} \subseteq Nat /\ MaxU64 >= 3600
  /\ Instants \subseteq 0..MaxU64 /\ Offsets \subseteq Int
  /\ << >> \notin Unprintable
  /\ \A uri \in OtpInputs :
       /\ uri.label \in Seq(ToSet(uri.label)) /\ uri.query \in Seq(ToSet(uri.query))
       /\ Len(uri.label) <= 2
       /\ \A param \in ToSet(uri.query) : param[2] # None

VARIABLES
  otp,    \* the OtpUri: [config, issuer, account, extra], or None
  given,  \* the input it was parsed from with its warnings, until it is changed
  failed  \* the error of the last call, or None

otpVars == <<otp, given, failed>>

Ok(v) == [ok |-> v]
Err(e) == [err |-> e]
IsOk(r) == "ok" \in DOMAIN r
OrElse(option, default) == IF option = None THEN default ELSE option

\* OtpError, the part of it a call can end with, and UriError.
OtpErrors == {"EmptySecret", "SecretTooLong", "InvalidDigits", "InvalidPeriod", "MissingPin",
              "TimeOutOfRange", "CounterExhausted"}
UriErrors == {"TooLong", "NotOtpauth", "MigrationUri", "UnknownKind", "MissingParam", "DuplicateParam",
              "InvalidParam", "ControlChar", "MalformedQuery", "BadPercentEscape", "CanonicalTooLong"}


-----------------------------------------------------------------------------
(***************************************************************************)
(* What each kind fixes.                                                   *)
(***************************************************************************)
Algorithms == {"SHA1", "SHA256", "SHA512"}
Kinds == {"totp", "hotp", "steam", "motp", "blizzard", "yaotp"}
\* An option that is not set is no error, no empty text, no kind, no algorithm and no number.
ASSUME NoneAssumption ==
  None # << >> /\ None \notin OtpErrors \cup UriErrors \cup Kinds \cup Algorithms /\ None \notin 0..MaxU64
SerializesAs(kind) == IF kind = "blizzard" THEN "totp" ELSE kind
FromUriType(authority) ==
  IF authority = "yandex" THEN "yaotp" ELSE IF authority \in Kinds THEN authority ELSE None
DefaultDigits(kind) ==
  CASE kind = "steam" -> 5 [] kind \in {"blizzard", "yaotp"} -> 8 [] OTHER -> 6
DefaultPeriod(kind) == IF kind = "motp" THEN 10 ELSE 30
DefaultAlgorithm(kind) == IF kind = "yaotp" THEN "SHA256" ELSE "SHA1"
FixedDigits(kind) == IF kind \in {"totp", "hotp"} THEN None ELSE DefaultDigits(kind)
FixedPeriod(kind) == IF kind = "totp" THEN None ELSE DefaultPeriod(kind)
FixedAlgorithm(kind) == IF kind \in {"totp", "hotp"} THEN None ELSE DefaultAlgorithm(kind)
UsesCounter(kind) == kind = "hotp"
UsesPin(kind) == kind \in {"motp", "yaotp"}
SecretEncoding(kind) == IF kind = "motp" THEN "hex" ELSE "base32"
PinEncoding(kind) == IF kind = "yaotp" THEN "base32" ELSE "text"

-----------------------------------------------------------------------------
(***************************************************************************)
(* Configurations: OtpConfigBuilder and the setters.                       *)
(***************************************************************************)
DigitsOk(d) == d \in 1..10
PeriodOk(p) == p \in 1..3600
CheckLen(secret) ==
  CASE Len(secret) = 0 -> "EmptySecret"
    [] Len(secret) > MaxSecretLen -> "SecretTooLong"
    [] OTHER -> None
KeptPin(kind, pin) == IF UsesPin(kind) /\ pin # << >> THEN pin ELSE None

Builder(kind, secret) ==
  [kind |-> kind, secret |-> secret, algorithm |-> None, digits |-> None, period |-> None,
   counter |-> 0, pin |-> None]

Build(b) ==
  LET digits == OrElse(b.digits, DefaultDigits(b.kind))
      period == OrElse(b.period, DefaultPeriod(b.kind)) IN
  CASE CheckLen(b.secret) # None -> Err(CheckLen(b.secret))
    [] CheckLen(b.secret) = None /\ ~DigitsOk(digits) -> Err("InvalidDigits")
    [] CheckLen(b.secret) = None /\ DigitsOk(digits) /\ ~PeriodOk(period) -> Err("InvalidPeriod")
    [] OTHER -> Ok([b EXCEPT
         !.algorithm = OrElse(FixedAlgorithm(b.kind), OrElse(@, DefaultAlgorithm(b.kind))),
         !.digits = OrElse(FixedDigits(b.kind), digits),
         !.period = OrElse(FixedPeriod(b.kind), period),
         !.counter = IF UsesCounter(b.kind) THEN @ ELSE 0,
         !.pin = KeptPin(b.kind, @)])

\* The constructors totp, totp_with, hotp, hotp_with, steam, motp, blizzard and yandex.
Constructed(kind, secret, algorithm, digits, period, counter, pin) ==
  Build([Builder(kind, secret) EXCEPT !.algorithm = algorithm, !.digits = digits,
           !.period = period, !.counter = counter, !.pin = pin])

WithKind(c, kind) ==
  [c EXCEPT !.kind = kind, !.algorithm = OrElse(FixedAlgorithm(kind), @),
            !.digits = OrElse(FixedDigits(kind), @), !.period = OrElse(FixedPeriod(kind), @),
            !.counter = IF UsesCounter(kind) THEN @ ELSE 0,
            !.pin = IF UsesPin(kind) THEN @ ELSE None]

SetDigits(c, d) ==
  IF DigitsOk(d) THEN Ok([c EXCEPT !.digits = OrElse(FixedDigits(c.kind), d)])
  ELSE Err("InvalidDigits")
SetPeriod(c, p) ==
  IF PeriodOk(p) THEN Ok([c EXCEPT !.period = OrElse(FixedPeriod(c.kind), p)])
  ELSE Err("InvalidPeriod")
SetAlgorithm(c, a) == Ok([c EXCEPT !.algorithm = OrElse(FixedAlgorithm(c.kind), a)])
SetCounter(c, n) == Ok(IF UsesCounter(c.kind) THEN [c EXCEPT !.counter = n] ELSE c)
SetPin(c, pin) == Ok([c EXCEPT !.pin = KeptPin(c.kind, pin)])
SetSecret(c, s) == IF CheckLen(s) # None THEN Err(CheckLen(s)) ELSE Ok([c EXCEPT !.secret = s])

-----------------------------------------------------------------------------
(***************************************************************************)
(* Codes.                                                                  *)
(***************************************************************************)
\* External: a keyed hash, truncated to 31 bits.
Mac(alg, key, counter) ==
  (FoldSeq(LAMBDA byte, acc : (31 * acc + byte) % 1009, 7, key) + 17 * (counter % 1009)
     + (CASE alg = "SHA1" -> 1 [] alg = "SHA256" -> 2 [] OTHER -> 3)) * 99991

DecimalDigits(v, digits) == [i \in 1..digits |-> (v \div 10^(digits - i)) % 10]
\* Least significant first.
Base26(v, digits) ==
  LET rest[i \in 1..digits] == IF i = 1 THEN v ELSE rest[i - 1] \div 26
  IN [i \in 1..digits |-> rest[i] % 26]
SteamValue(c, factor) == Base26(Mac("SHA1", c.secret, factor), c.digits)
MotpValue(c, factor) ==
  [i \in 1..c.digits |-> (Mac("MD5", c.secret \o c.pin, factor) \div 16^(i - 1)) % 16]
YandexValue(c, factor) ==
  LET used == SubSeq(c.secret, 1, IF Len(c.secret) < PrefixLen THEN Len(c.secret) ELSE PrefixLen)
  IN Reverse(Base26(Mac("SHA256", c.pin \o used, factor), c.digits))

ValueAt(c, factor) ==
  CASE c.kind \in {"totp", "hotp", "blizzard"} ->
         Ok(DecimalDigits(Mac(c.algorithm, c.secret, factor), c.digits))
    [] c.kind = "steam" -> Ok(SteamValue(c, factor))
    [] UsesPin(c.kind) /\ c.pin = None -> Err("MissingPin")
    [] c.kind = "motp" /\ c.pin # None -> Ok(MotpValue(c, factor))
    [] c.kind = "yaotp" /\ c.pin # None -> Ok(YandexValue(c, factor))

\* Mutant of WindowAt: the step is rounded to the nearest.
WindowAtNearest(period, ms) ==
  LET from == ((ms + 500 * period) \div (1000 * period)) * 1000 * period IN
  IF from + 1000 * period > MaxU64 THEN Err("TimeOutOfRange")
  ELSE Ok([counter |-> from \div (1000 * period), from |-> from, until |-> from + 1000 * period])
\* The moving factor and the validity window, whose end may not be representable.
WindowAt(period, ms) ==
  LET counter == ms \div (1000 * period)
      from == counter * 1000 * period IN
  IF from + 1000 * period > MaxU64 THEN Err("TimeOutOfRange")
  ELSE Ok([counter |-> counter, from |-> from, until |-> from + 1000 * period])

CodeOf(value, window) == IF IsOk(value) THEN Ok([value |-> value.ok, window |-> window]) ELSE value

GenerateAt(c, ms) ==
  IF UsesCounter(c.kind) THEN CodeOf(ValueAt(c, c.counter), None)
  ELSE LET w == WindowAt(c.period, ms) IN
       IF IsOk(w) THEN CodeOf(ValueAt(c, w.ok.counter), w.ok) ELSE w

NextCodeAt(c, ms) ==
  IF UsesCounter(c.kind)
  THEN IF c.counter = MaxU64 THEN Err("CounterExhausted") ELSE CodeOf(ValueAt(c, c.counter + 1), None)
  ELSE LET w == WindowAt(c.period, ms) IN IF IsOk(w) THEN GenerateAt(c, w.ok.until) ELSE w

\* SkewedClock: the correction saturates at both ends.
SkewedNow(ms, offset) ==
  IF ms + offset < 0 THEN 0 ELSE IF ms + offset > MaxU64 THEN MaxU64 ELSE ms + offset

\* The first counter from the stored one on whose code was observed.
ResyncCounter(c, observed, window) ==
  LET last == c.counter + (IF window < MaxResyncWindow THEN window ELSE MaxResyncWindow)
      hits == {n \in c.counter..last : n <= MaxU64 /\ ValueAt(c, n) = Ok(observed)}
  IN IF ~UsesCounter(c.kind) \/ hits = {} THEN None ELSE CHOOSE n \in hits : \A o \in hits : n <= o

-----------------------------------------------------------------------------
(***************************************************************************)
(* The URI: [scheme, type, label, query, fragment, len], the label split   *)
(* at its first raw colon, the query a sequence of names and values.       *)
(***************************************************************************)
KnownParams == {"secret", "issuer", "algorithm", "digits", "period", "counter", "pin"}
\* Percent-encoding never fails; decoding refuses what may not be shown.
Encoded(text) == [pct |-> text]
Decodes(value) == value.pct \notin Unprintable
EncodeField(encoding, bytes) == [enc |-> encoding, pct |-> bytes]
FieldOk(encoding, value) == value.enc = encoding

\* How long to_uri's text is, scheme, type and separators apart.
WrittenLen(label, query) ==
  MapThenSumSet(LAMBDA i : Width(<<"label", label[i]>>), DOMAIN label)
    + MapThenSumSet(LAMBDA i : Width(query[i]), DOMAIN query)
UriFits(uri) == uri.len <= MaxUriLen

\* Mutant of Stated: what a kind leaves open is left to the reader's defaults.
StatedNever(kind, name) == FALSE
\* Whether a parameter is written: not when the kind that is written fixes it.
Stated(kind, name) ==
  None = CASE name = "algorithm" -> FixedAlgorithm(kind)
           [] name = "digits" -> FixedDigits(kind)
           [] name = "period" -> FixedPeriod(kind)
\* Vendor parameters come last.
ToUri(u) ==
  LET c == u.config
      kind == SerializesAs(c.kind)
      param(name, value, there) == IF there THEN <<<<name, value>>>> ELSE << >>
      label == (IF u.issuer = None THEN << >> ELSE <<Encoded(u.issuer)>>) \o <<Encoded(u.account)>>
      query == <<<<"secret", EncodeField(SecretEncoding(kind), c.secret)>>>>
        \o param("issuer", Encoded(u.issuer), u.issuer # None)
        \o param("algorithm", c.algorithm, Stated(kind, "algorithm"))
        \o param("digits", c.digits, Stated(kind, "digits"))
        \o param("period", c.period, Stated(kind, "period"))
        \o param("counter", c.counter, UsesCounter(kind))
        \o param("pin", EncodeField(PinEncoding(kind), c.pin), c.pin # None)
        \o [i \in DOMAIN u.extra |-> <<u.extra[i][1], Encoded(u.extra[i][2])>>]
  IN [scheme |-> "otpauth", type |-> kind, label |-> label, query |-> query,
      fragment |-> FALSE, len |-> WrittenLen(label, query)]

ExportForm(u) == [u EXCEPT !.config = WithKind(@, SerializesAs(@.kind))]

\* The fields of a parsed Query: the value of a known name, and the others in their order.
Occurrences(query, name) == {i \in DOMAIN query : query[i][1] = name}
HasParam(query, name) == Occurrences(query, name) # {}
Param(query, name) ==
  IF HasParam(query, name) THEN query[CHOOSE i \in Occurrences(query, name) : TRUE][2] ELSE None
Extra(query) ==
  LET upTo[i \in 0..Len(query)] ==
        IF i = 0 THEN << >>
        ELSE IF query[i][1] \in KnownParams THEN upTo[i - 1]
        ELSE Append(upTo[i - 1], <<query[i][1], query[i][2].pct>>)
  IN upTo[Len(query)]
\* percent::decode of a value: base32, hex, numbers and names of algorithms are plain letters.
ParamDecodes(param) ==
  CASE param[1] \in {"secret", "pin"} -> param[2].enc = "text" => Decodes(param[2])
    [] param[1] \in {"algorithm", "digits", "period", "counter"} -> TRUE
    [] OTHER -> Decodes(param[2])
Repeated(query, i) == query[i][1] \in KnownParams /\ \E j \in 1..(i - 1) : query[j][1] = query[i][1]
\* Query::parse: the first parameter that cannot be read or was there before ends it.
QueryProblem(query) ==
  LET bad == {i \in DOMAIN query : ~ParamDecodes(query[i]) \/ Repeated(query, i)}
      first == CHOOSE i \in bad : \A j \in bad : i <= j IN
  IF bad = {} THEN None ELSE IF ParamDecodes(query[first]) THEN "DuplicateParam" ELSE "ControlChar"
\* parse_u64, and the conversion to the width of the field.
NumberOk(value, width) == value = None \/ (value \in Nat /\ value < width)

\* The parameters this kind ignores: the warnings of the parser.
Overridden(kind, query) ==
  LET fixed == [algorithm |-> FixedAlgorithm(kind), digits |-> FixedDigits(kind),
                period |-> FixedPeriod(kind)]
  IN {n \in DOMAIN fixed : /\ HasParam(query, n)
                           /\ fixed[n] # None
                           /\ Param(query, n) # fixed[n]}
     \cup (IF HasParam(query, "counter") /\ ~UsesCounter(kind) THEN {"counter"} ELSE {})
     \cup (IF HasParam(query, "pin") /\ ~UsesPin(kind) THEN {"pin"} ELSE {})

StripScheme(uri) ==
  CASE uri.scheme = "otpauth" -> None
    [] uri.scheme = "otpauth-migration" -> "MigrationUri"
    [] OTHER -> "NotOtpauth"

\* The structural errors of parse_with_warnings, in the order of its checks.
UriProblem(uri, kind) ==
  LET value(name) == Param(uri.query, name) IN
  IF ~UriFits(uri) THEN "TooLong"
  ELSE IF StripScheme(uri) # None THEN StripScheme(uri)
  ELSE IF kind = None THEN "UnknownKind"
  ELSE IF \E i \in DOMAIN uri.label : ~Decodes(uri.label[i]) THEN "ControlChar"
  ELSE IF QueryProblem(uri.query) # None THEN QueryProblem(uri.query)
  ELSE IF ~HasParam(uri.query, "secret") THEN "MissingParam"
  ELSE IF ~FieldOk(SecretEncoding(kind), value("secret")) THEN "InvalidParam"
  ELSE IF value("algorithm") \notin Algorithms \cup {None} THEN "InvalidParam"
  ELSE IF ~NumberOk(value("digits"), 256) THEN "InvalidDigits"
  ELSE IF ~NumberOk(value("period"), 65536) THEN "InvalidPeriod"
  ELSE IF ~NumberOk(value("counter"), MaxU64 + 1) THEN "InvalidParam"
  ELSE IF UsesCounter(kind) /\ ~HasParam(uri.query, "counter") THEN "MissingParam"
  ELSE IF HasParam(uri.query, "pin") /\ ~FieldOk(PinEncoding(kind), value("pin")) THEN "InvalidParam"
  ELSE None

\* The label's issuer, the issuer parameter, and the account after the first colon.
LabelIssuer(uri) ==
  IF Len(uri.label) > 1 /\ uri.label[1].pct # << >> THEN uri.label[1].pct ELSE None
ParamIssuer(uri) ==
  LET value == Param(uri.query, "issuer")
  IN IF HasParam(uri.query, "issuer") /\ value.pct # << >> THEN value.pct ELSE None
Issuer(uri) == OrElse(ParamIssuer(uri), LabelIssuer(uri))
Account(uri) == IF Len(uri.label) = 0 THEN << >> ELSE uri.label[Len(uri.label)].pct

Warnings(uri, kind) ==
  (IF uri.fragment THEN {"fragment"} ELSE {})
    \cup Overridden(kind, uri.query)
    \cup (IF {LabelIssuer(uri), ParamIssuer(uri)} \cap {None} = {} /\ LabelIssuer(uri) # ParamIssuer(uri)
          THEN {"issuer"} ELSE {})

ParseWithWarnings(uri) ==
  LET kind == FromUriType(uri.type)
      value(name) == Param(uri.query, name)
      pin == IF HasParam(uri.query, "pin") THEN value("pin").pct ELSE None
      built == Constructed(kind, value("secret").pct, value("algorithm"), value("digits"),
                           value("period"), OrElse(value("counter"), 0), pin)
      read == [config |-> built.ok, issuer |-> Issuer(uri), account |-> Account(uri),
               extra |-> Extra(uri.query)] IN
  IF UriProblem(uri, kind) # None THEN Err(UriProblem(uri, kind))
  ELSE IF ~IsOk(built) THEN built
  ELSE IF ~UriFits(ToUri(read)) THEN Err("CanonicalTooLong")
  ELSE Ok([uri |-> read, warnings |-> Warnings(uri, kind)])

-----------------------------------------------------------------------------
OtpInit == otp = None /\ given = None /\ failed = None

\* A scanned or pasted URI.
Scan(uri) ==
  LET parsed == ParseWithWarnings(uri) IN
  /\ otp = None
  /\ IF IsOk(parsed)
     THEN /\ otp' = parsed.ok.uri /\ failed' = None
          /\ given' = [uri |-> uri, warnings |-> parsed.ok.warnings]
     ELSE failed' = parsed.err /\ UNCHANGED <<otp, given>>

\* A call of config_mut: a setter's result replaces the configuration, its error nothing.
Edit(result) ==
  /\ given' = None
  /\ IF IsOk(result) THEN otp' = [otp EXCEPT !.config = result.ok] /\ failed' = None
     ELSE failed' = result.err /\ UNCHANGED otp

EditDigits == otp # None /\ \E d \in {0, 1, 8, 11} : Edit(SetDigits(otp.config, d))
EditPeriod == otp # None /\ \E p \in {0, 10, 3601} : Edit(SetPeriod(otp.config, p))
EditAlgorithm == otp # None /\ \E a \in Algorithms : Edit(SetAlgorithm(otp.config, a))
EditCounter == otp # None /\ \E n \in {2, MaxU64} : Edit(SetCounter(otp.config, n))
EditPin == otp # None /\ \E p \in OtpPins : Edit(SetPin(otp.config, p))
EditSecret == otp # None /\ \E s \in OtpSecrets : Edit(SetSecret(otp.config, s))

\* An export read back in.
Reimport ==
  LET parsed == ParseWithWarnings(ToUri(otp)) IN
  /\ otp # None
  /\ given' = None
  /\ IF IsOk(parsed) THEN otp' = parsed.ok.uri /\ failed' = None
     ELSE failed' = parsed.err /\ UNCHANGED otp

OtpNext ==
  \/ \E uri \in OtpInputs : Scan(uri)
  \/ EditDigits \/ EditPeriod \/ EditAlgorithm \/ EditCounter \/ EditPin \/ EditSecret
  \/ Reimport

OtpSpec == OtpInit /\ [][OtpNext]_otpVars

-----------------------------------------------------------------------------
\* A PIN that percent::decode refuses cannot arise from a parsed URI, but set_pin accepts it.
Printable(u) == ~(u.config.kind = "motp" /\ u.config.pin \in Unprintable)

\* Every configuration a caller can reach through the parser and the setters is in the
\* form its kind fixes ("cannot be used to build something ungeneratable", uri.rs).
OtpTypeOK ==
  /\ failed \in OtpErrors \cup UriErrors \cup {None}
  /\ otp # None =>
       LET c == otp.config IN
       /\ c.kind \in Kinds /\ c.algorithm \in Algorithms
       /\ CheckLen(c.secret) = None /\ DigitsOk(c.digits) /\ PeriodOk(c.period)
       /\ c = WithKind(c, c.kind) /\ c.pin # << >>

\* The code and the next code of a configuration at one instant: the code has its own
\* length and a window that holds the instant, the next one starts where it ends, and only
\* a missing PIN and the ends of the clock and of the counter are refused.
CodesCover(c, at) ==
  LET code == GenerateAt(c, at)
      next == NextCodeAt(c, at) IN
  /\ IsOk(code) =>
       /\ Len(code.ok.value) = c.digits
       /\ UsesCounter(c.kind) \/ (code.ok.window.from <= at /\ at < code.ok.window.until)
  /\ ~IsOk(code) => code.err = "TimeOutOfRange" \/ (code.err = "MissingPin" /\ UsesPin(c.kind))
  /\ IsOk(next) /\ ~UsesCounter(c.kind) =>
       /\ next.ok.window.from = code.ok.window.until
       /\ next.ok = GenerateAt(c, code.ok.window.until).ok
  /\ (~IsOk(next) /\ IsOk(code)) =>
       \/ c.counter = MaxU64
       \/ code.ok.window.until + 1000 * c.period > MaxU64

\* The codes of a reachable configuration cover every instant, whatever the clock's
\* correction (generate, generate_at, next_code_at, SkewedClock).
CodesCoverTime ==
  otp # None => \A ms \in Instants, offset \in Offsets :
    CodesCover(otp.config, SkewedNow(ms, offset))

\* What to_uri writes is read back without a warning as export_form, always when it was just
\* parsed. After a setter two things can stand in the way, which set_secret, set_counter and
\* set_pin do not look at: a text that is too long, and a PIN that is no text (to_uri,
\* parse_with_warnings; "A URI produced by to_uri always parses with none" is said of all).
RoundTrip ==
  otp # None =>
    LET back == ParseWithWarnings(ToUri(otp)) IN
    \/ back = Ok([uri |-> ExportForm(otp), warnings |-> {}])
    \/ given = None /\ ~UriFits(ToUri(otp)) /\ back = Err("TooLong")
    \/ given = None /\ ~Printable(otp)

\* The exported form generates the same codes at the same instants (export_form).
ExportKeepsCodes ==
  otp # None => \A ms \in Instants :
    GenerateAt(ExportForm(otp).config, ms) = GenerateAt(otp.config, ms)

\* A parameter of the input is in effect unless a warning names it (parse_with_warnings,
\* "Say so whenever the variant is about to override the input").
OverridesAreWarned ==
  given # None =>
    LET value(name) == Param(given.uri.query, name) IN
    /\ \A name \in {"algorithm", "digits", "period", "counter"} :
         \/ ~HasParam(given.uri.query, name) \/ value(name) = otp.config[name]
         \/ name \in given.warnings
    /\ \/ ~HasParam(given.uri.query, "pin") \/ value("pin").pct \in {<< >>, otp.config.pin}
       \/ "pin" \in given.warnings
    /\ LabelIssuer(given.uri) \in {None, otp.issuer} \/ "issuer" \in given.warnings

\* A code observed within the window is found again, at the counter it was made with or an
\* earlier one of the window with the same code, never behind the stored one
\* (resync_counter).
ResyncFindsIt ==
  (otp # None /\ UsesCounter(otp.config.kind)) => \A n \in 0..MaxResyncWindow :
    LET c == otp.config
        found == ResyncCounter(c, ValueAt(c, c.counter + n).ok, n) IN
    c.counter + n <= MaxU64 =>
      /\ found \in c.counter..(c.counter + n)
      /\ ValueAt(c, found) = ValueAt(c, c.counter + n)
      /\ \A o \in c.counter..(found - 1) : ValueAt(c, o) # ValueAt(c, found)

\* The inductive invariant: with the form its kind fixes, what there is has its fields, a
\* counter that can be represented and texts that can be read back, and it is what the
\* scanned URI says until it is changed.
ConfigFields == {"kind", "secret", "algorithm", "digits", "period", "counter", "pin"}
UriFields == {"config", "issuer", "account", "extra"}
TextsOk(u) ==
  /\ u.issuer = None \/ u.issuer \notin Unprintable \cup {<< >>}
  /\ u.account \notin Unprintable
  /\ u.extra \in Seq(ToSet(u.extra))
  /\ \A x \in ToSet(u.extra) : x = <<x[1], x[2]>> /\ x[1] \notin KnownParams /\ x[2] \notin Unprintable
OtpInv ==
  /\ OtpTypeOK
  /\ otp # None =>
       /\ otp = [f \in UriFields |-> otp[f]] /\ DOMAIN otp.config = ConfigFields
       /\ otp.config.counter \in 0..MaxU64 /\ TextsOk(otp)
  /\ given # None =>
       /\ given.uri \in OtpInputs
       /\ ParseWithWarnings(given.uri) = Ok([uri |-> otp, warnings |-> given.warnings])

\* Every configuration that can be reached generates: its codes cover all of time, and a counter
\* that fell behind is found (generate_at, resync_counter).
CodesAreRight == OtpTypeOK /\ CodesCoverTime /\ ResyncFindsIt

\* A configuration survives its way through a URI, out and in, with its codes, and what a URI
\* asked for in vain is reported (to_uri, parse_with_warnings).
UrisKeepCodes == RoundTrip /\ ExportKeepsCodes /\ OverridesAreWarned
=============================================================================
