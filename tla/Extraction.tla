------------------------------ MODULE Extraction ------------------------------
(***************************************************************************)
(* What the gateway reads off a request: the route table and extract()     *)
(* (agentiam_pep/extractor.py), and the body it reads (app.py).            *)
(*                                                                         *)
(* A request has a method, a path, the query's and the headers' pairs in   *)
(* the order they arrived, a body and a content type.  Header names are    *)
(* lower-case.  Text is a model value; NFC and Unquote say what            *)
(* normalization and one pass of percent-decoding make of it.  A value     *)
(* that is not an object carries its JSON type, its text, and the number   *)
(* the text denotes, counted in halves of a scaled unit so that one with   *)
(* too many decimal places exists.                                         *)
(***************************************************************************)
EXTENDS Integers, Sequences, FiniteSets, SequencesExt, Filtering

CONSTANTS
    Routes,          \* RouteTable: rules, deny_unmapped, max_extract_body_bytes
    NFC, Unquote,    \* functions on texts
    NotANumber,      \* Decimal() refuses the text
    NotFinite,       \* NaN and the infinities
    Rounded(_),      \* what Decimal's context of 28 digits keeps of a number
    Absent           \* None

Value(type, text, number) == [type |-> type, text |-> text, number |-> number]
Object(pairs) == [type |-> "object", pairs |-> pairs]

\* Source.name: of every kind but body.
Name(source) == source.keys[1]

_SOURCE_KINDS == {"path", "query", "header", "body"}
\* _parse_source(): a source names something, and only that of a body has several keys.
_parse_source(source) ==
    /\ source.kind \in _SOURCE_KINDS
    /\ IF source.kind = "body" THEN Len(source.keys) > 0 ELSE Len(source.keys) = 1

\* _compile_rule(): a rule that reads a path parameter has it in its path.
_compile_rule(rule) ==
    /\ rule.drift_mode \in {"off", "log_only", "strict"}
    /\ \A l \in DOMAIN rule.sources :
        /\ _parse_source(rule.sources[l])
        /\ rule.sources[l].kind = "path" => Name(rule.sources[l]) \in rule.params

\* RouteTable.from_config(), which raises at startup for any other table.
from_config(table) ==
    /\ \A i \in DOMAIN table.rules : _compile_rule(table.rules[i])
    /\ table.max_extract_body_bytes \in Nat \ {0}

ASSUME RouteTableLoads ==
    /\ Routes.rules \in Seq(ToSet(Routes.rules)) /\ from_config(Routes)
    /\ \A i \in DOMAIN Routes.rules : \A l \in DOMAIN Routes.rules[i].sources :
        Routes.rules[i].sources[l].keys \in Seq(ToSet(Routes.rules[i].sources[l].keys))

\* _reads_body()
_reads_body(req) ==
    req.method \notin {"GET", "HEAD", "DELETE", "OPTIONS"} /\ req.content_type = "json"

----------------------------------------------------------------------------
(* Reading one argument.  Refused is an ExtractionError.                    *)

Refused == [ok |-> FALSE, value |-> Absent]
Read(v) == [ok |-> TRUE, value |-> v]
Nothing == Read(Absent)

ValuesOf(pairs, name) == Skipping(pairs, {p \in ToSet(pairs) : p[1] # name})

\* Mutant: the last of several wins, as in a dict.
_one_of_LastWins(pairs, name) ==
    LET found == ValuesOf(pairs, name)
    IN  IF found = <<>> THEN Nothing ELSE Read(found[Len(found)][2])
\* _one_of(): a value that is there more than once is refused.
_one_of(pairs, name) ==
    LET found == ValuesOf(pairs, name)
    IN  CASE Len(found) = 0 -> Nothing
          [] Len(found) = 1 -> Read(found[1][2])
          [] Len(found) > 1 -> Refused

\* _resolve_body(): one key after the other; a repeated key on the way is refused, and
\* what is not an object has no keys.
Inside(at, key) ==
    IF ~at.ok \/ at.value = Absent THEN at
    ELSE IF at.value.type # "object" THEN Nothing
    ELSE _one_of(at.value.pairs, key)
_resolve_body(root, keys) ==
    LET current[i \in 0 .. Len(keys)] ==
            IF i = 0 THEN Read(root) ELSE Inside(current[i - 1], keys[i])
        reached == current[Len(keys)]
    IN  IF reached.ok /\ reached.value # Absent /\ reached.value.type = "null" THEN Nothing
        ELSE reached

\* _parse_body(): None for what is absent, empty or not JSON.
_parse_body(req) ==
    IF _reads_body(req) /\ req.body # Absent /\ req.body.json THEN req.body.root ELSE Absent

\* extract(): where an argument's value is found.  A path parameter is decoded once.
RawValue(req, headers, source) ==
    CASE source.kind = "path" ->
            IF Name(source) \in DOMAIN req.params
            THEN Read([req.params[Name(source)] EXCEPT !.text = NFC[Unquote[@]]]) ELSE Nothing
      [] source.kind = "query" -> _one_of(req.query, Name(source))
      [] source.kind = "header" -> _one_of(headers, Name(source))
      [] source.kind = "body" -> _resolve_body(_parse_body(req), source.keys)

\* _to_scaled(): a boolean, a non-number, a non-finite number and one with too many
\* places are refused.  What is looked at is the product with SCALE, as rounded.
_to_scaled(v) ==
    IF v.type \notin {"number", "text"} \/ v.number \in {NotANumber, NotFinite} THEN Refused
    ELSE IF Rounded(v.number) % 2 # 0 THEN Refused
    ELSE Read(Rounded(v.number) \div 2)

\* _to_text(): a list or an object is refused.
_to_text(v) ==
    IF v.type \in {"object", "list"} THEN Refused
    ELSE Read(IF v.type = "text" THEN NFC[v.text] ELSE v.text)

Coerced(raw, numeric) ==
    IF ~raw.ok \/ raw.value = Absent THEN raw
    ELSE IF numeric THEN _to_scaled(raw.value) ELSE _to_text(raw.value)

Argument(req, headers, source) == Coerced(RawValue(req, headers, source), source.numeric)

----------------------------------------------------------------------------
\* RouteRule.matches()
Matches(rule, req) == rule.method \in {"ANY", req.method} /\ req.path \in rule.paths

Matching(req) == {i \in DOMAIN Routes.rules : Matches(Routes.rules[i], req)}
RuleFor(req) == Routes.rules[CHOOSE i \in Matching(req) : \A j \in Matching(req) : i <= j]

NeedsBody(rule) == \E l \in DOMAIN rule.sources : rule.sources[l].kind = "body"

BodyTooLarge(req, rule) ==
    /\ NeedsBody(rule) /\ _reads_body(req) /\ req.body # Absent
    /\ req.body.size > Routes.max_extract_body_bytes

\* extract(), with what was found for each label of the rule.  An absent argument is left
\* out.  The digest, a hash of args, is args itself.
Extraction(req, rule, found) ==
    IF BodyTooLarge(req, rule) \/ \E l \in DOMAIN found : ~found[l].ok THEN Refused
    ELSE Read([scope |-> rule.scope, tool |-> rule.tool, drift_mode |-> rule.drift_mode,
               args |-> [l \in {m \in DOMAIN found : found[m].value # Absent} |->
                            found[l].value]])

\* extract(), over the headers it is handed: the first rule that matches.
extract(req, headers) ==
    IF Matching(req) # {}
    THEN LET rule == RuleFor(req)
         IN  Extraction(req, rule,
                [l \in DOMAIN rule.sources |-> Argument(req, headers, rule.sources[l])])
    ELSE IF Routes.deny_unmapped THEN Refused
    ELSE Read([scope |-> Absent, tool |-> Absent, args |-> <<>>, drift_mode |-> "strict"])
=============================================================================
