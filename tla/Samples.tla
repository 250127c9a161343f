------------------------------- MODULE Samples -------------------------------
(* The tools that take a message file ahead of the contracts: what           *)
(* tools/headers_blob.py cuts out of it for attest_inline, and what          *)
(* tools/extract_check.py and tools/llm_check.py read in it off chain.       *)
(*                                                                           *)
(* A message is its header lines, an empty line and the lines of its body.   *)

EXTENDS Dkim, BodyText

EMPTY == [is |-> "empty"]
BodyLine(text) == [is |-> "body", text |-> text]

NO_SELECTOR == "none given"

\* The lines before the first empty one.
header_block(raw) ==
    LET end == SelectInSeq(raw, LAMBDA line : line = EMPTY)
    IN  IF end = 0 THEN raw ELSE SubSeq(raw, 1, end - 1)

\* The body is everything after it, untouched.
split_message(raw) ==
    LET block == header_block(raw)
        rest == SubSeq(raw, Len(block) + 2, Len(raw))
    IN  [headers |-> block, body |-> FlattenSeq([i \in DOMAIN rest |-> rest[i].text])]

\* Where the signatures of the pair are; any selector when none is given.
Matches(fields, domain, selector) ==
    SelectSeq([i \in DOMAIN fields |-> i], LAMBDA i :
        /\ field_name(fields[i].name) = SIGNATURE
        /\ TagOr(fields[i].value, "d", "") = domain
        /\ selector \in {NO_SELECTOR, TagOr(fields[i].value, "s", "")})

\* The one the Verifier will select, or 0 when there is none or a choice.
select(fields, domain, selector) ==
    LET matches == Matches(fields, domain, selector)
        selectors == {TagOr(fields[matches[i]].value, "s", "") : i \in DOMAIN matches}
    IN  IF matches = <<>> \/ (selector = NO_SELECTOR /\ Cardinality(selectors) > 1) THEN 0
        ELSE matches[1]

\* Mutated form of covered: the instances of a name are taken top down.
covered_top_down(fields, index, names) ==
    {index} \cup {i \in DOMAIN fields \ {index} :
        LET same == {j \in DOMAIN fields \ {index} : field_name(fields[j].name) = field_name(fields[i].name)}
        IN  Cardinality({j \in same : j <= i}) <= CountOf(names, field_name(fields[i].name))}

\* The fields the signature covers: of each name, as many of the last ones as
\* h= mentions it.
covered(fields, index, names) ==
    {index} \cup {i \in DOMAIN fields \ {index} :
        LET same == {j \in DOMAIN fields \ {index} : field_name(fields[j].name) = field_name(fields[i].name)}
        IN  Cardinality({j \in same : j >= i}) <= CountOf(names, field_name(fields[i].name))}

\* Some of the fields, in the order of the message.
FieldsAt(fields, chosen) ==
    lines_of([k \in 1..Cardinality(chosen) |-> fields[CHOOSE i \in chosen : Cardinality({j \in chosen : j <= i}) = k]])

\* The blob, or nothing.
BlobOf(fields, index) ==
    IF index = 0 \/ TagOr(fields[index].value, "h", <<>>) = <<>> THEN <<>>
    ELSE FieldsAt(fields, covered(fields, index, TagOr(fields[index].value, "h", <<>>)))

blob(raw, domain, selector) ==
    LET fields == parse_headers(header_block(raw))
    IN  BlobOf(fields, select(fields, domain, selector))

-----------------------------------------------------------------------------

\* The tags of the signature the Verifier would select, or none; "" is any.
signature(headers, domain, selector) ==
    LET fields == parse_headers(headers)
        index == SelectInSeq(fields, LAMBDA f :
                   /\ field_name(f.name) = SIGNATURE
                   /\ domain \in {"", TagOr(f.value, "d", "")}
                   /\ selector \in {"", TagOr(f.value, "s", "")})
    IN  IF index = 0 THEN <<>> ELSE fields[index].value

body_canon(tags) == TagOr(tags, "c/", "simple")

\* Why a message is not read at all, or "".
Unread(tags) ==
    IF tags = <<>> THEN "no DKIM-Signature for that domain and selector"
    ELSE IF HasTag(tags, "l") THEN "the Verifier refuses it"
    ELSE IF body_canon(tags) \notin MODES THEN "the Extractor refuses it"
    ELSE ""

\* What both checks say of the message.
Checked(tags) == [error |-> Unread(tags), domain |-> TagOr(tags, "d", ""), body_canon |-> body_canon(tags)]

PatternsOf(body, tags) ==
    IF Unread(tags) # "" THEN Checked(tags)
    ELSE Checked(tags) @@ [agreed |-> extract_body(body, TagOr(tags, "bh", ""), body_canon(tags))]

\* check of extract_check.py.
check_patterns(raw, domain, selector) ==
    LET message == split_message(raw)
    IN  PatternsOf(message.body, signature(message.headers, domain, selector))

\* The text is decoded once more, to be shown: what raises there ends the check.
PromptOf(body, tags, prepared, keys) ==
    IF Unread(tags) # "" THEN Checked(tags)
    ELSE IF first_text_part(body) = BROKEN THEN [Checked(tags) EXCEPT !.error = "malformed base64"]
    ELSE Checked(tags) @@
         [match |-> Len(body) <= MAX_BODY /\ body_hash_b64(body, body_canon(tags)) = TagOr(tags, "bh", ""),
          flags |-> flags(first_text_part(body), keys),
          outcome |-> prepared.reason, sent |-> prepared.reason = ""]

\* check of llm_check.py, which asks no model.
check_prompt(raw, domain, selector, keys) ==
    LET body == split_message(raw).body
        tags == signature(split_message(raw).headers, domain, selector)
    IN  PromptOf(body, tags, prepare(body, TagOr(tags, "bh", ""), body_canon(tags), keys), keys)
=============================================================================
