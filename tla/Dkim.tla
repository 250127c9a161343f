-------------------------------- MODULE Dkim --------------------------------
(* How a Verifier judges a blob of header lines: attest_blob of              *)
(* contracts/verifier/verifier_template.py over lacre/dkimcore.py, and the   *)
(* verifier both were measured against,                                      *)
(* experiments/dkim-probe/dkim/rfc6376.py.                                   *)
(*                                                                           *)
(* A line is a field, a continuation or neither.  A value is a sequence of   *)
(* tokens, each a tuple: <<WSP>>, <<FOLD>>, a word <<w>>, or in a signature  *)
(* a tag <<name, value>>.  RSA and SHA-256 are perfect: a signature is the   *)
(* key it was made with and the data it was made of.                         *)

EXTENDS Naturals, Integers, Sequences, FiniteSets, SequencesExt

CONSTANTS
    Under,          \* pairs of domains, the first a subdomain of the second
    Domains

WSP == "wsp"
FOLD == "fold"
QUOTED == "quoted"      \* a quoted display name, whatever is in it
NO_DOMAIN == ""
JUNK == "junk"          \* text that is no domain of anybody's

SIGNATURE == "dkim-signature"

Field(name, value) == [is |-> "field", name |-> name, value |-> value]
Continuation(value) == [is |-> "continuation", value |-> value]

\* Upper case and the spaces around a name do not matter.
field_name(name) ==
    CASE name = "FROM" -> "from" [] name = "To " -> "to"
      [] name = "Message-ID" -> "message-id" [] OTHER -> name

\* A continuation belongs to the field above it; a line that is neither is dropped.
parse_headers(lines) ==
    FoldLeft(LAMBDA fields, line :
               CASE line.is = "field" ->
                      Append(fields, [name |-> line.name, value |-> line.value])
                 [] line.is = "continuation" /\ fields # <<>> ->
                      [fields EXCEPT ![Len(fields)].value = (@ \o <<<<FOLD>>>>) \o line.value]
                 [] OTHER -> fields,
             <<>>, lines)

\* A fold is written out again as the CRLF it was.
lines_of(fields) ==
    FlattenSeq([i \in DOMAIN fields |->
        LET value == fields[i].value
            cuts  == SelectSeq([k \in DOMAIN value |-> k], LAMBDA k : value[k] = <<FOLD>>)
            from  == <<0>> \o cuts
            to    == Append(cuts, Len(value) + 1)
        IN  [k \in DOMAIN from |->
               LET piece == SubSeq(value, from[k] + 1, to[k] - 1)
               IN  IF k = 1 THEN Field(fields[i].name, piece) ELSE Continuation(piece)]])

\* 3.4.2: lower case, unfolded, one space for a run of them, none at the ends.
canon(field) ==
    LET unfolded == SelectSeq(field.value, LAMBDA token : token # <<FOLD>>)
        kept == SelectSeq([i \in DOMAIN unfolded |-> i], LAMBDA i :
                  unfolded[i] = <<WSP>> =>
                    /\ i < Len(unfolded) /\ unfolded[i + 1] # <<WSP>>
                    /\ \E j \in 1..i : unfolded[j] # <<WSP>>)
    IN  <<field_name(field.name), [i \in DOMAIN kept |-> unfolded[kept[i]]]>>

\* parse_tags: the last of a tag's values, or the default.
HasTag(value, tag) == \E i \in DOMAIN value : value[i][1] = tag
TagOr(value, tag, default) ==
    IF HasTag(value, tag) THEN Last(SelectSeq(value, LAMBDA t : t[1] = tag))[2] ELSE default

\* 3.7: the signature is signed with b= empty.
strip_b(field) ==
    [field EXCEPT !.value = [i \in DOMAIN field.value |->
        IF field.value[i][1] = "b" THEN <<"b", <<>>>> ELSE field.value[i]]]

\* The fields of one name, the signature that is checked never among them.
Instances(fields, index, name) ==
    LET at == SelectSeq([i \in DOMAIN fields |-> i],
                        LAMBDA i : i # index /\ field_name(fields[i].name) = name)
    IN  [i \in DOMAIN at |-> fields[at[i]]]

\* 5.4.2: a repeated name is taken bottom up.
Taken(instances, k) == instances[Len(instances) - k + 1]

\* The k-th mention of a name takes its k-th instance; a mention too many is oversigning.
signed_data(fields, index, names) ==
    FlattenSeq([i \in DOMAIN names |->
        LET instances == Instances(fields, index, names[i])
            k == Cardinality({j \in 1..i : names[j] = names[i]})
        IN  IF k <= Len(instances) THEN <<canon(Taken(instances, k))>> ELSE <<>>])
      \o <<canon(strip_b(fields[index]))>>

Signed(key, data) == <<key, data>>
rsa_verify(data, b, key) == b = Signed(key, data)

\* 0 when there is none.
find_signature(fields) ==
    SelectInSeq(fields, LAMBDA f : field_name(f.name) = SIGNATURE)

SignatureHolds(fields, index, tags, key) ==
    /\ TagOr(tags, "v", 0) = 1 /\ TagOr(tags, "a", "") = "rsa-sha256"
    /\ TagOr(tags, "c", "simple") = "relaxed"
    /\ TagOr(tags, "h", <<>>) # <<>>
    /\ rsa_verify(signed_data(fields, index, TagOr(tags, "h", <<>>)), TagOr(tags, "b", <<>>), key)

\* The verdict on the first signature.
verify_headers(lines, key) ==
    LET fields == parse_headers(lines)
        index == find_signature(fields)
    IN  index # 0 /\ SignatureHolds(fields, index, fields[index].value, key)

-----------------------------------------------------------------------------
(* attest_blob.                                                              *)

\* The body half of c=, here a tag of its own.
body_mode(tags) == TagOr(tags, "c/", "simple")

CountOf(text, token) == Cardinality({i \in DOMAIN text : text[i] = token})
LastAt(text, token) == CHOOSE i \in DOMAIN text :
                         text[i] = token /\ \A j \in i + 1..Len(text) : text[j] # token

\* The one address of a From field, or no domain when there might be two.
from_domain(value) ==
    LET text == SelectSeq(value, LAMBDA t : t \notin {<<QUOTED>>, <<FOLD>>, <<WSP>>})
        opened == SubSeq(text, LastAt(text, <<"<">>) + 1, Len(text))
        addr == IF CountOf(text, <<"<">>) = 0 THEN text
                ELSE IF CountOf(opened, <<">">>) = 0 THEN opened
                ELSE SubSeq(opened, 1, SelectInSeq(opened, LAMBDA t : t = <<">">>) - 1)
        domain == SubSeq(addr, LastAt(addr, <<"@">>) + 1, Len(addr))
    IN  IF CountOf(addr, <<"@">>) = 0 \/ CountOf(text, <<"@">>) > 1 \/ CountOf(text, <<"<">>) > 1
        THEN NO_DOMAIN
        ELSE IF Len(domain) = 1 /\ domain[1][1] \in Domains THEN domain[1][1] ELSE JUNK

\* What is not a number is 0.
as_number(text) == IF text >= 0 THEN text ELSE 0

\* Mutated form of Duplicated: only the names are compared, not how often.
Duplicated_present(fields, names) ==
    \E i \in DOMAIN fields : ~\E j \in DOMAIN names : names[j] = field_name(fields[i].name)

\* An unsigned copy above the signed one is what a reader displays.
Duplicated(fields, names) ==
    \E name \in Range(names) :
        CountOf([i \in DOMAIN fields |-> field_name(fields[i].name)], name) > CountOf(names, name)

\* Of the first Message-ID there is, signed or not: unfolded, and without the
\* spaces around it.  Nothing, when there is none.
message_id(fields) ==
    LET at == SelectInSeq(fields, LAMBDA f : field_name(f.name) = "message-id")
        text == SelectSeq(fields[at].value, LAMBDA token : token # <<FOLD>>)
        inside == {i \in DOMAIN text : text[i] # <<WSP>>}
    IN  IF at = 0 \/ inside = {} THEN <<>> ELSE SubSeq(text, Min(inside), Max(inside))

failure ==
    [ok |-> FALSE, bh |-> "", body_canon |-> "", message_id_sha256 |-> <<>>, sender |-> NO_DOMAIN, aligned |-> FALSE]

\* The first field that is a signature of the pair, or 0.
SignatureAt(fields, domain, selector) ==
    SelectInSeq(fields, LAMBDA f :
        /\ field_name(f.name) = SIGNATURE
        /\ TagOr(f.value, "d", "") = domain /\ TagOr(f.value, "s", "") = selector)

\* The one field that says who sent it.
SenderOf(fields) ==
    LET froms == SelectSeq(fields, LAMBDA f : field_name(f.name) = "from")
    IN  IF Len(froms) = 1 THEN from_domain(froms[1].value) ELSE NO_DOMAIN

\* The rules that override the RSA verdict.
Overridden(rest, tags, names, now) ==
    \/ ~\E i \in DOMAIN names : names[i] = "from"
    \/ Duplicated(rest, names)
    \/ HasTag(tags, "x") /\ as_number(TagOr(tags, "x", 0)) < now

Verdict(moved, tags, domain, sender, key, now) ==
    [ok |-> verify_headers(lines_of(moved), key) /\ ~Overridden(Tail(moved), tags, TagOr(tags, "h", <<>>), now),
     bh |-> TagOr(tags, "bh", ""), body_canon |-> body_mode(tags),
     message_id_sha256 |-> message_id(moved), sender |-> sender,
     aligned |-> sender = domain \/ <<sender, domain>> \in Under \/ <<domain, sender>> \in Under]

\* The signature of the pair is moved to the top and the blob is read again.
Attested(fields, index, domain, key, now) ==
    IF index = 0 \/ HasTag(fields[index].value, "l") THEN failure
    ELSE Verdict(<<fields[index]>> \o RemoveAt(fields, index), fields[index].value, domain, SenderOf(fields), key, now)

attest_blob(lines, domain, selector, key, now) ==
    LET fields == parse_headers(lines)
    IN  Attested(fields, SignatureAt(fields, domain, selector), domain, key, now)

\* A url is fetched by each validator; what does not come whole is a record of
\* a failure, never a revert.
attest_once(response, lines, domain, selector, key, now) ==
    IF response \in {"inline", "HTTP 200"} THEN attest_blob(lines, domain, selector, key, now) ELSE failure

-----------------------------------------------------------------------------
(* rfc6376.py.                                                               *)

canonicalize_header_simple(field) == <<field.name, field.value>>

\* The mentions are served one by one from what is left of each name.
select_signed_fields(fields, h_names, skip) ==
    LET names == Range(h_names)
        step(s, name) ==
          IF s.pool[name] = <<>> THEN s
          ELSE [selected |-> Append(s.selected, Last(s.pool[name])),
                pool |-> [s.pool EXCEPT ![name] = Front(@)]]
    IN  FoldLeft(step, [selected |-> <<>>, pool |-> [n \in names |-> Instances(fields, skip, n)]],
                 h_names).selected

canonicalize_header(mode, field) ==
    IF mode = "relaxed" THEN canon(field) ELSE canonicalize_header_simple(field)

build_signed_data(fields, index, h_names, mode) ==
    LET selected == select_signed_fields(fields, h_names, index)
    IN  Append([i \in DOMAIN selected |-> canonicalize_header(mode, selected[i])],
               canonicalize_header(mode, strip_b(fields[index])))

ReferenceHolds(fields, index, tags, key) ==
    LET data == build_signed_data(fields, index, TagOr(tags, "h", <<>>), TagOr(tags, "c", "simple"))
    IN  /\ TagOr(tags, "v", 0) = 1 /\ TagOr(tags, "a", "") = "rsa-sha256"
        /\ TagOr(tags, "h", <<>>) # <<>>
        /\ rsa_verify(data, TagOr(tags, "b", <<>>), key)

\* The signature is looked up by its pair, and both canonicalizations are known.
reference_verify_headers(lines, domain, selector, key) ==
    LET fields == parse_headers(lines)
        index == SignatureAt(fields, domain, selector)
    IN  index # 0 /\ ReferenceHolds(fields, index, fields[index].value, key)
=============================================================================
