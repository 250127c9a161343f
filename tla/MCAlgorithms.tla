---------------------------- MODULE MCAlgorithms -----------------------------
(* The pure algorithms over bounded inputs.  A behaviour makes one input of  *)
(* one kind, a token, a line or a byte at a time; every input on the way is  *)
(* judged.                                                                   *)

EXTENDS Algorithms, Samples, Builds

CONSTANTS
    MaxLines,               \* longest blob of headers: the signature, the message and one more
    MaxBody,                \* longest body
    MaxMarkup               \* longest text for the model, one more after a <

-----------------------------------------------------------------------------
(* The inputs.                                                               *)

MCLetters == {"a"}
MCUpper == [l \in MCLetters |-> "A"]
MCNameAlphabet == {"a", "A", Dot, Space, Slash, "_domainkey"}

BodyAlphabet == {LETTER, SP, CRLF, LF, DELIMITER, PLAIN, BASE64}
MarkupAlphabet == {"<", "!", DASHES, ">", NEWLINE, INVISIBLE}
Keys == {">"}                   \* any token a flag is raised for
Days == {"monday"}
Answers ==
    [raises : BOOLEAN, object : BOOLEAN, shipped : {"true", "false", "yes"}, eta_day : {"monday", "soon"}]

MCBytes == {0, 1, 2, 3, 48, 128, 129, 130, 133, OID}

MCDomains == {"amazon", "mail.amazon", "other"}
MCUnder == {<<"mail.amazon", "amazon">>}
Word(w) == <<w>>
Address(domain) == <<<<"user">>, <<"@">>, <<domain>>>>

\* What a signer sends, of these values, and with these names in h=.
From1 == [name |-> "from", value |-> <<<<QUOTED>>, <<"<">>>> \o Address("mail.amazon") \o <<<<">">>>>]
From2 == [name |-> "from", value |-> Address("other")]
To1 == [name |-> "to", value |-> <<<<"you">>>>]
To2 == [name |-> "to", value |-> <<<<"me">>, <<WSP>>, <<"too">>>>]
Id1 == [name |-> "Message-ID", value |-> <<<<WSP>>, <<"one">>>>]
Id2 == [name |-> "message-id", value |-> <<<<"two">>>>]
Messages == {<<From1>>, <<From1, To1>>, <<To2, From1, To1>>, <<To1>>, <<From1, From2>>}
HNames == {<<"from">>, <<"from", "to">>, <<"from", "from", "to", "to">>, <<"to">>}

NOW == 5
Stamps == {<<>>, <<<<"x", 4>>>>, <<<<"x", 5>>>>, <<<<"x", -1>>>>, <<<<"l", 1>>>>, <<<<"c/", "relaxed">>>>, <<<<"c/", "other">>>>}

\* The body of a message, and one that cannot be decoded.
Body == <<DELIMITER, PLAIN, LETTER, SP, CRLF>>
BadBody == <<DELIMITER, BASE64, LETTER, CRLF>>

\* A signature that is not made yet, and what the signer's own server makes of a
\* message with a key.
Unsigned(sent) ==
    [name |-> SIGNATURE,
     value |-> <<<<"v", 1>>, <<"a", "rsa-sha256">>, <<"c", sent.mode>>, <<"d", "amazon">>, <<"s", "sel">>,
                 <<"h", sent.h>>, <<"bh", body_hash_b64(sent.body, TagOr(sent.stamp, "c/", "simple"))>>>>
                 \o sent.stamp \o <<<<"b", <<>>>>>>]

SignatureOf(sent) ==
    LET fields == Append(sent.message, Unsigned(sent))
        data == IF sent.mode = "relaxed" THEN signed_data(fields, Len(fields), sent.h)
                ELSE build_signed_data(fields, Len(fields), sent.h, "simple")
        value == Unsigned(sent).value
    IN  [name |-> SIGNATURE, value |-> [value EXCEPT ![Len(value)] = <<"b", Signed(sent.key, data)>>]]

OtherSignature == [name |-> SIGNATURE, value |-> <<<<"v", 1>>, <<"d", "amazon">>, <<"s", "other">>, <<"b", <<>>>>>>]

\* One thing is unusual at a time.
Signatures ==
    LET usual == [message |-> <<From1, To1>>, h |-> <<"from", "to">>, stamp |-> <<>>, mode |-> "relaxed",
                  key |-> "key", body |-> Body]
    IN  {[usual EXCEPT !.message = m, !.h = h] : m \in Messages, h \in HNames}
        \cup {[usual EXCEPT !.message = <<Id1, From1>>, !.h = h] : h \in {<<"from">>, <<"from", "message-id">>}}
        \cup {[usual EXCEPT !.message = <<From1>>, !.stamp = s] : s \in Stamps}
        \cup {[usual EXCEPT !.message = <<From1>>, !.body = BadBody]}
        \cup {[usual EXCEPT !.mode = mode, !.key = key] : mode \in {"relaxed", "simple"}, key \in {"key", "another"}}

\* The same field, written differently.
Respelled(field) == Field("FROM", <<<<WSP>>>> \o field.value \o <<<<WSP>>, <<WSP>>>>)

LinesFor(sent) ==
    {Field(f.name, f.value) : f \in {SignatureOf(sent), OtherSignature, From2, To1} \cup Range(sent.message)
                                       \cup (IF Id1 \in Range(sent.message) THEN {Id2} ELSE {})}
    \cup {Respelled(From1), Continuation(<<<<WSP>>>>), [is |-> "neither"]}

\* A template that uses some names, and a module of fields that imports what it
\* uses of the body, and may import more.
TemplateOf(uses) ==
    <<Statement({}, {}, <<TextLine(DEPENDS, FALSE)>>), Marker(BODY_MARKER), Marker(FIELDS_MARKER),
      Statement({"contract"}, uses, <<TextLine(CODE, FALSE), TextLine(COMMENT, FALSE), TextLine(BLANK, FALSE)>>)>>
Importing(names) ==
    <<Statement({}, {}, <<TextLine(IMPORT, FALSE)>>), LacreImport(names)>>
BodyOrder == <<"b1", "b2", "b3">>
BodyNames == Range(BodyOrder)
Lines3 == <<TextLine(CODE, FALSE), TextLine(COMMENT, FALSE), TextLine(BLANK, FALSE)>>
FieldsOf(u1, u2, more) ==
    Importing(((u1 \cup u2) \cap BodyNames) \cup more)
      \o <<Statement({"f1"}, u1, Lines3), Statement({"f2"}, u2, Lines3)>>
Rules(text) ==
    Statement({"RULES"}, {}, <<TextLine(CODE, FALSE)>> \o [i \in DOMAIN text |-> TextLine(text[i], TRUE)])
Sources ==
    {[template |-> TemplateOf(t), fields |-> FieldsOf(u1, u2, more)] :
        t \in SUBSET {"f1", "b1"}, u1 \in SUBSET {"f2", "b1", "b2"}, u2 \in SUBSET {"f1", "b1"}, more \in SUBSET {"b2"}}
    \cup {[template |-> TemplateOf({"RULES"}), fields |-> Importing({}) \o <<Rules(text)>>] :
             text \in BoundedSeq({CODE, COMMENT, BLANK, IMPORT}, 3)}

\* What can go wrong for the tool besides what a call meets.
MCAmiss == {{}} \cup {{x} : x \in {"router", "fee", "record", "patterns", "no verifier", "no extractor", "another router"}}
\* What is read of a call, one thing unusual at a time.
MCExpected == [body \in {"ordinary", "attack"} |-> "not shipped"]
MCBodies == <<"ordinary", "attack">>
MCOrdinary == {"ordinary"}
Usual ==
    [status |-> "FINALIZED", result |-> "AGREE", num_of_rounds |-> 0, initial |-> 3, left |-> 3,
     votes |-> <<"AGREE", "AGREE">>, reading |-> [fields |-> "not shipped", inj |-> "0"], elsewhere |-> FALSE]
Tuples ==
    {[Usual EXCEPT !.elsewhere = TRUE], [Usual EXCEPT !.num_of_rounds = 1], [Usual EXCEPT !.left = 2],
     [Usual EXCEPT !.result = "NO_MAJORITY"], [Usual EXCEPT !.result = "MAJORITY_AGREE", !.votes[2] = "TIMEOUT"],
     [Usual EXCEPT !.votes[2] = "DETERMINISTIC_VIOLATION"]}
    \cup {[Usual EXCEPT !.reading = r] : r \in [fields : {"not shipped", "shipped"}, inj : {MISSING, "0"}] \cup {NoReading}}
Reads ==
    [came : {TRUE}, data : Tuples, stored : {"FINALIZED"}, receipt : {"success"}]
    \cup [came : BOOLEAN, data : {[Usual EXCEPT !.status = v] : v \in {"FINALIZED", "CANCELED", "UNDETERMINED"}},
          stored : {RAISES, "PENDING", "FINALIZED", "UNDETERMINED"}, receipt : {RAISES}]
Made(tx) == [body : DOMAIN MCExpected, method : {"full", "plain"}, tx : {tx}, l2 : {TRUE}]
MCCalls ==
    [run : Made(TRUE), answers : Reads]
    \cup [run : Made(FALSE), answers : {[came |-> FALSE, data |-> Usual, stored |-> RAISES, receipt |-> RAISES]}]

Init ==
    \/ InitAlgorithms
    \/ kind = "build" /\ input = <<Statement({}, {}, <<TextLine(IMPORT, FALSE)>>)>> /\ beside \in Sources
    \/ kind = "body" /\ input = <<>> /\ beside = <<>>
    \/ kind = "markup" /\ input = <<>> /\ beside = <<>>
    \/ kind = "blob" /\ input = <<>> /\ beside \in Signatures

\* The body, or the text, is one token longer.
Longer ==
    /\ \/ kind = "body" /\ Len(input) < MaxBody /\ \E t \in BodyAlphabet : input' = Append(input, t)
       \/ kind = "markup" /\ Len(input) < MaxMarkup + (IF input # <<>> /\ input[1] = "<" THEN 1 ELSE 0)
          /\ \E t \in MarkupAlphabet : input' = Append(input, t)
    /\ UNCHANGED <<kind, beside>>

Line ==
    /\ kind = "blob" /\ Len(input) < MaxLines /\ Len(input) < Len(beside.message) + 2
    /\ \E line \in LinesFor(beside) : input' = Append(input, line)
    /\ UNCHANGED <<kind, beside>>

\* The body defines another name.
Define ==
    /\ kind = "build"
    /\ \E k \in DOMAIN BodyOrder, uses \in SUBSET BodyNames :
         /\ BodyOrder[k] \notin uses
         /\ \A j \in k..Len(BodyOrder) : BodyOrder[j] \notin defined_names(input)
         /\ input' = Append(input, Statement({BodyOrder[k]}, uses, Lines3))
    /\ UNCHANGED <<kind, beside>>

Next == NextAlgorithms \/ Define \/ Longer \/ Line

Spec == Init /\ [][Next]_algorithmVars

-----------------------------------------------------------------------------
(* Properties.                                                               *)

\* RFC 6376 3.4.4, as a definition: a space stays if content follows it in its
\* line, the last of its run; an end of line stays if content follows at all.
Canonical(body) ==
    LET content(i) == body[i] \notin {SP, CRLF}
        kept == Kept(body, LAMBDA i :
                  CASE body[i] = SP -> i < Len(body) /\ content(i + 1)
                    [] body[i] = CRLF -> \E j \in i + 1..Len(body) : content(j)
                    [] OTHER -> TRUE)
    IN  IF kept = <<>> THEN <<>> ELSE Append(kept, CRLF)

\* The hash is of what RFC 6376 says, for any body: relaxed is its definition,
\* both are stable, simple changes nothing relaxed would not, and the verifier
\* the network was probed with hashes alike whatever ends in an end of line.
\* What was signed in the one form is matched when it comes in the other, but
\* for a body over the limit, and for one whose text cannot be decoded, of which
\* docs/extractor.md says that no match is reported though the hash matched.
BodyIsHashedByTheBook ==
    kind = "body" =>
        LET relaxed == canonicalize_body(input, "relaxed")
            simple == canonicalize_body(input, "simple")
        IN  /\ relaxed = Canonical(input)
            /\ canonicalize_body(relaxed, "relaxed") = relaxed
            /\ canonicalize_body(simple, "simple") = simple
            /\ canonicalize_body(simple, "relaxed") = relaxed
            /\ input # <<>> /\ Last(input) = CRLF => reference_body_relaxed(input) = relaxed
            /\ \A mode \in MODES :
                 LET sent == canonicalize_body(input, mode)
                     found == extract_body(sent, body_hash_b64(input, mode), mode)
                 IN  \/ found.match /\ found.reason \in {"extracted", "no text part"}
                     \/ ~found.match /\ found.reason = "body too large" /\ Len(sent) > MAX_BODY
                     \/ ~found.match /\ found.reason = "extract failed" /\ first_text_part(sent) = BROKEN

Inert(clean, visible) ==
    /\ Openers(clean) = {} /\ ~Contains(clean, INVISIBLE)
    /\ \A line \in Range(Split(clean, NEWLINE)) : ~is_delimiter_line(line)
    /\ Openers(visible) = {} /\ "delimiter_line" \notin flags(input, Keys) => clean = visible
    /\ drop_comments(visible) = _drop_comments(visible)

OfAnAnswer(read, asked, answer) ==
    /\ read.reason = "extracted" =>
         /\ asked.reason = "" /\ ~answer.raises
         /\ read.values[1] \in {"true", "false"} /\ read.values[2] \in Days \cup {""}
    /\ ~read.match => read.values = <<>>

\* What the model is given can neither hide text nor close its frame: no
\* comment and no delimiter line is left in it, and nothing else is taken out,
\* as the prompt the network was probed with took it out.  Only what the model
\* answered about such a text, in the one shape there is, becomes a value.
SanitizedIsInert ==
    kind = "markup" =>
        LET raw == <<DELIMITER, PLAIN>> \o input
            asked == prepare(raw, Append(raw, CRLF), "simple", Keys)
        IN  /\ Inert(sanitize(input), SelectSeq(input, LAMBDA t : t # INVISIBLE))
            /\ asked.reason = "" => ~Contains(asked.values, ">") /\ Len(asked.values) <= MAX_TEXT
            /\ \A answer \in Answers :
                 /\ OfAnAnswer(read_body(raw, Append(raw, CRLF), "simple", Keys, Days, answer), asked, answer)
                 /\ read_body(raw, raw, "simple", Keys, Days, answer).values = <<>>

\* What of a name was received, and what of it was sent under the signature.
Canons(fields) == [i \in DOMAIN fields |-> canon(fields[i])]
Received(fields, name) == Canons(Instances(fields, 0, name))
Sent(all, n) == Canons(SubSeq(all, IF Len(all) > n THEN Len(all) - n + 1 ELSE 1, Len(all)))

OfWhatWasSigned(fields, verdict, at) ==
    /\ verdict.ok <=>
         /\ at # 0 /\ beside.mode = "relaxed" /\ beside.key = "key"
         /\ ~HasTag(beside.stamp, "l") /\ TagOr(beside.stamp, "x", NOW) = NOW
         /\ CountOf(beside.h, "from") > 0
         /\ \A name \in Range(beside.h) :
              Received(fields, name) = Sent(Instances(beside.message, 0, name), CountOf(beside.h, name))
    /\ verdict.ok /\ verdict.aligned => Received(fields, "from") = <<canon(From1)>>
    /\ at # 0 /\ beside.mode = "relaxed" =>
         reference_verify_headers(input, "amazon", "sel", "key")
           = verify_headers(lines_of(<<fields[at]>> \o RemoveAt(fields, at)), "key")
    /\ \A response \in {"raises", "HTTP 404", "too large"} :
         ~attest_once(response, input, "amazon", "sel", "key", NOW).ok

\* A blob is attested exactly when its signature is the one of the pair and of
\* the key, not expired and with no l=, signs From, and no field of a name it
\* signs was added, dropped, changed or reordered on the way, however it was
\* folded or spaced and wherever the signature stands in it.  The verifier the
\* network was probed with agrees on the signature.
VerdictIsOfWhatWasSigned ==
    kind = "blob" =>
        LET fields == parse_headers(input)
            own == [SignatureOf(beside) EXCEPT !.name = SIGNATURE]
        IN  OfWhatWasSigned(fields, attest_blob(input, "amazon", "sel", "key", NOW),
                            SelectInSeq(fields, LAMBDA f : f.name = SIGNATURE /\ canon(f)[2] = own.value))

CutTellsAhead(verdict, cut, raw) ==
    /\ \A attested \in {attest_blob(cut, "amazon", "sel", "key", NOW)} :
         /\ verdict.ok => attested = IF CountOf(beside.h, "message-id") > 0 THEN verdict
                                     ELSE [verdict EXCEPT !.message_id_sha256 = <<>>]
         /\ cut # <<>> /\ attested.ok => reference_verify_headers(input, "amazon", "sel", "key")
    /\ blob(raw, "amazon", "sel") = cut
    /\ blob(input, "amazon", NO_SELECTOR) \in {<<>>, cut, blob(input, "amazon", "other")}

BodyTellsAhead(verdict, patterns, prompt) ==
    verdict.bh # "" =>
        /\ (patterns.error = "") <=> verdict.body_canon \in MODES
        /\ (prompt.error = "") <=> patterns.error = "" /\ beside.body # BadBody
        /\ patterns.error = "" =>
             /\ patterns.agreed = extract_body(beside.body, verdict.bh, verdict.body_canon)
             /\ patterns.agreed.match <=> beside.body # BadBody
        /\ prompt.error = "" =>
             /\ prompt.match
             /\ prompt.outcome = prepare(beside.body, verdict.bh, verdict.body_canon, Keys).reason

\* The tools show what the contracts will do.  The blob that is cut out of a
\* message for attest_inline is attested like the message when that is, all but
\* for a Message-ID that is not signed, of which the cut's record has no hash;
\* and it is attested at all only if the signature of the message holds; the
\* selector need not be given when there is one.  And what is read in the body
\* off chain is what the Extractors read for the record of that message, which
\* match it unless its text cannot be decoded: then llm_check only says so.
SamplesTellAhead ==
    kind = "blob" =>
        LET raw == input \o <<EMPTY, BodyLine(beside.body)>> IN
        /\ CutTellsAhead(attest_once("inline", input, "amazon", "sel", "key", NOW), blob(input, "amazon", "sel"), raw)
        /\ BodyTellsAhead(attest_once("inline", input, "amazon", "sel", "key", NOW),
                          check_patterns(raw, "amazon", "sel"), check_prompt(raw, "amazon", "sel", Keys))

\* What names need of a source, looked at as often as it has statements.
Needed(whole, names) ==
    LET more(n, i) == n \cup (defined_names(whole) \cap UNION {UsesOf(whole, x) : x \in n})
    IN  FoldLeft(more, defined_names(whole) \cap names, whole)

NamesOf(lines) == UNION {lines[i].names : i \in DOMAIN lines}

Complete(source, problems, reached) ==
    \A output \in {main(source, problems, FALSE, <<>>).output} : output # <<>> =>
        LET whole == input \o beside.fields IN
        /\ {"contract"} \cup reached \subseteq NamesOf(output)
        /\ NamesOf(output)
             \subseteq {"contract"} \cup Needed(whole, used_names(beside.template) \cup imported_names(beside.fields))
        /\ dropped_from(whole, output) \cap reached = {}
        /\ "RULES" \in reached => constant(output, "RULES") = constant(Written(beside.fields), "RULES")
        /\ output[1].text = DEPENDS
        /\ Cardinality({i \in DOMAIN output : output[i].text = IMPORT}) = 1
        /\ \A i \in DOMAIN output : output[i].text \in {COMMENT, BLANK} => output[i].raw
        /\ main(output, problems, TRUE, output).exit = 0

OneIsComplete(one) ==
    check_one(one) = {} =>
        /\ NamesOf(one) \cap BodyNames = reachable(input, used_names(beside.template))
        /\ check_one(build_router(beside.template)) = {}

\* A contract that a build wrote has all its template reaches, through the
\* names one module imports from the other too, and nothing else but what is
\* imported; it asks the model what the tests asked, says which runner it needs
\* and imports nothing twice or from lacre; and it is what --check accepts.
BuildIsComplete ==
    kind = "build" =>
        LET template == beside.template
            fields == beside.fields
            source == build(template, input, fields)
        IN  /\ IF \E i \in DOMAIN template : "RULES" \in template[i].uses
               THEN Complete(source, check_llm(source, fields), Needed(input \o fields, used_names(template)))
               ELSE Complete(source, check(source), Needed(input \o fields, used_names(template)))
            /\ OneIsComplete(build_one(template, input))
=============================================================================
