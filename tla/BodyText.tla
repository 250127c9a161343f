------------------------------ MODULE BodyText ------------------------------
(* What is done to the body of a message: the canonicalizations its hash is  *)
(* taken of (lacre/dkimbody.py, and rfc6376.py they were measured against),  *)
(* the part that is read (dkimbody), the lane of patterns (lacre/patterns.py)*)
(* and the lane of the model (lacre/llmfields.py).                           *)
(*                                                                           *)
(* A body is a sequence of tokens; SHA-256 is perfect: a hash is what was    *)
(* hashed.                                                                   *)

EXTENDS Comments, FiniteSets, SequencesExt

CONSTANTS
    MAX_BODY,       \* of patterns and llmfields
    MAX_TEXT        \* of llmfields

SP == "sp"              \* a space or a tab
CRLF == "crlf"
LF == "lf"              \* a line feed alone: content, not an end of line
DELIMITER == "--b"      \* the boundary of the parts
PLAIN == "plain head"   \* a part's head that says text/plain, and its empty line
BASE64 == "base64 head" \* one that says the text is in base64 besides
LETTER == "x"           \* of base64 too; no other token is

Kept(text, keep(_)) ==
    LET at == SelectSeq([i \in DOMAIN text |-> i], keep)
    IN  [i \in DOMAIN at |-> text[at[i]]]

\* The text cut at every separator; there is always a last piece.
Split(text, separator) ==
    LET at == SelectSeq([i \in DOMAIN text |-> i], LAMBDA i : text[i] = separator)
        from == <<0>> \o at
        to == Append(at, Len(text) + 1)
    IN  [k \in DOMAIN from |-> SubSeq(text, from[k] + 1, to[k] - 1)]

Join(pieces, separator) ==
    FlattenSeq([i \in DOMAIN pieces |->
                  IF i = 1 THEN pieces[i] ELSE <<separator>> \o pieces[i]])

\* Mutated form of Collapsed: what is left of a run at an end of line stays.
Collapsed_untrimmed(line) ==
    Kept(line, LAMBDA i : line[i] = SP => i = Len(line) \/ line[i + 1] # SP)

\* A run of spaces is one, and none at the end of a line.
Collapsed(line) == Kept(line, LAMBDA i : line[i] = SP => i < Len(line) /\ line[i + 1] # SP)

\* Without the empty lines at the end.
WithoutTail(lines) ==
    SubSeq(lines, 1, CHOOSE n \in 0..Len(lines) :
                       /\ n > 0 => lines[n] # <<>>
                       /\ \A i \in n + 1..Len(lines) : lines[i] = <<>>)

canonicalize_body_relaxed(body) ==
    LET split == Split(body, CRLF)
        lines == WithoutTail([i \in DOMAIN split |-> Collapsed(split[i])])
    IN  IF lines = <<>> THEN <<>> ELSE Append(Join(lines, CRLF), CRLF)

\* One end of line at the end, where there are more.
OneEnding(body) ==
    LET ends == {n \in 1..Len(body) : \A i \in n..Len(body) : body[i] = CRLF}
    IN  IF ends = {} THEN body ELSE SubSeq(body, 1, Earliest(ends))

canonicalize_body_simple(body) ==
    IF body = <<>> THEN <<CRLF>>
    ELSE OneEnding(IF Last(body) = CRLF THEN body ELSE Append(body, CRLF))

canonicalize_body(body, mode) ==
    IF mode = "simple" THEN canonicalize_body_simple(body) ELSE canonicalize_body_relaxed(body)

\* canonicalize_body knows no other, and raises.
MODES == {"simple", "relaxed"}

body_hash_b64(body, mode) == canonicalize_body(body, mode)

\* rfc6376.py works on the whole body: runs first, then ends of lines.
reference_body_relaxed(body) ==
    LET runs == Kept(body, LAMBDA i : body[i] = SP => i = Len(body) \/ body[i + 1] # SP)
        ends == Kept(runs, LAMBDA i : runs[i] = SP => i = Len(runs) \/ runs[i + 1] # CRLF)
        cut == OneEnding(ends)
    IN  CASE cut = <<CRLF>> -> <<>>
          [] cut # <<>> /\ Last(cut) # CRLF -> Append(cut, CRLF)
          [] OTHER -> cut

\* A payload that cannot be decoded: b64decode raises.
BROKEN == <<"malformed base64">>

\* The decoder skips what is no letter, but the padding was counted with it.
b64decode(payload) ==
    LET data == SelectSeq(payload, LAMBDA t : t \notin {SP, CRLF, LF})
        letters == SelectSeq(data, LAMBDA t : t = LETTER)
        over == Len(letters) % 4
    IN  IF over = 0 \/ (over > 1 /\ (-Len(data)) % 4 >= 4 - over) THEN letters ELSE BROKEN

\* The first part that says it is plain text, or nothing.
first_text_part(raw) ==
    LET parts == Tail(Split(raw, DELIMITER))
        stripped == [i \in DOMAIN parts |-> 
                       LET at == SelectInSeq(parts[i], LAMBDA t : t \notin {CRLF, LF})
                       IN  IF at = 0 THEN <<>> ELSE SubSeq(parts[i], at, Len(parts[i]))]
        plain == SelectInSeq(stripped, LAMBDA p : p # <<>> /\ p[1] \in {PLAIN, BASE64})
    IN  CASE plain = 0 -> <<>>
          [] plain # 0 /\ stripped[plain][1] = BASE64 -> b64decode(Tail(stripped[plain]))
          [] OTHER -> Tail(stripped[plain])

-----------------------------------------------------------------------------
(* The pattern lane.                                                         *)

Found(match, reason, values) == [match |-> match, reason |-> reason, values |-> values]

\* Why no text is come to, in either lane, or "".  Whatever raises ends here,
\* and takes the match along.
Stopped(raw, bh, mode) ==
    IF Len(raw) > MAX_BODY THEN "body too large"
    ELSE IF mode \notin MODES THEN "extract failed"
    ELSE IF body_hash_b64(raw, mode) # bh THEN "bh mismatch"
    ELSE IF first_text_part(raw) = BROKEN THEN "extract failed"
    ELSE ""

\* The values are what the expressions find in the text, which stands for them.
\* The document loads: set_patterns had it loaded before it was stored.
extract_body(raw, bh, mode) ==
    IF Stopped(raw, bh, mode) # "" THEN Found(FALSE, Stopped(raw, bh, mode), <<>>)
    ELSE IF first_text_part(raw) = <<>> THEN Found(TRUE, "no text part", <<>>)
    ELSE Found(TRUE, "extracted", first_text_part(raw))

-----------------------------------------------------------------------------
(* The model's lane: a text is as in Comments.                               *)

INVISIBLE == "zero width"
NEWLINE == "nl"

\* Three marks at least, and more of them than of anything else.
is_delimiter_line(line) ==
    LET marks == 2 * Cardinality({i \in DOMAIN line : line[i] = DASHES})
    IN  marks >= 3 /\ 2 * marks > Len(line) + marks \div 2

sanitize(body) ==
    LET text == drop_comments(SelectSeq(body, LAMBDA t : t # INVISIBLE))
    IN  Join(SelectSeq(Split(text, NEWLINE), LAMBDA line : ~is_delimiter_line(line)), NEWLINE)

\* The keys of an answer and the start of an object are looked for in what the
\* model would see, a delimiter line in what a person sees.
flags(text, keys) ==
    LET visible == SelectSeq(text, LAMBDA t : t # INVISIBLE)
    IN  {f \in {"schema_key"} : Range(sanitize(text)) \cap keys # {}}
        \cup {f \in {"delimiter_line"} : \E line \in Range(Split(visible, NEWLINE)) : is_delimiter_line(line)}

\* What is agreed of a text without the model, or what it is given.
Judged(text, clean, keys) ==
    IF text = <<>> THEN Found(TRUE, "no text part", <<>>)
    ELSE IF flags(text, keys) # {} THEN Found(TRUE, "prefilter flagged", <<>>)
    ELSE IF Len(clean) > MAX_TEXT THEN Found(TRUE, "text too large", <<>>)
    ELSE Found(TRUE, "", clean)

prepare(raw, bh, mode, keys) ==
    IF Stopped(raw, bh, mode) # "" THEN Found(FALSE, Stopped(raw, bh, mode), <<>>)
    ELSE Judged(first_text_part(raw), sanitize(first_text_part(raw)), keys)

\* What the model answers: a decoded object, anything else, or nothing at all.
UNREADABLE_ANSWER == [shipped |-> "", eta_day |-> ""]
normalize_answer(answer, days) ==
    IF ~answer.object \/ answer.shipped \notin {"true", "false"} THEN UNREADABLE_ANSWER
    ELSE [shipped |-> answer.shipped, eta_day |-> IF answer.eta_day \in days THEN answer.eta_day ELSE ""]

\* Whatever the model does is a record.
Read(prepared, reading, raises) ==
    IF prepared.reason # "" THEN prepared
    ELSE IF raises THEN Found(TRUE, "model failed", <<>>)
    ELSE IF reading = UNREADABLE_ANSWER THEN Found(TRUE, "model output unparseable", <<>>)
    ELSE Found(TRUE, "extracted", <<reading.shipped, reading.eta_day>>)

read_body(raw, bh, mode, keys, days, answer) ==
    Read(prepare(raw, bh, mode, keys), normalize_answer(answer, days), answer.raises)
=============================================================================
