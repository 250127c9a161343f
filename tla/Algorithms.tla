----------------------------- MODULE Algorithms ------------------------------
(* The algorithms that need no recursion over their input: names and the     *)
(* keys made of them, key records, dates, the refusals of a call, and the    *)
(* report of a probe.  A behaviour makes one input of one kind, a token, a   *)
(* byte, a day or a call at a time; every input on the way is judged.        *)

EXTENDS NameKeys, KeyRecords, Dates, Refusals, Results

CONSTANTS
    NameAlphabet,           \* what a text that is made into a key is written in
    MaxName, MaxLabel,      \* longest texts made into keys
    Bytes,                  \* what a byte of a key can become
    MaxChanges,             \* bytes changed in a key
    Amiss,                  \* what can go wrong for a tool in one call
    FirstYear, LastYear,    \* the years walked through
    Calls,                  \* the runs of a log, each with the answers about it
    MaxRows,                \* calls of a report
    Bodies                  \* the bodies that a reading is expected of, in the file's order

ASSUME AlgorithmsAssumption ==
    /\ Bytes \subseteq 0..255
    /\ FirstYear \in Nat /\ FirstYear >= 1970 /\ LastYear \in Nat
    \* run.py calls two methods; a name that was read is one, or says it is unknown
    /\ \A call \in Calls :
         /\ call.run.method \in {"full", "plain"}
         /\ call.answers.stored # MISSING
         /\ call.answers.data.result # MISSING /\ call.answers.data.votes \in Seq(STRING)
    /\ Bodies \in Seq(DOMAIN EXPECTED) /\ DOMAIN EXPECTED = {Bodies[k] : k \in DOMAIN Bodies}
    /\ \A j, k \in DOMAIN Bodies : Bodies[j] = Bodies[k] => j = k

VARIABLES
    kind,       \* which algorithm the input is for
    input,      \* the sequence that is made
    beside      \* what goes with it

algorithmVars == <<kind, input, beside>>

-----------------------------------------------------------------------------
(* The inputs.                                                               *)

\* A key as it is published, and a bare one.
BareKey == <<48, 6, 2, 1, 65, 2, 1, 3>>
PublishedKey == <<48, 129, 17, 48, 3, 6, 1, OID, 3, 10, 0>> \o BareKey \o <<7>>

LastOfTime == 2037      \* the last year whose seconds TLC can count

\* A reference calendar, counted by the lengths of its years.
LeapYears(y) == {k \in 1970..y - 1 : (k % 4 = 0 /\ k % 100 # 0) \/ k % 400 = 0}
DaysBefore(y) == 365 * (y - 1970) + Cardinality(LeapYears(y))
MonthDays(y) == <<31, IF y \in LeapYears(y + 1) THEN 29 ELSE 28, 31, 30, 31, 30, 31, 31, 30, 31, 30, 31>>

\* What a call can meet, and what can go wrong for the tool besides.
KeyAnswers ==
    [view : {UNREADABLE, NO_DICT}, state : {""}, modulus : {""}]
    \cup {key_status(state, modulus) : state \in {"", "active"} \cup NamedStates,
                                      modulus \in {"good", "too small", "not hex"}}
RecordAnswers ==
    [view : {UNREADABLE, NO_DICT, NO_FIELDS, PAIRS, CONTRACT}, found : BOOLEAN, valid : BOOLEAN, aligned : BOOLEAN,
     canon : {"simple", "relaxed", "other"}]
Situations ==
    [of : {"attest"}, method : {"attest", "attest_inline"}, payload : {"allowed", "not https", "too long"},
     paid : BOOLEAN, named : BOOLEAN, router : {UNREADABLE, NOTHING, CONTRACT}, key : KeyAnswers, amiss : Amiss]
    \cup [of : {"extract"}, lane : {"patterns", "llm"}, paid : BOOLEAN, router : {UNREADABLE, NOTHING, CONTRACT},
          record : RecordAnswers, patterns : BOOLEAN, url : {"allowed", "not allowed"}, amiss : Amiss]

InitAlgorithms ==
    \/ kind = "call" /\ input = <<>> /\ beside \in Situations
    \/ kind = "name" /\ input = <<>> /\ beside = <<>>
    \/ kind = "key" /\ input \in {BareKey, PublishedKey} /\ beside = 0
    \/ kind = "report" /\ input = <<>> /\ beside = <<>>
    \/ kind = "date" /\ input = <<>>
       /\ beside \in {[y |-> y, m |-> 1, d |-> 1, days |-> DaysBefore(y)] : y \in FirstYear..LastYear}

Name ==
    /\ kind = "name"
    /\ \E c \in NameAlphabet :
         \/ Len(input) < MaxName /\ input' = Append(input, c) /\ UNCHANGED beside
         \/ Len(beside) < MaxLabel /\ beside' = Append(beside, c) /\ UNCHANGED input
    /\ UNCHANGED kind

\* The key lost its last bytes, or has another byte somewhere.
Garbled ==
    /\ kind = "key" /\ beside < MaxChanges /\ beside' = beside + 1
    /\ \/ \E i \in DOMAIN input, b \in Bytes : input' = [input EXCEPT ![i] = b]
       \/ \E n \in 0..Len(input) : input' = SubSeq(input, 1, n)
    /\ UNCHANGED kind

NextDay ==
    /\ kind = "date"
    /\ LET last == MonthDays(beside.y)[beside.m] IN
       \/ beside.d < last /\ beside' = [beside EXCEPT !.d = @ + 1, !.days = @ + 1]
       \/ beside.d = last /\ beside.m < 12
          /\ beside' = [beside EXCEPT !.d = 1, !.m = @ + 1, !.days = @ + 1]
    /\ UNCHANGED <<kind, input>>

\* The log has one call more.
Collect ==
    /\ kind = "report" /\ Len(input) < MaxRows
    /\ \E call \in Calls : input' = Append(input, call)
    /\ UNCHANGED <<kind, beside>>

NextAlgorithms == Name \/ Garbled \/ NextDay \/ Collect

AlgorithmsSpec == InitAlgorithms /\ [][NextAlgorithms]_algorithmVars

-----------------------------------------------------------------------------
(* Properties.                                                               *)

IsNormal(text) == text # NotAName /\ normalizeText(text) = text

\* The composite keys of the storage find what was stored and nothing else: a
\* normalized text normalizes to itself, in whichever contract; the key of a
\* pinned version can be read back in one way only; and key_status, which does
\* not check its arguments, finds no record for a text that is no name.
KeysFindTheirOwn ==
    kind = "name" =>
        LET name == normalizeText(input)
            label == normalizeText(beside)
            pinned == pin_key(name, label)
            lookup == lookup_key(beside, input)
        IN  /\ normalizeText(name) = name
            /\ IsNormal(name) /\ IsNormal(label) =>
                 \A i, j \in 0..Len(pinned) :
                   LET n == SubSeq(pinned, 1, i)
                       l == SubSeq(pinned, j + 1, Len(pinned))
                   IN  IsNormal(n) /\ IsNormal(l) /\ pin_key(n, l) = pinned => n = name /\ l = label
            /\ name = NotAName \/ label = NotAName =>
                 \A i, j \in 0..Len(lookup) :
                   LET s == SubSeq(lookup, 1, i)
                       d == SubSeq(lookup, j + 1, Len(lookup))
                   IN  ~(IsNormal(s) /\ IsNormal(d) /\ record_key(d, s) = lookup)

\* A record published once is one key: however a key is damaged, the reader of
\* the KeyCache and the one the network was probed with accept the same ones,
\* and read the same modulus and exponent.
KeyReadersAgree ==
    kind = "key" =>
        LET tags == [v |-> "DKIM1", k |-> "", p |-> input]
        IN  /\ key_from_tags(tags) = public_key_from_record(tags)
            /\ beside = 0 => key_from_tags(tags) = [n |-> <<65>>, e |-> <<3>>]

\* Every date is the one of the calendar: unix_time counts the days since 1970,
\* through month ends and leap years, an offset names the same instant, and
\* iso_date keeps exactly the dates there are.
DatesAreCivil ==
    kind = "date" =>
        /\ days_since_1970(beside.y, beside.m, beside.d) = beside.days
        /\ LET zone == [sign |-> -1, hours |-> 3, minutes |-> 30] IN
           beside.y <= LastOfTime => unix_time(beside.y, beside.m, beside.d, 21, 0, 7, zone) = (beside.days + 1) * 86400 + 1807
        /\ beside.m = 1 /\ beside.d = 1 => \A m \in 0..13, d \in 0..32 :
             (iso_date(beside.y, m, d) # NO_DATE) <=> (m \in 1..12 /\ d \in 1..MonthDays(beside.y)[m])

\* A tool that pays for a call tells its refusal ahead: what it says is the
\* reason the contract leaves, when it says nothing the contract starts the work,
\* and it only cannot tell when a read failed or the contract in use looks
\* elsewhere.  One answer is read in two ways: a record that is no dict is
\* "verifier unreadable" to the tool, while the Extractors take what dict() makes
\* of it, which is no record if it is empty and the record if it is its pairs.
\* The two lanes refuse alike, patterns apart.
RefusalsAgree ==
    kind = "call" =>
        LET s == beside
            unread == s.amiss # {} \/ s.router = UNREADABLE
        IN  IF s.of = "attest"
            THEN /\ predict_attest(s) # STOP => predict_attest(s) = attest_refusal(s)
                 /\ predict_attest(s) = STOP => unread \/ s.key.view = UNREADABLE
            ELSE LET refused == IF s.lane = "patterns" THEN extract_refusal(s) ELSE extract_llm_refusal(s)
                 IN  /\ predict_extract(s) \notin {STOP, refused} =>
                          /\ predict_extract(s) = "verifier unreadable" /\ s.record.view \in {NO_FIELDS, PAIRS}
                          /\ s.record.view = NO_FIELDS => refused = "record not found"
                     /\ predict_extract(s) = STOP => unread \/ s.record.view = UNREADABLE
                     /\ s.patterns => extract_refusal(s) = extract_llm_refusal(s)

\* Whether what was stored about a call was read.
Known(call) == call.run.tx /\ call.answers.came /\ call.answers.stored # RAISES

OfTheCall(row, call) ==
    /\ Known(call) => row.about.status = call.answers.stored
    /\ ~Known(call) => row.notes \cap {"unreadable", "no consensus tx"} # {}
    /\ judge(row) =>
         /\ call.run.tx /\ call.answers.came
         /\ (call.answers.data.reading.inj = MISSING) <=> call.run.method = "plain"

\* What a count comes to over all the bodies.
OverBodies(per_body, method, key) ==
    LET upTo[k \in 0..Len(Bodies)] ==
            IF k = 0 THEN 0 ELSE upTo[k - 1] + per_body[Bodies[k]][method][key]
    IN  upTo[Len(Bodies)]

Totals == {"runs", "read", "correct", "first_round", "disagreed", "undetermined", "violations"}

OfTheSameCalls(rows, report) ==
    /\ \A method \in {"full", "plain"}, key \in Totals :
         LET counts == report.per_method[method] IN
         /\ (\A i \in DOMAIN rows : rows[i].body \in DOMAIN EXPECTED) =>
              OverBodies(report.per_body, method, key) = counts.all[key]
         /\ counts.ordinary[key] + counts.attacks[key] = counts.all[key]
    /\ \A body \in DOMAIN EXPECTED :
         LET counts == report.per_body[body] IN
         counts.full_disagreed_plain_agreed <=> counts.full.disagreed > 0 /\ counts.plain.first_round > 0
    /\ report.per_method["full"].all.read + report.per_method["plain"].all.read + report.unread = Len(rows)

\* The report of a probe is of the chain: whatever reads fail, a row states the
\* stored status and not the view's, or says that it could not be read; what is
\* correct was read in its own method's shape; and the counts are of the same
\* calls however they are split, with the calls that were not read apart.
ReportIsOfTheChain ==
    kind = "report" =>
        LET rows == [i \in DOMAIN input |-> read_row(input[i].run, input[i].answers)]
            report == summarize(rows)
        IN  /\ \A i \in DOMAIN rows : OfTheCall(rows[i], input[i])
            /\ OfTheSameCalls(rows, report)
            /\ (\A i \in DOMAIN rows : Known(input[i])) =>
                 report.not_finalized = Cardinality({i \in DOMAIN input : input[i].answers.stored # "FINALIZED"})
=============================================================================
