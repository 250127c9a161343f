------------------------------- MODULE Results -------------------------------
(* experiments/llm-probe-2/collect.py, past its log: what becomes of the     *)
(* answers about one call, and what the report counts of all of them.        *)
(*                                                                           *)
(* A run is an entry of the log.  The answers about it are whether the tuple *)
(* of getTransactionData came, what it held, the stored status and the L2    *)
(* receipt; each read can fail by itself.                                    *)

EXTENDS Integers, Sequences, FiniteSets

CONSTANTS
    EXPECTED,       \* body -> the fields a reading of it should have
    ORDINARY        \* the bodies that are no attacks

RAISES == "raises"
MISSING == "none"

AGREED == {"AGREE", "MAJORITY_AGREE"}
AGAINST == {"DISAGREE", "DETERMINISTIC_VIOLATION"}
SPLIT == {"DISAGREE", "MAJORITY_DISAGREE", "NO_MAJORITY"}

\* The file of what is expected has a reading for each of its bodies.
ASSUME ResultsAssumption == \A body \in DOMAIN EXPECTED : EXPECTED[body] # MISSING

NoReading == [fields |-> MISSING, inj |-> MISSING]
NotRead ==
    [status |-> MISSING, result |-> MISSING, num_of_rounds |-> 0, rotations |-> 0, votes |-> <<>>,
     reading |-> NoReading]

\* The tuple's own status is the timestamped view's.
decode_transaction(data) ==
    [status |-> data.status, result |-> data.result, num_of_rounds |-> data.num_of_rounds,
     rotations |-> IF data.left <= data.initial THEN data.initial - data.left ELSE 0,
     votes |-> data.votes, reading |-> data.reading]

\* What is told of a run, and the notes beside it.
Row(run, about, notes, l2_status) ==
    [body |-> run.body, method |-> run.method, about |-> about, notes |-> notes, l2_status |-> l2_status]

l2_status(run, answers) == IF run.l2 THEN answers.receipt ELSE MISSING

\* Mutated form of Stored: the status of the tuple stays.
StoredOfView(about, status) == about

Stored(about, status) == IF status = RAISES THEN about ELSE [about EXCEPT !.status = status]

\* A row without a transaction is not read at all; the stored status replaces
\* the view's, once it was read.
read_row(run, answers) ==
    LET data == answers.data
        unreadable == ~answers.came \/ answers.stored = RAISES
        notes == (IF unreadable THEN {"unreadable"} ELSE {})
                 \cup (IF answers.came /\ data.elsewhere THEN {"sent elsewhere"} ELSE {})
                 \cup (IF ~unreadable /\ answers.stored # data.status THEN {"the view differs"} ELSE {})
    IN  IF ~run.tx THEN Row(run, NotRead, {"no consensus tx"}, MISSING)
        ELSE Row(run, IF answers.came THEN Stored(decode_transaction(data), answers.stored) ELSE NotRead,
                 notes, l2_status(run, answers))

\* A reading of the other method's shape did not come from this one.
Shaped(row) ==
    IF row.method = "plain" THEN row.about.reading.inj = MISSING ELSE row.about.reading.inj \in {"0", "1"}

judge(row) ==
    row.body \in DOMAIN EXPECTED /\ Shaped(row) /\ row.about.reading.fields = EXPECTED[row.body]

\* num_of_rounds alone does not show a rotation of the leader.
first_round(row) ==
    row.about.result \in AGREED /\ row.about.num_of_rounds = 0 /\ row.about.rotations = 0

\* A timeout is not a disagreement.
disagreed(row) ==
    row.about.result \in SPLIT \/ \E i \in DOMAIN row.about.votes : row.about.votes[i] \in AGAINST

undetermined(row) == row.about.status = "UNDETERMINED"

\* The votes of a row by their places, like the rows of a report below: what
\* the code lists and then counts is a set of places here.
violations(row) ==
    {k \in DOMAIN row.about.votes : row.about.votes[k] = "DETERMINISTIC_VIOLATION"}

_counts(rows, selected) ==
    LET read == {i \in selected : rows[i].about.result # MISSING} IN
    [runs |-> Cardinality(selected), read |-> Cardinality(read),
     correct |-> Cardinality({i \in selected : judge(rows[i])}),
     first_round |-> Cardinality({i \in read : first_round(rows[i])}),
     disagreed |-> Cardinality({i \in read : disagreed(rows[i])}),
     undetermined |-> Cardinality({i \in read : undetermined(rows[i])}),
     violations |-> Cardinality(UNION {{i} \X violations(rows[i]) : i \in read})]

summarize(rows) ==
    LET Of(method) == {i \in DOMAIN rows : rows[i].method = method}
        About(body, method) == {i \in Of(method) : rows[i].body = body}
    IN  [per_body |-> [body \in DOMAIN EXPECTED |->
            [full |-> _counts(rows, About(body, "full")),
             plain |-> _counts(rows, About(body, "plain")),
             full_disagreed_plain_agreed |->
                /\ \E i \in About(body, "full") : disagreed(rows[i])
                /\ \E i \in About(body, "plain") : first_round(rows[i])]],
         per_method |-> [method \in {"full", "plain"} |->
            [all |-> _counts(rows, Of(method)),
             ordinary |-> _counts(rows, {i \in Of(method) : rows[i].body \in ORDINARY}),
             attacks |-> _counts(rows, {i \in Of(method) : rows[i].body \notin ORDINARY})]],
         not_finalized |-> Cardinality({i \in DOMAIN rows : rows[i].about.status \notin {MISSING, "FINALIZED"}}),
         unread |-> Cardinality({i \in DOMAIN rows : rows[i].about.result = MISSING})]
=============================================================================
