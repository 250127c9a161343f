----------------------------- MODULE Consensus ------------------------------
(* The chain as the clients of tools/ meet it: the consensus transactions of *)
(* one sender to one contract, their stored statuses and what they leave in  *)
(* the contract's views.  What it may do is what docs/interfaces.md, rules   *)
(* 10 to 15, measured; what of it is believed is tools/txstate.py's.         *)

EXTENDS Naturals, Sequences, FiniteSets, FiniteSetsExt

CONSTANTS
    Reasons,        \* the reasons a call can be refused for
    MaxAppeals,     \* bound on appeals and revivals
    MaxBehind,      \* bound on the final transactions the final views miss at once
    WritesNothing   \* whether a call can execute and leave neither record nor reason

VARIABLES
    txs,            \* the sender's transactions, oldest first
    setbacks,       \* appeals and revivals so far
    behind          \* final transactions that the final views do not show yet

chainVars == <<txs, setbacks, behind>>

UNDECIDED == {"PENDING", "UNKNOWN_14"}
APPEAL == "APPEAL_COMMITTING"
DECIDED == {"ACCEPTED", "UNDETERMINED", "FINALIZED", "CANCELED"}
FINAL == {"FINALIZED", "CANCELED"}
Status == UNDECIDED \cup DECIDED \cup {APPEAL}

\* What a call left: a record, a reason, nothing although it ran, or nothing
\* because it did not run.
NOT_RUN == "unrun"
Effect == {"record", "nothing", NOT_RUN} \cup Reasons

\* last_refusal of a sender none of whose calls was refused.
NO_REASON == "none"

ASSUME ConsensusAssumption ==
    /\ Reasons \cap {"record", "nothing", NOT_RUN, NO_REASON} = {}
    /\ MaxAppeals \in Nat /\ MaxBehind \in Nat /\ WritesNothing \in BOOLEAN

Tx == [own : BOOLEAN,           \* sent by the run of the client
       fits : BOOLEAN,          \* its record is one the client's call could have written
       status : Status, effect : Effect]

ConsensusTypeOK == txs \in Seq(Tx) /\ setbacks \in 0..MaxAppeals /\ behind \subseteq DOMAIN txs

New == [own |-> TRUE, fits |-> TRUE, status |-> "PENDING", effect |-> NOT_RUN]

\* What the sender's earlier calls left: decided, not all of them final.
EarlierTx == [own : {FALSE}, fits : BOOLEAN, status : {"ACCEPTED", "FINALIZED"},
              effect : {"record"} \cup Reasons]

Become(i, status, effect) ==
    txs' = [txs EXCEPT ![i].status = status, ![i].effect = effect]

Outcomes == {"record"} \cup Reasons \cup IF WritesNothing THEN {"nothing"} ELSE {}

\* A call runs once every earlier one to the contract is decided.
Decide(i) ==
    /\ txs[i].status \in UNDECIDED
    /\ \A j \in 1..i - 1 : txs[j].status \notin UNDECIDED
    /\ \/ \E effect \in Outcomes : Become(i, "ACCEPTED", effect)
       \/ \E status \in {"ACCEPTED", "UNDETERMINED"} : Become(i, status, NOT_RUN)
    /\ UNCHANGED <<setbacks, behind>>

\* A status genlayer-py has no name for, or the cancellation of a call that waits.
Wander(i) ==
    /\ \/ txs[i].status = "PENDING" /\ Become(i, "UNKNOWN_14", NOT_RUN)
       \/ txs[i].status \in UNDECIDED /\ Become(i, "CANCELED", NOT_RUN)
    /\ UNCHANGED <<setbacks, behind>>

\* A decision is appealed, or a cancelled call is activated after all.
Setback(i) ==
    /\ setbacks < MaxAppeals /\ setbacks' = setbacks + 1
    /\ \/ txs[i].status \in {"ACCEPTED", "UNDETERMINED"} /\ Become(i, APPEAL, txs[i].effect)
       \/ txs[i].status = "CANCELED" /\ Become(i, "PENDING", NOT_RUN)
    /\ UNCHANGED behind

\* The appeal leaves the decision, or undoes it and what it wrote.
AppealEnds(i) ==
    /\ txs[i].status = APPEAL
    /\ \/ Become(i, "ACCEPTED", txs[i].effect)
       \/ Become(i, "PENDING", NOT_RUN)
    /\ UNCHANGED <<setbacks, behind>>

\* The call left a record or a reason.
Wrote(i) == txs[i].effect \in {"record"} \cup Reasons

\* What the call wrote is in the final views with its finality, or not yet: an
\* executed finalization whose record cannot be read is a case of rule 11.
Finalize(i) ==
    /\ txs[i].status \in {"ACCEPTED", "UNDETERMINED"}
    /\ Become(i, "FINALIZED", txs[i].effect)
    /\ \/ UNCHANGED behind
       \/ Wrote(i) /\ Cardinality(behind) < MaxBehind /\ behind' = behind \cup {i}
    /\ UNCHANGED setbacks

\* The final views show what a final transaction wrote; they may never.
CatchUp(i) == i \in behind /\ behind' = behind \ {i} /\ UNCHANGED <<txs, setbacks>>

Chain ==
    \E i \in DOMAIN txs :
        Decide(i) \/ Wander(i) \/ Setback(i) \/ AppealEnds(i) \/ Finalize(i) \/ CatchUp(i)

-----------------------------------------------------------------------------
(* What is read of it.                                                       *)

\* The timestamped view: a call that waits for long reads as CANCELED.
View(i) == {txs[i].status} \cup IF txs[i].status = "PENDING" THEN {"CANCELED"} ELSE {}

Finals == {i \in DOMAIN txs : txs[i].status = "FINALIZED"}

Shown(at) ==
    IF at = "LATEST_FINAL" THEN Finals \ behind
    ELSE {i \in DOMAIN txs : txs[i].status \in {"ACCEPTED", APPEAL, "FINALIZED"}}

records_of(at) == {i \in Shown(at) : txs[i].effect = "record"}

last_refusal(at) ==
    LET refused == {i \in Shown(at) : txs[i].effect \in Reasons}
    IN  IF refused = {} THEN NO_REASON ELSE txs[Max(refused)].effect

\* The method ran and its writes stand: status, result and execution agree.
executed(s) == s.status \in {"ACCEPTED", "FINALIZED"} /\ s.effect # NOT_RUN
=============================================================================
