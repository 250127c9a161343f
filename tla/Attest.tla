------------------------------- MODULE Attest -------------------------------
(* tools/attest.py protocol, with Session, outcome and judge, and            *)
(* tools/extract.py, which runs the same protocol on the Extractor: one call *)
(* is sent until a record of it can be read, or a reason why not, and never  *)
(* while an earlier transaction of it may still run.                         *)
(*                                                                           *)
(* The chain is what docs/interfaces.md, rules 10 to 15, measured of it.  A  *)
(* send is one step here: what it may report, and that it makes at most one  *)
(* transaction, is what module Broadcast shows.                              *)

EXTENDS Wait

CONSTANTS
    Attempts,       \* what --attempts is
    Earlier,        \* how many decided calls the sender can have made before
    MaxTxs          \* bound on the sender's transactions

ASSUME AttestAssumption == Attempts \in Nat \ {0} /\ Earlier \in Nat /\ MaxTxs \in Nat

VARIABLES
    value,          \* what the call carries
    pc,
    ids, last,      \* before: what records_of and last_refusal read at the start
    settled,        \* history: whether every earlier call was final, and shown, at the start
    missed,         \* history: the final calls of the run that its read of final state missed
    attempt,
    astray,         \* a transaction of a send that did not report it can still come
    found,          \* the ids read after the wait
    exit            \* the exit code, NONE while it runs

readVars == <<value, ids, last, settled, missed>>
vars == <<chainVars, waitVars, readVars, pc, attempt, astray, found, exit>>

NONE == 99
EXIT_RECORDED == 0
EXIT_ERROR == 1
EXIT_REFUSED == 2
EXIT_NOT_EXECUTED == 3
EXIT_STOPPED == 4

TypeOK ==
    /\ ConsensusTypeOK /\ WaitTypeOK
    /\ value \in 0..1 /\ attempt \in 0..Attempts /\ astray \in BOOLEAN
    /\ pc \in {"preflight", "start", "send", "waiting", "read", "judge", "done"}
    /\ ids \subseteq DOMAIN txs /\ found \subseteq DOMAIN txs
    /\ last \in Reasons \cup {NO_REASON} /\ settled \in BOOLEAN /\ missed \subseteq DOMAIN txs
    /\ exit \in {NONE} \cup 0..4

Init ==
    /\ WaitInit
    /\ \E n \in 0..Earlier : txs \in [1..n -> EarlierTx]
    /\ setbacks = 0 /\ behind \in {s \in SUBSET Finals : Cardinality(s) <= MaxBehind} /\ value \in 0..1
    /\ pc = "preflight" /\ ids = {} /\ last = NO_REASON /\ settled = TRUE /\ missed = {}
    /\ attempt = 0 /\ astray = FALSE /\ found = {} /\ exit = NONE

Own == {i \in DOMAIN txs : txs[i].own}

-----------------------------------------------------------------------------
(* protocol.                                                                 *)

Exit(code) == exit' = code /\ pc' = "done"

\* main: a setup or a read that fails ends the run, and so does a refusal that
\* module Refusals predicts; nothing was sent.
Preflight ==
    /\ pc = "preflight"
    /\ \/ pc' = "start" /\ UNCHANGED exit
       \/ Exit(EXIT_ERROR)
       \/ Exit(EXIT_REFUSED)
    /\ UNCHANGED <<chainVars, waitVars, readVars, attempt, astray, found>>

\* snapshot ahead of the first attempt: a failed read ends the run unsent.
Start ==
    /\ pc = "start"
    /\ \/ /\ ids' = records_of("LATEST_FINAL") /\ last' = last_refusal("LATEST_FINAL")
          /\ settled' = (Finals = DOMAIN txs /\ behind = {})
          /\ attempt' = 1 /\ pc' = "send" /\ UNCHANGED exit
       \/ Exit(EXIT_ERROR) /\ UNCHANGED <<ids, last, settled, attempt>>
    /\ UNCHANGED <<chainVars, waitVars, value, missed, astray, found>>

\* The send of an attempt: its transaction is created and waited for, or it
\* reports nothing sent, or gives up in doubt, or ends in a traceback.
Send ==
    /\ pc = "send"
    /\ \/ /\ Len(txs) < MaxTxs /\ txs' = Append(txs, New)
          /\ BeginWait(Len(txs')) /\ pc' = "waiting" /\ UNCHANGED <<setbacks, behind, exit, astray>>
       \/ /\ \/ Exit(IF attempt = 1 THEN EXIT_ERROR ELSE EXIT_STOPPED)    \* NothingSent
             \/ Exit(EXIT_STOPPED)                                         \* Stop
             \/ Exit(EXIT_ERROR)
          /\ astray' \in BOOLEAN /\ UNCHANGED <<chainVars, waitVars>>
    /\ UNCHANGED <<readVars, attempt, found>>

WaitStepOfAttempt ==
    /\ pc = "waiting" /\ WaitStep
    /\ UNCHANGED <<chainVars, readVars, pc, attempt, astray, found, exit>>

\* The stored state the wait returned is read on, if it says the call ran; a
\* wait that was raised out of stops the run.
WaitEnded ==
    /\ pc = "waiting"
    /\ \/ phase = "raised" /\ Exit(EXIT_STOPPED)
       \/ /\ phase = "done" /\ UNCHANGED exit
          /\ pc' = IF executed(state) /\ (until = "accepted" \/ state.status = "FINALIZED")
                   THEN "read" ELSE "judge"
    /\ UNCHANGED <<chainVars, waitVars, readVars, attempt, astray, found>>

\* Mutated form of variant: the latest state is read, final or not.
variant_latest == "LATEST_NONFINAL"

\* outcome reads final state for a final transaction only.
variant == IF state.status = "FINALIZED" THEN "LATEST_FINAL" ELSE "LATEST_NONFINAL"

\* ours: the other fields keep another call of the sender from being taken
\* for this one.
ours(i) == txs[i].fits

\* Mutated form of refunded: every call that carried value pays it back.
refunded_always == value > 0

\* The transaction hands the whole value back: only a refusal does.
refunded == value > 0 /\ txs[watched].effect \in Reasons

\* outcome, its reads of records_of and of each new record.
ReadRecords ==
    /\ pc = "read"
    /\ \/ /\ found' = {i \in records_of(variant) \ ids : ours(i)}
          /\ missed' = missed \cup ({watched} \cap (Finals \ Shown(variant)))
          /\ pc' = "judge" /\ UNCHANGED exit
       \/ Exit(EXIT_STOPPED) /\ UNCHANGED <<found, missed>>
    /\ UNCHANGED <<chainVars, waitVars, value, ids, last, settled, attempt, astray>>

\* outcome, its read of last_refusal, and judge on a call that executed.
Read(reason) ==
    IF found # {} THEN "recorded"
    ELSE IF reason # NO_REASON THEN (IF reason # last \/ refunded THEN "refused" ELSE "stop")
    ELSE IF state.status = "FINALIZED" THEN "again" ELSE "stop"

\* Mutated form of judge: a call that was decided and did not run is sent again.
judge_decided ==
    CASE state.status \in {"CANCELED", APPEAL} -> "stop"
      [] ~executed(state) -> IF state.status \in DECIDED THEN "again" ELSE "stop"
      [] until = "finalized" /\ state.status # "FINALIZED" -> "stop"
      [] OTHER -> Read(last_refusal(variant))

judge ==
    CASE state.status \in {"CANCELED", APPEAL} -> "stop"
      [] until = "finalized" /\ state.status # "FINALIZED" -> "stop"
      [] state.status \notin DECIDED -> "stop"
      [] ~executed(state) -> IF state.status = "FINALIZED" THEN "again" ELSE "stop"
      [] OTHER -> Read(last_refusal(variant))

\* The attempt is taken, or they are used up.
NextAttempt ==
    IF attempt < Attempts
    THEN attempt' = attempt + 1 /\ pc' = "send" /\ UNCHANGED exit
    ELSE Exit(EXIT_NOT_EXECUTED) /\ UNCHANGED attempt

\* protocol: the verdict ends the run or takes the next attempt.
Judge ==
    /\ pc = "judge"
    /\ CASE judge = "recorded" -> Exit(EXIT_RECORDED) /\ UNCHANGED attempt
         [] judge = "refused" -> Exit(EXIT_REFUSED) /\ UNCHANGED attempt
         [] judge = "stop" -> Exit(EXIT_STOPPED) /\ UNCHANGED attempt
         [] judge = "again" -> NextAttempt
    /\ found' = {}
    /\ UNCHANGED <<chainVars, waitVars, readVars, astray>>

Client == Preflight \/ Start \/ Send \/ WaitStepOfAttempt \/ WaitEnded \/ ReadRecords \/ Judge

-----------------------------------------------------------------------------
(* What goes on beside it.                                                   *)

\* The transaction of a send that gave up comes after all.
ComeAfterAll ==
    /\ astray /\ Len(txs) < MaxTxs
    /\ txs' = Append(txs, New) /\ astray' = FALSE
    /\ UNCHANGED <<setbacks, behind, waitVars, readVars, pc, attempt, found, exit>>

Beside ==
    \/ ComeAfterAll
    \/ Chain /\ UNCHANGED <<waitVars, readVars, pc, attempt, astray, found, exit>>

Next == Client \/ Beside

\* The program goes on by itself; nothing is assumed of the network.
Spec == Init /\ [][Next]_vars /\ WF_vars(Client)

-----------------------------------------------------------------------------
(* Properties.                                                               *)

Recorded(i) == txs[i].effect = "record"

\* No transaction is sent while an earlier one of the run can still write a
\* record: each one before the last is final.  One of them has a record only if
\* the run read final state and it was not there: an attempt is sent again
\* after "an executed finalization whose record cannot be read at LATEST_FINAL",
\* which "can, in the worst case, produce two records" (docs/interfaces.md, rule 11).
NeverOverlaps ==
    \A i, j \in Own : i < j => txs[i].status = "FINALIZED" /\ (Recorded(i) => i \in missed)

\* "An attestation exists only as a record" (rule 10): a run that waits for
\* finality and exits 0 has read a final record that fits its call, and that
\* it had not read when it began.
RecordedIsFinal ==
    exit = EXIT_RECORDED /\ until = "finalized" =>
        \E i \in DOMAIN txs \ ids :
            txs[i].fits /\ txs[i].status = "FINALIZED" /\ Recorded(i)

\* A run that exits 2 has sent nothing, or a call of it was refused: the one it
\* followed, or one whose refusal it could not read and so sent again.  That is
\* if the sender's earlier calls were final, and shown, when it began
\* (attest.py:258).
RefusedWhenSettled ==
    [][exit' = EXIT_REFUSED /\ exit # EXIT_REFUSED /\ settled =>
          \/ Own = {}
          \/ \E i \in Own : txs[i].effect \in Reasons /\ i \in missed \cup {watched}]_vars

\* Whatever the network and the chain do, the run ends: every loop of the
\* sends, the waits and the attempts is bounded.
RunEnds == <>(pc = "done")
=============================================================================
