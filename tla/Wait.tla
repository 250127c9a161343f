-------------------------------- MODULE Wait --------------------------------
(* tools/txstate.py wait_for_decision and wait_stored, and Session.wait of   *)
(* tools/attest.py over them: the client follows one transaction by two      *)
(* sources, genlayer-py's receipt, which reads a view that can be wrong, and *)
(* the stored status, which is believed.                                     *)
(*                                                                           *)
(* Time is the number of polls of the stored status.                         *)

EXTENDS Consensus

CONSTANTS
    WAIT_ATTEMPTS,      \* waits for the receipt, each after a transient failure
    DecisionPolls,      \* polls of the stored status for a decision
    FinalPolls          \* polls of it for finality

ASSUME WaitAssumption ==
    WAIT_ATTEMPTS \in Nat \ {0} /\ DecisionPolls \in Nat /\ FinalPolls \in Nat

VARIABLES
    watched,    \* the transaction, an index of txs
    until,      \* what the caller waits for
    phase, resumed, polls,
    receipt,    \* what wait_for_decision returned: a status, or an error
    state       \* the stored state Session.wait returned

waitVars == <<watched, until, phase, resumed, polls, receipt, state>>

ERROR == "undecided"      \* the RuntimeError that Session.wait notes
UNREAD == [status |-> "PENDING", effect |-> NOT_RUN]

WaitTypeOK ==
    /\ watched \in 0..Len(txs) /\ until \in {"accepted", "finalized"}
    /\ phase \in {"idle", "receipt", "recheck", "decide_within", "decide",
                 "finalize", "store", "done", "raised"}
    /\ resumed \in 1..WAIT_ATTEMPTS
    /\ polls \in 0..DecisionPolls \cup 0..FinalPolls
    /\ receipt \in DECIDED \cup {"none", ERROR}
    /\ state \in [status : Status, effect : Effect]

WaitInit ==
    /\ watched = 0 /\ until \in {"accepted", "finalized"}
    /\ phase = "idle" /\ resumed = 1 /\ polls = 0 /\ receipt = "none" /\ state = UNREAD

\* Session.wait is called on a transaction.
BeginWait(i) ==
    /\ watched' = i /\ phase' = "receipt" /\ resumed' = 1 /\ polls' = 0 /\ receipt' = "none"
    /\ state' = UNREAD /\ UNCHANGED until

Stored == [status |-> txs[watched].status, effect |-> txs[watched].effect]
status == txs[watched].status

-----------------------------------------------------------------------------
(* wait_for_decision.                                                        *)

\* Session.wait notes a RuntimeError and goes on; any other error ends it.
Decided(answer) ==
    /\ receipt' = answer
    /\ phase' = IF until = "finalized" THEN "finalize" ELSE "store"
    /\ polls' = 0

\* The stored status is waited on from here.
ToStored == phase' = "decide" /\ polls' = 0 /\ UNCHANGED <<resumed, receipt>>

\* Mutated form of Resume: nobody counts how often.
ResumeUncounted == phase' = "receipt" /\ polls' = 0 /\ UNCHANGED <<resumed, receipt>>

\* After a transient failure the wait on the same transaction is resumed.
Resume ==
    /\ resumed < WAIT_ATTEMPTS
    /\ resumed' = resumed + 1 /\ phase' = "receipt" /\ polls' = 0 /\ UNCHANGED receipt

\* One wait for the receipt.  It comes once the view shows a decision; a number
\* without a name, and polls that run out, both hand over to the stored status;
\* a transient failure resumes it, and anything else is raised.
WaitReceipt ==
    /\ phase = "receipt"
    /\ \/ \E shown \in (View(watched) \cap DECIDED) \ {"CANCELED"} : Decided(shown) /\ UNCHANGED resumed
       \/ "CANCELED" \in View(watched) /\ phase' = "recheck" /\ UNCHANGED <<polls, receipt, resumed>>
       \/ status \notin DECIDED /\ ToStored
       \/ Resume
       \/ phase' = "raised" /\ UNCHANGED <<polls, receipt, resumed>>
    /\ UNCHANGED <<watched, until, state>>

\* A CANCELED is believed only once the stored status says so; until then a
\* transient failure still resumes the wait for the receipt.
Recheck ==
    /\ phase = "recheck"
    /\ \/ status = "CANCELED" /\ Decided("CANCELED") /\ UNCHANGED resumed
       \/ /\ status # "CANCELED"
          /\ phase' = "decide_within" /\ UNCHANGED <<polls, receipt, resumed>>
       \/ Resume
       \/ phase' = "raised" /\ UNCHANGED <<polls, receipt, resumed>>
    /\ UNCHANGED <<watched, until, state>>

\* wait_stored: another poll, as long as the status is not there and time is left.
Poll(statuses, budget) ==
    /\ status \notin statuses /\ polls < budget
    /\ polls' = polls + 1 /\ UNCHANGED phase

\* _decided, on the stored status.
DecideStored ==
    /\ phase \in {"decide_within", "decide"}
    /\ \/ status \in DECIDED /\ Decided(status) /\ UNCHANGED resumed
       \/ Poll(DECIDED, DecisionPolls) /\ UNCHANGED <<receipt, resumed>>
       \/ status \notin DECIDED /\ polls = DecisionPolls /\ Decided(ERROR) /\ UNCHANGED resumed
       \/ phase = "decide_within" /\ Resume
       \/ phase' = "raised" /\ UNCHANGED <<polls, receipt, resumed>>
    /\ UNCHANGED <<watched, until, state>>

-----------------------------------------------------------------------------
(* Session.wait.                                                             *)

\* The wait for finality returns the last stored status, reached or not.
AwaitFinal ==
    /\ phase = "finalize"
    /\ \/ Poll(FINAL, FinalPolls) /\ UNCHANGED state
       \/ /\ status \in FINAL \/ polls = FinalPolls
          /\ state' = Stored /\ phase' = "done" /\ UNCHANGED polls
       \/ phase' = "raised" /\ UNCHANGED <<polls, state>>
    /\ UNCHANGED <<watched, until, resumed, receipt>>

\* With --until accepted the stored status is read once more.
Store ==
    /\ phase = "store"
    /\ \/ state' = Stored /\ phase' = "done"
       \/ phase' = "raised" /\ UNCHANGED state
    /\ UNCHANGED <<watched, until, resumed, polls, receipt>>

WaitStep == WaitReceipt \/ Recheck \/ DecideStored \/ AwaitFinal \/ Store

=============================================================================
