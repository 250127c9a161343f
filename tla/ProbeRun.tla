------------------------------ MODULE ProbeRun ------------------------------
(* experiments/llm-probe-2: run.py sends a plan of calls to one contract, a  *)
(* window at a time, each through send.py, and reads its own log before each *)
(* call; collect.py reads that log afterwards.  The log is all that survives *)
(* a run that is killed.                                                     *)
(*                                                                           *)
(* A transaction is its place in signed.  One that was signed may reach the  *)
(* node at any later time, whatever the client was told.  What a broadcast   *)
(* may report is module Broadcast's.                                         *)
(*                                                                           *)
(* send.py prints into a pipe and goes on; run.py writes what it reads from  *)
(* there to the log, and is lost with what it has not read.                  *)

EXTENDS Integers, Sequences, FiniteSets, SequencesExt

CONSTANTS
    Calls,              \* how many calls the plan has
    REFUSED_RETRIES,    \* times a call is run again after "not sent"
    MaxSigned,          \* bound on signatures
    MaxEntries,         \* bound on calls run, resumed ones included
    MaxForeign,         \* bound on transactions of other programs of the account
    MaxAppeals          \* bound on appeals

ASSUME ProbeRunAssumption ==
    /\ Calls \in Nat \ {0} /\ REFUSED_RETRIES \in Nat
    /\ MaxSigned \in Nat /\ MaxEntries \in Nat /\ MaxForeign \in Nat /\ MaxAppeals \in Nat

VARIABLES
    signed,         \* the transactions, in the order they were signed
    next_nonce,     \* the account's
    foreign, appeals,
    log,            \* what run.py wrote, an entry per call run
    unwritten,      \* the last hash was printed and is not in the log yet
    pc,
    sequence,       \* the call of the plan under way
    attempt, hashes, nonce,     \* send_call's
    known, settled, \* caches of one run: final transactions, reverted ones
    verdict         \* classify's

chainVars == <<signed, next_nonce, foreign, appeals>>
runVars == <<unwritten, pc, sequence, attempt, hashes, nonce, known, settled, verdict>>
vars == <<chainVars, log, runVars>>

NONE == 0               \* no transaction
UNPINNED == -1          \* no nonce
OK == "ok"
NOT_SENT == "not_sent"
FAILED == "failed"      \* any other verdict: each stops the window

UNDECIDED == "PENDING"
APPEALED == "APPEALED"
DECIDED == {"ACCEPTED", "UNDETERMINED", "FINALIZED", "CANCELED"}
FINAL == {"FINALIZED", "CANCELED"}
DECIDED_DESPITE_EXIT == {"ACCEPTED", "FINALIZED"}

\* Where a transaction is: on its way or nowhere, held by the node, reverted,
\* or executed, and then its consensus transaction is in a stored status.
Where == {"out", "pool", "reverted"} \cup DECIDED \cup {UNDECIDED, APPEALED}

Entry == [call : 1..Calls, hashes : Seq(1..MaxSigned), tx : 0..MaxSigned]

TypeOK ==
    /\ signed \in Seq([call : 1..Calls, entry : Nat, nonce : Nat, where : Where])
    /\ next_nonce \in Nat /\ foreign \in 0..MaxForeign /\ appeals \in 0..MaxAppeals
    /\ log \in Seq(Entry) /\ unwritten \in BOOLEAN
    /\ pc \in {"down", "check", "sign", "broadcast", "receipt", "decision", "not_sent",
               "wait", "verdict"}
    /\ sequence \in 1..Calls /\ attempt \in 0..REFUSED_RETRIES + 1
    /\ hashes \subseteq DOMAIN signed /\ nonce \in Nat \cup {UNPINNED}
    /\ known \subseteq DOMAIN signed /\ settled \subseteq DOMAIN signed
    /\ verdict \in {OK, NOT_SENT, FAILED}

Init ==
    /\ signed = <<>> /\ next_nonce = 0 /\ foreign = 0 /\ appeals = 0 /\ log = <<>>
    /\ unwritten = FALSE
    /\ pc = "down" /\ sequence = 1 /\ attempt = 0 /\ hashes = {} /\ nonce = UNPINNED
    /\ known = {} /\ settled = {} /\ verdict = OK

-----------------------------------------------------------------------------
(* The chain.                                                                *)

Put(i, where) == signed' = [signed EXCEPT ![i].where = where]

Executed(i) == signed[i].where \notin {"out", "pool", "reverted"}

Rivals(i) == {j \in DOMAIN signed : signed[j].where = "pool" /\ signed[j].nonce = signed[i].nonce}

\* The node takes a transaction whose nonce is neither spent nor held.
Takes(i) == signed[i].where = "out" /\ signed[i].nonce >= next_nonce /\ Rivals(i) = {}

\* A signature that was not answered reaches the node after all.
Arrive ==
    /\ \E i \in DOMAIN signed : Takes(i) /\ Put(i, "pool")
    /\ UNCHANGED <<next_nonce, foreign, appeals, log, runVars>>

\* A block takes it; the contract's queue can be full.
Mine ==
    /\ \E i \in DOMAIN signed :
         /\ signed[i].where = "pool" /\ signed[i].nonce = next_nonce
         /\ Put(i, UNDECIDED) \/ Put(i, "reverted")
    /\ next_nonce' = next_nonce + 1
    /\ UNCHANGED <<foreign, appeals, log, runVars>>

\* The node forgets what it holds.
Evict ==
    /\ \E i \in DOMAIN signed : signed[i].where = "pool" /\ Put(i, "out")
    /\ UNCHANGED <<next_nonce, foreign, appeals, log, runVars>>

OtherProgram ==
    /\ foreign < MaxForeign /\ foreign' = foreign + 1
    /\ \A i \in DOMAIN signed : ~(signed[i].where = "pool" /\ signed[i].nonce = next_nonce)
    /\ next_nonce' = next_nonce + 1
    /\ UNCHANGED <<signed, appeals, log, runVars>>

\* Consensus decides, finalizes, and hears appeals of what is decided.
Consensus ==
    /\ \E i \in DOMAIN signed :
         \/ /\ signed[i].where \in {UNDECIDED, APPEALED} /\ UNCHANGED appeals
            /\ \E status \in DECIDED \ {"FINALIZED"} : Put(i, status)
         \/ /\ signed[i].where \in {"ACCEPTED", "UNDETERMINED"}
            /\ \/ Put(i, "FINALIZED") /\ UNCHANGED appeals
               \/ appeals < MaxAppeals /\ appeals' = appeals + 1 /\ Put(i, APPEALED)
    /\ UNCHANGED <<next_nonce, foreign, log, runVars>>

Chain == Arrive \/ Mine \/ Evict \/ OtherProgram \/ Consensus

-----------------------------------------------------------------------------
(* The log.                                                                  *)

Write(entry) == log' = Append(SubSeq(log, 1, Len(log) - 1), entry)
Open == log[Len(log)]       \* the entry of the call under way

logged_transactions == {log[k].tx : k \in DOMAIN log} \ {NONE}

logged_l2 == UNION {Range(log[k].hashes) : k \in DOMAIN log}

\* The hashes no consensus transaction was printed after.
unaccounted_l2 == logged_l2 \ logged_transactions

\* What the hint says, and what the log of a killed run says: a call without a
\* consensus transaction is resumed at itself.
next_start ==
    IF log = <<>> THEN 1
    ELSE IF Open.tx = NONE THEN Open.call ELSE Open.call + 1

-----------------------------------------------------------------------------
(* run.py.                                                                   *)

\* A run is started, with empty caches.
Start ==
    /\ pc = "down" /\ next_start <= Calls /\ Len(log) < MaxEntries
    /\ pc' = "check" /\ sequence' = next_start
    /\ UNCHANGED <<chainVars, log, unwritten, attempt, hashes, nonce, known, settled, verdict>>

\* The run ends, and with it all it held in memory and had not read.
stop ==
    /\ unwritten' = FALSE
    /\ pc' = "down" /\ sequence' = 1 /\ attempt' = 0 /\ hashes' = {} /\ nonce' = UNPINNED
    /\ known' = {} /\ settled' = {} /\ verdict' = OK

\* It is killed at any point.  What send.py still does then is Arrive's.
Killed == pc # "down" /\ stop /\ UNCHANGED <<chainVars, log>>

\* Mutated form of stray: what was mined is taken to be accounted for.
stray_pending == {i \in unaccounted_l2 \ settled : signed[i].where = "pool"}

\* Pending or executed without a consensus transaction in the log.
stray == {i \in unaccounted_l2 \ settled : signed[i].where = "pool" \/ Executed(i)}

undecided == {i \in logged_transactions \ known : signed[i].where \notin DECIDED}

\* pre_call_check, and the header of the call.
Check ==
    /\ pc = "check"
    /\ \/ stop /\ UNCHANGED log    \* blocked, or a chain that cannot be read
       \/ /\ undecided = {} /\ stray = {}
          /\ known' = known \cup {i \in logged_transactions : signed[i].where \in FINAL}
          /\ settled' = settled \cup {i \in unaccounted_l2 : signed[i].where = "reverted"}
          /\ log' = Append(log, [call |-> sequence, hashes |-> <<>>, tx |-> NONE])
          /\ pc' = "sign" /\ attempt' = 1 /\ hashes' = {} /\ nonce' = UNPINNED
          /\ UNCHANGED <<unwritten, sequence, verdict>>
    /\ UNCHANGED chainVars

\* What classify makes of a run of send.py: it has read all that was printed.
Classified(as) ==
    /\ ~ unwritten
    /\ verdict' = as
    /\ pc' = IF as = NOT_SENT THEN "not_sent" ELSE "verdict"

\* Mutated form of Nonce: a repeat is not held to the nonce of the first.
NonceNext == {next_nonce}

\* The nonce a signature can have.
Nonce == {next_nonce} \cap IF nonce = UNPINNED THEN {next_nonce} ELSE {nonce}

\* send.py signs and prints the hash, ahead of the broadcast.
Sign ==
    /\ pc = "sign"
    /\ \/ /\ Len(signed) < MaxSigned
          /\ \E n \in Nonce :
               signed' = Append(signed, [call |-> sequence, entry |-> Len(log), nonce |-> n, where |-> "out"])
          /\ pc' = "broadcast" /\ unwritten' = TRUE /\ UNCHANGED verdict
       \/ \* the pinned nonce is used, or the estimate or a read fails
          Classified(FAILED) /\ UNCHANGED <<signed, unwritten>>
    /\ UNCHANGED <<next_nonce, foreign, appeals, log, sequence, attempt, hashes, nonce, known, settled>>

present == Len(signed)

\* run.py reads the hash from the pipe, however far send.py has got meanwhile.
Log ==
    /\ unwritten /\ unwritten' = FALSE
    /\ Write([Open EXCEPT !.hashes = Append(@, present)])
    /\ UNCHANGED <<chainVars, pc, sequence, attempt, hashes, nonce, known, settled, verdict>>

\* The broadcast and what it reports: accepted, looked up and not there, or an
\* outcome that is unknown, refused or a crash, which stops the window.
Broadcast ==
    /\ pc = "broadcast"
    /\ \/ Takes(present) /\ Put(present, "pool") /\ pc' = "receipt" /\ UNCHANGED verdict
       \/ signed[present].where # "out" /\ pc' = "receipt" /\ UNCHANGED <<signed, verdict>>
       \/ signed[present].where = "out" /\ Classified(NOT_SENT) /\ UNCHANGED signed
       \/ Classified(FAILED) /\ UNCHANGED signed
    /\ UNCHANGED <<next_nonce, foreign, appeals, log, unwritten, sequence, attempt, hashes, nonce, known,
                   settled>>

\* The L2 receipt names the consensus transaction, which is printed after the hash.
Receipt ==
    /\ pc = "receipt"
    /\ \/ /\ ~ unwritten /\ Executed(present) /\ pc' = "decision"
          /\ Write([Open EXCEPT !.tx = present]) /\ UNCHANGED verdict
       \/ \* reverted, or a receipt that does not come
          Classified(FAILED) /\ UNCHANGED log
    /\ UNCHANGED <<chainVars, unwritten, sequence, attempt, hashes, nonce, known, settled>>

\* send.py's wait_for_decision, and the clean exit it ends with; or it exits
\* otherwise and run.py waits on the stored status itself.
Decision ==
    /\ pc = "decision"
    /\ \/ signed[present].where \in DECIDED /\ Classified(OK)
       \/ pc' = "wait" /\ UNCHANGED verdict
    /\ UNCHANGED <<chainVars, log, unwritten, sequence, attempt, hashes, nonce, known, settled>>

\* wait_decided after an exit that is not clean.
Wait ==
    /\ pc = "wait"
    /\ \/ Classified(IF signed[present].where \in DECIDED_DESPITE_EXIT THEN OK ELSE FAILED)
       \/ Classified(FAILED)                \* it could not be read
    /\ UNCHANGED <<chainVars, log, unwritten, sequence, attempt, hashes, nonce, known, settled>>

on_chain(tried) == {i \in tried : signed[i].where # "out"}

\* send_call after "not sent": again, under the same nonce, once no hash of its
\* attempts is on chain.
NotSent ==
    /\ pc = "not_sent"
    /\ hashes' = hashes \cup {present}
    /\ \/ /\ on_chain(hashes') = {} /\ attempt <= REFUSED_RETRIES
          /\ attempt' = attempt + 1 /\ pc' = "sign"
          /\ nonce' = IF nonce = UNPINNED THEN signed[present].nonce ELSE nonce
          /\ UNCHANGED verdict
       \/ Classified(FAILED) /\ UNCHANGED <<attempt, nonce>>
    /\ UNCHANGED <<chainVars, log, unwritten, sequence, known, settled>>

\* The footer, which nothing here reads, and the next call, or the end of the window.
Verdict ==
    /\ pc = "verdict"
    /\ \/ /\ verdict = OK /\ sequence < Calls /\ pc' = "check" /\ sequence' = sequence + 1
          /\ attempt' = 0 /\ hashes' = {} /\ nonce' = UNPINNED
          /\ UNCHANGED <<unwritten, known, settled, verdict>>
       \/ (verdict # OK \/ sequence = Calls) /\ stop
    /\ UNCHANGED <<chainVars, log>>

Run == Start \/ Check \/ Sign \/ Log \/ Broadcast \/ Receipt \/ Decision \/ Wait \/ NotSent \/ Verdict

Next == Run \/ Killed \/ Chain

Spec == Init /\ [][Next]_vars

-----------------------------------------------------------------------------
(* collect.py.                                                               *)

\* Mutated form of parse_log: the first hash of the entry.
parse_log_first(k) ==
    [l2_hash |-> IF log[k].hashes = <<>> THEN NONE ELSE Head(log[k].hashes), tx |-> log[k].tx]

\* A row per entry: of each line that can come more than once, the last.
parse_log(k) ==
    [l2_hash |-> IF log[k].hashes = <<>> THEN NONE ELSE Last(log[k].hashes), tx |-> log[k].tx]

-----------------------------------------------------------------------------
(* Properties.                                                               *)

\* Of all that was signed in one run of a call, the log's open entry, one
\* transaction is executed at most, also after the run gave up or was killed,
\* and whether or not run.py had written the hash: the pinned nonce holds the
\* repeats together, and on_chain does not have to be told the truth in time.
OnePerEntry ==
    \A k \in DOMAIN log : Cardinality({i \in DOMAIN signed : signed[i].entry = k /\ Executed(i)}) <= 1

\* A call that is made twice, as the log tells it, because an earlier run of it
\* arrived between the check and the signature, is the last: the log shows it
\* to every later check, and nothing more is ever signed.  It is said of what
\* was logged: the hash that a killed run.py had not read is in no log, the
\* call is signed again, and no check sees that it was made twice.
MadeTwice ==
    \E i, j \in logged_l2 :
        i # j /\ Executed(i) /\ Executed(j) /\ signed[i].call = signed[j].call

DoubleIsTheLast == [][MadeTwice => Len(signed') = Len(signed)]_vars

\* What collect.py reports is of one transaction: the L2 hash of a row, whose
\* gas it states, is that of the row's consensus transaction, and it was
\* signed for the row's call, however often the call was run again in place.
RowsArePaired ==
    \A k \in DOMAIN log :
        LET row == parse_log(k) IN
        /\ row.tx # NONE => row.l2_hash = row.tx
        /\ \A i \in Range(log[k].hashes) : signed[i].call = log[k].call
=============================================================================
