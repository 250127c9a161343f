---------------------------- MODULE AttestProofs ----------------------------
(* What holds of a run of the clients for any number of attempts, polls,     *)
(* waits, earlier calls and appeals.                                         *)

EXTENDS Attest, FiniteSetTheorems, WellFoundedInduction, TLAPS

-----------------------------------------------------------------------------
(* The invariant.                                                            *)

Starting == {"preflight", "start"}
Following == {"waiting", "read", "judge"}

\* A call that can write no record and no reason any more, and has not, or the
\* read of final state did not show it.
Spent(i) == txs[i].status = "FINALIZED" /\ (Wrote(i) => i \in missed)

\* Nothing is sent before the start, and what comes of a send that gave up
\* comes after the end.
NothingYet == pc \in Starting => Own = {}
StrayAtEnd == astray => pc = "done"

\* When a call can be sent, or can still come, every earlier one is spent; the
\* one that is followed is the last.
Quiet     == pc = "send" \/ astray => \A i \in Own : Spent(i)
Follows   == pc \in Following => watched \in Own /\ \A i \in Own : i # watched => i < watched
OthersSpent == \A i, j \in Own : i < j => Spent(i)

\* A stored status that is final is what the transaction is for good.
Stands == pc \in Following /\ state.status = "FINALIZED" =>
             txs[watched].status = "FINALIZED" /\ txs[watched].effect = state.effect

\* The ids of before are of earlier calls, and a call fits itself.
OwnIsNew == ids \cap Own = {} /\ ids \subseteq DOMAIN txs /\ \A i \in Own : txs[i].fits

\* What was found is a record that stands if it was read of final state, and a
\* record of the call itself is found.
FoundAtJudge == pc # "judge" => found = {}
FoundFits    == \A i \in found : i \in DOMAIN txs \ ids /\ txs[i].fits
FoundStands  == pc = "judge" /\ state.status = "FINALIZED" =>
                   /\ \A i \in found : txs[i].status = "FINALIZED" /\ txs[i].effect = "record"
                   /\ state.effect = "record" => found # {} \/ watched \in missed

\* What the final views still do not show was missed by the read of them.
MissedAtJudge == pc = "judge" /\ state.status = "FINALIZED" /\ state.effect # NOT_RUN =>
                    (watched \in behind => watched \in missed)

ReportStands == exit = EXIT_RECORDED /\ until = "finalized" =>
    \E i \in DOMAIN txs \ ids : txs[i].fits /\ txs[i].status = "FINALIZED" /\ txs[i].effect = "record"

\* The reason read before is that of the last refused call of before, if they
\* all were final.
Before == DOMAIN txs \ Own
RefusedBefore == {i \in Before : txs[i].effect \in Reasons}
LastStands == pc \in Following \cup {"send"} /\ settled =>
    /\ \A i \in Before : txs[i].status = "FINALIZED" /\ i \notin behind
    /\ last = IF RefusedBefore = {} THEN NO_REASON ELSE txs[Max(RefusedBefore)].effect

\* There is no exit code before the end.
Running == pc # "done" => exit = NONE

RunInv ==
    /\ Running /\ NothingYet /\ StrayAtEnd /\ Quiet /\ Follows /\ OthersSpent /\ Stands /\ OwnIsNew
    /\ FoundAtJudge /\ FoundFits /\ FoundStands /\ MissedAtJudge /\ ReportStands /\ LastStands

-----------------------------------------------------------------------------
(* The greatest of a bounded set of numbers.                                 *)

LEMMA Greatest ==
    ASSUME NEW n \in Nat, NEW S \in SUBSET (1..n), S # {}
    PROVE  Max(S) \in S /\ \A i \in S : i <= Max(S)
  <1> DEFINE R == OpToRel(<, Nat)
             T == {n - i : i \in S}
  <1>1. IsWellFoundedOn(R, Nat)
    BY NatLessThanWellFounded
  <1>2. \A x, y \in Nat : x < y => <<x, y>> \in R
    BY DEF OpToRel
  <1> HIDE DEF R
  <1>3. T \subseteq Nat /\ T # {}
    <2>1. \A i \in S : i \in Nat /\ n - i \in Nat
      OBVIOUS
    <2> QED BY <2>1
  <1>4. PICK x \in T : \A y \in T : ~ (<<y, x>> \in R)
    BY <1>1, <1>3, WFMin
  <1>5. PICK i \in S : x = n - i
    BY <1>4
  <1>6. ASSUME NEW j \in S PROVE j <= i
    <2>1. n - j \in T /\ n - j \in Nat /\ n - i \in Nat /\ i \in Nat /\ j \in Nat
      BY <1>5
    <2>2. ~ (n - j < n - i)
      BY <1>2, <1>4, <1>5, <2>1
    <2> QED BY <2>1, <2>2
  <1>7. \E m \in S : \A j \in S : m >= j
    BY <1>5, <1>6
  <1>8. Max(S) \in S /\ \A j \in S : Max(S) >= j
    BY <1>7 DEF Max
  <1> QED BY <1>8

-----------------------------------------------------------------------------
(* The chain.                                                                *)

\* What of the sender's transactions a step of the chain leaves as it is: how
\* many there are, whose they are, and each one that is final; what the final
\* views show of those they show from then on.
ChainKeeps ==
    /\ txs' \in Seq(Tx) /\ Len(txs') = Len(txs)
    /\ \A j \in DOMAIN txs : /\ txs'[j].own = txs[j].own /\ txs'[j].fits = txs[j].fits
                             /\ txs[j].status = "FINALIZED" => txs'[j] = txs[j]
                             /\ txs[j].status = "FINALIZED" /\ j \in behind' => j \in behind
    /\ behind' \subseteq DOMAIN txs
    /\ setbacks' \in 0..MaxAppeals

LEMMA BecomeKeeps ==
    ASSUME ConsensusTypeOK, NEW i \in DOMAIN txs, NEW s \in Status, NEW e \in Effect,
           Become(i, s, e), txs[i].status # "FINALIZED", behind' \in {behind, behind \cup {i}},
           setbacks' \in 0..MaxAppeals
    PROVE  ChainKeeps
  <1> DEFINE tx == [txs[i] EXCEPT !.status = s, !.effect = e]
  <1>1. txs \in Seq(Tx) /\ DOMAIN txs = 1..Len(txs) /\ Len(txs) \in Nat
    BY DEF ConsensusTypeOK
  <1>2. txs[i] \in Tx
    BY <1>1
  <1>3. tx \in Tx /\ tx.own = txs[i].own /\ tx.fits = txs[i].fits
    BY <1>2 DEF Tx
  <1>4. txs' = [txs EXCEPT ![i] = tx]
    BY <1>1, <1>2 DEF Become, Tx
  <1> HIDE DEF tx
  <1>5. txs' \in Seq(Tx) /\ Len(txs') = Len(txs)
    BY <1>1, <1>3, <1>4
  <1>6. \A j \in DOMAIN txs : txs'[j] = IF j = i THEN tx ELSE txs[j]
    BY <1>1, <1>4
  <1>7. /\ \A j \in DOMAIN txs : txs[j].status = "FINALIZED" /\ j \in behind' => j \in behind
        /\ behind' \subseteq DOMAIN txs
    BY DEF ConsensusTypeOK
  <1> QED BY <1>3, <1>5, <1>6, <1>7 DEF ChainKeeps

LEMMA ChainStep == ASSUME ConsensusTypeOK, Chain PROVE ChainKeeps
  <1>1. /\ UNDECIDED \subseteq Status /\ APPEAL \in Status
        /\ {"ACCEPTED", "UNDETERMINED", "FINALIZED", "CANCELED", "PENDING", "UNKNOWN_14"} \subseteq Status
        /\ "FINALIZED" \notin UNDECIDED /\ APPEAL # "FINALIZED"
    BY DEF Status, UNDECIDED, DECIDED, APPEAL
  <1>2. Outcomes \subseteq Effect /\ NOT_RUN \in Effect
    BY DEF Outcomes, Effect
  <1>3. PICK i \in DOMAIN txs :
          Decide(i) \/ Wander(i) \/ Setback(i) \/ AppealEnds(i) \/ Finalize(i) \/ CatchUp(i)
    BY DEF Chain
  <1>4. txs[i].effect \in Effect
    <2>1. txs[i] \in Tx
      BY DEF ConsensusTypeOK
    <2> QED BY <2>1 DEF Tx
  <1>5. setbacks' \in 0..MaxAppeals
    <2>1. UNCHANGED setbacks \/ (setbacks < MaxAppeals /\ setbacks' = setbacks + 1)
      BY <1>3 DEF Decide, Wander, Setback, AppealEnds, Finalize, CatchUp
    <2> QED BY <2>1, ConsensusAssumption DEF ConsensusTypeOK
  <1>6. CASE Decide(i)
    <2>1. \E s \in Status, e \in Effect : Become(i, s, e)
      BY <1>1, <1>2, <1>6 DEF Decide
    <2>2. txs[i].status # "FINALIZED"
      BY <1>1, <1>6 DEF Decide
    <2>3. behind' = behind
      BY <1>6 DEF Decide
    <2> QED BY <1>5, <2>1, <2>2, <2>3, BecomeKeeps
  <1>7. CASE Wander(i)
    <2>1. \E s \in Status, e \in Effect : Become(i, s, e)
      BY <1>1, <1>2, <1>7 DEF Wander
    <2>2. txs[i].status # "FINALIZED"
      BY <1>1, <1>7 DEF Wander
    <2>3. behind' = behind
      BY <1>7 DEF Wander
    <2> QED BY <1>5, <2>1, <2>2, <2>3, BecomeKeeps
  <1>8. CASE Setback(i)
    <2>1. \E s \in Status, e \in Effect : Become(i, s, e)
      BY <1>1, <1>2, <1>4, <1>8 DEF Setback
    <2>2. txs[i].status # "FINALIZED"
      BY <1>8 DEF Setback
    <2>3. behind' = behind
      BY <1>8 DEF Setback
    <2> QED BY <1>5, <2>1, <2>2, <2>3, BecomeKeeps
  <1>9. CASE AppealEnds(i)
    <2>1. \E s \in Status, e \in Effect : Become(i, s, e)
      BY <1>1, <1>2, <1>4, <1>9 DEF AppealEnds
    <2>2. txs[i].status # "FINALIZED"
      BY <1>1, <1>9 DEF AppealEnds
    <2>3. behind' = behind
      BY <1>9 DEF AppealEnds
    <2> QED BY <1>5, <2>1, <2>2, <2>3, BecomeKeeps
  <1>10. CASE Finalize(i)
    <2>1. \E s \in Status, e \in Effect : Become(i, s, e)
      BY <1>1, <1>4, <1>10 DEF Finalize
    <2>2. txs[i].status # "FINALIZED"
      BY <1>10 DEF Finalize
    <2>3. behind' \in {behind, behind \cup {i}}
      BY <1>10 DEF Finalize
    <2> QED BY <1>5, <2>1, <2>2, <2>3, BecomeKeeps
  <1>11. CASE CatchUp(i)
    <2>1. txs' = txs /\ behind' \subseteq behind
      BY <1>11 DEF CatchUp
    <2> QED BY <1>5, <2>1 DEF ChainKeeps, ConsensusTypeOK
  <1> QED BY <1>3, <1>6, <1>7, <1>8, <1>9, <1>10, <1>11

\* A transaction that is created is the last one, and the run's own.
LEMMA CreateKeeps ==
    ASSUME ConsensusTypeOK, txs' = Append(txs, New)
    PROVE  /\ txs' \in Seq(Tx) /\ Len(txs') = Len(txs) + 1 /\ Len(txs) \in Nat
           /\ DOMAIN txs' = 1..Len(txs) + 1 /\ DOMAIN txs = 1..Len(txs)
           /\ DOMAIN txs' = DOMAIN txs \cup {Len(txs) + 1}
           /\ \A j \in DOMAIN txs : txs'[j] = txs[j]
           /\ txs'[Len(txs) + 1] = New
           /\ Own' = Own \cup {Len(txs) + 1}
  <1>1. New \in Tx
    BY DEF New, Tx, Status, UNDECIDED, Effect
  <1>2. txs \in Seq(Tx)
    BY DEF ConsensusTypeOK
  <1> HIDE DEF Tx
  <1>3. /\ Append(txs, New) \in Seq(Tx) /\ Len(Append(txs, New)) = Len(txs) + 1 /\ Len(txs) \in Nat
        /\ \A j \in 1..Len(txs) : Append(txs, New)[j] = txs[j]
        /\ Append(txs, New)[Len(txs) + 1] = New
    BY <1>1, <1>2
  <1>4. DOMAIN txs = 1..Len(txs) /\ DOMAIN txs' = 1..Len(txs) + 1
    BY <1>2, <1>3
  <1>5. 1..Len(txs) + 1 = (1..Len(txs)) \cup {Len(txs) + 1}
    BY <1>3
  <1>6. New.own = TRUE
    BY DEF New
  <1>7. Own' = {i \in DOMAIN txs' : txs'[i].own}
    BY DEF Own
  <1>8. Own' = Own \cup {Len(txs) + 1}
    BY <1>3, <1>4, <1>5, <1>6, <1>7 DEF Own
  <1> QED BY <1>3, <1>4, <1>5, <1>8

-----------------------------------------------------------------------------
(* Type correctness.                                                         *)

\* A transaction is followed once there is one.
TypeInv == TypeOK /\ (pc \in Following => watched \in DOMAIN txs)

LEMMA LastRefusalType ==
    ASSUME ConsensusTypeOK, NEW at
    PROVE  /\ last_refusal(at) \in Reasons \cup {NO_REASON}
           /\ LET S == {i \in Shown(at) : txs[i].effect \in Reasons}
              IN  S # {} => /\ Max(S) \in S /\ \A i \in S : i <= Max(S)
                            /\ last_refusal(at) = txs[Max(S)].effect
  <1> DEFINE S == {i \in Shown(at) : txs[i].effect \in Reasons}
  <1>1. S \in SUBSET (1..Len(txs)) /\ Len(txs) \in Nat
    BY DEF Shown, Finals, ConsensusTypeOK
  <1>2. last_refusal(at) = IF S = {} THEN NO_REASON ELSE txs[Max(S)].effect
    BY DEF last_refusal
  <1>3. \A i \in S : txs[i].effect \in Reasons
    OBVIOUS
  <1> HIDE DEF S
  <1>4. S # {} => Max(S) \in S /\ \A i \in S : i <= Max(S)
    BY <1>1, Greatest
  <1>5. last_refusal(at) \in Reasons \cup {NO_REASON}
    BY <1>2, <1>3, <1>4
  <1> QED BY <1>2, <1>4, <1>5 DEF S

LEMMA StoredType ==
    ASSUME ConsensusTypeOK, watched \in DOMAIN txs
    PROVE  Stored \in [status : Status, effect : Effect] /\ status \in Status
  <1>1. txs[watched] \in Tx
    BY DEF ConsensusTypeOK
  <1> QED BY <1>1 DEF Tx, Stored, status

\* What WaitTypeOK says of the variables a wait moves.
WaitingTypeOK ==
    /\ phase \in {"idle", "receipt", "recheck", "decide_within", "decide",
                  "finalize", "store", "done", "raised"}
    /\ resumed \in 1..WAIT_ATTEMPTS
    /\ polls \in 0..DecisionPolls \cup 0..FinalPolls
    /\ receipt \in DECIDED \cup {"none", ERROR}
    /\ state \in [status : Status, effect : Effect]

LEMMA WaitStepTypes ==
    ASSUME ConsensusTypeOK, WaitingTypeOK, watched \in DOMAIN txs, WaitStep
    PROVE  WaitingTypeOK' /\ UNCHANGED <<watched, until>>
  <1>1. 0 \in 0..DecisionPolls \cup 0..FinalPolls
    BY WaitAssumption
  <1>2. \A answer \in DECIDED \cup {ERROR} : Decided(answer) =>
          /\ receipt' \in DECIDED \cup {ERROR} /\ phase' \in {"finalize", "store"}
          /\ polls' \in 0..DecisionPolls \cup 0..FinalPolls
    BY <1>1 DEF Decided
  <1>3. Resume => /\ resumed' \in 1..WAIT_ATTEMPTS /\ phase' = "receipt" /\ UNCHANGED receipt
                  /\ polls' \in 0..DecisionPolls \cup 0..FinalPolls
    BY <1>1, WaitAssumption DEF Resume, WaitingTypeOK
  <1>4. \A statuses, budget : budget \in {DecisionPolls, FinalPolls} /\ Poll(statuses, budget) =>
          polls' \in 0..DecisionPolls \cup 0..FinalPolls /\ UNCHANGED phase
    BY WaitAssumption DEF Poll, WaitingTypeOK
  <1>5. CASE WaitReceipt
    <2>1. UNCHANGED <<watched, until, state>>
      BY <1>5 DEF WaitReceipt
    <2>2. CASE \E shown \in (View(watched) \cap DECIDED) \ {"CANCELED"} : Decided(shown) /\ UNCHANGED resumed
      BY <1>2, <2>1, <2>2 DEF WaitingTypeOK
    <2>3. CASE phase' = "recheck" /\ UNCHANGED <<polls, receipt, resumed>>
      BY <2>1, <2>3 DEF WaitingTypeOK
    <2>4. CASE ToStored
      BY <1>1, <2>1, <2>4 DEF ToStored, WaitingTypeOK
    <2>5. CASE Resume
      BY <1>3, <2>1, <2>5 DEF WaitingTypeOK
    <2>6. CASE phase' = "raised" /\ UNCHANGED <<polls, receipt, resumed>>
      BY <2>1, <2>6 DEF WaitingTypeOK
    <2> QED BY <1>5, <2>1, <2>2, <2>3, <2>4, <2>5, <2>6 DEF WaitReceipt
  <1>6. CASE Recheck
    <2>1. UNCHANGED <<watched, until, state>>
      BY <1>6 DEF Recheck
    <2>2. CASE Decided("CANCELED") /\ UNCHANGED resumed
      BY <1>2, <2>1, <2>2 DEF WaitingTypeOK, DECIDED
    <2>3. CASE phase' \in {"decide_within", "raised"} /\ UNCHANGED <<polls, receipt, resumed>>
      BY <2>1, <2>3 DEF WaitingTypeOK
    <2>4. CASE Resume
      BY <1>3, <2>1, <2>4 DEF WaitingTypeOK
    <2> QED BY <1>6, <2>1, <2>2, <2>3, <2>4 DEF Recheck
  <1>7. CASE DecideStored
    <2>1. UNCHANGED <<watched, until, state>>
      BY <1>7 DEF DecideStored
    <2>2. CASE (Decided(ERROR) \/ (status \in DECIDED /\ Decided(status))) /\ UNCHANGED resumed
      BY <1>2, <2>1, <2>2 DEF WaitingTypeOK
    <2>3. CASE Poll(DECIDED, DecisionPolls) /\ UNCHANGED <<receipt, resumed>>
      BY <1>4, <2>1, <2>3 DEF WaitingTypeOK
    <2>4. CASE Resume
      BY <1>3, <2>1, <2>4 DEF WaitingTypeOK
    <2>5. CASE phase' = "raised" /\ UNCHANGED <<polls, receipt, resumed>>
      BY <2>1, <2>5 DEF WaitingTypeOK
    <2> QED BY <1>7, <2>1, <2>2, <2>3, <2>4, <2>5 DEF DecideStored
  <1>8. CASE AwaitFinal
    <2>1. UNCHANGED <<watched, until, resumed, receipt>>
      BY <1>8 DEF AwaitFinal
    <2>2. CASE Poll(FINAL, FinalPolls) /\ UNCHANGED state
      BY <1>4, <2>1, <2>2 DEF WaitingTypeOK
    <2>3. CASE state' = Stored /\ phase' = "done" /\ UNCHANGED polls
      BY <2>1, <2>3, StoredType DEF WaitingTypeOK
    <2>4. CASE phase' = "raised" /\ UNCHANGED <<polls, state>>
      BY <2>1, <2>4 DEF WaitingTypeOK
    <2> QED BY <1>8, <2>1, <2>2, <2>3, <2>4 DEF AwaitFinal
  <1>9. CASE Store
    <2>1. \/ state' = Stored /\ phase' = "done"
          \/ phase' = "raised" /\ UNCHANGED state
      BY <1>9 DEF Store
    <2>2. UNCHANGED <<watched, until, resumed, polls, receipt>>
      BY <1>9 DEF Store
    <2> QED BY <2>1, <2>2, StoredType DEF WaitingTypeOK
  <1> QED BY <1>5, <1>6, <1>7, <1>8, <1>9 DEF WaitStep

LEMMA ShownInDomain == \A at : records_of(at) \subseteq DOMAIN txs
  BY DEF records_of, Shown, Finals

\* The verdicts there are.
LEMMA Verdicts == judge \in {"recorded", "refused", "stop", "again"}
  <1>1. \A reason : Read(reason) \in {"recorded", "refused", "stop", "again"}
    BY DEF Read
  <1> QED BY <1>1 DEF judge

LEMMA ClientTypes == ASSUME TypeInv, Client PROVE TypeInv'
  <1> USE DEF TypeInv
  <1>1. TypeOK /\ ConsensusTypeOK /\ WaitTypeOK /\ WaitingTypeOK
    BY DEF TypeOK, WaitTypeOK, WaitingTypeOK
  <1>2. EXIT_RECORDED \in 0..4 /\ EXIT_ERROR \in 0..4 /\ EXIT_REFUSED \in 0..4
        /\ EXIT_NOT_EXECUTED \in 0..4 /\ EXIT_STOPPED \in 0..4
    BY DEF EXIT_RECORDED, EXIT_ERROR, EXIT_REFUSED, EXIT_NOT_EXECUTED, EXIT_STOPPED
  <1>3. CASE Preflight
    <2>1. pc' \in {"start", "done"} /\ exit' \in {NONE} \cup 0..4
      BY <1>1, <1>2, <1>3 DEF Preflight, Exit, TypeOK
    <2> QED BY <1>1, <1>3, <2>1
            DEF Preflight, TypeOK, ConsensusTypeOK, WaitTypeOK, chainVars, waitVars, readVars, Following
  <1>4. CASE Start
    <2>1. pc' \in {"send", "done"} /\ exit' \in {NONE} \cup 0..4
      BY <1>1, <1>2, <1>4 DEF Start, Exit, TypeOK
    <2>2. ids' \subseteq DOMAIN txs
      BY <1>1, <1>4, ShownInDomain DEF Start, TypeOK
    <2>3. last' \in Reasons \cup {NO_REASON}
      BY <1>1, <1>4, LastRefusalType DEF Start, TypeOK
    <2>4. attempt' \in 0..Attempts
      <3>1. attempt' = 1 \/ attempt' = attempt
        BY <1>4 DEF Start
      <3>2. attempt \in 0..Attempts
        BY <1>1 DEF TypeOK
      <3> QED BY <3>1, <3>2, AttestAssumption
    <2>5. settled' \in BOOLEAN
      BY <1>1, <1>4 DEF Start, TypeOK
    <2> QED BY <1>1, <1>4, <2>1, <2>2, <2>3, <2>4, <2>5
            DEF Start, TypeOK, ConsensusTypeOK, WaitTypeOK, chainVars, waitVars, Following
  <1>5. CASE Send
    <2>1. CASE txs' = Append(txs, New) /\ BeginWait(Len(txs')) /\ pc' = "waiting"
                 /\ UNCHANGED <<setbacks, behind, exit, astray>>
      <3>1. /\ txs' \in Seq(Tx) /\ Len(txs') = Len(txs) + 1 /\ Len(txs) \in Nat
            /\ DOMAIN txs' = DOMAIN txs \cup {Len(txs) + 1}
        BY <1>1, <2>1, CreateKeeps
      <3>2. /\ watched' = Len(txs) + 1 /\ phase' = "receipt" /\ resumed' = 1 /\ polls' = 0
            /\ receipt' = "none" /\ state' = UNREAD /\ until' = until
        BY <2>1, <3>1 DEF BeginWait
      <3>3. WaitTypeOK'
        <4>1. UNREAD \in [status : Status, effect : Effect]
          BY DEF UNREAD, Status, UNDECIDED, Effect
        <4>2. watched' \in 0..Len(txs')
          BY <3>1, <3>2
        <4> QED BY <1>1, <3>2, <4>1, <4>2, WaitAssumption DEF WaitTypeOK
      <3>4. watched' \in DOMAIN txs'
        BY <3>1, <3>2
      <3>5. UNCHANGED <<readVars, attempt, found>>
        BY <1>5 DEF Send
      <3> QED BY <1>1, <2>1, <3>1, <3>3, <3>4, <3>5 DEF TypeOK, ConsensusTypeOK, readVars
    <2>2. CASE /\ \/ Exit(IF attempt = 1 THEN EXIT_ERROR ELSE EXIT_STOPPED)
                  \/ Exit(EXIT_STOPPED) \/ Exit(EXIT_ERROR)
               /\ astray' \in BOOLEAN /\ UNCHANGED <<chainVars, waitVars>>
      <3>1. pc' = "done" /\ exit' \in {NONE} \cup 0..4
        BY <1>2, <2>2 DEF Exit
      <3>2. UNCHANGED <<readVars, attempt, found>>
        BY <1>5 DEF Send
      <3> QED BY <1>1, <2>2, <3>1, <3>2
              DEF TypeOK, ConsensusTypeOK, WaitTypeOK, chainVars, waitVars, readVars, Following
    <2> QED BY <1>5, <2>1, <2>2 DEF Send
  <1>6. CASE WaitStepOfAttempt
    <2>1. WaitingTypeOK' /\ UNCHANGED <<watched, until>>
      BY <1>1, <1>6, WaitStepTypes DEF WaitStepOfAttempt, Following
    <2>2. UNCHANGED <<chainVars, readVars, pc, attempt, astray, found, exit>>
      BY <1>6 DEF WaitStepOfAttempt
    <2>3. WaitTypeOK'
      BY <1>1, <2>1, <2>2 DEF WaitTypeOK, WaitingTypeOK, chainVars
    <2> QED BY <1>1, <2>1, <2>2, <2>3 DEF TypeOK, ConsensusTypeOK, chainVars, readVars
  <1>7. CASE WaitEnded
    <2>1. pc' \in {"done", "read", "judge"} /\ exit' \in {NONE} \cup 0..4
      BY <1>1, <1>2, <1>7 DEF WaitEnded, Exit, TypeOK
    <2> QED BY <1>1, <1>7, <2>1
            DEF WaitEnded, TypeOK, ConsensusTypeOK, WaitTypeOK, chainVars, waitVars, readVars, Following
  <1>8. CASE ReadRecords
    <2>1. pc' \in {"done", "judge"} /\ exit' \in {NONE} \cup 0..4
      BY <1>1, <1>2, <1>8 DEF ReadRecords, Exit, TypeOK
    <2>2. found' \subseteq DOMAIN txs
      BY <1>1, <1>8, ShownInDomain DEF ReadRecords, TypeOK
    <2>3. missed' \subseteq DOMAIN txs
      BY <1>1, <1>8 DEF ReadRecords, TypeOK, Finals
    <2> QED BY <1>1, <1>8, <2>1, <2>2, <2>3
            DEF ReadRecords, TypeOK, ConsensusTypeOK, WaitTypeOK, chainVars, waitVars, readVars, Following
  <1>9. CASE Judge
    <2>1. /\ pc' \in {"done", "send"} /\ exit' \in {NONE} \cup 0..4 /\ attempt' \in 0..Attempts
      <3>1. attempt \in 0..Attempts /\ exit \in {NONE} \cup 0..4
        BY <1>1 DEF TypeOK
      <3>2. \A code \in 0..4 : Exit(code) => pc' = "done" /\ exit' \in {NONE} \cup 0..4
        BY DEF Exit
      <3>3. CASE NextAttempt
        <4>1. CASE attempt < Attempts
          <5>1. attempt' = attempt + 1 /\ pc' = "send" /\ exit' = exit
            BY <3>3, <4>1 DEF NextAttempt
          <5> QED BY <3>1, <4>1, <5>1, AttestAssumption
        <4>2. CASE ~(attempt < Attempts)
          BY <1>2, <3>1, <3>2, <3>3, <4>2 DEF NextAttempt
        <4> QED BY <4>1, <4>2
      <3>4. CASE \E code \in 0..4 : Exit(code) /\ UNCHANGED attempt
        BY <3>1, <3>2, <3>4
      <3> QED BY <1>2, <1>9, <3>3, <3>4, Verdicts DEF Judge
    <2> QED BY <1>1, <1>9, <2>1
            DEF Judge, TypeOK, ConsensusTypeOK, WaitTypeOK, chainVars, waitVars, readVars, Following
  <1> QED BY <1>3, <1>4, <1>5, <1>6, <1>7, <1>8, <1>9 DEF Client

LEMMA BesideTypes == ASSUME TypeInv, Beside PROVE TypeInv'
  <1>1. TypeOK /\ ConsensusTypeOK /\ WaitTypeOK
    BY DEF TypeInv, TypeOK
  <1>2. CASE ComeAfterAll
    <2>1. /\ txs' \in Seq(Tx) /\ Len(txs') = Len(txs) + 1 /\ Len(txs) \in Nat
          /\ DOMAIN txs' = DOMAIN txs \cup {Len(txs) + 1}
      BY <1>1, <1>2, CreateKeeps DEF ComeAfterAll
    <2>2. watched' \in 0..Len(txs')
      BY <1>1, <1>2, <2>1 DEF ComeAfterAll, WaitTypeOK, waitVars
    <2>3. UNCHANGED <<setbacks, behind, waitVars, readVars, pc, attempt, found, exit>> /\ astray' \in BOOLEAN
      BY <1>2 DEF ComeAfterAll
    <2>4. ConsensusTypeOK' /\ WaitTypeOK'
      BY <1>1, <2>1, <2>2, <2>3 DEF ConsensusTypeOK, WaitTypeOK, waitVars
    <2>5. pc' \in Following => watched' \in DOMAIN txs'
      BY <2>1, <2>3 DEF TypeInv, waitVars
    <2> QED BY <1>1, <2>1, <2>3, <2>4, <2>5 DEF TypeInv, TypeOK, readVars
  <1>3. CASE Chain /\ UNCHANGED <<waitVars, readVars, pc, attempt, astray, found, exit>>
    <2>1. ChainKeeps
      BY <1>1, <1>3, ChainStep
    <2>2. txs \in Seq(Tx) /\ txs' \in Seq(Tx) /\ Len(txs') = Len(txs)
      BY <1>1, <2>1 DEF ConsensusTypeOK, ChainKeeps
    <2>3. DOMAIN txs' = DOMAIN txs
      BY <2>2
    <2> QED BY <1>1, <1>3, <2>1, <2>2, <2>3
            DEF TypeInv, TypeOK, ConsensusTypeOK, WaitTypeOK, waitVars, readVars, ChainKeeps
  <1> QED BY <1>2, <1>3 DEF Beside

LEMMA InitTypes == Init => TypeInv
  <1> SUFFICES ASSUME Init PROVE TypeInv
    OBVIOUS
  <1>1. PICK n \in 0..Earlier : txs \in [1..n -> EarlierTx]
    BY DEF Init
  <1>2. n \in Nat
    BY AttestAssumption
  <1>3. EarlierTx \subseteq Tx
    BY DEF EarlierTx, Tx, Status, DECIDED, Effect
  <1>4. txs \in Seq(Tx) /\ Len(txs) \in Nat
    <2> HIDE DEF Tx, EarlierTx
    <2> QED BY <1>1, <1>2, <1>3
  <1>5. ConsensusTypeOK
    BY <1>4, ConsensusAssumption DEF Init, ConsensusTypeOK, Finals
  <1>6. WaitTypeOK
    <2>1. UNREAD \in [status : Status, effect : Effect]
      BY DEF UNREAD, Status, UNDECIDED, Effect
    <2> QED BY <1>4, <2>1, WaitAssumption DEF Init, WaitInit, WaitTypeOK
  <1>7. attempt \in 0..Attempts /\ last \in Reasons \cup {NO_REASON}
    BY AttestAssumption DEF Init
  <1> QED BY <1>5, <1>6, <1>7 DEF Init, TypeInv, TypeOK, Following

LEMMA StepTypes == ASSUME TypeInv, [Next]_vars PROVE TypeInv'
  <1>1. CASE UNCHANGED vars
    BY <1>1 DEF TypeInv, TypeOK, ConsensusTypeOK, WaitTypeOK, vars, chainVars, waitVars, readVars
  <1> QED BY <1>1, ClientTypes, BesideTypes DEF Next

\* The variables of chain, wait and protocol are what their code says they are,
\* and what is followed is a transaction.
THEOREM AttestTypeOK == Spec => []TypeInv
  BY InitTypes, StepTypes, PTL DEF Spec

-----------------------------------------------------------------------------
(* The invariant is kept by what goes on beside the client.                  *)

LEMMA OwnIn == Own \subseteq DOMAIN txs /\ Before \subseteq DOMAIN txs
  BY DEF Own, Before

LEMMA ChainInv ==
    ASSUME TypeInv, RunInv, Chain,
           UNCHANGED <<waitVars, readVars, pc, attempt, astray, found, exit>>
    PROVE  RunInv'
  <1>1. ChainKeeps
    BY ChainStep DEF TypeInv, TypeOK
  <1>2. DOMAIN txs' = DOMAIN txs
    BY <1>1 DEF ChainKeeps, TypeInv, TypeOK, ConsensusTypeOK
  <1>3. /\ \A j \in DOMAIN txs : txs'[j].own = txs[j].own /\ txs'[j].fits = txs[j].fits
        /\ \A j \in DOMAIN txs : txs[j].status = "FINALIZED" => txs'[j] = txs[j]
    BY <1>1 DEF ChainKeeps
  <1>4. Own' = Own
    BY <1>2, <1>3 DEF Own
  <1>5. Before' = Before
    BY <1>2, <1>4 DEF Before
  <1>6. \A i \in Own : Spent(i) => Spent(i)'
    BY <1>3, OwnIn DEF Spent, Wrote, readVars
  <1>7. Running' /\ NothingYet' /\ StrayAtEnd' /\ FoundAtJudge'
    BY <1>4 DEF RunInv, Running, NothingYet, StrayAtEnd, FoundAtJudge
  <1>8. Quiet' /\ OthersSpent'
    BY <1>4, <1>6 DEF RunInv, Quiet, OthersSpent
  <1>9. Follows'
    BY <1>4 DEF RunInv, Follows, waitVars
  <1>10. Stands'
    <2>1. watched' = watched /\ state' = state /\ pc' = pc
      BY DEF waitVars
    <2>2. pc \in Following => watched \in DOMAIN txs
      BY DEF TypeInv
    <2> QED BY <1>3, <2>1, <2>2 DEF RunInv, Stands
  <1>11. OwnIsNew' /\ FoundFits'
    BY <1>2, <1>3, <1>4, OwnIn DEF RunInv, OwnIsNew, FoundFits, readVars
  <1>12. FoundStands'
    <2>1. \A i \in found : i \in DOMAIN txs
      BY DEF RunInv, FoundFits
    <2>2. state' = state /\ watched' = watched /\ missed' = missed
      BY DEF waitVars, readVars
    <2> QED BY <1>3, <2>1, <2>2 DEF RunInv, FoundStands
  <1>13. MissedAtJudge' /\ ReportStands'
    <2>1. until' = until /\ ids' = ids /\ missed' = missed /\ watched' = watched /\ state' = state
      BY DEF waitVars, readVars
    <2>2. pc \in Following /\ state.status = "FINALIZED" => watched \in DOMAIN txs /\ txs[watched].status = "FINALIZED"
      BY DEF TypeInv, RunInv, Stands
    <2>3. MissedAtJudge'
      BY <1>1, <2>1, <2>2 DEF ChainKeeps, RunInv, MissedAtJudge, Following
    <2> QED BY <1>2, <1>3, <2>1, <2>3 DEF RunInv, ReportStands
  <1>14. LastStands'
    <2>1. CASE pc \in Following \cup {"send"} /\ settled
      <3>1. /\ \A i \in Before : txs[i].status = "FINALIZED" /\ i \notin behind
            /\ last = IF RefusedBefore = {} THEN NO_REASON ELSE txs[Max(RefusedBefore)].effect
        BY <2>1 DEF RunInv, LastStands
      <3>2. \A i \in Before : txs'[i] = txs[i] /\ i \notin behind'
        BY <1>1, <1>3, <3>1, OwnIn DEF ChainKeeps
      <3>3. RefusedBefore' = RefusedBefore
        BY <1>5, <3>2 DEF RefusedBefore
      <3>4. RefusedBefore # {} => txs'[Max(RefusedBefore)] = txs[Max(RefusedBefore)]
        <4>1. RefusedBefore \in SUBSET (1..Len(txs)) /\ Len(txs) \in Nat
          BY OwnIn DEF RefusedBefore, TypeInv, TypeOK, ConsensusTypeOK
        <4>2. RefusedBefore # {} => Max(RefusedBefore) \in RefusedBefore
          BY <4>1, Greatest
        <4> QED BY <3>2, <4>2 DEF RefusedBefore
      <3> QED BY <1>5, <3>1, <3>2, <3>3, <3>4 DEF LastStands, readVars
    <2>2. CASE ~(pc \in Following \cup {"send"} /\ settled)
      BY <2>2 DEF LastStands, readVars
    <2> QED BY <2>1, <2>2
  <1> QED BY <1>7, <1>8, <1>9, <1>10, <1>11, <1>12, <1>13, <1>14 DEF RunInv

\* The transaction of a send that gave up comes after the end, when everything
\* before it is spent.
LEMMA ComeAfterAllInv == ASSUME TypeInv, RunInv, ComeAfterAll PROVE RunInv'
  <1> DEFINE n == Len(txs) + 1
  <1>1. /\ DOMAIN txs' = DOMAIN txs \cup {n} /\ \A j \in DOMAIN txs : txs'[j] = txs[j] /\ j < n
        /\ txs'[n] = New /\ Own' = Own \cup {n} /\ n \notin DOMAIN txs
    <2>1. ConsensusTypeOK /\ txs' = Append(txs, New)
      BY DEF TypeInv, TypeOK, ComeAfterAll
    <2> QED BY <2>1, CreateKeeps
  <1> HIDE DEF n
  <1>2. /\ UNCHANGED <<behind, waitVars, readVars, pc, attempt, found, exit>> /\ astray' = FALSE
        /\ astray
    BY DEF ComeAfterAll
  <1>3. pc = "done"
    BY <1>2 DEF RunInv, StrayAtEnd
  <1>4. \A i \in Own : Spent(i) /\ i < n
    BY <1>1, <1>2, OwnIn DEF RunInv, Quiet
  <1>5. \A i \in Own : Spent(i)'
    BY <1>1, <1>2, <1>4, OwnIn DEF Spent, Wrote, readVars
  <1>6. OthersSpent'
    <2>1. ASSUME NEW i \in Own', NEW j \in Own', i < j PROVE Spent(i)'
      <3>1. i # n
        <4>1. n \in Nat
          BY DEF TypeInv, TypeOK, ConsensusTypeOK, n
        <4>2. j \in Nat /\ j <= n
          BY <1>1, <4>1, OwnIn DEF TypeInv, TypeOK, ConsensusTypeOK, n
        <4> QED BY <2>1, <4>1, <4>2
      <3> QED BY <1>1, <1>5, <3>1
    <2> QED BY <2>1 DEF OthersSpent
  <1>7. /\ Running' /\ NothingYet' /\ StrayAtEnd' /\ Quiet' /\ Follows' /\ Stands'
        /\ FoundAtJudge' /\ FoundStands' /\ MissedAtJudge'
    BY <1>2, <1>3 DEF RunInv, Running, NothingYet, StrayAtEnd, Quiet, Follows, Stands, FoundAtJudge, FoundStands,
                      MissedAtJudge, Starting, Following
  <1>8. OwnIsNew'
    <2>1. New.fits
      BY DEF New
    <2> QED BY <1>1, <1>2, <2>1, OwnIn DEF RunInv, OwnIsNew, readVars
  <1>9. FoundFits'
    BY <1>2, <1>3 DEF RunInv, FoundFits, FoundAtJudge
  <1>10. ReportStands'
    <2>1. until' = until /\ ids' = ids
      BY <1>2 DEF waitVars, readVars
    <2> QED BY <1>1, <1>2, <2>1 DEF RunInv, ReportStands
  <1>11. LastStands'
    BY <1>2, <1>3 DEF LastStands, Following
  <1> QED BY <1>6, <1>7, <1>8, <1>9, <1>10, <1>11 DEF RunInv

-----------------------------------------------------------------------------
(* The invariant is kept by the client.                                      *)

LEMMA PreflightInv == ASSUME TypeInv, RunInv, Preflight PROVE RunInv'
  <1>1. /\ UNCHANGED <<txs, behind, watched, until, state, ids, last, settled, missed, astray, found>>
        /\ pc = "preflight" /\ pc' \in {"start", "done"} /\ (pc' = "start" => exit' = exit)
        /\ exit' # EXIT_RECORDED \/ exit' = exit
    BY DEF Preflight, Exit, chainVars, waitVars, readVars, EXIT_ERROR, EXIT_REFUSED, EXIT_RECORDED
  <1>2. Own' = Own /\ ~astray
    BY <1>1 DEF Own, RunInv, StrayAtEnd
  <1>3. Running' /\ NothingYet' /\ StrayAtEnd' /\ Quiet' /\ Follows' /\ OthersSpent' /\ Stands'
    BY <1>1, <1>2
       DEF RunInv, Running, NothingYet, StrayAtEnd, Quiet, Follows, OthersSpent, Stands, Starting, Following, Spent, Wrote
  <1>4. OwnIsNew' /\ FoundAtJudge' /\ FoundFits' /\ FoundStands' /\ MissedAtJudge' /\ ReportStands'
    BY <1>1, <1>2 DEF RunInv, OwnIsNew, FoundAtJudge, FoundFits, FoundStands, MissedAtJudge, ReportStands
  <1>5. LastStands'
    BY <1>1 DEF LastStands, Following
  <1> QED BY <1>3, <1>4, <1>5 DEF RunInv

LEMMA StartInv == ASSUME TypeInv, RunInv, Start PROVE RunInv'
  <1>1. /\ UNCHANGED <<txs, behind, watched, until, state, missed, astray, found>>
        /\ pc = "start" /\ pc' \in {"send", "done"} /\ (pc' = "send" => exit' = exit)
        /\ exit' # EXIT_RECORDED \/ exit' = exit
    <2>1. pc = "start" /\ UNCHANGED <<txs, behind, watched, until, state, missed, astray, found>>
      BY DEF Start, chainVars, waitVars
    <2>2. (pc' = "send" /\ exit' = exit) \/ Exit(EXIT_ERROR)
      BY DEF Start
    <2> QED BY <2>1, <2>2 DEF Exit, EXIT_ERROR, EXIT_RECORDED
  <1>2. Own = {} /\ ~astray /\ found = {}
    BY <1>1 DEF RunInv, NothingYet, StrayAtEnd, FoundAtJudge, Starting
  <1>3. Own' = {}
    BY <1>1, <1>2 DEF Own
  <1>4. exit = NONE /\ exit # EXIT_RECORDED
    BY <1>1 DEF RunInv, Running, NONE, EXIT_RECORDED
  <1>5. Running' /\ NothingYet' /\ StrayAtEnd' /\ Quiet' /\ Follows' /\ OthersSpent' /\ Stands'
    BY <1>1, <1>2, <1>3, <1>4
       DEF RunInv, Running, NothingYet, StrayAtEnd, Quiet, Follows, OthersSpent, Stands, Starting, Following
  <1>6. FoundAtJudge' /\ FoundFits' /\ FoundStands' /\ MissedAtJudge'
    BY <1>1, <1>2 DEF FoundAtJudge, FoundFits, FoundStands, MissedAtJudge
  <1>7. OwnIsNew'
    <2>1. ids' \subseteq DOMAIN txs
      BY <1>1, ShownInDomain DEF Start, RunInv, OwnIsNew
    <2> QED BY <1>1, <1>3, <2>1 DEF OwnIsNew
  <1>8. ReportStands'
    BY <1>1, <1>4 DEF ReportStands
  <1>9. LastStands'
    <2>1. CASE pc' = "send"
      <3>1. /\ last' = last_refusal("LATEST_FINAL")
            /\ settled' = (Finals = DOMAIN txs /\ behind = {})
        BY <2>1 DEF Start, Exit
      <3>2. Before = DOMAIN txs /\ Before' = Before /\ RefusedBefore' = RefusedBefore
        BY <1>1, <1>2, <1>3 DEF Before, RefusedBefore
      <3>3. ASSUME Finals = DOMAIN txs, behind = {}
            PROVE  last' = IF RefusedBefore = {} THEN NO_REASON ELSE txs[Max(RefusedBefore)].effect
        <4>1. {i \in Shown("LATEST_FINAL") : txs[i].effect \in Reasons} = RefusedBefore
          BY <3>2, <3>3 DEF Shown, RefusedBefore
        <4> QED BY <3>1, <4>1 DEF last_refusal
      <3> QED BY <1>1, <3>1, <3>2, <3>3 DEF LastStands, Finals
    <2>2. CASE pc' = "done"
      BY <2>2 DEF LastStands, Following
    <2> QED BY <1>1, <2>1, <2>2
  <1> QED BY <1>5, <1>6, <1>7, <1>8, <1>9 DEF RunInv

\* A send makes the last transaction, and only when the ones before are spent.
LEMMA SendInv == ASSUME TypeInv, RunInv, Send PROVE RunInv'
  <1>1. /\ pc = "send" /\ ~astray /\ found = {} /\ exit = NONE
        /\ \A i \in Own : Spent(i)
    BY DEF Send, RunInv, Running, StrayAtEnd, FoundAtJudge, Quiet
  <1>2. UNCHANGED <<behind, ids, last, settled, missed, found>>
    BY DEF Send, readVars, chainVars
  <1>3. CASE /\ Len(txs) < MaxTxs /\ txs' = Append(txs, New)
             /\ BeginWait(Len(txs')) /\ pc' = "waiting" /\ UNCHANGED <<setbacks, behind, exit, astray>>
    <2> DEFINE n == Len(txs) + 1
    <2>1. /\ DOMAIN txs' = DOMAIN txs \cup {n} /\ \A j \in DOMAIN txs : txs'[j] = txs[j] /\ j < n
          /\ txs'[n] = New /\ Own' = Own \cup {n} /\ n \notin DOMAIN txs
          /\ Len(txs') = n /\ n \in Nat /\ DOMAIN txs \subseteq Nat
      <3>1. ConsensusTypeOK
        BY DEF TypeInv, TypeOK
      <3> QED BY <1>3, <3>1, CreateKeeps
    <2> HIDE DEF n
    <2>2. watched' = n /\ state' = UNREAD /\ until' = until
      BY <1>3, <2>1 DEF BeginWait
    <2>3. \A i \in Own : Spent(i)' /\ i < n /\ i # n
      BY <1>1, <1>2, <2>1, OwnIn DEF Spent, Wrote
    <2>4. /\ Running' /\ NothingYet' /\ StrayAtEnd' /\ Quiet' /\ FoundAtJudge' /\ FoundStands'
          /\ MissedAtJudge' /\ ReportStands'
      BY <1>1, <1>2, <1>3
         DEF Running, NothingYet, StrayAtEnd, Quiet, FoundAtJudge, FoundStands, MissedAtJudge, ReportStands, Starting,
             NONE, EXIT_RECORDED
    <2>5. Follows'
      BY <2>1, <2>2, <2>3 DEF Follows
    <2>6. OthersSpent'
      <3>1. ASSUME NEW i \in Own', NEW j \in Own', i < j PROVE Spent(i)'
        <4>1. j <= n /\ j \in Nat /\ i \in Nat
          BY <2>1, OwnIn
        <4>2. i # n
          BY <2>1, <3>1, <4>1
        <4> QED BY <2>1, <2>3, <4>2
      <3> QED BY <3>1 DEF OthersSpent
    <2>7. Stands'
      BY <2>2 DEF Stands, UNREAD
    <2>8. OwnIsNew' /\ FoundFits'
      <3>1. New.fits
        BY DEF New
      <3> QED BY <1>1, <1>2, <2>1, <3>1, OwnIn DEF RunInv, OwnIsNew, FoundFits
    <2>9. LastStands'
      <3>1. Before' = Before /\ \A i \in Before : txs'[i] = txs[i]
        BY <2>1, OwnIn DEF Before
      <3>2. RefusedBefore' = RefusedBefore
        BY <3>1 DEF RefusedBefore
      <3>3. RefusedBefore # {} => txs'[Max(RefusedBefore)] = txs[Max(RefusedBefore)]
        <4>1. RefusedBefore \in SUBSET (1..Len(txs)) /\ Len(txs) \in Nat
          BY OwnIn DEF RefusedBefore, TypeInv, TypeOK, ConsensusTypeOK
        <4>2. RefusedBefore # {} => Max(RefusedBefore) \in RefusedBefore
          BY <4>1, Greatest
        <4> QED BY <3>1, <4>2 DEF RefusedBefore
      <3> QED BY <1>1, <1>2, <3>1, <3>2, <3>3 DEF RunInv, LastStands
    <2> QED BY <2>4, <2>5, <2>6, <2>7, <2>8, <2>9 DEF RunInv
  <1>4. CASE /\ \/ Exit(IF attempt = 1 THEN EXIT_ERROR ELSE EXIT_STOPPED)
                \/ Exit(EXIT_STOPPED) \/ Exit(EXIT_ERROR)
             /\ UNCHANGED <<chainVars, waitVars>>
    <2>1. pc' = "done" /\ exit' # EXIT_RECORDED
      BY <1>4 DEF Exit, EXIT_ERROR, EXIT_STOPPED, EXIT_RECORDED
    <2>2. UNCHANGED <<txs, until>> /\ Own' = Own
      BY <1>4 DEF chainVars, waitVars, Own
    <2>3. \A i \in Own' : Spent(i)'
      BY <1>1, <1>2, <2>2 DEF Spent, Wrote
    <2>4. /\ Running' /\ NothingYet' /\ StrayAtEnd' /\ Quiet' /\ Follows' /\ OthersSpent' /\ Stands'
          /\ FoundAtJudge' /\ FoundStands' /\ MissedAtJudge' /\ ReportStands' /\ LastStands'
      BY <1>1, <1>2, <2>1, <2>3
         DEF Running, NothingYet, StrayAtEnd, Quiet, Follows, OthersSpent, Stands, FoundAtJudge,
             FoundStands, MissedAtJudge, ReportStands, LastStands, Starting, Following
    <2>5. OwnIsNew' /\ FoundFits'
      BY <1>1, <1>2, <2>2 DEF RunInv, OwnIsNew, FoundFits
    <2> QED BY <2>4, <2>5 DEF RunInv
  <1> QED BY <1>3, <1>4 DEF Send

\* A step that leaves the chain and the wait, and what was read, as they are.
Rests == UNCHANGED <<txs, behind, watched, until, ids, last, settled, astray>> /\ missed \subseteq missed'

LEMMA RestsInv ==
    ASSUME RunInv, Rests, pc \in Following \cup {"send"}, pc' \in Following \cup {"done"}
    PROVE  NothingYet' /\ OthersSpent' /\ OwnIsNew' /\ LastStands' /\ ~astray' /\ Own' = Own
  <1>1. Own' = Own /\ Before' = Before /\ RefusedBefore' = RefusedBefore
    BY DEF Rests, Own, Before, RefusedBefore
  <1>2. pc # "done" /\ pc' \notin Starting
    BY DEF Following, Starting
  <1>3. NothingYet' /\ OthersSpent' /\ OwnIsNew' /\ ~astray'
    BY <1>1, <1>2 DEF Rests, RunInv, NothingYet, OthersSpent, OwnIsNew, StrayAtEnd, Spent, Wrote
  <1>4. LastStands'
    BY <1>1 DEF Rests, RunInv, LastStands, Following
  <1> QED BY <1>1, <1>3, <1>4

LEMMA WaitInv == ASSUME TypeInv, RunInv, WaitStepOfAttempt PROVE RunInv'
  <1>1. /\ Rests /\ UNCHANGED <<pc, exit, found, missed>> /\ pc = "waiting"
        /\ UNCHANGED state \/ state' = Stored
    BY DEF WaitStepOfAttempt, WaitStep, WaitReceipt, Recheck, DecideStored, AwaitFinal, Store, Rests,
           chainVars, readVars
  <1>2. NothingYet' /\ OthersSpent' /\ OwnIsNew' /\ LastStands' /\ ~astray' /\ Own' = Own
    BY <1>1, RestsInv DEF Following
  <1>3. Stands'
    BY <1>1 DEF RunInv, Stands, Stored, Rests, Following
  <1>4. Running' /\ StrayAtEnd' /\ Quiet' /\ Follows' /\ FoundAtJudge' /\ FoundStands' /\ MissedAtJudge'
    BY <1>1, <1>2 DEF RunInv, Running, StrayAtEnd, Quiet, Follows, FoundAtJudge, FoundStands, MissedAtJudge, Rests
  <1>5. FoundFits' /\ ReportStands'
    BY <1>1 DEF RunInv, FoundFits, ReportStands, Rests
  <1> QED BY <1>2, <1>3, <1>4, <1>5 DEF RunInv

\* A state that is final and holds a record says that the call ran.
LEMMA WaitEndedInv == ASSUME TypeInv, RunInv, WaitEnded PROVE RunInv'
  <1>1. /\ Rests /\ UNCHANGED <<state, found, missed>> /\ pc = "waiting" /\ pc' \in {"read", "judge", "done"}
        /\ exit' # EXIT_RECORDED /\ (pc' # "done" => exit' = exit)
    <2>1. exit = NONE
      BY DEF WaitEnded, RunInv, Running
    <2> QED BY <2>1 DEF WaitEnded, Exit, Rests, chainVars, waitVars, readVars, NONE, EXIT_RECORDED, EXIT_STOPPED
  <1>2. NothingYet' /\ OthersSpent' /\ OwnIsNew' /\ LastStands' /\ ~astray' /\ Own' = Own
    BY <1>1, RestsInv DEF Following
  <1>3. found = {}
    BY <1>1 DEF RunInv, FoundAtJudge
  <1>4. Running' /\ StrayAtEnd' /\ Quiet' /\ Follows' /\ Stands' /\ FoundAtJudge'
    BY <1>1, <1>2, <1>3
       DEF RunInv, Running, StrayAtEnd, Quiet, Follows, Stands, FoundAtJudge, Rests, Following
  <1>5. FoundStands' /\ MissedAtJudge'
    <2>1. ASSUME pc' = "judge", state.status = "FINALIZED", state.effect # NOT_RUN PROVE FALSE
      <3>1. executed(state)
        BY <2>1 DEF executed
      <3> QED BY <2>1, <3>1 DEF WaitEnded, Exit
    <2>2. NOT_RUN # "record"
      BY DEF NOT_RUN
    <2> QED BY <1>1, <1>3, <2>1, <2>2 DEF FoundStands, MissedAtJudge
  <1>6. FoundFits' /\ ReportStands'
    BY <1>1, <1>3 DEF FoundFits, ReportStands
  <1> QED BY <1>2, <1>4, <1>5, <1>6 DEF RunInv

\* What is read of final state stands, and a record of the call is among it.
LEMMA ReadRecordsInv == ASSUME TypeInv, RunInv, ReadRecords PROVE RunInv'
  <1>1. /\ Rests /\ UNCHANGED state /\ pc = "read" /\ pc' \in {"judge", "done"}
        /\ exit' # EXIT_RECORDED /\ (pc' # "done" => exit' = exit)
    <2>1. exit = NONE
      BY DEF ReadRecords, RunInv, Running
    <2> QED BY <2>1 DEF ReadRecords, Exit, Rests, chainVars, waitVars, readVars, NONE, EXIT_RECORDED, EXIT_STOPPED
  <1>2. NothingYet' /\ OthersSpent' /\ OwnIsNew' /\ LastStands' /\ ~astray' /\ Own' = Own
    BY <1>1, RestsInv DEF Following
  <1>3. found = {}
    BY <1>1 DEF RunInv, FoundAtJudge
  <1>4. Running' /\ StrayAtEnd' /\ Quiet' /\ Follows' /\ Stands'
    BY <1>1, <1>2
       DEF RunInv, Running, StrayAtEnd, Quiet, Follows, Stands, Rests, Following
  <1>5. ReportStands'
    BY <1>1 DEF ReportStands
  <1>6. CASE pc' = "done"
    <2>1. found' = {}
      BY <1>3, <1>6 DEF ReadRecords, Exit
    <2> QED BY <1>2, <1>4, <1>5, <1>6, <2>1 DEF RunInv, FoundAtJudge, FoundFits, FoundStands, MissedAtJudge
  <1>7. CASE pc' = "judge"
    <2>1. found' = {i \in records_of(variant) \ ids : txs[i].fits}
      BY <1>7 DEF ReadRecords, Exit, ours
    <2>2. records_of(variant) \subseteq DOMAIN txs
      BY ShownInDomain
    <2>3. FoundFits'
      BY <1>1, <2>1, <2>2 DEF FoundFits, Rests
    <2>4. variant = "LATEST_FINAL" /\ watched \in DOMAIN txs /\ txs[watched].status = "FINALIZED" =>
            (watched \in behind => watched \in missed')
      BY <1>7 DEF ReadRecords, Exit, Shown, Finals
    <2>5. FoundStands'
      <3>1. CASE state.status = "FINALIZED"
        <4>1. variant = "LATEST_FINAL"
          BY <3>1 DEF variant
        <4>2. records_of(variant) = {i \in Finals \ behind : txs[i].effect = "record"}
          BY <4>1 DEF records_of, Shown
        <4>3. txs[watched].status = "FINALIZED" /\ txs[watched].effect = state.effect /\ watched \in Own
          BY <1>1, <3>1 DEF RunInv, Stands, Follows, Following
        <4>4. watched \in DOMAIN txs \ ids /\ txs[watched].fits
          BY <4>3, OwnIn DEF RunInv, OwnIsNew
        <4>5. state.effect = "record" => watched \in found' \/ watched \in missed'
          <5>1. watched \in behind => watched \in missed'
            BY <2>4, <4>1, <4>3, <4>4
          <5> QED BY <2>1, <4>2, <4>3, <4>4, <5>1 DEF Finals
        <4>6. \A i \in found' : txs[i].status = "FINALIZED" /\ txs[i].effect = "record"
          BY <2>1, <4>2 DEF Finals
        <4> QED BY <1>1, <4>5, <4>6 DEF FoundStands, Rests
      <3>2. CASE state.status # "FINALIZED"
        BY <1>1, <3>2 DEF FoundStands
      <3> QED BY <3>1, <3>2
    <2>6. MissedAtJudge'
      <3>1. CASE state.status = "FINALIZED"
        <4>1. variant = "LATEST_FINAL" /\ watched \in DOMAIN txs /\ txs[watched].status = "FINALIZED"
          BY <1>1, <3>1, OwnIn DEF variant, RunInv, Stands, Follows, Following
        <4> QED BY <1>1, <2>4, <4>1 DEF MissedAtJudge, Rests
      <3>2. CASE state.status # "FINALIZED"
        BY <1>1, <3>2 DEF MissedAtJudge
      <3> QED BY <3>1, <3>2
    <2>7. FoundAtJudge'
      BY <1>7 DEF FoundAtJudge
    <2> QED BY <1>2, <1>4, <1>5, <2>3, <2>5, <2>6, <2>7 DEF RunInv
  <1> QED BY <1>1, <1>6, <1>7

\* A call that is sent again is spent: it is final, it left no record, or one
\* would have been found, and no reason, or one would have been read, unless
\* the read of final state missed it.
LEMMA AgainIsSpent ==
    ASSUME TypeInv, RunInv, pc = "judge", judge = "again"
    PROVE  Spent(watched)
  <1>1. state.status = "FINALIZED"
    BY DEF judge, Read
  <1>2. /\ txs[watched].status = "FINALIZED" /\ txs[watched].effect = state.effect
        /\ watched \in DOMAIN txs
    BY <1>1, OwnIn DEF RunInv, Stands, Follows, Following
  <1>3. txs[watched].effect \in {"record", "nothing", NOT_RUN} \cup Reasons
    <2>1. txs[watched] \in Tx
      BY <1>2 DEF TypeInv, TypeOK, ConsensusTypeOK
    <2> QED BY <2>1 DEF Tx, Effect
  <1>4. CASE ~executed(state)
    BY <1>1, <1>2, <1>4, ConsensusAssumption DEF executed, Spent, Wrote, NOT_RUN
  <1>5. CASE executed(state)
    <2>1. Read(last_refusal(variant)) = "again"
      BY <1>1, <1>5 DEF judge, APPEAL, DECIDED
    <2>2. found = {} /\ last_refusal(variant) = NO_REASON
      BY <2>1 DEF Read
    <2>3. txs[watched].effect = "record" => watched \in missed
      BY <1>1, <1>2, <2>2 DEF RunInv, FoundStands
    <2>4. txs[watched].effect \in Reasons => watched \in missed
      <3>1. ASSUME txs[watched].effect \in Reasons, watched \notin missed PROVE FALSE
        <4>0. watched \notin behind
          BY <1>1, <1>2, <3>1, ConsensusAssumption DEF RunInv, MissedAtJudge
        <4>1. watched \in {i \in Shown(variant) : txs[i].effect \in Reasons}
          BY <1>1, <1>2, <3>1, <4>0 DEF Shown, Finals, variant
        <4>2. ConsensusTypeOK
          BY DEF TypeInv, TypeOK
        <4>3. LET S == {i \in Shown(variant) : txs[i].effect \in Reasons}
              IN  Max(S) \in S /\ last_refusal(variant) = txs[Max(S)].effect
          BY <4>1, <4>2, LastRefusalType
        <4>4. last_refusal(variant) \in Reasons
          BY <4>3
        <4> QED BY <2>2, <4>4, ConsensusAssumption
      <3> QED BY <3>1
    <2> QED BY <1>2, <2>3, <2>4 DEF Spent, Wrote
  <1> QED BY <1>4, <1>5

LEMMA JudgeInv == ASSUME TypeInv, RunInv, Judge PROVE RunInv'
  <1>1. /\ Rests /\ UNCHANGED <<state, missed>> /\ pc = "judge" /\ found' = {} /\ exit = NONE
    BY DEF Judge, Rests, chainVars, waitVars, readVars, RunInv, Running
  <1>2. NothingYet' /\ OthersSpent' /\ OwnIsNew' /\ LastStands' /\ ~astray' /\ Own' = Own
    <2>1. pc' \in {"send", "done"}
      BY Verdicts DEF Judge, Exit, NextAttempt
    <2>2. Own' = Own /\ Before' = Before /\ RefusedBefore' = RefusedBefore
      BY <1>1 DEF Rests, Own, Before, RefusedBefore
    <2>3. NothingYet' /\ OthersSpent' /\ OwnIsNew' /\ ~astray'
      BY <1>1, <2>1, <2>2
         DEF Rests, RunInv, NothingYet, OthersSpent, OwnIsNew, StrayAtEnd, Spent, Wrote, Starting
    <2>4. LastStands'
      BY <1>1, <2>2 DEF Rests, RunInv, LastStands, Following
    <2> QED BY <2>2, <2>3, <2>4
  <1>3. StrayAtEnd' /\ FoundAtJudge' /\ FoundFits'
    BY <1>1, <1>2 DEF StrayAtEnd, FoundAtJudge, FoundFits
  <1>4. CASE pc' = "send"
    <2>1. judge = "again" /\ exit' = exit
      BY <1>4, Verdicts DEF Judge, Exit, NextAttempt
    <2>2. Spent(watched)
      BY <1>1, <2>1, AgainIsSpent
    <2>3. \A i \in Own : Spent(i)
      BY <1>1, <2>2 DEF RunInv, Follows, OthersSpent, Following
    <2>4. Quiet'
      BY <1>1, <1>2, <2>3 DEF Quiet, Rests, Spent, Wrote
    <2>5. Running' /\ Follows' /\ Stands' /\ FoundStands' /\ MissedAtJudge' /\ ReportStands'
      BY <1>1, <1>4, <2>1
         DEF Running, Follows, Stands, FoundStands, MissedAtJudge, ReportStands, Following, NONE, EXIT_RECORDED
    <2> QED BY <1>2, <1>3, <2>4, <2>5 DEF RunInv
  <1>5. CASE pc' = "done"
    <2>1. Running' /\ Quiet' /\ Follows' /\ Stands' /\ FoundStands' /\ MissedAtJudge'
      BY <1>2, <1>5 DEF Running, Quiet, Follows, Stands, FoundStands, MissedAtJudge, Following
    <2>2. ReportStands'
      <3>1. ASSUME exit' = EXIT_RECORDED, until = "finalized"
            PROVE  \E i \in DOMAIN txs \ ids :
                     txs[i].fits /\ txs[i].status = "FINALIZED" /\ txs[i].effect = "record"
        <4>1. judge = "recorded"
          <5>1. exit' # exit
            BY <1>1, <3>1 DEF NONE, EXIT_RECORDED
          <5>2. judge = "refused" => exit' # EXIT_RECORDED
            BY DEF Judge, Exit, EXIT_REFUSED, EXIT_RECORDED
          <5>3. judge = "stop" => exit' # EXIT_RECORDED
            BY DEF Judge, Exit, EXIT_STOPPED, EXIT_RECORDED
          <5>4. NextAttempt => exit' # EXIT_RECORDED
            BY <1>1 DEF NextAttempt, Exit, EXIT_NOT_EXECUTED, EXIT_RECORDED, NONE
          <5>5. judge = "again" => NextAttempt
            BY DEF Judge
          <5> QED BY <3>1, <5>2, <5>3, <5>4, <5>5, Verdicts
        <4>2. state.status = "FINALIZED" /\ found # {}
          BY <3>1, <4>1 DEF judge, Read
        <4>3. PICK i \in found : TRUE
          BY <4>2
        <4>4. i \in DOMAIN txs \ ids /\ txs[i].fits /\ txs[i].status = "FINALIZED" /\ txs[i].effect = "record"
          BY <1>1, <4>2 DEF RunInv, FoundFits, FoundStands
        <4> QED BY <4>4
      <3> QED BY <1>1, <3>1 DEF ReportStands, Rests
    <2> QED BY <1>2, <1>3, <2>1, <2>2 DEF RunInv
  <1>6. pc' \in {"send", "done"}
    BY Verdicts DEF Judge, Exit, NextAttempt
  <1> QED BY <1>4, <1>5, <1>6

LEMMA InitRun == Init => RunInv
  <1> SUFFICES ASSUME Init PROVE RunInv
    OBVIOUS
  <1>1. Own = {}
    <2>1. PICK n \in 0..Earlier : txs \in [1..n -> EarlierTx]
      BY DEF Init
    <2>2. \A i \in DOMAIN txs : txs[i].own = FALSE
      BY <2>1 DEF EarlierTx
    <2> QED BY <2>2 DEF Own
  <1> QED BY <1>1
          DEF Init, RunInv, Running, NothingYet, StrayAtEnd, Quiet, Follows, OthersSpent, Stands, OwnIsNew,
              FoundAtJudge, FoundFits, FoundStands, MissedAtJudge, ReportStands, LastStands, Following,
              NONE, EXIT_RECORDED

LEMMA StepRun == ASSUME TypeInv, RunInv, [Next]_vars PROVE RunInv'
  <1>1. CASE UNCHANGED vars
    BY <1>1
       DEF RunInv, Running, NothingYet, StrayAtEnd, Quiet, Follows, OthersSpent, Stands, OwnIsNew, FoundAtJudge,
           FoundFits, FoundStands, MissedAtJudge, ReportStands, LastStands, Own, Spent, Wrote, Before, RefusedBefore,
           vars, chainVars, waitVars, readVars
  <1>2. CASE Client
    BY <1>2, PreflightInv, StartInv, SendInv, WaitInv, WaitEndedInv, ReadRecordsInv, JudgeInv DEF Client
  <1>3. CASE Beside
    BY <1>3, ChainInv, ComeAfterAllInv DEF Beside
  <1> QED BY <1>1, <1>2, <1>3 DEF Next

\* What the run knows of its transactions, at every step of it.
THEOREM AttestRun == Spec => [](TypeInv /\ RunInv)
  BY InitTypes, StepTypes, InitRun, StepRun, PTL DEF Spec

\* No transaction is sent, and none comes after all, while an earlier one of
\* the run can still write a record, or has a record that the run's read of
\* final state could have shown.
THEOREM AttestNeverOverlaps == Spec => []NeverOverlaps
  <1>1. RunInv => NeverOverlaps
    BY DEF RunInv, OthersSpent, Spent, Wrote, NeverOverlaps, Recorded
  <1> QED BY <1>1, AttestRun, PTL

\* A run that waits for finality and exits 0 has read a final record of its
\* own call's making, and the record stays.
THEOREM AttestRecordedIsFinal == Spec => []RecordedIsFinal
  <1>1. RunInv => RecordedIsFinal
    BY DEF RunInv, ReportStands, RecordedIsFinal, Recorded
  <1> QED BY <1>1, AttestRun, PTL

-----------------------------------------------------------------------------
(* Exit code 2.                                                              *)

\* With every call of before final, a reason that differs from the one read
\* before is of the call that is followed, or of one that was missed: the calls
\* of the run before it are spent, and those of before the run are all shown.
LEMMA NewReasonIsOwn ==
    ASSUME TypeInv, RunInv, pc = "judge", settled, last_refusal(variant) \notin {NO_REASON, last}
    PROVE  \E i \in Own : txs[i].effect \in Reasons /\ i \in missed \cup {watched}
  <1> DEFINE S == {i \in Shown(variant) : txs[i].effect \in Reasons}
             m == Max(S)
  <1>1. ConsensusTypeOK /\ S \subseteq DOMAIN txs
    BY DEF TypeInv, TypeOK, Shown, Finals
  <1>2. S # {}
    BY DEF last_refusal
  <1>3. m \in S /\ (\A i \in S : i <= m) /\ last_refusal(variant) = txs[m].effect
    BY <1>1, <1>2, LastRefusalType
  <1>4. m \in DOMAIN txs /\ txs[m].effect \in Reasons
    BY <1>1, <1>3
  <1>5. /\ \A i \in Before : txs[i].status = "FINALIZED" /\ i \notin behind
        /\ last = IF RefusedBefore = {} THEN NO_REASON ELSE txs[Max(RefusedBefore)].effect
    BY DEF RunInv, LastStands, Following
  <1>6. RefusedBefore \subseteq S
    BY <1>5, OwnIn DEF RefusedBefore, Shown, Finals
  <1>7. CASE m \in Own
    <2>1. m # watched => Spent(m)
      BY <1>7 DEF RunInv, Follows, OthersSpent, Following
    <2>2. Spent(m) => m \in missed
      BY <1>4 DEF Spent, Wrote
    <2> QED BY <1>4, <1>7, <2>1, <2>2
  <1>8. CASE m \notin Own
    <2>1. m \in RefusedBefore
      BY <1>4, <1>8 DEF Before, RefusedBefore
    <2>2. RefusedBefore \in SUBSET (1..Len(txs)) /\ Len(txs) \in Nat
      BY <1>1, OwnIn DEF RefusedBefore, ConsensusTypeOK
    <2>3. Max(RefusedBefore) \in RefusedBefore /\ \A i \in RefusedBefore : i <= Max(RefusedBefore)
      BY <2>1, <2>2, Greatest
    <2>4. Max(RefusedBefore) <= m /\ m <= Max(RefusedBefore)
      BY <1>3, <1>6, <2>1, <2>3
    <2>5. Max(RefusedBefore) = m
      <3>1. m \in Nat /\ Max(RefusedBefore) \in Nat
        <4>1. \A i \in RefusedBefore : i \in Nat
          BY <2>2
        <4> HIDE DEF m
        <4> QED BY <2>1, <2>3, <4>1
      <3> HIDE DEF m
      <3> QED BY <2>4, <3>1
    <2> QED BY <1>3, <1>5, <2>1, <2>5
  <1> QED BY <1>7, <1>8

\* A run that exits 2 sent nothing, or a call of it was refused, if the sender's
\* earlier calls were final, and shown, when it began.
THEOREM AttestRefusedWhenSettled == Spec => RefusedWhenSettled
  <1>1. ASSUME TypeInv, RunInv, Next, exit' = EXIT_REFUSED, exit # EXIT_REFUSED, settled
        PROVE  Own = {} \/ \E i \in Own : txs[i].effect \in Reasons /\ i \in missed \cup {watched}
    <2>1. CASE Preflight
      BY <1>1, <2>1 DEF Preflight, RunInv, NothingYet, Starting
    <2>2. CASE Judge
      <3>1. judge = "refused"
        <4>1. judge = "recorded" => exit' # EXIT_REFUSED
          BY <2>2 DEF Judge, Exit, EXIT_REFUSED, EXIT_RECORDED
        <4>2. judge = "stop" => exit' # EXIT_REFUSED
          BY <2>2 DEF Judge, Exit, EXIT_STOPPED, EXIT_REFUSED
        <4>3. NextAttempt => exit' # EXIT_REFUSED
          BY <1>1 DEF NextAttempt, Exit, EXIT_NOT_EXECUTED, EXIT_REFUSED
        <4>4. judge = "again" => NextAttempt
          BY <2>2 DEF Judge
        <4> QED BY <1>1, <4>1, <4>2, <4>3, <4>4, Verdicts
      <3>2. Read(last_refusal(variant)) = "refused"
        BY <3>1 DEF judge
      <3>3. last_refusal(variant) \notin {NO_REASON, last} \/ refunded
        BY <3>2 DEF Read
      <3>4. pc = "judge"
        BY <2>2 DEF Judge
      <3>5. watched \in Own
        BY <1>1, <3>4 DEF RunInv, Follows, Following
      <3> QED BY <1>1, <3>3, <3>4, <3>5, NewReasonIsOwn DEF refunded
    <2>3. CASE ~Preflight /\ ~Judge
      <3>1. ASSUME NEW code \in {EXIT_ERROR, EXIT_STOPPED}, Exit(code) PROVE exit' # EXIT_REFUSED
        BY <3>1 DEF Exit, EXIT_ERROR, EXIT_STOPPED, EXIT_REFUSED
      <3> QED BY <1>1, <2>3, <3>1
              DEF Next, Client, Beside, Start, Send, WaitStepOfAttempt, WaitEnded, ReadRecords, ComeAfterAll
    <2> QED BY <2>1, <2>2, <2>3
  <1> QED BY <1>1, AttestRun, PTL DEF Spec, RefusedWhenSettled
=============================================================================
