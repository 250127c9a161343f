--------------------------- MODULE ProbeRunProofs ---------------------------
(* What holds of a run of the second model probe and of its log for any plan, *)
(* any number of retries, runs and signatures.  The nonce is what it is about: *)
(* each signature takes the next one, the repeats of a call stay with that of  *)
(* the first, and a transaction whose nonce is behind can never be executed.   *)

EXTENDS ProbeRun, FiniteSetTheorems, SequenceTheorems, TLAPS

Signature == [call : 1..Calls, entry : Nat, nonce : Nat, where : Where]

\* It was in a block.
Mined(i) == signed[i].where \notin {"out", "pool"}

\* While a call may still be signed again, and with what was signed for it.
Signing == {"sign", "broadcast", "not_sent"}
Sending == {"broadcast", "receipt", "decision", "wait", "not_sent"}

-----------------------------------------------------------------------------
(* What the steps do to signed and to log.                                   *)

\* Nothing is signed, and what was in a block stays as it is to the log.
Kept ==
    /\ DOMAIN signed' = DOMAIN signed /\ Len(signed') = Len(signed)
    /\ \A i \in DOMAIN signed :
         /\ signed'[i].call = signed[i].call /\ signed'[i].nonce = signed[i].nonce
         /\ signed'[i].entry = signed[i].entry
         /\ Mined(i)' <=> Mined(i)
         /\ Executed(i)' <=> Executed(i)
         /\ signed[i].where = "reverted" => signed'[i].where = "reverted"

\* A block takes i.
Takenup(i) ==
    /\ DOMAIN signed' = DOMAIN signed /\ Len(signed') = Len(signed)
    /\ ~ Mined(i) /\ Mined(i)' /\ signed[i].nonce = next_nonce /\ next_nonce' = next_nonce + 1
    /\ signed'[i].call = signed[i].call /\ signed'[i].nonce = signed[i].nonce
    /\ signed'[i].entry = signed[i].entry
    /\ \A j \in DOMAIN signed \ {i} : signed'[j] = signed[j]

LEMMA Marked ==
    ASSUME TypeOK, NEW i \in DOMAIN signed, NEW where \in Where, Put(i, where)
    PROVE  /\ signed' \in Seq(Signature) /\ DOMAIN signed' = DOMAIN signed /\ Len(signed') = Len(signed)
           /\ signed'[i].call = signed[i].call /\ signed'[i].nonce = signed[i].nonce
           /\ signed'[i].entry = signed[i].entry /\ signed'[i].where = where
           /\ \A j \in DOMAIN signed \ {i} : signed'[j] = signed[j]
  <1>1. signed \in Seq(Signature) /\ signed' = [signed EXCEPT ![i].where = where]
    BY DEF TypeOK, Signature, Put
  <1>2. signed[i] \in Signature
    BY <1>1
  <1>3. [signed[i] EXCEPT !.where = where] \in Signature
    BY <1>2 DEF Signature
  <1>4. signed' = [signed EXCEPT ![i] = [signed[i] EXCEPT !.where = where]]
    BY <1>1
  <1>5. signed' \in Seq(Signature) /\ DOMAIN signed' = DOMAIN signed /\ Len(signed') = Len(signed)
    BY <1>1, <1>3, <1>4
  <1>6. signed'[i] = [signed[i] EXCEPT !.where = where] /\ \A j \in DOMAIN signed \ {i} : signed'[j] = signed[j]
    BY <1>1, <1>4
  <1>7. /\ signed'[i].call = signed[i].call /\ signed'[i].nonce = signed[i].nonce
        /\ signed'[i].entry = signed[i].entry /\ signed'[i].where = where
    BY <1>2, <1>6 DEF Signature
  <1> QED BY <1>5, <1>6, <1>7

LEMMA ChainSteps ==
    ASSUME TypeOK, Chain
    PROVE  /\ signed' \in Seq(Signature) /\ next_nonce' \in Nat /\ next_nonce' >= next_nonce
           /\ foreign' \in 0..MaxForeign /\ appeals' \in 0..MaxAppeals /\ UNCHANGED <<log, runVars>>
           /\ Kept \/ \E i \in DOMAIN signed : Takenup(i)
  <1>0. /\ next_nonce \in Nat /\ signed \in Seq(Signature) /\ foreign \in 0..MaxForeign
        /\ appeals \in 0..MaxAppeals /\ MaxForeign \in Nat /\ MaxAppeals \in Nat
    BY ProbeRunAssumption DEF TypeOK, Signature
  <1>1. {"out", "pool", "reverted", UNDECIDED, APPEALED} \cup DECIDED \subseteq Where
    BY DEF Where
  <1>2. CASE Arrive
    <2>1. PICK i \in DOMAIN signed : Takes(i) /\ Put(i, "pool")
      BY <1>2 DEF Arrive
    <2>2. /\ signed' \in Seq(Signature) /\ DOMAIN signed' = DOMAIN signed /\ Len(signed') = Len(signed)
          /\ signed'[i].call = signed[i].call /\ signed'[i].nonce = signed[i].nonce
          /\ signed'[i].entry = signed[i].entry /\ signed'[i].where = "pool"
          /\ \A j \in DOMAIN signed \ {i} : signed'[j] = signed[j]
      BY <1>1, <2>1, Marked
    <2>3. Kept
      BY <2>1, <2>2 DEF Kept, Mined, Executed, Takes
    <2> QED BY <1>0, <1>2, <2>2, <2>3 DEF Arrive
  <1>3. CASE Mine
    <2>1. PICK i \in DOMAIN signed, where \in {UNDECIDED, "reverted"} :
            signed[i].where = "pool" /\ signed[i].nonce = next_nonce /\ Put(i, where)
      BY <1>3 DEF Mine
    <2>2. /\ signed' \in Seq(Signature) /\ DOMAIN signed' = DOMAIN signed /\ Len(signed') = Len(signed)
          /\ signed'[i].call = signed[i].call /\ signed'[i].nonce = signed[i].nonce
          /\ signed'[i].entry = signed[i].entry /\ signed'[i].where = where
          /\ \A j \in DOMAIN signed \ {i} : signed'[j] = signed[j]
      BY <1>1, <2>1, Marked
    <2>3. next_nonce' = next_nonce + 1
      BY <1>3 DEF Mine
    <2>4. Takenup(i)
      BY <2>1, <2>2, <2>3 DEF Takenup, Mined, UNDECIDED
    <2> QED BY <1>0, <1>3, <2>2, <2>3, <2>4 DEF Mine
  <1>4. CASE Evict
    <2>1. PICK i \in DOMAIN signed : signed[i].where = "pool" /\ Put(i, "out")
      BY <1>4 DEF Evict
    <2>2. /\ signed' \in Seq(Signature) /\ DOMAIN signed' = DOMAIN signed /\ Len(signed') = Len(signed)
          /\ signed'[i].call = signed[i].call /\ signed'[i].nonce = signed[i].nonce
          /\ signed'[i].entry = signed[i].entry /\ signed'[i].where = "out"
          /\ \A j \in DOMAIN signed \ {i} : signed'[j] = signed[j]
      BY <1>1, <2>1, Marked
    <2>3. Kept
      BY <2>1, <2>2 DEF Kept, Mined, Executed
    <2> QED BY <1>0, <1>4, <2>2, <2>3 DEF Evict
  <1>5. CASE OtherProgram
    <2>1. Kept
      BY <1>5 DEF OtherProgram, Kept, Mined, Executed
    <2> QED BY <1>0, <1>5, <2>1 DEF OtherProgram
  <1>6. CASE Consensus
    <2>1. PICK i \in DOMAIN signed, where \in DECIDED \cup {APPEALED} :
            /\ signed[i].where \in {UNDECIDED, APPEALED, "ACCEPTED", "UNDETERMINED"} /\ Put(i, where)
            /\ appeals' = appeals \/ (appeals < MaxAppeals /\ appeals' = appeals + 1)
      BY <1>6 DEF Consensus, DECIDED
    <2>2. /\ signed' \in Seq(Signature) /\ DOMAIN signed' = DOMAIN signed /\ Len(signed') = Len(signed)
          /\ signed'[i].call = signed[i].call /\ signed'[i].nonce = signed[i].nonce
          /\ signed'[i].entry = signed[i].entry /\ signed'[i].where = where
          /\ \A j \in DOMAIN signed \ {i} : signed'[j] = signed[j]
      BY <1>1, <2>1, Marked
    <2>3. Kept
      BY <2>1, <2>2 DEF Kept, Mined, Executed, UNDECIDED, APPEALED, DECIDED
    <2> QED BY <1>0, <1>6, <2>1, <2>2, <2>3 DEF Consensus
  <1> QED BY <1>2, <1>3, <1>4, <1>5, <1>6 DEF Chain

\* A broadcast puts the transaction in the node's pool at most.
LEMMA BroadcastKeeps ==
    ASSUME TypeOK, present \in DOMAIN signed, Broadcast
    PROVE  signed' \in Seq(Signature) /\ Kept
  <1>1. CASE Takes(present) /\ Put(present, "pool")
    <2>1. /\ signed' \in Seq(Signature) /\ DOMAIN signed' = DOMAIN signed /\ Len(signed') = Len(signed)
          /\ signed'[present].call = signed[present].call /\ signed'[present].nonce = signed[present].nonce
          /\ signed'[present].entry = signed[present].entry /\ signed'[present].where = "pool"
          /\ \A j \in DOMAIN signed \ {present} : signed'[j] = signed[j]
      BY <1>1, Marked DEF Where
    <2>2. signed[present].where = "out"
      BY <1>1 DEF Takes
    <2> QED BY <2>1, <2>2 DEF Kept, Mined, Executed
  <1>2. CASE signed' = signed
    BY <1>2 DEF Kept, Mined, Executed, TypeOK, Signature
  <1> QED BY <1>1, <1>2 DEF Broadcast

\* The open entry, and only that, is replaced.
LEMMA Written ==
    ASSUME log \in Seq(Entry), log # <<>>, NEW entry \in Entry, Write(entry)
    PROVE  /\ log' \in Seq(Entry) /\ log' # <<>> /\ DOMAIN log' = DOMAIN log /\ Len(log') = Len(log)
           /\ Open' = entry /\ \A k \in DOMAIN log \ {Len(log)} : log'[k] = log[k]
  <1> DEFINE n == Len(log) - 1
             before == SubSeq(log, 1, n)
  <1>1. /\ n \in Nat /\ Len(log) = n + 1 /\ DOMAIN log = 1..(n + 1)
        /\ \A k \in 1..(n + 1) : log[k] \in Entry
    OBVIOUS
  <1>2. log' = Append(before, entry)
    BY DEF Write
  <1> HIDE DEF n
  <1>3. before \in Seq(Entry) /\ Len(before) = n /\ \A k \in 1..n : before[k] = log[k]
    <2>1. n \in Int /\ 1 \in Int /\ \A k \in 1..n : log[k] \in Entry
      BY <1>1
    <2>2. /\ before \in Seq(Entry) /\ Len(before) = (IF 1 <= n THEN n - 1 + 1 ELSE 0)
          /\ \A k \in 1..(n - 1 + 1) : before[k] = log[1 + k - 1]
      BY <2>1, SubSeqProperties
    <2> HIDE DEF before
    <2>3. Len(before) = n
      BY <1>1, <2>2
    <2>4. n - 1 + 1 = n /\ \A k \in 1..n : 1 + k - 1 = k
      BY <1>1
    <2> QED BY <2>2, <2>3, <2>4
  <1> HIDE DEF before
  <1>4. /\ log' \in Seq(Entry) /\ Len(log') = n + 1
        /\ \A k \in 1..n : log'[k] = before[k]
        /\ log'[n + 1] = entry
    BY <1>2, <1>3, AppendProperties
  <1>5. DOMAIN log' = 1..(n + 1) /\ log' # <<>>
    BY <1>1, <1>4
  <1>6. \A k \in 1..(n + 1) : k # n + 1 => k \in 1..n
    BY <1>1
  <1> QED BY <1>1, <1>3, <1>4, <1>5, <1>6 DEF Open

-----------------------------------------------------------------------------
(* Types.                                                                    *)

\* What the log holds was signed.
Logged ==
    \A k \in DOMAIN log :
        Range(log[k].hashes) \subseteq DOMAIN signed /\ log[k].tx \in DOMAIN signed \cup {NONE}

\* The open entry is that of the call under way, what was signed last is at
\* hand, and it is written before send.py's run is judged.
UnderWay ==
    /\ pc \in Sending \cup {"sign"} => log # <<>> /\ Open.call = sequence
    /\ pc \in Sending => present \in DOMAIN signed
    /\ unwritten => pc \in {"broadcast", "receipt"}

TypeInv == TypeOK /\ Len(signed) <= MaxSigned /\ Logged /\ UnderWay

LEMMA SameTyped ==
    ASSUME TypeInv, UNCHANGED vars
    PROVE  TypeInv'
  BY DEF TypeInv, TypeOK, Logged, UnderWay, vars, chainVars, runVars, Open, present

LEMMA ChainTyped ==
    ASSUME TypeInv, Chain
    PROVE  TypeInv'
  <1>1. /\ signed' \in Seq(Signature) /\ next_nonce' \in Nat /\ foreign' \in 0..MaxForeign
        /\ appeals' \in 0..MaxAppeals /\ UNCHANGED <<log, runVars>>
    BY ChainSteps DEF TypeInv
  <1>2. DOMAIN signed' = DOMAIN signed /\ Len(signed') = Len(signed)
    BY ChainSteps DEF TypeInv, Kept, Takenup
  <1> QED BY <1>1, <1>2 DEF TypeInv, TypeOK, Logged, UnderWay, runVars, Signature, Open, present

LEMMA StopTyped ==
    ASSUME TypeInv, stop, UNCHANGED <<chainVars, log>>
    PROVE  TypeInv'
  <1>1. unwritten' = FALSE /\ pc' = "down" /\ UNCHANGED <<signed, next_nonce, foreign, appeals, log>>
    BY DEF stop, chainVars
  <1>2. TypeOK'
    <2>1. /\ sequence' = 1 /\ attempt' = 0 /\ hashes' = {} /\ nonce' = UNPINNED
          /\ known' = {} /\ settled' = {} /\ verdict' = OK
      BY DEF stop
    <2>2. /\ sequence' \in 1..Calls /\ attempt' \in 0..REFUSED_RETRIES + 1 /\ nonce' \in Nat \cup {UNPINNED}
          /\ verdict' \in {OK, NOT_SENT, FAILED}
      BY <2>1, ProbeRunAssumption
    <2>4. unwritten' \in BOOLEAN
      BY <1>1
    <2>3. hashes' \subseteq DOMAIN signed /\ known' \subseteq DOMAIN signed /\ settled' \subseteq DOMAIN signed
      BY <2>1
    <2> QED BY <1>1, <2>2, <2>3, <2>4 DEF TypeInv, TypeOK
  <1>3. Logged' /\ UnderWay'
    BY <1>1 DEF TypeInv, Logged, UnderWay, Sending
  <1> QED BY <1>1, <1>2, <1>3 DEF TypeInv

LEMMA NextStartType ==
    ASSUME TypeOK
    PROVE  next_start \in Nat /\ next_start >= 1
  <1>1. CASE log = <<>>
    BY <1>1, ProbeRunAssumption DEF next_start
  <1>2. CASE log # <<>>
    <2>1. log \in Seq(Entry) /\ Len(log) \in DOMAIN log
      BY <1>2 DEF TypeOK
    <2>2. Open \in Entry
      BY <2>1 DEF Open
    <2> QED BY <1>2, <2>2, ProbeRunAssumption DEF next_start, Entry
  <1> QED BY <1>1, <1>2

\* The steps of the run that write nothing.
LEMMA StillTyped ==
    ASSUME TypeInv, Start \/ Decision \/ Wait \/ NotSent \/ Verdict \/ Killed
    PROVE  TypeInv'
  <1>1. next_start \in Nat /\ next_start >= 1 /\ Calls \in Nat /\ Calls >= 1 /\ REFUSED_RETRIES \in Nat
    BY NextStartType, ProbeRunAssumption DEF TypeInv
  <1>2. CASE Start
    BY <1>1, <1>2 DEF TypeInv, TypeOK, Logged, UnderWay, Start, chainVars, Sending
  <1>3. CASE Decision
    BY <1>3 DEF TypeInv, TypeOK, Logged, UnderWay, Decision, Classified, OK, NOT_SENT, chainVars, Sending,
                Open, present
  <1>4. CASE Wait
    BY <1>4 DEF TypeInv, TypeOK, Logged, UnderWay, Wait, Classified, OK, NOT_SENT, FAILED, chainVars, Sending
  <1>5. CASE NotSent
    <2>1. present \in DOMAIN signed /\ signed[present].nonce \in Nat
      <3>1. present \in DOMAIN signed /\ signed \in Seq(Signature)
        BY <1>5 DEF NotSent, TypeInv, TypeOK, UnderWay, Sending, Signature
      <3>2. signed[present] \in Signature
        BY <3>1
      <3> QED BY <3>1, <3>2 DEF Signature
    <2>2. UNCHANGED <<signed, next_nonce, foreign, appeals, log, unwritten, sequence, known, settled>> /\ pc = "not_sent"
      BY <1>5 DEF NotSent, chainVars
    <2>3. hashes' \subseteq DOMAIN signed /\ nonce' \in Nat \cup {UNPINNED}
      BY <1>5, <2>1 DEF NotSent, TypeInv, TypeOK
    <2>4. attempt' \in 0..REFUSED_RETRIES + 1 /\ pc' \in {"sign", "verdict"} /\ verdict' \in {OK, NOT_SENT, FAILED}
      BY <1>1, <1>5 DEF NotSent, TypeInv, TypeOK, Classified, NOT_SENT, FAILED
    <2>5. log # <<>> /\ Open.call = sequence
      BY <1>5 DEF NotSent, TypeInv, UnderWay, Sending
    <2> QED BY <2>2, <2>3, <2>4, <2>5 DEF TypeInv, TypeOK, Logged, UnderWay, Sending, Open
  <1>6. CASE Verdict
    <2>1. CASE stop
      BY <1>6, <2>1, StopTyped DEF Verdict
    <2>2. CASE sequence < Calls /\ pc' = "check" /\ sequence' = sequence + 1 /\ attempt' = 0 /\ hashes' = {}
               /\ nonce' = UNPINNED /\ UNCHANGED <<unwritten, known, settled, verdict>>
      BY <1>1, <1>6, <2>2 DEF TypeInv, TypeOK, Logged, UnderWay, Verdict, chainVars, Sending
    <2> QED BY <1>6, <2>1, <2>2 DEF Verdict
  <1>7. CASE Killed
    BY <1>7, StopTyped DEF Killed
  <1> QED BY <1>2, <1>3, <1>4, <1>5, <1>6, <1>7

\* Check opens an entry.
LEMMA CheckTyped ==
    ASSUME TypeInv, Check
    PROVE  TypeInv'
  <1> DEFINE e == [call |-> sequence, hashes |-> <<>>, tx |-> NONE]
  <1>1. CASE stop /\ UNCHANGED log
    BY <1>1, StopTyped DEF Check
  <1>2. CASE /\ known' = known \cup {i \in logged_transactions : signed[i].where \in FINAL}
             /\ settled' = settled \cup {i \in unaccounted_l2 : signed[i].where = "reverted"}
             /\ log' = Append(log, e)
             /\ pc' = "sign" /\ attempt' = 1 /\ hashes' = {} /\ nonce' = UNPINNED
             /\ UNCHANGED <<unwritten, sequence, verdict>>
    <2>1. e \in Entry /\ log \in Seq(Entry)
      <3>1. <<>> \in Seq(1..MaxSigned) /\ 0 \in 0..MaxSigned /\ sequence \in 1..Calls
        BY ProbeRunAssumption DEF TypeInv, TypeOK
      <3> QED BY <3>1 DEF TypeInv, TypeOK, Entry, NONE
    <2>2. /\ log' \in Seq(Entry) /\ log' # <<>> /\ Len(log') = Len(log) + 1
          /\ \A k \in 1..Len(log) : log'[k] = log[k]
          /\ log'[Len(log) + 1] = e
      BY <1>2, <2>1, AppendProperties
    <2>3. logged_transactions \subseteq DOMAIN signed /\ unaccounted_l2 \subseteq DOMAIN signed
      BY DEF TypeInv, Logged, logged_transactions, unaccounted_l2, logged_l2
    <2>4. known' \subseteq DOMAIN signed /\ settled' \subseteq DOMAIN signed
      BY <1>2, <2>3 DEF TypeInv, TypeOK
    <2>5. Range(e.hashes) = {} /\ e.tx = NONE /\ e.call = sequence
      BY DEF Range
    <2>6. DOMAIN log = 1..Len(log) /\ DOMAIN log' = 1..(Len(log) + 1) /\ Len(log) \in Nat
      BY <2>1, <2>2
    <2> HIDE DEF e
    <2>7. UNCHANGED <<signed, next_nonce, foreign, appeals, unwritten, sequence, verdict>> /\ ~ unwritten
      BY <1>2 DEF Check, chainVars, TypeInv, TypeOK, UnderWay
    <2>8. Logged'
      <3> SUFFICES ASSUME NEW k \in DOMAIN log'
                   PROVE  Range(log'[k].hashes) \subseteq DOMAIN signed /\ log'[k].tx \in DOMAIN signed \cup {NONE}
        BY <2>7 DEF Logged
      <3>1. CASE k \in DOMAIN log
        BY <2>2, <2>6, <3>1 DEF TypeInv, Logged
      <3>2. CASE k = Len(log) + 1
        BY <2>2, <2>5, <3>2
      <3> QED BY <2>6, <3>1, <3>2
    <2>9. UnderWay'
      BY <1>2, <2>2, <2>5, <2>7 DEF UnderWay, Sending, Open
    <2>10. attempt' \in 0..REFUSED_RETRIES + 1 /\ nonce' \in Nat \cup {UNPINNED}
      BY <1>2, ProbeRunAssumption
    <2> QED BY <1>2, <2>2, <2>4, <2>7, <2>8, <2>9, <2>10 DEF TypeInv, TypeOK
  <1> QED BY <1>1, <1>2 DEF Check

LEMMA BroadcastTyped ==
    ASSUME TypeInv, Broadcast
    PROVE  TypeInv'
  <1>1. signed' \in Seq(Signature) /\ DOMAIN signed' = DOMAIN signed /\ Len(signed') = Len(signed)
    BY BroadcastKeeps DEF Kept, TypeInv, UnderWay, Sending, Broadcast
  <1>2. pc' \in {"receipt", "not_sent", "verdict"} /\ verdict' \in {OK, NOT_SENT, FAILED}
    BY DEF Broadcast, Classified, NOT_SENT, FAILED, TypeInv, TypeOK
  <1>3. /\ UNCHANGED <<next_nonce, foreign, appeals, log, unwritten, sequence, attempt, hashes, nonce, known, settled>>
        /\ pc' # "receipt" => ~ unwritten
    BY DEF Broadcast, Classified, FAILED, NOT_SENT
  <1>4. present \in DOMAIN signed /\ log # <<>> /\ Open.call = sequence
    BY DEF Broadcast, TypeInv, UnderWay, Sending
  <1> QED BY <1>1, <1>2, <1>3, <1>4 DEF TypeInv, TypeOK, Logged, UnderWay, Signature, Open, present

\* The facts of an entry that is open.
LEMMA OpenType ==
    ASSUME TypeInv, log # <<>>
    PROVE  /\ log \in Seq(Entry) /\ Len(log) \in DOMAIN log /\ Open \in Entry
           /\ Range(Open.hashes) \subseteq DOMAIN signed /\ Open.tx \in DOMAIN signed \cup {NONE}
  <1>1. log \in Seq(Entry) /\ Len(log) \in DOMAIN log
    BY DEF TypeInv, TypeOK
  <1> QED BY <1>1 DEF Open, TypeInv, Logged

LEMMA ReceiptTyped ==
    ASSUME TypeInv, Receipt
    PROVE  TypeInv'
  <1>1. present \in DOMAIN signed /\ log # <<>> /\ Open.call = sequence /\ pc = "receipt"
    BY DEF Receipt, TypeInv, UnderWay, Sending
  <1>2. /\ UNCHANGED <<signed, next_nonce, foreign, appeals, unwritten, sequence, attempt, hashes, nonce, known, settled>>
        /\ ~ unwritten
    BY DEF Receipt, chainVars, Classified
  <1>3. CASE Classified(FAILED) /\ UNCHANGED log
    BY <1>2, <1>3 DEF Classified, NOT_SENT, FAILED, TypeInv, TypeOK, Logged, UnderWay, Sending
  <1>4. CASE pc' = "decision" /\ Write([Open EXCEPT !.tx = present]) /\ UNCHANGED verdict
    <2> DEFINE e == [Open EXCEPT !.tx = present]
    <2>1. present \in 0..MaxSigned
      BY <1>1, ProbeRunAssumption DEF TypeInv, TypeOK, present
    <2>2. e \in Entry /\ e.call = Open.call /\ e.hashes = Open.hashes /\ e.tx = present
      <3>1. Open \in Entry
        BY <1>1, OpenType
      <3> QED BY <2>1, <3>1 DEF Entry
    <2> HIDE DEF e
    <2>3. Write(e)
      BY <1>4 DEF e
    <2>4. /\ log' \in Seq(Entry) /\ log' # <<>> /\ DOMAIN log' = DOMAIN log /\ Len(log') = Len(log)
          /\ Open' = e /\ \A k \in DOMAIN log \ {Len(log)} : log'[k] = log[k]
      BY <1>1, <2>2, <2>3, OpenType, Written
    <2>5. Logged'
      <3> SUFFICES ASSUME NEW k \in DOMAIN log
                   PROVE  Range(log'[k].hashes) \subseteq DOMAIN signed /\ log'[k].tx \in DOMAIN signed \cup {NONE}
        BY <1>2, <2>4 DEF Logged
      <3>1. CASE k = Len(log)
        <4>1. log'[k] = e
          BY <2>4, <3>1 DEF Open
        <4> QED BY <1>1, <2>2, <4>1, OpenType
      <3>2. CASE k # Len(log)
        BY <2>4, <3>2 DEF TypeInv, Logged
      <3> QED BY <3>1, <3>2
    <2>6. UnderWay'
      BY <1>1, <1>2, <1>4, <2>2, <2>4 DEF UnderWay, present
    <2> QED BY <1>2, <1>4, <2>4, <2>5, <2>6 DEF TypeInv, TypeOK
  <1> QED BY <1>3, <1>4 DEF Receipt

\* What a signature changes.
LEMMA Signs ==
    ASSUME TypeInv, Sign, signed' # signed
    PROVE  /\ pc = "sign" /\ pc' = "broadcast" /\ unwritten' = TRUE /\ next_nonce \in Nat
           /\ nonce = UNPINNED \/ nonce = next_nonce
           /\ signed' \in Seq(Signature) /\ Len(signed') = Len(signed) + 1 /\ Len(signed') <= MaxSigned
           /\ Len(signed) \in Nat /\ DOMAIN signed = 1..Len(signed) /\ DOMAIN signed' = 1..(Len(signed) + 1)
           /\ \A i \in DOMAIN signed : signed'[i] = signed[i]
           /\ signed'[Len(signed) + 1] =
                [call |-> sequence, entry |-> Len(log), nonce |-> next_nonce, where |-> "out"]
           /\ log # <<>> /\ Open.call = sequence /\ Len(log) \in Nat
           /\ UNCHANGED <<log, verdict, next_nonce, foreign, appeals, sequence, attempt, hashes, nonce, known,
                          settled>>
  <1> DEFINE new == [call |-> sequence, entry |-> Len(log), nonce |-> next_nonce, where |-> "out"]
  <1>0. Len(signed) < MaxSigned /\ MaxSigned \in Nat
    BY ProbeRunAssumption DEF Sign
  <1>1. /\ pc = "sign" /\ pc' = "broadcast" /\ unwritten' = TRUE /\ UNCHANGED verdict
        /\ \E n \in Nonce :
             signed' = Append(signed, [call |-> sequence, entry |-> Len(log), nonce |-> n, where |-> "out"])
        /\ UNCHANGED <<next_nonce, foreign, appeals, log, sequence, attempt, hashes, nonce, known, settled>>
    BY DEF Sign
  <1>2. signed' = Append(signed, new) /\ (nonce = UNPINNED \/ nonce = next_nonce)
    BY <1>1 DEF Nonce
  <1>3. log # <<>> /\ Open.call = sequence /\ Len(log) \in Nat
    BY <1>1 DEF TypeInv, UnderWay, TypeOK
  <1>4. new \in Signature /\ signed \in Seq(Signature) /\ next_nonce \in Nat
    BY <1>3 DEF Signature, Where, TypeInv, TypeOK
  <1>5. /\ signed' \in Seq(Signature) /\ Len(signed') = Len(signed) + 1
        /\ \A i \in 1..Len(signed) : signed'[i] = signed[i]
        /\ signed'[Len(signed) + 1] = new
    BY <1>2, <1>4, AppendProperties
  <1>6. Len(signed) \in Nat /\ DOMAIN signed = 1..Len(signed) /\ DOMAIN signed' = 1..(Len(signed) + 1)
    BY <1>4, <1>5
  <1>7. Len(signed') <= MaxSigned
    BY <1>0, <1>5, <1>6
  <1> QED BY <1>1, <1>2, <1>3, <1>4, <1>5, <1>6, <1>7

\* Appending adds to a range.
LEMMA AppendRange ==
    ASSUME NEW S, NEW s \in Seq(S), NEW x
    PROVE  Range(Append(s, x)) = Range(s) \cup {x}
  <1>1. DOMAIN Append(s, x) = DOMAIN s \cup {Len(s) + 1} /\ Append(s, x)[Len(s) + 1] = x
    OBVIOUS
  <1>2. \A i \in DOMAIN s : Append(s, x)[i] = s[i]
    OBVIOUS
  <1> QED BY <1>1, <1>2 DEF Range

\* What run.py writes when it reads the hash.
LEMMA Logs ==
    ASSUME TypeInv, Log
    PROVE  /\ unwritten /\ unwritten' = FALSE /\ pc \in {"broadcast", "receipt"} /\ present \in DOMAIN signed
           /\ UNCHANGED <<signed, next_nonce, foreign, appeals, pc, sequence, attempt, hashes, nonce, known,
                          settled, verdict>>
           /\ log # <<>> /\ log' \in Seq(Entry) /\ log' # <<>>
           /\ DOMAIN log' = DOMAIN log /\ Len(log') = Len(log) /\ Len(log) \in DOMAIN log
           /\ \A k \in DOMAIN log \ {Len(log)} : log'[k] = log[k]
           /\ log'[Len(log)] = Open' /\ log[Len(log)] = Open
           /\ Open.call = sequence /\ Open'.call = Open.call /\ Open'.tx = Open.tx
           /\ Open'.hashes # <<>> /\ Last(Open'.hashes) = present
           /\ Range(Open'.hashes) = Range(Open.hashes) \cup {present}
           /\ \A k \in DOMAIN log : log'[k].call = log[k].call /\ log'[k].tx = log[k].tx
  <1> DEFINE h == Append(Open.hashes, present)
             e == [Open EXCEPT !.hashes = h]
  <1>1. /\ unwritten /\ unwritten' = FALSE /\ Write(e)
        /\ UNCHANGED <<signed, next_nonce, foreign, appeals, pc, sequence, attempt, hashes, nonce, known,
                       settled, verdict>>
    BY DEF Log, chainVars
  <1>2. pc \in {"broadcast", "receipt"} /\ log # <<>> /\ Open.call = sequence /\ present \in DOMAIN signed
    BY <1>1 DEF TypeInv, UnderWay, Sending
  <1>3. Open \in Entry /\ log \in Seq(Entry) /\ Len(log) \in DOMAIN log
    BY <1>2, OpenType
  <1>4. present \in 1..MaxSigned /\ Open.hashes \in Seq(1..MaxSigned)
    BY <1>2, <1>3, ProbeRunAssumption DEF Entry, TypeInv, TypeOK, present
  <1>5. /\ h \in Seq(1..MaxSigned) /\ h # <<>> /\ Last(h) = present
        /\ Range(h) = Range(Open.hashes) \cup {present}
    <2>1. h \in Seq(1..MaxSigned) /\ h # <<>> /\ Last(h) = present
      BY <1>4 DEF Last
    <2>2. Range(h) = Range(Open.hashes) \cup {present}
      BY <1>4, AppendRange
    <2> QED BY <2>1, <2>2
  <1> HIDE DEF h
  <1>6. e \in Entry /\ e.call = Open.call /\ e.hashes = h /\ e.tx = Open.tx
    BY <1>3, <1>5 DEF Entry
  <1> HIDE DEF e
  <1>7. /\ log' \in Seq(Entry) /\ log' # <<>> /\ DOMAIN log' = DOMAIN log /\ Len(log') = Len(log)
        /\ Open' = e /\ \A k \in DOMAIN log \ {Len(log)} : log'[k] = log[k]
    BY <1>1, <1>2, <1>3, <1>6, Written
  <1>8. log'[Len(log)] = Open' /\ log[Len(log)] = Open
    BY <1>7 DEF Open
  <1>9. \A k \in DOMAIN log : log'[k].call = log[k].call /\ log'[k].tx = log[k].tx
    BY <1>6, <1>7, <1>8
  <1> QED BY <1>1, <1>2, <1>3, <1>5, <1>6, <1>7, <1>8, <1>9

LEMMA SignTyped ==
    ASSUME TypeInv, Sign
    PROVE  TypeInv'
  <1>1. CASE signed' = signed
    <2>1. pc' = "verdict" /\ verdict' = FAILED /\ UNCHANGED unwritten /\ ~ unwritten
      <3>1. \A n : Append(signed, n) # signed
        <4>1. signed \in Seq(Signature)
          BY DEF TypeInv, TypeOK, Signature
        <4> QED BY <4>1
      <3> QED BY <1>1, <3>1 DEF Sign, Classified, NOT_SENT, FAILED
    <2> QED BY <1>1, <2>1 DEF TypeInv, TypeOK, Logged, UnderWay, Sign, Sending, FAILED
  <1>2. CASE signed' # signed
    <2>1. Logged'
      <3>1. DOMAIN signed \subseteq DOMAIN signed' /\ log' = log
        BY <1>2, Signs
      <3> QED BY <3>1 DEF Logged, TypeInv
    <2>2. UnderWay'
      <3>1. Len(signed') \in DOMAIN signed' /\ log' # <<>> /\ Open'.call = sequence' /\ pc' = "broadcast"
        BY <1>2, Signs DEF Open
      <3> QED BY <3>1 DEF UnderWay, present
    <2>3. hashes' \subseteq DOMAIN signed' /\ known' \subseteq DOMAIN signed' /\ settled' \subseteq DOMAIN signed'
      <3>1. DOMAIN signed \subseteq DOMAIN signed' /\ UNCHANGED <<hashes, known, settled>>
        BY <1>2, Signs
      <3> QED BY <3>1 DEF TypeInv, TypeOK
    <2> QED BY <1>2, <2>1, <2>2, <2>3, Signs DEF TypeInv, TypeOK, Signature
  <1> QED BY <1>1, <1>2

LEMMA LogTyped ==
    ASSUME TypeInv, Log
    PROVE  TypeInv'
  <1>1. Logged'
    <2> SUFFICES ASSUME NEW k \in DOMAIN log
                 PROVE  Range(log'[k].hashes) \subseteq DOMAIN signed /\ log'[k].tx \in DOMAIN signed \cup {NONE}
      BY Logs DEF Logged
    <2>1. CASE k = Len(log)
      BY <2>1, Logs, OpenType
    <2>2. CASE k # Len(log)
      BY <2>2, Logs DEF TypeInv, Logged
    <2> QED BY <2>1, <2>2
  <1>2. UnderWay'
    BY Logs DEF TypeInv, UnderWay, present
  <1> QED BY <1>1, <1>2, Logs DEF TypeInv, TypeOK

LEMMA TypedInitially == Init => TypeInv
  <1> SUFFICES ASSUME Init PROVE TypeInv
    OBVIOUS
  <1>1. TypeOK
    <2>1. /\ sequence \in 1..Calls /\ attempt \in 0..REFUSED_RETRIES + 1 /\ nonce \in Nat \cup {UNPINNED}
          /\ foreign \in 0..MaxForeign /\ appeals \in 0..MaxAppeals
      BY ProbeRunAssumption DEF Init
    <2>2. unwritten \in BOOLEAN
      BY DEF Init
    <2> QED BY <2>1, <2>2 DEF Init, TypeOK
  <1>2. Logged /\ UnderWay
    BY DEF Init, Logged, UnderWay, Sending
  <1>3. Len(signed) <= MaxSigned
    BY ProbeRunAssumption DEF Init
  <1> QED BY <1>1, <1>2, <1>3 DEF TypeInv

\* A variable keeps its type, the log tells of what was signed, and the entry
\* that is open is that of the call under way.
LEMMA TypedSteps == TypeInv /\ [Next]_vars => TypeInv'
  BY SameTyped, ChainTyped, StillTyped, CheckTyped, SignTyped, LogTyped, BroadcastTyped, ReceiptTyped
  DEF Next, Run

LEMMA ProbeRunIsTyped == Spec => []TypeInv
  BY TypedInitially, TypedSteps, PTL DEF Spec

\* The type invariant of the driver, its log and the account it signs for.
THEOREM ProbeRunTypeOK == Spec => []TypeOK
  <1>1. TypeInv => TypeOK
    BY DEF TypeInv
  <1> QED BY <1>1, ProbeRunIsTyped, PTL

-----------------------------------------------------------------------------
(* The ways of a step.                                                       *)

\* What a new entry changes.
LEMMA Opens ==
    ASSUME TypeInv, Check, pc' = "sign"
    PROVE  /\ pc = "check" /\ undecided = {} /\ stray = {} /\ nonce' = UNPINNED
           /\ settled' = settled \cup {i \in unaccounted_l2 : signed[i].where = "reverted"}
           /\ UNCHANGED <<signed, next_nonce, unwritten, sequence, verdict>>
           /\ log \in Seq(Entry) /\ log' \in Seq(Entry) /\ log' # <<>>
           /\ Len(log) \in Nat /\ DOMAIN log = 1..Len(log)
           /\ Len(log') = Len(log) + 1 /\ DOMAIN log' = 1..(Len(log) + 1)
           /\ \A k \in DOMAIN log : log'[k] = log[k]
           /\ log'[Len(log) + 1] = [call |-> sequence, hashes |-> <<>>, tx |-> NONE]
           /\ Open' = [call |-> sequence, hashes |-> <<>>, tx |-> NONE]
  <1> DEFINE e == [call |-> sequence, hashes |-> <<>>, tx |-> NONE]
  <1>1. /\ pc = "check" /\ undecided = {} /\ stray = {} /\ nonce' = UNPINNED
        /\ settled' = settled \cup {i \in unaccounted_l2 : signed[i].where = "reverted"}
        /\ log' = Append(log, e) /\ UNCHANGED <<signed, next_nonce, unwritten, sequence, verdict>>
    BY DEF Check, stop, chainVars
  <1>2. e \in Entry /\ log \in Seq(Entry)
    <2>1. <<>> \in Seq(1..MaxSigned) /\ 0 \in 0..MaxSigned /\ sequence \in 1..Calls
      BY ProbeRunAssumption DEF TypeInv, TypeOK
    <2> QED BY <2>1 DEF TypeInv, TypeOK, Entry, NONE
  <1>3. /\ log' \in Seq(Entry) /\ log' # <<>> /\ Len(log') = Len(log) + 1
        /\ \A k \in 1..Len(log) : log'[k] = log[k]
        /\ log'[Len(log) + 1] = e
    BY <1>1, <1>2, AppendProperties
  <1> HIDE DEF e
  <1>4. Len(log) \in Nat /\ DOMAIN log = 1..Len(log) /\ DOMAIN log' = 1..(Len(log) + 1)
    BY <1>2, <1>3
  <1>5. Open' = e
    BY <1>3, <1>4 DEF Open
  <1> QED BY <1>1, <1>2, <1>3, <1>4, <1>5 DEF e

\* What a consensus id that is printed changes.
LEMMA Receives ==
    ASSUME TypeInv, Receipt, pc' = "decision"
    PROVE  /\ pc = "receipt" /\ ~ unwritten /\ Executed(present) /\ present \in DOMAIN signed
           /\ UNCHANGED <<signed, next_nonce, unwritten, sequence, settled, nonce>>
           /\ log # <<>> /\ log' # <<>> /\ DOMAIN log' = DOMAIN log /\ Len(log') = Len(log)
           /\ Open.call = sequence /\ Open'.call = sequence
           /\ Open'.hashes = Open.hashes /\ Open'.tx = present
           /\ \A k \in DOMAIN log \ {Len(log)} : log'[k] = log[k]
  <1> DEFINE e == [Open EXCEPT !.tx = present]
  <1>1. present \in DOMAIN signed /\ log # <<>> /\ Open.call = sequence /\ pc = "receipt"
    BY DEF Receipt, TypeInv, UnderWay, Sending
  <1>2. UNCHANGED <<signed, next_nonce, unwritten, sequence, settled, nonce>> /\ Executed(present) /\ Write(e) /\ ~ unwritten
    BY DEF Receipt, chainVars, Classified, FAILED, NOT_SENT
  <1>3. Open \in Entry /\ log \in Seq(Entry)
    BY <1>1, OpenType
  <1>4. present \in 0..MaxSigned
    BY <1>1, ProbeRunAssumption DEF TypeInv, TypeOK, present
  <1>5. e \in Entry /\ e.call = Open.call /\ e.hashes = Open.hashes /\ e.tx = present
    BY <1>3, <1>4 DEF Entry
  <1> HIDE DEF e
  <1>6. /\ log' # <<>> /\ DOMAIN log' = DOMAIN log /\ Len(log') = Len(log)
        /\ Open' = e /\ \A k \in DOMAIN log \ {Len(log)} : log'[k] = log[k]
    BY <1>1, <1>2, <1>3, <1>5, Written
  <1> QED BY <1>1, <1>2, <1>5, <1>6

\* A step of the driver that neither signs nor writes.
Moves ==
    /\ UNCHANGED <<log, next_nonce>> /\ Kept /\ settled' \subseteq settled
    /\ pc' = "down" \/ UNCHANGED unwritten
    /\ \/ pc' = "down"
       \/ pc = "down" /\ pc' = "check" /\ sequence' = next_start
       \/ pc' = "verdict" /\ verdict' = FAILED
       \/ pc \in {"decision", "wait"} /\ pc' \in {"verdict", "wait"} /\ UNCHANGED sequence
       \/ pc = "broadcast" /\ pc' \in {"receipt", "not_sent"} /\ UNCHANGED <<sequence, nonce>>
       \/ /\ pc = "not_sent" /\ pc' = "sign" /\ UNCHANGED sequence
          /\ nonce' = IF nonce = UNPINNED THEN signed[present].nonce ELSE nonce
       \/ pc = "verdict" /\ verdict = OK /\ pc' = "check" /\ sequence' = sequence + 1
       \/ UNCHANGED <<pc, sequence, nonce, verdict>>

LEMMA Unsigned == ASSUME UNCHANGED signed PROVE Kept
  BY DEF Kept, Mined, Executed

LEMMA Steps ==
    ASSUME TypeInv, [Next]_vars
    PROVE  \/ Chain
           \/ Check /\ pc' = "sign"
           \/ Sign /\ signed' # signed
           \/ Log
           \/ Receipt /\ pc' = "decision"
           \/ Moves
  <1>1. ASSUME stop, UNCHANGED <<chainVars, log>> PROVE Moves
    BY <1>1, Unsigned DEF Moves, stop, chainVars
  <1>2. CASE Start
    BY <1>2, Unsigned DEF Start, Moves, chainVars
  <1>3. CASE Check
    <2>1. Moves \/ pc' = "sign"
      BY <1>1, <1>3 DEF Check
    <2> QED BY <1>3, <2>1
  <1>4. CASE Sign
    <2>1. CASE signed' = signed
      <3>1. \A n : Append(signed, n) # signed
        <4>1. signed \in Seq(Signature)
          BY DEF TypeInv, TypeOK, Signature
        <4> QED BY <4>1
      <3>2. Classified(FAILED) /\ UNCHANGED <<log, next_nonce, unwritten, settled>>
        BY <1>4, <2>1, <3>1 DEF Sign
      <3> QED BY <2>1, <3>2, Unsigned DEF Classified, FAILED, NOT_SENT, Moves
    <2> QED BY <1>4, <2>1
  <1>5. CASE Broadcast
    <2>1. Kept
      BY <1>5, BroadcastKeeps DEF TypeInv, UnderWay, Sending, Broadcast
    <2> QED BY <1>5, <2>1 DEF Broadcast, Classified, FAILED, NOT_SENT, Moves
  <1>6. CASE Receipt
    <2>1. CASE Classified(FAILED) /\ UNCHANGED log
      BY <1>6, <2>1, Unsigned DEF Receipt, chainVars, Classified, FAILED, NOT_SENT, Moves
    <2> QED BY <1>6, <2>1 DEF Receipt
  <1>7. CASE Decision
    BY <1>7, Unsigned DEF Decision, chainVars, Classified, OK, NOT_SENT, Moves
  <1>8. CASE Wait
    BY <1>8, Unsigned DEF Wait, chainVars, Classified, OK, FAILED, NOT_SENT, Moves
  <1>9. CASE NotSent
    BY <1>9, Unsigned DEF NotSent, chainVars, Classified, FAILED, NOT_SENT, Moves
  <1>10. CASE Verdict
    BY <1>1, <1>10, Unsigned DEF Verdict, chainVars, Moves
  <1>11. CASE Killed
    BY <1>1, <1>11 DEF Killed
  <1>12. CASE UNCHANGED vars
    BY <1>12, Unsigned DEF vars, chainVars, runVars, Moves
  <1> QED BY <1>2, <1>3, <1>4, <1>5, <1>6, <1>7, <1>8, <1>9, <1>10, <1>11, <1>12 DEF Next, Run

-----------------------------------------------------------------------------
(* The log.                                                                  *)

\* What was signed within an entry is for its call, and the consensus
\* transaction printed in it is that of its last signature.
Paired ==
    \A k \in DOMAIN log :
        /\ \A i \in Range(log[k].hashes) : signed[i].call = log[k].call
        /\ log[k].tx # NONE => log[k].hashes # <<>> /\ Last(log[k].hashes) = log[k].tx

\* No id was printed while the broadcast or the receipt is waited for; what is
\* at hand was signed within the open entry, and is the last hash of it once
\* that is written.
AtHand ==
    /\ pc \in Signing \cup {"receipt"} => Open.tx = NONE
    /\ pc \in Sending => signed[present].entry = Len(log) /\ signed[present].call = sequence
    /\ pc \in Sending => unwritten \/ (Open.hashes # <<>> /\ Last(Open.hashes) = present)

LogInv == Paired /\ AtHand

LEMMA ChainPaired ==
    ASSUME TypeInv, LogInv, Chain
    PROVE  LogInv'
  <1>1. UNCHANGED <<log, unwritten, pc, sequence>> /\ Len(signed') = Len(signed)
        /\ \A i \in DOMAIN signed : signed'[i].call = signed[i].call /\ signed'[i].entry = signed[i].entry
    BY ChainSteps DEF TypeInv, runVars, Kept, Takenup
  <1>2. Paired'
    BY <1>1 DEF LogInv, Paired, TypeInv, Logged
  <1>3. AtHand'
    BY <1>1 DEF LogInv, AtHand, Open, present, TypeInv, UnderWay
  <1> QED BY <1>2, <1>3 DEF LogInv

LEMMA MovesPaired ==
    ASSUME TypeInv, LogInv, Moves
    PROVE  LogInv'
  <1>1. UNCHANGED log /\ Len(signed') = Len(signed)
        /\ \A i \in DOMAIN signed : signed'[i].call = signed[i].call /\ signed'[i].entry = signed[i].entry
    BY DEF Moves, Kept
  <1>2. Paired'
    BY <1>1 DEF LogInv, Paired, TypeInv, Logged
  <1>3. AtHand'
    <2>1. pc' \in Signing \cup {"receipt"} => pc \in Signing \cup {"receipt"}
      BY DEF Moves, Signing
    <2>2. pc' \in Sending => pc \in Sending /\ UNCHANGED <<unwritten, sequence>>
      BY DEF Moves, Sending
    <2>3. Open' = Open /\ present' = present /\ (pc \in Sending => present \in DOMAIN signed)
      BY <1>1 DEF Open, present, TypeInv, UnderWay
    <2> QED BY <1>1, <2>1, <2>2, <2>3 DEF LogInv, AtHand
  <1> QED BY <1>2, <1>3 DEF LogInv

LEMMA CheckPaired ==
    ASSUME TypeInv, LogInv, Check, pc' = "sign"
    PROVE  LogInv'
  <1>1. Paired'
    <2> SUFFICES ASSUME NEW k \in DOMAIN log'
                 PROVE  /\ \A i \in Range(log'[k].hashes) : signed[i].call = log'[k].call
                        /\ log'[k].tx # NONE => log'[k].hashes # <<>> /\ Last(log'[k].hashes) = log'[k].tx
      BY Opens DEF Paired
    <2>1. CASE k \in DOMAIN log
      <3>1. log'[k] = log[k]
        BY <2>1, Opens
      <3> QED BY <2>1, <3>1 DEF LogInv, Paired
    <2>2. CASE k = Len(log) + 1
      <3>1. Range(log'[k].hashes) = {} /\ log'[k].tx = NONE
        BY <2>2, Opens DEF Range
      <3> QED BY <3>1
    <2>3. k \in DOMAIN log \/ k = Len(log) + 1
      BY Opens
    <2> QED BY <2>1, <2>2, <2>3
  <1>2. AtHand'
    BY Opens DEF AtHand, Sending
  <1> QED BY <1>1, <1>2 DEF LogInv

LEMMA ReceiptPaired ==
    ASSUME TypeInv, LogInv, Receipt, pc' = "decision"
    PROVE  LogInv'
  <1>1. Open.hashes # <<>> /\ Last(Open.hashes) = present
        /\ signed[present].entry = Len(log) /\ signed[present].call = sequence
    BY Receives DEF LogInv, AtHand, Sending
  <1>2. Paired'
    <2> SUFFICES ASSUME NEW k \in DOMAIN log
                 PROVE  /\ \A i \in Range(log'[k].hashes) : signed[i].call = log'[k].call
                        /\ log'[k].tx # NONE => log'[k].hashes # <<>> /\ Last(log'[k].hashes) = log'[k].tx
      BY Receives DEF Paired
    <2>1. CASE k = Len(log)
      <3>1. log'[k] = Open' /\ log[k] = Open
        BY <2>1, Receives DEF Open
      <3>2. log'[k].hashes = log[k].hashes /\ log'[k].call = log[k].call /\ log'[k].tx = present
        BY <3>1, Receives
      <3> QED BY <1>1, <3>1, <3>2 DEF LogInv, Paired
    <2>2. CASE k # Len(log)
      <3>1. log'[k] = log[k]
        BY <2>2, Receives
      <3> QED BY <3>1 DEF LogInv, Paired
    <2> QED BY <2>1, <2>2
  <1>3. AtHand'
    BY <1>1, Receives DEF AtHand, Signing, present
  <1> QED BY <1>2, <1>3 DEF LogInv

LEMMA SignPaired ==
    ASSUME TypeInv, LogInv, Sign, signed' # signed
    PROVE  LogInv'
  <1>1. log' = log /\ Open' = Open /\ \A i \in DOMAIN signed : signed'[i] = signed[i]
    BY Signs DEF Open
  <1>2. Paired'
    BY <1>1 DEF LogInv, Paired, TypeInv, Logged
  <1>3. Open.tx = NONE
    BY Signs DEF LogInv, AtHand, Signing
  <1>4. signed'[present'].entry = Len(log) /\ signed'[present'].call = sequence'
    BY Signs DEF present
  <1>5. AtHand'
    BY <1>1, <1>3, <1>4, Signs DEF AtHand
  <1> QED BY <1>2, <1>5 DEF LogInv

LEMMA LogPaired ==
    ASSUME TypeInv, LogInv, Log
    PROVE  LogInv'
  <1>1. Open.tx = NONE /\ Open'.tx = NONE /\ signed[present].entry = Len(log) /\ signed[present].call = sequence
    BY Logs DEF LogInv, AtHand, Signing, Sending
  <1>2. Paired'
    <2> SUFFICES ASSUME NEW k \in DOMAIN log
                 PROVE  /\ \A i \in Range(log'[k].hashes) : signed[i].call = log'[k].call
                        /\ log'[k].tx # NONE => log'[k].hashes # <<>> /\ Last(log'[k].hashes) = log'[k].tx
      BY Logs DEF Paired
    <2>1. CASE k = Len(log)
      <3>1. \A i \in Range(Open.hashes) : signed[i].call = Open.call
        BY Logs DEF LogInv, Paired
      <3>2. \A i \in Range(Open'.hashes) : signed[i].call = Open'.call
        BY <1>1, <3>1, Logs
      <3> QED BY <1>1, <2>1, <3>2, Logs
    <2>2. CASE k # Len(log)
      <3>1. log'[k] = log[k]
        BY <2>2, Logs
      <3> QED BY <3>1 DEF LogInv, Paired
    <2> QED BY <2>1, <2>2
  <1>3. present' = present /\ Len(log') = Len(log)
    BY Logs DEF present
  <1>4. AtHand'
    BY <1>1, <1>3, Logs DEF AtHand
  <1> QED BY <1>2, <1>4 DEF LogInv

LEMMA LogInitially == Init => LogInv
  BY DEF Init, LogInv, Paired, AtHand, Signing, Sending

LEMMA LogSteps == TypeInv /\ LogInv /\ [Next]_vars => LogInv'
  BY Steps, ChainPaired, MovesPaired, CheckPaired, ReceiptPaired, SignPaired, LogPaired

LEMMA LogAlways == Spec => []LogInv
  BY LogInitially, LogSteps, ProbeRunIsTyped, PTL DEF Spec

\* Every row of the report is of one transaction, and of the row's call, for
\* any plan, any retries, and however many runs were killed.
THEOREM ProbeRunRowsArePaired == Spec => []RowsArePaired
  <1>1. TypeInv /\ LogInv => RowsArePaired
    <2> SUFFICES ASSUME TypeInv, LogInv PROVE RowsArePaired
      OBVIOUS
    <2>1. ASSUME NEW k \in DOMAIN log PROVE parse_log(k).tx = log[k].tx
          /\ (log[k].hashes # <<>> => parse_log(k).l2_hash = Last(log[k].hashes))
      BY DEF parse_log
    <2> QED BY <2>1 DEF RowsArePaired, LogInv, Paired
  <1> QED BY <1>1, LogAlways, ProbeRunIsTyped, PTL

-----------------------------------------------------------------------------
(* Nonces.                                                                   *)

\* Each signature has the nonce that was next, and only that can be mined, once.
Counted ==
    /\ \A i \in DOMAIN signed : signed[i].nonce <= next_nonce /\ (Mined(i) => signed[i].nonce < next_nonce)
    /\ \A i, j \in DOMAIN signed : i < j => signed[i].nonce <= signed[j].nonce
    /\ \A i, j \in DOMAIN signed : Mined(i) /\ Mined(j) /\ signed[i].nonce = signed[j].nonce => i = j

\* The repeats of a call hold on to the nonce of the first.
HeldTogether ==
    /\ \A i, j \in DOMAIN signed : signed[i].entry = signed[j].entry => signed[i].nonce = signed[j].nonce
    /\ \A i \in DOMAIN signed : signed[i].entry <= Len(log)
    /\ pc = "sign" /\ nonce = UNPINNED => \A i \in DOMAIN signed : signed[i].entry # Len(log)
    /\ pc \in Signing /\ nonce # UNPINNED =>
         \A i \in DOMAIN signed : signed[i].entry = Len(log) => signed[i].nonce = nonce

NonceInv == Counted /\ HeldTogether

LEMMA SignatureType ==
    ASSUME TypeInv
    PROVE  /\ next_nonce \in Nat /\ Len(signed) \in Nat /\ DOMAIN signed = 1..Len(signed) /\ Len(log) \in Nat
           /\ \A i \in DOMAIN signed : signed[i].nonce \in Nat /\ signed[i].call \in 1..Calls /\ signed[i].entry \in Nat
  <1>1. signed \in Seq(Signature) /\ log \in Seq(Entry)
    BY DEF TypeInv, TypeOK, Signature
  <1>2. \A i \in DOMAIN signed : signed[i] \in Signature
    BY <1>1
  <1> QED BY <1>1, <1>2 DEF Signature, TypeInv, TypeOK

LEMMA ChainCounted ==
    ASSUME TypeInv, NonceInv, Chain
    PROVE  NonceInv'
  <1>1. next_nonce' \in Nat /\ next_nonce' >= next_nonce /\ UNCHANGED <<log, pc, nonce>>
    BY ChainSteps DEF TypeInv, runVars
  <1>2. /\ DOMAIN signed' = DOMAIN signed
        /\ \A i \in DOMAIN signed : signed'[i].nonce = signed[i].nonce /\ signed'[i].entry = signed[i].entry
    BY ChainSteps DEF TypeInv, Kept, Takenup
  <1>3. HeldTogether'
    BY <1>1, <1>2 DEF NonceInv, HeldTogether
  <1>4. CASE Kept
    <2>1. \A i \in DOMAIN signed : Mined(i)' <=> Mined(i)
      BY <1>4 DEF Kept
    <2> QED BY <1>1, <1>2, <1>3, <2>1, SignatureType DEF NonceInv, Counted
  <1>5. ASSUME NEW t \in DOMAIN signed, Takenup(t) PROVE NonceInv'
    <2>1. ~ Mined(t) /\ signed[t].nonce = next_nonce /\ next_nonce' = next_nonce + 1
          /\ \A j \in DOMAIN signed \ {t} : Mined(j)' <=> Mined(j)
      BY <1>5 DEF Takenup, Mined
    <2>2. \A i \in DOMAIN signed : signed'[i].nonce <= next_nonce' /\ (Mined(i)' => signed'[i].nonce < next_nonce')
      BY <1>2, <2>1, SignatureType DEF NonceInv, Counted
    <2>3. \A i, j \in DOMAIN signed : i < j => signed'[i].nonce <= signed'[j].nonce
      BY <1>2 DEF NonceInv, Counted
    <2>4. ASSUME NEW i \in DOMAIN signed, NEW j \in DOMAIN signed, Mined(i)', Mined(j)',
                 signed'[i].nonce = signed'[j].nonce
          PROVE  i = j
      <3>1. \A u \in DOMAIN signed : Mined(u) => signed[u].nonce # next_nonce
        BY SignatureType DEF NonceInv, Counted
      <3> QED BY <1>2, <2>1, <2>4, <3>1 DEF NonceInv, Counted
    <2> QED BY <1>2, <1>3, <2>2, <2>3, <2>4 DEF NonceInv, Counted
  <1> QED BY <1>4, <1>5, ChainSteps DEF TypeInv

LEMMA MovesCounted ==
    ASSUME TypeInv, LogInv, NonceInv, Moves
    PROVE  NonceInv'
  <1>1. /\ UNCHANGED <<log, next_nonce>> /\ DOMAIN signed' = DOMAIN signed
        /\ \A i \in DOMAIN signed : signed'[i].nonce = signed[i].nonce /\ (Mined(i)' <=> Mined(i))
        /\ \A i \in DOMAIN signed : signed'[i].entry = signed[i].entry
    BY DEF Moves, Kept
  <1>2. Counted'
    BY <1>1 DEF NonceInv, Counted
  <1>3. /\ \A i, j \in DOMAIN signed' : signed'[i].entry = signed'[j].entry => signed'[i].nonce = signed'[j].nonce
        /\ \A i \in DOMAIN signed' : signed'[i].entry <= Len(log')
    BY <1>1 DEF NonceInv, HeldTogether
  <1>4. CASE pc = "not_sent" /\ pc' = "sign" /\ nonce' = IF nonce = UNPINNED THEN signed[present].nonce ELSE nonce
    <2>1. present \in DOMAIN signed /\ signed[present].entry = Len(log)
      BY <1>4 DEF TypeInv, UnderWay, LogInv, AtHand, Sending
    <2>2. \A i \in DOMAIN signed : signed[i].entry = Len(log) => signed[i].nonce = nonce'
      BY <1>4, <2>1 DEF NonceInv, HeldTogether, Signing
    <2>3. nonce' # UNPINNED
      BY <2>1, <2>2, SignatureType DEF UNPINNED
    <2>4. HeldTogether'
      BY <1>1, <1>3, <2>2, <2>3 DEF HeldTogether
    <2> QED BY <1>2, <2>4 DEF NonceInv
  <1>5. CASE pc' \notin Signing
    BY <1>2, <1>3, <1>5 DEF NonceInv, HeldTogether, Signing
  <1>6. CASE pc' \in Signing /\ pc \in Signing /\ nonce' = nonce /\ (pc' = "sign" => pc = "sign")
    BY <1>1, <1>2, <1>3, <1>6 DEF NonceInv, HeldTogether
  <1> QED BY <1>4, <1>5, <1>6 DEF Moves, Signing

LEMMA CheckCounted ==
    ASSUME TypeInv, NonceInv, Check, pc' = "sign"
    PROVE  NonceInv'
  <1>1. Counted'
    BY Opens DEF NonceInv, Counted, Mined
  <1>2. UNCHANGED signed /\ nonce' = UNPINNED /\ Len(log') = Len(log) + 1
    BY Opens
  <1>3. \A i \in DOMAIN signed : signed[i].entry <= Len(log') /\ signed[i].entry # Len(log')
    BY <1>2, SignatureType DEF NonceInv, HeldTogether
  <1>4. HeldTogether'
    BY <1>2, <1>3 DEF NonceInv, HeldTogether
  <1> QED BY <1>1, <1>4 DEF NonceInv

LEMMA ReceiptCounted ==
    ASSUME TypeInv, NonceInv, Receipt, pc' = "decision"
    PROVE  NonceInv'
  <1>1. Counted'
    BY Receives DEF NonceInv, Counted, Mined
  <1>2. HeldTogether'
    BY Receives DEF NonceInv, HeldTogether, Signing
  <1> QED BY <1>1, <1>2 DEF NonceInv

LEMMA LogCounted ==
    ASSUME TypeInv, NonceInv, Log
    PROVE  NonceInv'
  <1>1. Counted'
    BY Logs DEF NonceInv, Counted, Mined
  <1>2. HeldTogether'
    BY Logs DEF NonceInv, HeldTogether
  <1> QED BY <1>1, <1>2 DEF NonceInv

LEMMA SignCounted ==
    ASSUME TypeInv, NonceInv, Sign, signed' # signed
    PROVE  NonceInv'
  <1>0. PICK new \in Nat : new = Len(signed) + 1
    BY Signs
  <1>1. /\ new \in DOMAIN signed' /\ signed'[new].nonce = next_nonce /\ ~ Mined(new)' /\ signed'[new].entry = Len(log)
        /\ DOMAIN signed' = DOMAIN signed \cup {new} /\ new \notin DOMAIN signed
    <2>1. Len(signed) \in Nat /\ DOMAIN signed = 1..Len(signed) /\ DOMAIN signed' = 1..new
      BY <1>0, Signs
    <2>2. signed'[new] = [call |-> sequence, entry |-> Len(log), nonce |-> next_nonce, where |-> "out"]
      BY <1>0, Signs
    <2>3. signed'[new].nonce = next_nonce /\ ~ Mined(new)' /\ signed'[new].entry = Len(log)
      BY <2>2 DEF Mined
    <2> QED BY <1>0, <2>1, <2>3
  <1>2. \A i \in DOMAIN signed : /\ signed'[i].nonce = signed[i].nonce /\ signed'[i].entry = signed[i].entry
                                 /\ (Mined(i)' <=> Mined(i)) /\ i < new
    <2>1. \A i \in DOMAIN signed : signed'[i] = signed[i]
      BY Signs
    <2>2. \A i \in DOMAIN signed : i < new
      BY <1>0, Signs
    <2> QED BY <2>1, <2>2 DEF Mined
  <1>3. next_nonce' = next_nonce /\ next_nonce \in Nat /\ new \in Nat /\ log' = log /\ Len(log) \in Nat
    BY Signs
  <1>4. Counted'
    <2>1. ASSUME NEW i \in DOMAIN signed'
          PROVE  signed'[i].nonce <= next_nonce' /\ (Mined(i)' => signed'[i].nonce < next_nonce')
      <3>1. CASE i = new
        BY <1>1, <1>3, <3>1
      <3>2. CASE i \in DOMAIN signed
        BY <1>2, <1>3, <3>2 DEF NonceInv, Counted
      <3> QED BY <1>1, <3>1, <3>2
    <2>2. ASSUME NEW i \in DOMAIN signed', NEW j \in DOMAIN signed', i < j
          PROVE  signed'[i].nonce <= signed'[j].nonce
      <3>1. i \in DOMAIN signed
        <4>1. j \in DOMAIN signed => j < new
          BY <1>2
        <4>2. j = new \/ j \in DOMAIN signed
          BY <1>1
        <4>3. DOMAIN signed' \subseteq Nat
          BY Signs
        <4> QED BY <1>1, <1>3, <2>2, <4>1, <4>2, <4>3
      <3>2. CASE j = new
        BY <1>1, <1>2, <3>1, <3>2 DEF NonceInv, Counted
      <3>3. CASE j \in DOMAIN signed
        BY <1>2, <2>2, <3>1, <3>3 DEF NonceInv, Counted
      <3> QED BY <1>1, <3>2, <3>3
    <2>3. ASSUME NEW i \in DOMAIN signed', NEW j \in DOMAIN signed', Mined(i)', Mined(j)',
                 signed'[i].nonce = signed'[j].nonce
          PROVE  i = j
      <3>1. i \in DOMAIN signed /\ j \in DOMAIN signed
        BY <1>1, <2>3
      <3> QED BY <1>2, <2>3, <3>1 DEF NonceInv, Counted
    <2> QED BY <2>1, <2>2, <2>3 DEF Counted
  <1>5. \A i \in DOMAIN signed : signed[i].entry = Len(log) => signed[i].nonce = next_nonce
    BY Signs DEF NonceInv, HeldTogether, Signing
  <1>6. \A i \in DOMAIN signed' : signed'[i].entry = Len(log) => signed'[i].nonce = next_nonce
    BY <1>1, <1>2, <1>5
  <1>7. \A i, j \in DOMAIN signed' : signed'[i].entry = signed'[j].entry => signed'[i].nonce = signed'[j].nonce
    BY <1>1, <1>2, <1>6 DEF NonceInv, HeldTogether
  <1>8. \A i \in DOMAIN signed' : signed'[i].entry <= Len(log')
    BY <1>1, <1>2, <1>3 DEF NonceInv, HeldTogether
  <1>9. pc' = "broadcast" /\ nonce' = nonce /\ (nonce = UNPINNED \/ nonce = next_nonce)
    BY Signs
  <1>10. HeldTogether'
    BY <1>3, <1>6, <1>7, <1>8, <1>9 DEF HeldTogether
  <1> QED BY <1>4, <1>10 DEF NonceInv

LEMMA NonceInitially == Init => NonceInv
  BY DEF Init, NonceInv, Counted, HeldTogether, Signing

LEMMA NonceSteps == TypeInv /\ LogInv /\ NonceInv /\ [Next]_vars => NonceInv'
  BY Steps, ChainCounted, MovesCounted, CheckCounted, ReceiptCounted, SignCounted, LogCounted

LEMMA NonceAlways == Spec => []NonceInv
  BY NonceInitially, NonceSteps, LogAlways, ProbeRunIsTyped, PTL DEF Spec

\* Whatever the node said, forgot or took late, and whatever run.py did not
\* live to write: of all that was signed for one run of a call, one transaction
\* is executed at most.
THEOREM ProbeRunOnePerEntry == Spec => []OnePerEntry
  <1>1. TypeInv /\ NonceInv => OnePerEntry
    <2> SUFFICES ASSUME TypeInv, NonceInv, NEW k \in DOMAIN log
                 PROVE  Cardinality({i \in DOMAIN signed : signed[i].entry = k /\ Executed(i)}) <= 1
      BY DEF OnePerEntry
    <2> DEFINE done == {i \in DOMAIN signed : signed[i].entry = k /\ Executed(i)}
    <2>1. \A i, j \in done : i = j
      BY DEF NonceInv, Counted, HeldTogether, Executed, Mined
    <2>2. done = {} \/ \E i \in done : done = {i}
      BY <2>1
    <2> HIDE DEF done
    <2>3. \A i : Cardinality({i}) = 1
      BY FS_Singleton
    <2>4. Cardinality({}) = 0
      BY FS_EmptySet
    <2>5. Cardinality(done) = 0 \/ Cardinality(done) = 1
      BY <2>2, <2>3, <2>4
    <2> QED BY <2>5 DEF done
  <1> QED BY <1>1, NonceAlways, ProbeRunIsTyped, PTL

-----------------------------------------------------------------------------
(* Calls.                                                                    *)

\* The calls come in the order of the plan, and one that has its consensus
\* transaction is not opened again; what the caches take for settled is; a
\* transaction that could still be mined is of the open call, and none is once
\* that call has its consensus transaction.
Ordered ==
    /\ \A k, l \in DOMAIN log :
         k < l => log[k].call <= log[l].call /\ (log[k].tx # NONE => log[k].call < log[l].call)
    /\ \A i \in settled : signed[i].where = "reverted"
    /\ \A i \in DOMAIN signed :
         signed[i].nonce = next_nonce => log # <<>> /\ signed[i].call = Open.call /\ Open.tx = NONE

\* The run goes on where the log says.
Follows ==
    /\ pc = "check" => sequence = next_start
    /\ pc \in {"decision", "wait"} \/ (pc = "verdict" /\ verdict = OK) =>
         log # <<>> /\ Open.call = sequence /\ Open.tx # NONE

OrderInv == Ordered /\ Follows

LEMMA ChainOrdered ==
    ASSUME TypeInv, NonceInv, OrderInv, Chain
    PROVE  OrderInv'
  <1>1. next_nonce' \in Nat /\ next_nonce' >= next_nonce /\ UNCHANGED <<log, pc, sequence, settled, verdict>>
    BY ChainSteps DEF TypeInv, runVars
  <1>2. /\ DOMAIN signed' = DOMAIN signed
        /\ \A i \in DOMAIN signed : signed'[i].nonce = signed[i].nonce /\ signed'[i].call = signed[i].call
    BY ChainSteps DEF TypeInv, Kept, Takenup
  <1>3. Open' = Open /\ next_start' = next_start
    BY <1>1 DEF Open, next_start
  <1>4. Follows'
    BY <1>1, <1>3 DEF OrderInv, Follows
  <1>5. ASSUME NEW i \in settled PROVE signed'[i].where = "reverted"
    <2>1. i \in DOMAIN signed /\ signed[i].where = "reverted"
      BY DEF OrderInv, Ordered, TypeInv, TypeOK
    <2> QED BY <2>1, ChainSteps DEF TypeInv, Kept, Takenup, Mined
  <1>6. ASSUME NEW i \in DOMAIN signed, signed'[i].nonce = next_nonce'
        PROVE  log # <<>> /\ signed'[i].call = Open.call /\ Open.tx = NONE
    <2>1. signed[i].nonce = next_nonce
      BY <1>1, <1>2, <1>6, SignatureType DEF NonceInv, Counted
    <2> QED BY <1>2, <2>1 DEF OrderInv, Ordered
  <1> QED BY <1>1, <1>2, <1>3, <1>4, <1>5, <1>6 DEF OrderInv, Ordered

LEMMA MovesOrdered ==
    ASSUME TypeInv, OrderInv, Moves
    PROVE  OrderInv'
  <1>1. /\ UNCHANGED <<log, next_nonce>> /\ DOMAIN signed' = DOMAIN signed /\ settled' \subseteq settled
        /\ \A i \in DOMAIN signed :
             /\ signed'[i].nonce = signed[i].nonce /\ signed'[i].call = signed[i].call
             /\ signed[i].where = "reverted" => signed'[i].where = "reverted"
    BY DEF Moves, Kept
  <1>2. Open' = Open /\ next_start' = next_start /\ settled \subseteq DOMAIN signed
    BY <1>1 DEF Open, next_start, TypeInv, TypeOK
  <1>3. Ordered'
    <2>1. \A i \in settled' : signed'[i].where = "reverted"
      <3>1. \A i \in settled : signed[i].where = "reverted"
        BY DEF OrderInv, Ordered
      <3>2. \A i \in settled' : i \in settled /\ i \in DOMAIN signed
        BY <1>1, <1>2
      <3>3. \A i \in DOMAIN signed : signed[i].where = "reverted" => signed'[i].where = "reverted"
        BY <1>1
      <3> QED BY <3>1, <3>2, <3>3
    <2>2. \A i \in DOMAIN signed : signed'[i].nonce = next_nonce =>
            log # <<>> /\ signed'[i].call = Open.call /\ Open.tx = NONE
      BY <1>1 DEF OrderInv, Ordered
    <2>3. Ordered => Ordered'
      <3>1. DOMAIN signed' = DOMAIN signed /\ log' = log /\ next_nonce' = next_nonce
        BY <1>1
      <3> QED BY <1>2, <2>1, <2>2, <3>1 DEF Ordered
    <2> QED BY <2>3 DEF OrderInv
  <1>4. Follows'
    BY <1>1, <1>2 DEF Moves, OrderInv, Follows, FAILED, OK, next_start
  <1> QED BY <1>3, <1>4 DEF OrderInv

LEMMA CheckOrdered ==
    ASSUME TypeInv, OrderInv, Check, pc' = "sign"
    PROVE  OrderInv'
  <1>1. log' # <<>> /\ Open'.call = sequence /\ Open'.tx = NONE /\ sequence = next_start
        /\ signed' = signed /\ next_nonce' = next_nonce
    BY Opens DEF OrderInv, Follows
  <1>2. log # <<>> => Len(log) \in DOMAIN log /\ Open.call \in 1..Calls
    BY OpenType DEF Entry
  <1>4. ASSUME NEW k \in DOMAIN log', NEW l \in DOMAIN log', k < l
        PROVE  log'[k].call <= log'[l].call /\ (log'[k].tx # NONE => log'[k].call < log'[l].call)
    <2>1. k \in DOMAIN log /\ log'[k] = log[k] /\ (l \in DOMAIN log => log'[l] = log[l])
          /\ (l \in DOMAIN log \/ l = Len(log) + 1) /\ k \in 1..Len(log) /\ Len(log) \in Nat
      BY <1>4, Opens
    <2>2. CASE l \in DOMAIN log
      BY <1>4, <2>1, <2>2 DEF OrderInv, Ordered
    <2>3. CASE l = Len(log) + 1
      <3>1. log'[l].call = sequence
        BY <2>3, Opens
      <3>2. log # <<>> /\ next_start = IF Open.tx = NONE THEN Open.call ELSE Open.call + 1
        BY <2>1 DEF next_start
      <3>3. k # Len(log) => /\ log[k].call <= Open.call
                            /\ log[k].tx # NONE => log[k].call < Open.call
        <4>1. k # Len(log) => k < Len(log)
          BY <2>1
        <4> QED BY <1>2, <2>1, <3>2, <4>1 DEF OrderInv, Ordered, Open
      <3>4. k = Len(log) => log[k] = Open
        BY DEF Open
      <3>5. log[k].call \in 1..Calls /\ Open.call \in 1..Calls /\ Calls \in Nat
        <4>1. log \in Seq(Entry) /\ k \in DOMAIN log
          BY <2>1 DEF TypeInv, TypeOK
        <4>2. log[k] \in Entry
          BY <4>1
        <4> QED BY <1>2, <3>2, <4>2, ProbeRunAssumption DEF Entry
      <3>6. log'[k] = log[k] /\ sequence = next_start
        BY <1>1, <2>1
      <3>7. CASE k = Len(log)
        BY <3>1, <3>2, <3>4, <3>5, <3>6, <3>7
      <3>8. CASE k # Len(log)
        BY <3>1, <3>2, <3>3, <3>5, <3>6, <3>8
      <3> QED BY <3>7, <3>8
    <2> QED BY <2>1, <2>2, <2>3
  <1>5. \A i \in settled' : signed[i].where = "reverted"
    BY Opens DEF OrderInv, Ordered
  <1>6. ASSUME NEW i \in DOMAIN signed, signed[i].nonce = next_nonce
        PROVE  signed[i].call = sequence
    BY <1>1, <1>6 DEF OrderInv, Ordered, next_start
  <1>7. Ordered'
    BY <1>1, <1>4, <1>5, <1>6 DEF Ordered
  <1>8. Follows'
    BY DEF Follows
  <1> QED BY <1>7, <1>8 DEF OrderInv

LEMMA ReceiptOrdered ==
    ASSUME TypeInv, NonceInv, OrderInv, Receipt, pc' = "decision"
    PROVE  OrderInv'
  <1>1. \A k \in DOMAIN log : log'[k].hashes = log[k].hashes /\ log'[k].call = log[k].call
    BY Receives DEF Open
  <1>2. \A k \in DOMAIN log : k # Len(log) => log'[k].tx = log[k].tx
    BY Receives
  <1>3. DOMAIN log' = DOMAIN log /\ Len(log) \in Nat /\ DOMAIN log = 1..Len(log)
    BY Receives DEF TypeInv, TypeOK
  <1>4. ASSUME NEW k \in DOMAIN log, NEW l \in DOMAIN log, k < l
        PROVE  log'[k].call <= log'[l].call /\ (log'[k].tx # NONE => log'[k].call < log'[l].call)
    <2>1. k # Len(log)
      BY <1>3, <1>4
    <2> QED BY <1>1, <1>2, <1>4, <2>1 DEF OrderInv, Ordered
  <1>5. ASSUME NEW i \in DOMAIN signed PROVE signed[i].nonce # next_nonce
    <2>1. present \in DOMAIN signed /\ Mined(present)
      BY Receives DEF Executed, Mined
    <2>2. i = present \/ i < present
      BY <2>1, SignatureType DEF present
    <2>3. signed[i].nonce <= signed[present].nonce /\ signed[present].nonce < next_nonce
      BY <2>1, <2>2, SignatureType DEF NonceInv, Counted
    <2> QED BY <2>1, <2>3, SignatureType
  <1>6. Ordered'
    BY <1>1, <1>3, <1>4, <1>5, Receives DEF OrderInv, Ordered
  <1>7. present # NONE
    BY Receives, SignatureType DEF NONE
  <1>8. Follows'
    BY <1>7, Receives DEF Follows
  <1> QED BY <1>6, <1>8 DEF OrderInv

LEMMA SignOrdered ==
    ASSUME TypeInv, LogInv, OrderInv, Sign, signed' # signed
    PROVE  OrderInv'
  <1>0. PICK new \in Nat : new = Len(signed) + 1
    BY Signs
  <1>1. /\ DOMAIN signed' = DOMAIN signed \cup {new} /\ signed'[new].call = sequence
        /\ \A i \in DOMAIN signed : signed'[i] = signed[i]
    <2>1. Len(signed) \in Nat /\ DOMAIN signed = 1..Len(signed) /\ DOMAIN signed' = 1..new
      BY <1>0, Signs
    <2>2. DOMAIN signed' = DOMAIN signed \cup {new}
      BY <1>0, <2>1
    <2> QED BY <1>0, <2>2, Signs
  <1>2. /\ log' = log /\ Open' = Open /\ log # <<>> /\ Open.tx = NONE /\ Open.call = sequence
        /\ next_nonce' = next_nonce /\ settled' = settled
    BY Signs DEF Open, LogInv, AtHand, Signing
  <1>3. \A i \in settled' : signed'[i].where = "reverted"
    BY <1>1, <1>2 DEF OrderInv, Ordered, TypeInv, TypeOK
  <1>4. \A i \in DOMAIN signed' : signed'[i].nonce = next_nonce' => signed'[i].call = sequence
    BY <1>1, <1>2 DEF OrderInv, Ordered
  <1>5. Ordered'
    BY <1>2, <1>3, <1>4 DEF OrderInv, Ordered
  <1>6. Follows'
    BY Signs DEF Follows
  <1> QED BY <1>5, <1>6 DEF OrderInv

LEMMA LogOrdered ==
    ASSUME TypeInv, OrderInv, Log
    PROVE  OrderInv'
  <1>1. /\ UNCHANGED <<signed, next_nonce, settled>> /\ DOMAIN log' = DOMAIN log /\ log # <<>> /\ log' # <<>>
        /\ Open'.call = Open.call /\ Open'.tx = Open.tx
        /\ \A k \in DOMAIN log : log'[k].call = log[k].call /\ log'[k].tx = log[k].tx
    BY Logs
  <1>2. Ordered'
    BY <1>1 DEF OrderInv, Ordered
  <1>3. Follows'
    BY Logs DEF Follows
  <1> QED BY <1>2, <1>3 DEF OrderInv

LEMMA OrderInitially == Init => OrderInv
  BY DEF Init, OrderInv, Ordered, Follows

LEMMA OrderSteps == TypeInv /\ LogInv /\ NonceInv /\ OrderInv /\ [Next]_vars => OrderInv'
  BY Steps, ChainOrdered, MovesOrdered, CheckOrdered, ReceiptOrdered, SignOrdered, LogOrdered

-----------------------------------------------------------------------------
(* Calls made twice.                                                         *)

\* In the log and executed, without being the consensus transaction of an entry.
Strays == {i \in unaccounted_l2 : Executed(i)}

AtMostOne(S) == \A i, j \in S : i = j

\* While a call may be signed, the strays are of that call; there is one at
\* most as long as the next signature could be mined, since the one that was
\* mined took the nonce of all the others.
StraysAreOfTheCall ==
    pc \in Signing =>
        /\ nonce <= next_nonce
        /\ \A i \in Strays : signed[i].call = sequence
        /\ pc = "sign" /\ nonce = UNPINNED =>
             Strays = {} \/ (AtMostOne(Strays) /\ \A i \in DOMAIN signed : signed[i].nonce < next_nonce)
        /\ pc = "sign" /\ nonce = next_nonce => AtMostOne(Strays)
        /\ pc # "sign" /\ signed[present].nonce = next_nonce => AtMostOne(Strays)

LEMMA SigningFacts ==
    ASSUME TypeInv, LogInv, pc \in Signing
    PROVE  /\ log # <<>> /\ Open.call = sequence /\ Open.tx = NONE
           /\ pc # "sign" => present \in DOMAIN signed /\ signed[present].entry = Len(log)
  BY DEF TypeInv, UnderWay, LogInv, AtHand, Signing, Sending

LEMMA StraysAreSigned == ASSUME TypeInv PROVE unaccounted_l2 \subseteq DOMAIN signed /\ Strays \subseteq DOMAIN signed
  BY DEF TypeInv, Logged, unaccounted_l2, logged_l2, Strays

LEMMA ChainStrays ==
    ASSUME TypeInv, LogInv, NonceInv, OrderInv, StraysAreOfTheCall, Chain, pc \in Signing
    PROVE  StraysAreOfTheCall'
  <1>1. /\ next_nonce \in Nat /\ next_nonce' \in Nat /\ next_nonce' >= next_nonce
        /\ UNCHANGED <<log, pc, nonce, sequence>>
    BY ChainSteps DEF TypeInv, TypeOK, runVars
  <1>2. /\ DOMAIN signed' = DOMAIN signed /\ Len(signed') = Len(signed)
        /\ \A i \in DOMAIN signed : signed'[i].nonce = signed[i].nonce /\ signed'[i].call = signed[i].call
    BY ChainSteps DEF TypeInv, Kept, Takenup
  <1>3. unaccounted_l2' = unaccounted_l2 /\ present' = present
    BY <1>1, <1>2 DEF unaccounted_l2, logged_l2, logged_transactions, present
  <1>4. nonce \in Int /\ nonce' <= next_nonce'
    BY <1>1 DEF StraysAreOfTheCall, TypeInv, TypeOK, UNPINNED
  <1>5. \A i \in DOMAIN signed : signed[i].nonce \in Nat /\ signed[i].nonce <= next_nonce
    BY SignatureType DEF NonceInv, Counted
  <1>6. pc # "sign" => present \in DOMAIN signed
    BY SigningFacts
  <1>7. CASE Kept
    <2>1. Strays' = Strays
      BY <1>2, <1>3, <1>7, StraysAreSigned DEF Strays, Kept
    <2>2. \A i \in Strays' : signed'[i].call = sequence'
      BY <1>1, <1>2, <2>1, StraysAreSigned DEF StraysAreOfTheCall
    <2>3. ASSUME pc' = "sign", nonce' = UNPINNED
          PROVE  Strays' = {} \/ (AtMostOne(Strays') /\ \A i \in DOMAIN signed' : signed'[i].nonce < next_nonce')
      BY <1>1, <1>2, <1>5, <2>1, <2>3 DEF StraysAreOfTheCall
    <2>4. ASSUME pc' = "sign", nonce' = next_nonce' PROVE AtMostOne(Strays')
      BY <1>1, <1>4, <2>1, <2>4 DEF StraysAreOfTheCall
    <2>5. ASSUME pc' # "sign", signed'[present'].nonce = next_nonce' PROVE AtMostOne(Strays')
      <3>1. signed[present].nonce = next_nonce
        BY <1>1, <1>2, <1>3, <1>5, <1>6, <2>5
      <3> QED BY <1>1, <2>1, <2>5, <3>1 DEF StraysAreOfTheCall
    <2> QED BY <1>4, <2>2, <2>3, <2>4, <2>5 DEF StraysAreOfTheCall, AtMostOne
  <1>8. ASSUME NEW t \in DOMAIN signed, Takenup(t) PROVE StraysAreOfTheCall'
    <2>1. /\ signed[t].nonce = next_nonce /\ next_nonce' = next_nonce + 1
          /\ \A j \in DOMAIN signed \ {t} : signed'[j] = signed[j]
      BY <1>8 DEF Takenup
    <2>2. Strays' \subseteq Strays \cup {t}
      BY <1>2, <1>3, <2>1, StraysAreSigned DEF Strays, Executed
    <2>3. signed[t].call = sequence
      BY <2>1, SigningFacts DEF OrderInv, Ordered
    <2>4. \A i \in Strays' : signed'[i].call = sequence'
      BY <1>1, <1>2, <2>2, <2>3, StraysAreSigned DEF StraysAreOfTheCall
    <2>5. \A i \in DOMAIN signed' : signed'[i].nonce < next_nonce'
      BY <1>1, <1>2, <1>5, <2>1
    <2>6. ASSUME pc' = "sign", nonce' = UNPINNED PROVE AtMostOne(Strays')
      <3>1. Strays = {}
        BY <1>1, <1>5, <2>1, <2>6 DEF StraysAreOfTheCall
      <3> QED BY <2>2, <3>1 DEF AtMostOne
    <2>7. nonce' # next_nonce'
      BY <1>1, <1>4, <2>1 DEF StraysAreOfTheCall
    <2>8. pc # "sign" => signed'[present'].nonce # next_nonce'
      BY <1>1, <1>2, <1>3, <1>5, <1>6, <2>1
    <2> QED BY <1>1, <1>4, <2>4, <2>5, <2>6, <2>7, <2>8 DEF StraysAreOfTheCall, AtMostOne
  <1> QED BY <1>7, <1>8, ChainSteps DEF TypeInv

LEMMA MovesStrays ==
    ASSUME TypeInv, LogInv, NonceInv, StraysAreOfTheCall, Moves
    PROVE  StraysAreOfTheCall'
  <1> SUFFICES ASSUME pc' \in Signing PROVE StraysAreOfTheCall'
    BY DEF StraysAreOfTheCall
  <1>1. /\ UNCHANGED <<log, next_nonce>> /\ DOMAIN signed' = DOMAIN signed /\ Len(signed') = Len(signed)
        /\ \A i \in DOMAIN signed : signed'[i].nonce = signed[i].nonce /\ signed'[i].call = signed[i].call
        /\ \A i \in DOMAIN signed : Executed(i)' <=> Executed(i)
    BY DEF Moves, Kept
  <1>2. unaccounted_l2' = unaccounted_l2 /\ present' = present
    BY <1>1 DEF unaccounted_l2, logged_l2, logged_transactions, present
  <1>3. Strays' = Strays
    BY <1>1, <1>2, StraysAreSigned DEF Strays
  <1>4. /\ pc \in Signing /\ sequence' = sequence
        /\ \/ pc = "broadcast" /\ pc' = "not_sent" /\ nonce' = nonce
           \/ /\ pc = "not_sent" /\ pc' = "sign"
              /\ nonce' = IF nonce = UNPINNED THEN signed[present].nonce ELSE nonce
           \/ pc' = pc /\ nonce' = nonce
    BY DEF Moves, Signing
  <1>5. /\ log # <<>> /\ Open.call = sequence /\ Open.tx = NONE
        /\ pc # "sign" => present \in DOMAIN signed /\ signed[present].entry = Len(log)
    BY <1>4, SigningFacts
  <1>6. \A i \in Strays' : signed'[i].call = sequence'
    BY <1>1, <1>3, <1>4, StraysAreSigned DEF StraysAreOfTheCall
  <1>7. CASE pc = "not_sent" /\ pc' = "sign" /\ nonce' = IF nonce = UNPINNED THEN signed[present].nonce ELSE nonce
    <2>1. nonce' = signed[present].nonce
      BY <1>5, <1>7 DEF NonceInv, HeldTogether, Signing
    <2>2. signed[present].nonce \in Nat /\ signed[present].nonce <= next_nonce
      BY <1>5, <1>7, SignatureType DEF NonceInv, Counted
    <2>3. nonce' # UNPINNED /\ nonce' <= next_nonce'
      BY <1>1, <2>1, <2>2 DEF UNPINNED
    <2>4. nonce' = next_nonce' => AtMostOne(Strays')
      BY <1>1, <1>3, <1>4, <1>7, <2>1 DEF StraysAreOfTheCall
    <2> QED BY <1>6, <1>7, <2>3, <2>4 DEF StraysAreOfTheCall, AtMostOne
  <1>8. CASE pc = "broadcast" /\ pc' = "not_sent" /\ nonce' = nonce
    <2>1. signed'[present'].nonce = next_nonce' => AtMostOne(Strays')
      BY <1>1, <1>2, <1>3, <1>4, <1>5, <1>8 DEF StraysAreOfTheCall
    <2>2. nonce' <= next_nonce'
      BY <1>1, <1>4, <1>8 DEF StraysAreOfTheCall
    <2> QED BY <1>6, <1>8, <2>1, <2>2 DEF StraysAreOfTheCall, AtMostOne
  <1>9. CASE pc' = pc /\ nonce' = nonce
    <2>1. pc' # "sign" /\ signed'[present'].nonce = next_nonce' => AtMostOne(Strays')
      BY <1>1, <1>2, <1>3, <1>4, <1>5, <1>9 DEF StraysAreOfTheCall
    <2>2. pc' = "sign" /\ nonce' = UNPINNED =>
            Strays' = {} \/ (AtMostOne(Strays') /\ \A i \in DOMAIN signed' : signed'[i].nonce < next_nonce')
      BY <1>1, <1>3, <1>4, <1>9 DEF StraysAreOfTheCall
    <2>3. pc' = "sign" /\ nonce' = next_nonce' => AtMostOne(Strays')
      BY <1>1, <1>3, <1>4, <1>9 DEF StraysAreOfTheCall
    <2>4. nonce' <= next_nonce'
      BY <1>1, <1>4, <1>9 DEF StraysAreOfTheCall
    <2> QED BY <1>6, <2>1, <2>2, <2>3, <2>4 DEF StraysAreOfTheCall, AtMostOne
  <1> QED BY <1>4, <1>7, <1>8, <1>9

\* pre_call_check finds none.
LEMMA CheckStrays ==
    ASSUME TypeInv, OrderInv, Check, pc' = "sign"
    PROVE  StraysAreOfTheCall'
  <1>1. unaccounted_l2' = unaccounted_l2
    <2>1. /\ DOMAIN log' = DOMAIN log \cup {Len(log) + 1} /\ log'[Len(log) + 1].tx = NONE
          /\ Range(log'[Len(log) + 1].hashes) = {} /\ \A k \in DOMAIN log : log'[k] = log[k]
      BY Opens DEF Range
    <2>2. logged_l2' = logged_l2 /\ logged_transactions' = logged_transactions
      BY <2>1 DEF logged_l2, logged_transactions
    <2> QED BY <2>2 DEF unaccounted_l2
  <1>2. Strays' = {}
    <2> SUFFICES ASSUME NEW i \in unaccounted_l2, Executed(i) PROVE FALSE
      BY <1>1, Opens DEF Strays, Executed
    <2>1. i \notin settled
      BY DEF OrderInv, Ordered, Executed
    <2>2. i \in stray
      BY <2>1 DEF stray
    <2> QED BY <2>2, Opens
  <1>3. nonce' = UNPINNED /\ next_nonce' \in Nat
    BY Opens DEF TypeInv, TypeOK
  <1>4. nonce' <= next_nonce' /\ nonce' # next_nonce'
    BY <1>3 DEF UNPINNED
  <1> QED BY <1>2, <1>4 DEF StraysAreOfTheCall, AtMostOne

\* A signature is made with one stray at most, and is none before it is written.
LEMMA SignStrays ==
    ASSUME TypeInv, LogInv, StraysAreOfTheCall, Sign, signed' # signed
    PROVE  AtMostOne(Strays) /\ StraysAreOfTheCall'
  <1>1. AtMostOne(Strays)
    BY Signs DEF StraysAreOfTheCall, Signing, AtMostOne
  <1>2. log' = log /\ \A i \in DOMAIN signed : signed'[i] = signed[i]
    BY Signs
  <1>3. unaccounted_l2' = unaccounted_l2
    BY <1>2 DEF unaccounted_l2, logged_l2, logged_transactions
  <1>4. Strays' = Strays
    BY <1>2, <1>3, StraysAreSigned DEF Strays, Executed
  <1>5. \A i \in Strays' : signed'[i].call = sequence'
    BY <1>2, <1>4, Signs, StraysAreSigned DEF StraysAreOfTheCall, Signing
  <1>6. nonce' <= next_nonce' /\ pc' = "broadcast"
    BY Signs DEF StraysAreOfTheCall, Signing
  <1>7. AtMostOne(Strays')
    BY <1>1, <1>4
  <1> QED BY <1>1, <1>5, <1>6, <1>7 DEF StraysAreOfTheCall, AtMostOne

\* Writing a hash makes it a stray if it was executed already, and then the
\* nonce of the call is spent.
LEMMA LogStrays ==
    ASSUME TypeInv, LogInv, NonceInv, StraysAreOfTheCall, Log
    PROVE  StraysAreOfTheCall'
  <1> SUFFICES ASSUME pc \in Signing PROVE StraysAreOfTheCall'
    BY Logs DEF StraysAreOfTheCall
  <1>1. /\ UNCHANGED <<signed, next_nonce, pc, sequence, nonce>> /\ pc = "broadcast" /\ present' = present
        /\ present \in DOMAIN signed /\ signed[present].call = sequence
    BY Logs DEF Signing, Sending, present, LogInv, AtHand
  <1>2. logged_l2' \subseteq logged_l2 \cup {present}
    <2>1. ASSUME NEW k \in DOMAIN log PROVE Range(log'[k].hashes) \subseteq Range(log[k].hashes) \cup {present}
      <3>1. CASE k = Len(log)
        BY <3>1, Logs
      <3>2. CASE k # Len(log)
        BY <3>2, Logs
      <3> QED BY <3>1, <3>2
    <2>2. DOMAIN log' = DOMAIN log
      BY Logs
    <2> QED BY <2>1, <2>2 DEF logged_l2
  <1>3. logged_transactions' = logged_transactions
    <2>1. DOMAIN log' = DOMAIN log /\ \A k \in DOMAIN log : log'[k].tx = log[k].tx
      BY Logs
    <2> QED BY <2>1 DEF logged_transactions
  <1>4. Strays' \subseteq Strays \cup {present} /\ (present \in Strays' => Executed(present))
    BY <1>1, <1>2, <1>3 DEF Strays, unaccounted_l2, Executed
  <1>5. \A i \in Strays' : signed'[i].call = sequence'
    BY <1>1, <1>4 DEF StraysAreOfTheCall
  <1>6. ASSUME signed[present].nonce = next_nonce PROVE AtMostOne(Strays')
    <2>1. ~ Executed(present)
      BY <1>1, <1>6, SignatureType DEF NonceInv, Counted, Executed, Mined
    <2>2. Strays' \subseteq Strays
      BY <1>4, <2>1
    <2> QED BY <1>1, <1>6, <2>2 DEF StraysAreOfTheCall, AtMostOne
  <1> QED BY <1>1, <1>5, <1>6 DEF StraysAreOfTheCall, AtMostOne

LEMMA StraysInitially == Init => StraysAreOfTheCall
  BY DEF Init, StraysAreOfTheCall, Signing

LEMMA StraysSteps ==
    TypeInv /\ LogInv /\ NonceInv /\ OrderInv /\ StraysAreOfTheCall /\ [Next]_vars => StraysAreOfTheCall'
  <1> SUFFICES ASSUME TypeInv, LogInv, NonceInv, OrderInv, StraysAreOfTheCall, [Next]_vars
               PROVE  StraysAreOfTheCall'
    OBVIOUS
  <1>1. CASE Chain
    <2>1. pc' = pc
      BY <1>1, ChainSteps DEF TypeInv, runVars
    <2> QED BY <1>1, <2>1, ChainStrays DEF StraysAreOfTheCall
  <1>2. CASE Receipt /\ pc' = "decision"
    BY <1>2 DEF StraysAreOfTheCall, Signing
  <1> QED BY <1>1, <1>2, Steps, MovesStrays, CheckStrays, SignStrays, LogStrays

\* With one stray at most, of the call that is open, the log shows no call that
\* was made twice.
LEMMA NotTwice ==
    ASSUME TypeInv, LogInv, OrderInv, StraysAreOfTheCall, pc = "sign", AtMostOne(Strays)
    PROVE  ~ MadeTwice
  <1> SUFFICES ASSUME NEW i \in logged_l2, NEW j \in logged_l2, i # j, Executed(i), Executed(j),
                      signed[i].call = signed[j].call
               PROVE  FALSE
    BY DEF MadeTwice
  <1>0. i \in DOMAIN signed /\ j \in DOMAIN signed
    BY DEF TypeInv, Logged, logged_l2
  <1>1. log # <<>> /\ Open.call = sequence /\ Open.tx = NONE /\ Len(log) \in DOMAIN log
        /\ DOMAIN log = 1..Len(log) /\ Len(log) \in Nat
    BY SigningFacts, OpenType DEF Signing
  <1>2. ASSUME NEW k \in DOMAIN log, log[k].tx # NONE
        PROVE  signed[log[k].tx].call = log[k].call /\ log[k].call < sequence
    <2>1. log[k].hashes # <<>> /\ Last(log[k].hashes) = log[k].tx
      BY <1>2 DEF LogInv, Paired
    <2>2. log[k].tx \in Range(log[k].hashes)
      <3>1. log[k].hashes \in Seq(1..MaxSigned)
        <4>1. log[k] \in Entry
          BY DEF TypeInv, TypeOK
        <4> QED BY <4>1 DEF Entry
      <3>2. Len(log[k].hashes) \in DOMAIN log[k].hashes
        BY <2>1, <3>1
      <3> QED BY <2>1, <3>2 DEF Range, Last
    <2>3. k < Len(log)
      BY <1>1, <1>2 DEF Open
    <2> QED BY <1>1, <1>2, <2>2, <2>3 DEF LogInv, Paired, OrderInv, Ordered, Open
  <1>3. \A t \in Strays : signed[t].call = sequence
    BY DEF StraysAreOfTheCall, Signing
  <1>4. \A t \in logged_transactions : \E k \in DOMAIN log : t = log[k].tx /\ log[k].tx # NONE
    BY DEF logged_transactions
  <1>5. \A t \in logged_transactions : signed[t].call < sequence
    BY <1>2, <1>4
  <1>6. sequence \in Nat /\ signed[i].call \in Nat
    BY <1>0, SignatureType DEF TypeInv, TypeOK
  <1>7. CASE i \in Strays /\ j \in Strays
    BY <1>7 DEF AtMostOne
  <1>8. CASE i \in logged_transactions /\ j \in logged_transactions
    <2>1. PICK k \in DOMAIN log : i = log[k].tx /\ log[k].tx # NONE
      BY <1>4, <1>8
    <2>2. PICK l \in DOMAIN log : j = log[l].tx /\ log[l].tx # NONE
      BY <1>4, <1>8
    <2>3. log[k].call = log[l].call /\ k # l /\ log[k].call \in Nat
      BY <1>2, <1>6, <2>1, <2>2
    <2>4. k < l \/ l < k
      BY <1>1, <2>3
    <2> QED BY <2>1, <2>2, <2>3, <2>4 DEF OrderInv, Ordered
  <1>9. CASE (i \in Strays /\ j \in logged_transactions) \/ (i \in logged_transactions /\ j \in Strays)
    BY <1>3, <1>5, <1>6, <1>9
  <1> QED BY <1>7, <1>8, <1>9 DEF Strays, unaccounted_l2

\* A call that the log shows to be made twice is the last, whatever was delayed,
\* killed or retried: nothing is signed after it, in any run.  It says nothing
\* of a hash that a killed run.py had not read from the pipe.
THEOREM ProbeRunDoubleIsTheLast == Spec => DoubleIsTheLast
  <1>1. ASSUME TypeInv, LogInv, NonceInv, OrderInv, StraysAreOfTheCall, [Next]_vars
        PROVE  MadeTwice => Len(signed') = Len(signed)
    <2>1. CASE Chain
      BY <1>1, <2>1, ChainSteps DEF TypeInv, Kept, Takenup
    <2>2. CASE Check /\ pc' = "sign"
      BY <1>1, <2>2, Opens
    <2>3. CASE Sign /\ signed' # signed
      BY <1>1, <2>3, Signs, SignStrays, NotTwice
    <2>4. CASE Receipt /\ pc' = "decision"
      BY <1>1, <2>4, Receives
    <2>5. CASE Moves
      BY <2>5 DEF Moves, Kept
    <2>6. CASE Log
      BY <1>1, <2>6, Logs
    <2> QED BY <1>1, <2>1, <2>2, <2>3, <2>4, <2>5, <2>6, Steps
  <1>2. Spec => []OrderInv
    BY OrderInitially, OrderSteps, NonceAlways, LogAlways, ProbeRunIsTyped, PTL DEF Spec
  <1>3. Spec => []StraysAreOfTheCall
    BY <1>2, StraysInitially, StraysSteps, NonceAlways, LogAlways, ProbeRunIsTyped, PTL DEF Spec
  <1>4. TypeInv /\ LogInv /\ NonceInv /\ OrderInv /\ StraysAreOfTheCall /\ [Next]_vars =>
          [MadeTwice => Len(signed') = Len(signed)]_vars
    BY <1>1
  <1> QED BY <1>2, <1>3, <1>4, NonceAlways, LogAlways, ProbeRunIsTyped, PTL DEF Spec, DoubleIsTheLast
=============================================================================
