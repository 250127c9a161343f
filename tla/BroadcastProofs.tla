--------------------------- MODULE BroadcastProofs ---------------------------
(* What holds of a send for every number of attempts, retries and sends,     *)
(* every set of fees and whatever other programs of the account do.          *)

EXTENDS Broadcast, FiniteSetTheorems, TLAPS

-----------------------------------------------------------------------------
(* The invariant.                                                            *)

Holding == {"broadcast", "spent", "lookup", "receipt"}

\* A send is only made while there are attempts left, and of its own bytes.
Tries == step = "broadcast" => times < BROADCAST_ATTEMPTS
Here  == step # "idle" => Present <= Sends
Holds == step \in Holding => current \in Calls /\ current.send = Present

TypeInv == TypeOK /\ Tries /\ Here /\ Holds

\* A block takes the transactions of the account in the order of their nonces.
Placed == \A i \in DOMAIN mined : mined[i].nonce = i - 1

\* The calls that can still reach the chain, or did.
Live == {t \in Calls : \/ t \in Signed /\ transit[t] > 0
                       \/ t \in pool \cup Range(mined) \cup hashes}

Past == \A t \in Live : /\ t.send <= Present
                        /\ step \in {"idle", "estimate"} => t.send < Present

Alike == \A t, u \in Live : t.send = u.send => t.nonce = u.nonce

\* Whatever the present send signed has the nonce of what it signed last, and
\* that is the pinned one, which is set once there is anything to repeat.
AsCurrent == \A t \in Live : t.send = Present => current.send = Present /\ t.nonce = current.nonce
AsPinned  == step # "idle" /\ nonce # UNPINNED => current.send = Present /\ current.nonce = nonce
Repeats   == step \in {"check", "sign"} /\ nonce = UNPINNED => \A t \in Live : t.send # Present

SentIsMined == \A n \in DOMAIN reports : reports[n] = SENT => \E i \in DOMAIN mined : mined[i].send = n

NonceInv == Placed /\ Past /\ Alike /\ AsCurrent /\ AsPinned /\ Repeats /\ SentIsMined

-----------------------------------------------------------------------------
(* Type correctness.                                                         *)

\* What a sequence holds once something is appended to it.
LEMMA AppendedRange ==
    ASSUME NEW S, NEW s \in Seq(S), NEW e \in S
    PROVE  /\ Append(s, e) \in Seq(S) /\ Len(Append(s, e)) = Len(s) + 1
           /\ Range(Append(s, e)) = Range(s) \cup {e}
           /\ \A i \in 1..Len(s) : Append(s, e)[i] = s[i]
           /\ Append(s, e)[Len(s) + 1] = e
  <1> DEFINE a == Append(s, e)
  <1>1. a \in Seq(S) /\ Len(a) = Len(s) + 1
    OBVIOUS
  <1>2. DOMAIN a = 1..Len(s) + 1 /\ DOMAIN s = 1..Len(s) /\ Len(s) \in Nat
    OBVIOUS
  <1>3. \A i \in 1..Len(s) : a[i] = s[i]
    OBVIOUS
  <1>4. a[Len(s) + 1] = e
    OBVIOUS
  <1>5. 1..Len(s) + 1 = (1..Len(s)) \cup {Len(s) + 1}
    BY <1>2
  <1> HIDE DEF a
  <1>6. Range(a) = Range(s) \cup {e}
    BY <1>2, <1>3, <1>4, <1>5 DEF Range
  <1> QED BY <1>1, <1>3, <1>4, <1>6 DEF a

LEMMA Sorts ==
    /\ \A t \in Signed : t \in Calls
    /\ \A t \in Calls : t.send \in 1..Sends /\ t.nonce \in Nat /\ t.fee \in Fees /\ t.send # 0
    /\ \A t \in Strangers : t.send = 0 /\ t \notin Calls
    /\ UNSIGNED \notin Calls
  BY BroadcastAssumption DEF Signed, Nonces, Calls, Strangers, UNSIGNED, UNPINNED, FOREIGN

\* A request taken by the node is in its pool, and may push others out.
LEMMA TakeTypes ==
    ASSUME NEW S, pool \subseteq S, NEW t \in S, Take(t)
    PROVE  pool' \subseteq S /\ pool' \subseteq pool \cup {t}
  BY DEF Take, Rivals

\* The report that ends a send.
LEMMA Ending ==
    ASSUME TypeInv, step # "idle", NEW r \in Reports,
           reports' = Append(reports, r)
    PROVE  /\ reports' \in Seq(Reports) /\ Len(reports') <= Sends
           /\ Len(reports') = Len(reports) + 1 /\ Present' = Present + 1
           /\ \A n \in DOMAIN reports' :
                \/ n \in DOMAIN reports /\ reports'[n] = reports[n]
                \/ n = Present /\ reports'[n] = r
  <1>1. reports \in Seq(Reports) /\ Present <= Sends
    BY DEF TypeInv, TypeOK, Here
  <1>2. reports' \in Seq(Reports) /\ Len(reports') = Len(reports) + 1
    BY <1>1, AppendedRange
  <1>3. DOMAIN reports' = 1..Len(reports) + 1 /\ DOMAIN reports = 1..Len(reports)
    BY <1>1, <1>2
  <1>4. ASSUME NEW n \in 1..Len(reports) + 1
        PROVE  \/ n \in 1..Len(reports) /\ reports'[n] = reports[n]
               \/ n = Present /\ reports'[n] = r
    BY <1>1, AppendedRange DEF Present
  <1> QED BY <1>1, <1>2, <1>3, <1>4 DEF Present

\* The kinds of step of a send, by what they do to its variables.
Ends == \E r \in Reports : step' = "idle" /\ reports' = Append(reports, r)

LEMMA BeginSendTypes == ASSUME TypeInv, BeginSend PROVE TypeInv'
  <1> USE DEF TypeInv, TypeOK, Tries, Here, Holds, BeginSend, nodeVars, Holding, Present
  <1> QED BY BroadcastAssumption DEF Calls

LEMMA MineTypes == ASSUME TypeInv, Mine PROVE TypeInv'
  <1>1. PICK t \in pool : /\ mined' = Append(mined, t) /\ pool' = pool \ {t}
                          /\ reverted' \in {reverted, reverted \cup {t}}
                          /\ UNCHANGED <<transit, sendVars>>
    BY DEF Mine
  <1>2. t \in Calls \cup Strangers /\ mined \in Seq(Calls \cup Strangers)
    BY DEF TypeInv, TypeOK
  <1>3. mined' \in Seq(Calls \cup Strangers) /\ Range(mined') = Range(mined) \cup {t}
    BY <1>1, <1>2, AppendedRange
  <1> QED BY <1>1, <1>3 DEF TypeInv, TypeOK, Tries, Here, Holds, sendVars, tryVars, Present

LEMMA NodeTypes == ASSUME TypeInv, Evict \/ OtherProgram \/ Arrive PROVE TypeInv'
  <1>1. /\ pool' \subseteq Calls \cup Strangers
        /\ transit' \in [Signed -> Nat]
        /\ UNCHANGED <<mined, reverted, sendVars>>
    <2>1. CASE Evict
      BY <2>1 DEF Evict, TypeInv, TypeOK
    <2>2. CASE OtherProgram
      <3> DEFINE t == [send |-> 0, nonce |-> Len(mined), fee |-> FOREIGN]
      <3>1. mined \in Seq(Calls \cup Strangers)
        BY DEF TypeInv, TypeOK
      <3>2. Len(mined) \in Nat
        BY <3>1
      <3>3. t \in Calls \cup Strangers
        BY <3>2 DEF Strangers
      <3>4. Take(t) /\ UNCHANGED <<mined, reverted, transit, sendVars>>
        BY <2>2 DEF OtherProgram
      <3> HIDE DEF t
      <3> QED BY <3>3, <3>4, TakeTypes DEF TypeInv, TypeOK
    <2>3. CASE Arrive
      <3>1. PICK t \in Signed : /\ transit[t] > 0
                                /\ transit' = [transit EXCEPT ![t] = @ - 1]
                                /\ Take(t) \/ UNCHANGED pool
                                /\ UNCHANGED <<mined, reverted, sendVars>>
        BY <2>3 DEF Arrive
      <3>2. transit' \in [Signed -> Nat]
        <4>1. transit \in [Signed -> Nat]
          BY DEF TypeInv, TypeOK
        <4>2. transit[t] - 1 \in Nat
          BY <3>1, <4>1
        <4> QED BY <3>1, <4>1, <4>2
      <3>3. t \in Calls \cup Strangers
        BY Sorts
      <3> QED BY <3>1, <3>2, <3>3, TakeTypes DEF TypeInv, TypeOK
    <2> QED BY <2>1, <2>2, <2>3
  <1> QED BY <1>1 DEF TypeInv, TypeOK, Tries, Here, Holds, sendVars, tryVars, Present

\* What ends a send and touches no more than the node and reports.
LEMMA EndTypes ==
    ASSUME TypeInv, step # "idle", NEW r \in Reports, End(r), UNCHANGED nodeVars
    PROVE  TypeInv'
  BY Ending DEF End, TypeInv, TypeOK, Tries, Here, Holds, nodeVars, tryVars, Holding

LEMMA GotoTypes ==
    ASSUME TypeInv, step # "idle", NEW label, Goto(label),
           \/ label \in {"check", "sign"}
           \/ label \in {"spent", "receipt"} /\ step \in Holding,
           pool' \subseteq Calls \cup Strangers, UNCHANGED <<mined, reverted, transit>>
    PROVE  TypeInv'
  BY DEF Goto, TypeInv, TypeOK, Tries, Here, Holds, tryVars, Holding, Present

LEMMA EstimateTypes == ASSUME TypeInv, Estimate PROVE TypeInv'
  <1>1. step = "estimate" /\ UNCHANGED nodeVars
    BY DEF Estimate
  <1>2. CASE Goto("check")
    BY <1>1, <1>2, GotoTypes DEF nodeVars, TypeInv, TypeOK
  <1>3. CASE End(NOTHING_SENT) \/ End(CRASH)
    BY <1>1, <1>3, EndTypes DEF Reports
  <1> QED BY <1>2, <1>3 DEF Estimate

LEMMA CheckTypes == ASSUME TypeInv, Check PROVE TypeInv'
  <1>1. step = "check" /\ UNCHANGED nodeVars
    BY DEF Check
  <1>2. CASE Goto("sign")
    BY <1>1, <1>2, GotoTypes DEF nodeVars, TypeInv, TypeOK
  <1>3. CASE End(STOP)
    BY <1>1, <1>3, EndTypes DEF Reports
  <1>4. CASE \E t \in unchecked : /\ unchecked' = unchecked \ {t}
                                  /\ UNCHANGED <<step, reports, tried, times, current, hashes, nonce>>
    BY <1>1, <1>4 DEF TypeInv, TypeOK, Tries, Here, Holds, nodeVars, Holding, Present
  <1> QED BY <1>2, <1>3, <1>4 DEF Check

\* What Sign makes, if it does not end the send.
Signs == \E fee \in Fees :
            /\ Pinned(Len(mined))
            /\ current' = [send |-> Present, nonce |-> Len(mined), fee |-> fee]
            /\ times' = 0 /\ step' = "broadcast"
            /\ UNCHANGED <<reports, tried, hashes, unchecked, nonce>>

LEMMA SignsCurrent ==
    ASSUME TypeInv, step = "sign", Signs
    PROVE  current' \in Calls /\ current'.send = Present /\ current'.nonce = Len(mined)
  <1>1. Present \in 1..Sends /\ Len(mined) \in Nat
    <2>1. mined \in Seq(Calls \cup Strangers) /\ reports \in Seq(Reports) /\ Present <= Sends
      BY DEF TypeInv, TypeOK, Here
    <2> QED BY <2>1, BroadcastAssumption DEF Present
  <1> QED BY <1>1 DEF Signs, Calls

LEMMA SignTypes == ASSUME TypeInv, Sign PROVE TypeInv'
  <1>1. step = "sign" /\ UNCHANGED nodeVars
    BY DEF Sign
  <1>2. CASE Signs
    BY <1>1, <1>2, SignsCurrent, BroadcastAssumption
    DEF Signs, TypeInv, TypeOK, Tries, Here, Holds, nodeVars, Present
  <1>3. CASE End(STOP) \/ End(CRASH)
    BY <1>1, <1>3, EndTypes DEF Reports
  <1> QED BY <1>2, <1>3 DEF Sign, Signs

LEMMA AgainTypes ==
    ASSUME TypeInv, step = "broadcast", Again, transit' \in [Signed -> Nat], UNCHANGED <<pool, mined, reverted>>
    PROVE  TypeInv'
  <1>1. times \in 0..BROADCAST_ATTEMPTS /\ times < BROADCAST_ATTEMPTS
    BY DEF TypeInv, TypeOK, Tries
  <1>2. times' \in 0..BROADCAST_ATTEMPTS /\ (step' = "broadcast" => times' < BROADCAST_ATTEMPTS)
    <2>1. times' = times + 1 /\ BROADCAST_ATTEMPTS \in Nat
      BY BroadcastAssumption DEF Again
    <2>2. step' = "broadcast" => times + 1 # BROADCAST_ATTEMPTS
      BY DEF Again
    <2>3. times' \in 0..BROADCAST_ATTEMPTS
      BY <1>1, <2>1
    <2> QED BY <1>1, <2>1, <2>2, <2>3
  <1> QED BY <1>2 DEF Again, TypeInv, TypeOK, Tries, Here, Holds, Holding, Present

LEMMA SendRawTypes == ASSUME TypeInv, SendRaw PROVE TypeInv'
  <1>1. step = "broadcast" /\ current \in Calls
    BY DEF SendRaw, TypeInv, Holds, Holding
  <1>2. CASE Again /\ transit' = [transit EXCEPT ![current] = @ + 1] /\ UNCHANGED <<pool, mined, reverted>>
    <2>1. transit' \in [Signed -> Nat]
      <3>1. transit \in [Signed -> Nat]
        BY DEF TypeInv, TypeOK
      <3>2. CASE current \in Signed
        <4>1. transit[current] + 1 \in Nat
          BY <3>1, <3>2
        <4> QED BY <1>2, <3>1, <4>1
      <3>3. CASE current \notin Signed
        BY <1>2, <3>1, <3>3
      <3> QED BY <3>2, <3>3
    <2> QED BY <1>1, <1>2, <2>1, AgainTypes
  <1>3. CASE Take(current) /\ Goto("receipt") /\ UNCHANGED <<mined, reverted, transit>>
    <2>1. pool' \subseteq Calls \cup Strangers
      BY <1>1, <1>3, TakeTypes DEF TypeInv, TypeOK
    <2> QED BY <1>1, <1>3, <2>1, GotoTypes DEF Holding
  <1>4. CASE (Goto("receipt") \/ Goto("spent")) /\ UNCHANGED nodeVars
    <2>1. pool' \subseteq Calls \cup Strangers /\ UNCHANGED <<mined, reverted, transit>>
      BY <1>4 DEF TypeInv, TypeOK, nodeVars
    <2> QED BY <1>1, <1>4, <2>1, GotoTypes DEF Holding
  <1>5. CASE Again /\ UNCHANGED nodeVars
    BY <1>1, <1>5, AgainTypes DEF TypeInv, TypeOK, nodeVars
  <1>6. CASE (Refused \/ End(CRASH)) /\ UNCHANGED nodeVars
    BY <1>1, <1>6, EndTypes DEF Reports, Refused
  <1> QED BY <1>2, <1>3, <1>4, <1>5, <1>6 DEF SendRaw

LEMMA SpentTypes == ASSUME TypeInv, Spent PROVE TypeInv'
  <1>1. step = "spent" /\ UNCHANGED nodeVars
    BY DEF Spent
  <1>2. CASE Goto("receipt")
    BY <1>1, <1>2, GotoTypes DEF nodeVars, TypeInv, TypeOK, Holding
  <1>3. CASE End(STOP)
    BY <1>1, <1>3, EndTypes DEF Reports
  <1> QED BY <1>2, <1>3 DEF Spent

LEMMA NotSentTypes == ASSUME TypeInv, step = "lookup", NotSent, UNCHANGED nodeVars PROVE TypeInv'
  <1>1. current \in Calls /\ current.nonce \in Nat /\ hashes' \subseteq Calls /\ hashes \subseteq hashes'
    BY Sorts DEF TypeInv, TypeOK, Holds, Holding, NotSent
  <1>2. nonce' \in Nat \cup {UNPINNED}
    BY <1>1 DEF TypeInv, TypeOK, NotSent
  <1>3. tried \in 1..REFUSED_RETRIES + 1 /\ REFUSED_RETRIES \in Nat
    BY BroadcastAssumption DEF TypeInv, TypeOK
  <1>4. CASE tried > REFUSED_RETRIES
    <2>1. reports' = Append(reports, STOP) /\ step' = "idle" /\ UNCHANGED <<tried, times, current, unchecked>>
      BY <1>4 DEF NotSent
    <2>2. reports' \in Seq(Reports) /\ Len(reports') <= Sends
      BY <2>1, Ending DEF Reports
    <2> QED BY <1>1, <1>2, <2>1, <2>2 DEF TypeInv, TypeOK, Tries, Here, Holds, nodeVars, Holding
  <1>5. CASE tried <= REFUSED_RETRIES
    <2>0. ~(tried > REFUSED_RETRIES)
      BY <1>5, <1>3
    <2>1. /\ step' = "check" /\ tried' = tried + 1 /\ unchecked' = hashes'
          /\ UNCHANGED <<reports, times, current>>
      BY <2>0 DEF NotSent
    <2>2. tried' \in 1..REFUSED_RETRIES + 1
      BY <1>5, <1>3, <2>1
    <2> QED BY <1>1, <1>2, <2>1, <2>2 DEF TypeInv, TypeOK, Tries, Here, Holds, nodeVars, Holding, Present
  <1> QED BY <1>4, <1>5, <1>3

LEMMA LookUpTypes == ASSUME TypeInv, LookUp PROVE TypeInv'
  <1>1. step = "lookup" /\ UNCHANGED nodeVars
    BY DEF LookUp
  <1>2. CASE Goto("receipt")
    BY <1>1, <1>2, GotoTypes DEF nodeVars, TypeInv, TypeOK, Holding
  <1>3. CASE End(STOP)
    BY <1>1, <1>3, EndTypes DEF Reports
  <1>4. CASE NotSent
    BY <1>1, <1>4, NotSentTypes
  <1> QED BY <1>2, <1>3, <1>4 DEF LookUp

LEMMA ReceiptTypes == ASSUME TypeInv, Receipt PROVE TypeInv'
  BY EndTypes DEF Receipt, Reports

\* The types are those of TypeOK, a send is made of its own bytes while there
\* are attempts left, and no more sends are made than are counted.
THEOREM BroadcastTypeOK == Spec => []TypeInv
  <1>1. Init => TypeInv
    <2> SUFFICES ASSUME Init PROVE TypeInv
      OBVIOUS
    <2>1. mined \in Seq(Calls \cup Strangers) /\ Range(mined) = {}
      BY DEF Init, Range
    <2> QED BY <2>1, BroadcastAssumption DEF Init, TypeInv, TypeOK, Tries, Here, Holds, Holding, UNSIGNED
  <1>2. TypeInv /\ [Next]_vars => TypeInv'
    <2> SUFFICES ASSUME TypeInv, [Next]_vars PROVE TypeInv'
      OBVIOUS
    <2>1. CASE BeginSend
      BY <2>1, BeginSendTypes
    <2>2. CASE SendStep
      BY <2>2, EstimateTypes, CheckTypes, SignTypes, SendRawTypes, SpentTypes, LookUpTypes, ReceiptTypes
      DEF SendStep
    <2>3. CASE Weather
      BY <2>3, MineTypes, NodeTypes DEF Weather
    <2>4. CASE UNCHANGED vars
      BY <2>4 DEF vars, nodeVars, sendVars, tryVars, TypeInv, TypeOK, Tries, Here, Holds, Present
    <2> QED BY <2>1, <2>2, <2>3, <2>4 DEF Next
  <1> QED BY <1>1, <1>2, PTL DEF Spec

-----------------------------------------------------------------------------
(* One nonce.                                                                *)

\* What can still reach the chain only grows by what the send holds.
LEMMA LiveGrows ==
    ASSUME TypeInv, [Next]_vars
    PROVE  \A t \in Live' : t \in Live \/ (step \in Holding /\ t = current)
  <1> SUFFICES ASSUME NEW t \in Live' PROVE t \in Live \/ (step \in Holding /\ t = current)
    OBVIOUS
  <1>1. /\ t \in Calls
        /\ \/ t \in Signed /\ transit'[t] > 0
           \/ t \in pool' \cup Range(mined') \cup hashes'
    BY DEF Live
  <1>2. ASSUME UNCHANGED nodeVars, hashes' \subseteq hashes \cup (IF step \in Holding THEN {current} ELSE {})
        PROVE  t \in Live \/ (step \in Holding /\ t = current)
    BY <1>1, <1>2 DEF nodeVars, Live
  <1>3. CASE BeginSend
    BY <1>2, <1>3 DEF BeginSend
  <1>4. CASE Estimate \/ Check \/ Sign \/ Spent \/ Receipt
    <2>1. UNCHANGED nodeVars /\ hashes' = hashes
      BY <1>4 DEF Estimate, Check, Sign, Spent, Receipt, Goto, End, tryVars
    <2> QED BY <1>2, <2>1
  <1>5. CASE LookUp
    <2>1. UNCHANGED nodeVars /\ step \in Holding
      BY <1>5 DEF LookUp, Holding
    <2>2. hashes' \subseteq hashes \cup {current}
      BY <1>5 DEF LookUp, Goto, End, NotSent, tryVars
    <2> QED BY <1>2, <2>1, <2>2
  <1>6. CASE SendRaw
    <2>1. step \in Holding /\ hashes' = hashes /\ mined' = mined
      BY <1>6 DEF SendRaw, Holding, Goto, Again, Refused, End, tryVars, nodeVars
    <2>2. pool' \subseteq pool \cup {current}
      BY <1>6 DEF SendRaw, Take, nodeVars
    <2>3. ASSUME t \in Signed, t # current PROVE transit'[t] = transit[t]
      <3>1. transit' = transit \/ transit' = [transit EXCEPT ![current] = @ + 1]
        BY <1>6 DEF SendRaw, nodeVars
      <3> QED BY <2>3, <3>1 DEF TypeInv, TypeOK
    <2> QED BY <1>1, <2>1, <2>2, <2>3 DEF Live
  <1>7. CASE Mine
    <2>1. PICK x \in pool : /\ mined' = Append(mined, x) /\ pool' = pool \ {x}
                            /\ UNCHANGED <<transit, sendVars>>
      BY <1>7 DEF Mine
    <2>2. x \in Calls \cup Strangers /\ mined \in Seq(Calls \cup Strangers)
      BY DEF TypeInv, TypeOK
    <2>3. Range(mined') = Range(mined) \cup {x}
      BY <2>1, <2>2, AppendedRange
    <2> QED BY <1>1, <2>1, <2>3 DEF Live, sendVars, tryVars
  <1>8. CASE Evict
    BY <1>1, <1>8 DEF Evict, Live, sendVars, tryVars
  <1>9. CASE OtherProgram
    <2> DEFINE x == [send |-> 0, nonce |-> Len(mined), fee |-> FOREIGN]
    <2>1. x.send = 0 /\ Take(x) /\ UNCHANGED <<mined, transit, sendVars>>
      BY <1>9 DEF OtherProgram
    <2> HIDE DEF x
    <2>2. t # x /\ pool' \subseteq pool \cup {x}
      BY <1>1, <2>1, Sorts DEF Take
    <2> QED BY <1>1, <2>1, <2>2 DEF Live, sendVars, tryVars
  <1>10. CASE Arrive
    <2>1. PICK x \in Signed : /\ transit[x] > 0
                              /\ transit' = [transit EXCEPT ![x] = @ - 1]
                              /\ Take(x) \/ UNCHANGED pool
                              /\ UNCHANGED <<mined, sendVars>>
      BY <1>10 DEF Arrive
    <2>2. x \in Live /\ pool' \subseteq pool \cup {x}
      BY <2>1, Sorts DEF Live, Take
    <2>3. ASSUME t \in Signed, t # x PROVE transit'[t] = transit[t]
      BY <2>1, <2>3 DEF TypeInv, TypeOK
    <2> QED BY <1>1, <2>1, <2>2, <2>3 DEF Live, sendVars, tryVars
  <1>11. CASE UNCHANGED vars
    BY <1>1, <1>11 DEF vars, nodeVars, sendVars, tryVars, Live
  <1> QED BY <1>3, <1>4, <1>5, <1>6, <1>7, <1>8, <1>9, <1>10, <1>11 DEF Next, SendStep, Weather

\* What can reach the chain after a step agrees with what was signed before it.
LEMMA LiveAgrees ==
    ASSUME TypeInv, NonceInv, [Next]_vars
    PROVE  /\ \A t \in Live' : /\ t.send <= Present
                               /\ t.send = Present => current.send = Present /\ t.nonce = current.nonce
           /\ Alike'
  <1>1. ASSUME NEW t \in Live'
        PROVE  t.send <= Present /\ (t.send = Present => current.send = Present /\ t.nonce = current.nonce)
    <2>1. CASE t \in Live
      BY <2>1 DEF NonceInv, Past, AsCurrent
    <2>2. CASE step \in Holding /\ t = current
      <3>1. current.send = Present /\ Present \in Nat
        BY <2>2 DEF TypeInv, TypeOK, Holds, Present
      <3> QED BY <2>2, <3>1
    <2> QED BY <2>1, <2>2, LiveGrows
  <1>2. ASSUME NEW t \in Live', NEW u \in Live', t.send = u.send
        PROVE  t.nonce = u.nonce
    <2>1. CASE t \in Live /\ u \in Live
      BY <1>2, <2>1 DEF NonceInv, Alike
    <2>2. CASE step \in Holding /\ (t = current \/ u = current)
      BY <1>1, <1>2, <2>2 DEF TypeInv, Holds
    <2> QED BY <2>1, <2>2, LiveGrows
  <1>3. Alike'
    BY <1>2 DEF Alike
  <1> QED BY <1>1, <1>3

\* A mined transaction stays where it is.
LEMMA MinedStays ==
    ASSUME TypeInv, Placed, [Next]_vars
    PROVE  /\ Placed'
           /\ \A i \in DOMAIN mined : i \in DOMAIN mined' /\ mined'[i] = mined[i]
  <1>1. mined \in Seq(Calls \cup Strangers)
    BY DEF TypeInv, TypeOK
  <1>2. CASE Mine
    <2>1. PICK x \in pool : x.nonce = Len(mined) /\ mined' = Append(mined, x)
      BY <1>2 DEF Mine
    <2>2. x \in Calls \cup Strangers
      BY DEF TypeInv, TypeOK
    <2>3. Len(mined') = Len(mined) + 1 /\ \A i \in 1..Len(mined) : mined'[i] = mined[i]
      BY <1>1, <2>1, <2>2, AppendedRange
    <2>4. mined'[Len(mined) + 1] = x /\ mined' \in Seq(Calls \cup Strangers)
      BY <1>1, <2>1, <2>2, AppendedRange
    <2>5. DOMAIN mined' = 1..Len(mined) + 1 /\ DOMAIN mined = 1..Len(mined) /\ Len(mined) \in Nat
      BY <1>1, <2>3, <2>4
    <2>6. ASSUME NEW i \in 1..Len(mined) + 1 PROVE mined'[i].nonce = i - 1
      <3>1. CASE i \in 1..Len(mined)
        BY <2>3, <2>5, <3>1 DEF Placed
      <3>2. CASE i = Len(mined) + 1
        BY <2>1, <2>4, <2>5, <3>2
      <3> QED BY <2>5, <3>1, <3>2
    <2> QED BY <2>3, <2>5, <2>6 DEF Placed
  <1>3. CASE ~Mine
    <2>1. mined' = mined
      BY <1>3 DEF Next, BeginSend, SendStep, Weather, Estimate, Check, Sign, SendRaw, Spent, LookUp, Receipt,
                  Evict, OtherProgram, Arrive, nodeVars, vars
    <2> QED BY <2>1 DEF Placed
  <1> QED BY <1>2, <1>3

\* Only a mined transaction is reported as sent.
LEMMA SentStep ==
    ASSUME TypeInv, Placed, SentIsMined, [Next]_vars,
           \/ UNCHANGED reports
           \/ /\ step # "idle"
              /\ \E r \in Reports : /\ reports' = Append(reports, r)
                                    /\ r = SENT => \E i \in DOMAIN mined : mined[i].send = Present
    PROVE  SentIsMined'
  <1>1. CASE UNCHANGED reports
    BY <1>1, MinedStays DEF SentIsMined
  <1>2. ASSUME step # "idle", NEW r \in Reports, reports' = Append(reports, r),
               r = SENT => \E i \in DOMAIN mined : mined[i].send = Present
        PROVE  SentIsMined'
    <2>1. ASSUME NEW n \in DOMAIN reports', reports'[n] = SENT
          PROVE  \E i \in DOMAIN mined : mined[i].send = n
      <3>1. \/ n \in DOMAIN reports /\ reports'[n] = reports[n]
            \/ n = Present /\ reports'[n] = r
        BY <1>2, Ending
      <3> QED BY <1>2, <2>1, <3>1 DEF SentIsMined
    <2> QED BY <2>1, MinedStays DEF SentIsMined
  <1> QED BY <1>1, <1>2

\* A step of the node, or none: the send stays as it is.
LEMMA NodeNonce ==
    ASSUME TypeInv, NonceInv, [Next]_vars, UNCHANGED sendVars
    PROVE  NonceInv'
  <1>1. \A t \in Live' : t \in Live \/ (step \in Holding /\ t = current)
    BY LiveGrows
  <1>2. UNCHANGED <<step, reports, current, nonce>> /\ Present' = Present
    BY DEF sendVars, tryVars, Present
  <1>3. Past'
    <2> SUFFICES ASSUME NEW t \in Live' PROVE t.send <= Present /\ (step \in {"idle", "estimate"} => t.send < Present)
      BY <1>2 DEF Past
    <2> QED BY <1>1, LiveAgrees DEF NonceInv, Past, Holding
  <1>4. AsCurrent'
    BY <1>2, LiveAgrees DEF AsCurrent
  <1>5. Repeats'
    BY <1>1, <1>2 DEF NonceInv, Repeats, Holding
  <1>6. AsPinned'
    BY <1>2 DEF NonceInv, AsPinned
  <1> QED BY <1>2, <1>3, <1>4, <1>5, <1>6, LiveAgrees, MinedStays, SentStep DEF NonceInv

\* A send begins: nothing of it is there yet.
LEMMA BeginNonce == ASSUME TypeInv, NonceInv, BeginSend PROVE NonceInv'
  <1>1. [Next]_vars
    BY DEF Next
  <1>2. /\ step = "idle" /\ step' = "estimate" /\ nonce' = UNPINNED
        /\ reports' = reports /\ Present' = Present
    BY DEF BeginSend, Present
  <1>3. \A t \in Live' : t \in Live
    BY <1>1, <1>2, LiveGrows DEF Holding
  <1>4. Present \in Nat /\ \A t \in Live : t.send \in Nat /\ t.send < Present
    <2>1. reports \in Seq(Reports)
      BY DEF TypeInv, TypeOK
    <2> QED BY <1>2, <2>1, Sorts, BroadcastAssumption DEF NonceInv, Past, Live, Present
  <1>5. Past' /\ AsCurrent'
    BY <1>2, <1>3, <1>4 DEF Past, AsCurrent
  <1>6. AsPinned' /\ Repeats'
    BY <1>2 DEF AsPinned, Repeats
  <1> QED BY <1>1, <1>2, <1>5, <1>6, LiveAgrees, MinedStays, SentStep DEF NonceInv

\* A send ends, whatever it reports.
LEMMA EndNonce ==
    ASSUME TypeInv, NonceInv, [Next]_vars, step # "idle", step' = "idle",
           NEW r \in Reports, reports' = Append(reports, r),
           r = SENT => \E i \in DOMAIN mined : mined[i].send = Present
    PROVE  NonceInv'
  <1>1. Present' = Present + 1 /\ Present \in Nat
    <2>1. reports \in Seq(Reports)
      BY DEF TypeInv, TypeOK
    <2> QED BY <2>1, Ending DEF Present
  <1>2. \A t \in Live' : t.send \in Nat /\ t.send <= Present
    BY LiveAgrees, Sorts, BroadcastAssumption DEF Live
  <1>3. Past' /\ AsCurrent'
    BY <1>1, <1>2 DEF Past, AsCurrent
  <1>4. AsPinned' /\ Repeats'
    BY DEF AsPinned, Repeats
  <1>5. SentIsMined'
    BY SentStep DEF NonceInv
  <1> QED BY <1>3, <1>4, <1>5, LiveAgrees, MinedStays DEF NonceInv

\* A send goes on with what it signed.
LEMMA OnNonce ==
    ASSUME TypeInv, NonceInv, [Next]_vars, UNCHANGED <<reports, current, nonce>>, step # "idle",
           step' \notin {"idle", "estimate"},
           step' \in {"check", "sign"} => step \notin Holding
    PROVE  NonceInv'
  <1>1. Present' = Present
    BY DEF Present
  <1>2. Past' /\ AsCurrent'
    BY <1>1, LiveAgrees DEF Past, AsCurrent
  <1>3. AsPinned'
    BY <1>1 DEF NonceInv, AsPinned
  <1>4. ASSUME step' \in {"check", "sign"}, nonce' = UNPINNED, NEW t \in Live'
        PROVE  t.send # Present
    <2>1. t \in Live
      BY <1>4, LiveGrows
    <2>2. CASE step \in {"check", "sign"}
      BY <1>4, <2>1, <2>2 DEF NonceInv, Repeats
    <2>3. CASE step = "estimate"
      <3>1. t.send \in Nat /\ t.send < Present
        BY <2>1, <2>3, Sorts, BroadcastAssumption DEF NonceInv, Past, Live
      <3> QED BY <3>1
    <2> QED BY <1>4, <2>2, <2>3 DEF TypeInv, TypeOK, Holding
  <1>5. Repeats'
    BY <1>1, <1>4 DEF Repeats
  <1> QED BY <1>2, <1>3, <1>5, LiveAgrees, MinedStays, SentStep DEF NonceInv

\* A signature takes the pinned nonce, or is the first of its send.
LEMMA SignNonce == ASSUME TypeInv, NonceInv, step = "sign", Signs, [Next]_vars PROVE NonceInv'
  <1>1. current' \in Calls /\ current'.send = Present /\ current'.nonce = Len(mined)
    BY SignsCurrent
  <1>2. /\ step' = "broadcast" /\ UNCHANGED <<reports, nonce>> /\ Present' = Present
        /\ nonce = UNPINNED \/ nonce = Len(mined)
    BY DEF Signs, Present, Pinned
  <1>3. ASSUME NEW t \in Live', t.send = Present
        PROVE  t.nonce = Len(mined)
    <2>1. t \in Live
      BY LiveGrows DEF Holding
    <2>2. nonce # UNPINNED
      BY <1>3, <2>1 DEF NonceInv, Repeats
    <2>3. current.nonce = Len(mined)
      BY <1>2, <2>2 DEF NonceInv, AsPinned
    <2> QED BY <1>3, <2>1, <2>3 DEF NonceInv, AsCurrent
  <1>4. Past'
    BY <1>2, LiveAgrees DEF Past
  <1>5. AsCurrent'
    BY <1>1, <1>2, <1>3 DEF AsCurrent
  <1>6. AsPinned' /\ Repeats'
    BY <1>1, <1>2 DEF AsPinned, Repeats
  <1> QED BY <1>2, <1>4, <1>5, <1>6, LiveAgrees, MinedStays, SentStep DEF NonceInv

\* A call that was not sent is pinned before it is signed again.
LEMMA NotSentNonce ==
    ASSUME TypeInv, NonceInv, step = "lookup", NotSent, [Next]_vars
    PROVE  NonceInv'
  <1>1. CASE step' = "idle" /\ reports' = Append(reports, STOP)
    BY <1>1, EndNonce DEF Reports, STOP, SENT
  <1>2. CASE step' = "check" /\ UNCHANGED reports
    <2>1. current.send = Present /\ current.nonce \in Nat /\ current' = current /\ Present' = Present
      BY <1>2, Sorts DEF TypeInv, Holds, Holding, NotSent, Present
    <2>2. nonce' # UNPINNED /\ nonce' = current.nonce
      <3>1. nonce' = IF nonce = UNPINNED THEN current.nonce ELSE nonce
        BY DEF NotSent
      <3>2. nonce # UNPINNED => nonce = current.nonce
        BY DEF NonceInv, AsPinned
      <3>3. current.nonce # UNPINNED
        BY <2>1 DEF UNPINNED
      <3> QED BY <3>1, <3>2, <3>3
    <2>3. Past' /\ AsCurrent'
      BY <1>2, <2>1, LiveAgrees DEF Past, AsCurrent
    <2>4. AsPinned' /\ Repeats'
      BY <2>1, <2>2 DEF AsPinned, Repeats
    <2> QED BY <1>2, <2>3, <2>4, LiveAgrees, MinedStays, SentStep DEF NonceInv
  <1> QED BY <1>1, <1>2 DEF NotSent

LEMMA SendNonce == ASSUME TypeInv, NonceInv, SendStep PROVE NonceInv'
  <1>1. [Next]_vars
    BY DEF Next
  <1>2. ASSUME step # "idle", NEW r \in Reports, r # SENT, End(r) PROVE NonceInv'
    BY <1>1, <1>2, EndNonce DEF End
  <1>3. ASSUME step # "idle", NEW label, Goto(label), label \notin {"idle", "estimate"},
               label \in {"check", "sign"} => step \notin Holding
        PROVE  NonceInv'
    BY <1>1, <1>3, OnNonce DEF Goto, tryVars
  <1>4. ASSUME NEW r \in {NOTHING_SENT, STOP, CRASH} PROVE r \in Reports /\ r # SENT
    BY DEF Reports, SENT, NOTHING_SENT, STOP, CRASH
  <1>5. CASE Estimate
    BY <1>2, <1>3, <1>4, <1>5 DEF Estimate, Holding
  <1>6. CASE Check
    <2>1. CASE Goto("sign") \/ End(STOP)
      BY <1>2, <1>3, <1>4, <1>6, <2>1 DEF Check, Holding
    <2>2. CASE UNCHANGED <<step, reports, tried, times, current, hashes, nonce>>
      BY <1>1, <1>6, <2>2, OnNonce DEF Check, Holding
    <2> QED BY <1>6, <2>1, <2>2 DEF Check
  <1>7. CASE Sign
    <2>1. step = "sign"
      BY <1>7 DEF Sign
    <2>2. CASE Signs
      BY <1>1, <2>1, <2>2, SignNonce
    <2>3. CASE End(STOP) \/ End(CRASH)
      BY <1>2, <1>4, <2>1, <2>3
    <2> QED BY <1>7, <2>2, <2>3 DEF Sign, Signs
  <1>8. CASE SendRaw
    <2>1. step = "broadcast"
      BY <1>8 DEF SendRaw
    <2>2. CASE Again
      <3>1. UNCHANGED <<reports, current, nonce>> /\ step' \in {"lookup", "broadcast"}
        BY <2>2 DEF Again
      <3> QED BY <1>1, <2>1, <3>1, OnNonce
    <2>3. CASE Goto("receipt") \/ Goto("spent")
      BY <1>3, <2>1, <2>3
    <2>4. CASE Refused \/ End(CRASH)
      BY <1>2, <1>4, <2>1, <2>4 DEF Refused
    <2> QED BY <1>8, <2>2, <2>3, <2>4 DEF SendRaw
  <1>9. CASE Spent
    BY <1>2, <1>3, <1>4, <1>9 DEF Spent
  <1>10. CASE LookUp
    <2>1. step = "lookup"
      BY <1>10 DEF LookUp
    <2>2. CASE Goto("receipt") \/ End(STOP)
      BY <1>2, <1>3, <1>4, <2>1, <2>2
    <2>3. CASE NotSent
      BY <1>1, <2>1, <2>3, NotSentNonce
    <2> QED BY <1>10, <2>2, <2>3 DEF LookUp
  <1>11. CASE Receipt
    <2>1. step = "receipt"
      BY <1>11 DEF Receipt
    <2>2. CASE End(CRASH) \/ End(STOP)
      BY <1>2, <1>4, <2>1, <2>2
    <2>3. CASE current \in Range(mined) /\ End(SENT)
      <3>1. \E i \in DOMAIN mined : mined[i].send = Present
        BY <2>1, <2>3 DEF Range, TypeInv, Holds, Holding
      <3>2. step' = "idle" /\ reports' = Append(reports, SENT) /\ SENT \in Reports
        BY <2>3 DEF End, Reports
      <3> QED BY <1>1, <2>1, <3>1, <3>2, EndNonce
    <2> QED BY <1>11, <2>2, <2>3 DEF Receipt
  <1> QED BY <1>5, <1>6, <1>7, <1>8, <1>9, <1>10, <1>11 DEF SendStep

\* Every transaction of one send competes for one nonce, whatever gets lost, is
\* repeated or evicted, and whoever else uses the account.
THEOREM BroadcastNonces == Spec => [](TypeInv /\ NonceInv)
  <1>1. Init => NonceInv
    <2> SUFFICES ASSUME Init PROVE NonceInv
      OBVIOUS
    <2>1. mined = <<>> /\ reports = <<>> /\ DOMAIN mined = {} /\ DOMAIN reports = {} /\ Range(mined) = {}
      BY DEF Init, Range
    <2>2. Live = {}
      BY <2>1 DEF Init, Live
    <2> QED BY <2>1, <2>2 DEF Init, NonceInv, Placed, Past, Alike, AsCurrent, AsPinned, Repeats, SentIsMined
  <1>2. TypeInv /\ NonceInv /\ [Next]_vars => NonceInv'
    <2> SUFFICES ASSUME TypeInv, NonceInv, [Next]_vars PROVE NonceInv'
      OBVIOUS
    <2>1. CASE BeginSend
      BY <2>1, BeginNonce
    <2>2. CASE SendStep
      BY <2>2, SendNonce
    <2>3. CASE Weather \/ UNCHANGED vars
      <3>1. UNCHANGED sendVars
        BY <2>3 DEF Weather, Mine, Evict, OtherProgram, Arrive, vars
      <3> QED BY <3>1, NodeNonce
    <2> QED BY <2>1, <2>2, <2>3 DEF Next
  <1> QED BY <1>1, <1>2, BroadcastTypeOK, PTL DEF Spec

\* OneNonce, the pinned nonce of Session.send, for every instance.
THEOREM BroadcastOneNonce == Spec => []OneNonce
  <1>1. TypeInv /\ NonceInv => OneNonce
    BY Sorts DEF NonceInv, Alike, Live, OneNonce
  <1> QED BY <1>1, BroadcastNonces, PTL

-----------------------------------------------------------------------------
(* Each send implements OneTransaction.                                      *)

PaidCounts == [n \in 1..Sends |-> Cardinality(Paid(n))]
Told == [n \in 1..Sends |-> Report(n)]

\* What is mined of a send can still be told by its nonce, and so is one.
LEMMA MinedIsLive ==
    ASSUME TypeInv, NEW n \in 1..Sends, NEW t \in Paid(n)
    PROVE  /\ t \in Live /\ t.send = n
           /\ \E i \in DOMAIN mined : mined[i] = t
  <1>1. PICK i \in DOMAIN mined : mined[i] = t
    BY DEF Paid, Range
  <1>2. t \in Calls \cup Strangers /\ t.send = n
    BY <1>1 DEF TypeInv, TypeOK, Paid
  <1>3. t \in Calls
    BY <1>2, Sorts, BroadcastAssumption
  <1> QED BY <1>1, <1>2, <1>3 DEF Live, Paid

LEMMA PaidOnce ==
    ASSUME TypeInv, NonceInv, NEW n \in 1..Sends
    PROVE  /\ Paid(n) = {} => Cardinality(Paid(n)) = 0
           /\ Paid(n) # {} => Cardinality(Paid(n)) = 1
  <1>1. ASSUME NEW t \in Paid(n), NEW u \in Paid(n) PROVE t = u
    <2>1. PICK i \in DOMAIN mined : mined[i] = t
      BY MinedIsLive
    <2>2. PICK j \in DOMAIN mined : mined[j] = u
      BY MinedIsLive
    <2>3. t.nonce = u.nonce
      BY MinedIsLive DEF NonceInv, Alike
    <2>4. t.nonce = i - 1 /\ u.nonce = j - 1 /\ i \in Nat /\ j \in Nat
      <3>1. mined \in Seq(Calls \cup Strangers)
        BY DEF TypeInv, TypeOK
      <3> QED BY <2>1, <2>2, <3>1 DEF NonceInv, Placed
    <2>5. i - 1 = j - 1
      BY <2>3, <2>4
    <2>6. i = j
      BY <2>4, <2>5
    <2> QED BY <2>1, <2>2, <2>6
  <1>2. ASSUME NEW t \in Paid(n) PROVE Cardinality(Paid(n)) = 1
    <2>1. Paid(n) = {t}
      BY <1>1
    <2> QED BY <2>1, FS_Singleton
  <1> QED BY <1>2, FS_EmptySet

\* A call is mined only if none of its send was, and its send reports no success.
LEMMA MineLands ==
    ASSUME TypeInv, NonceInv, Mine
    PROVE  \/ PaidCounts' = PaidCounts
           \/ \E n \in 1..Sends : /\ Paid(n) = {} /\ PaidCounts' = [PaidCounts EXCEPT ![n] = 1]
                                  /\ Report(n) # "sent"
  <1>1. PICK t \in pool : /\ t.nonce = Len(mined) /\ mined' = Append(mined, t)
                          /\ UNCHANGED <<transit, sendVars>>
    BY DEF Mine
  <1>2. t \in Calls \cup Strangers /\ mined \in Seq(Calls \cup Strangers)
    BY DEF TypeInv, TypeOK
  <1>3. Range(mined') = Range(mined) \cup {t}
    BY <1>1, <1>2, AppendedRange
  <1>4. ASSUME NEW n \in 1..Sends, n # t.send PROVE Paid(n)' = Paid(n)
    BY <1>3, <1>4 DEF Paid
  <1>5. CASE t \in Strangers
    <2>1. \A n \in 1..Sends : n # t.send
      BY <1>5, Sorts, BroadcastAssumption
    <2> QED BY <1>4, <2>1 DEF PaidCounts
  <1>6. CASE t \in Calls
    <2> DEFINE n == t.send
    <2>1. n \in 1..Sends /\ t \in Live
      BY <1>6, Sorts DEF Live
    <2>2. Paid(n) = {}
      <3> SUFFICES ASSUME NEW u \in Paid(n) PROVE FALSE
        OBVIOUS
      <3>1. PICK i \in DOMAIN mined : mined[i] = u
        BY <2>1, MinedIsLive
      <3>2. u.nonce = i - 1 /\ i \in 1..Len(mined)
        BY <1>2, <3>1 DEF NonceInv, Placed
      <3>3. u.nonce = t.nonce
        BY <2>1, MinedIsLive DEF NonceInv, Alike
      <3> QED BY <1>1, <1>2, <3>2, <3>3
    <2>3. Paid(n)' = {t}
      BY <1>3, <2>2 DEF Paid
    <2>4. Cardinality(Paid(n)') = 1
      BY <2>3, FS_Singleton
    <2>5. Report(n) # "sent"
      <3> SUFFICES ASSUME Report(n) = "sent" PROVE FALSE
        OBVIOUS
      <3>1. reports \in Seq(Reports)
        BY DEF TypeInv, TypeOK
      <3>2. n \in DOMAIN reports /\ reports[n] = SENT
        BY <2>1, <3>1, BroadcastAssumption DEF Report
      <3>3. PICK i \in DOMAIN mined : mined[i].send = n
        BY <3>2 DEF NonceInv, SentIsMined
      <3>4. mined[i] \in Paid(n)
        BY <3>3 DEF Paid, Range
      <3> QED BY <2>2, <3>4
    <2>6. PaidCounts' = [PaidCounts EXCEPT ![n] = 1]
      <3>1. \A m \in 1..Sends : PaidCounts'[m] = [PaidCounts EXCEPT ![n] = 1][m]
        BY <1>4, <2>1, <2>4 DEF PaidCounts
      <3> QED BY <3>1 DEF PaidCounts
    <2> QED BY <2>1, <2>2, <2>5, <2>6
  <1> QED BY <1>2, <1>5, <1>6

\* The present send reports, and success only of a call that is mined.
LEMMA EndReports ==
    ASSUME TypeInv, NonceInv, step # "idle", NEW r \in Reports, reports' = Append(reports, r),
           r = SENT => Paid(Present) # {}
    PROVE  /\ Present \in 1..Sends /\ Report(Present) = "none"
           /\ \E told \in {"sent", "failed", "unclear"} :
                /\ Told' = [Told EXCEPT ![Present] = told]
                /\ told = "sent" => Paid(Present) # {}
  <1>1. reports \in Seq(Reports) /\ Present \in Nat /\ Present >= 1 /\ Present = Len(reports) + 1
    BY DEF TypeInv, TypeOK, Present
  <1>2. Present \in 1..Sends
    BY <1>1, BroadcastAssumption DEF TypeInv, Here
  <1>3. Report(Present) = "none"
    BY <1>1 DEF Report
  <1>4. reports' \in Seq(Reports) /\ Len(reports') = Len(reports) + 1 /\ reports'[Present] = r
    BY <1>1, AppendedRange
  <1>5. \A n \in 1..Len(reports) : reports'[n] = reports[n]
    BY <1>1, AppendedRange
  <1> DEFINE told == IF r = SENT THEN "sent" ELSE IF r = STOP THEN "unclear" ELSE "failed"
  <1>6. ASSUME NEW n \in 1..Sends PROVE Told'[n] = IF n = Present THEN told ELSE Told[n]
    <2>1. Told'[n] = Report(n)' /\ Told[n] = Report(n)
      BY DEF Told
    <2>2. CASE n = Present
      <3>1. n \in DOMAIN reports'
        BY <1>1, <1>4, <2>2
      <3> QED BY <1>4, <2>1, <2>2, <3>1 DEF Report
    <2>3. CASE n < Present
      <3>1. n \in 1..Len(reports) /\ n \in DOMAIN reports /\ n \in DOMAIN reports'
        BY <1>1, <1>4, <2>3, BroadcastAssumption
      <3>2. Report(n)' = Report(n)
        BY <1>5, <3>1 DEF Report
      <3> QED BY <1>1, <2>1, <2>3, <3>2
    <2>4. CASE n > Present
      <3>1. n \notin DOMAIN reports /\ n \notin DOMAIN reports'
        BY <1>1, <1>4, <2>4, BroadcastAssumption
      <3> QED BY <1>1, <2>1, <2>4, <3>1 DEF Report
    <2> QED BY <1>1, <2>2, <2>3, <2>4, BroadcastAssumption
  <1>7. Told' = [Told EXCEPT ![Present] = told]
    <2>1. \A n \in 1..Sends : Told'[n] = [Told EXCEPT ![Present] = told][n]
      BY <1>2, <1>6 DEF Told
    <2> QED BY <2>1 DEF Told
  <1> QED BY <1>2, <1>3, <1>7

\* How a step of the client can change what it reports.
LEMMA ReportStep ==
    ASSUME TypeInv, [Next]_vars, reports' # reports
    PROVE  /\ step # "idle" /\ mined' = mined
           /\ \E r \in Reports : reports' = Append(reports, r) /\ (r = SENT => Paid(Present) # {})
  <1> DEFINE Says(r) == reports' = Append(reports, r)
  <1>1. ASSUME NEW r \in {NOTHING_SENT, STOP, CRASH} PROVE r \in Reports /\ r # SENT
    BY DEF Reports, SENT, NOTHING_SENT, STOP, CRASH
  <1>2. CASE Estimate \/ Check \/ Sign \/ SendRaw \/ Spent \/ LookUp
    <2>1. step # "idle" /\ mined' = mined
      BY <1>2 DEF Estimate, Check, Sign, SendRaw, Spent, LookUp, nodeVars
    <2>2. Says(NOTHING_SENT) \/ Says(STOP) \/ Says(CRASH)
      BY <1>2 DEF Estimate, Check, Sign, SendRaw, Spent, LookUp, Goto, End, Again, Refused, NotSent
    <2> QED BY <1>1, <2>1, <2>2
  <1>3. CASE Receipt
    <2>1. step = "receipt" /\ mined' = mined
      BY <1>3 DEF Receipt, nodeVars
    <2>2. CASE Says(STOP) \/ Says(CRASH)
      BY <1>1, <2>1, <2>2
    <2>3. CASE current \in Range(mined) /\ Says(SENT)
      <3>1. current \in Paid(Present)
        BY <2>1, <2>3 DEF TypeInv, Holds, Holding, Paid
      <3> QED BY <2>1, <2>3, <3>1 DEF Reports
    <2> QED BY <1>3, <2>2, <2>3 DEF Receipt, End
  <1>4. CASE BeginSend \/ Weather \/ UNCHANGED vars
    BY <1>4 DEF BeginSend, Weather, Mine, Evict, OtherProgram, Arrive, sendVars, vars
  <1> QED BY <1>2, <1>3, <1>4 DEF Next, SendStep

\* Broadcast implements OneTransaction: at most one transaction of a send is
\* ever mined, and a send that reports success reports one that is.
THEOREM BroadcastSendsOne == Spec => SendsOne
  <1>1. Init => Promise!Init
    <2> SUFFICES ASSUME Init PROVE Promise!Init
      OBVIOUS
    <2>1. mined = <<>> /\ reports = <<>> /\ Range(mined) = {}
      BY DEF Init, Range
    <2>2. \A n \in 1..Sends : Cardinality(Paid(n)) = 0
      BY <2>1, FS_EmptySet DEF Paid
    <2>3. \A n \in 1..Sends : Report(n) = "none"
      BY <2>1, BroadcastAssumption DEF Report
    <2> QED BY <2>2, <2>3 DEF Promise!Init
  <1>2. TypeInv /\ NonceInv /\ [Next]_vars => [Promise!Next]_<<PaidCounts, Told>>
    <2> SUFFICES ASSUME TypeInv, NonceInv, [Next]_vars
                 PROVE  Promise!Next \/ UNCHANGED <<PaidCounts, Told>>
      OBVIOUS
    <2>1. CASE reports' # reports
      <3>1. PICK r \in Reports : reports' = Append(reports, r) /\ (r = SENT => Paid(Present) # {})
        BY <2>1, ReportStep
      <3>2. step # "idle" /\ mined' = mined
        BY <2>1, ReportStep
      <3>3. PICK told \in {"sent", "failed", "unclear"} :
               Told' = [Told EXCEPT ![Present] = told] /\ (told = "sent" => Paid(Present) # {})
        BY <3>1, <3>2, EndReports
      <3>4. Present \in 1..Sends /\ Report(Present) = "none"
        BY <3>1, <3>2, EndReports
      <3>5. told = "sent" => Cardinality(Paid(Present)) = 1
        BY <3>3, <3>4, PaidOnce
      <3>6. UNCHANGED PaidCounts
        BY <3>2 DEF PaidCounts, Paid
      <3>7. Promise!Report(Present)
        BY <3>3, <3>4, <3>5, <3>6 DEF Promise!Report, PaidCounts, Told
      <3> QED BY <3>4, <3>7 DEF Promise!Next
    <2>2. CASE reports' = reports /\ ~Mine
      <3>1. mined' = mined
        BY <2>2 DEF Next, BeginSend, SendStep, Weather, Estimate, Check, Sign, SendRaw, Spent, LookUp, Receipt,
                    Evict, OtherProgram, Arrive, nodeVars, vars
      <3> QED BY <2>2, <3>1 DEF PaidCounts, Paid, Told, Report
    <2>3. CASE Mine
      <3>1. UNCHANGED Told
        BY <2>3 DEF Mine, sendVars, Told, Report
      <3>2. CASE PaidCounts' = PaidCounts
        BY <3>1, <3>2
      <3>3. CASE \E n \in 1..Sends : /\ Paid(n) = {} /\ PaidCounts' = [PaidCounts EXCEPT ![n] = 1]
                                     /\ Report(n) # "sent"
        <4>1. PICK n \in 1..Sends : /\ Paid(n) = {} /\ PaidCounts' = [PaidCounts EXCEPT ![n] = 1]
                                    /\ Report(n) # "sent"
          BY <3>3
        <4>2. Cardinality(Paid(n)) = 0
          BY <4>1, PaidOnce
        <4>3. Promise!Land(n)
          BY <3>1, <4>1, <4>2 DEF Promise!Land, PaidCounts, Told
        <4> QED BY <4>3 DEF Promise!Next
      <3> QED BY <2>3, <3>2, <3>3, MineLands
    <2> QED BY <2>1, <2>2, <2>3
  <1>3. [Promise!Next]_<<PaidCounts, Told>> <=>
            [Promise!Next]_<<[n \in 1..Sends |-> Cardinality(Paid(n))], [n \in 1..Sends |-> Report(n)]>>
    BY DEF PaidCounts, Told
  <1> QED BY <1>1, <1>2, <1>3, BroadcastNonces, PTL DEF Spec, SendsOne, Promise!Spec
=============================================================================
