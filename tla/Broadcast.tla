----------------------------- MODULE Broadcast ------------------------------
(* tools/chain.py rpc, l2_known, broadcast and send, under Session.send of   *)
(* tools/attest.py: one call is signed, its bytes are sent again after a     *)
(* refusal that invites it and after no answer at all, and it is signed      *)
(* again, under the same nonce, only once every earlier hash was looked up   *)
(* and was not there.                                                        *)
(*                                                                           *)
(* A request that got no answer is still on its way: it can reach the node   *)
(* at any later moment, or never.  A transaction is its nonce and its fee;   *)
(* a signature under another base fee is another transaction.                *)
(*                                                                           *)
(* The variables are those of one send; BeginSend starts the next one.       *)

EXTENDS Integers, Sequences, FiniteSets, SequencesExt

CONSTANTS
    BROADCAST_ATTEMPTS,     \* sends of the same bytes
    REFUSED_RETRIES,        \* times a call is signed again after NOT_SENT
    Fees,                   \* the base fees a signature can meet
    Foreign,                \* bound on transactions another program of the account sends
    Sends                   \* bound on sends, one after the other

ASSUME BroadcastAssumption ==
    /\ BROADCAST_ATTEMPTS \in Nat \ {0} /\ REFUSED_RETRIES \in Nat
    /\ Foreign \in Nat /\ Sends \in Nat /\ Fees \subseteq Nat \ {0}

VARIABLES
    pool,           \* the transactions the node holds and has not mined
    mined,          \* the account's transactions, in the order of their nonces
    reverted,       \* those of them that reverted
    transit,        \* transaction -> requests carrying it that got no answer
    step,           \* what the send does next
    reports,        \* how the sends so far ended; the present one is the next
    tried,          \* how many times the call was signed, or is about to be
    times,          \* how many times the present bytes were sent
    current,        \* the transaction signed last, UNSIGNED before
    hashes,         \* the transactions that were reported not sent
    unchecked,      \* those of them to look up before signing again
    nonce           \* the pinned nonce, UNPINNED at first

nodeVars == <<pool, mined, reverted, transit>>
tryVars == <<tried, times, current, hashes, unchecked, nonce>>
sendVars == <<step, reports, tryVars>>
vars == <<nodeVars, sendVars>>

UNPINNED == -1
FOREIGN == 0        \* stands for the fee of another program's transaction
UNSIGNED == [send |-> 0, nonce |-> UNPINNED, fee |-> FOREIGN]

Nonces == 0..Foreign + Sends
Signed == [send : 1..Sends, nonce : Nonces, fee : Fees]
Others == [send : {0}, nonce : Nonces, fee : {FOREIGN}]

\* How a send ends.  A traceback exits with the status of "nothing sent".
SENT == "sent"
NOTHING_SENT == "nothing"
STOP == "stop"
CRASH == "crash"
Reports == {SENT, NOTHING_SENT, STOP, CRASH}

\* Transactions with any nonce; that Nonces is enough of them is up to Foreign.
Calls == [send : 1..Sends, nonce : Nat, fee : Fees]
Strangers == [send : {0}, nonce : Nat, fee : {FOREIGN}]

TypeOK ==
    /\ pool \subseteq Calls \cup Strangers /\ mined \in Seq(Calls \cup Strangers)
    /\ reverted \subseteq Range(mined)
    /\ transit \in [Signed -> Nat]
    /\ step \in {"idle", "estimate", "check", "sign", "broadcast", "spent", "lookup", "receipt"}
    /\ reports \in Seq(Reports) /\ Len(reports) <= Sends
    /\ tried \in 1..REFUSED_RETRIES + 1 /\ times \in 0..BROADCAST_ATTEMPTS
    /\ current \in Calls \cup {UNSIGNED}
    /\ unchecked \subseteq hashes /\ hashes \subseteq Calls
    /\ nonce \in Nat \cup {UNPINNED}

Init ==
    /\ pool = {} /\ mined = <<>> /\ reverted = {} /\ transit = [t \in Signed |-> 0]
    /\ step = "idle" /\ reports = <<>> /\ tried = 1 /\ times = 0 /\ current = UNSIGNED
    /\ hashes = {} /\ unchecked = {} /\ nonce = UNPINNED

Present == Len(reports) + 1

\* Session.send is called: it starts with the gas estimate.
BeginSend ==
    /\ step = "idle" /\ Present <= Sends /\ step' = "estimate"
    /\ tried' = 1 /\ times' = 0 /\ current' = UNSIGNED
    /\ hashes' = {} /\ unchecked' = {} /\ nonce' = UNPINNED
    /\ UNCHANGED <<nodeVars, reports>>

-----------------------------------------------------------------------------
(* The node.                                                                 *)

Known(t) == t \in pool \/ t \in Range(mined)

Rivals(t) == {p \in pool : p.nonce = t.nonce}

\* The node takes a transaction whose nonce is free, or one that outbids the
\* transaction that holds it.
Takes(t) ==
    /\ t.nonce >= Len(mined) /\ t \notin pool
    /\ \A p \in Rivals(t) : p.fee < t.fee

Take(t) == pool' = (pool \ Rivals(t)) \cup {t}

\* A block takes it; it runs there, or reverts and nothing reaches consensus.
Mine ==
    \E t \in pool :
        /\ t.nonce = Len(mined)
        /\ mined' = Append(mined, t) /\ pool' = pool \ {t}
        /\ reverted' \in {reverted, reverted \cup {t}}
        /\ UNCHANGED <<transit, sendVars>>

\* The node drops what it holds: a restart, or a pool that is full.
Evict ==
    \E t \in pool : pool' = pool \ {t} /\ UNCHANGED <<mined, reverted, transit, sendVars>>

\* Another program of the same account takes the next nonce.
OtherProgram ==
    LET t == [send |-> 0, nonce |-> Len(mined), fee |-> FOREIGN] IN
    /\ Cardinality(Range(mined) \cap Others) < Foreign
    /\ Takes(t) /\ Take(t)
    /\ UNCHANGED <<mined, reverted, transit, sendVars>>

\* A request that got no answer reaches the node after all, or is lost.
Arrive ==
    \E t \in Signed :
        /\ transit[t] > 0
        /\ transit' = [transit EXCEPT ![t] = @ - 1]
        /\ \/ Takes(t) /\ Take(t)
           \/ UNCHANGED pool
        /\ UNCHANGED <<mined, reverted, sendVars>>

-----------------------------------------------------------------------------
(* The client.                                                               *)

Goto(label) == step' = label /\ UNCHANGED <<tryVars, reports>>

End(report) == step' = "idle" /\ reports' = Append(reports, report) /\ UNCHANGED tryVars

\* The answer of eth_getTransactionByHash: the state of the transaction, or
\* "none" when no request for it got an answer.
l2_known(t, answer) ==
    answer \in {IF Known(t) THEN "known" ELSE "absent", "none"}

\* The gas estimate: a refusal ends the send, no answer is a traceback.
Estimate ==
    /\ step = "estimate"
    /\ Goto("check") \/ End(NOTHING_SENT) \/ End(CRASH)
    /\ UNCHANGED nodeVars

\* Before a try, every transaction that was reported not sent is looked up.
Check ==
    /\ step = "check"
    /\ IF unchecked = {} THEN Goto("sign")
       ELSE \E t \in unchecked, answer \in {"known", "absent", "none"} :
                /\ l2_known(t, answer)
                /\ IF answer # "absent" THEN End(STOP)
                   ELSE /\ unchecked' = unchecked \ {t}
                        /\ UNCHANGED <<step, reports, tried, times, current, hashes, nonce>>
    /\ UNCHANGED nodeVars

\* Mutated form of Pinned: a repeat takes whatever nonce is next.
PinnedNever(count) == TRUE

\* The nonce a repeat must use is still the account's next one.
Pinned(count) == nonce \in {UNPINNED, count}

\* send reads the latest block and the nonce, and signs.
Sign ==
    /\ step = "sign"
    /\ \/ \E fee \in Fees :
              /\ Pinned(Len(mined))
              /\ current' = [send |-> Present, nonce |-> Len(mined), fee |-> fee]
              /\ times' = 0 /\ step' = "broadcast"
              /\ UNCHANGED <<reports, tried, hashes, unchecked, nonce>>
       \/ ~Pinned(Len(mined)) /\ End(STOP)
       \/ End(CRASH)
    /\ UNCHANGED nodeVars

\* After an answer that invites another send, or none: again, or the lookup.
Again ==
    /\ times' = times + 1
    /\ step' = IF times + 1 = BROADCAST_ATTEMPTS THEN "lookup" ELSE "broadcast"
    /\ UNCHANGED <<reports, tried, current, hashes, unchecked, nonce>>

\* Session.send on a refusal that is final.
Refused == End(IF hashes = {} THEN NOTHING_SENT ELSE STOP)

\* One eth_sendRawTransaction of the present bytes and what comes back.
SendRaw ==
    /\ step = "broadcast"
    /\ \/ \* no answer: the request is on its way
          transit' = [transit EXCEPT ![current] = @ + 1] /\ Again
          /\ UNCHANGED <<pool, mined, reverted>>
       \/ Takes(current) /\ Take(current) /\ Goto("receipt")
          /\ UNCHANGED <<mined, reverted, transit>>
       \/ Known(current) /\ Goto("receipt") /\ UNCHANGED nodeVars
       \/ \* the node is at capacity
          Again /\ UNCHANGED nodeVars
       \/ current.nonce < Len(mined) /\ Goto("spent") /\ UNCHANGED nodeVars
       \/ \* outbid by what holds the nonce, or refused for another reason
          Refused /\ UNCHANGED nodeVars
       \/ \* an HTTP error of the gateway that is no JSON-RPC answer and not its fault
          End(CRASH) /\ UNCHANGED nodeVars

\* The nonce is spent: by this transaction, or by another one.
Spent ==
    /\ step = "spent"
    /\ \E answer \in {"known", "absent", "none"} :
        /\ l2_known(current, answer)
        /\ IF answer = "known" THEN Goto("receipt") ELSE End(STOP)
    /\ UNCHANGED nodeVars

\* Mutated form of NotSent: the repeat goes on after the last try.
NotSentForever ==
    /\ hashes' = hashes \cup {current}
    /\ nonce' = current.nonce
    /\ step' = "check" /\ unchecked' = hashes'
    /\ UNCHANGED <<reports, tried, times, current>>

\* Session.send after a broadcast that was not sent: its nonce is pinned.
NotSent ==
    /\ hashes' = hashes \cup {current}
    /\ nonce' = IF nonce = UNPINNED THEN current.nonce ELSE nonce
    /\ IF tried > REFUSED_RETRIES
       THEN step' = "idle" /\ reports' = Append(reports, STOP) /\ UNCHANGED <<tried, unchecked>>
       ELSE step' = "check" /\ tried' = tried + 1 /\ unchecked' = hashes' /\ UNCHANGED reports
    /\ UNCHANGED <<times, current>>

\* The attempts ran out: the hash says whether one of them got through.
LookUp ==
    /\ step = "lookup"
    /\ \E answer \in {"known", "absent", "none"} :
        /\ l2_known(current, answer)
        /\ CASE answer = "known" -> Goto("receipt")
             [] answer = "none" -> End(STOP)
             [] answer = "absent" -> NotSent
    /\ UNCHANGED nodeVars

\* Mutated form of Receipt: a transaction the node holds counts as mined.
ReceiptOfPool ==
    /\ step = "receipt"
    /\ \/ Known(current) /\ End(IF current \in reverted THEN STOP ELSE SENT)
       \/ End(CRASH)
    /\ UNCHANGED nodeVars

\* The L2 receipt: it names the consensus transaction, or reports a revert;
\* a wait that runs out too often is a traceback.
Receipt ==
    /\ step = "receipt"
    /\ \/ current \in Range(mined) /\ End(IF current \in reverted THEN STOP ELSE SENT)
       \/ End(CRASH)
    /\ UNCHANGED nodeVars

SendStep == Estimate \/ Check \/ Sign \/ SendRaw \/ Spent \/ LookUp \/ Receipt

Weather == Mine \/ Evict \/ OtherProgram \/ Arrive

Next == BeginSend \/ SendStep \/ Weather

\* The program goes on by itself; nothing is assumed of the network.
Spec == Init /\ [][Next]_vars /\ WF_vars(SendStep)

-----------------------------------------------------------------------------
(* Properties.                                                               *)

Paid(n) == {t \in Range(mined) : t.send = n}

\* Every transaction of one send that can still reach the chain competes for
\* one nonce, also after the send gave up: the pinned nonce of Session.send
\* (attest.py:347), not the lookups, keeps a call from being mined twice.
OneNonce ==
    \A t, u \in {v \in Signed : transit[v] > 0 \/ v \in pool \cup Range(mined) \cup hashes} :
        t.send = u.send => t.nonce = u.nonce

\* Each send implements OneTransaction: a reported success is one transaction
\* that is mined, and no other report is followed by two (chain.py:309).
Report(n) ==
    IF n \notin DOMAIN reports THEN "none"
    ELSE IF reports[n] = SENT THEN "sent"
    ELSE IF reports[n] = STOP THEN "unclear" ELSE "failed"

Promise == INSTANCE OneTransaction WITH
    paid <- [n \in 1..Sends |-> Cardinality(Paid(n))], report <- [n \in 1..Sends |-> Report(n)]

SendsOne == Promise!Spec

\* Whatever the network does, a send that began ends: every loop is bounded.
SendEnds == step = "estimate" ~> step = "idle"

\* What attest.py says of NothingSent, "This attempt failed before anything
\* could reach the chain": none of its transactions is there.
NothingSentIsTrue ==
    \A n \in DOMAIN reports : reports[n] = NOTHING_SENT =>
        \A t \in Signed : t.send = n => ~Known(t)
=============================================================================
