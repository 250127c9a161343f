------------------------------ MODULE Verifier ------------------------------
(* contracts/verifier/verifier_template.py: the records of attested mail     *)
(* headers, and the money the calls that make them carry.  A call either     *)
(* writes a record and keeps what it carried, or returns a reason and sends  *)
(* it back.  Neither way raises.                                             *)
(*                                                                           *)
(* Value that leaves goes as a message of the transaction that sent it and   *)
(* settles when that transaction is finalized, in no particular order: until *)
(* then the balance still counts it.  Money is counted in small units.       *)

EXTENDS Naturals, Sequences, Bags, FiniteSetsExt, Ownership, TreeMaps

CONSTANTS
    Requests,       \* what calls meet, some of AllRequests
    Values,         \* what a call can carry
    Fees,           \* what set_fee can be given
    Amounts,        \* what withdraw can be given
    MaxCalls,       \* bound on the number of payable calls
    MaxInFlight     \* bound on the number of unsettled messages

VARIABLES
    treasury_address,
    pending_treasury_address,
    fee_wei,
    records,            \* id -> Attestation
    record_count,
    ids_of,             \* requester -> the ids of its records, oldest first
    refusals,           \* requester -> the reason of its last refused call
    balance,            \* what the chain says the contract holds
    in_flight,          \* bag of messages sent and not settled yet
    calls,              \* number of payable calls so far, for MaxCalls
    received,           \* history: account -> all it ever sent with a call
    returned,           \* history: account -> all that ever came back to it
    paid_out,           \* history: all that ever reached a treasury
    prudent             \* history: whether each withdrawal found nothing in flight

treasuryVars == <<treasury_address, pending_treasury_address>>
storeVars == <<records, record_count, ids_of, refusals>>
moneyVars == <<balance, in_flight, received, returned, paid_out, calls, prudent>>
vars == <<ownershipVars, treasuryVars, fee_wei, storeVars, moneyVars>>

\* The fields of a record the properties tell apart.
Attestation == [valid : BOOLEAN, requester : Accounts, fee_paid : Nat]

Message == [kind : {"refund", "payout"}, to : Accounts, value : Nat]

VALID   == "valid"
INVALID == "invalid"         \* a verdict without value

\* The reasons a call is refused for, in the order they are looked at.  The
\* seven ways cached_key comes back without a key are one here.
NO_REASON   == "none"           \* the call is not refused
NOT_ALLOWED == "not_allowed"    \* url not allowed, or blob too large
NOT_PAID    == "not_paid"
BAD_NAME    == "bad_name"       \* domain or selector
NO_KEY      == "no_key"         \* in the KeyCache that the Router resolves
NO_L        == "no_l"           \* the body length limit is not supported

Reasons == {NOT_ALLOWED, NOT_PAID, BAD_NAME, NO_KEY, NO_L}

\* What a call meets: whether its url or blob is allowed and its domain and
\* selector are names, whether the KeyCache holds an active key for them, and
\* the verdict the validators agree on.
AllRequests == [allowed : BOOLEAN, named : BOOLEAN, keyed : BOOLEAN,
                verdict : {VALID, INVALID, NO_L}]

ASSUME VerifierAssumption ==
    /\ Requests \subseteq AllRequests
    /\ Values \cup Fees \cup Amounts \subseteq Nat
    /\ MaxCalls \in Nat /\ MaxInFlight \in Nat

TypeOK ==
    /\ OwnershipTypeOK
    /\ treasury_address \in Accounts
    /\ pending_treasury_address \in Accounts \cup {ZERO_ADDRESS}
    /\ fee_wei \in Nat
    /\ record_count \in Nat
    /\ DOMAIN records \subseteq Nat
    /\ records \in [DOMAIN records -> Attestation]
    /\ DOMAIN ids_of \subseteq Accounts
    /\ ids_of \in [DOMAIN ids_of -> Seq(Nat)]
    /\ DOMAIN refusals \subseteq Accounts
    /\ refusals \in [DOMAIN refusals -> Reasons]
    /\ balance \in Nat /\ paid_out \in Nat /\ calls \in 0..MaxCalls
    /\ IsABag(in_flight) /\ BagToSet(in_flight) \subseteq Message
    /\ received \in [Accounts -> Nat] /\ returned \in [Accounts -> Nat]
    /\ prudent \in BOOLEAN

Init ==
    /\ OwnershipInit
    /\ treasury_address = Deployer
    /\ pending_treasury_address = ZERO_ADDRESS
    /\ fee_wei = 0
    /\ records = EmptyMap /\ record_count = 0
    /\ ids_of = EmptyMap /\ refusals = EmptyMap
    /\ balance = 0 /\ in_flight = EmptyBag /\ paid_out = 0 /\ calls = 0
    /\ received = [a \in Accounts |-> 0]
    /\ returned = [a \in Accounts |-> 0]
    /\ prudent = TRUE

-----------------------------------------------------------------------------
(* Value.                                                                    *)

InFlight(kind) == {m \in BagToSet(in_flight) : m.kind = kind}

Total(f) == MapThenSumSet(LAMBDA x : f[x], DOMAIN f)

SumOf(messages) == Total([m \in messages |-> m.value * in_flight[m]])

\* A message leaves with the transaction that is executing; the balance moves
\* when that transaction is finalized.
emit_transfer(kind, to, value) ==
    in_flight' = in_flight (+) SetToBag({[kind |-> kind, to |-> to, value |-> value]})

\* The value of a call is in the balance from its activation on.
Receive(sender, paid) ==
    /\ calls < MaxCalls
    /\ calls' = calls + 1
    /\ balance' = balance + paid
    /\ received' = [received EXCEPT ![sender] = @ + paid]
    /\ UNCHANGED <<returned, paid_out, prudent>>

-----------------------------------------------------------------------------
(* Payable calls.                                                            *)

\* Mutated form of _refuse: a refusal keeps the fee.
_refuse_keeping_fee(sender, paid, reason) ==
    /\ refusals' = Put(refusals, sender, reason)
    /\ IF paid > fee_wei THEN emit_transfer("refund", sender, paid - fee_wei)
       ELSE UNCHANGED in_flight
    /\ UNCHANGED <<records, record_count, ids_of>>

\* The reason is left for last_refusal and the whole value goes back.
_refuse(sender, paid, reason) ==
    /\ refusals' = Put(refusals, sender, reason)
    /\ IF paid # 0 THEN emit_transfer("refund", sender, paid)
       ELSE UNCHANGED in_flight
    /\ UNCHANGED <<records, record_count, ids_of>>

\* Mutated form of Store: the id is the length of the requester's own list.
StoreByRequester(sender, record) ==
    LET ids == GetOr(ids_of, sender, <<>>) IN
    /\ records' = Put(records, Len(ids), record)
    /\ record_count' = record_count + 1
    /\ ids_of' = Put(ids_of, sender, Append(ids, Len(ids)))
    /\ UNCHANGED <<refusals, in_flight>>

\* The record, its id, and the id in its requester's list.
Store(sender, record) ==
    /\ records' = Put(records, record_count, record)
    /\ record_count' = record_count + 1
    /\ ids_of' = Put(ids_of, sender,
                     Append(GetOr(ids_of, sender, <<>>), record_count))
    /\ UNCHANGED <<refusals, in_flight>>

\* Why a call is refused, if it is.  The first test that fails is the one named.
Reason(paid, request) ==
    IF ~request.allowed THEN NOT_ALLOWED
    ELSE IF paid < fee_wei THEN NOT_PAID
    ELSE IF ~request.named THEN BAD_NAME
    ELSE IF ~request.keyed THEN NO_KEY
    ELSE IF request.verdict = NO_L THEN NO_L
    ELSE NO_REASON

\* attest and attest_inline.
attest(sender, paid, request) ==
    LET reason == Reason(paid, request) IN
    /\ Receive(sender, paid)
    /\ \/ reason # NO_REASON /\ _refuse(sender, paid, reason)
       \/ reason = NO_REASON /\ Store(sender,
             [valid |-> request.verdict = VALID, requester |-> sender,
              fee_paid |-> paid])
    /\ UNCHANGED <<ownershipVars, treasuryVars, fee_wei>>

\* A call that is finalized without having executed: nothing is stored and
\* the protocol returns what it carried, from the balance that counted it.
Unexecuted(sender, paid) ==
    /\ paid > 0
    /\ Receive(sender, paid)
    /\ emit_transfer("refund", sender, paid)
    /\ UNCHANGED <<ownershipVars, treasuryVars, fee_wei, storeVars>>

-----------------------------------------------------------------------------
(* The owner's and the treasury's calls.                                     *)

set_fee(sender, new_fee) ==
    /\ RequireOwner(sender)
    /\ fee_wei' = new_fee
    /\ UNCHANGED <<ownershipVars, treasuryVars, storeVars, moneyVars>>

propose_treasury(sender, candidate) ==
    /\ RequireOwner(sender)
    /\ candidate # ZERO_ADDRESS
    /\ pending_treasury_address' = candidate
    /\ UNCHANGED <<ownershipVars, treasury_address, fee_wei, storeVars,
                   moneyVars>>

\* Mutated form of IsPendingTreasury: the owner can accept for the candidate.
IsPendingTreasuryOrOwner(sender) ==
    sender \in {pending_treasury_address, owner_address}

IsPendingTreasury(sender) ==
    pending_treasury_address # ZERO_ADDRESS /\ sender = pending_treasury_address

accept_treasury(sender) ==
    /\ IsPendingTreasury(sender)
    /\ treasury_address' = pending_treasury_address
    /\ pending_treasury_address' = ZERO_ADDRESS
    /\ UNCHANGED <<ownershipVars, fee_wei, storeVars, moneyVars>>

\* Mutated form of withdraw: the amount is not held against the balance.
withdraw_uncovered(sender, amount) ==
    /\ RequireOwner(sender)
    /\ amount > 0
    /\ BagCardinality(in_flight) < MaxInFlight
    /\ emit_transfer("payout", treasury_address, amount)
    /\ prudent' = (prudent /\ in_flight = EmptyBag)
    /\ UNCHANGED <<ownershipVars, treasuryVars, fee_wei, storeVars, balance,
                   received, returned, paid_out, calls>>

\* Any amount the balance covers, whatever is in flight already.
withdraw(sender, amount) ==
    /\ RequireOwner(sender)
    /\ amount > 0 /\ amount <= balance
    /\ BagCardinality(in_flight) < MaxInFlight
    /\ emit_transfer("payout", treasury_address, amount)
    /\ prudent' = (prudent /\ in_flight = EmptyBag)
    /\ UNCHANGED <<ownershipVars, treasuryVars, fee_wei, storeVars, balance,
                   received, returned, paid_out, calls>>

propose_owner(sender, candidate) ==
    /\ ProposeOwner(sender, candidate)
    /\ UNCHANGED <<treasuryVars, fee_wei, storeVars, moneyVars>>

accept_owner(sender) ==
    /\ AcceptOwner(sender)
    /\ UNCHANGED <<treasuryVars, fee_wei, storeVars, moneyVars>>

\* The transaction of one message is finalized and the message settles, which
\* takes a balance that covers it.
Settle(message) ==
    /\ BagIn(message, in_flight)
    /\ message.value <= balance
    /\ in_flight' = in_flight (-) SetToBag({message})
    /\ balance' = balance - message.value
    /\ \/ /\ message.kind = "refund"
          /\ returned' = [returned EXCEPT ![message.to] = @ + message.value]
          /\ UNCHANGED paid_out
       \/ /\ message.kind = "payout"
          /\ paid_out' = paid_out + message.value
          /\ UNCHANGED returned
    /\ UNCHANGED <<ownershipVars, treasuryVars, fee_wei, storeVars, received, calls, prudent>>

-----------------------------------------------------------------------------

CallButWithdraw(sender) ==
    \/ \E paid \in Values :
         \/ \E request \in Requests : attest(sender, paid, request)
         \/ Unexecuted(sender, paid)
    \/ \E new_fee \in Fees : set_fee(sender, new_fee)
    \/ \E candidate \in Accounts \cup {ZERO_ADDRESS} :
         propose_treasury(sender, candidate) \/ propose_owner(sender, candidate)
    \/ accept_treasury(sender)
    \/ accept_owner(sender)

Finalize == \E message \in BagToSet(in_flight) : Settle(message)

Next ==
    \/ \E sender \in Accounts :
         \/ CallButWithdraw(sender)
         \/ \E amount \in Amounts : withdraw(sender, amount)
    \/ Finalize

\* Every transaction is finalized in the end.
Spec ==
    /\ Init /\ [][Next]_vars
    /\ \A to \in Accounts, value \in Values :
         WF_vars(Settle([kind |-> "refund", to |-> to, value |-> value]))

\* The owner keeps to docs/verifier.md, "Operations": "Withdraw only when no
\* attestation is waiting to finalize", "leaving the largest plausible refund
\* behind".
ByTheBookNext ==
    \/ \E sender \in Accounts :
         \/ CallButWithdraw(sender)
         \/ /\ InFlight("refund") = {}
            /\ \E amount \in Amounts : /\ amount + Max(Values) <= balance
                                       /\ withdraw(sender, amount)
    \/ Finalize

ByTheBookSpec == Init /\ [][ByTheBookNext]_vars

-----------------------------------------------------------------------------
(* Properties.                                                               *)

RecordsOf(a) == {id \in DOMAIN records : records[id].requester = a}

FeesKept(a) == Total([id \in RecordsOf(a) |-> records[id].fee_paid])

OwedTo(a) == {m \in InFlight("refund") : m.to = a}

\* No call keeps its sender's value without a record: to the unit, what each
\* account ever sent is in the fees of its own records, or came back, or is on
\* its way back, whatever order calls, fee changes and settlements come in.
NoThirdOutcome ==
    \A a \in Accounts : received[a] = FeesKept(a) + returned[a] + SumOf(OwedTo(a))

\* records, record_count and ids_of agree: every id below the count is listed
\* once, in its requester's list, and every list is in order, so that its
\* last element is the newest.
IdsAgree ==
    /\ DOMAIN records = 0..(record_count - 1)
    /\ \A id \in DOMAIN records : id \in Range(GetOr(ids_of, records[id].requester, <<>>))
    /\ \A a \in DOMAIN ids_of : \A i \in DOMAIN ids_of[a] :
         /\ ids_of[a][i] \in DOMAIN records
         /\ records[ids_of[a][i]].requester = a
         /\ \A j \in DOMAIN ids_of[a] : i < j => ids_of[a][i] < ids_of[a][j]

\* Then whoever is owed a refund gets it.
RefundsArrive ==
    \A a \in Accounts :
        OwedTo(a) # {} ~> ~prudent \/ OwedTo(a) = {}

\* docs/verifier.md, of withdrawals made by the book: "leaving the largest
\* plausible refund behind costs nothing and cannot strand one".
NoRefundIsStranded == SumOf(InFlight("refund")) <= balance
=============================================================================
