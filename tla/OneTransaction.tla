--------------------------- MODULE OneTransaction ---------------------------
(* What a send promises to the caller who pays for it, whatever the network  *)
(* does to its requests and answers: the account signs at most one           *)
(* transaction for it that is ever mined, and a send that reports success    *)
(* reports one that is.                                                      *)

EXTENDS Naturals

CONSTANT Sends

VARIABLES
    paid,       \* send -> how many of its transactions are mined
    report      \* send -> what it reports, "none" until it ends

Init == paid = [n \in 1..Sends |-> 0] /\ report = [n \in 1..Sends |-> "none"]

\* A transaction is mined: before its send ends, or after it gave up on it.
Land(n) ==
    /\ paid[n] = 0 /\ report[n] # "sent"
    /\ paid' = [paid EXCEPT ![n] = 1]
    /\ UNCHANGED report

\* Success needs the transaction; every other report may be wrong about it.
Report(n) ==
    /\ report[n] = "none"
    /\ \/ paid[n] = 1 /\ report' = [report EXCEPT ![n] = "sent"]
       \/ \E other \in {"failed", "unclear"} : report' = [report EXCEPT ![n] = other]
    /\ UNCHANGED paid

Next == \E n \in 1..Sends : Land(n) \/ Report(n)

Spec == Init /\ [][Next]_<<paid, report>>
=============================================================================
