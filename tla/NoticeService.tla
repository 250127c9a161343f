---------------------------- MODULE NoticeService ---------------------------
(* What the Router promises its readers, with labels, pins, history and      *)
(* ownership left out: every name has at most one pointer and at most one    *)
(* announced move.  A name that never resolved gets its first pointer at     *)
(* once; afterwards the pointer only moves to the announced target, and only *)
(* when the announcement is at least Notice old.                             *)

EXTENDS Naturals, TreeMaps

CONSTANTS
    Names,
    Targets,
    Notice          \* how long a move is announced before it may happen

VARIABLES
    clock,
    pointer,        \* name -> target
    announced       \* name -> [target, since]

noticeVars == <<clock, pointer, announced>>

Init ==
    /\ clock \in Nat
    /\ pointer = EmptyMap
    /\ announced = EmptyMap

Advance ==
    /\ clock' > clock
    /\ UNCHANGED <<pointer, announced>>

First(n, t) ==
    /\ ~Has(pointer, n)
    /\ pointer' = Put(pointer, n, t)
    /\ UNCHANGED <<clock, announced>>

Announce(n, t) ==
    /\ Has(pointer, n)
    /\ ~Has(announced, n)
    /\ announced' = Put(announced, n, [target |-> t, since |-> clock])
    /\ UNCHANGED <<clock, pointer>>

Withdraw(n) ==
    /\ Has(announced, n)
    /\ announced' = Delete(announced, n)
    /\ UNCHANGED <<clock, pointer>>

Move(n) ==
    /\ Has(announced, n)
    /\ announced[n].since + Notice <= clock
    /\ pointer' = Put(pointer, n, announced[n].target)
    /\ announced' = Delete(announced, n)
    /\ UNCHANGED clock

Next ==
    \/ Advance
    \/ \E n \in Names :
         \/ \E t \in Targets : First(n, t) \/ Announce(n, t)
         \/ Withdraw(n)
         \/ Move(n)

Spec == Init /\ [][Next]_noticeVars
=============================================================================
