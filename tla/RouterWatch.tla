----------------------------- MODULE RouterWatch ----------------------------
(* The Router together with the reader its DELAY is for: a consumer that     *)
(* re-resolves its names and looks at what is pending for them.  "A change   *)
(* proposed now takes effect no sooner than this, so a consumer that         *)
(* re-resolves a name can see the change coming and react before it          *)
(* applies" (router_template.py).  The consumer is not code of this          *)
(* repository; it reads through the views resolve and pending, and all that  *)
(* is assumed of it is that it reads at least once every PollGap.            *)

EXTENDS Router

CONSTANT PollGap    \* the longest time between two reads of the consumer

ASSUME PollGapAssumption == PollGap \in Nat /\ PollGap < DELAY

VARIABLES
    polled_at,      \* when the consumer last read the Router
    seen,           \* name -> what it resolved to then, for the names that did
    announced       \* name -> what was pending for it then

watchVars == <<polled_at, seen, announced>>

WatchInit ==
    /\ Init
    /\ polled_at = now
    /\ seen = EmptyMap
    /\ announced = EmptyMap

\* One read of all names: resolve(name) and pending(name).address.
Poll ==
    /\ polled_at' = now
    /\ seen' = current
    /\ announced' = [n \in DOMAIN changes |-> changes[n].address]
    /\ UNCHANGED vars

\* The consumer reads again before the clock runs past PollGap.
WatchedTick ==
    /\ now < polled_at + PollGap
    /\ Tick
    /\ UNCHANGED watchVars

WatchedCall ==
    /\ \E sender \in Accounts : Call(sender)
    /\ UNCHANGED watchVars

WatchNext == Poll \/ WatchedTick \/ WatchedCall

WatchSpec == WatchInit /\ [][WatchNext]_<<vars, watchVars>>

\* Time passes, the consumer keeps reading, and some account other than the
\* owner keeps calling apply_version.
WatchedBystander(name) == Bystander(name) /\ UNCHANGED watchVars

FairWatchSpec ==
    /\ WatchSpec
    /\ WF_<<vars, watchVars>>(WatchedTick) /\ WF_<<vars, watchVars>>(Poll)
    /\ \A name \in NameTexts : WF_<<vars, watchVars>>(WatchedBystander(name))

\* The notice is real: whatever the owner proposes, cancels and proposes
\* again between two reads, a name the consumer knew resolves to the address
\* it knew or to the one it was told was coming.
NeverSurprised ==
    \A n \in DOMAIN seen :
        /\ Has(current, n)
        /\ current[n] # seen[n] =>
              Has(announced, n) /\ current[n] = announced[n]
=============================================================================
