------------------------------ MODULE MCLacre -------------------------------
(* Instance of Lacre for TLC: two Verifiers, whose record ids both start at  *)
(* 0, and messages of the domain of the consumer and of another one.         *)

EXTENDS Lacre, TLC

MCDomain == [m \in Messages |-> IF m = "m3" THEN "other" ELSE "amazon"]

\* Verifiers are alike, and so are accounts.
Alike == Permutations(Verifiers) \cup Permutations(Requesters)

\* Nothing reads the reasons of refusals.
Told == <<routerVars, verifierVars, documents, extracted, final_x, consumerVars, moves, appeals>>
=============================================================================
