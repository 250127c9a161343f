----------------------------- MODULE MCVerifier -----------------------------
(* Instances of Verifier for TLC.  Each way a call can end up is met by one  *)
(* request; the second set leaves out refusals that differ only in wording.  *)

EXTENDS Verifier

Meets(allowed, named, keyed, verdict) ==
    [allowed |-> allowed, named |-> named, keyed |-> keyed, verdict |-> verdict]

MCEveryOutcome ==
    {Meets(TRUE, TRUE, TRUE, VALID), Meets(TRUE, TRUE, TRUE, INVALID),
     Meets(TRUE, TRUE, TRUE, NO_L), Meets(TRUE, TRUE, FALSE, VALID),
     Meets(TRUE, FALSE, FALSE, VALID), Meets(FALSE, FALSE, FALSE, VALID)}

MCKeptOrRefused ==
    {Meets(TRUE, TRUE, TRUE, VALID), Meets(TRUE, TRUE, TRUE, NO_L)}
=============================================================================
