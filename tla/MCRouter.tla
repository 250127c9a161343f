------------------------------ MODULE MCRouter ------------------------------
(* Instance of Router and its consumer for TLC.  The texts are two spellings *)
(* of one name and, as labels, two names and one text that is none.          *)
(* NameKeys computes normalize.                                              *)

EXTENDS RouterWatch

NK == INSTANCE NameKeys WITH
        Letters <- {"a", "b"}, Upper <- [l \in {"a", "b"} |->
                                           IF l = "a" THEN "A" ELSE "B"],
        Limit <- 2

MCNameTexts == {<<"a">>, <<"A", ".">>}
MCLabelTexts == {<<"a">>, <<"b">>, <<"a", "/">>}
MCNames == {<<"a">>, <<"b">>}
MCNoName == <<>>
MCnormalize == [t \in MCNameTexts \cup MCLabelTexts |->
                  IF t = <<"b">> THEN <<"b">> ELSE IF t = <<"a", "/">> THEN MCNoName ELSE <<"a">>]

ASSUME MCnormalizeIsComputed ==
    \A t \in MCNameTexts \cup MCLabelTexts : MCnormalize[t] = NK!normalizeText(t)
=============================================================================
