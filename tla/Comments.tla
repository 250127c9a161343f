------------------------------ MODULE Comments ------------------------------
(* The comments of a text, and how they are dropped before a model sees it:  *)
(* _COMMENT and drop_comments of lacre/llmfields.py, and _drop_comments of   *)
(* the prompt the network was probed with.                                   *)
(*                                                                           *)
(* A text is its characters, with two dashes as one token and a comment      *)
(* opened by < ! and two dashes.                                             *)

EXTENDS Integers, Sequences

DASHES == "--"

Earliest(S) == CHOOSE i \in S : \A j \in S : i <= j

Openers(text) == {i \in 1..Len(text) - 2 : text[i] = "<" /\ text[i + 1] = "!" /\ text[i + 2] = DASHES}

\* Behind what an opener at i hides: up to the first closer, which may share its
\* dashes, or to the end.
Behind(text, i) ==
    LET closers == {j \in i + 2..Len(text) - 1 : text[j] = DASHES /\ text[j + 1] = ">"}
    IN  IF closers = {} THEN Len(text) + 1 ELSE Earliest(closers) + 2

\* One pass from the left, each comment looked for behind the last.
without_comments(text) ==
    LET from[i \in 1..Len(text) + 1] ==
            LET openers == {k \in Openers(text) : k >= i} IN
            IF openers = {} THEN SubSeq(text, i, Len(text))
            ELSE SubSeq(text, i, Earliest(openers) - 1) \o from[Behind(text, Earliest(openers))]
    IN  from[1]

\* Mutated form of drop_comments: one pass.
drop_comments_once(text) == without_comments(text)

\* Repeated, because removing one comment can join the halves of another: a pass
\* that changes a text makes it shorter.
drop_comments(text) ==
    LET after[k \in 0..Len(text)] == IF k = 0 THEN text ELSE without_comments(after[k - 1])
    IN  after[Len(text)]

\* The probe's prompt.py walks the text with two positions instead, each closer
\* looked for from the dashes of its opener on.
FirstAt(text, piece, from) ==
    LET at == {i \in from..Len(text) - Len(piece) + 1 : SubSeq(text, i, i + Len(piece) - 1) = piece}
    IN  IF at = {} THEN 0 ELSE Earliest(at)

kept_of(text) ==
    LET from[index \in 1..Len(text) + 1] ==
            LET start == FirstAt(text, <<"<", "!", DASHES>>, index)
                end == FirstAt(text, <<DASHES, ">">>, start + 2)
            IN  IF start = 0 THEN SubSeq(text, index, Len(text))
                ELSE SubSeq(text, index, start - 1) \o (IF end = 0 THEN <<>> ELSE from[end + 2])
    IN  from[1]

_drop_comments(text) ==
    LET after[k \in 0..Len(text)] == IF k = 0 THEN text ELSE kept_of(after[k - 1])
    IN  after[Len(text)]
=============================================================================
