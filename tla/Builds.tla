------------------------------- MODULE Builds -------------------------------
(* How a contract is made of its template and of the modules the tests run:  *)
(* contracts/extractor/build.py, the two that differ from it                 *)
(* (llmextractor, verifier) and the plain one of the Router.                 *)
(*                                                                           *)
(* A source is its top level statements: the names each defines, the names   *)
(* it uses, the names it imports from lacre, and its lines.  A line is raw   *)
(* inside a text of several lines, where Python does not ignore it.          *)

EXTENDS Integers, Sequences, FiniteSets, SequencesExt

CONSTANT MAX_SOURCE         \* lines of a contract

CODE == "code"
COMMENT == "# comment"
BLANK == ""
DEPENDS == "# Depends"      \* the first line of a template, read by the runner
IMPORT == "import re"

TextLine(text, raw) == [text |-> text, raw |-> raw]
Statement(names, uses, lines) == [names |-> names, uses |-> uses, lacre |-> {}, lines |-> lines]
LacreImport(names) == [names |-> {}, uses |-> {}, lacre |-> names, lines |-> <<TextLine("from lacre", FALSE)>>]
Marker(module) == Statement({}, {}, <<TextLine(module, FALSE)>>)

defined_names(source) == UNION {source[i].names : i \in DOMAIN source}
used_names(source) == UNION {source[i].uses : i \in DOMAIN source}
local_import(statement) == statement.lacre # {}
imported_names(source) == UNION {source[i].lacre : i \in DOMAIN source}

\* What the last definition of a name uses, itself apart.
UsesOf(source, name) ==
    LET s == source[SelectLastInSeq(source, LAMBDA x : name \in x.names)] IN s.uses \ s.names

\* Mutated form of reachable: what is wanted, and what that uses, and no further.
reachable_once(source, wanted) ==
    LET first == defined_names(source) \cap wanted
    IN  first \cup (defined_names(source) \cap UNION {UsesOf(source, n) : n \in first})

\* The names of source that wanted needs, transitively: no chain of uses is longer
\* than there are names.
reachable(source, wanted) ==
    LET defined == defined_names(source)
        keep[i \in 0..Cardinality(defined)] ==
            IF i = 0 THEN defined \cap wanted
            ELSE keep[i - 1] \cup (defined \cap UNION {UsesOf(source, n) : n \in keep[i - 1]})
    IN  keep[Cardinality(defined)]

WithoutComments(statement) ==
    [statement EXCEPT !.lines = SelectSeq(@, LAMBDA l : l.text # COMMENT)]

\* The statements that define nothing are kept, the lacre imports apart.
prune(source, wanted) ==
    LET keep == reachable(source, wanted)
        kept == SelectSeq(source, LAMBDA s : (s.names = {} \/ s.names \cap keep # {}) /\ ~local_import(s))
    IN  [i \in DOMAIN kept |-> WithoutComments(kept[i])]

\* Of the Verifier's build, whose module imports nothing of lacre.
prune_one(source, wanted) ==
    LET keep == reachable(source, wanted)
        kept == SelectSeq(source, LAMBDA s : s.names = {} \/ s.names \cap keep # {})
    IN  [i \in DOMAIN kept |-> WithoutComments(kept[i])]

\* The first line is a comment too, and stays.
strip_comments(template) ==
    <<Head(template)>> \o [i \in 1..Len(template) - 1 |-> WithoutComments(template[i + 1])]

\* The statement that holds a module's marker gives way to the module.
splice(template, module, part) ==
    LET at == SelectInSeq(template, LAMBDA s : s.lines = <<TextLine(module, FALSE)>>)
    IN  SubSeq(template, 1, at - 1) \o part \o SubSeq(template, at + 1, Len(template))

\* The lines, each with what its statement defines and uses.
Written(source) ==
    FlattenSeq([i \in DOMAIN source |-> [k \in DOMAIN source[i].lines |->
        [text |-> source[i].lines[k].text, raw |-> source[i].lines[k].raw,
         names |-> source[i].names, uses |-> source[i].uses]]])

Keep(lines, keep(_)) ==
    LET at == SelectSeq([i \in DOMAIN lines |-> i], keep) IN [i \in DOMAIN at |-> lines[at[i]]]

\* A second line that imports the same is dropped, wherever it stands.
without_repeated_imports(lines) ==
    Keep(lines, LAMBDA i : lines[i].text = IMPORT => \A j \in 1..i - 1 : lines[j].text # IMPORT)

\* Blank lines go, unless they are in a text.
compact(lines) == Keep(lines, LAMBDA i : lines[i].text = BLANK => lines[i].raw)

FIELDS_MARKER == "@@FIELDS@@"
BODY_MARKER == "@@BODY@@"

\* fields is pruned against the template, body against both.
build(template, body, fields) ==
    LET bare == strip_comments(template)
        fields_part == prune(fields, used_names(bare))
        body_part == prune(body, used_names(bare) \cup used_names(fields_part) \cup imported_names(fields))
    IN  compact(without_repeated_imports(
            Written(splice(splice(bare, BODY_MARKER, body_part), FIELDS_MARKER, fields_part))))

build_one(template, body) ==
    LET bare == strip_comments(template)
    IN  Written(splice(bare, BODY_MARKER, prune_one(body, used_names(bare))))

build_router(template) == Written(strip_comments(template))

dropped_from(source, built) == defined_names(source) \ UNION {built[i].names : i \in DOMAIN built}

\* The text a name is bound to: the lines of its first definition.
constant(lines, name) ==
    LET own == SelectSeq(lines, LAMBDA l : l.names = {name}) IN [i \in DOMAIN own |-> own[i].text]

\* What a deploy would refuse.
check_one(lines) ==
    (IF lines = <<>> \/ lines[1].text # DEPENDS THEN {"no Depends"} ELSE {})
    \cup (IF Len(lines) > MAX_SOURCE THEN {"too long"} ELSE {})

check(lines) ==
    check_one(lines)
    \cup (IF \E i \in DOMAIN lines : lines[i].text = "from lacre" THEN {"a lacre import"} ELSE {})

\* The prompt is held to the one the tests run.
check_llm(lines, fields) ==
    check(lines)
    \cup (LET rules == constant(Written(fields), "RULES")
          IN  IF rules = <<>> \/ constant(lines, "RULES") # rules THEN {"other rules"} ELSE {})

\* What a run leaves behind: nothing is written over with --check, or with a problem.
main(source, problems, checking, current) ==
    [exit |-> IF problems # {} \/ (checking /\ current # source) THEN 1 ELSE 0,
     output |-> IF problems # {} \/ checking THEN current ELSE source]
=============================================================================
