------------------------------ MODULE NameKeys ------------------------------
(* How the contracts turn what a caller writes into a storage key: normalize *)
(* of contracts/router/router_template.py and of                             *)
(* contracts/keycache/keycache_template.py, and the two composite keys built *)
(* from normalized parts.  A text is a sequence of one-character strings.    *)

EXTENDS Naturals, Sequences

CONSTANTS
    Letters,        \* letters in lower case; Upper maps them to upper case
    Upper,          \* Letters -> the same letter in upper case
    Limit           \* MAX_LABEL or MAX_DOMAIN

Space == " "
Dot == "."
Slash == "/"
DomainKey == <<".", "_domainkey", ".">>

\* NAME_CHARS: "_domainkey" stands for the ten characters it spells.
NameChars == Letters \cup {Dot, "-", "_", "_domainkey"}

ASSUME NameKeysAssumption ==
    /\ Limit \in Nat
    /\ DOMAIN Upper = Letters
    \* no name is written with a letter in upper case, or with what separates names
    /\ \A l \in Letters : Upper[l] \notin NameChars
    /\ Letters \cap {Space, Dot, Slash} = {}

NotAName == <<>>

\* str.strip(): without the leading and trailing characters of cut.
Strip(text, cut) ==
    LET kept == {i \in DOMAIN text : text[i] \notin cut} IN
    IF kept = {} THEN <<>>
    ELSE LET first == CHOOSE i \in kept : \A j \in kept : i <= j
             last  == CHOOSE i \in kept : \A j \in kept : i >= j
         IN SubSeq(text, first, last)

Lower(text) ==
    [i \in DOMAIN text |->
        IF \E l \in Letters : Upper[l] = text[i]
        THEN CHOOSE l \in Letters : Upper[l] = text[i]
        ELSE text[i]]

\* value.strip().lower().strip("."), or "" for anything that is not a name.
normalizeText(value) ==
    LET text == Strip(Lower(Strip(value, {Space})), {Dot}) IN
    IF Len(text) \in 1..Limit /\ \A i \in DOMAIN text : text[i] \in NameChars
    THEN text
    ELSE NotAName

\* Mutated form of pin_key: joined by a character a name may contain.
pin_key_dotted(name, label) == name \o <<Dot>> \o label

\* The Router's pinned map is keyed by name + "/" + label.
pin_key(name, label) == name \o <<Slash>> \o label

\* The KeyCache's keys map is keyed by selector + "._domainkey." + domain,
\* the DNS name the key is published at.
record_key(domain, selector) == selector \o DomainKey \o domain

lookup_key(domain, selector) ==
    record_key(normalizeText(domain), normalizeText(selector))
=============================================================================
