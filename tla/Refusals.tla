------------------------------ MODULE Refusals ------------------------------
(* Why a call is refused before any work is done for it: what the contracts  *)
(* say (attest of the Verifier, extract of both Extractors) and what the     *)
(* tools that pay for the call say ahead of it (refusal of tools/attest.py   *)
(* and of tools/extract.py), each test in the order of the code.             *)
(*                                                                           *)
(* A situation is a record of what a call meets.  amiss is what goes wrong   *)
(* for the tool alone: the reads it gets no answer to.                       *)

EXTENDS Sequences

STOP == "stop"              \* the tool cannot tell, and sends nothing
UNREADABLE == "unreadable"  \* an address whose view raises
NOTHING == "resolves nothing"
CONTRACT == "a contract"
NO_DICT == "something else"     \* no dict, and of a record: nothing that dict() takes
NO_FIELDS == "nothing in it"    \* an empty list or text: dict() makes {} of it
PAIRS == "pairs"                \* a list of the fields: dict() makes the record of it

\* A view that raises cannot be read by a tool either; a read that fails stops it.
must_read(s, name, view) == name \notin s.amiss /\ view # UNREADABLE

-----------------------------------------------------------------------------
(* attest: s.method, s.payload, s.paid, s.named, s.router and s.key, what    *)
(* key_status answers.                                                       *)

\* KeyCache: the fields of a key, or none of them.
key_status(state, modulus) == [view |-> CONTRACT, state |-> state, modulus |-> modulus]

NamedStates == {"pending", "rotated", "retired"}

\* "key " and the state.
KeyIs(state) ==
    CASE state = "pending" -> "key pending"
      [] state = "rotated" -> "key rotated"
      [] state = "retired" -> "key retired"
      [] OTHER -> "key"

\* cached_key: a miss is a refusal, whatever the Router names.
cached_key(s) ==
    IF s.router = UNREADABLE THEN "router unreadable"
    ELSE IF s.router = NOTHING THEN "router resolves no keycache"
    ELSE IF s.key.view # CONTRACT THEN "keycache unreadable"
    ELSE IF s.key.state \in NamedStates THEN KeyIs(s.key.state)
    ELSE IF s.key.state # "active" THEN "key not registered"
    ELSE IF s.key.modulus = "not hex" THEN "keycache unreadable"
    ELSE IF s.key.modulus = "too small" THEN "key not registered"
    ELSE ""

\* attest and attest_inline, up to the work.
attest_refusal(s) ==
    LET why == cached_key(s) IN
    IF s.method = "attest" /\ s.payload # "allowed" THEN "url not allowed"
    ELSE IF s.method = "attest_inline" /\ s.payload = "too long" THEN "blob too large"
    ELSE IF ~s.paid THEN "fee not paid"
    ELSE IF ~s.named THEN "bad domain or selector"
    ELSE why

\* Mutated form of key_refusal: every state is named.
key_refusal_any_state(key) ==
    IF key.view = NO_DICT THEN "keycache unreadable"
    ELSE IF key.state # "active" THEN KeyIs(key.state)
    ELSE IF key.modulus = "not hex" THEN "keycache unreadable"
    ELSE IF key.modulus = "too small" THEN "key not registered"
    ELSE ""

key_refusal(key) ==
    IF key.view = NO_DICT THEN "keycache unreadable"
    ELSE IF key.state # "active" /\ key.state \in NamedStates THEN KeyIs(key.state)
    ELSE IF key.state # "active" THEN "key not registered"
    ELSE IF key.modulus = "not hex" THEN "keycache unreadable"
    ELSE IF key.modulus = "too small" THEN "key not registered"
    ELSE ""

\* resolve: the Verifier in use has to read its keys through the same Router.
resolve(s) ==
    IF must_read(s, "router", s.router) /\ s.amiss \cap {"no verifier", "another router"} = {} THEN "" ELSE STOP

predict_attest(s) ==
    LET known == resolve(s)
        why == key_refusal(s.key)
    IN  IF known # "" THEN known
        ELSE IF s.method = "attest" /\ s.payload # "allowed" THEN "url not allowed"
        ELSE IF s.method = "attest_inline" /\ s.payload = "too long" THEN "blob too large"
        ELSE IF ~must_read(s, "fee", CONTRACT) THEN STOP
        ELSE IF ~s.paid THEN "fee not paid"
        ELSE IF ~s.named THEN "bad domain or selector"
        ELSE IF s.router = NOTHING THEN "router resolves no keycache"
        ELSE IF ~must_read(s, "record", s.key.view) THEN STOP
        ELSE why

-----------------------------------------------------------------------------
(* extract: s.lane, s.paid, s.router, s.record, what the Verifier's get      *)
(* answers, s.patterns, whether there are any for its domain, and s.url.     *)

\* verified of both Extractors: dict() is applied to whatever get answers.
verified(s) ==
    IF s.router = UNREADABLE THEN "router unreadable"
    ELSE IF s.router = NOTHING THEN "router resolves no verifier"
    ELSE IF s.record.view \in {UNREADABLE, NO_DICT} THEN "verifier unreadable"
    ELSE IF s.record.view = NO_FIELDS \/ ~s.record.found THEN "record not found"
    ELSE IF ~s.record.valid THEN "record not valid"
    ELSE IF ~s.record.aligned THEN "record not aligned"
    ELSE IF s.record.canon \notin {"simple", "relaxed"} THEN "body canonicalization not supported"
    ELSE ""

extract_refusal(s) ==
    LET why == verified(s) IN
    IF ~s.paid THEN "fee not paid"
    ELSE IF why # "" THEN why
    ELSE IF ~s.patterns THEN "no patterns for domain"
    ELSE IF s.url # "allowed" THEN "url not allowed"
    ELSE ""

\* The lane of the model has no patterns.
extract_llm_refusal(s) ==
    LET why == verified(s) IN
    IF ~s.paid THEN "fee not paid"
    ELSE IF why # "" THEN why
    ELSE IF s.url # "allowed" THEN "url not allowed"
    ELSE ""

\* resolve of extract.py: the Extractor first, then the Verifier behind it.
resolve_extractor(s) ==
    IF must_read(s, "router", s.router) /\ s.amiss \cap {"no extractor", "another router"} = {} THEN "" ELSE STOP

predict_extract(s) ==
    LET known == resolve_extractor(s) IN
    IF known # "" THEN known
    ELSE IF ~must_read(s, "fee", CONTRACT) THEN STOP
    ELSE IF ~s.paid THEN "fee not paid"
    ELSE IF s.router = NOTHING THEN "router resolves no verifier"
    ELSE IF ~must_read(s, "record", s.record.view) THEN STOP
    ELSE IF s.record.view # CONTRACT THEN "verifier unreadable"
    ELSE IF ~s.record.found THEN "record not found"
    ELSE IF ~s.record.valid THEN "record not valid"
    ELSE IF ~s.record.aligned THEN "record not aligned"
    ELSE IF s.record.canon \notin {"simple", "relaxed"} THEN "body canonicalization not supported"
    ELSE IF s.lane = "patterns" /\ "patterns" \in s.amiss THEN STOP
    ELSE IF s.lane = "patterns" /\ ~s.patterns THEN "no patterns for domain"
    ELSE IF s.url # "allowed" THEN "url not allowed"
    ELSE ""
=============================================================================
