-------------------------------- MODULE Lacre --------------------------------
(* The contracts of Lacre together, as docs/interfaces.md section 5 has an   *)
(* application use them: the Router says which Verifier and Extractors are   *)
(* in use, the Verifiers keep attestations, the Extractor of each lane keeps *)
(* what it read in the signed body of one, and the consumer of               *)
(* integrations/consumer_example.py acts once on a message both vouch for.   *)
(*                                                                           *)
(* Every contract reads the others at LATEST_FINAL.  What is accepted and    *)
(* not final can be appealed: the contract goes back to a state at least as  *)
(* new as its final one, and the calls undone may run again or not.          *)
(*                                                                           *)
(* What a call pays and gets back is module Verifier's; the Router's notice  *)
(* is module Router's: here its names move at any time.                      *)

EXTENDS Naturals, Sequences, FiniteSetsExt, SequencesExt, TreeMaps

CONSTANTS
    Verifiers, Elsewhere,   \* what the Router can name: Verifiers, or an
                            \* address that is none
    Messages,               \* the signed messages
    Domain,                 \* message -> the domain that signed it
    DOMAIN_OF_APP,          \* the one domain the consumer accepts
    Requesters,
    Kinds,                  \* what attestations can turn out to be, see AllKinds
    Lanes,                  \* the lanes there is an Extractor for
    MAX_SCAN,               \* how many extractions the consumer looks at
    MaxRecords,             \* bound on the records of a Verifier
    MaxExtractions,         \* bound on the records of the Extractors
    MaxMoves,               \* bound on the moves of the Router's names
    MaxAppeals              \* bound on appeals

\* What an extraction can say that the consumer tells apart: a match that read
\* "shipped", or anything else, no match and a conflict of patterns included.
Readings == {"shipped", "other"}

\* A record is one the consumer accepts, or its signature is not valid, or the
\* sender is not of the signing domain, or its key is too short, or its body is
\* canonicalized in a way no Extractor knows.
AllKinds == {"good", "invalid", "unaligned", "weak", "odd"}

ASSUME LacreAssumption ==
    /\ Domain \in [Messages -> STRING] /\ Kinds \subseteq AllKinds
    /\ Lanes \subseteq {"patterns", "llm"} /\ MAX_SCAN \in Nat \ {0}
    /\ MaxRecords \in Nat /\ MaxExtractions \in Nat /\ MaxMoves \in Nat /\ MaxAppeals \in Nat

VARIABLES
    verifier,       \* what the Router resolves "verifier" to, NONE at first
    extractors,     \* the lanes whose name the Router resolves to the Extractor
    attested,       \* Verifier -> its records
    final,          \* Verifier -> how many of them are final
    documents,      \* the domains the pattern lane has patterns for
    extracted,      \* lane -> the records of its Extractor
    final_x,        \* lane -> how many of them are final
    refused,        \* the <<lane, requester>> whose last_refusal is a reason
    delivered,      \* the consumer's: the <<Verifier, id>> it acted on
    messages,       \* message -> the <<Verifier, id>> it was acted on for
    moves, appeals

routerVars == <<verifier, extractors>>
verifierVars == <<attested, final>>
extractorVars == <<documents, extracted, final_x, refused>>
consumerVars == <<delivered, messages>>
vars == <<routerVars, verifierVars, extractorVars, consumerVars, moves, appeals>>

NONE == "none"

Attestation == [message : Messages, kind : AllKinds, requester : Requesters]
Extraction == [verifier : Verifiers, record_id : Nat, domain : Range(Domain), bh : Messages,
               reading : Readings, requester : Requesters]

TypeOK ==
    /\ verifier \in Verifiers \cup {Elsewhere, NONE} /\ extractors \subseteq Lanes
    /\ attested \in [Verifiers -> Seq(Attestation)]
    /\ final \in [Verifiers -> Nat] /\ \A v \in Verifiers : final[v] <= Len(attested[v])
    /\ documents \subseteq Range(Domain)
    /\ extracted \in [Lanes -> Seq(Extraction)]
    /\ final_x \in [Lanes -> Nat] /\ \A lane \in Lanes : final_x[lane] <= Len(extracted[lane])
    /\ refused \subseteq Lanes \X Requesters
    /\ delivered \subseteq Verifiers \X Nat
    /\ messages \in [DOMAIN messages -> delivered] /\ DOMAIN messages \subseteq Messages
    /\ moves \in 0..MaxMoves /\ appeals \in 0..MaxAppeals

Init ==
    /\ verifier = NONE /\ extractors = {}
    /\ attested = [v \in Verifiers |-> <<>>] /\ final = [v \in Verifiers |-> 0]
    /\ documents = {} /\ extracted = [lane \in Lanes |-> <<>>] /\ final_x = [lane \in Lanes |-> 0]
    /\ refused = {}
    /\ delivered = {} /\ messages = EmptyMap
    /\ moves = 0 /\ appeals = 0

-----------------------------------------------------------------------------
(* What the contracts read of each other.                                    *)

\* Record ids start at 0 on every Verifier.
FinalRecord(v, id) == attested[v][id + 1]

\* Mutated form of Readable: the latest state is read, final or not.
ReadableLatest(v, id) == v \in Verifiers /\ id < Len(attested[v])

\* A record that is not final is not there yet.
Readable(v, id) == v \in Verifiers /\ id < final[v]

\* The Extractor's verified: whether it can read the record of this id.  Which
\* of its reasons it gives when it cannot makes no difference here.
verified(id) ==
    /\ verifier # NONE              \* the Router resolves no Verifier
    /\ verifier # Elsewhere         \* what it resolves cannot be read
    /\ Readable(verifier, id)
    /\ FinalRecord(verifier, id).kind \notin {"invalid", "unaligned", "odd"}

-----------------------------------------------------------------------------
(* The Extractors.                                                           *)

\* The reason is left to read; which one it is makes no difference here.
_refuse(lane, sender) == refused' = refused \cup {<<lane, sender>>} /\ UNCHANGED extracted

\* What the validators can agree on for a body: fetched reads the octets of any
\* url, but only a body with the signed hash is a match, and the patterns or
\* the model say what it is.  A match carries no value but the ones agreed on.
fetched == Readings

Extractions == MapThenSumSet(LAMBDA lane : Len(extracted[lane]), Lanes)

\* A record of what was read in a body, of the record it was asked for.
Extract(lane, sender, id) ==
    /\ \E reading \in fetched :
         extracted' = [extracted EXCEPT ![lane] = Append(@,
           [verifier |-> verifier, record_id |-> id,
            domain |-> Domain[FinalRecord(verifier, id).message],
            bh |-> FinalRecord(verifier, id).message,
            reading |-> reading, requester |-> sender])]
    /\ UNCHANGED refused

\* extract of the pattern lane.  Whoever calls it can send too little or a url
\* that is not allowed.
extract(sender, id, paid, url_allowed) ==
    /\ Extractions < MaxExtractions
    /\ LET readable ==
             /\ paid /\ verified(id) /\ url_allowed
             /\ Domain[FinalRecord(verifier, id).message] \in documents
       IN  IF readable THEN Extract("patterns", sender, id) ELSE _refuse("patterns", sender)
    /\ UNCHANGED <<routerVars, verifierVars, documents, final_x, consumerVars, moves, appeals>>

\* extract of the model's lane, which refuses no domain.
extract_llm(sender, id, paid, url_allowed) ==
    /\ Extractions < MaxExtractions
    /\ IF paid /\ verified(id) /\ url_allowed THEN Extract("llm", sender, id)
       ELSE _refuse("llm", sender)
    /\ UNCHANGED <<routerVars, verifierVars, documents, final_x, consumerVars, moves, appeals>>

set_patterns(domain) ==
    /\ documents' = documents \cup {domain}
    /\ UNCHANGED <<routerVars, verifierVars, extracted, final_x, refused, consumerVars,
                   moves, appeals>>

\* Mutated form of records_of: the extractions of all requesters.
records_of_all(lane, requester) == 1..final_x[lane]

\* records_of and get_record at LATEST_FINAL: where a requester's extractions are.
records_of(lane, requester) == {i \in 1..final_x[lane] : extracted[lane][i].requester = requester}

-----------------------------------------------------------------------------
(* The consumer.                                                             *)

\* attested, with check_for of the Verifier: any requester's record will do.
attested_for_app(id) ==
    /\ Readable(verifier, id)
    /\ FinalRecord(verifier, id).kind \in {"good", "odd"}
    /\ Domain[FinalRecord(verifier, id).message] = DOMAIN_OF_APP

Newest(ids) == {i \in ids : Cardinality({j \in ids : j >= i}) <= MAX_SCAN}

\* Mutated form of ships: an extraction of another Verifier's record will do.
ships_for_id(held, id) == held.record_id = id /\ held.reading = "shipped"

ships(held, id) ==
    held.record_id = id /\ held.verifier = verifier /\ held.reading = "shipped"

\* shipped: whether the lane read it in the body, looked for among the newest
\* extractions of the requester of the record.
shipped(id, lane) ==
    /\ lane \in extractors /\ Readable(verifier, id)
    /\ \E i \in Newest(records_of(lane, FinalRecord(verifier, id).requester)) :
         ships(extracted[lane][i], id)

\* Mutated form of ActedOn: what was delivered is looked up by record.
ActedOnRecord(message, id) == <<verifier, id>> \in delivered

ActedOn(message, id) == Has(messages, message)

\* Anyone can call it.
mark_delivered(id, lane) ==
    /\ attested_for_app(id)
    /\ shipped(id, lane)
    /\ LET message == FinalRecord(verifier, id).message IN
       /\ ~ActedOn(message, id)
       /\ messages' = Put(messages, message, <<verifier, id>>)
       /\ delivered' = delivered \cup {<<verifier, id>>}
    /\ UNCHANGED <<routerVars, verifierVars, extractorVars, moves, appeals>>

-----------------------------------------------------------------------------
(* The Verifiers, the Router and finality.                                   *)

\* attest of any Verifier that is deployed, in use or not.
attest(v, sender, message, kind) ==
    /\ Len(attested[v]) < MaxRecords
    /\ attested' = [attested EXCEPT ![v] =
                      Append(@, [message |-> message, kind |-> kind, requester |-> sender])]
    /\ UNCHANGED <<routerVars, final, extractorVars, consumerVars, moves, appeals>>

\* A move of a name of the Router becomes final.
Move ==
    /\ moves < MaxMoves /\ moves' = moves + 1
    /\ \/ verifier' \in (Verifiers \cup {Elsewhere}) \ {verifier} /\ UNCHANGED extractors
       \/ \E lane \in Lanes : lane \notin extractors /\ extractors' = extractors \cup {lane}
                              /\ UNCHANGED verifier
    /\ UNCHANGED <<verifierVars, extractorVars, consumerVars, appeals>>

Finalize ==
    /\ \/ /\ \E v \in Verifiers : final[v] < Len(attested[v]) /\ final' = [final EXCEPT ![v] = @ + 1]
          /\ UNCHANGED final_x
       \/ /\ \E lane \in Lanes : /\ final_x[lane] < Len(extracted[lane])
                                 /\ final_x' = [final_x EXCEPT ![lane] = @ + 1]
          /\ UNCHANGED final
    /\ UNCHANGED <<routerVars, attested, documents, extracted, refused, consumerVars, moves, appeals>>

\* An appeal takes back what is not final.
Appeal ==
    /\ appeals < MaxAppeals /\ appeals' = appeals + 1
    /\ \/ /\ \E v \in Verifiers : /\ final[v] < Len(attested[v])
                                  /\ attested' = [attested EXCEPT ![v] = SubSeq(@, 1, final[v])]
          /\ UNCHANGED extracted
       \/ /\ \E lane \in Lanes : /\ final_x[lane] < Len(extracted[lane])
                                 /\ extracted' = [extracted EXCEPT ![lane] = SubSeq(@, 1, final_x[lane])]
          /\ UNCHANGED attested
    /\ UNCHANGED <<routerVars, final, documents, final_x, refused, consumerVars, moves>>

Next ==
    \/ \E v \in Verifiers, sender \in Requesters, message \in Messages, kind \in Kinds :
         attest(v, sender, message, kind)
    \/ \E sender \in Requesters, id \in 0..MaxRecords - 1, paid, url_allowed \in BOOLEAN :
         \/ "patterns" \in Lanes /\ extract(sender, id, paid, url_allowed)
         \/ "llm" \in Lanes /\ extract_llm(sender, id, paid, url_allowed)
    \/ \E domain \in Range(Domain) : set_patterns(domain)
    \/ \E id \in 0..MaxRecords - 1, lane \in Lanes : mark_delivered(id, lane)
    \/ Move \/ Finalize \/ Appeal

Spec == Init /\ [][Next]_vars

-----------------------------------------------------------------------------
(* Properties.                                                               *)

\* An extraction is of a record that stands, whatever is appealed later and
\* wherever the Router's names move: the Verifier it names holds, final, a
\* valid and aligned record of that id, of the domain and the body hash it
\* states (docs/interfaces.md, rule 1).
ExtractionsAreOfRecords ==
    \A lane \in Lanes : \A x \in Range(extracted[lane]) :
        /\ x.record_id < final[x.verifier]
        /\ LET record == attested[x.verifier][x.record_id + 1] IN
           /\ record.kind \in {"good", "weak"}
           /\ record.message = x.bh /\ Domain[record.message] = x.domain

\* The consumer acts once on a message, however often it is attested, on
\* however many Verifiers (rule 5).
ActsOnce ==
    \A d, e \in delivered : FinalRecord(d[1], d[2]).message = FinalRecord(e[1], e[2]).message => d = e

\* It acts on what stands: the record is final and good, and a final extraction
\* of that record, of that Verifier, read that it shipped.
ActsOnEvidence ==
    \A d \in delivered :
        /\ d[2] < final[d[1]] /\ FinalRecord(d[1], d[2]).kind = "good"
        /\ \E lane \in Lanes : \E i \in 1..final_x[lane] :
             LET x == extracted[lane][i] IN
             <<x.verifier, x.record_id>> = d /\ x.reading = "shipped"

OwnCalls(lane, who) == Cardinality({i \in 1..final_x[lane] : extracted[lane][i].requester = who})

\* Nobody else can take away what require_shipped answers: it only fades when
\* the Router's names move, or when the requester of the record itself makes
\* MAX_SCAN newer extractions.
ShippedFadesByOwnCalls ==
    [][\A id \in 0..MaxRecords - 1, lane \in Lanes :
          LET who == FinalRecord(verifier, id).requester
          IN  shipped(id, lane) /\ ~shipped(id, lane)' =>
                  \/ routerVars' # routerVars
                  \/ /\ OwnCalls(lane, who)' > MAX_SCAN
                     /\ OwnCalls(lane, who)' > OwnCalls(lane, who)]_vars
=============================================================================
