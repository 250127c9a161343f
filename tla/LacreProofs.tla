---------------------------- MODULE LacreProofs -----------------------------
(* What holds of the contracts together for any Verifiers, messages and      *)
(* requesters, any number of records, moves of names and appeals, and any    *)
(* scan window.                                                              *)

EXTENDS Lacre, FiniteSetTheorems, TLAPS

-----------------------------------------------------------------------------
(* Lists that grow at the end and are cut.                                   *)

\* What a list is once something is appended to it.
LEMMA Appended ==
    ASSUME NEW S, NEW s \in Seq(S), NEW e \in S
    PROVE  /\ Append(s, e) \in Seq(S) /\ Len(Append(s, e)) = Len(s) + 1
           /\ \A i \in 1..Len(s) : Append(s, e)[i] = s[i]
           /\ Append(s, e)[Len(s) + 1] = e
           /\ Range(Append(s, e)) = Range(s) \cup {e}
  <1> DEFINE a == Append(s, e)
  <1>1. a \in Seq(S) /\ Len(a) = Len(s) + 1
    OBVIOUS
  <1>2. DOMAIN a = 1..Len(s) + 1 /\ DOMAIN s = 1..Len(s) /\ Len(s) \in Nat
    OBVIOUS
  <1>3. \A i \in 1..Len(s) : a[i] = s[i]
    OBVIOUS
  <1>4. a[Len(s) + 1] = e
    OBVIOUS
  <1>5. 1..Len(s) + 1 = (1..Len(s)) \cup {Len(s) + 1}
    BY <1>2
  <1>6. Range(a) = Range(s) \cup {e}
    <2> HIDE DEF a
    <2> QED BY <1>2, <1>3, <1>4, <1>5 DEF Range
  <1> QED BY <1>1, <1>3, <1>4, <1>6

\* What a list is once it is cut down to its first n.
LEMMA Cut ==
    ASSUME NEW S, NEW s \in Seq(S), NEW n \in Nat, n <= Len(s)
    PROVE  /\ SubSeq(s, 1, n) \in Seq(S) /\ Len(SubSeq(s, 1, n)) = n
           /\ \A i \in 1..n : SubSeq(s, 1, n)[i] = s[i]
           /\ Range(SubSeq(s, 1, n)) \subseteq Range(s)
  <1> DEFINE c == SubSeq(s, 1, n)
  <1>1. c \in Seq(S) /\ Len(c) = n /\ \A i \in 1..n : c[i] = s[i]
    OBVIOUS
  <1>2. DOMAIN c = 1..n /\ DOMAIN s = 1..Len(s) /\ Len(s) \in Nat
    BY <1>1
  <1>3. Range(c) \subseteq Range(s)
    <2> HIDE DEF c
    <2> QED BY <1>1, <1>2 DEF Range
  <1> QED BY <1>1, <1>3

-----------------------------------------------------------------------------
(* Type correctness.                                                         *)

\* What a final record is.
LEMMA FinalRecordType ==
    ASSUME TypeOK, NEW v \in Verifiers, NEW id \in Nat, id < final[v]
    PROVE  /\ FinalRecord(v, id) \in Attestation
           /\ FinalRecord(v, id).message \in Messages
           /\ Domain[FinalRecord(v, id).message] \in Range(Domain)
  <1>1. attested[v] \in Seq(Attestation) /\ final[v] \in Nat /\ final[v] <= Len(attested[v])
    BY DEF TypeOK
  <1>2. id + 1 \in 1..Len(attested[v])
    BY <1>1
  <1>3. FinalRecord(v, id) \in Attestation
    BY <1>1, <1>2 DEF FinalRecord
  <1>4. FinalRecord(v, id).message \in Messages
    BY <1>3 DEF Attestation
  <1> QED BY <1>3, <1>4, LacreAssumption DEF Range

\* An extraction is made of a final record.
LEMMA ReadableType ==
    ASSUME TypeOK, NEW id \in Nat, Readable(verifier, id)
    PROVE  /\ verifier \in Verifiers /\ id < final[verifier]
           /\ FinalRecord(verifier, id).message \in Messages
           /\ Domain[FinalRecord(verifier, id).message] \in Range(Domain)
  BY FinalRecordType DEF Readable

\* What an Extractor appends.
Made(sender, id, reading) ==
    [verifier |-> verifier, record_id |-> id, domain |-> Domain[FinalRecord(verifier, id).message],
     bh |-> FinalRecord(verifier, id).message, reading |-> reading, requester |-> sender]

\* A call of an Extractor appends one record, of a record it verified, or none.
Extracts ==
    /\ \/ UNCHANGED extracted
       \/ \E lane \in Lanes, sender \in Requesters, id \in Nat, reading \in Readings :
            /\ verified(id)
            /\ extracted' = [extracted EXCEPT ![lane] = Append(@, Made(sender, id, reading))]
    /\ refused' \subseteq refused \cup (Lanes \X Requesters)
    /\ UNCHANGED <<routerVars, verifierVars, documents, final_x, consumerVars, moves, appeals>>

LEMMA CallsExtract ==
    ASSUME NEW sender \in Requesters, NEW id \in Nat,
           NEW paid \in BOOLEAN, NEW url_allowed \in BOOLEAN,
           \/ "patterns" \in Lanes /\ extract(sender, id, paid, url_allowed)
           \/ "llm" \in Lanes /\ extract_llm(sender, id, paid, url_allowed)
    PROVE  Extracts
  <1>1. ASSUME NEW lane \in Lanes, _refuse(lane, sender)
        PROVE  UNCHANGED extracted /\ refused' \subseteq refused \cup (Lanes \X Requesters)
    BY <1>1 DEF _refuse
  <1>2. ASSUME NEW lane \in Lanes, Extract(lane, sender, id), verified(id)
        PROVE  /\ \E reading \in Readings :
                    extracted' = [extracted EXCEPT ![lane] = Append(@, Made(sender, id, reading))]
               /\ UNCHANGED refused
    BY <1>2 DEF Extract, Made, fetched
  <1>3. CASE "patterns" \in Lanes /\ extract(sender, id, paid, url_allowed)
    <2>1. \/ Extract("patterns", sender, id) /\ verified(id)
          \/ _refuse("patterns", sender)
      BY <1>3 DEF extract
    <2>2. UNCHANGED <<routerVars, verifierVars, documents, final_x, consumerVars, moves, appeals>>
      BY <1>3 DEF extract
    <2> QED BY <1>1, <1>2, <1>3, <2>1, <2>2 DEF Extracts
  <1>4. CASE "llm" \in Lanes /\ extract_llm(sender, id, paid, url_allowed)
    <2>1. \/ Extract("llm", sender, id) /\ verified(id)
          \/ _refuse("llm", sender)
      BY <1>4 DEF extract_llm
    <2>2. UNCHANGED <<routerVars, verifierVars, documents, final_x, consumerVars, moves, appeals>>
      BY <1>4 DEF extract_llm
    <2> QED BY <1>1, <1>2, <1>4, <2>1, <2>2 DEF Extracts
  <1> QED BY <1>3, <1>4

Attests == \E v \in Verifiers, sender \in Requesters, message \in Messages, kind \in Kinds :
             attest(v, sender, message, kind)
SetsPatterns == \E domain \in Range(Domain) : set_patterns(domain)
Marks == \E id \in 0..MaxRecords - 1, lane \in Lanes : mark_delivered(id, lane)

\* The kinds of steps there are.
LEMMA Steps ==
    ASSUME Next \/ UNCHANGED vars
    PROVE  Attests \/ Extracts \/ SetsPatterns \/ Marks \/ Move \/ Finalize \/ Appeal \/ UNCHANGED vars
  <1>1. \A id \in 0..MaxRecords - 1 : id \in Nat
    OBVIOUS
  <1>2. ASSUME NEW sender \in Requesters, NEW id \in 0..MaxRecords - 1,
               NEW paid \in BOOLEAN, NEW url_allowed \in BOOLEAN,
               \/ "patterns" \in Lanes /\ extract(sender, id, paid, url_allowed)
               \/ "llm" \in Lanes /\ extract_llm(sender, id, paid, url_allowed)
        PROVE  Extracts
    BY <1>1, <1>2, CallsExtract
  <1> QED BY <1>2 DEF Next, Attests, SetsPatterns, Marks

LEMMA AttestsTypes ==
    ASSUME TypeOK, Attests PROVE TypeOK'
  <1> PICK v \in Verifiers, sender \in Requesters, message \in Messages, kind \in Kinds :
           attest(v, sender, message, kind)
    BY DEF Attests
  <1> DEFINE record == [message |-> message, kind |-> kind, requester |-> sender]
  <1>1. record \in Attestation
    BY LacreAssumption DEF Attestation
  <1>2. attested[v] \in Seq(Attestation)
    BY DEF TypeOK
  <1>3. attested' = [attested EXCEPT ![v] = Append(attested[v], record)]
    BY DEF attest
  <1> HIDE DEF record
  <1>4. /\ Append(attested[v], record) \in Seq(Attestation)
        /\ Len(Append(attested[v], record)) = Len(attested[v]) + 1
    BY <1>1, <1>2, Appended
  <1>5. attested' \in [Verifiers -> Seq(Attestation)]
    BY <1>3, <1>4 DEF TypeOK
  <1>6. \A w \in Verifiers : final[w] <= Len(attested'[w])
    <2> TAKE w \in Verifiers
    <2>1. CASE w = v
      <3>1. attested'[w] = Append(attested[v], record)
        BY <1>3, <2>1 DEF TypeOK
      <3>2. final[v] \in Nat /\ final[v] <= Len(attested[v]) /\ Len(attested[v]) \in Nat
        BY <1>2 DEF TypeOK
      <3> QED BY <1>4, <2>1, <3>1, <3>2
    <2>2. CASE w # v
      BY <1>3, <2>2 DEF TypeOK
    <2> QED BY <2>1, <2>2
  <1>7. UNCHANGED <<routerVars, final, extractorVars, consumerVars, moves, appeals>>
    BY DEF attest
  <1> QED BY <1>5, <1>6, <1>7 DEF TypeOK, routerVars, extractorVars, consumerVars

LEMMA MadeType ==
    ASSUME TypeOK, NEW sender \in Requesters, NEW id \in Nat, NEW reading \in Readings, verified(id)
    PROVE  Made(sender, id, reading) \in Extraction
  <1>1. Readable(verifier, id)
    BY DEF verified
  <1> QED BY <1>1, ReadableType DEF Made, Extraction

LEMMA ExtractsTypes ==
    ASSUME TypeOK, Extracts PROVE TypeOK'
  <1>1. /\ extracted' \in [Lanes -> Seq(Extraction)]
        /\ \A lane \in Lanes : final_x[lane] <= Len(extracted'[lane])
    <2>1. CASE UNCHANGED extracted
      BY <2>1 DEF TypeOK
    <2>2. ASSUME NEW lane \in Lanes, NEW sender \in Requesters, NEW id \in Nat,
                 NEW reading \in Readings, verified(id),
                 extracted' = [extracted EXCEPT ![lane] = Append(@, Made(sender, id, reading))]
          PROVE  /\ extracted' \in [Lanes -> Seq(Extraction)]
                 /\ \A l \in Lanes : final_x[l] <= Len(extracted'[l])
      <3> DEFINE x == Made(sender, id, reading)
      <3>1. x \in Extraction
        BY <2>2, MadeType
      <3>2. extracted[lane] \in Seq(Extraction)
        BY DEF TypeOK
      <3>3. extracted' = [extracted EXCEPT ![lane] = Append(extracted[lane], x)]
        BY <2>2
      <3> HIDE DEF x
      <3>4. /\ Append(extracted[lane], x) \in Seq(Extraction)
            /\ Len(Append(extracted[lane], x)) = Len(extracted[lane]) + 1
        BY <3>1, <3>2, Appended
      <3>5. extracted' \in [Lanes -> Seq(Extraction)]
        BY <3>3, <3>4 DEF TypeOK
      <3>6. \A l \in Lanes : final_x[l] <= Len(extracted'[l])
        <4> TAKE l \in Lanes
        <4>1. CASE l = lane
          <5>1. extracted'[l] = Append(extracted[lane], x)
            BY <3>3, <4>1 DEF TypeOK
          <5>2. /\ final_x[lane] \in Nat /\ final_x[lane] <= Len(extracted[lane])
                /\ Len(extracted[lane]) \in Nat
            BY <3>2 DEF TypeOK
          <5> QED BY <3>4, <4>1, <5>1, <5>2
        <4>2. CASE l # lane
          BY <3>3, <4>2 DEF TypeOK
        <4> QED BY <4>1, <4>2
      <3> QED BY <3>5, <3>6
    <2> QED BY <2>1, <2>2 DEF Extracts
  <1>2. refused' \subseteq Lanes \X Requesters
    BY DEF Extracts, TypeOK
  <1>3. UNCHANGED <<routerVars, verifierVars, documents, final_x, consumerVars, moves, appeals>>
    BY DEF Extracts
  <1> QED BY <1>1, <1>2, <1>3 DEF TypeOK, routerVars, verifierVars, consumerVars

LEMMA MarksTypes ==
    ASSUME TypeOK, Marks PROVE TypeOK'
  <1> PICK id \in 0..MaxRecords - 1, lane \in Lanes : mark_delivered(id, lane)
    BY DEF Marks
  <1> DEFINE message == FinalRecord(verifier, id).message
             d == <<verifier, id>>
  <1>1. id \in Nat
    OBVIOUS
  <1>2. Readable(verifier, id)
    BY DEF mark_delivered, attested_for_app
  <1>3. message \in Messages /\ verifier \in Verifiers
    BY <1>1, <1>2, ReadableType
  <1>4. messages' = Put(messages, message, d) /\ delivered' = delivered \cup {d}
    BY DEF mark_delivered
  <1>5. delivered' \subseteq Verifiers \X Nat
    BY <1>1, <1>3, <1>4 DEF TypeOK
  <1> HIDE DEF message, d
  <1>6. messages \in [DOMAIN messages -> delivered'] /\ DOMAIN messages \subseteq Messages
    BY <1>4 DEF TypeOK
  <1>7. d \in delivered'
    BY <1>4
  <1>8. messages' \in [DOMAIN messages' -> delivered'] /\ DOMAIN messages' \subseteq Messages
    BY <1>3, <1>4, <1>6, <1>7 DEF Put
  <1>9. UNCHANGED <<routerVars, verifierVars, extractorVars, moves, appeals>>
    BY DEF mark_delivered
  <1> QED BY <1>5, <1>8, <1>9 DEF TypeOK, routerVars, verifierVars, extractorVars

LEMMA FinalizeTypes ==
    ASSUME TypeOK, Finalize PROVE TypeOK'
  <1>1. ASSUME NEW S, NEW N, NEW list \in [N -> Seq(S)], NEW upto \in [N -> Nat], NEW n \in N,
               \A m \in N : upto[m] <= Len(list[m]), upto[n] < Len(list[n])
        PROVE  LET more == [upto EXCEPT ![n] = @ + 1]
               IN  more \in [N -> Nat] /\ \A m \in N : more[m] <= Len(list[m])
    <2>1. Len(list[n]) \in Nat
      OBVIOUS
    <2> QED BY <1>1, <2>1
  <1>2. CASE \E v \in Verifiers : /\ final[v] < Len(attested[v])
                                  /\ final' = [final EXCEPT ![v] = @ + 1]
                                  /\ UNCHANGED final_x
    <2>1. final' \in [Verifiers -> Nat] /\ \A v \in Verifiers : final'[v] <= Len(attested[v])
      BY <1>1, <1>2 DEF TypeOK
    <2> QED BY <1>2, <2>1 DEF Finalize, TypeOK, routerVars, consumerVars
  <1>3. CASE \E lane \in Lanes : /\ final_x[lane] < Len(extracted[lane])
                                 /\ final_x' = [final_x EXCEPT ![lane] = @ + 1]
                                 /\ UNCHANGED final
    <2>1. final_x' \in [Lanes -> Nat] /\ \A lane \in Lanes : final_x'[lane] <= Len(extracted[lane])
      BY <1>1, <1>3 DEF TypeOK
    <2> QED BY <1>3, <2>1 DEF Finalize, TypeOK, routerVars, consumerVars
  <1> QED BY <1>2, <1>3 DEF Finalize

LEMMA AppealTypes ==
    ASSUME TypeOK, Appeal PROVE TypeOK'
  <1>1. ASSUME NEW S, NEW N, NEW list \in [N -> Seq(S)], NEW upto \in [N -> Nat], NEW n \in N,
               \A m \in N : upto[m] <= Len(list[m])
        PROVE  LET less == [list EXCEPT ![n] = SubSeq(@, 1, upto[n])]
               IN  less \in [N -> Seq(S)] /\ \A m \in N : upto[m] <= Len(less[m])
    <2> DEFINE c == SubSeq(list[n], 1, upto[n])
    <2>1. c \in Seq(S) /\ Len(c) = upto[n]
      BY <1>1, Cut
    <2> HIDE DEF c
    <2>2. upto[n] \in Nat
      OBVIOUS
    <2>3. LET less == [list EXCEPT ![n] = c]
          IN  less \in [N -> Seq(S)] /\ \A m \in N : upto[m] <= Len(less[m])
      BY <1>1, <2>1, <2>2
    <2> QED BY <2>3 DEF c
  <1>2. appeals' \in 0..MaxAppeals
    BY LacreAssumption DEF Appeal, TypeOK
  <1>3. CASE \E v \in Verifiers : /\ attested' = [attested EXCEPT ![v] = SubSeq(@, 1, final[v])]
                                  /\ UNCHANGED extracted
    <2>1. attested' \in [Verifiers -> Seq(Attestation)] /\ \A v \in Verifiers : final[v] <= Len(attested'[v])
      BY <1>1, <1>3 DEF TypeOK
    <2> QED BY <1>2, <1>3, <2>1 DEF Appeal, TypeOK, routerVars, consumerVars
  <1>4. CASE \E lane \in Lanes : /\ extracted' = [extracted EXCEPT ![lane] = SubSeq(@, 1, final_x[lane])]
                                 /\ UNCHANGED attested
    <2>1. extracted' \in [Lanes -> Seq(Extraction)] /\ \A lane \in Lanes : final_x[lane] <= Len(extracted'[lane])
      BY <1>1, <1>4 DEF TypeOK
    <2> QED BY <1>2, <1>4, <2>1 DEF Appeal, TypeOK, routerVars, consumerVars
  <1> QED BY <1>3, <1>4 DEF Appeal

LEMMA MoveTypes == ASSUME TypeOK, Move PROVE TypeOK'
  <1>1. moves' \in 0..MaxMoves
    BY LacreAssumption DEF Move, TypeOK
  <1> QED BY <1>1 DEF Move, TypeOK, verifierVars, extractorVars, consumerVars

LEMMA SetsPatternsTypes == ASSUME TypeOK, SetsPatterns PROVE TypeOK'
  BY DEF SetsPatterns, set_patterns, TypeOK, routerVars, verifierVars, consumerVars

LEMMA StepTypes == ASSUME TypeOK, Next \/ UNCHANGED vars PROVE TypeOK'
  <1>1. CASE UNCHANGED vars
    BY <1>1 DEF vars, TypeOK, routerVars, verifierVars, extractorVars, consumerVars
  <1> QED BY <1>1, Steps, AttestsTypes, ExtractsTypes, SetsPatternsTypes, MarksTypes, MoveTypes,
             FinalizeTypes, AppealTypes

\* What the contracts store is what their code says it is, and no more is final
\* than there is.
THEOREM LacreTypeOK == Spec => []TypeOK
  <1>1. Init => TypeOK
    BY LacreAssumption DEF Init, TypeOK, EmptyMap, NONE
  <1> QED BY <1>1, StepTypes, PTL DEF Spec

-----------------------------------------------------------------------------
(* What is final stays.                                                      *)

\* A list that keeps its first n.
Keeps(s, n, t) == \A i \in 1..n : t[i] = s[i]

\* No count goes down where one of them goes up.
LEMMA RaisedOrSame ==
    ASSUME NEW N, NEW upto \in [N -> Nat], NEW n \in N, NEW m \in N
    PROVE  upto[m] <= [upto EXCEPT ![n] = @ + 1][m]
  <1>1. upto[m] \in Nat /\ upto[n] \in Nat
    OBVIOUS
  <1>2. CASE m = n
    BY <1>1, <1>2
  <1>3. CASE m # n
    BY <1>1, <1>3
  <1> QED BY <1>2, <1>3

\* A final record of a Verifier stays final and stays what it is, whatever is
\* appealed.
LEMMA RecordsStand ==
    ASSUME TypeOK, Next \/ UNCHANGED vars, NEW v \in Verifiers
    PROVE  final[v] <= final'[v] /\ Keeps(attested[v], final[v], attested'[v])
  <1>1. /\ attested[v] \in Seq(Attestation) /\ Len(attested[v]) \in Nat
        /\ final[v] \in Nat /\ final[v] <= Len(attested[v])
    BY DEF TypeOK
  <1>2. CASE Attests
    <2> PICK w \in Verifiers, sender \in Requesters, message \in Messages, kind \in Kinds :
             attest(w, sender, message, kind)
      BY <1>2 DEF Attests
    <2> DEFINE record == [message |-> message, kind |-> kind, requester |-> sender]
    <2>1. record \in Attestation
      BY LacreAssumption DEF Attestation
    <2>2. attested' = [attested EXCEPT ![w] = Append(attested[w], record)] /\ final' = final
      BY DEF attest
    <2> HIDE DEF record
    <2>3. CASE w = v
      <3>1. attested'[v] = Append(attested[v], record)
        BY <2>2, <2>3 DEF TypeOK
      <3>2. \A i \in 1..Len(attested[v]) : attested'[v][i] = attested[v][i]
        BY <1>1, <2>1, <3>1, Appended
      <3> QED BY <1>1, <2>2, <3>2 DEF Keeps
    <2>4. CASE w # v
      BY <1>1, <2>2, <2>4 DEF Keeps, TypeOK
    <2> QED BY <2>3, <2>4
  <1>3. CASE Appeal
    <2>1. CASE UNCHANGED attested
      BY <1>1, <1>3, <2>1 DEF Appeal, Keeps
    <2>2. ASSUME NEW w \in Verifiers, attested' = [attested EXCEPT ![w] = SubSeq(@, 1, final[w])]
          PROVE  Keeps(attested[v], final[v], attested'[v])
      <3>1. CASE w = v
        <4>1. attested'[v] = SubSeq(attested[v], 1, final[v])
          BY <2>2, <3>1 DEF TypeOK
        <4> QED BY <1>1, <4>1, Cut DEF Keeps
      <3>2. CASE w # v
        BY <2>2, <3>2 DEF Keeps, TypeOK
      <3> QED BY <3>1, <3>2
    <2> QED BY <1>1, <1>3, <2>1, <2>2 DEF Appeal
  <1>4. CASE Finalize
    <2>1. final[v] <= final'[v]
      <3>1. CASE UNCHANGED final
        BY <1>1, <3>1
      <3>2. final \in [Verifiers -> Nat]
        BY DEF TypeOK
      <3> QED BY <1>4, <3>1, <3>2, RaisedOrSame DEF Finalize
    <2> QED BY <1>4, <2>1 DEF Finalize, Keeps
  <1>5. CASE UNCHANGED verifierVars
    BY <1>1, <1>5 DEF verifierVars, Keeps
  <1> QED BY <1>2, <1>3, <1>4, <1>5, Steps
          DEF Extracts, SetsPatterns, set_patterns, Marks, mark_delivered, Move, vars

\* So do the extractions of a lane.
LEMMA ExtractionsStand ==
    ASSUME TypeOK, Next \/ UNCHANGED vars, NEW lane \in Lanes
    PROVE  final_x[lane] <= final_x'[lane] /\ Keeps(extracted[lane], final_x[lane], extracted'[lane])
  <1>1. /\ extracted[lane] \in Seq(Extraction) /\ Len(extracted[lane]) \in Nat
        /\ final_x[lane] \in Nat /\ final_x[lane] <= Len(extracted[lane])
    BY DEF TypeOK
  <1>2. CASE Extracts
    <2>1. CASE UNCHANGED extracted
      BY <1>1, <1>2, <2>1 DEF Extracts, Keeps
    <2>2. ASSUME NEW l \in Lanes, NEW sender \in Requesters, NEW id \in Nat,
                 NEW reading \in Readings, verified(id),
                 extracted' = [extracted EXCEPT ![l] = Append(@, Made(sender, id, reading))]
          PROVE  Keeps(extracted[lane], final_x[lane], extracted'[lane])
      <3> DEFINE x == Made(sender, id, reading)
      <3>1. x \in Extraction
        BY <2>2, MadeType
      <3>2. extracted' = [extracted EXCEPT ![l] = Append(extracted[l], x)]
        BY <2>2
      <3> HIDE DEF x
      <3>3. CASE l = lane
        <4>1. extracted'[lane] = Append(extracted[lane], x)
          BY <3>2, <3>3 DEF TypeOK
        <4>2. \A i \in 1..Len(extracted[lane]) : extracted'[lane][i] = extracted[lane][i]
          BY <1>1, <3>1, <4>1, Appended
        <4> QED BY <1>1, <4>2 DEF Keeps
      <3>4. CASE l # lane
        BY <3>2, <3>4 DEF Keeps, TypeOK
      <3> QED BY <3>3, <3>4
    <2> QED BY <1>1, <1>2, <2>1, <2>2 DEF Extracts
  <1>3. CASE Appeal
    <2>1. CASE UNCHANGED extracted
      BY <1>1, <1>3, <2>1 DEF Appeal, Keeps
    <2>2. ASSUME NEW l \in Lanes, extracted' = [extracted EXCEPT ![l] = SubSeq(@, 1, final_x[l])]
          PROVE  Keeps(extracted[lane], final_x[lane], extracted'[lane])
      <3>1. CASE l = lane
        <4>1. extracted'[lane] = SubSeq(extracted[lane], 1, final_x[lane])
          BY <2>2, <3>1 DEF TypeOK
        <4> QED BY <1>1, <4>1, Cut DEF Keeps
      <3>2. CASE l # lane
        BY <2>2, <3>2 DEF Keeps, TypeOK
      <3> QED BY <3>1, <3>2
    <2> QED BY <1>1, <1>3, <2>1, <2>2 DEF Appeal
  <1>4. CASE Finalize
    <2>1. final_x[lane] <= final_x'[lane]
      <3>1. CASE UNCHANGED final_x
        BY <1>1, <3>1
      <3>2. final_x \in [Lanes -> Nat]
        BY DEF TypeOK
      <3> QED BY <1>4, <3>1, <3>2, RaisedOrSame DEF Finalize
    <2> QED BY <1>4, <2>1 DEF Finalize, Keeps
  <1>5. CASE UNCHANGED <<extracted, final_x>>
    BY <1>1, <1>5 DEF Keeps
  <1> QED BY <1>2, <1>3, <1>4, <1>5, Steps
          DEF Attests, attest, SetsPatterns, set_patterns, Marks, mark_delivered, Move,
              extractorVars, vars

\* The same, of one record.
LEMMA FinalRecordStands ==
    ASSUME TypeOK, Next \/ UNCHANGED vars, NEW v \in Verifiers, NEW id \in Nat, id < final[v]
    PROVE  id < final'[v] /\ FinalRecord(v, id)' = FinalRecord(v, id)
  <1>1. final[v] <= final'[v] /\ Keeps(attested[v], final[v], attested'[v])
    BY RecordsStand
  <1>2. final[v] \in Nat /\ final'[v] \in Nat
    BY StepTypes DEF TypeOK
  <1>3. id + 1 \in 1..final[v]
    BY <1>2
  <1>4. attested'[v][id + 1] = attested[v][id + 1]
    BY <1>1, <1>3 DEF Keeps
  <1> QED BY <1>1, <1>2, <1>4 DEF FinalRecord

-----------------------------------------------------------------------------
(* Extractions rest on records that stand.                                   *)

\* What ExtractionsAreOfRecords says of one.
RestsOnRecord(x) ==
    /\ x.record_id < final[x.verifier]
    /\ FinalRecord(x.verifier, x.record_id).kind \in {"good", "weak"}
    /\ FinalRecord(x.verifier, x.record_id).message = x.bh
    /\ Domain[FinalRecord(x.verifier, x.record_id).message] = x.domain

LEMMA Rests ==
    ExtractionsAreOfRecords <=> \A lane \in Lanes : \A x \in Range(extracted[lane]) : RestsOnRecord(x)
  BY DEF ExtractionsAreOfRecords, RestsOnRecord, FinalRecord

LEMMA ExtractedType ==
    ASSUME TypeOK, NEW lane \in Lanes, NEW x \in Range(extracted[lane])
    PROVE  x \in Extraction
  <1>1. extracted[lane] \in Seq(Extraction)
    BY DEF TypeOK
  <1> QED BY <1>1 DEF Range

\* An extraction says what was read of a final, valid and aligned record.
LEMMA MadeRests ==
    ASSUME TypeOK, NEW sender \in Requesters, NEW id \in Nat, NEW reading \in Readings, verified(id)
    PROVE  RestsOnRecord(Made(sender, id, reading))
  <1>1. Readable(verifier, id)
    BY DEF verified
  <1>2. verifier \in Verifiers /\ id < final[verifier]
    BY <1>1, ReadableType
  <1>3. FinalRecord(verifier, id).kind \in AllKinds
    BY <1>2, FinalRecordType DEF Attestation
  <1>4. FinalRecord(verifier, id).kind \in {"good", "weak"}
    BY <1>3 DEF verified, AllKinds
  <1> QED BY <1>2, <1>4 DEF RestsOnRecord, Made

\* What is in a lane after a step was there before, or was just extracted.
LEMMA Extracted ==
    ASSUME TypeOK, Next \/ UNCHANGED vars, NEW lane \in Lanes, NEW x \in Range(extracted'[lane])
    PROVE  \/ x \in Range(extracted[lane])
           \/ \E sender \in Requesters, id \in Nat, reading \in Readings :
                verified(id) /\ x = Made(sender, id, reading)
  <1>1. extracted[lane] \in Seq(Extraction)
    BY DEF TypeOK
  <1>2. CASE Extracts
    <2>1. CASE UNCHANGED extracted
      BY <2>1
    <2>2. ASSUME NEW l \in Lanes, NEW sender \in Requesters, NEW id \in Nat,
                 NEW reading \in Readings, verified(id),
                 extracted' = [extracted EXCEPT ![l] = Append(@, Made(sender, id, reading))]
          PROVE  x \in Range(extracted[lane]) \cup {Made(sender, id, reading)}
      <3> DEFINE y == Made(sender, id, reading)
      <3>1. y \in Extraction
        BY <2>2, MadeType
      <3>2. extracted' = [extracted EXCEPT ![l] = Append(extracted[l], y)]
        BY <2>2
      <3> HIDE DEF y
      <3>3. CASE l = lane
        <4>1. extracted'[lane] = Append(extracted[lane], y)
          BY <3>2, <3>3 DEF TypeOK
        <4>2. Range(extracted'[lane]) = Range(extracted[lane]) \cup {y}
          BY <1>1, <3>1, <4>1, Appended
        <4> QED BY <4>2 DEF y
      <3>4. CASE l # lane
        BY <3>2, <3>4 DEF TypeOK
      <3> QED BY <3>3, <3>4
    <2> QED BY <1>2, <2>1, <2>2 DEF Extracts
  <1>3. CASE Appeal
    <2>1. ASSUME NEW l \in Lanes, extracted' = [extracted EXCEPT ![l] = SubSeq(@, 1, final_x[l])]
          PROVE  x \in Range(extracted[lane])
      <3>1. CASE l = lane
        <4>1. extracted'[lane] = SubSeq(extracted[lane], 1, final_x[lane])
          BY <2>1, <3>1 DEF TypeOK
        <4>2. final_x[lane] \in Nat /\ final_x[lane] <= Len(extracted[lane])
          BY DEF TypeOK
        <4> QED BY <1>1, <4>1, <4>2, Cut
      <3>2. CASE l # lane
        BY <2>1, <3>2 DEF TypeOK
      <3> QED BY <3>1, <3>2
    <2> QED BY <1>3, <2>1 DEF Appeal
  <1>4. CASE UNCHANGED extracted
    BY <1>4
  <1> QED BY <1>2, <1>3, <1>4, Steps
          DEF Attests, attest, SetsPatterns, set_patterns, Marks, mark_delivered, Move, Finalize,
              extractorVars, vars

\* An extraction that rests on a record goes on doing so.
LEMMA RestingStands ==
    ASSUME TypeOK, Next \/ UNCHANGED vars, NEW x \in Extraction, RestsOnRecord(x)
    PROVE  RestsOnRecord(x)'
  <1>1. x.verifier \in Verifiers /\ x.record_id \in Nat
    BY DEF Extraction
  <1>2. /\ x.record_id < final'[x.verifier]
        /\ FinalRecord(x.verifier, x.record_id)' = FinalRecord(x.verifier, x.record_id)
    BY <1>1, FinalRecordStands DEF RestsOnRecord
  <1> QED BY <1>2 DEF RestsOnRecord

\* ExtractionsAreOfRecords is inductive with the types: records that are final
\* stand, and an extraction is only made of one.
THEOREM LacreExtractions == Spec => []ExtractionsAreOfRecords
  <1>1. Init => ExtractionsAreOfRecords
    BY DEF Init, ExtractionsAreOfRecords, Range
  <1>2. ASSUME TypeOK, ExtractionsAreOfRecords, Next \/ UNCHANGED vars
        PROVE  ExtractionsAreOfRecords'
    <2>1. ASSUME NEW lane \in Lanes, NEW x \in Range(extracted'[lane])
          PROVE  RestsOnRecord(x)'
      <3>1. x \in Extraction /\ RestsOnRecord(x)
        <4>1. CASE x \in Range(extracted[lane])
          BY <1>2, <4>1, ExtractedType, Rests
        <4>2. ASSUME NEW sender \in Requesters, NEW id \in Nat, NEW reading \in Readings,
                     verified(id), x = Made(sender, id, reading)
              PROVE  x \in Extraction /\ RestsOnRecord(x)
          BY <1>2, <4>2, MadeType, MadeRests
        <4> QED BY <1>2, <4>1, <4>2, Extracted
      <3> QED BY <1>2, <3>1, RestingStands
    <2> QED BY <2>1 DEF ExtractionsAreOfRecords, RestsOnRecord, FinalRecord
  <1> QED BY <1>1, <1>2, LacreTypeOK, PTL DEF Spec

-----------------------------------------------------------------------------
(* What the consumer acts on.                                                *)

\* What ActsOnEvidence says of one delivery.
Evidence(d) ==
    /\ d[2] < final[d[1]] /\ FinalRecord(d[1], d[2]).kind = "good"
    /\ \E lane \in Lanes : \E i \in 1..final_x[lane] :
         /\ <<extracted[lane][i].verifier, extracted[lane][i].record_id>> = d
         /\ extracted[lane][i].reading = "shipped"

\* A delivery is looked up by its message.
Noted(d) ==
    /\ FinalRecord(d[1], d[2]).message \in DOMAIN messages
    /\ messages[FinalRecord(d[1], d[2]).message] = d

Delivered == \A d \in delivered : Evidence(d) /\ Noted(d)

LEMMA DeliveryType ==
    ASSUME TypeOK, NEW d \in delivered
    PROVE  d[1] \in Verifiers /\ d[2] \in Nat
  BY DEF TypeOK

\* What there is evidence of stays so.
LEMMA EvidenceStands ==
    ASSUME TypeOK, Next \/ UNCHANGED vars, NEW d \in Verifiers \X Nat, Evidence(d)
    PROVE  Evidence(d)'
  <1>1. d[2] < final'[d[1]] /\ FinalRecord(d[1], d[2])' = FinalRecord(d[1], d[2])
    BY FinalRecordStands DEF Evidence
  <1>2. PICK lane \in Lanes : \E i \in 1..final_x[lane] :
             /\ <<extracted[lane][i].verifier, extracted[lane][i].record_id>> = d
             /\ extracted[lane][i].reading = "shipped"
    BY DEF Evidence
  <1> PICK i \in 1..final_x[lane] :
             /\ <<extracted[lane][i].verifier, extracted[lane][i].record_id>> = d
             /\ extracted[lane][i].reading = "shipped"
    BY <1>2
  <1>3. final_x[lane] <= final_x'[lane] /\ extracted'[lane][i] = extracted[lane][i]
    BY ExtractionsStand DEF Keeps
  <1>4. final_x[lane] \in Nat /\ final_x'[lane] \in Nat
    BY StepTypes DEF TypeOK
  <1>5. i \in 1..final_x'[lane]
    BY <1>3, <1>4
  <1> QED BY <1>1, <1>2, <1>3, <1>5 DEF Evidence

\* The consumer acts when there is evidence: a record of a kind no Extractor
\* reads has no extraction, so what was extracted is good.
LEMMA MarkedOnEvidence ==
    ASSUME TypeOK, ExtractionsAreOfRecords, NEW id \in Nat, NEW lane \in Lanes,
           mark_delivered(id, lane)
    PROVE  Evidence(<<verifier, id>>)
  <1>1. Readable(verifier, id) /\ FinalRecord(verifier, id).kind \in {"good", "odd"}
    BY DEF mark_delivered, attested_for_app
  <1>2. PICK i \in 1..final_x[lane] : ships(extracted[lane][i], id)
    BY DEF mark_delivered, shipped, Newest, records_of
  <1>3. extracted[lane] \in Seq(Extraction) /\ final_x[lane] \in Nat /\ final_x[lane] <= Len(extracted[lane])
    BY DEF TypeOK
  <1>4. i \in DOMAIN extracted[lane]
    BY <1>3
  <1>5. extracted[lane][i] \in Range(extracted[lane])
    BY <1>4 DEF Range
  <1>6. FinalRecord(verifier, id).kind \in {"good", "weak"}
    BY <1>2, <1>5, Rests DEF RestsOnRecord, ships
  <1>7. FinalRecord(verifier, id).kind = "good"
    BY <1>1, <1>6
  <1>8. /\ <<extracted[lane][i].verifier, extracted[lane][i].record_id>> = <<verifier, id>>
        /\ extracted[lane][i].reading = "shipped"
    BY <1>2 DEF ships
  <1> QED BY <1>1, <1>7, <1>8 DEF Evidence, Readable

LEMMA DeliveredStep ==
    ASSUME TypeOK, ExtractionsAreOfRecords, Delivered, Next \/ UNCHANGED vars
    PROVE  Delivered'
  <1>1. ASSUME NEW d \in delivered
        PROVE  Evidence(d)' /\ FinalRecord(d[1], d[2])' = FinalRecord(d[1], d[2])
    <2>1. d \in Verifiers \X Nat /\ Evidence(d)
      BY DEF TypeOK, Delivered
    <2>2. FinalRecord(d[1], d[2])' = FinalRecord(d[1], d[2])
      BY <2>1, FinalRecordStands DEF Evidence
    <2> QED BY <2>1, <2>2, EvidenceStands
  <1>2. CASE UNCHANGED consumerVars
    BY <1>1, <1>2 DEF Delivered, Noted, consumerVars
  <1>3. CASE Marks
    <2> PICK id \in 0..MaxRecords - 1, lane \in Lanes : mark_delivered(id, lane)
      BY <1>3 DEF Marks
    <2> DEFINE message == FinalRecord(verifier, id).message
    <2>1. id \in Nat
      OBVIOUS
    <2>2. verifier \in Verifiers /\ id < final[verifier]
      BY <2>1, ReadableType DEF mark_delivered, attested_for_app
    <2>3. PICK new \in Verifiers \X Nat : new = <<verifier, id>>
      BY <2>1, <2>2
    <2>4. /\ messages' = Put(messages, message, new) /\ delivered' = delivered \cup {new}
          /\ message \notin DOMAIN messages
      BY <2>3 DEF mark_delivered, ActedOn, Has
    <2>5. Evidence(new)
      BY <2>3, <2>1, MarkedOnEvidence
    <2>6. Evidence(new)'
      BY <2>5, EvidenceStands
    <2>7. FinalRecord(verifier, id)' = FinalRecord(verifier, id) /\ verifier' = verifier
      BY <2>1, <2>2, FinalRecordStands DEF mark_delivered, routerVars
    <2>8. FinalRecord(new[1], new[2])'.message = message
      BY <2>3, <2>7 DEF FinalRecord
    <2> HIDE DEF message
    <2>9. ASSUME NEW d \in delivered PROVE Noted(d)'
      <3>1. FinalRecord(d[1], d[2]).message \in DOMAIN messages
        BY DEF Delivered, Noted
      <3>2. FinalRecord(d[1], d[2]).message # message
        BY <2>4, <3>1
      <3>3. messages[FinalRecord(d[1], d[2]).message] = d
        BY DEF Delivered, Noted
      <3> QED BY <1>1, <2>4, <3>1, <3>2, <3>3 DEF Noted, Put
    <2>10. Noted(new)'
      BY <2>4, <2>8 DEF Noted, Put
    <2> QED BY <1>1, <2>4, <2>6, <2>9, <2>10 DEF Delivered
  <1> QED BY <1>2, <1>3, Steps
          DEF Attests, attest, Extracts, SetsPatterns, set_patterns, Move, Finalize, Appeal, vars

\* What was delivered has its evidence and is noted under its message.
THEOREM LacreDelivered == Spec => []Delivered
  <1>1. Init => Delivered
    BY DEF Init, Delivered
  <1> QED BY <1>1, DeliveredStep, LacreTypeOK, LacreExtractions, PTL DEF Spec

\* The consumer acts on what stands, whatever is appealed and wherever names
\* move, before it acts and afterwards.
THEOREM LacreActsOnEvidence == Spec => []ActsOnEvidence
  <1>1. Delivered => ActsOnEvidence
    BY DEF Delivered, Evidence, ActsOnEvidence, FinalRecord
  <1> QED BY <1>1, LacreDelivered, PTL

\* It acts once on a message: two deliveries of it would be noted in one place.
THEOREM LacreActsOnce == Spec => []ActsOnce
  <1>1. Delivered => ActsOnce
    BY DEF Delivered, Noted, ActsOnce
  <1> QED BY <1>1, LacreDelivered, PTL

-----------------------------------------------------------------------------
(* Who can take away what the consumer relies on.                            *)

\* A requester's extractions are finitely many.
LEMMA RecordsFinite ==
    ASSUME TypeOK, NEW lane \in Lanes, NEW who
    PROVE  /\ IsFiniteSet(records_of(lane, who))
           /\ Cardinality(records_of(lane, who)) \in Nat
           /\ records_of(lane, who) \subseteq 1..final_x[lane]
  <1>1. final_x[lane] \in Nat
    BY DEF TypeOK
  <1>2. IsFiniteSet(1..final_x[lane])
    BY <1>1, FS_Interval
  <1>3. records_of(lane, who) \subseteq 1..final_x[lane]
    BY DEF records_of
  <1> QED BY <1>2, <1>3, FS_Subset, FS_CardinalityType

\* A step takes none of them away.
LEMMA RecordsKept ==
    ASSUME TypeOK, Next \/ UNCHANGED vars, NEW lane \in Lanes, NEW who
    PROVE  records_of(lane, who) \subseteq records_of(lane, who)'
  <1>1. final_x[lane] <= final_x'[lane] /\ Keeps(extracted[lane], final_x[lane], extracted'[lane])
    BY ExtractionsStand
  <1>2. final_x[lane] \in Nat /\ final_x'[lane] \in Nat
    BY StepTypes DEF TypeOK
  <1> QED BY <1>1, <1>2 DEF records_of, Keeps

\* An extraction leaves the scan window only when there are more than fit, and
\* more than before.
LEMMA LeavesWindow ==
    ASSUME NEW A, NEW B, IsFiniteSet(A), IsFiniteSet(B), A \subseteq B,
           NEW i \in Newest(A), i \notin Newest(B)
    PROVE  Cardinality(B) > MAX_SCAN /\ Cardinality(B) > Cardinality(A)
  <1> DEFINE From(S) == {j \in S : j >= i}
  <1>1. /\ Cardinality(A) \in Nat /\ Cardinality(B) \in Nat /\ Cardinality(From(B)) \in Nat
        /\ Cardinality(From(B)) <= Cardinality(B) /\ Cardinality(A) <= Cardinality(B)
        /\ Cardinality(A) = Cardinality(B) => A = B
    BY FS_Subset, FS_CardinalityType
  <1>2. i \in A /\ i \in B /\ A # B
    BY DEF Newest
  <1>3. ~(Cardinality(From(B)) <= MAX_SCAN)
    BY <1>2 DEF Newest
  <1> QED BY <1>1, <1>2, <1>3, LacreAssumption

\* ShippedFadesByOwnCalls for every scan window: an answer of require_shipped
\* fades only with a move of the Router's names or by extractions of the
\* requester of the record itself.
THEOREM LacreShippedFades == Spec => ShippedFadesByOwnCalls
  <1>1. ASSUME TypeOK, Next \/ UNCHANGED vars, NEW id \in 0..MaxRecords - 1, NEW lane \in Lanes,
               shipped(id, lane), ~shipped(id, lane)', UNCHANGED routerVars
        PROVE  LET who == FinalRecord(verifier, id).requester
               IN  /\ OwnCalls(lane, who)' > MAX_SCAN
                   /\ OwnCalls(lane, who)' > OwnCalls(lane, who)
    <2> DEFINE who == FinalRecord(verifier, id).requester
    <2>1. verifier' = verifier /\ extractors' = extractors /\ id \in Nat
      BY <1>1 DEF routerVars
    <2>2. Readable(verifier, id) /\ lane \in extractors
      BY <1>1 DEF shipped
    <2>3. verifier \in Verifiers /\ id < final[verifier]
      BY <1>1, <2>1, <2>2, ReadableType
    <2>4. id < final'[verifier] /\ FinalRecord(verifier, id)' = FinalRecord(verifier, id)
      BY <1>1, <2>1, <2>3, FinalRecordStands
    <2>5. Readable(verifier, id)'
      BY <2>1, <2>3, <2>4 DEF Readable
    <2>6. who' = who
      BY <2>4
    <2>7. PICK i \in Newest(records_of(lane, FinalRecord(verifier, id).requester)) : ships(extracted[lane][i], id)
      BY <1>1 DEF shipped
    <2>8. i \in 1..final_x[lane]
      BY <2>7 DEF Newest, records_of
    <2>9. extracted'[lane][i] = extracted[lane][i]
      BY <1>1, <2>8, ExtractionsStand DEF Keeps
    <2>10. ships(extracted[lane][i], id)'
      BY <2>1, <2>7, <2>9 DEF ships
    <2>11. i \notin Newest(records_of(lane, FinalRecord(verifier, id).requester)')
      BY <1>1, <2>1, <2>2, <2>5, <2>6, <2>10 DEF shipped
    <2>12. records_of(lane, FinalRecord(verifier, id).requester)
             \subseteq records_of(lane, FinalRecord(verifier, id).requester)'
      BY <1>1, <2>6, RecordsKept
    <2>13. IsFiniteSet(records_of(lane, FinalRecord(verifier, id).requester))
      BY <1>1, RecordsFinite
    <2>14. IsFiniteSet(records_of(lane, FinalRecord(verifier, id).requester)')
      <3>1. final_x'[lane] \in Nat
        BY <1>1, StepTypes DEF TypeOK
      <3>2. IsFiniteSet(1..final_x'[lane])
        BY <3>1, FS_Interval
      <3>3. records_of(lane, FinalRecord(verifier, id).requester)' \subseteq 1..final_x'[lane]
        BY DEF records_of
      <3> QED BY <3>2, <3>3, FS_Subset
    <2>15. OwnCalls(lane, who) = Cardinality(records_of(lane, FinalRecord(verifier, id).requester))
      BY DEF OwnCalls, records_of
    <2>16. OwnCalls(lane, who)' = Cardinality(records_of(lane, FinalRecord(verifier, id).requester)')
      BY DEF OwnCalls, records_of
    <2> QED BY <2>7, <2>11, <2>12, <2>13, <2>14, <2>15, <2>16, LeavesWindow
  <1>2. TypeOK /\ [Next]_vars =>
          [\A id \in 0..MaxRecords - 1, lane \in Lanes :
              LET who == FinalRecord(verifier, id).requester
              IN  shipped(id, lane) /\ ~shipped(id, lane)' =>
                      \/ routerVars' # routerVars
                      \/ /\ OwnCalls(lane, who)' > MAX_SCAN
                         /\ OwnCalls(lane, who)' > OwnCalls(lane, who)]_vars
    BY <1>1
  <1> QED BY <1>2, LacreTypeOK, PTL DEF Spec, ShippedFadesByOwnCalls
=============================================================================
