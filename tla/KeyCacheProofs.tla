--------------------------- MODULE KeyCacheProofs ---------------------------
(* What holds of the KeyCache for every set of keys and answers, for every   *)
(* quarantine and for histories of any length; and what holds of the         *)
(* algorithms it is built on and of those around it, for inputs of any       *)
(* length: the keys of its storage, the key records it reads, the dates that *)
(* deadlines are counted by, the refusals that the tools tell ahead, the     *)
(* comments that a text is rid of, what a build keeps of its source, and the *)
(* report of a probe.                                                        *)

EXTENDS KeyCache, Algorithms, Comments, Builds, SequenceTheorems, FiniteSetTheorems, WellFoundedInduction, TLAPS

-----------------------------------------------------------------------------
(* One DNS read.                                                             *)

\* fetch_key returns a key, or says there is none, only when both resolvers
\* answered just that, and blames an outage only on a missing answer.
LEMMA FetchKey ==
    ASSUME NEW answers \in Answers
    PROVE  LET parts == fetch_key(answers) IN
           /\ parts.reason \in {"", UNAVAILABLE, ABSENT, DISAGREE, UNUSABLE}
           /\ parts.reason = "" => /\ parts.sha256 \in Ders
                                   /\ answers[1] = parts.sha256
                                   /\ answers[2] = parts.sha256
           /\ parts.reason = ABSENT => answers[1] = Absent /\ answers[2] = Absent
           /\ parts.reason = UNAVAILABLE =>
                 answers[1] = NoAnswer \/ answers[2] = NoAnswer
  BY KeyCacheAssumption
  DEF fetch_key, Answers, Fail, Key, UNAVAILABLE, ABSENT, DISAGREE, UNUSABLE

\* What a read adds to the history.
LEMMA Witnessed ==
    ASSUME TypeOK, NEW k \in Keys, NEW answers \in Answers, Witness(k, answers)
    PROVE  /\ witnessed' \subseteq Keys \X (Ders \cup {Absent}) \X Nat
           /\ bothAnswered' \in BOOLEAN
           /\ witnessed \subseteq witnessed'
           /\ \A w \in witnessed' : w \notin witnessed =>
                 /\ answers[1] \in Ders \cup {Absent}
                 /\ answers[2] = answers[1]
                 /\ w = <<k, answers[1], now>>
           /\ answers[1] \in Ders \cup {Absent} /\ answers[2] = answers[1] =>
                 <<k, answers[1], now>> \in witnessed'
  <1> DEFINE Agreed == {answers[1]} \cap {answers[2]} \cap (Ders \cup {Absent})
             Added  == {<<k, a, now>> : a \in Agreed}
  <1>1. now \in Nat /\ witnessed \subseteq Keys \X (Ders \cup {Absent}) \X Nat
    BY DEF TypeOK
  <1>2. witnessed' = witnessed \cup Added
    BY DEF Witness
  <1>3. \A a \in Agreed : /\ a = answers[1] /\ a = answers[2]
                          /\ a \in Ders \cup {Absent}
    OBVIOUS
  <1>4. Added \subseteq Keys \X (Ders \cup {Absent}) \X Nat
    BY <1>1, <1>3
  <1>5. bothAnswered' \in BOOLEAN
    BY DEF Witness
  <1>6. answers[1] \in Ders \cup {Absent} /\ answers[2] = answers[1] =>
            <<k, answers[1], now>> \in Added
    OBVIOUS
  <1>7. \A w \in Added : /\ answers[1] \in Ders \cup {Absent}
                         /\ answers[2] = answers[1]
                         /\ w = <<k, answers[1], now>>
    BY <1>3
  <1> HIDE DEF Added
  <1> QED BY <1>1, <1>2, <1>4, <1>5, <1>6, <1>7

-----------------------------------------------------------------------------
(* The steps, by what they do to the record of k.                            *)

\* What every call that reads the DNS shares.
Read(k, answers) ==
    /\ Witness(k, answers)
    /\ UNCHANGED <<now, ownershipVars>>

\* A lookup that left a reason and nothing else.  If k is pending it was an
\* outage.
Noted(k, answers) ==
    /\ Has(keys, k) => \/ keys[k].state # PENDING
                       \/ fetch_key(answers).reason = UNAVAILABLE
    /\ keys' = keys

Registered(k, answers) ==
    /\ ~Has(keys, k)
    /\ fetch_key(answers).reason = ""
    /\ keys' = Put(keys, k, [state |-> PENDING,
                             key_sha256 |-> fetch_key(answers).sha256,
                             first_seen |-> now, activated_at |-> NotSet,
                             refreshed_at |-> NotSet])

\* The reason is left behind, and it is no outage.
Dropped(k) ==
    /\ Has(keys, k) /\ keys[k].state = PENDING
    /\ keys' = Delete(keys, k)
    /\ \E reason : reason # UNAVAILABLE /\ _failed(k, reason)

\* What an assignment does to the record of k: the key under it and its
\* first_seen stay, and so does every other record.
Rewritten(k, state, activated_at, refreshed_at) ==
    /\ keys' \in [DOMAIN keys -> KeyRecord]
    /\ \A x \in DOMAIN keys : x # k => keys'[x] = keys[x]
    /\ keys'[k].key_sha256 = keys[k].key_sha256
    /\ keys'[k].first_seen = keys[k].first_seen
    /\ keys'[k].state = state
    /\ keys'[k].activated_at = activated_at
    /\ keys'[k].refreshed_at = refreshed_at

Activated(k, answers) ==
    /\ Has(keys, k) /\ keys[k].state = PENDING
    /\ QuarantinePassed(k)
    /\ fetch_key(answers).reason = ""
    /\ fetch_key(answers).sha256 = keys[k].key_sha256
    /\ Rewritten(k, ACTIVE, now, now)

\* A later read of an active or rotated key.
Seen(k, answers, state) ==
    /\ Has(keys, k) /\ keys[k].state \in {ACTIVE, ROTATED}
    /\ \/ state = keys[k].state
       \/ /\ state = ROTATED
          /\ fetch_key(answers).reason = ""
          /\ fetch_key(answers).sha256 # keys[k].key_sha256
       \/ /\ state = RETIRED
          /\ fetch_key(answers).reason = ABSENT
    /\ Rewritten(k, state, keys[k].activated_at, now)

\* The owner's retirement of k.
Retired(k) ==
    /\ Has(keys, k)
    /\ Rewritten(k, RETIRED, keys[k].activated_at, keys[k].refreshed_at)
    /\ ownerRetired' = ownerRetired \cup {k}
    /\ UNCHANGED <<now, failures, witnessed, bothAnswered, ownershipVars>>

DnsStep(k, answers) ==
    /\ Read(k, answers)
    /\ failures' \in {failures} \cup {Put(failures, k, f) : f \in Failure}
    /\ \/ Noted(k, answers)
       \/ Registered(k, answers)
       \/ Dropped(k)
       \/ Activated(k, answers)
       \/ \E state \in {ACTIVE, ROTATED, RETIRED} : Seen(k, answers, state)

OwnershipStep ==
    /\ \E sender, candidate \in Accounts :
          ProposeOwner(sender, candidate) \/ AcceptOwner(sender)
    /\ UNCHANGED <<now, keys, failures, history>>

\* The assignments to a stored record, field by field.
LEMMA Assignments ==
    ASSUME TypeOK, NEW k \in DOMAIN keys,
           NEW s \in {PENDING, ACTIVE, ROTATED, RETIRED}
    PROVE  /\ keys' = [keys EXCEPT ![k].state = s, ![k].activated_at = now,
                                   ![k].refreshed_at = now]
                 => Rewritten(k, s, now, now)
           /\ keys' = [keys EXCEPT ![k].refreshed_at = now, ![k].state = s]
                 => Rewritten(k, s, keys[k].activated_at, now)
           /\ keys' = [keys EXCEPT ![k].state = s, ![k].refreshed_at = now]
                 => Rewritten(k, s, keys[k].activated_at, now)
           /\ keys' = [keys EXCEPT ![k].state = s]
                 => Rewritten(k, s, keys[k].activated_at, keys[k].refreshed_at)
  <1>1. keys \in [DOMAIN keys -> KeyRecord] /\ now \in Stamp /\ now \in Nat
    BY DEF TypeOK, Stamp
  <1>2. ASSUME keys' = [keys EXCEPT ![k].state = s, ![k].activated_at = now,
                               ![k].refreshed_at = now]
        PROVE  Rewritten(k, s, now, now)
    <2>1. keys' \in [DOMAIN keys -> KeyRecord]
      BY <1>1, <1>2 DEF KeyRecord
    <2>2. \A x \in DOMAIN keys : x # k => keys'[x] = keys[x]
      BY <1>1, <1>2
    <2>3. /\ keys'[k].key_sha256 = keys[k].key_sha256
          /\ keys'[k].first_seen = keys[k].first_seen
          /\ keys'[k].state = s
          /\ keys'[k].activated_at = now
          /\ keys'[k].refreshed_at = now
      BY <1>1, <1>2 DEF KeyRecord
    <2> QED BY <2>1, <2>2, <2>3 DEF Rewritten
  <1>3. ASSUME keys' = [keys EXCEPT ![k].refreshed_at = now, ![k].state = s]
        PROVE  Rewritten(k, s, keys[k].activated_at, now)
    <2>1. keys' \in [DOMAIN keys -> KeyRecord]
      BY <1>1, <1>3 DEF KeyRecord
    <2>2. \A x \in DOMAIN keys : x # k => keys'[x] = keys[x]
      BY <1>1, <1>3
    <2>3. /\ keys'[k].key_sha256 = keys[k].key_sha256
          /\ keys'[k].first_seen = keys[k].first_seen
          /\ keys'[k].state = s
          /\ keys'[k].activated_at = keys[k].activated_at
          /\ keys'[k].refreshed_at = now
      BY <1>1, <1>3 DEF KeyRecord
    <2> QED BY <2>1, <2>2, <2>3 DEF Rewritten
  <1>4. ASSUME keys' = [keys EXCEPT ![k].state = s, ![k].refreshed_at = now]
        PROVE  Rewritten(k, s, keys[k].activated_at, now)
    <2>1. keys' \in [DOMAIN keys -> KeyRecord]
      BY <1>1, <1>4 DEF KeyRecord
    <2>2. \A x \in DOMAIN keys : x # k => keys'[x] = keys[x]
      BY <1>1, <1>4
    <2>3. /\ keys'[k].key_sha256 = keys[k].key_sha256
          /\ keys'[k].first_seen = keys[k].first_seen
          /\ keys'[k].state = s
          /\ keys'[k].activated_at = keys[k].activated_at
          /\ keys'[k].refreshed_at = now
      BY <1>1, <1>4 DEF KeyRecord
    <2> QED BY <2>1, <2>2, <2>3 DEF Rewritten
  <1>5. ASSUME keys' = [keys EXCEPT ![k].state = s]
        PROVE  Rewritten(k, s, keys[k].activated_at, keys[k].refreshed_at)
    <2>1. keys' \in [DOMAIN keys -> KeyRecord]
      BY <1>1, <1>5 DEF KeyRecord
    <2>2. \A x \in DOMAIN keys : x # k => keys'[x] = keys[x]
      BY <1>1, <1>5
    <2>3. /\ keys'[k].key_sha256 = keys[k].key_sha256
          /\ keys'[k].first_seen = keys[k].first_seen
          /\ keys'[k].state = s
          /\ keys'[k].activated_at = keys[k].activated_at
          /\ keys'[k].refreshed_at = keys[k].refreshed_at
      BY <1>1, <1>5 DEF KeyRecord
    <2> QED BY <2>1, <2>2, <2>3 DEF Rewritten
  <1> QED BY <1>2, <1>3, <1>4, <1>5

\* Every step is one of these.
LEMMA StepCases ==
    ASSUME TypeOK, Next
    PROVE  \/ \E k \in Keys, answers \in Answers : DnsStep(k, answers)
           \/ \E k \in Keys : Retired(k)
           \/ OwnershipStep
           \/ Tick
  <1>0. ASSUME NEW k \in Keys, NEW reason \in {UNAVAILABLE, ABSENT, DISAGREE, UNUSABLE, CHANGED},
               _failed(k, reason)
        PROVE  failures' \in {failures} \cup {Put(failures, k, f) : f \in Failure}
    <2>1. [at |-> now, reason |-> reason] \in Failure
      BY DEF Failure, TypeOK
    <2> QED BY <1>0, <2>1 DEF _failed
  <1>1. ASSUME NEW k \in Keys, NEW answers \in Answers, register_key(k, answers)
        PROVE  DnsStep(k, answers)
    <2>1. CASE fetch_key(answers).reason = ""
      BY <1>1, <2>1 DEF register_key, DnsStep, Read, Registered
    <2>2. CASE fetch_key(answers).reason # ""
      BY <1>0, <1>1, <2>2, FetchKey DEF register_key, DnsStep, Read, Noted
    <2> QED BY <2>1, <2>2
  <1>2. ASSUME NEW k \in Keys, NEW answers \in Answers, confirm_key(k, answers)
        PROVE  DnsStep(k, answers)
    <2> DEFINE reason == fetch_key(answers).reason
               same   == reason = "" /\ fetch_key(answers).sha256 = keys[k].key_sha256
    <2>1. CASE reason = UNAVAILABLE
      <3>1. ~same /\ IsOutage(reason)
        BY <2>1 DEF UNAVAILABLE, IsOutage
      <3> QED BY <1>0, <1>2, <2>1, <3>1 DEF confirm_key, KeepPending, DnsStep, Read, Noted
    <2>2. CASE reason # UNAVAILABLE /\ ~same
      <3> DEFINE why == IF reason # "" THEN reason ELSE CHANGED
      <3>1. why \in {ABSENT, DISAGREE, UNUSABLE, CHANGED} /\ why # UNAVAILABLE
        BY <2>2, FetchKey
        DEF UNAVAILABLE, ABSENT, DISAGREE, UNUSABLE, CHANGED
      <3>2. Dropped(k) /\ _failed(k, why)
        BY <1>2, <2>2, <3>1 DEF confirm_key, IsOutage, DropPending, Dropped
      <3> HIDE DEF why
      <3> QED BY <1>0, <1>2, <3>1, <3>2 DEF confirm_key, DnsStep, Read
    <2>3. CASE same
      BY <1>2, <2>3, Assignments
      DEF confirm_key, IsOutage, UNAVAILABLE, DnsStep, Read, Activated, Has
    <2> QED BY <2>1, <2>2, <2>3
  <1>3. ASSUME NEW k \in Keys, NEW answers \in Answers, refresh_key(k, answers)
        PROVE  DnsStep(k, answers)
    <2> DEFINE reason == fetch_key(answers).reason
    <2>0. /\ Has(keys, k) /\ k \in DOMAIN keys
          /\ keys[k].state \in {ACTIVE, ROTATED}
      BY <1>3 DEF refresh_key, Refreshable, TypeOK, KeyRecord, Has
    <2>1. CASE reason = ABSENT
      <3>1. Seen(k, answers, RETIRED)
        BY <1>3, <2>0, <2>1, Assignments DEF refresh_key, Seen, ABSENT
      <3> QED BY <1>3, <2>1, <3>1 DEF refresh_key, DnsStep, Read, ABSENT
    <2>2. CASE reason \notin {ABSENT, ""}
      BY <1>0, <1>3, <2>0, <2>2, FetchKey
      DEF refresh_key, DnsStep, Read, Noted, ACTIVE, ROTATED, PENDING
    <2>3. CASE reason = ""
      <3> DEFINE state == IF fetch_key(answers).sha256 = keys[k].key_sha256
                          THEN keys[k].state ELSE ROTATED
      <3>1. keys' = [keys EXCEPT ![k].refreshed_at = now, ![k].state = state]
        BY <1>3, <2>0, <2>3 DEF refresh_key, ABSENT, TypeOK, KeyRecord
      <3>2. Seen(k, answers, state) /\ state \in {ACTIVE, ROTATED, RETIRED}
        BY <2>0, <2>3, <3>1, Assignments DEF Seen
      <3> HIDE DEF state
      <3> QED BY <1>3, <2>3, <3>2 DEF refresh_key, DnsStep, Read, ABSENT
    <2> QED BY <2>1, <2>2, <2>3
  <1>4. ASSUME NEW sender \in Accounts, NEW candidate \in Accounts \cup {ZERO_ADDRESS},
               propose_owner(sender, candidate) \/ accept_owner(sender)
        PROVE  OwnershipStep
    BY <1>4, OwnershipAssumption
    DEF propose_owner, accept_owner, OwnershipStep, ProposeOwner
  <1>5. ASSUME NEW sender \in Accounts, NEW k \in Keys, retire_key(sender, k)
        PROVE  Retired(k)
    BY <1>5, Assignments DEF retire_key, Retired, Has
  <1> QED BY <1>1, <1>2, <1>3, <1>4, <1>5 DEF Next

-----------------------------------------------------------------------------
(* Type correctness.                                                         *)

\* The first states have their types.
LEMMA InitType == Init => TypeOK
  <1> SUFFICES ASSUME Init PROVE TypeOK
    OBVIOUS
  <1>1. bothAnswered \in BOOLEAN
    BY DEF Init
  <1> QED
    BY <1>1, OwnershipAssumption
    DEF Init, TypeOK, EmptyMap, OwnershipInit, OwnershipTypeOK

\* A record that is rewritten keeps its type.
LEMMA RewrittenType ==
    ASSUME TypeOK, NEW k, NEW s, NEW a, NEW r, Rewritten(k, s, a, r)
    PROVE  DOMAIN keys' \subseteq Keys /\ keys' \in [DOMAIN keys' -> KeyRecord]
  BY DEF Rewritten, TypeOK

\* So does all of the state, over a step that reads the DNS,
LEMMA DnsStepType ==
    ASSUME TypeOK, NEW k \in Keys, NEW answers \in Answers, DnsStep(k, answers)
    PROVE  TypeOK'
  <1>1. /\ witnessed' \subseteq Keys \X (Ders \cup {Absent}) \X Nat
        /\ bothAnswered' \in BOOLEAN
    BY Witnessed DEF DnsStep, Read
  <1>2. DOMAIN failures' \subseteq Keys /\ failures' \in [DOMAIN failures' -> Failure]
    <2>1. CASE failures' = failures
      BY <2>1 DEF TypeOK
    <2>2. ASSUME NEW f \in Failure, failures' = Put(failures, k, f)
          PROVE  DOMAIN failures' \subseteq Keys /\ failures' \in [DOMAIN failures' -> Failure]
      BY <2>2 DEF TypeOK, Put
    <2> QED BY <2>1, <2>2 DEF DnsStep
  <1>3. DOMAIN keys' \subseteq Keys /\ keys' \in [DOMAIN keys' -> KeyRecord]
    <2>1. CASE Noted(k, answers)
      BY <2>1 DEF Noted, TypeOK
    <2>2. CASE Registered(k, answers)
      <3> DEFINE h == [state |-> PENDING, key_sha256 |-> fetch_key(answers).sha256,
                       first_seen |-> now, activated_at |-> NotSet,
                       refreshed_at |-> NotSet]
      <3>1. h \in KeyRecord /\ keys' = Put(keys, k, h)
        BY <2>2, FetchKey DEF Registered, KeyRecord, Stamp, TypeOK
      <3> HIDE DEF h
      <3> QED BY <3>1 DEF TypeOK, Put
    <2>3. CASE Dropped(k)
      BY <2>3 DEF Dropped, TypeOK, Delete
    <2>4. CASE Activated(k, answers)
      BY <2>4, RewrittenType DEF Activated
    <2>5. ASSUME NEW state \in {ACTIVE, ROTATED, RETIRED}, Seen(k, answers, state)
          PROVE  DOMAIN keys' \subseteq Keys /\ keys' \in [DOMAIN keys' -> KeyRecord]
      BY <2>5, RewrittenType DEF Seen
    <2> QED BY <2>1, <2>2, <2>3, <2>4, <2>5 DEF DnsStep
  <1> QED
    BY <1>1, <1>2, <1>3
    DEF DnsStep, Read, Witness, ownershipVars, TypeOK, OwnershipTypeOK

\* over a retirement,
LEMMA RetireType ==
    ASSUME TypeOK, NEW k \in Keys, Retired(k)
    PROVE  TypeOK'
  <1>1. DOMAIN keys' \subseteq Keys /\ keys' \in [DOMAIN keys' -> KeyRecord]
    BY RewrittenType DEF Retired
  <1> QED
    BY <1>1 DEF Retired, ownershipVars, TypeOK, OwnershipTypeOK

\* and over any step.
LEMMA NextType == TypeOK /\ [Next]_vars => TypeOK'
  <1>1. ASSUME TypeOK, UNCHANGED vars PROVE TypeOK'
    BY <1>1 DEF vars, history, ownershipVars, TypeOK, OwnershipTypeOK
  <1>2. ASSUME TypeOK, Tick PROVE TypeOK'
    BY <1>2 DEF Tick, history, ownershipVars, TypeOK, OwnershipTypeOK
  <1>3. ASSUME TypeOK, OwnershipStep PROVE TypeOK'
    BY <1>3 DEF OwnershipStep, ProposeOwner, AcceptOwner, RequireOwner, history,
                TypeOK, OwnershipTypeOK
  <1> QED BY <1>1, <1>2, <1>3, StepCases, DnsStepType, RetireType

\* The storage of the KeyCache is well formed in every reachable state.
THEOREM KeyCacheTypeOK == Spec => []TypeOK
  BY InitType, NextType, PTL DEF Spec

-----------------------------------------------------------------------------
(* What every record rests on.                                               *)

\* What is true of the record h of k when W has been witnessed, R retired by
\* the owner, and the clock reads t.  Inductive: a pending record rests on the
\* one read that registered it and nothing was agreed on for its name since,
\* so the read that activates it is the next one.
RecordInv(k, h, W, R, t) ==
    /\ h.first_seen <= t
    /\ <<k, h.key_sha256, h.first_seen>> \in W
    /\ h.state = PENDING =>
          /\ h.activated_at = NotSet
          /\ \A w \in W : w[1] = k => w[3] <= h.first_seen
    /\ h.state \in {ACTIVE, ROTATED} => h.activated_at # NotSet
    /\ h.activated_at # NotSet =>
          /\ h.activated_at <= t
          /\ h.activated_at >= h.first_seen + QUARANTINE
          /\ <<k, h.key_sha256, h.activated_at>> \in W
          /\ \A w \in W :
               w[1] = k /\ h.first_seen < w[3] /\ w[3] < h.activated_at
                  => w[2] = h.key_sha256
    /\ h.state = RETIRED => k \in R \/ <<k, Absent, h.refreshed_at>> \in W
    /\ h.state = ROTATED =>
          \E w \in W : /\ w[1] = k /\ w[2] \in Ders
                       /\ w[2] # h.key_sha256 /\ w[3] >= h.activated_at

\* The inductive invariant: no record is ahead of the clock, and each agrees
\* with the history of its key.
KeyCacheInv ==
    /\ TypeOK
    /\ \A w \in witnessed : w[3] <= now
    /\ \A k \in DOMAIN keys : RecordInv(k, keys[k], witnessed, ownerRetired, now)

\* What both resolvers may have said, of which key and when.
Witnesses == Keys \X (Ders \cup {Absent}) \X Nat

\* A record is not disturbed by what happens to others, nor, once it is no
\* longer pending, by what is read under its own name.
LEMMA Undisturbed ==
    ASSUME NEW k \in Keys, NEW h \in KeyRecord, NEW W \in SUBSET Witnesses,
           NEW R, NEW t \in Nat, NEW W2 \in SUBSET Witnesses, NEW R2, NEW t2 \in Nat,
           RecordInv(k, h, W, R, t),
           W \subseteq W2, R \subseteq R2, t <= t2,
           \A w \in W2 : w \notin W /\ w[1] = k => h.state # PENDING /\ w[3] >= t
    PROVE  RecordInv(k, h, W2, R2, t2)
  <1>1. /\ h.first_seen \in Nat
        /\ h.activated_at \in Nat \cup {NotSet}
        /\ \A w \in W2 : w[3] \in Nat
    BY DEF KeyRecord, Stamp, Witnesses
  <1>2. h.state = PENDING => \A w \in W2 : w[1] = k => w[3] <= h.first_seen
    BY DEF RecordInv
  <1>3. h.activated_at # NotSet =>
          \A w \in W2 : w[1] = k /\ h.first_seen < w[3] /\ w[3] < h.activated_at
                           => w[2] = h.key_sha256
    <2> SUFFICES ASSUME h.activated_at # NotSet, NEW w \in W2,
                        w[1] = k, h.first_seen < w[3], w[3] < h.activated_at
                 PROVE  w[2] = h.key_sha256
      OBVIOUS
    <2>1. CASE w \in W BY <2>1 DEF RecordInv
    <2>2. CASE w \notin W BY <1>1, <2>2 DEF RecordInv
    <2> QED BY <2>1, <2>2
  <1> QED BY <1>1, <1>2, <1>3 DEF RecordInv

\* What was witnessed grows by what one step reads, for one key, now.
LEMMA WitnessedNow ==
    ASSUME KeyCacheInv, NEW k \in Keys, NEW answers \in Answers, Read(k, answers)
    PROVE  /\ witnessed \in SUBSET Witnesses /\ witnessed' \in SUBSET Witnesses
           /\ now \in Nat /\ now' = now /\ ownerRetired' = ownerRetired
           /\ witnessed \subseteq witnessed'
           /\ \A w \in witnessed' : w \notin witnessed => w[1] = k /\ w[3] = now
           /\ \A w \in witnessed' : w[3] <= now
  <1>0. TypeOK /\ Witness(k, answers)
    BY DEF KeyCacheInv, Read
  <1>1. /\ witnessed \in SUBSET Witnesses /\ witnessed' \in SUBSET Witnesses
        /\ now \in Nat /\ now' = now /\ ownerRetired' = ownerRetired
        /\ witnessed \subseteq witnessed'
    BY <1>0, Witnessed DEF TypeOK, Read, Witness, Witnesses
  <1>2. ASSUME NEW w \in witnessed', w \notin witnessed
        PROVE  w[1] = k /\ w[3] = now
    <2>1. w = <<k, answers[1], now>>
      BY <1>0, <1>2, Witnessed
    <2> QED BY <2>1
  <1>3. \A w \in witnessed : w[3] <= now
    BY DEF KeyCacheInv
  <1>4. ASSUME NEW w \in witnessed' PROVE w[3] <= now
    BY <1>1, <1>2, <1>3
  <1> QED BY <1>1, <1>2, <1>4

\* A step that reads the DNS keeps it,
LEMMA DnsStepInv ==
    ASSUME KeyCacheInv, NEW k \in Keys, NEW answers \in Answers,
           DnsStep(k, answers)
    PROVE  KeyCacheInv'
  <1> DEFINE parts == fetch_key(answers)
             Held(x) == RecordInv(x, keys'[x], witnessed', ownerRetired', now')
  <1>0. TypeOK /\ Read(k, answers)
    BY DEF KeyCacheInv, DnsStep
  <1>1. TypeOK'
    BY <1>0, DnsStepType
  <1>2. \A w \in witnessed' : w[3] <= now'
    BY <1>0, WitnessedNow
  <1>3. \A x \in DOMAIN keys : keys[x] \in KeyRecord
    BY <1>0 DEF TypeOK
  <1>4. ASSUME NEW x \in DOMAIN keys, x # k, keys'[x] = keys[x]
        PROVE  Held(x)
    <2>1. RecordInv(x, keys[x], witnessed, ownerRetired, now) /\ x \in Keys
      BY <1>0 DEF KeyCacheInv, TypeOK
    <2>2. RecordInv(x, keys[x], witnessed', ownerRetired', now')
      BY <1>0, <1>3, <1>4, <2>1, WitnessedNow, Undisturbed
    <2> QED BY <1>4, <2>2
  <1>5. parts.reason = "" => /\ <<k, parts.sha256, now>> \in witnessed'
                             /\ parts.sha256 \in Ders
    BY <1>0, FetchKey, Witnessed DEF Read
  <1>6. parts.reason = ABSENT => <<k, Absent, now>> \in witnessed'
    BY <1>0, FetchKey, Witnessed DEF Read
  <1>7. parts.reason = UNAVAILABLE => witnessed' = witnessed
    BY <1>0, FetchKey, Witnessed, KeyCacheAssumption DEF Read
  <1>8. CASE Noted(k, answers)
    <2> SUFFICES ASSUME NEW x \in DOMAIN keys PROVE Held(x)
      BY <1>1, <1>2, <1>8 DEF KeyCacheInv, Noted
    <2>1. RecordInv(x, keys[x], witnessed, ownerRetired, now) /\ x \in Keys
      BY <1>0 DEF KeyCacheInv, TypeOK
    <2>2. x = k /\ keys[x].state = PENDING => witnessed' = witnessed
      BY <1>7, <1>8 DEF Noted, Has
    <2>3. RecordInv(x, keys[x], witnessed', ownerRetired', now')
      BY <1>0, <1>3, <2>1, <2>2, WitnessedNow, Undisturbed
    <2> QED BY <1>8, <2>3 DEF Noted
  <1>9. CASE Registered(k, answers)
    <2>1. /\ DOMAIN keys' = DOMAIN keys \cup {k} /\ k \notin DOMAIN keys
          /\ \A x \in DOMAIN keys : keys'[x] = keys[x]
          /\ keys'[k] = [state |-> PENDING, key_sha256 |-> parts.sha256,
                         first_seen |-> now, activated_at |-> NotSet,
                         refreshed_at |-> NotSet]
      BY <1>9 DEF Registered, Put, Has
    <2>2. /\ keys'[k].state = PENDING /\ keys'[k].activated_at = NotSet
          /\ keys'[k].first_seen = now /\ keys'[k].key_sha256 = parts.sha256
      BY <2>1
    <2>3. /\ <<k, parts.sha256, now>> \in witnessed'
          /\ \A w \in witnessed' : w[3] <= now
          /\ now \in Nat /\ now' = now
      BY <1>0, <1>5, <1>9, WitnessedNow DEF Registered
    <2>4. Held(k)
      BY <2>2, <2>3 DEF RecordInv, PENDING, ACTIVE, ROTATED, RETIRED
    <2> QED BY <1>1, <1>2, <1>4, <2>1, <2>4 DEF KeyCacheInv
  <1>10. CASE Dropped(k)
    <2>1. /\ DOMAIN keys' = DOMAIN keys \ {k}
          /\ \A x \in DOMAIN keys : x # k => keys'[x] = keys[x]
      BY <1>10 DEF Dropped, Delete
    <2> QED BY <1>1, <1>2, <1>4, <2>1 DEF KeyCacheInv
  <1>11. ASSUME NEW s, NEW a, Rewritten(k, s, a, now), k \in DOMAIN keys, Held(k)
         PROVE  KeyCacheInv'
    <2>1. /\ DOMAIN keys' = DOMAIN keys
          /\ \A x \in DOMAIN keys : x # k => keys'[x] = keys[x]
      BY <1>11 DEF Rewritten
    <2> QED BY <1>1, <1>2, <1>4, <1>11, <2>1 DEF KeyCacheInv
  <1> DEFINE h == keys[k]
             g == keys'[k]
  <1>12. k \in DOMAIN keys =>
            /\ RecordInv(k, h, witnessed, ownerRetired, now)
            /\ h.first_seen \in Nat /\ h.activated_at \in Nat \cup {NotSet}
    BY <1>0 DEF KeyCacheInv, TypeOK, KeyRecord, Stamp
  <1>13. \A w \in witnessed' : w[3] \in Nat
    BY <1>1 DEF TypeOK
  <1>14. NotSet \notin Nat /\ QUARANTINE \in Nat
    BY KeyCacheAssumption
  <1>15. CASE Activated(k, answers)
    <2>1. Rewritten(k, ACTIVE, now, now) /\ k \in DOMAIN keys
      BY <1>15 DEF Activated, Has
    <2>2. /\ g.key_sha256 = h.key_sha256 /\ g.first_seen = h.first_seen
          /\ g.state = ACTIVE /\ g.activated_at = now
      BY <2>1 DEF Rewritten
    <2>3. \A w \in witnessed' : w[1] = k => w[3] <= h.first_seen \/ w[3] = now
      BY <1>0, <1>12, <1>15, <2>1, WitnessedNow DEF Activated, RecordInv
    <2>4. now >= h.first_seen + QUARANTINE /\ <<k, h.key_sha256, now>> \in witnessed'
      BY <1>5, <1>15 DEF Activated, QuarantinePassed
    <2>5. <<k, h.key_sha256, h.first_seen>> \in witnessed' /\ h.first_seen <= now
      BY <1>0, <1>12, <2>1, WitnessedNow DEF RecordInv
    <2>6. \A w \in witnessed' :
            ~(w[1] = k /\ h.first_seen < w[3] /\ w[3] < now)
      BY <1>0, <1>12, <1>13, <2>1, <2>3, WitnessedNow
    <2>7. Held(k)
      BY <1>0, <1>14, <2>2, <2>4, <2>5, <2>6, WitnessedNow
      DEF RecordInv, PENDING, ACTIVE, ROTATED, RETIRED
    <2> QED BY <1>11, <2>1, <2>7
  <1>16. ASSUME NEW state \in {ACTIVE, ROTATED, RETIRED}, Seen(k, answers, state)
         PROVE  KeyCacheInv'
    <2>1. Rewritten(k, state, h.activated_at, now) /\ k \in DOMAIN keys
      BY <1>16 DEF Seen, Has
    <2>2. /\ g.key_sha256 = h.key_sha256 /\ g.first_seen = h.first_seen
          /\ g.state = state /\ g.activated_at = h.activated_at
          /\ g.refreshed_at = now
      BY <2>1 DEF Rewritten
    <2>3. h.state # PENDING /\ h.activated_at # NotSet /\ h.activated_at \in Nat
      BY <1>12, <1>16, <2>1 DEF Seen, RecordInv, PENDING, ACTIVE, ROTATED
    <2>4. RecordInv(k, h, witnessed', ownerRetired', now')
      BY <1>0, <1>3, <1>12, <2>1, <2>3, WitnessedNow, Undisturbed
    <2>5. state = RETIRED => <<k, Absent, now>> \in witnessed'
      BY <1>6, <1>16 DEF Seen, RETIRED, ACTIVE, ROTATED
    <2>6. h.activated_at <= now
      BY <1>12, <2>1, <2>3 DEF RecordInv
    <2>7. state = ROTATED =>
            \E w \in witnessed' : /\ w[1] = k /\ w[2] \in Ders
                                  /\ w[2] # h.key_sha256 /\ w[3] >= h.activated_at
      <3>1. CASE h.state = ROTATED
        BY <2>4, <3>1 DEF RecordInv
      <3>2. CASE state = ROTATED /\ h.state # ROTATED
        <4>1. parts.reason = "" /\ parts.sha256 # h.key_sha256
          BY <1>16, <3>2 DEF Seen, RETIRED, ROTATED
        <4> QED BY <1>0, <1>5, <2>6, <4>1, WitnessedNow
      <3> QED BY <3>1, <3>2
    <2>8. Held(k)
      BY <2>2, <2>3, <2>4, <2>5, <2>7
      DEF RecordInv, PENDING, ACTIVE, ROTATED, RETIRED
    <2> QED BY <1>11, <2>1, <2>8
  <1> QED BY <1>8, <1>9, <1>10, <1>15, <1>16 DEF DnsStep

\* The owner's retirement adds a cause to the record it retires.
LEMMA RetiredInv ==
    ASSUME KeyCacheInv, NEW k \in Keys, Retired(k)
    PROVE  KeyCacheInv'
  <1> DEFINE h == keys[k]
             g == keys'[k]
  <1>1. /\ TypeOK /\ k \in DOMAIN keys
        /\ Rewritten(k, RETIRED, h.activated_at, h.refreshed_at)
        /\ now' = now /\ witnessed' = witnessed
        /\ ownerRetired' = ownerRetired \cup {k}
    BY DEF KeyCacheInv, Retired, Has
  <1>2. /\ witnessed \in SUBSET Witnesses /\ now \in Nat
        /\ \A x \in DOMAIN keys : x \in Keys /\ keys[x] \in KeyRecord
    BY <1>1 DEF TypeOK, Witnesses
  <1>3. ASSUME NEW x \in DOMAIN keys
        PROVE  RecordInv(x, keys[x], witnessed, ownerRetired', now)
    <2>1. RecordInv(x, keys[x], witnessed, ownerRetired, now)
      BY DEF KeyCacheInv
    <2> QED BY <1>1, <1>2, <2>1, Undisturbed
  <1>4. ASSUME NEW x \in DOMAIN keys, x # k
        PROVE  RecordInv(x, keys'[x], witnessed', ownerRetired', now')
    BY <1>1, <1>3, <1>4 DEF Rewritten
  <1>5. /\ g.key_sha256 = h.key_sha256 /\ g.first_seen = h.first_seen
        /\ g.state = RETIRED /\ g.activated_at = h.activated_at
    BY <1>1 DEF Rewritten
  <1>6. RecordInv(k, g, witnessed', ownerRetired', now')
    BY <1>1, <1>3, <1>5 DEF RecordInv, PENDING, ACTIVE, ROTATED, RETIRED
  <1>7. DOMAIN keys' = DOMAIN keys
    BY <1>1 DEF Rewritten
  <1>8. \A w \in witnessed' : w[3] <= now'
    BY <1>1 DEF KeyCacheInv
  <1>9. TypeOK'
    BY <1>1, RetireType
  <1> QED BY <1>4, <1>6, <1>7, <1>8, <1>9 DEF KeyCacheInv

\* and time that passes,
LEMMA TickInv ==
    ASSUME KeyCacheInv, Tick
    PROVE  KeyCacheInv'
  <1>1. /\ TypeOK /\ now \in Nat /\ now' = now + 1 /\ keys' = keys
        /\ witnessed' = witnessed /\ ownerRetired' = ownerRetired
    BY DEF KeyCacheInv, TypeOK, Tick, history
  <1>2. /\ witnessed \in SUBSET Witnesses /\ now' \in Nat /\ now <= now'
        /\ \A x \in DOMAIN keys : x \in Keys /\ keys[x] \in KeyRecord
    BY <1>1 DEF TypeOK, Witnesses
  <1>3. ASSUME NEW x \in DOMAIN keys
        PROVE  RecordInv(x, keys[x], witnessed, ownerRetired, now')
    <2>1. RecordInv(x, keys[x], witnessed, ownerRetired, now)
      BY DEF KeyCacheInv
    <2> QED BY <1>1, <1>2, <2>1, Undisturbed
  <1>4. \A w \in witnessed : w[3] \in Nat /\ w[3] <= now
    BY <1>2 DEF KeyCacheInv, Witnesses
  <1>5. TypeOK'
    BY <1>1, NextType DEF Next
  <1> QED BY <1>1, <1>3, <1>4, <1>5 DEF KeyCacheInv

\* and so any step.
LEMMA NextInv ==
    ASSUME KeyCacheInv, [Next]_vars
    PROVE  KeyCacheInv'
  <1>1. CASE UNCHANGED <<now, keys, failures, history>>
    <2>1. TypeOK' BY NextType DEF KeyCacheInv
    <2> QED BY <1>1, <2>1 DEF KeyCacheInv, history
  <1>2. CASE Next
    <2>1. CASE OwnershipStep BY <1>1, <2>1 DEF OwnershipStep
    <2>2. TypeOK BY DEF KeyCacheInv
    <2> QED BY <1>2, <2>1, <2>2, StepCases, DnsStepInv, RetiredInv, TickInv
  <1>3. CASE UNCHANGED vars
    BY <1>1, <1>3 DEF vars
  <1> QED BY <1>2, <1>3

\* It holds at first,
LEMMA InitInv == Init => KeyCacheInv
  BY InitType DEF Init, EmptyMap, KeyCacheInv

\* and then always.
LEMMA KeyCacheInvariant == Spec => []KeyCacheInv
  BY InitInv, NextInv, PTL DEF Spec

\* No key is ever active on the word of one read: two, a quarantine apart.
THEOREM KeyCacheActiveWasReadTwice == Spec => []ActiveWasReadTwice
  <1>1. KeyCacheInv => ActiveWasReadTwice
    BY DEF KeyCacheInv, RecordInv, ActiveWasReadTwice
  <1> QED BY <1>1, KeyCacheInvariant, PTL

\* And nothing else was agreed on for its name between those two.
THEOREM KeyCacheNoContraryRead == Spec => []NoContraryRead
  <1>1. KeyCacheInv => NoContraryRead
    BY DEF KeyCacheInv, RecordInv, NoContraryRead
  <1> QED BY <1>1, KeyCacheInvariant, PTL

\* Only the owner, or both resolvers at once, ever retire a key.
THEOREM KeyCacheRetiredForCause == Spec => []RetiredForCause
  <1>1. KeyCacheInv => RetiredForCause
    BY DEF KeyCacheInv, RecordInv, RetiredForCause
  <1> QED BY <1>1, KeyCacheInvariant, PTL

\* A rotated key was really replaced.
THEOREM KeyCacheRotatedForCause == Spec => []RotatedForCause
  <1>1. KeyCacheInv => RotatedForCause
    BY DEF KeyCacheInv, RecordInv, RotatedForCause
  <1> QED BY <1>1, KeyCacheInvariant, PTL

-----------------------------------------------------------------------------
(* What a step may never do.                                                 *)

\* No order of calls moves a record back, or takes a settled one away.
THEOREM KeyCacheLifecycle == Spec => LifecycleMovesForward
  <1> DEFINE Forward(k) ==
        IF Has(keys', k)
        THEN /\ Rank(keys[k].state) <= Rank(keys'[k].state)
             /\ keys'[k].key_sha256 = keys[k].key_sha256
             /\ keys'[k].first_seen = keys[k].first_seen
        ELSE keys[k].state = PENDING
  <1>1. /\ Rank(PENDING) = 0 /\ Rank(ACTIVE) = 1
        /\ Rank(ROTATED) = 2 /\ Rank(RETIRED) = 3
    BY DEF Rank, PENDING, ACTIVE, ROTATED, RETIRED
  <1>2. ASSUME TypeOK, NEW x \in DOMAIN keys
        PROVE  Rank(keys[x].state) \in 0..3
    BY <1>1, <1>2 DEF TypeOK, KeyRecord
  <1>3. ASSUME TypeOK, NEW x \in DOMAIN keys, Has(keys', x), keys'[x] = keys[x]
        PROVE  Forward(x)
    BY <1>2, <1>3
  <1>4. ASSUME TypeOK, NEW k \in Keys, NEW s \in {ACTIVE, ROTATED, RETIRED},
               NEW a, NEW r, k \in DOMAIN keys, Rewritten(k, s, a, r),
               Rank(keys[k].state) <= Rank(s), NEW x \in DOMAIN keys
        PROVE  Forward(x)
    <2>1. CASE x = k
      BY <1>4, <2>1 DEF Rewritten, Has
    <2>2. CASE x # k
      BY <1>3, <1>4, <2>2 DEF Rewritten, Has
    <2> QED BY <2>1, <2>2
  <1>5. ASSUME TypeOK, Next, NEW x \in DOMAIN keys PROVE Forward(x)
    <2>1. ASSUME NEW k \in Keys, NEW answers \in Answers, DnsStep(k, answers)
          PROVE  Forward(x)
      <3>1. CASE Noted(k, answers)
        BY <1>3, <1>5, <3>1 DEF Noted, Has
      <3>2. CASE Registered(k, answers)
        BY <1>3, <1>5, <3>2 DEF Registered, Put, Has
      <3>3. CASE Dropped(k)
        <4>1. CASE x = k BY <3>3, <4>1 DEF Dropped, Delete, Has
        <4>2. CASE x # k BY <1>3, <1>5, <3>3, <4>2 DEF Dropped, Delete, Has
        <4> QED BY <4>1, <4>2
      <3>4. CASE Activated(k, answers)
        <4>1. k \in DOMAIN keys /\ Rank(keys[k].state) <= Rank(ACTIVE)
          <5>1. k \in DOMAIN keys /\ keys[k].state = PENDING
            BY <3>4 DEF Activated, Has
          <5>2. Rank(keys[k].state) = 0
            BY <1>1, <5>1
          <5>3. Rank(ACTIVE) = 1
            BY <1>1
          <5> QED BY <5>1, <5>2, <5>3
        <4>2. Rewritten(k, ACTIVE, now, now)
          BY <3>4 DEF Activated
        <4> HIDE DEF Forward
        <4> QED BY <1>4, <1>5, <4>1, <4>2
      <3>5. ASSUME NEW s \in {ACTIVE, ROTATED, RETIRED}, Seen(k, answers, s)
            PROVE  Forward(x)
        <4>1. Rank(keys[k].state) <= Rank(s)
          <5>1. CASE s = keys[k].state
            BY <1>2, <1>5, <3>5, <5>1 DEF Seen, Has
          <5>2. CASE s \in {ROTATED, RETIRED}
            <6>1. keys[k].state = ACTIVE \/ keys[k].state = ROTATED
              BY <3>5 DEF Seen
            <6>2. Rank(keys[k].state) = 1 \/ Rank(keys[k].state) = 2
              BY <1>1, <6>1
            <6>3. Rank(s) = 2 \/ Rank(s) = 3
              BY <1>1, <5>2
            <6> QED BY <6>2, <6>3
          <5> QED BY <3>5, <5>1, <5>2 DEF Seen
        <4>2. k \in DOMAIN keys /\ Rewritten(k, s, keys[k].activated_at, now)
          BY <3>5 DEF Seen, Has
        <4> HIDE DEF Forward
        <4> QED BY <1>4, <1>5, <4>1, <4>2
      <3> QED BY <2>1, <3>1, <3>2, <3>3, <3>4, <3>5 DEF DnsStep
    <2>2. ASSUME NEW k \in Keys, Retired(k) PROVE Forward(x)
      <3>1. k \in DOMAIN keys /\ Rank(keys[k].state) <= Rank(RETIRED)
        BY <1>1, <1>2, <1>5, <2>2 DEF Retired, Has
      <3> QED BY <1>4, <1>5, <2>2, <3>1 DEF Retired
    <2>3. CASE Tick \/ OwnershipStep
      BY <1>3, <1>5, <2>3 DEF Tick, OwnershipStep, Has
    <2> HIDE DEF Forward
    <2> QED BY <1>5, <2>1, <2>2, <2>3, StepCases
  <1>6. TypeOK /\ [Next]_vars => [\A k \in DOMAIN keys : Forward(k)]_vars
    BY <1>5
  <1> QED BY <1>6, KeyCacheTypeOK, PTL DEF Spec, LifecycleMovesForward

\* A record that disappears leaves a dated reason, which is not an outage.
THEOREM KeyCacheDropIsExplained == Spec => DropIsExplained
  <1> DEFINE Explained ==
        \A k \in DOMAIN keys :
           ~Has(keys', k) => /\ Has(failures', k)
                             /\ failures'[k].at = now
                             /\ failures'[k].reason # UNAVAILABLE
  <1>1. ASSUME TypeOK, Next PROVE Explained
    <2>1. ASSUME NEW k \in Keys, NEW answers \in Answers, DnsStep(k, answers)
          PROVE  Explained
      <3>1. CASE Dropped(k)
        <4>1. PICK reason : reason # UNAVAILABLE /\ _failed(k, reason)
          BY <3>1 DEF Dropped
        <4>2. /\ Has(failures', k) /\ failures'[k].at = now
              /\ failures'[k].reason # UNAVAILABLE
          BY <4>1 DEF _failed, Put, Has
        <4>3. \A x \in DOMAIN keys : x # k => Has(keys', x)
          BY <3>1 DEF Dropped, Delete, Has
        <4> QED BY <4>2, <4>3
      <3>2. CASE ~Dropped(k)
        BY <2>1, <3>2
        DEF DnsStep, Noted, Registered, Activated, Seen, Rewritten, Put, Has
      <3> QED BY <3>1, <3>2
    <2>2. ASSUME NEW k \in Keys, Retired(k) PROVE Explained
      BY <2>2 DEF Retired, Rewritten, Has
    <2>3. CASE Tick \/ OwnershipStep
      BY <2>3 DEF Tick, OwnershipStep, Has
    <2> HIDE DEF Explained
    <2> QED BY <1>1, <2>1, <2>2, <2>3, StepCases
  <1>2. TypeOK /\ [Next]_vars => [Explained]_vars
    BY <1>1
  <1> QED BY <1>2, KeyCacheTypeOK, PTL DEF Spec, DropIsExplained

-----------------------------------------------------------------------------
(* Minimal and maximal elements, and sequences put together.                 *)

\* A set of natural numbers has a least one.
LEMMA Least ==
    ASSUME NEW T \in SUBSET Nat, T # {}
    PROVE  \E i \in T : \A j \in T : i <= j
  <1> DEFINE R == OpToRel(<, Nat)
  <1>1. IsWellFoundedOn(R, Nat)
    BY NatLessThanWellFounded
  <1>2. \A x, y \in Nat : y < x => <<y, x>> \in R
    BY DEF OpToRel
  <1> HIDE DEF R
  <1>3. PICK x \in T : \A y \in T : ~(<<y, x>> \in R)
    BY <1>1, WFMin
  <1>4. ASSUME NEW y \in T PROVE x <= y
    <2>1. x \in Nat /\ y \in Nat
      OBVIOUS
    <2>2. ~(y < x)
      BY <1>2, <1>3, <2>1
    <2> QED BY <2>1, <2>2
  <1> QED BY <1>4

\* A set of positions has a first and a last one.
LEMMA Ends ==
    ASSUME NEW n \in Nat, NEW T \in SUBSET (1..n), T # {}
    PROVE  /\ \E i \in T : \A j \in T : i <= j
           /\ \E i \in T : \A j \in T : i >= j
  <1>1. \E i \in T : \A j \in T : i <= j
    BY Least
  <1> DEFINE U == {n - i : i \in T}
  <1>2. U \in SUBSET Nat /\ U # {}
    <2>1. \A i \in T : n - i \in Nat
      OBVIOUS
    <2> QED BY <2>1
  <1>3. PICK x \in U : \A y \in U : x <= y
    BY <1>2, Least
  <1>4. PICK i \in T : x = n - i
    BY <1>3
  <1>5. \A j \in T : n - j \in U /\ j \in Int /\ i \in Int
    BY <1>4
  <1>6. \A j \in T : n - i <= n - j
    BY <1>3, <1>4, <1>5
  <1>7. \A j \in T : i >= j
    BY <1>5, <1>6
  <1> QED BY <1>1, <1>7

\* Where a text is put together of two with one between them.
LEMMA Joined ==
    ASSUME NEW S, NEW left \in Seq(S), NEW right \in Seq(S), NEW middle \in Seq(S)
    PROVE  LET all == left \o middle \o right IN
           /\ all \in Seq(S)
           /\ Len(all) = Len(left) + Len(middle) + Len(right)
           /\ \A i \in 1..Len(left) : all[i] = left[i]
           /\ \A i \in 1..Len(middle) : all[Len(left) + i] = middle[i]
           /\ \A i \in 1..Len(right) : all[Len(left) + Len(middle) + i] = right[i]
  <1>1. /\ Len(left) \in Nat /\ Len(middle) \in Nat /\ Len(right) \in Nat
    BY LenProperties
  <1>2. /\ left \o middle \in Seq(S) /\ Len(left \o middle) = Len(left) + Len(middle)
        /\ \A i \in 1..Len(left) + Len(middle) :
              (left \o middle)[i] = IF i <= Len(left) THEN left[i] ELSE middle[i - Len(left)]
    BY ConcatProperties
  <1> DEFINE both == left \o middle
  <1> HIDE DEF both
  <1>3. /\ both \o right \in Seq(S) /\ Len(both \o right) = Len(both) + Len(right)
        /\ \A i \in 1..Len(both) + Len(right) :
              (both \o right)[i] = IF i <= Len(both) THEN both[i] ELSE right[i - Len(both)]
    BY <1>2, ConcatProperties DEF both
  <1>4. /\ Len(both) = Len(left) + Len(middle)
        /\ \A i \in 1..Len(left) : both[i] = left[i]
        /\ \A i \in 1..Len(middle) : both[Len(left) + i] = middle[i]
    BY <1>1, <1>2 DEF both
  <1>5. /\ \A i \in 1..Len(left) : (both \o right)[i] = left[i]
        /\ \A i \in 1..Len(middle) : (both \o right)[Len(left) + i] = middle[i]
        /\ \A i \in 1..Len(right) : (both \o right)[Len(left) + Len(middle) + i] = right[i]
    BY <1>1, <1>3, <1>4
  <1> QED BY <1>3, <1>4, <1>5 DEF both

-----------------------------------------------------------------------------
(* Names, and the keys made of them.                                         *)

\* A text that is one name already: no character at its ends is cut, and none is
\* in upper case.
Named(text) ==
    /\ text \in Seq(NameChars)
    /\ Len(text) \in 1..Limit
    /\ text[1] # Dot /\ text[Len(text)] # Dot

\* What strip leaves is a part of the text that neither starts nor ends with what
\* is cut; a text that does neither is left as it is.
LEMMA Stripped ==
    ASSUME NEW S, NEW text \in Seq(S), NEW cut
    PROVE  LET kept == Strip(text, cut) IN
           /\ kept \in Seq(S)
           /\ kept # <<>> => /\ kept[1] \notin cut
                             /\ kept[Len(kept)] \notin cut
           /\ Len(text) > 0 /\ text[1] \notin cut /\ text[Len(text)] \notin cut => kept = text
  <1> DEFINE Kept == {i \in DOMAIN text : text[i] \notin cut}
             first == CHOOSE i \in Kept : \A j \in Kept : i <= j
             last == CHOOSE i \in Kept : \A j \in Kept : i >= j
  <1>1. /\ Len(text) \in Nat /\ DOMAIN text = 1..Len(text)
        /\ \A i \in 1..Len(text) : text[i] \in S
    BY LenProperties
  <1>2. CASE Kept = {}
    <2>1. Strip(text, cut) = <<>>
      BY <1>2 DEF Strip
    <2>2. Len(text) > 0 => text[1] \in cut
      BY <1>1, <1>2
    <2> QED BY <2>1, <2>2
  <1>3. CASE Kept # {}
    <2>1. Kept \in SUBSET Int /\ \A i \in Kept : 1 <= i /\ i <= Len(text)
      BY <1>1
    <2>2. \E i \in Kept : \A j \in Kept : i <= j
      BY <1>1, <1>3, Ends
    <2>3. \E i \in Kept : \A j \in Kept : i >= j
      BY <1>1, <1>3, Ends
    <2>4. first \in Kept /\ last \in Kept /\ (\A j \in Kept : first <= j /\ last >= j)
      BY <2>2, <2>3
    <2>5. first \in 1..Len(text) /\ last \in 1..Len(text) /\ first <= last
      BY <2>1, <2>4, <1>1
    <2>6. Strip(text, cut) = SubSeq(text, first, last)
      BY <1>3 DEF Strip
    <2> HIDE DEF first, last
    <2>7. /\ SubSeq(text, first, last) \in Seq(S)
          /\ Len(SubSeq(text, first, last)) = last - first + 1
          /\ \A i \in 1..last - first + 1 : SubSeq(text, first, last)[i] = text[first + i - 1]
      BY <2>5, <1>1, SubSeqProperties
    <2>8. text[first] \notin cut /\ text[last] \notin cut
      BY <2>4
    <2>9. ASSUME Len(text) > 0, text[1] \notin cut, text[Len(text)] \notin cut
          PROVE  SubSeq(text, first, last) = text
      <3>1. 1 \in Kept /\ Len(text) \in Kept
        BY <1>1, <2>9
      <3>2. first = 1 /\ last = Len(text)
        BY <2>4, <2>5, <3>1, <1>1
      <3> QED BY <2>7, <3>2, <1>1
    <2> HIDE DEF Kept
    <2>10. SubSeq(text, first, last)[1] = text[first] /\ SubSeq(text, first, last)[last - first + 1] = text[last]
      BY <2>5, <2>7
    <2> QED BY <2>6, <2>7, <2>8, <2>9, <2>10
  <1> QED BY <1>2, <1>3

\* lower() leaves a name as it is: none of its characters is an upper-case letter.
LEMMA LoweredName ==
    ASSUME NEW text \in Seq(NameChars)
    PROVE  Lower(text) = text
  <1>1. DOMAIN text = 1..Len(text) /\ \A i \in DOMAIN text : text[i] \in NameChars
    BY LenProperties
  <1>2. \A i \in DOMAIN text : ~\E l \in Letters : Upper[l] = text[i]
    BY <1>1, NameKeysAssumption
  <1>3. Lower(text) = [i \in DOMAIN text |-> text[i]]
    BY <1>2 DEF Lower
  <1>4. text = [i \in DOMAIN text |-> text[i]]
    OBVIOUS
  <1> QED BY <1>3, <1>4

\* lower() brings nothing into a text but letters.
LEMMA LoweredText ==
    ASSUME NEW S, NEW text \in Seq(S)
    PROVE  Lower(text) \in Seq(S \cup Letters)
  <1>1. DOMAIN text = 1..Len(text) /\ Len(text) \in Nat /\ \A i \in DOMAIN text : text[i] \in S
    BY LenProperties
  <1> DEFINE e(i) == IF \E l \in Letters : Upper[l] = text[i]
                     THEN CHOOSE l \in Letters : Upper[l] = text[i]
                     ELSE text[i]
  <1>2. \A i \in 1..Len(text) : e(i) \in S \cup Letters
    BY <1>1
  <1>3. Lower(text) = [i \in 1..Len(text) |-> e(i)]
    BY <1>1 DEF Lower
  <1> HIDE DEF e
  <1>4. [i \in 1..Len(text) |-> e(i)] \in [1..Len(text) -> S \cup Letters]
    BY <1>2
  <1> QED BY <1>1, <1>3, <1>4

\* A text that is normalized is a name or nothing at all, and a name stays as it is.
LEMMA Normalized ==
    ASSUME NEW S, NEW text \in Seq(S)
    PROVE  /\ normalizeText(text) = NotAName \/ Named(normalizeText(text))
           /\ Named(text) => normalizeText(text) = text
           /\ normalizeText(NotAName) = NotAName
  <1> DEFINE cut == Strip(text, {Space})
             low == Lower(cut)
             name == Strip(low, {Dot})
  <1>1. cut \in Seq(S)
    BY Stripped
  <1>2. low \in Seq(S \cup Letters)
    BY <1>1, LoweredText
  <1>3. /\ name \in Seq(S \cup Letters)
        /\ name # <<>> => name[1] \notin {Dot} /\ name[Len(name)] \notin {Dot}
    BY <1>2, Stripped
  <1>4. normalizeText(text) =
            IF Len(name) \in 1..Limit /\ \A i \in DOMAIN name : name[i] \in NameChars THEN name ELSE NotAName
    BY DEF normalizeText
  <1>5. normalizeText(text) = NotAName \/ Named(normalizeText(text))
    <2> HIDE DEF name
    <2>1. CASE Len(name) \in 1..Limit /\ \A i \in DOMAIN name : name[i] \in NameChars
      <3>1. Len(name) \in Nat /\ DOMAIN name = 1..Len(name) /\ name \in [1..Len(name) -> S \cup Letters]
        BY <1>3, LenProperties
      <3>2. name \in [1..Len(name) -> NameChars]
        BY <2>1, <3>1
      <3>3. name \in Seq(NameChars) /\ name # <<>>
        BY <2>1, <3>1, <3>2
      <3> QED BY <1>3, <1>4, <2>1, <3>3 DEF Named
    <2> QED BY <1>4, <2>1
  <1>6. ASSUME Named(text) PROVE normalizeText(text) = text
    <2>1. /\ text \in Seq(NameChars) /\ DOMAIN text = 1..Len(text) /\ Len(text) \in Nat /\ Len(text) > 0
          /\ \A i \in 1..Len(text) : text[i] \in NameChars
          /\ text[1] \notin {Dot} /\ text[Len(text)] \notin {Dot} /\ Len(text) \in 1..Limit
      BY <1>6, LenProperties DEF Named
    <2>2. Space \notin NameChars
      BY NameKeysAssumption DEF NameChars, Space, Dot, Slash
    <2>3. text[1] \notin {Space} /\ text[Len(text)] \notin {Space}
      BY <2>1, <2>2
    <2>4. cut = text
      BY <2>1, <2>3, Stripped
    <2>5. low = text
      BY <2>1, <2>4, LoweredName
    <2>6. name = text
      BY <2>1, <2>5, Stripped
    <2> QED BY <1>4, <2>1, <2>6
  <1>7. normalizeText(NotAName) = NotAName
    <2>1. Strip(<<>>, {Space}) = <<>>
      BY DEF Strip
    <2>2. Lower(<<>>) = <<>>
      BY DEF Lower
    <2>3. Strip(<<>>, {Dot}) = <<>>
      BY DEF Strip
    <2> QED BY <2>1, <2>2, <2>3 DEF normalizeText, NotAName
  <1> QED BY <1>5, <1>6, <1>7

\* Two pairs of names with one key in the Router are the same pair.
LEMMA PinKeyIsOfOnePair ==
    ASSUME NEW n, NEW l, NEW name, NEW label, Named(n), Named(l), Named(name), Named(label),
           pin_key(n, l) = pin_key(name, label)
    PROVE  n = name /\ l = label
  <1> DEFINE S == NameChars \cup {Slash}
             one == pin_key(n, l)
             other == pin_key(name, label)
  <1>1. Slash \notin NameChars
    BY NameKeysAssumption DEF NameChars, Space, Dot, Slash
  <1>2. /\ n \in Seq(NameChars) /\ l \in Seq(NameChars) /\ name \in Seq(NameChars) /\ label \in Seq(NameChars)
        /\ n \in Seq(S) /\ l \in Seq(S) /\ name \in Seq(S) /\ label \in Seq(S) /\ <<Slash>> \in Seq(S)
        /\ Len(<<Slash>>) = 1 /\ <<Slash>>[1] = Slash
    BY DEF Named
  <1>3. /\ \A i \in 1..Len(n) : one[i] = n[i]
        /\ one[Len(n) + 1] = Slash
        /\ \A i \in 1..Len(l) : one[Len(n) + 1 + i] = l[i]
        /\ Len(one) = Len(n) + 1 + Len(l)
    BY <1>2, Joined DEF pin_key
  <1>4. /\ \A i \in 1..Len(name) : other[i] = name[i]
        /\ other[Len(name) + 1] = Slash
        /\ \A i \in 1..Len(label) : other[Len(name) + 1 + i] = label[i]
        /\ Len(other) = Len(name) + 1 + Len(label)
    BY <1>2, Joined DEF pin_key
  <1>5. /\ Len(n) \in Nat /\ Len(l) \in Nat /\ Len(name) \in Nat /\ Len(label) \in Nat
        /\ \A i \in 1..Len(n) : n[i] \in NameChars
        /\ \A i \in 1..Len(name) : name[i] \in NameChars
    BY <1>2, LenProperties
  <1> HIDE DEF one, other
  <1>6. one = other
    BY DEF one, other
  <1>7. Len(n) = Len(name)
    <2>1. ~(Len(n) < Len(name))
      <3> SUFFICES ASSUME Len(n) < Len(name) PROVE FALSE
        OBVIOUS
      <3>1. Len(n) + 1 \in 1..Len(name)
        BY <1>5
      <3> QED BY <1>1, <1>3, <1>4, <1>5, <1>6, <3>1
    <2>2. ~(Len(name) < Len(n))
      <3> SUFFICES ASSUME Len(name) < Len(n) PROVE FALSE
        OBVIOUS
      <3>1. Len(name) + 1 \in 1..Len(n)
        BY <1>5
      <3> QED BY <1>1, <1>3, <1>4, <1>5, <1>6, <3>1
    <2> QED BY <1>5, <2>1, <2>2
  <1>8. Len(l) = Len(label)
    BY <1>3, <1>4, <1>5, <1>6, <1>7
  <1>9. \A i \in 1..Len(n) : n[i] = name[i]
    BY <1>3, <1>4, <1>6, <1>7
  <1>10. \A i \in 1..Len(l) : l[i] = label[i]
    BY <1>3, <1>4, <1>6, <1>7, <1>8
  <1>11. n = name
    BY <1>2, <1>7, <1>9
  <1>12. l = label
    BY <1>2, <1>8, <1>10
  <1> QED BY <1>11, <1>12

\* No pair of names has the key that a pair with no name in it is looked up by.
LEMMA NoNameFindsNothing ==
    ASSUME NEW S, NEW domain \in Seq(S), NEW selector \in Seq(S), NEW d, NEW s, Named(d), Named(s),
           domain = NotAName \/ selector = NotAName
    PROVE  record_key(d, s) # record_key(domain, selector)
  <1> DEFINE C == S \cup NameChars
             own == record_key(d, s)
             other == record_key(domain, selector)
  <1>1. /\ Len(domain) \in Nat /\ Len(selector) \in Nat
        /\ Len(d) \in Nat /\ Len(s) \in Nat /\ Len(d) > 0 /\ Len(s) > 0
        /\ s[1] # Dot /\ d[Len(d)] # Dot
    BY LenProperties DEF Named
  <1>2. domain \in Seq(C) /\ selector \in Seq(C) /\ d \in Seq(C) /\ s \in Seq(C)
    BY DEF Named
  <1>3. DomainKey \in Seq(C) /\ Len(DomainKey) = 3 /\ DomainKey[1] = Dot /\ DomainKey[3] = Dot
    BY DEF DomainKey, Dot, NameChars
  <1>4. Len(own) = Len(s) + 3 + Len(d) /\ own[1] = s[1] /\ own[Len(s) + 3 + Len(d)] = d[Len(d)]
    <2> HIDE DEF C
    <2>1. own = s \o DomainKey \o d
      BY DEF record_key
    <2> HIDE DEF own
    <2>2. /\ Len(own) = Len(s) + Len(DomainKey) + Len(d)
          /\ \A i \in 1..Len(s) : own[i] = s[i]
          /\ \A i \in 1..Len(d) : own[Len(s) + Len(DomainKey) + i] = d[i]
      <3>1. s \in Seq(C) /\ DomainKey \in Seq(C) /\ d \in Seq(C)
        BY <1>2, <1>3
      <3> QED BY <2>1, <3>1, Joined
    <2>3. 1 \in 1..Len(s) /\ Len(d) \in 1..Len(d)
      BY <1>1
    <2> QED BY <1>3, <2>2, <2>3
  <1>5. /\ Len(other) = Len(selector) + 3 + Len(domain)
        /\ selector = <<>> => other[1] = Dot
        /\ domain = <<>> => other[Len(selector) + 3] = Dot /\ Len(domain) = 0
    <2> HIDE DEF C
    <2>1. /\ Len(other) = Len(selector) + 3 + Len(domain)
          /\ \A i \in 1..3 : other[Len(selector) + i] = DomainKey[i]
      <3>1. other = selector \o DomainKey \o domain
        BY DEF record_key
      <3> HIDE DEF other
      <3>2. /\ Len(other) = Len(selector) + Len(DomainKey) + Len(domain)
            /\ \A i \in 1..Len(DomainKey) : other[Len(selector) + i] = DomainKey[i]
        <4>1. selector \in Seq(C) /\ DomainKey \in Seq(C) /\ domain \in Seq(C)
          BY <1>2, <1>3
        <4> QED BY <3>1, <4>1, Joined
      <3> QED BY <1>3, <3>2
    <2>2. other[Len(selector) + 1] = Dot /\ other[Len(selector) + 3] = Dot
      BY <1>3, <2>1
    <2>3. Len(<<>>) = 0
      OBVIOUS
    <2> HIDE DEF other
    <2>4. selector = <<>> => Len(selector) + 1 = 1
      BY <2>3
    <2> QED BY <1>1, <2>1, <2>2, <2>3, <2>4
  <1> HIDE DEF own, other
  <1>6. own # other
    <2> SUFFICES ASSUME own = other PROVE FALSE
      OBVIOUS
    <2>1. CASE selector = <<>>
      BY <1>1, <1>4, <1>5, <2>1
    <2>2. CASE domain = <<>>
      <3>1. Len(selector) + 3 = Len(s) + 3 + Len(d)
        BY <1>1, <1>4, <1>5, <2>2
      <3> QED BY <1>1, <1>4, <1>5, <2>2, <3>1
    <2> QED BY <2>1, <2>2 DEF NotAName
  <1> QED BY <1>6 DEF own, other

\* KeysFindTheirOwn holds of any two texts.
LEMMA TextsFindTheirOwn ==
    ASSUME NEW S, input \in Seq(S), beside \in Seq(S)
    PROVE  KeysFindTheirOwn
  <1> DEFINE name == normalizeText(input)
             label == normalizeText(beside)
             C == NameChars \cup {Slash}
  <1>1. \A R : \A text \in Seq(R) : IsNormal(text) => Named(text)
    BY Normalized DEF IsNormal
  <1>2. /\ name = NotAName \/ Named(name)
        /\ label = NotAName \/ Named(label)
    BY Normalized
  <1>3. normalizeText(name) = name
    BY <1>2, Normalized DEF Named
  <1>4. name \in Seq(NameChars) /\ label \in Seq(NameChars)
    <2> HIDE DEF name, label
    <2>1. <<>> \in Seq(NameChars)
      OBVIOUS
    <2> QED BY <1>2, <2>1 DEF Named, NotAName
  <1> HIDE DEF name, label
  <1>5. ASSUME IsNormal(name), IsNormal(label), NEW i \in 0..Len(pin_key(name, label)), NEW j \in 0..Len(pin_key(name, label)),
               IsNormal(SubSeq(pin_key(name, label), 1, i)),
               IsNormal(SubSeq(pin_key(name, label), j + 1, Len(pin_key(name, label)))),
               pin_key(SubSeq(pin_key(name, label), 1, i), SubSeq(pin_key(name, label), j + 1, Len(pin_key(name, label))))
                 = pin_key(name, label)
        PROVE  /\ SubSeq(pin_key(name, label), 1, i) = name
               /\ SubSeq(pin_key(name, label), j + 1, Len(pin_key(name, label))) = label
    <2> DEFINE pinned == pin_key(name, label)
    <2>1. pinned \in Seq(C)
      <3>1. name \in Seq(C) /\ label \in Seq(C) /\ <<Slash>> \in Seq(C)
        BY <1>4
      <3> QED BY <3>1, Joined DEF pin_key
    <2> HIDE DEF pinned
    <2>2. Len(pinned) \in Nat /\ \A k \in 1..Len(pinned) : pinned[k] \in C
      BY <2>1, LenProperties
    <2>3. i \in Nat /\ i <= Len(pinned) /\ j \in Nat
      BY <1>5, <2>2 DEF pinned
    <2>4. SubSeq(pinned, 1, i) \in Seq(C) /\ SubSeq(pinned, j + 1, Len(pinned)) \in Seq(C)
      BY <2>2, <2>3, SubSeqProperties
    <2>5. Named(SubSeq(pinned, 1, i)) /\ Named(SubSeq(pinned, j + 1, Len(pinned)))
      BY <1>1, <1>5, <2>4 DEF pinned
    <2>6. Named(name) /\ Named(label)
      BY <1>2, <1>5 DEF IsNormal
    <2> DEFINE n == SubSeq(pinned, 1, i)
               l == SubSeq(pinned, j + 1, Len(pinned))
    <2>7. Named(n) /\ Named(l) /\ pin_key(n, l) = pin_key(name, label)
      BY <1>5, <2>5 DEF pinned
    <2> HIDE DEF n, l
    <2>8. n = name /\ l = label
      BY <2>6, <2>7, PinKeyIsOfOnePair
    <2> QED BY <2>8 DEF pinned, n, l
  <1>6. ASSUME name = NotAName \/ label = NotAName, NEW i \in 0..Len(record_key(label, name)), NEW j \in 0..Len(record_key(label, name)),
               IsNormal(SubSeq(record_key(label, name), 1, i)),
               IsNormal(SubSeq(record_key(label, name), j + 1, Len(record_key(label, name))))
        PROVE  record_key(SubSeq(record_key(label, name), j + 1, Len(record_key(label, name))),
                          SubSeq(record_key(label, name), 1, i)) # record_key(label, name)
    <2> DEFINE lookup == record_key(label, name)
    <2>1. lookup \in Seq(NameChars)
      <3>1. DomainKey \in Seq(NameChars)
        BY DEF DomainKey, NameChars, Dot
      <3> QED BY <1>4, <3>1, Joined DEF record_key
    <2> HIDE DEF lookup
    <2>2. Len(lookup) \in Nat /\ \A k \in 1..Len(lookup) : lookup[k] \in NameChars
      BY <2>1, LenProperties
    <2>3. i \in Nat /\ i <= Len(lookup) /\ j \in Nat
      BY <1>6, <2>2 DEF lookup
    <2>4. SubSeq(lookup, 1, i) \in Seq(NameChars) /\ SubSeq(lookup, j + 1, Len(lookup)) \in Seq(NameChars)
      BY <2>2, <2>3, SubSeqProperties
    <2>5. Named(SubSeq(lookup, 1, i)) /\ Named(SubSeq(lookup, j + 1, Len(lookup)))
      BY <1>1, <1>6, <2>4 DEF lookup
    <2> QED BY <1>4, <1>6, <2>5, NoNameFindsNothing DEF lookup
  <1> QED BY <1>3, <1>5, <1>6 DEF KeysFindTheirOwn, lookup_key, name, label

-----------------------------------------------------------------------------
(* Key records.                                                              *)

\* The bytes of a number, one more at a time.
IsNumberOf(f, bytes, n) ==
    f = [i \in 0..n |-> IF i = 0 THEN 0 ELSE f[i - 1] * 256 + bytes[i]]

\* There is such a function, for as many bytes as there are.
LEMMA NumberOf ==
    ASSUME NEW bytes \in Seq(Nat)
    PROVE  \A n \in 0..Len(bytes) : \E f : IsNumberOf(f, bytes, n)
  <1> DEFINE T == {n \in 0..Len(bytes) : ~\E f : IsNumberOf(f, bytes, n)}
  <1>1. Len(bytes) \in Nat /\ \A i \in 1..Len(bytes) : bytes[i] \in Nat
    BY LenProperties
  <1> SUFFICES ASSUME T # {} PROVE FALSE
    OBVIOUS
  <1>2. T \in SUBSET Nat
    BY <1>1
  <1>3. PICK n \in T : \A m \in T : n <= m
    BY <1>2, Least
  <1>4. n \in Nat /\ n <= Len(bytes)
    BY <1>1, <1>3
  <1>5. CASE n = 0
    <2> DEFINE f == [i \in 0..0 |-> 0]
    <2>1. f = [i \in 0..0 |-> IF i = 0 THEN 0 ELSE f[i - 1] * 256 + bytes[i]]
      OBVIOUS
    <2>2. IsNumberOf(f, bytes, n)
      BY <1>5, <2>1 DEF IsNumberOf
    <2> QED BY <1>3, <2>2
  <1>6. CASE n > 0
    <2>1. n - 1 \in 0..Len(bytes) /\ n - 1 \notin T
      BY <1>1, <1>3, <1>4, <1>6
    <2>2. PICK g : IsNumberOf(g, bytes, n - 1)
      BY <2>1
    <2> DEFINE f == [i \in 0..n |-> IF i = n THEN g[n - 1] * 256 + bytes[n] ELSE g[i]]
    <2>3. \A i \in 0..n - 1 : g[i] = IF i = 0 THEN 0 ELSE g[i - 1] * 256 + bytes[i]
      BY <2>2 DEF IsNumberOf
    <2>4. \A i \in 0..n : f[i] = IF i = 0 THEN 0 ELSE f[i - 1] * 256 + bytes[i]
      <3> TAKE i \in 0..n
      <3>1. i \in Nat /\ i <= n
        BY <1>4
      <3>2. CASE i = n
        BY <1>4, <1>6, <3>2
      <3>3. CASE i < n
        <4>1. i \in 0..n - 1 /\ (i # 0 => i - 1 \in 0..n - 1)
          BY <1>4, <3>1, <3>3
        <4>2. f[i] = g[i] /\ (i # 0 => f[i - 1] = g[i - 1])
          BY <1>4, <3>1, <3>3, <4>1
        <4> HIDE DEF f
        <4> QED BY <2>3, <4>1, <4>2
      <3> QED BY <1>4, <3>1, <3>2, <3>3
    <2>5. f = [i \in 0..n |-> f[i]]
      OBVIOUS
    <2> HIDE DEF f
    <2>6. IsNumberOf(f, bytes, n)
      BY <2>4, <2>5 DEF IsNumberOf
    <2> QED BY <1>3, <2>6
  <1> QED BY <1>4, <1>5, <1>6

\* int.from_bytes is a natural number, and that of one byte is the byte.
LEMMA FromBytesIs ==
    ASSUME NEW bytes \in Seq(Nat)
    PROVE  /\ FromBytes(bytes) \in Nat
           /\ Len(bytes) = 1 => FromBytes(bytes) = bytes[1]
  <1>1. Len(bytes) \in Nat /\ \A i \in 1..Len(bytes) : bytes[i] \in Nat
    BY LenProperties
  <1> DEFINE number == CHOOSE f : f = [i \in 0..Len(bytes) |-> IF i = 0 THEN 0 ELSE f[i - 1] * 256 + bytes[i]]
  <1>2. FromBytes(bytes) = number[Len(bytes)]
    BY DEF FromBytes
  <1>3. number = [i \in 0..Len(bytes) |-> IF i = 0 THEN 0 ELSE number[i - 1] * 256 + bytes[i]]
    <2>1. Len(bytes) \in 0..Len(bytes)
      BY <1>1
    <2>2. \E f : IsNumberOf(f, bytes, Len(bytes))
      BY <2>1, NumberOf
    <2>3. \E f : f = [i \in 0..Len(bytes) |-> IF i = 0 THEN 0 ELSE f[i - 1] * 256 + bytes[i]]
      BY <2>2 DEF IsNumberOf
    <2> QED BY <2>3
  <1> HIDE DEF number
  <1>4. \A i \in 0..Len(bytes) : number[i] = IF i = 0 THEN 0 ELSE number[i - 1] * 256 + bytes[i]
    BY <1>3
  <1> DEFINE T == {i \in 0..Len(bytes) : number[i] \notin Nat}
  <1>5. T = {}
    <2> SUFFICES ASSUME T # {} PROVE FALSE
      OBVIOUS
    <2>1. T \in SUBSET Nat
      BY <1>1
    <2>2. PICK i \in T : \A j \in T : i <= j
      BY <2>1, Least
    <2>3. i \in Nat /\ i <= Len(bytes) /\ number[i] \notin Nat
      BY <1>1, <2>2
    <2>4. i # 0
      BY <1>1, <1>4, <2>3
    <2>5. i - 1 \in 0..Len(bytes) /\ i - 1 \notin T
      BY <1>1, <2>2, <2>3, <2>4
    <2>6. number[i - 1] \in Nat /\ bytes[i] \in Nat
      BY <1>1, <2>3, <2>4, <2>5
    <2>7. number[i] = number[i - 1] * 256 + bytes[i]
      BY <1>1, <1>4, <2>3, <2>4
    <2> QED BY <2>3, <2>6, <2>7
  <1>6. number[Len(bytes)] \in Nat
    BY <1>1, <1>5
  <1>7. ASSUME Len(bytes) = 1 PROVE number[1] = bytes[1]
    <2>1. number[0] = 0 /\ number[1] = number[0] * 256 + bytes[1]
      BY <1>1, <1>4, <1>7
    <2> QED BY <1>1, <1>7, <2>1
  <1> QED BY <1>2, <1>6, <1>7

\* A slice is as long as there is something to cut, and its bytes are in place.
LEMMA SliceIs ==
    ASSUME NEW S, NEW der \in Seq(S), NEW from \in Nat, NEW to \in Nat
    PROVE  LET stop == IF to > Len(der) THEN Len(der) ELSE to IN
           /\ Slice(der, from, to) \in Seq(S)
           /\ Len(Slice(der, from, to)) = IF from < stop THEN stop - from ELSE 0
           /\ \A i \in 1..stop - from : Slice(der, from, to)[i] = der[from + i]
  <1> DEFINE stop == IF to > Len(der) THEN Len(der) ELSE to
  <1>1. Len(der) \in Nat /\ \A i \in 1..Len(der) : der[i] \in S
    BY LenProperties
  <1>2. stop \in Nat /\ stop <= Len(der)
    BY <1>1
  <1> HIDE DEF stop
  <1>3. \A i \in from + 1..stop : der[i] \in S
    BY <1>1, <1>2
  <1>4. from + 1 \in Int /\ stop \in Int
    BY <1>2
  <1>5. /\ SubSeq(der, from + 1, stop) \in Seq(S)
        /\ Len(SubSeq(der, from + 1, stop)) = IF from + 1 <= stop THEN stop - (from + 1) + 1 ELSE 0
        /\ \A i \in 1..stop - (from + 1) + 1 : SubSeq(der, from + 1, stop)[i] = der[from + 1 + i - 1]
    BY <1>3, <1>4, SubSeqProperties
  <1>6. Slice(der, from, to) = SubSeq(der, from + 1, stop)
    BY DEF Slice, stop
  <1>7. \A i \in 1..stop - from : i \in 1..stop - (from + 1) + 1 /\ from + 1 + i - 1 = from + i
    BY <1>2
  <1>8. (from + 1 <= stop) = (from < stop) /\ stop - (from + 1) + 1 = stop - from
    BY <1>2
  <1> QED BY <1>5, <1>6, <1>7, <1>8 DEF stop

\* One that lies inside is as long as asked for.
LEMMA SliceInside ==
    ASSUME NEW der \in Seq(Nat), NEW from \in Nat, NEW to \in Nat, from <= to, to <= Len(der)
    PROVE  /\ Slice(der, from, to) \in Seq(Nat)
           /\ Len(Slice(der, from, to)) = to - from
           /\ \A i \in 1..to - from : Slice(der, from, to)[i] = der[from + i]
  <1> DEFINE stop == IF to > Len(der) THEN Len(der) ELSE to
  <1>1. Len(der) \in Nat
    BY LenProperties
  <1>2. /\ Slice(der, from, to) \in Seq(Nat)
        /\ Len(Slice(der, from, to)) = IF from < stop THEN stop - from ELSE 0
        /\ \A i \in 1..stop - from : Slice(der, from, to)[i] = der[from + i]
    BY SliceIs
  <1>3. stop = to
    BY <1>1
  <1> HIDE DEF stop
  <1> QED BY <1>2, <1>3

\* What an element is.
LEMMA ElementIs ==
    ASSUME NEW der \in Seq(Nat), NEW tag \in Nat, NEW at \in Nat, NEW size \in Nat
    PROVE  /\ Element(der, tag, at, size).tag \in Nat
           /\ Element(der, tag, at, size).value \in Seq(Nat)
           /\ Element(der, tag, at, size).next \in Nat
  <1>1. Slice(der, at, at + size) \in Seq(Nat)
    BY SliceIs
  <1> QED BY <1>1 DEF Element, BAD

\* Both readers make the same of an element, wherever it is looked for: when the
\* bytes of its length run past the end, its value does, too.
LEMMA ReadersAgree ==
    ASSUME NEW der \in Seq(Nat), NEW at \in Nat
    PROVE  /\ element(LACRE, der, at) = element(REFERENCE, der, at)
           /\ element(LACRE, der, at).value \in Seq(Nat)
           /\ element(LACRE, der, at).next \in Nat
  <1> DEFINE size == Byte(der, at + 1)
             count == size - 128
             digits == Slice(der, at + 2, at + 2 + count)
  <1>1. Len(der) \in Nat /\ \A i \in 1..Len(der) : der[i] \in Nat
    BY LenProperties
  <1>2. element(LACRE, der, at) = read_tlv(der, at) /\ element(REFERENCE, der, at) = _read_der_tlv(der, at)
    BY DEF element, LACRE, REFERENCE
  <1>3. BAD.value \in Seq(Nat) /\ BAD.next \in Nat
    BY DEF BAD
  <1>4. CASE at + 2 > Len(der)
    <2>1. read_tlv(der, at) = BAD /\ _read_der_tlv(der, at) = BAD
      BY <1>4 DEF read_tlv, _read_der_tlv
    <2> QED BY <1>2, <1>3, <2>1
  <1>5. CASE ~(at + 2 > Len(der))
    <2>1. Byte(der, at) \in Nat /\ size \in Nat
      <3>1. at + 1 \in 1..Len(der) /\ at + 1 + 1 \in 1..Len(der)
        BY <1>1, <1>5
      <3> QED BY <1>1, <3>1 DEF Byte
    <2>2. CASE size < 128
      <3>1. /\ read_tlv(der, at) = Element(der, Byte(der, at), at + 2, size)
            /\ _read_der_tlv(der, at) = Element(der, Byte(der, at), at + 2, size)
        BY <1>5, <2>2 DEF read_tlv, _read_der_tlv
      <3>2. at + 2 \in Nat
        OBVIOUS
      <3> QED BY <1>2, <2>1, <3>1, <3>2, ElementIs
    <2>3. CASE ~(size < 128) /\ (count = 0 \/ count > 4)
      <3>1. read_tlv(der, at) = BAD /\ _read_der_tlv(der, at) = BAD
        BY <1>5, <2>3 DEF read_tlv, _read_der_tlv
      <3> QED BY <1>2, <1>3, <3>1
    <2>4. CASE ~(size < 128) /\ ~(count = 0 \/ count > 4)
      <3>1. count \in Nat
        BY <2>1, <2>4
      <3>2. digits \in Seq(Nat)
        BY <3>1, SliceIs
      <3>3. FromBytes(digits) \in Nat
        BY <3>2, FromBytesIs
      <3>4. read_tlv(der, at) = Element(der, Byte(der, at), at + 2 + count, FromBytes(digits))
        BY <1>5, <2>4 DEF read_tlv
      <3>5. _read_der_tlv(der, at) = IF at + 2 + count > Len(der) THEN BAD
                                     ELSE Element(der, Byte(der, at), at + 2 + count, FromBytes(digits))
        BY <1>5, <2>4 DEF _read_der_tlv
      <3> HIDE DEF digits, count, size
      <3>6. at + 2 + count > Len(der) => at + 2 + count + FromBytes(digits) > Len(der)
        BY <1>1, <3>1, <3>3
      <3>7. read_tlv(der, at) = _read_der_tlv(der, at)
        BY <3>4, <3>5, <3>6 DEF Element
      <3>8. at + 2 + count \in Nat
        BY <3>1
      <3> QED BY <1>2, <2>1, <3>3, <3>4, <3>7, <3>8, ElementIs
    <2> QED BY <2>2, <2>3, <2>4
  <1> QED BY <1>4, <1>5

\* So they make the same of two integers in a row.
LEMMA RsaKeysAgree ==
    ASSUME NEW der \in Seq(Nat)
    PROVE  rsa_key(LACRE, der) = rsa_key(REFERENCE, der)
  <1>1. /\ element(LACRE, der, 0) = element(REFERENCE, der, 0)
        /\ element(LACRE, der, 0).next \in Nat
    BY ReadersAgree
  <1>2. element(LACRE, der, element(LACRE, der, 0).next) = element(REFERENCE, der, element(LACRE, der, 0).next)
    BY <1>1, ReadersAgree
  <1> QED BY <1>1, <1>2 DEF rsa_key

\* And of a whole record.
LEMMA DecodersAgree ==
    ASSUME NEW der \in Seq(Nat)
    PROVE  decode_spki(LACRE, der) = decode_spki(REFERENCE, der)
  <1> DEFINE outer(by) == element(by, der, 0)
             first(by) == element(by, outer(by).value, 0)
             bits(by) == element(by, outer(by).value, first(by).next)
             key(by) == element(by, bits(by).value, 1)
  <1>1. outer(LACRE) = outer(REFERENCE) /\ outer(LACRE).value \in Seq(Nat)
    BY ReadersAgree
  <1>2. first(LACRE) = first(REFERENCE) /\ first(LACRE).next \in Nat
    BY <1>1, ReadersAgree
  <1>3. bits(LACRE) = bits(REFERENCE) /\ bits(LACRE).value \in Seq(Nat)
    BY <1>1, <1>2, ReadersAgree
  <1>4. key(LACRE) = key(REFERENCE) /\ key(LACRE).value \in Seq(Nat)
    BY <1>3, ReadersAgree
  <1>5. rsa_key(LACRE, outer(LACRE).value) = rsa_key(REFERENCE, outer(REFERENCE).value)
    BY <1>1, RsaKeysAgree
  <1>6. rsa_key(LACRE, key(LACRE).value) = rsa_key(REFERENCE, key(REFERENCE).value)
    BY <1>4, RsaKeysAgree
  <1>7. \A by \in {LACRE, REFERENCE} :
          decode_spki(by, der) =
            IF outer(by).tag # SEQUENCE THEN NO_KEY
            ELSE IF first(by).tag = INTEGER THEN rsa_key(by, outer(by).value)
            ELSE IF /\ first(by).tag = SEQUENCE /\ Contains(first(by).value, OID)
                    /\ bits(by).tag = BITSTRING /\ bits(by).value # <<>> /\ bits(by).value[1] = 0
                    /\ key(by).tag = SEQUENCE
                 THEN rsa_key(by, key(by).value)
                 ELSE NO_KEY
    BY DEF decode_spki
  <1> HIDE DEF outer, first, bits, key
  <1> QED BY <1>1, <1>2, <1>3, <1>4, <1>5, <1>6, <1>7

\* A length as DER writes it: in one byte, or in up to four with their number before.
LengthOf(length, n) ==
    \/ n < 128 /\ length = <<n>>
    \/ \E digits \in Seq(Nat) : /\ Len(digits) \in 1..4 /\ FromBytes(digits) = n
                               /\ length = <<128 + Len(digits)>> \o digits

\* What der holds at a place: a tag, a length and a value of that length.
Holds(der, at, tag, value, next) ==
    \E length \in Seq(Nat) :
        /\ LengthOf(length, Len(value))
        /\ next = at + 1 + Len(length) + Len(value) /\ next <= Len(der)
        /\ der[at + 1] = tag
        /\ \A i \in 1..Len(length) : der[at + 1 + i] = length[i]
        /\ \A i \in 1..Len(value) : der[at + 1 + Len(length) + i] = value[i]

\* The value that lies at a place is the one the element has.
LEMMA ValueIsRead ==
    ASSUME NEW der \in Seq(Nat), NEW tag \in Nat, NEW at \in Nat, NEW value \in Seq(Nat),
           at + Len(value) <= Len(der), \A i \in 1..Len(value) : der[at + i] = value[i]
    PROVE  Element(der, tag, at, Len(value)) = [tag |-> tag, value |-> value, next |-> at + Len(value)]
  <1>1. Len(der) \in Nat /\ Len(value) \in Nat
    BY LenProperties
  <1> DEFINE slice == Slice(der, at, at + Len(value))
  <1>2. /\ slice \in Seq(Nat)
        /\ Len(slice) = Len(value)
        /\ \A i \in 1..Len(value) : slice[i] = der[at + i]
    <2> DEFINE to == at + Len(value)
    <2>1. to \in Nat /\ at <= to /\ to <= Len(der) /\ to - at = Len(value)
      BY <1>1
    <2> HIDE DEF to
    <2>2. /\ Slice(der, at, to) \in Seq(Nat) /\ Len(Slice(der, at, to)) = to - at
          /\ \A i \in 1..to - at : Slice(der, at, to)[i] = der[at + i]
      <3>1. Slice(der, at, to) \in Seq(Nat)
        BY <2>1, SliceInside
      <3>2. Len(Slice(der, at, to)) = to - at
        BY <2>1, SliceInside
      <3>3. \A i \in 1..to - at : Slice(der, at, to)[i] = der[at + i]
        BY <2>1, SliceInside
      <3> QED BY <3>1, <3>2, <3>3
    <2> QED BY <2>1, <2>2 DEF to
  <1> HIDE DEF slice
  <1>3. \A i \in 1..Len(value) : slice[i] = value[i]
    BY <1>2
  <1>4. slice = value
    BY <1>2, <1>3, SeqEqual
  <1> QED BY <1>1, <1>4 DEF Element, slice

\* What is written is what is read.
LEMMA ElementIsRead ==
    ASSUME NEW der \in Seq(Nat), NEW at \in Nat, NEW tag \in Nat, NEW value \in Seq(Nat), NEW next,
           Holds(der, at, tag, value, next)
    PROVE  /\ element(LACRE, der, at) = [tag |-> tag, value |-> value, next |-> next]
           /\ next \in Nat
  <1>1. PICK length \in Seq(Nat) :
            /\ LengthOf(length, Len(value))
            /\ next = at + 1 + Len(length) + Len(value) /\ next <= Len(der)
            /\ der[at + 1] = tag
            /\ \A i \in 1..Len(length) : der[at + 1 + i] = length[i]
            /\ \A i \in 1..Len(value) : der[at + 1 + Len(length) + i] = value[i]
    BY DEF Holds
  <1>2. Len(der) \in Nat /\ Len(value) \in Nat /\ Len(length) \in Nat
    BY LenProperties
  <1>3. next \in Nat
    BY <1>1, <1>2
  <1>4. element(LACRE, der, at) = read_tlv(der, at)
    BY DEF element
  <1>5. Byte(der, at) = tag
    BY <1>1 DEF Byte
  <1>6. CASE Len(value) < 128 /\ length = <<Len(value)>>
    <2>1. Len(length) = 1 /\ length[1] = Len(value)
      BY <1>6
    <2>2. der[at + 1 + 1] = Len(value) /\ at + 2 + Len(value) <= Len(der) /\ next = at + 2 + Len(value)
      BY <1>1, <1>2, <2>1
    <2>3. \A i \in 1..Len(value) : der[at + 2 + i] = value[i]
      <3>1. at + 1 + Len(length) = at + 2
        BY <2>1
      <3> QED BY <1>1, <3>1
    <2>4. Byte(der, at + 1) = Len(value)
      BY <2>2 DEF Byte
    <2>5. read_tlv(der, at) = Element(der, tag, at + 2, Len(value))
      <3>1. ~(at + 2 > Len(der))
        BY <1>2, <2>2
      <3> QED BY <1>5, <1>6, <2>4, <3>1 DEF read_tlv
    <2>6. at + 2 \in Nat
      OBVIOUS
    <2>7. Element(der, tag, at + 2, Len(value)) = [tag |-> tag, value |-> value, next |-> at + 2 + Len(value)]
      BY <2>2, <2>3, <2>6, ValueIsRead
    <2> QED BY <1>3, <1>4, <2>2, <2>5, <2>7
  <1>7. ASSUME NEW digits \in Seq(Nat), Len(digits) \in 1..4, FromBytes(digits) = Len(value),
               length = <<128 + Len(digits)>> \o digits
        PROVE  element(LACRE, der, at) = [tag |-> tag, value |-> value, next |-> next]
    <2> DEFINE count == Len(digits)
               from == at + 2 + count
    <2>1. /\ Len(length) = 1 + count /\ length[1] = 128 + count
          /\ \A i \in 1..count : length[i + 1] = digits[i]
          /\ count \in 1..4
      BY <1>7
    <2> HIDE DEF count
    <2>2. from \in Nat /\ from + Len(value) <= Len(der) /\ next = from + Len(value)
      BY <1>1, <1>2, <2>1
    <2>3. \A i \in 1..Len(value) : der[from + i] = value[i]
      <3>1. at + 1 + Len(length) = from
        BY <2>1
      <3> QED BY <1>1, <3>1
    <2>4. Byte(der, at + 1) = 128 + count
      <3>1. 1 \in 1..Len(length)
        BY <2>1
      <3>2. der[at + 1 + 1] = 128 + count
        BY <1>1, <2>1, <3>1
      <3> QED BY <3>2 DEF Byte
    <2> DEFINE slice == Slice(der, at + 2, from)
    <2>5. slice = digits
      <3>1. at + 2 \in Nat /\ from - (at + 2) = count /\ at + 2 <= from /\ from <= Len(der)
        BY <1>2, <2>1, <2>2
      <3> HIDE DEF from
      <3> DEFINE begin == at + 2
      <3>2. begin \in Nat /\ from - begin = count /\ begin <= from
        BY <3>1
      <3> HIDE DEF begin
      <3>3. /\ Slice(der, begin, from) \in Seq(Nat) /\ Len(Slice(der, begin, from)) = from - begin
            /\ \A i \in 1..from - begin : Slice(der, begin, from)[i] = der[begin + i]
        <4>1. from \in Nat /\ from <= Len(der)
          BY <2>2, <3>1
        <4> QED BY <3>2, <4>1, SliceInside
      <3>4. /\ slice \in Seq(Nat) /\ Len(slice) = count
            /\ \A i \in 1..count : slice[i] = der[at + 2 + i]
        BY <3>2, <3>3 DEF begin
      <3> HIDE DEF slice
      <3>5. \A i \in 1..count : der[at + 2 + i] = digits[i]
        <4> TAKE i \in 1..count
        <4>1. i + 1 \in 1..Len(length) /\ at + 1 + (i + 1) = at + 2 + i
          BY <2>1
        <4> QED BY <1>1, <2>1, <4>1
      <3>6. Len(digits) = count
        BY DEF count
      <3>7. \A i \in 1..count : slice[i] = digits[i]
        BY <3>4, <3>5
      <3> QED BY <3>4, <3>6, <3>7, SeqEqual
    <2> HIDE DEF slice
    <2>6. read_tlv(der, at) = Element(der, tag, from, FromBytes(slice))
      <3> DEFINE size == Byte(der, at + 1)
      <3>1. ~(at + 2 > Len(der))
        BY <1>2, <2>1, <2>2
      <3>2. ~(size < 128) /\ size - 128 = count /\ ~(count = 0 \/ count > 4)
        BY <2>1, <2>4
      <3>3. read_tlv(der, at) = Element(der, Byte(der, at), at + 2 + (size - 128), FromBytes(Slice(der, at + 2, at + 2 + (size - 128))))
        BY <3>1, <3>2 DEF read_tlv
      <3> HIDE DEF size
      <3> QED BY <1>5, <3>2, <3>3 DEF slice
    <2> HIDE DEF from
    <2>7. read_tlv(der, at) = Element(der, tag, from, Len(value))
      BY <1>7, <2>5, <2>6
    <2> QED BY <1>4, <2>2, <2>3, <2>7, ValueIsRead
  <1> QED BY <1>1, <1>3, <1>6, <1>7 DEF LengthOf

\* The modulus and the exponent, one behind the other.
RsaKeyIn(der, n, e) ==
    \E middle, end : Holds(der, 0, INTEGER, n, middle) /\ Holds(der, middle, INTEGER, e, end)

\* What a record holds: a bare key, or one that it says is an RSA key.
KeyIn(body, n, e) ==
    \/ RsaKeyIn(body, n, e)
    \/ \E algorithm \in Seq(Nat), bits \in Seq(Nat), key \in Seq(Nat) : \E middle, stop, last :
          /\ Holds(body, 0, SEQUENCE, algorithm, middle) /\ Contains(algorithm, OID)
          /\ Holds(body, middle, BITSTRING, bits, stop) /\ bits # <<>> /\ bits[1] = 0
          /\ Holds(bits, 1, SEQUENCE, key, last)
          /\ RsaKeyIn(key, n, e)

\* What is published under p=.
Publishes(der, n, e) ==
    \E body \in Seq(Nat) : KeyIn(body, n, e) /\ \E end : Holds(der, 0, SEQUENCE, body, end)

\* A modulus and an exponent are read back.
LEMMA RsaKeyIsRead ==
    ASSUME NEW der \in Seq(Nat), NEW n \in Seq(Nat), NEW e \in Seq(Nat), RsaKeyIn(der, n, e)
    PROVE  /\ rsa_key(LACRE, der) = [n |-> n, e |-> e]
           /\ element(LACRE, der, 0).tag = INTEGER
  <1>1. PICK middle, end : Holds(der, 0, INTEGER, n, middle) /\ Holds(der, middle, INTEGER, e, end)
    BY DEF RsaKeyIn
  <1>2. INTEGER \in Nat /\ 0 \in Nat
    BY DEF INTEGER
  <1>3. element(LACRE, der, 0) = [tag |-> INTEGER, value |-> n, next |-> middle] /\ middle \in Nat
    BY <1>1, <1>2, ElementIsRead
  <1>4. element(LACRE, der, middle) = [tag |-> INTEGER, value |-> e, next |-> end]
    BY <1>1, <1>2, <1>3, ElementIsRead
  <1> QED BY <1>3, <1>4 DEF rsa_key

\* And from a record, in either of its two forms.
LEMMA KeyIsRead ==
    ASSUME NEW der \in Seq(Nat), NEW n \in Seq(Nat), NEW e \in Seq(Nat), Publishes(der, n, e)
    PROVE  decode_spki(LACRE, der) = [n |-> n, e |-> e]
  <1>1. PICK body \in Seq(Nat) : KeyIn(body, n, e) /\ \E end : Holds(der, 0, SEQUENCE, body, end)
    BY DEF Publishes
  <1>2. SEQUENCE \in Nat /\ BITSTRING \in Nat /\ 0 \in Nat /\ 1 \in Nat /\ SEQUENCE # INTEGER
    BY DEF SEQUENCE, BITSTRING, INTEGER
  <1>3. element(LACRE, der, 0).tag = SEQUENCE /\ element(LACRE, der, 0).value = body
    BY <1>1, <1>2, ElementIsRead
  <1>4. CASE RsaKeyIn(body, n, e)
    BY <1>3, <1>4, RsaKeyIsRead DEF decode_spki
  <1>5. ASSUME NEW algorithm \in Seq(Nat), NEW bits \in Seq(Nat), NEW key \in Seq(Nat), NEW middle, NEW stop, NEW last,
               Holds(body, 0, SEQUENCE, algorithm, middle), Contains(algorithm, OID),
               Holds(body, middle, BITSTRING, bits, stop), bits # <<>>, bits[1] = 0,
               Holds(bits, 1, SEQUENCE, key, last), RsaKeyIn(key, n, e)
        PROVE  decode_spki(LACRE, der) = [n |-> n, e |-> e]
    <2>1. element(LACRE, body, 0) = [tag |-> SEQUENCE, value |-> algorithm, next |-> middle] /\ middle \in Nat
      BY <1>2, <1>5, ElementIsRead
    <2>2. element(LACRE, body, middle) = [tag |-> BITSTRING, value |-> bits, next |-> stop]
      BY <1>2, <1>5, <2>1, ElementIsRead
    <2>3. element(LACRE, bits, 1) = [tag |-> SEQUENCE, value |-> key, next |-> last]
      BY <1>2, <1>5, ElementIsRead
    <2>4. rsa_key(LACRE, key) = [n |-> n, e |-> e]
      BY <1>5, RsaKeyIsRead
    <2> QED BY <1>2, <1>3, <1>5, <2>1, <2>2, <2>3, <2>4 DEF decode_spki
  <1> QED BY <1>1, <1>4, <1>5 DEF KeyIn

\* Every RSA key is read back as it was published, by both readers: whatever its
\* modulus and exponent, and however the lengths in its record are written.
THEOREM PublishedKeyIsRead ==
    ASSUME NEW tags, tags.p \in Seq(Nat), Supported(tags),
           NEW n \in Seq(Nat), NEW e \in Seq(Nat), Publishes(tags.p, n, e)
    PROVE  /\ key_from_tags(tags) = [n |-> n, e |-> e]
           /\ public_key_from_record(tags) = [n |-> n, e |-> e]
  <1>1. decode_spki(LACRE, tags.p) = [n |-> n, e |-> e]
    BY KeyIsRead
  <1>2. decode_spki(REFERENCE, tags.p) = [n |-> n, e |-> e]
    BY <1>1, DecodersAgree
  <1> QED BY <1>1, <1>2 DEF key_from_tags, public_key_from_record

\* A value of fewer than 128 bytes after its tag and its length is held there.
LEMMA ShortElement ==
    ASSUME NEW der \in Seq(Nat), NEW at \in Nat, NEW tag, NEW value \in Seq(Nat), Len(value) < 128,
           at + 2 + Len(value) <= Len(der), der[at + 1] = tag, der[at + 2] = Len(value),
           \A i \in 1..Len(value) : der[at + 2 + i] = value[i]
    PROVE  Holds(der, at, tag, value, at + 2 + Len(value))
  <1>1. Len(value) \in Nat
    BY LenProperties
  <1> DEFINE length == <<Len(value)>>
  <1>2. length \in Seq(Nat) /\ Len(length) = 1 /\ length[1] = Len(value)
    BY <1>1
  <1>3. LengthOf(length, Len(value))
    BY DEF LengthOf
  <1> HIDE DEF length
  <1>4. at + 2 + Len(value) = at + 1 + Len(length) + Len(value) /\ at + 1 + Len(length) = at + 2 /\ at + 1 + 1 = at + 2
    BY <1>1, <1>2
  <1>5. \A i \in 1..Len(length) : der[at + 1 + i] = length[i]
    BY <1>2, <1>4
  <1>6. \A i \in 1..Len(value) : der[at + 1 + Len(length) + i] = value[i]
    BY <1>4
  <1> QED BY <1>2, <1>3, <1>4, <1>5, <1>6 DEF Holds

\* The key that AlgorithmsSpec starts from is a published one: its two integers.
LEMMA IntegersIn ==
    RsaKeyIn(<<2, 1, 65, 2, 1, 3>>, <<65>>, <<3>>)
  <1> DEFINE der == <<2, 1, 65, 2, 1, 3>>
             n == <<65>>
             e == <<3>>
  <1>1. /\ der \in Seq(Nat) /\ n \in Seq(Nat) /\ e \in Seq(Nat)
        /\ Len(n) = 1 /\ Len(e) = 1 /\ n[1] = 65 /\ e[1] = 3 /\ Len(der) = 6
        /\ der[1] = 2 /\ der[2] = 1 /\ der[3] = 65 /\ der[4] = 2 /\ der[5] = 1 /\ der[6] = 3
    OBVIOUS
  <1> HIDE DEF der, n, e
  <1>2. Holds(der, 0, 2, n, 3)
    <2>1. /\ 0 \in Nat /\ Len(n) < 128 /\ 0 + 2 + Len(n) = 3 /\ 3 <= Len(der)
          /\ der[0 + 1] = 2 /\ der[0 + 2] = Len(n)
          /\ \A i \in 1..Len(n) : der[0 + 2 + i] = n[i]
      BY <1>1
    <2>2. Holds(der, 0, 2, n, 0 + 2 + Len(n))
      BY <1>1, <2>1, ShortElement
    <2> QED BY <2>1, <2>2
  <1>3. Holds(der, 3, 2, e, 6)
    <2>1. /\ 3 \in Nat /\ Len(e) < 128 /\ 3 + 2 + Len(e) = 6 /\ 6 <= Len(der)
          /\ der[3 + 1] = 2 /\ der[3 + 2] = Len(e)
          /\ \A i \in 1..Len(e) : der[3 + 2 + i] = e[i]
      BY <1>1
    <2>2. Holds(der, 3, 2, e, 3 + 2 + Len(e))
      BY <1>1, <2>1, ShortElement
    <2> QED BY <2>1, <2>2
  <1>4. RsaKeyIn(der, n, e)
    BY <1>2, <1>3 DEF RsaKeyIn, INTEGER
  <1> QED BY <1>4 DEF der, n, e

\* The same without what says that it is an RSA key.
LEMMA BareKeyIsPublished ==
    Publishes(BareKey, <<65>>, <<3>>)
  <1> DEFINE body == <<2, 1, 65, 2, 1, 3>>
  <1>1. /\ BareKey \in Seq(Nat) /\ Len(BareKey) = 8 /\ BareKey[1] = 48 /\ BareKey[2] = 6
        /\ BareKey[3] = 2 /\ BareKey[4] = 1 /\ BareKey[5] = 65
        /\ BareKey[6] = 2 /\ BareKey[7] = 1 /\ BareKey[8] = 3
    BY DEF BareKey
  <1>2. /\ body \in Seq(Nat) /\ Len(body) = 6
        /\ body[1] = 2 /\ body[2] = 1 /\ body[3] = 65 /\ body[4] = 2 /\ body[5] = 1 /\ body[6] = 3
    OBVIOUS
  <1>3. RsaKeyIn(body, <<65>>, <<3>>)
    BY IntegersIn
  <1> HIDE DEF body
  <1>4. /\ 0 \in Nat /\ Len(body) < 128 /\ 0 + 2 + Len(body) <= Len(BareKey)
        /\ BareKey[0 + 1] = 48 /\ BareKey[0 + 2] = Len(body)
        /\ \A i \in 1..Len(body) : BareKey[0 + 2 + i] = body[i]
    BY <1>1, <1>2
  <1>5. Holds(BareKey, 0, SEQUENCE, body, 0 + 2 + Len(body))
    BY <1>1, <1>2, <1>4, ShortElement DEF SEQUENCE
  <1> QED BY <1>2, <1>3, <1>5 DEF Publishes, KeyIn

\* The bytes of the whole record.
LEMMA PublishedBytes ==
    /\ PublishedKey \in Seq(Nat) /\ Len(PublishedKey) = 20
    /\ PublishedKey[1] = 48 /\ PublishedKey[2] = 129 /\ PublishedKey[3] = 17 /\ PublishedKey[4] = 48
    /\ PublishedKey[5] = 3 /\ PublishedKey[6] = 6 /\ PublishedKey[7] = 1 /\ PublishedKey[8] = 99
    /\ PublishedKey[9] = 3 /\ PublishedKey[10] = 10 /\ PublishedKey[11] = 0 /\ PublishedKey[12] = 48
    /\ PublishedKey[13] = 6 /\ PublishedKey[14] = 2 /\ PublishedKey[15] = 1 /\ PublishedKey[16] = 65
    /\ PublishedKey[17] = 2 /\ PublishedKey[18] = 1 /\ PublishedKey[19] = 3 /\ PublishedKey[20] = 7
  <1> DEFINE head == <<48, 129, 17, 48, 3, 6, 1, OID, 3, 10, 0>>
             tail == <<7>>
  <1>1. /\ BareKey \in Seq(Nat) /\ Len(BareKey) = 8 /\ BareKey[1] = 48 /\ BareKey[2] = 6
        /\ BareKey[3] = 2 /\ BareKey[4] = 1 /\ BareKey[5] = 65
        /\ BareKey[6] = 2 /\ BareKey[7] = 1 /\ BareKey[8] = 3
    BY DEF BareKey
  <1>2. /\ head \in Seq(Nat) /\ Len(head) = 11 /\ head[1] = 48 /\ head[2] = 129 /\ head[3] = 17 /\ head[4] = 48
        /\ head[5] = 3 /\ head[6] = 6 /\ head[7] = 1 /\ head[8] = 99 /\ head[9] = 3 /\ head[10] = 10 /\ head[11] = 0
        /\ tail \in Seq(Nat) /\ Len(tail) = 1 /\ tail[1] = 7
    BY DEF OID
  <1>3. PublishedKey = head \o BareKey \o tail
    BY DEF PublishedKey
  <1> HIDE DEF head, tail
  <1>4. head \in Seq(Nat) /\ BareKey \in Seq(Nat) /\ tail \in Seq(Nat)
    BY <1>1, <1>2
  <1>5. /\ PublishedKey \in Seq(Nat)
        /\ Len(PublishedKey) = Len(head) + Len(BareKey) + Len(tail)
        /\ \A i \in 1..Len(head) : PublishedKey[i] = head[i]
        /\ \A i \in 1..Len(BareKey) : PublishedKey[Len(head) + i] = BareKey[i]
        /\ \A i \in 1..Len(tail) : PublishedKey[Len(head) + Len(BareKey) + i] = tail[i]
    BY <1>3, <1>4, Joined
  <1>6. /\ Len(PublishedKey) = 20
        /\ \A i \in 1..11 : PublishedKey[i] = head[i]
        /\ \A i \in 1..8 : PublishedKey[11 + i] = BareKey[i]
        /\ \A i \in 1..1 : PublishedKey[19 + i] = tail[i]
    BY <1>1, <1>2, <1>5
  <1>7. /\ PublishedKey[11 + 1] = 48 /\ PublishedKey[11 + 2] = 6 /\ PublishedKey[11 + 3] = 2 /\ PublishedKey[11 + 4] = 1
        /\ PublishedKey[11 + 5] = 65 /\ PublishedKey[11 + 6] = 2 /\ PublishedKey[11 + 7] = 1 /\ PublishedKey[11 + 8] = 3
        /\ PublishedKey[19 + 1] = 7
    BY <1>1, <1>2, <1>6
  <1>8. /\ PublishedKey[1] = 48 /\ PublishedKey[2] = 129 /\ PublishedKey[3] = 17 /\ PublishedKey[4] = 48
        /\ PublishedKey[5] = 3 /\ PublishedKey[6] = 6 /\ PublishedKey[7] = 1 /\ PublishedKey[8] = 99
        /\ PublishedKey[9] = 3 /\ PublishedKey[10] = 10 /\ PublishedKey[11] = 0
    BY <1>2, <1>6
  <1>9. /\ 11 + 1 = 12 /\ 11 + 2 = 13 /\ 11 + 3 = 14 /\ 11 + 4 = 15 /\ 11 + 5 = 16 /\ 11 + 6 = 17
        /\ 11 + 7 = 18 /\ 11 + 8 = 19 /\ 19 + 1 = 20
    OBVIOUS
  <1>10. PublishedKey \in Seq(Nat) /\ Len(PublishedKey) = 20
    BY <1>5, <1>6
  <1> QED BY <1>7, <1>8, <1>9, <1>10

\* And with it, its first length written in two bytes.
LEMMA PublishedKeyIsPublished ==
    Publishes(PublishedKey, <<65>>, <<3>>)
  <1> DEFINE body == <<48, 3, 6, 1, 99, 3, 10, 0, 48, 6, 2, 1, 65, 2, 1, 3, 7>>
             algorithm == <<6, 1, 99>>
             bits == <<0, 48, 6, 2, 1, 65, 2, 1, 3, 7>>
             key == <<2, 1, 65, 2, 1, 3>>
             length == <<129, 17>>
             digits == <<17>>
  <1>2. PublishedKey \in Seq(Nat) /\ Len(PublishedKey) = 20
    BY PublishedBytes
  <1>3. /\ PublishedKey[1] = 48 /\ PublishedKey[2] = 129 /\ PublishedKey[3] = 17
        /\ \A i \in 1..17 : PublishedKey[3 + i] = body[i]
    BY PublishedBytes
  <1>4. /\ body \in Seq(Nat) /\ Len(body) = 17 /\ body[1] = 48 /\ body[2] = 3 /\ body[6] = 3 /\ body[7] = 10
        /\ \A i \in 1..3 : body[2 + i] = algorithm[i]
        /\ \A i \in 1..10 : body[7 + i] = bits[i]
    OBVIOUS
  <1>5. /\ algorithm \in Seq(Nat) /\ Len(algorithm) = 3 /\ algorithm[3] = 99
        /\ bits \in Seq(Nat) /\ Len(bits) = 10 /\ bits[1] = 0 /\ bits[2] = 48 /\ bits[3] = 6
        /\ \A i \in 1..6 : bits[3 + i] = key[i]
    OBVIOUS
  <1>6. key \in Seq(Nat) /\ Len(key) = 6
    OBVIOUS
  <1>7. RsaKeyIn(key, <<65>>, <<3>>)
    BY IntegersIn
  <1>8. /\ length \in Seq(Nat) /\ Len(length) = 2 /\ length[1] = 129 /\ length[2] = 17
        /\ digits \in Seq(Nat) /\ Len(digits) = 1 /\ digits[1] = 17
        /\ length = <<128 + 1>> \o digits
    OBVIOUS
  <1> HIDE DEF body, algorithm, bits, key, length, digits
  <1>9. Holds(PublishedKey, 0, SEQUENCE, body, 20)
    <2>1. LengthOf(length, Len(body))
      <3>1. FromBytes(digits) = 17
        BY <1>8, FromBytesIs
      <3>2. length = <<128 + Len(digits)>> \o digits /\ Len(digits) \in 1..4
        BY <1>8
      <3> QED BY <1>4, <1>8, <3>1, <3>2 DEF LengthOf
    <2>2. 20 = 0 + 1 + Len(length) + Len(body) /\ 20 <= Len(PublishedKey)
      BY <1>2, <1>4, <1>8
    <2>3. \A i \in 1..Len(length) : PublishedKey[0 + 1 + i] = length[i]
      BY <1>3, <1>8
    <2>4. \A i \in 1..Len(body) : PublishedKey[0 + 1 + Len(length) + i] = body[i]
      <3>1. 0 + 1 + Len(length) = 3
        BY <1>8
      <3> QED BY <1>3, <1>4, <3>1
    <2>5. PublishedKey[0 + 1] = SEQUENCE
      BY <1>3 DEF SEQUENCE
    <2> QED BY <1>8, <2>1, <2>2, <2>3, <2>4, <2>5 DEF Holds
  <1>10. Holds(body, 0, SEQUENCE, algorithm, 5) /\ Contains(algorithm, OID)
    <2>1. /\ 0 \in Nat /\ Len(algorithm) < 128 /\ 0 + 2 + Len(algorithm) = 5 /\ 5 <= Len(body)
          /\ body[0 + 1] = SEQUENCE /\ body[0 + 2] = Len(algorithm)
          /\ \A i \in 1..Len(algorithm) : body[0 + 2 + i] = algorithm[i]
      BY <1>4, <1>5 DEF SEQUENCE
    <2>2. Holds(body, 0, SEQUENCE, algorithm, 0 + 2 + Len(algorithm))
      <3>1. body \in Seq(Nat) /\ algorithm \in Seq(Nat)
        BY <1>4, <1>5
      <3> QED BY <2>1, <3>1, ShortElement
    <2>3. Contains(algorithm, OID)
      BY <1>5 DEF Contains, OID
    <2> QED BY <2>1, <2>2, <2>3
  <1>11. Holds(body, 5, BITSTRING, bits, 17)
    <2>1. /\ 5 \in Nat /\ Len(bits) < 128 /\ 5 + 2 + Len(bits) = 17 /\ 17 <= Len(body)
          /\ body[5 + 1] = BITSTRING /\ body[5 + 2] = Len(bits)
          /\ \A i \in 1..Len(bits) : body[5 + 2 + i] = bits[i]
      BY <1>4, <1>5 DEF BITSTRING
    <2>2. Holds(body, 5, BITSTRING, bits, 5 + 2 + Len(bits))
      <3>1. body \in Seq(Nat) /\ bits \in Seq(Nat)
        BY <1>4, <1>5
      <3> QED BY <2>1, <3>1, ShortElement
    <2> QED BY <2>1, <2>2
  <1>12. Holds(bits, 1, SEQUENCE, key, 9)
    <2>1. /\ 1 \in Nat /\ Len(key) < 128 /\ 1 + 2 + Len(key) = 9 /\ 9 <= Len(bits)
          /\ bits[1 + 1] = SEQUENCE /\ bits[1 + 2] = Len(key)
          /\ \A i \in 1..Len(key) : bits[1 + 2 + i] = key[i]
      BY <1>5, <1>6 DEF SEQUENCE
    <2>2. Holds(bits, 1, SEQUENCE, key, 1 + 2 + Len(key))
      <3>1. bits \in Seq(Nat) /\ key \in Seq(Nat)
        BY <1>5, <1>6
      <3> QED BY <2>1, <3>1, ShortElement
    <2> QED BY <2>1, <2>2
  <1>13. bits # <<>> /\ bits[1] = 0
    BY <1>5
  <1>14. \E a \in Seq(Nat), b \in Seq(Nat), k \in Seq(Nat) : \E middle, stop, last :
             /\ Holds(body, 0, SEQUENCE, a, middle) /\ Contains(a, OID)
             /\ Holds(body, middle, BITSTRING, b, stop) /\ b # <<>> /\ b[1] = 0
             /\ Holds(b, 1, SEQUENCE, k, last)
             /\ RsaKeyIn(k, <<65>>, <<3>>)
    BY <1>5, <1>6, <1>7, <1>10, <1>11, <1>12, <1>13
  <1>15. KeyIn(body, <<65>>, <<3>>)
    BY <1>14 DEF KeyIn
  <1> QED BY <1>4, <1>9, <1>15 DEF Publishes

\* KeyReadersAgree holds of every sequence of bytes.
LEMMA BytesAreReadAlike ==
    ASSUME input \in Seq(Nat), kind = "key" /\ beside = 0 => input \in {BareKey, PublishedKey}
    PROVE  KeyReadersAgree
  <1> DEFINE tags == [v |-> "DKIM1", k |-> "", p |-> input]
  <1>1. tags.p = input /\ (input # <<>> => Supported(tags)) /\ (input = <<>> => ~Supported(tags))
    BY DEF Supported
  <1>2. key_from_tags(tags) = public_key_from_record(tags)
    BY <1>1, DecodersAgree DEF key_from_tags, public_key_from_record
  <1>3. ASSUME kind = "key", beside = 0
        PROVE  key_from_tags(tags) = [n |-> <<65>>, e |-> <<3>>]
    <2>1. input # <<>>
      <3>1. BareKey # <<>>
        BY DEF BareKey
      <3>2. PublishedKey # <<>>
        BY DEF PublishedKey, BareKey
      <3> QED BY <1>3, <3>1, <3>2
    <2>2. <<65>> \in Seq(Nat) /\ <<3>> \in Seq(Nat)
      OBVIOUS
    <2>3. Publishes(input, <<65>>, <<3>>)
      BY <1>3, BareKeyIsPublished, PublishedKeyIsPublished
    <2>4. decode_spki(LACRE, input) = [n |-> <<65>>, e |-> <<3>>]
      BY <2>2, <2>3, KeyIsRead
    <2> QED BY <1>1, <2>1, <2>4 DEF key_from_tags
  <1> QED BY <1>2, <1>3 DEF KeyReadersAgree

-----------------------------------------------------------------------------
(* Dates.                                                                    *)

\* A year is one day longer when it is a leap year.
LEMMA LeapYearsBefore ==
    ASSUME NEW y \in Nat, y >= 1970
    PROVE  /\ IsFiniteSet(LeapYears(y))
           /\ Cardinality(LeapYears(y)) = ((y - 1) \div 4) - ((y - 1) \div 100) + ((y - 1) \div 400) - 477
  <1> DEFINE Counted(k) == /\ IsFiniteSet(LeapYears(k))
                           /\ Cardinality(LeapYears(k)) = ((k - 1) \div 4) - ((k - 1) \div 100) + ((k - 1) \div 400) - 477
             T == {k \in Nat : k >= 1970 /\ ~Counted(k)}
  <1> SUFFICES ASSUME T # {} PROVE FALSE
    OBVIOUS
  <1>1. T \in SUBSET Nat
    OBVIOUS
  <1>2. PICK k \in T : \A j \in T : k <= j
    <2> HIDE DEF T
    <2> QED BY <1>1, Least
  <1>3. k \in Nat /\ k >= 1970 /\ ~Counted(k)
    BY <1>2
  <1>4. CASE k = 1970
    <2>1. LeapYears(k) = {}
      BY <1>4 DEF LeapYears
    <2>2. (1969 \div 4) - (1969 \div 100) + (1969 \div 400) - 477 = 0 /\ k - 1 = 1969
      BY <1>4
    <2>3. Counted(k)
      BY <2>1, <2>2, FS_EmptySet
    <2> QED BY <1>3, <2>3
  <1>5. CASE k > 1970
    <2> DEFINE p == k - 1
               Longer == (p % 4 = 0 /\ p % 100 # 0) \/ p % 400 = 0
    <2>1. p \in Nat /\ p >= 1970 /\ p < k
      BY <1>3, <1>5
    <2>2. p \notin T
      BY <1>2, <2>1
    <2>3. Counted(p)
      BY <2>1, <2>2
    <2>4. p \notin LeapYears(p)
      BY <2>1 DEF LeapYears
    <2>5. LeapYears(k) = IF Longer THEN LeapYears(p) \cup {p} ELSE LeapYears(p)
      <3>1. 1970..k - 1 = (1970..p - 1) \cup {p}
        BY <1>3, <2>1
      <3> HIDE DEF p
      <3> QED BY <3>1 DEF LeapYears
    <2>6. /\ IsFiniteSet(LeapYears(k))
          /\ Cardinality(LeapYears(k)) = Cardinality(LeapYears(p)) + IF Longer THEN 1 ELSE 0
      <3>1. CASE Longer
        BY <2>3, <2>4, <2>5, <3>1, FS_AddElement
      <3>2. CASE ~Longer
        <4>1. Cardinality(LeapYears(p)) \in Nat
          BY <2>3, FS_CardinalityType
        <4> QED BY <2>3, <2>5, <3>2, <4>1
      <3> QED BY <3>1, <3>2
    <2>7. (p \div 4) - (p \div 100) + (p \div 400) - 477
            = ((p - 1) \div 4) - ((p - 1) \div 100) + ((p - 1) \div 400) - 477 + IF Longer THEN 1 ELSE 0
      <3>1. (p \div 4) = ((p - 1) \div 4) + IF p % 4 = 0 THEN 1 ELSE 0
        BY <2>1
      <3>2. (p \div 100) = ((p - 1) \div 100) + IF p % 100 = 0 THEN 1 ELSE 0
        BY <2>1
      <3>3. (p \div 400) = ((p - 1) \div 400) + IF p % 400 = 0 THEN 1 ELSE 0
        BY <2>1
      <3>4. (p % 400 = 0 => p % 100 = 0) /\ (p % 100 = 0 => p % 4 = 0)
        BY <2>1
      <3>5. /\ ((p - 1) \div 4) \in Int /\ ((p - 1) \div 100) \in Int /\ ((p - 1) \div 400) \in Int
        BY <2>1
      <3> QED BY <3>1, <3>2, <3>3, <3>4, <3>5
    <2>8. Counted(k)
      BY <2>3, <2>6, <2>7
    <2> QED BY <1>3, <2>8
  <1> QED BY <1>3, <1>4, <1>5

\* A year of the calendar has a leap day when the rule of iso_date says so, and
\* then unix_time counts one.
LEMMA FebruaryEnds ==
    ASSUME NEW y \in Nat, y >= 1970
    PROVE  /\ y \in LeapYears(y + 1) <=> Leap(y)
           /\ (y \div 4) - ((y - 1) \div 4) - (y \div 100) + ((y - 1) \div 100) + (y \div 400) - ((y - 1) \div 400)
                = IF Leap(y) THEN 1 ELSE 0
  <1>1. y \in LeapYears(y + 1) <=> Leap(y)
    <2>1. (y % 400 = 0 => y % 4 = 0)
      OBVIOUS
    <2>2. y \in 1970..(y + 1) - 1
      OBVIOUS
    <2> QED BY <2>1, <2>2 DEF LeapYears, Leap
  <1>2. (y \div 4) = ((y - 1) \div 4) + IF y % 4 = 0 THEN 1 ELSE 0
    OBVIOUS
  <1>3. (y \div 100) = ((y - 1) \div 100) + IF y % 100 = 0 THEN 1 ELSE 0
    OBVIOUS
  <1>4. (y \div 400) = ((y - 1) \div 400) + IF y % 400 = 0 THEN 1 ELSE 0
    OBVIOUS
  <1>5. (y % 400 = 0 => y % 100 = 0) /\ (y % 100 = 0 => y % 4 = 0)
    OBVIOUS
  <1>6. ((y - 1) \div 4) \in Int /\ ((y - 1) \div 100) \in Int /\ ((y - 1) \div 400) \in Int
    OBVIOUS
  <1> QED BY <1>1, <1>2, <1>3, <1>4, <1>5, <1>6 DEF Leap

\* The months are as long for iso_date as they are in the calendar.
LEMMA Months ==
    ASSUME NEW y \in Nat, y >= 1970
    PROVE  \A m \in 1..12 : MonthDays(y)[m] = DaysIn(y, m) /\ DaysIn(y, m) \in 28..31
  <1>1. y \in LeapYears(y + 1) <=> Leap(y)
    BY FebruaryEnds
  <1> TAKE m \in 1..12
  <1> DEFINE february == IF Leap(y) THEN 29 ELSE 28
  <1>2. MonthDays(y) = <<31, february, 31, 30, 31, 30, 31, 31, 30, 31, 30, 31>>
    BY <1>1 DEF MonthDays
  <1>3. february \in 28..29
    OBVIOUS
  <1>4. DaysIn(y, 2) = february
    BY DEF DaysIn
  <1> HIDE DEF february
  <1>5. \A k \in 1..12 : k # 2 => DaysIn(y, k) = 30 + ((k + (k \div 8)) % 2)
    BY DEF DaysIn
  <1>6. m = 1 \/ m = 2 \/ m = 3 \/ m = 4 \/ m = 5 \/ m = 6 \/ m = 7 \/ m = 8 \/ m = 9 \/ m = 10 \/ m = 11 \/ m = 12
    OBVIOUS
  <1> QED BY <1>2, <1>3, <1>4, <1>5, <1>6

\* unix_time counts the first of January as the calendar does.
LEMMA NewYear ==
    ASSUME NEW y \in Nat, y >= 1970
    PROVE  days_since_1970(y, 1, 1) = DaysBefore(y)
  <1>1. Cardinality(LeapYears(y)) = ((y - 1) \div 4) - ((y - 1) \div 100) + ((y - 1) \div 400) - 477
    BY LeapYearsBefore
  <1>2. /\ ((y - 1) \div 4) \in Int /\ ((y - 1) \div 100) \in Int /\ ((y - 1) \div 400) \in Int
        /\ ((153 * ((1 + 9) % 12) + 2) \div 5) = 306
    OBVIOUS
  <1>3. FebruaryLast(y, 1) = y - 1
    BY DEF FebruaryLast
  <1> QED BY <1>1, <1>2, <1>3 DEF days_since_1970, DaysBefore

\* It counts one more the day after.
LEMMA NextDayCounts ==
    ASSUME NEW y \in Nat, NEW m \in 1..12, NEW d \in Nat
    PROVE  days_since_1970(y, m, d + 1) = days_since_1970(y, m, d) + 1
  <1> DEFINE last == FebruaryLast(y, m)
             past == 365 * last + (last \div 4) - (last \div 100) + (last \div 400) + ((153 * ((m + 9) % 12) + 2) \div 5)
  <1>1. last \in Int
    BY DEF FebruaryLast
  <1>2. past \in Int
    BY <1>1
  <1>3. \A k \in Nat : days_since_1970(y, m, k) = past + k - 719469
    BY DEF days_since_1970
  <1> HIDE DEF past
  <1> QED BY <1>2, <1>3

\* And on the first of the next month.
LEMMA NextMonthCounts ==
    ASSUME NEW y \in Nat, NEW m \in 1..12, y >= 1970, m < 12
    PROVE  days_since_1970(y, m + 1, 1) = days_since_1970(y, m, MonthDays(y)[m]) + 1
  <1> DEFINE last == FebruaryLast(y, m)
             past == 365 * last + (last \div 4) - (last \div 100) + (last \div 400) + ((153 * ((m + 9) % 12) + 2) \div 5)
             upto(k) == (153 * ((k + 9) % 12) + 2) \div 5
  <1>1. last \in Int
    BY DEF FebruaryLast
  <1>2. \A k \in Nat : days_since_1970(y, m, k) = past + k - 719469
    BY DEF days_since_1970
  <1> HIDE DEF past
  <1>3. MonthDays(y)[m] = DaysIn(y, m) /\ DaysIn(y, m) \in Nat
    BY Months
  <1>4. /\ upto(1) = 306 /\ upto(2) = 337 /\ upto(3) = 0 /\ upto(4) = 31 /\ upto(5) = 61 /\ upto(6) = 92
        /\ upto(7) = 122 /\ upto(8) = 153 /\ upto(9) = 184 /\ upto(10) = 214 /\ upto(11) = 245 /\ upto(12) = 275
    OBVIOUS
  <1>5. /\ DaysIn(y, 1) = 31 /\ DaysIn(y, 3) = 31 /\ DaysIn(y, 4) = 30 /\ DaysIn(y, 5) = 31 /\ DaysIn(y, 6) = 30
        /\ DaysIn(y, 7) = 31 /\ DaysIn(y, 8) = 31 /\ DaysIn(y, 9) = 30 /\ DaysIn(y, 10) = 31 /\ DaysIn(y, 11) = 30
        /\ DaysIn(y, 2) = IF Leap(y) THEN 29 ELSE 28
    BY DEF DaysIn
  <1> HIDE DEF upto
  <1>6. CASE m # 2
    <2>1. FebruaryLast(y, m + 1) = last
      BY <1>6 DEF FebruaryLast
    <2>2. upto(m + 1) = upto(m) + DaysIn(y, m)
      <3>1. m = 1 \/ m = 3 \/ m = 4 \/ m = 5 \/ m = 6 \/ m = 7 \/ m = 8 \/ m = 9 \/ m = 10 \/ m = 11
        BY <1>6
      <3> QED BY <1>4, <1>5, <3>1
    <2>3. past = 365 * last + (last \div 4) - (last \div 100) + (last \div 400) + upto(m)
      BY DEF past, upto
    <2>4. days_since_1970(y, m + 1, 1)
            = 365 * last + (last \div 4) - (last \div 100) + (last \div 400) + upto(m + 1) + 1 - 719469
      BY <2>1 DEF days_since_1970, upto
    <2>5. upto(m) \in Int
      BY DEF upto
    <2> HIDE DEF last
    <2>6. (last \div 4) \in Int /\ (last \div 100) \in Int /\ (last \div 400) \in Int
      BY <1>1
    <2> QED BY <1>1, <1>2, <1>3, <2>2, <2>3, <2>4, <2>5, <2>6
  <1>7. CASE m = 2
    <2>1. FebruaryLast(y, 3) = y /\ FebruaryLast(y, 2) = y - 1
      BY DEF FebruaryLast
    <2>2. days_since_1970(y, 3, 1) = 365 * y + (y \div 4) - (y \div 100) + (y \div 400) + 0 + 1 - 719469
      BY <1>4, <2>1 DEF days_since_1970, upto
    <2>3. days_since_1970(y, 2, DaysIn(y, 2))
            = 365 * (y - 1) + ((y - 1) \div 4) - ((y - 1) \div 100) + ((y - 1) \div 400) + 337 + DaysIn(y, 2) - 719469
      BY <1>4, <2>1 DEF days_since_1970, upto
    <2>4. /\ (y \div 4) \in Int /\ (y \div 100) \in Int /\ (y \div 400) \in Int
          /\ ((y - 1) \div 4) \in Int /\ ((y - 1) \div 100) \in Int /\ ((y - 1) \div 400) \in Int
      OBVIOUS
    <2>5. (y \div 4) - ((y - 1) \div 4) - (y \div 100) + ((y - 1) \div 100) + (y \div 400) - ((y - 1) \div 400)
            = IF Leap(y) THEN 1 ELSE 0
      BY FebruaryEnds
    <2> QED BY <1>3, <1>5, <1>7, <2>2, <2>3, <2>4, <2>5
  <1> QED BY <1>6, <1>7

\* iso_date keeps the days there are.
LEMMA DatesThereAre ==
    ASSUME NEW y \in Nat, NEW m \in Nat, NEW d \in Nat, y >= 1970
    PROVE  (iso_date(y, m, d) # NO_DATE) <=> (m \in 1..12 /\ d \in 1..MonthDays(y)[m])
  <1>1. <<y, m, d>> # <<>>
    OBVIOUS
  <1>2. m \in 1..12 => MonthDays(y)[m] = DaysIn(y, m) /\ DaysIn(y, m) \in Nat
    BY Months
  <1> QED BY <1>1, <1>2 DEF iso_date, NO_DATE

\* A date of the calendar, with the days that unix_time counts to it.
DateIsCounted ==
    /\ beside \in [y : Nat, m : 1..12, d : Nat \ {0}, days : Int]
    /\ beside.y >= 1970 /\ beside.d <= MonthDays(beside.y)[beside.m]
    /\ beside.days = days_since_1970(beside.y, beside.m, beside.d)

\* DatesAreCivil holds of every date that is counted like that.
LEMMA CountedDatesAreCivil ==
    ASSUME kind = "date" => DateIsCounted
    PROVE  DatesAreCivil
  <1> SUFFICES ASSUME kind = "date" PROVE DatesAreCivil
    BY DEF DatesAreCivil
  <1>1. /\ beside.y \in Nat /\ beside.y >= 1970 /\ beside.m \in 1..12 /\ beside.d \in Nat
        /\ beside.days = days_since_1970(beside.y, beside.m, beside.d)
    BY DEF DateIsCounted
  <1>2. beside.days \in Int
    BY DEF DateIsCounted
  <1>3. unix_time(beside.y, beside.m, beside.d, 21, 0, 7, [sign |-> -1, hours |-> 3, minutes |-> 30])
          = (beside.days + 1) * 86400 + 1807
    BY <1>1, <1>2 DEF unix_time
  <1>4. \A m \in 0..13, d \in 0..32 :
             (iso_date(beside.y, m, d) # NO_DATE) <=> (m \in 1..12 /\ d \in 1..MonthDays(beside.y)[m])
    BY <1>1, DatesThereAre
  <1> QED BY <1>1, <1>3, <1>4 DEF DatesAreCivil

-----------------------------------------------------------------------------
(* The refusals of a call.                                                   *)

\* RefusalsAgree holds of every situation.
LEMMA SituationsAreForetold ==
    ASSUME beside \in Situations
    PROVE  RefusalsAgree
  <1> DEFINE s == beside
  <1>1. CASE s.of = "attest"
    <2>1. s \in [of : {"attest"}, method : {"attest", "attest_inline"}, payload : {"allowed", "not https", "too long"},
               paid : BOOLEAN, named : BOOLEAN, router : {UNREADABLE, NOTHING, CONTRACT}, key : KeyAnswers, amiss : Amiss]
      BY <1>1 DEF Situations
    <2>2. s.key.view \in {UNREADABLE, NO_DICT, CONTRACT}
      <3>1. s.key \in KeyAnswers
        BY <2>1
      <3>2. \A k \in KeyAnswers : k.view \in {UNREADABLE, NO_DICT, CONTRACT}
        <4>1. \A k \in [view : {UNREADABLE, NO_DICT}, state : {""}, modulus : {""}] : k.view \in {UNREADABLE, NO_DICT}
          OBVIOUS
        <4> DEFINE States == {"", "active"} \cup NamedStates
                   Moduli == {"good", "too small", "not hex"}
                   Told == {key_status(state, modulus) : state \in States, modulus \in Moduli}
        <4>2. \A state, modulus : key_status(state, modulus).view = CONTRACT
          BY DEF key_status
        <4>3. \A k \in Told : k.view = CONTRACT
          <5> HIDE DEF States, Moduli
          <5> TAKE k \in Told
          <5>1. PICK state \in States, modulus \in Moduli : k = key_status(state, modulus)
            OBVIOUS
          <5> QED BY <4>2, <5>1
        <4>4. KeyAnswers = [view : {UNREADABLE, NO_DICT}, state : {""}, modulus : {""}] \cup Told
          BY DEF KeyAnswers
        <4> HIDE DEF Told
        <4> QED BY <4>1, <4>3, <4>4
      <3> QED BY <3>1, <3>2
    <2>3. predict_attest(s) # STOP => predict_attest(s) = attest_refusal(s)
      BY <2>1, <2>2 DEF predict_attest, attest_refusal, cached_key, key_refusal, resolve, must_read, KeyIs, STOP, UNREADABLE, NOTHING, CONTRACT, NO_DICT, NamedStates
    <2>4. predict_attest(s) = STOP => s.amiss # {} \/ s.router = UNREADABLE \/ s.key.view = UNREADABLE
      BY <2>1, <2>2 DEF predict_attest, attest_refusal, cached_key, key_refusal, resolve, must_read, KeyIs, STOP, UNREADABLE, NOTHING, CONTRACT, NO_DICT, NamedStates
    <2> QED BY <1>1, <2>3, <2>4 DEF RefusalsAgree
  <1>2. CASE s.of = "extract"
    <2>1. s \in [of : {"extract"}, lane : {"patterns", "llm"}, paid : BOOLEAN, router : {UNREADABLE, NOTHING, CONTRACT},
          record : RecordAnswers, patterns : BOOLEAN, url : {"allowed", "not allowed"}, amiss : Amiss]
      BY <1>2 DEF Situations
    <2> DEFINE refused == IF s.lane = "patterns" THEN extract_refusal(s) ELSE extract_llm_refusal(s)
    <2>2. predict_extract(s) \notin {STOP, refused} =>
             /\ predict_extract(s) = "verifier unreadable" /\ s.record.view \in {NO_FIELDS, PAIRS}
             /\ s.record.view = NO_FIELDS => refused = "record not found"
      <3>1. s.record.view \in {UNREADABLE, NO_DICT, NO_FIELDS, PAIRS, CONTRACT}
        BY <2>1 DEF RecordAnswers
      <3>2. CASE s.record.view \in {NO_FIELDS, PAIRS}
        BY <2>1, <3>2 DEF predict_extract, extract_refusal, extract_llm_refusal, verified, resolve_extractor, must_read, STOP, UNREADABLE, NOTHING, CONTRACT, NO_DICT, NO_FIELDS, PAIRS
      <3>3. CASE s.record.view \in {UNREADABLE, NO_DICT, CONTRACT}
        BY <2>1, <3>3 DEF predict_extract, extract_refusal, extract_llm_refusal, verified, resolve_extractor, must_read, STOP, UNREADABLE, NOTHING, CONTRACT, NO_DICT, NO_FIELDS, PAIRS
      <3> QED BY <3>1, <3>2, <3>3
    <2>3. predict_extract(s) = STOP => s.amiss # {} \/ s.router = UNREADABLE \/ s.record.view = UNREADABLE
      BY <2>1 DEF RecordAnswers, predict_extract, extract_refusal, extract_llm_refusal, verified, resolve_extractor, must_read, STOP, UNREADABLE, NOTHING, CONTRACT, NO_DICT, NO_FIELDS, PAIRS
    <2>4. s.patterns => extract_refusal(s) = extract_llm_refusal(s)
      BY <2>1 DEF RecordAnswers, extract_refusal, extract_llm_refusal
    <2> QED BY <1>2, <2>2, <2>3, <2>4 DEF RefusalsAgree
  <1>3. s.of \in {"attest", "extract"}
    BY DEF Situations
  <1> QED BY <1>1, <1>2, <1>3

-----------------------------------------------------------------------------
(* Comments.                                                                 *)

\* The first of some places is one of them.
LEMMA EarliestIs ==
    ASSUME NEW T \in SUBSET Nat, T # {}
    PROVE  Earliest(T) \in T /\ \A i \in T : Earliest(T) <= i
  BY Least DEF Earliest

\* Where an opener is, and what it hides.
LEMMA OpenersAre ==
    ASSUME NEW S, NEW text \in Seq(S)
    PROVE  /\ Openers(text) \in SUBSET Nat
           /\ \A k \in Openers(text) : /\ k \in 1..Len(text) - 2
                                       /\ Behind(text, k) \in k + 3..Len(text) + 1
  <1>1. Len(text) \in Nat
    BY LenProperties
  <1>2. \A k \in Openers(text) : k \in 1..Len(text) - 2 /\ k \in Nat
    BY <1>1 DEF Openers
  <1>3. ASSUME NEW k \in Openers(text)
        PROVE  Behind(text, k) \in k + 3..Len(text) + 1
    <2> DEFINE closers == {j \in k + 2..Len(text) - 1 : text[j] = DASHES /\ text[j + 1] = ">"}
    <2>1. k \in Nat /\ k <= Len(text) - 2
      BY <1>1, <1>2
    <2>2. closers \in SUBSET Nat /\ \A j \in closers : j >= k + 2 /\ j <= Len(text) - 1
      BY <1>1, <2>1
    <2>3. Behind(text, k) = IF closers = {} THEN Len(text) + 1 ELSE Earliest(closers) + 2
      BY DEF Behind
    <2>4. text[k + 2] = DASHES
      BY DEF Openers
    <2> HIDE DEF closers
    <2>5. CASE closers = {}
      BY <1>1, <2>1, <2>3, <2>5
    <2>6. CASE closers # {}
      <3>1. Earliest(closers) \in closers
        BY <2>2, <2>6, EarliestIs
      <3>2. PICK e \in Nat : e = Earliest(closers) /\ e >= k + 2 /\ e <= Len(text) - 1
        BY <2>2, <3>1
      <3>3. Behind(text, k) = e + 2
        BY <2>3, <2>6, <3>2
      <3> QED BY <1>1, <2>1, <3>2, <3>3
    <2> QED BY <2>5, <2>6
  <1> QED BY <1>2, <1>3

\* What is left of a text from a place on, given what is left behind it.
Left(text, f, i) ==
    LET openers == {k \in Openers(text) : k >= i} IN
    IF openers = {} THEN SubSeq(text, i, Len(text))
    ELSE SubSeq(text, i, Earliest(openers) - 1) \o f[Behind(text, Earliest(openers))]

\* The function that drops the comments of a text, from a place on.
IsLeft(f, text, m) == f = [i \in m..Len(text) + 1 |-> Left(text, f, i)]

\* Where the next comment starts, and that it ends further on.
LEMMA NextComment ==
    ASSUME NEW S, NEW text \in Seq(S), NEW i \in 1..Len(text) + 1,
           {k \in Openers(text) : k >= i} # {}
    PROVE  LET start == Earliest({k \in Openers(text) : k >= i}) IN
           /\ start \in Openers(text)
           /\ start \in i..Len(text) - 2
           /\ Behind(text, start) \in start + 3..Len(text) + 1
  <1> DEFINE openers == {k \in Openers(text) : k >= i}
  <1>1. openers \in SUBSET Nat
    BY OpenersAre
  <1> HIDE DEF openers
  <1>2. Earliest(openers) \in openers
    BY <1>1, EarliestIs DEF openers
  <1>3. Earliest(openers) \in Openers(text) /\ Earliest(openers) >= i
    BY <1>2 DEF openers
  <1>4. /\ Earliest(openers) \in 1..Len(text) - 2
        /\ Behind(text, Earliest(openers)) \in Earliest(openers) + 3..Len(text) + 1
    BY <1>3, OpenersAre
  <1>5. Len(text) \in Nat
    BY LenProperties
  <1>6. Earliest(openers) \in i..Len(text) - 2
    BY <1>3, <1>4, <1>5
  <1> QED BY <1>3, <1>4, <1>6 DEF openers

\* There is such a function, from any place on.
LEMMA LeftOf ==
    ASSUME NEW S, NEW text \in Seq(S)
    PROVE  \A d \in 0..Len(text) : \E f : IsLeft(f, text, Len(text) + 1 - d)
  <1> DEFINE n == Len(text)
             T == {d \in 0..n : ~\E f : IsLeft(f, text, n + 1 - d)}
  <1>1. n \in Nat
    BY LenProperties
  <1> SUFFICES ASSUME T # {} PROVE FALSE
    OBVIOUS
  <1>2. T \in SUBSET Nat
    BY <1>1
  <1> HIDE DEF T
  <1>3. PICK d \in T : \A e \in T : d <= e
    BY <1>2, Least
  <1>4. d \in Nat /\ d <= n /\ ~\E f : IsLeft(f, text, n + 1 - d)
    BY <1>1, <1>3 DEF T
  <1>5. PICK m \in Nat : m = n + 1 - d /\ m >= 1 /\ m <= n + 1
    BY <1>1, <1>4
  <1>6. \A i \in 1..n + 1 : {k \in Openers(text) : k >= i} # {} =>
          Behind(text, Earliest({k \in Openers(text) : k >= i})) \in i + 1..n + 1
    <2> TAKE i \in 1..n + 1
    <2> HAVE {k \in Openers(text) : k >= i} # {}
    <2>1. PICK start \in i..n - 2 :
            start = Earliest({k \in Openers(text) : k >= i}) /\ Behind(text, start) \in start + 3..n + 1
      BY NextComment
    <2> QED BY <1>1, <2>1
  <1>7. PICK g : m <= n => IsLeft(g, text, m + 1)
    <2>1. CASE d = 0
      BY <1>1, <1>5, <2>1
    <2>2. CASE d # 0
      <3>1. d - 1 \in Nat /\ d - 1 \notin T
        BY <1>2, <1>3, <1>4, <2>2
      <3>2. d - 1 \in 0..n /\ n + 1 - (d - 1) = m + 1
        BY <1>1, <1>4, <1>5, <2>2, <3>1
      <3>3. \E f : IsLeft(f, text, n + 1 - (d - 1))
        BY <3>1, <3>2 DEF T
      <3> QED BY <3>2, <3>3
    <2> QED BY <2>1, <2>2
  <1> DEFINE f == [i \in m..n + 1 |-> IF i = m THEN Left(text, g, m) ELSE g[i]]
  <1>8. \A i \in m + 1..n + 1 : g[i] = Left(text, g, i) /\ f[i] = g[i]
    <2> TAKE i \in m + 1..n + 1
    <2>1. m <= n /\ i # m /\ i \in m..n + 1
      BY <1>1, <1>5
    <2>2. g = [j \in m + 1..n + 1 |-> Left(text, g, j)]
      BY <1>7, <2>1 DEF IsLeft
    <2>3. g[i] = Left(text, g, i)
      BY <2>2
    <2> QED BY <2>1, <2>3
  <1>9. \A i \in m..n + 1 : Left(text, f, i) = Left(text, g, i)
    <2> TAKE i \in m..n + 1
    <2>1. i \in 1..n + 1 /\ \A j \in i + 1..n + 1 : j \in m + 1..n + 1
      BY <1>1, <1>5
    <2> HIDE DEF f
    <2>2. {k \in Openers(text) : k >= i} # {} =>
            f[Behind(text, Earliest({k \in Openers(text) : k >= i}))]
              = g[Behind(text, Earliest({k \in Openers(text) : k >= i}))]
      BY <1>6, <1>8, <2>1
    <2> QED BY <2>2 DEF Left
  <1>10. \A i \in m..n + 1 : f[i] = Left(text, f, i)
    <2> TAKE i \in m..n + 1
    <2>1. CASE i = m
      <3>1. f[i] = Left(text, g, i)
        BY <1>1, <1>5, <2>1
      <3> QED BY <1>9, <3>1
    <2>2. CASE i # m
      <3>1. i \in m + 1..n + 1
        BY <1>1, <1>5, <2>2
      <3> HIDE DEF f
      <3> QED BY <1>8, <1>9, <3>1
    <2> QED BY <2>1, <2>2
  <1>11. f = [i \in m..n + 1 |-> f[i]]
    OBVIOUS
  <1> HIDE DEF f
  <1>12. IsLeft(f, text, m)
    BY <1>10, <1>11 DEF IsLeft
  <1> QED BY <1>4, <1>5, <1>12

\* A part of a text, from a place on and up to another.
LEMMA PartIs ==
    ASSUME NEW S, NEW text \in Seq(S), NEW i \in 1..Len(text) + 1, NEW j \in 0..Len(text)
    PROVE  /\ SubSeq(text, i, j) \in Seq(S)
           /\ Len(SubSeq(text, i, j)) = IF i <= j THEN j - i + 1 ELSE 0
  <1>1. Len(text) \in Nat /\ i \in Int /\ j \in Int
    BY LenProperties
  <1>2. \A k \in i..j : text[k] \in S
    BY <1>1
  <1> QED BY <1>1, <1>2, SubSeqProperties

\* It is a text, and shorter than what it is left of when a comment was in it.
LEMMA LeftIs ==
    ASSUME NEW S, NEW text \in Seq(S), NEW f, IsLeft(f, text, 1)
    PROVE  \A i \in 1..Len(text) + 1 :
             /\ f[i] \in Seq(S)
             /\ Len(f[i]) <= Len(text) + 1 - i
             /\ {k \in Openers(text) : k >= i} = {} => f[i] = SubSeq(text, i, Len(text))
             /\ {k \in Openers(text) : k >= i} # {} => Len(f[i]) < Len(text) + 1 - i
  <1> DEFINE n == Len(text)
             After(i) == {k \in Openers(text) : k >= i}
             Good(i) == /\ f[i] \in Seq(S)
                        /\ Len(f[i]) <= n + 1 - i
                        /\ After(i) # {} => Len(f[i]) < n + 1 - i
             T == {i \in 1..n + 1 : ~Good(i)}
  <1>1. n \in Nat
    BY LenProperties
  <1>2. \A i \in 1..n + 1 : f[i] = Left(text, f, i)
    BY DEF IsLeft
  <1>3. ASSUME NEW i \in 1..n + 1, After(i) = {}
        PROVE  f[i] = SubSeq(text, i, n) /\ Good(i)
    <2>1. f[i] = SubSeq(text, i, n)
      BY <1>2, <1>3 DEF Left
    <2>2. n \in 0..n
      BY <1>1
    <2>3. SubSeq(text, i, n) \in Seq(S) /\ Len(SubSeq(text, i, n)) = IF i <= n THEN n - i + 1 ELSE 0
      BY <2>2, PartIs
    <2>4. Len(f[i]) <= n + 1 - i
      BY <1>1, <2>1, <2>3
    <2> QED BY <1>3, <2>1, <2>3, <2>4
  <1>4. T = {}
    <2> SUFFICES ASSUME T # {} PROVE FALSE
      OBVIOUS
    <2> HIDE DEF Good
    <2>1. T \in SUBSET (1..n + 1) /\ n + 1 \in Nat
      BY <1>1
    <2>2. PICK i \in T : \A j \in T : i >= j
      <3> HIDE DEF T
      <3> QED BY <2>1, Ends
    <2>3. i \in 1..n + 1 /\ ~Good(i) /\ \A j \in 1..n + 1 : j > i => Good(j)
      BY <1>1, <2>1, <2>2
    <2>4. After(i) # {}
      BY <1>3, <2>3
    <2>5. PICK start \in Nat : /\ start = Earliest(After(i)) /\ i <= start /\ start <= n - 2
                               /\ Behind(text, start) \in start + 3..n + 1
      <3>1. PICK s \in i..n - 2 : s = Earliest(After(i)) /\ Behind(text, s) \in s + 3..n + 1
        BY <2>3, <2>4, NextComment
      <3>2. s \in Nat /\ i <= s /\ s <= n - 2
        BY <1>1, <2>3
      <3> QED BY <3>1, <3>2
    <2>6. PICK behind \in Nat : behind = Behind(text, start) /\ behind >= start + 3 /\ behind <= n + 1
      <3> DEFINE behind == Behind(text, start)
      <3>1. start \in Nat /\ behind \in start + 3..n + 1
        BY <2>5
      <3> HIDE DEF behind, n
      <3>2. behind \in Nat /\ behind >= start + 3 /\ behind <= n + 1
        BY <1>1, <3>1
      <3> QED BY <3>2 DEF behind
    <2>7. f[i] = SubSeq(text, i, start - 1) \o f[behind]
      BY <1>2, <2>3, <2>4, <2>5, <2>6 DEF Left
    <2>8. f[behind] \in Seq(S) /\ Len(f[behind]) <= n + 1 - behind /\ Len(f[behind]) \in Nat
      <3>1. behind \in 1..n + 1 /\ behind > i
        <4>1. i \in Nat /\ i >= 1
          BY <1>1, <2>3
        <4> QED BY <1>1, <2>5, <2>6, <4>1
      <3>2. Good(behind)
        BY <2>3, <3>1
      <3> QED BY <3>2, LenProperties DEF Good
    <2>9. SubSeq(text, i, start - 1) \in Seq(S) /\ Len(SubSeq(text, i, start - 1)) = start - i
      <3>1. start - 1 \in 0..n /\ i \in Nat /\ start \in Nat /\ i <= start
        BY <1>1, <2>3, <2>5
      <3>2. /\ SubSeq(text, i, start - 1) \in Seq(S)
            /\ Len(SubSeq(text, i, start - 1)) = IF i <= start - 1 THEN start - 1 - i + 1 ELSE 0
        BY <2>3, <3>1, PartIs
      <3> QED BY <3>1, <3>2
    <2>10. f[i] \in Seq(S) /\ Len(f[i]) = start - i + Len(f[behind])
      <3> DEFINE head == SubSeq(text, i, start - 1)
                 tail == f[behind]
      <3> HIDE DEF head, tail
      <3>1. head \in Seq(S) /\ tail \in Seq(S) /\ f[i] = head \o tail /\ Len(head) = start - i
        BY <2>7, <2>8, <2>9 DEF head, tail
      <3>2. head \o tail \in Seq(S) /\ Len(head \o tail) = Len(head) + Len(tail)
        BY <3>1, ConcatProperties
      <3> QED BY <3>1, <3>2 DEF tail
    <2>11. Len(f[i]) < n + 1 - i
      <3>1. i \in Nat /\ start \in Nat /\ behind \in Nat /\ behind >= start + 3
        BY <1>1, <2>3, <2>6
      <3>2. PICK rest \in Nat : rest = Len(f[behind]) /\ rest <= n + 1 - behind
        BY <2>8
      <3>3. Len(f[i]) = start - i + rest
        BY <2>10, <3>2
      <3> HIDE DEF n
      <3>4. start - i + rest < n + 1 - i
        BY <1>1, <3>1, <3>2
      <3> QED BY <3>3, <3>4
    <2>12. Good(i)
      BY <1>1, <2>3, <2>10, <2>11 DEF Good
    <2> QED BY <2>3, <2>12
  <1>5. \A i \in 1..n + 1 : Good(i)
    BY <1>4
  <1> QED BY <1>3, <1>5

\* One pass leaves a text without comments alone, and shortens any other.
LEMMA OnePass ==
    ASSUME NEW S, NEW text \in Seq(S)
    PROVE  /\ without_comments(text) \in Seq(S)
           /\ Openers(text) = {} => without_comments(text) = text
           /\ Openers(text) # {} => Len(without_comments(text)) < Len(text)
  <1> DEFINE n == Len(text)
             from == CHOOSE f : f = [i \in 1..n + 1 |->
                       LET openers == {k \in Openers(text) : k >= i} IN
                       IF openers = {} THEN SubSeq(text, i, n)
                       ELSE SubSeq(text, i, Earliest(openers) - 1) \o f[Behind(text, Earliest(openers))]]
  <1>1. n \in Nat
    BY LenProperties
  <1>2. without_comments(text) = from[1]
    BY DEF without_comments
  <1>3. IsLeft(from, text, 1)
    <2>1. n \in 0..n /\ n + 1 - n = 1
      BY <1>1
    <2>2. \E f : IsLeft(f, text, 1)
      BY <2>1, LeftOf
    <2>3. \E f : f = [i \in 1..n + 1 |->
                       LET openers == {k \in Openers(text) : k >= i} IN
                       IF openers = {} THEN SubSeq(text, i, n)
                       ELSE SubSeq(text, i, Earliest(openers) - 1) \o f[Behind(text, Earliest(openers))]]
      BY <2>2 DEF IsLeft, Left
    <2>4. from = [i \in 1..n + 1 |->
                       LET openers == {k \in Openers(text) : k >= i} IN
                       IF openers = {} THEN SubSeq(text, i, n)
                       ELSE SubSeq(text, i, Earliest(openers) - 1) \o from[Behind(text, Earliest(openers))]]
      BY <2>3
    <2> QED BY <2>4 DEF IsLeft, Left
  <1> HIDE DEF from
  <1>4. {k \in Openers(text) : k >= 1} = Openers(text)
    BY <1>1, OpenersAre
  <1>5. 1 \in 1..n + 1
    BY <1>1
  <1>6. /\ from[1] \in Seq(S)
        /\ Openers(text) = {} => from[1] = SubSeq(text, 1, n)
        /\ Openers(text) # {} => Len(from[1]) < n + 1 - 1
    BY <1>3, <1>4, <1>5, LeftIs
  <1>7. SubSeq(text, 1, n) = text
    BY SubSeqFull
  <1> QED BY <1>1, <1>2, <1>6, <1>7

\* What a text is after so many passes.
IsAfter(f, text, n) ==
    f = [k \in 0..n |-> IF k = 0 THEN text ELSE without_comments(f[k - 1])]

\* There is such a function.
LEMMA AfterPasses ==
    ASSUME NEW text
    PROVE  \A n \in Nat : \E f : IsAfter(f, text, n)
  <1> DEFINE T == {n \in Nat : ~\E f : IsAfter(f, text, n)}
  <1> SUFFICES ASSUME T # {} PROVE FALSE
    OBVIOUS
  <1>1. T \in SUBSET Nat
    OBVIOUS
  <1> HIDE DEF T
  <1>2. PICK n \in T : \A m \in T : n <= m
    BY <1>1, Least
  <1>3. n \in Nat /\ ~\E f : IsAfter(f, text, n)
    BY <1>2 DEF T
  <1>4. CASE n = 0
    <2> DEFINE f == [k \in 0..0 |-> text]
    <2>1. f = [k \in 0..0 |-> IF k = 0 THEN text ELSE without_comments(f[k - 1])]
      OBVIOUS
    <2> QED BY <1>3, <1>4, <2>1 DEF IsAfter
  <1>5. CASE n # 0
    <2>1. n - 1 \in Nat /\ n - 1 \notin T
      BY <1>1, <1>2, <1>3, <1>5
    <2>2. PICK g : IsAfter(g, text, n - 1)
      BY <2>1 DEF T
    <2>3. \A k \in 0..n - 1 : g[k] = IF k = 0 THEN text ELSE without_comments(g[k - 1])
      BY <2>2 DEF IsAfter
    <2> DEFINE f == [k \in 0..n |-> IF k = n THEN without_comments(g[n - 1]) ELSE g[k]]
    <2>4. \A k \in 0..n : f[k] = IF k = 0 THEN text ELSE without_comments(f[k - 1])
      <3> TAKE k \in 0..n
      <3>1. CASE k = n
        BY <1>3, <1>5, <3>1
      <3>2. CASE k # n
        <4>1. k \in 0..n - 1 /\ (k # 0 => k - 1 \in 0..n /\ k - 1 # n)
          BY <1>3, <3>2
        <4>2. f[k] = g[k] /\ (k # 0 => f[k - 1] = g[k - 1])
          BY <3>2, <4>1
        <4> HIDE DEF f
        <4> QED BY <2>3, <4>1, <4>2
      <3> QED BY <3>1, <3>2
    <2>5. f = [k \in 0..n |-> f[k]]
      OBVIOUS
    <2> HIDE DEF f
    <2>6. IsAfter(f, text, n)
      BY <2>4, <2>5 DEF IsAfter
    <2> QED BY <1>3, <2>6
  <1> QED BY <1>4, <1>5

\* A text is free of comments after as many passes as it is long.
LEMMA PassesEnd ==
    ASSUME NEW S, NEW text \in Seq(S), NEW f, IsAfter(f, text, Len(text))
    PROVE  \A k \in 0..Len(text) :
             /\ f[k] \in Seq(S)
             /\ Openers(f[k]) = {} \/ Len(f[k]) <= Len(text) - k
             /\ Openers(text) = {} => f[k] = text
  <1> DEFINE n == Len(text)
             Good(k) == /\ f[k] \in Seq(S)
                        /\ Openers(f[k]) = {} \/ Len(f[k]) <= n - k
                        /\ Openers(text) = {} => f[k] = text
             T == {k \in 0..n : ~Good(k)}
  <1>1. n \in Nat
    BY LenProperties
  <1>2. \A k \in 0..n : f[k] = IF k = 0 THEN text ELSE without_comments(f[k - 1])
    BY DEF IsAfter
  <1>3. T = {}
    <2> SUFFICES ASSUME T # {} PROVE FALSE
      OBVIOUS
    <2>1. T \in SUBSET Nat
      BY <1>1
    <2> HIDE DEF T
    <2>2. PICK k \in T : \A j \in T : k <= j
      BY <2>1, Least
    <2>3. k \in Nat /\ k \in 0..n /\ ~Good(k)
      BY <1>1, <2>1, <2>2 DEF T
    <2>4. CASE k = 0
      <3>1. f[k] = text
        BY <1>2, <2>3, <2>4
      <3> QED BY <1>1, <2>3, <2>4, <3>1
    <2>5. CASE k # 0
      <3>1. k - 1 \in 0..n /\ k - 1 \notin T
        BY <1>1, <2>1, <2>2, <2>3, <2>5
      <3>2. Good(k - 1)
        BY <3>1 DEF T
      <3> DEFINE before == f[k - 1]
      <3>3. f[k] = without_comments(before)
        BY <1>2, <2>3, <2>5
      <3>4. before \in Seq(S) /\ (Openers(before) = {} \/ Len(before) <= n - (k - 1))
            /\ (Openers(text) = {} => before = text)
        BY <3>2
      <3> HIDE DEF before
      <3>5. /\ without_comments(before) \in Seq(S)
            /\ Openers(before) = {} => without_comments(before) = before
            /\ Openers(before) # {} => Len(without_comments(before)) < Len(before)
        BY <3>4, OnePass
      <3>6. Len(before) \in Nat /\ Len(without_comments(before)) \in Nat
        BY <3>4, <3>5, LenProperties
      <3>7. Openers(f[k]) = {} \/ Len(f[k]) <= n - k
        <4>1. CASE Openers(before) = {}
          BY <3>3, <3>5, <4>1
        <4>2. CASE Openers(before) # {}
          <5> HIDE DEF n
          <5> QED BY <1>1, <2>3, <3>3, <3>4, <3>5, <3>6, <4>2
        <4> QED BY <4>1, <4>2
      <3>8. Openers(text) = {} => f[k] = text
        BY <3>3, <3>4, <3>5
      <3>9. Good(k)
        BY <3>3, <3>5, <3>7, <3>8
      <3> QED BY <2>3, <3>9
    <2> QED BY <2>4, <2>5
  <1> QED BY <1>3

\* No comment is left in a text of any length, however its halves are put
\* together: drop_comments of llmfields.py ends where a pass changes nothing, and
\* it leaves a text that has no comment alone.
THEOREM NoCommentIsLeft ==
    ASSUME NEW S, NEW text \in Seq(S)
    PROVE  /\ drop_comments(text) \in Seq(S)
           /\ Openers(drop_comments(text)) = {}
           /\ without_comments(drop_comments(text)) = drop_comments(text)
           /\ Openers(text) = {} => drop_comments(text) = text
  <1> DEFINE n == Len(text)
             after == CHOOSE f : f = [k \in 0..n |-> IF k = 0 THEN text ELSE without_comments(f[k - 1])]
  <1>1. n \in Nat
    BY LenProperties
  <1>2. drop_comments(text) = after[n]
    BY DEF drop_comments
  <1>3. IsAfter(after, text, n)
    <2>1. \E f : IsAfter(f, text, n)
      BY <1>1, AfterPasses
    <2>2. \E f : f = [k \in 0..n |-> IF k = 0 THEN text ELSE without_comments(f[k - 1])]
      BY <2>1 DEF IsAfter
    <2>3. after = [k \in 0..n |-> IF k = 0 THEN text ELSE without_comments(after[k - 1])]
      BY <2>2
    <2> QED BY <2>3 DEF IsAfter
  <1> HIDE DEF after
  <1>4. n \in 0..n
    BY <1>1
  <1>5. /\ after[n] \in Seq(S)
        /\ Openers(after[n]) = {} \/ Len(after[n]) <= n - n
        /\ Openers(text) = {} => after[n] = text
    BY <1>3, <1>4, PassesEnd
  <1>6. Openers(after[n]) = {}
    <2>1. Len(after[n]) \in Nat
      BY <1>5, LenProperties
    <2>2. Len(after[n]) <= 0 => Openers(after[n]) = {}
      BY <2>1 DEF Openers
    <2> QED BY <1>1, <1>5, <2>2
  <1>7. without_comments(after[n]) = after[n]
    BY <1>5, <1>6, OnePass
  <1> QED BY <1>2, <1>5, <1>6, <1>7

\* What is left of a text is one thing.
LEMMA LeftIsOne ==
    ASSUME NEW S, NEW text \in Seq(S), NEW f, NEW g, IsLeft(f, text, 1), IsLeft(g, text, 1)
    PROVE  \A i \in 1..Len(text) + 1 : f[i] = g[i]
  <1> DEFINE n == Len(text)
             T == {i \in 1..n + 1 : f[i] # g[i]}
  <1>1. n \in Nat
    BY LenProperties
  <1>2. \A i \in 1..n + 1 : f[i] = Left(text, f, i) /\ g[i] = Left(text, g, i)
    BY DEF IsLeft
  <1> SUFFICES ASSUME T # {} PROVE FALSE
    OBVIOUS
  <1>3. T \in SUBSET (1..n + 1) /\ n + 1 \in Nat
    BY <1>1
  <1>4. PICK i \in T : \A j \in T : i >= j
    <2> HIDE DEF T
    <2> QED BY <1>3, Ends
  <1>5. i \in 1..n + 1 /\ f[i] # g[i]
    OBVIOUS
  <1>6. \A j \in 1..n + 1 : j > i => f[j] = g[j]
    BY <1>1, <1>3, <1>4
  <1>7. ASSUME {k \in Openers(text) : k >= i} # {}
        PROVE  f[Behind(text, Earliest({k \in Openers(text) : k >= i}))]
                 = g[Behind(text, Earliest({k \in Openers(text) : k >= i}))]
    <2>1. PICK start \in i..n - 2 : /\ start = Earliest({k \in Openers(text) : k >= i})
                                    /\ Behind(text, start) \in start + 3..n + 1
      BY <1>5, <1>7, NextComment
    <2>2. Behind(text, start) \in 1..n + 1 /\ Behind(text, start) > i
      <3> DEFINE behind == Behind(text, start)
      <3>1. behind \in start + 3..n + 1 /\ start \in Nat /\ start >= i /\ i \in Nat /\ i >= 1
        BY <1>1, <1>5, <2>1
      <3> HIDE DEF behind, n
      <3>2. behind \in 1..n + 1 /\ behind > i
        BY <1>1, <3>1
      <3> QED BY <3>2 DEF behind
    <2> QED BY <1>6, <2>1, <2>2
  <1>8. Left(text, f, i) = Left(text, g, i)
    BY <1>7 DEF Left
  <1> QED BY <1>2, <1>5, <1>8

\* Where a piece of a text is.
LEMMA PieceIs ==
    ASSUME NEW S, NEW text \in Seq(S), NEW P, NEW piece \in Seq(P), NEW i \in Nat,
           i >= 1, i + Len(piece) - 1 <= Len(text)
    PROVE  SubSeq(text, i, i + Len(piece) - 1) = piece <=> \A k \in 1..Len(piece) : text[i + k - 1] = piece[k]
  <1> DEFINE m == Len(piece)
             part == SubSeq(text, i, i + m - 1)
             R == S \cup P
  <1>1. m \in Nat /\ Len(text) \in Nat
    BY LenProperties
  <1>2. piece \in Seq(R)
    <2>1. \A k \in 1..m : piece[k] \in R
      OBVIOUS
    <2> QED BY <2>1
  <1>3. \A k \in i..i + m - 1 : text[k] \in R
    <2> TAKE k \in i..i + m - 1
    <2>1. k \in 1..Len(text)
      BY <1>1
    <2> QED BY <2>1
  <1>4. i \in Int /\ i + m - 1 \in Int
    BY <1>1
  <1>5. /\ part \in Seq(R)
        /\ Len(part) = IF i <= i + m - 1 THEN i + m - 1 - i + 1 ELSE 0
        /\ \A k \in 1..i + m - 1 - i + 1 : part[k] = text[i + k - 1]
    <2> HIDE DEF R
    <2> QED BY <1>3, <1>4, SubSeqProperties
  <1>6. Len(part) = m /\ \A k \in 1..m : part[k] = text[i + k - 1]
    <2>1. i + m - 1 - i + 1 = m /\ (i <= i + m - 1 <=> m # 0)
      BY <1>1
    <2> HIDE DEF part
    <2> QED BY <1>1, <1>5, <2>1
  <1> HIDE DEF part, R
  <1>7. part = piece => \A k \in 1..m : text[i + k - 1] = piece[k]
    BY <1>6
  <1>8. (\A k \in 1..m : text[i + k - 1] = piece[k]) => part = piece
    BY <1>2, <1>5, <1>6, SeqEqual
  <1> QED BY <1>7, <1>8 DEF part

\* prompt.py finds the openers and the closers of the regular expression.
LEMMA OpenersAreFound ==
    ASSUME NEW S, NEW text \in Seq(S), NEW i \in 1..Len(text) + 1
    PROVE  FirstAt(text, <<"<", "!", DASHES>>, i)
             = IF {k \in Openers(text) : k >= i} = {} THEN 0 ELSE Earliest({k \in Openers(text) : k >= i})
  <1> DEFINE n == Len(text)
             opener == <<"<", "!", DASHES>>
             at == {j \in i..n - Len(opener) + 1 : SubSeq(text, j, j + Len(opener) - 1) = opener}
  <1>1. n \in Nat
    BY LenProperties
  <1>2. opener \in Seq({"<", "!", DASHES}) /\ Len(opener) = 3
        /\ opener[1] = "<" /\ opener[2] = "!" /\ opener[3] = DASHES
    OBVIOUS
  <1> HIDE DEF opener
  <1>3. ASSUME NEW j \in i..n - 2
        PROVE  SubSeq(text, j, j + Len(opener) - 1) = opener <=> j \in Openers(text)
    <2>1. j \in Nat /\ j >= 1 /\ j + Len(opener) - 1 <= n /\ j \in 1..n - 2
      BY <1>1, <1>2
    <2>2. SubSeq(text, j, j + Len(opener) - 1) = opener <=> \A k \in 1..Len(opener) : text[j + k - 1] = opener[k]
      BY <1>2, <2>1, PieceIs
    <2>3. (\A k \in 1..3 : text[j + k - 1] = opener[k])
            <=> text[j] = opener[1] /\ text[j + 1] = opener[2] /\ text[j + 2] = opener[3]
      <3>1. j + 1 - 1 = j /\ j + 2 - 1 = j + 1 /\ j + 3 - 1 = j + 2
        BY <2>1
      <3>2. \A k \in 1..3 : k = 1 \/ k = 2 \/ k = 3
        OBVIOUS
      <3>3. 1 \in 1..3 /\ 2 \in 1..3 /\ 3 \in 1..3
        OBVIOUS
      <3> QED BY <3>1, <3>2, <3>3
    <2> QED BY <1>2, <2>1, <2>2, <2>3 DEF Openers
  <1>4. at = {k \in Openers(text) : k >= i}
    <2>1. n - Len(opener) + 1 = n - 2
      BY <1>1, <1>2
    <2>2. \A k \in Openers(text) : k \in 1..n - 2 /\ (k >= i => k \in i..n - 2)
      BY <1>1, OpenersAre
    <2>3. \A j \in i..n - 2 : j >= i
      BY <1>1
    <2> QED BY <1>3, <2>1, <2>2, <2>3
  <1>5. FirstAt(text, opener, i) = IF at = {} THEN 0 ELSE Earliest(at)
    BY DEF FirstAt
  <1> HIDE DEF at
  <1> QED BY <1>4, <1>5 DEF opener

\* And where the comment ends: the other search finds the place that the
\* first does.
LEMMA ClosersAreFound ==
    ASSUME NEW S, NEW text \in Seq(S), NEW start \in Openers(text)
    PROVE  LET end == FirstAt(text, <<DASHES, ">">>, start + 2) IN
           /\ end = 0 => Behind(text, start) = Len(text) + 1
           /\ end # 0 => Behind(text, start) = end + 2
  <1> DEFINE n == Len(text)
             closer == <<DASHES, ">">>
             at == {j \in start + 2..n - Len(closer) + 1 : SubSeq(text, j, j + Len(closer) - 1) = closer}
             closers == {j \in start + 2..n - 1 : text[j] = DASHES /\ text[j + 1] = ">"}
  <1>1. n \in Nat /\ start \in Nat
    BY LenProperties, OpenersAre
  <1>2. closer \in Seq({DASHES, ">"}) /\ Len(closer) = 2 /\ closer[1] = DASHES /\ closer[2] = ">"
    OBVIOUS
  <1> HIDE DEF closer
  <1>3. ASSUME NEW j \in start + 2..n - 1
        PROVE  SubSeq(text, j, j + Len(closer) - 1) = closer <=> text[j] = DASHES /\ text[j + 1] = ">"
    <2>1. j \in Nat /\ j >= 1 /\ j + Len(closer) - 1 <= n
      BY <1>1, <1>2
    <2>2. SubSeq(text, j, j + Len(closer) - 1) = closer <=> \A k \in 1..Len(closer) : text[j + k - 1] = closer[k]
      <3> HIDE DEF at, closers
      <3>1. closer \in Seq({DASHES, ">"})
        BY <1>2
      <3> QED BY <2>1, <3>1, PieceIs
    <2>3. (\A k \in 1..2 : text[j + k - 1] = closer[k]) <=> text[j] = closer[1] /\ text[j + 1] = closer[2]
      <3>1. j + 1 - 1 = j /\ j + 2 - 1 = j + 1
        BY <2>1
      <3>2. \A k \in 1..2 : k = 1 \/ k = 2
        OBVIOUS
      <3>3. 1 \in 1..2 /\ 2 \in 1..2
        OBVIOUS
      <3> QED BY <3>1, <3>2, <3>3
    <2> QED BY <1>2, <2>2, <2>3
  <1>4. at = closers
    <2>1. n - Len(closer) + 1 = n - 1
      BY <1>1, <1>2
    <2> QED BY <1>3, <2>1
  <1>5. FirstAt(text, closer, start + 2) = IF at = {} THEN 0 ELSE Earliest(at)
    BY DEF FirstAt
  <1>6. Behind(text, start) = IF closers = {} THEN n + 1 ELSE Earliest(closers) + 2
    BY DEF Behind
  <1>7. closers \in SUBSET Nat /\ \A j \in closers : j # 0
    BY <1>1
  <1> HIDE DEF at, closers
  <1>8. closers # {} => Earliest(closers) # 0
    BY <1>7, EarliestIs
  <1> QED BY <1>4, <1>5, <1>6, <1>8 DEF closer

\* What the probe's prompt keeps of a text from a place on.
Kept(text, f, i) ==
    LET start == FirstAt(text, <<"<", "!", DASHES>>, i)
        end == FirstAt(text, <<DASHES, ">">>, start + 2)
    IN  IF start = 0 THEN SubSeq(text, i, Len(text))
        ELSE SubSeq(text, i, start - 1) \o (IF end = 0 THEN <<>> ELSE f[end + 2])

\* Nothing is left behind the end of a text, of whichever function.
LEMMA KeptIsLeft ==
    ASSUME NEW S, NEW text \in Seq(S), NEW f, f[Len(text) + 1] = <<>>, NEW i \in 1..Len(text) + 1
    PROVE  Kept(text, f, i) = Left(text, f, i)
  <1> DEFINE openers == {k \in Openers(text) : k >= i}
             start == Earliest(openers)
             end == FirstAt(text, <<DASHES, ">">>, start + 2)
  <1>1. FirstAt(text, <<"<", "!", DASHES>>, i) = IF openers = {} THEN 0 ELSE start
    BY OpenersAreFound
  <1>2. CASE openers = {}
    BY <1>1, <1>2 DEF Kept, Left
  <1>3. CASE openers # {}
    <2>1. start \in Openers(text) /\ start \in i..Len(text) - 2
      BY <1>3, NextComment
    <2>2. start # 0
      BY <2>1, OpenersAre
    <2>3. /\ end = 0 => Behind(text, start) = Len(text) + 1
          /\ end # 0 => Behind(text, start) = end + 2
      BY <2>1, ClosersAreFound
    <2>4. Kept(text, f, i) = SubSeq(text, i, start - 1) \o (IF end = 0 THEN <<>> ELSE f[end + 2])
      BY <1>1, <1>3, <2>2 DEF Kept
    <2>5. Left(text, f, i) = SubSeq(text, i, start - 1) \o f[Behind(text, start)]
      BY <1>3 DEF Left
    <2>6. (IF end = 0 THEN <<>> ELSE f[end + 2]) = f[Behind(text, start)]
      BY <2>3
    <2> QED BY <2>4, <2>5, <2>6
  <1> QED BY <1>2, <1>3

\* A pass of the probe's prompt keeps what one of llmfields.py leaves.
LEMMA PassesAgree ==
    ASSUME NEW S, NEW text \in Seq(S)
    PROVE  kept_of(text) = without_comments(text)
  <1> DEFINE n == Len(text)
             kept == CHOOSE f : f = [index \in 1..n + 1 |->
                       LET start == FirstAt(text, <<"<", "!", DASHES>>, index)
                           end == FirstAt(text, <<DASHES, ">">>, start + 2)
                       IN  IF start = 0 THEN SubSeq(text, index, n)
                           ELSE SubSeq(text, index, start - 1) \o (IF end = 0 THEN <<>> ELSE f[end + 2])]
             left == CHOOSE f : f = [i \in 1..n + 1 |->
                       LET openers == {k \in Openers(text) : k >= i} IN
                       IF openers = {} THEN SubSeq(text, i, n)
                       ELSE SubSeq(text, i, Earliest(openers) - 1) \o f[Behind(text, Earliest(openers))]]
  <1>1. n \in Nat
    BY LenProperties
  <1>2. kept_of(text) = kept[1] /\ without_comments(text) = left[1]
    BY DEF kept_of, without_comments
  <1>3. \A f : IsLeft(f, text, 1) => f[n + 1] = <<>>
    <2> TAKE f
    <2> HAVE IsLeft(f, text, 1)
    <2>1. f[n + 1] = Left(text, f, n + 1)
      BY <1>1 DEF IsLeft
    <2>2. {k \in Openers(text) : k >= n + 1} = {}
      BY <1>1, OpenersAre
    <2>3. SubSeq(text, n + 1, n) = <<>>
      BY <1>1, SubSeqEmpty
    <2> QED BY <2>1, <2>2, <2>3 DEF Left
  <1>4. PICK g : IsLeft(g, text, 1)
    <2>1. n \in 0..n /\ n + 1 - n = 1
      BY <1>1
    <2> QED BY <2>1, LeftOf
  <1>5. IsLeft(left, text, 1)
    <2>1. \E f : f = [i \in 1..n + 1 |->
                       LET openers == {k \in Openers(text) : k >= i} IN
                       IF openers = {} THEN SubSeq(text, i, n)
                       ELSE SubSeq(text, i, Earliest(openers) - 1) \o f[Behind(text, Earliest(openers))]]
      BY <1>4 DEF IsLeft, Left
    <2>2. left = [i \in 1..n + 1 |->
                       LET openers == {k \in Openers(text) : k >= i} IN
                       IF openers = {} THEN SubSeq(text, i, n)
                       ELSE SubSeq(text, i, Earliest(openers) - 1) \o left[Behind(text, Earliest(openers))]]
      BY <2>1
    <2> QED BY <2>2 DEF IsLeft, Left
  <1>6. kept = [i \in 1..n + 1 |-> Kept(text, kept, i)]
    <2>1. g = [i \in 1..n + 1 |-> Kept(text, g, i)]
      <3>1. \A i \in 1..n + 1 : Kept(text, g, i) = Left(text, g, i)
        BY <1>3, <1>4, KeptIsLeft
      <3>2. g = [i \in 1..n + 1 |-> Left(text, g, i)]
        BY <1>4 DEF IsLeft
      <3> QED BY <3>1, <3>2
    <2>2. \E f : f = [index \in 1..n + 1 |->
                       LET start == FirstAt(text, <<"<", "!", DASHES>>, index)
                           end == FirstAt(text, <<DASHES, ">">>, start + 2)
                       IN  IF start = 0 THEN SubSeq(text, index, n)
                           ELSE SubSeq(text, index, start - 1) \o (IF end = 0 THEN <<>> ELSE f[end + 2])]
      BY <2>1 DEF Kept
    <2>3. kept = [index \in 1..n + 1 |->
                       LET start == FirstAt(text, <<"<", "!", DASHES>>, index)
                           end == FirstAt(text, <<DASHES, ">">>, start + 2)
                       IN  IF start = 0 THEN SubSeq(text, index, n)
                           ELSE SubSeq(text, index, start - 1) \o (IF end = 0 THEN <<>> ELSE kept[end + 2])]
      BY <2>2
    <2> QED BY <2>3 DEF Kept
  <1> HIDE DEF kept, left
  <1>7. kept[n + 1] = <<>>
    <2>1. n + 1 \in 1..n + 1
      BY <1>1
    <2>2. kept[n + 1] = Kept(text, kept, n + 1)
      BY <1>6, <2>1
    <2>3. {k \in Openers(text) : k >= n + 1} = {}
      BY <1>1, OpenersAre
    <2>4. FirstAt(text, <<"<", "!", DASHES>>, n + 1) = 0
      BY <2>1, <2>3, OpenersAreFound
    <2>5. SubSeq(text, n + 1, n) = <<>>
      BY <1>1, SubSeqEmpty
    <2> QED BY <2>2, <2>4, <2>5 DEF Kept
  <1>8. IsLeft(kept, text, 1)
    <2>1. \A i \in 1..n + 1 : Kept(text, kept, i) = Left(text, kept, i)
      BY <1>7, KeptIsLeft
    <2> QED BY <1>6, <2>1 DEF IsLeft
  <1>9. kept[1] = left[1]
    <2>1. 1 \in 1..n + 1
      BY <1>1
    <2> QED BY <1>5, <1>8, <2>1, LeftIsOne
  <1> QED BY <1>2, <1>9

\* Both drop the same comments of a text of any length: the prompt the network
\* was probed with is the one of llmfields.py.
THEOREM CommentsAreDroppedAlike ==
    ASSUME NEW S, NEW text \in Seq(S)
    PROVE  _drop_comments(text) = drop_comments(text)
  <1> DEFINE n == Len(text)
             after == CHOOSE f : f = [k \in 0..n |-> IF k = 0 THEN text ELSE without_comments(f[k - 1])]
             kept == CHOOSE f : f = [k \in 0..n |-> IF k = 0 THEN text ELSE kept_of(f[k - 1])]
  <1>1. n \in Nat
    BY LenProperties
  <1>2. drop_comments(text) = after[n] /\ _drop_comments(text) = kept[n]
    BY DEF drop_comments, _drop_comments
  <1>3. PICK g : IsAfter(g, text, n)
    BY <1>1, AfterPasses
  <1>4. IsAfter(after, text, n)
    <2>1. \E f : f = [k \in 0..n |-> IF k = 0 THEN text ELSE without_comments(f[k - 1])]
      BY <1>3 DEF IsAfter
    <2>2. after = [k \in 0..n |-> IF k = 0 THEN text ELSE without_comments(after[k - 1])]
      BY <2>1
    <2> QED BY <2>2 DEF IsAfter
  <1>5. ASSUME NEW f, IsAfter(f, text, n), NEW k \in 0..n, k # 0
        PROVE  k - 1 \in 0..n /\ kept_of(f[k - 1]) = without_comments(f[k - 1])
    <2>1. k - 1 \in 0..n
      BY <1>1, <1>5
    <2>2. f[k - 1] \in Seq(S)
      BY <1>5, <2>1, PassesEnd
    <2> QED BY <2>1, <2>2, PassesAgree
  <1>6. \A k \in 0..n : kept[k] = IF k = 0 THEN text ELSE kept_of(kept[k - 1])
    <2>1. \A k \in 0..n : g[k] = IF k = 0 THEN text ELSE kept_of(g[k - 1])
      <3> TAKE k \in 0..n
      <3>1. g[k] = IF k = 0 THEN text ELSE without_comments(g[k - 1])
        BY <1>3 DEF IsAfter
      <3> QED BY <1>3, <1>5, <3>1
    <2>2. g = [k \in 0..n |-> g[k]]
      BY <1>3 DEF IsAfter
    <2>3. g = [k \in 0..n |-> IF k = 0 THEN text ELSE kept_of(g[k - 1])]
      BY <2>1, <2>2
    <2>4. kept = [k \in 0..n |-> IF k = 0 THEN text ELSE kept_of(kept[k - 1])]
      BY <2>3
    <2> HIDE DEF kept
    <2> QED BY <2>4
  <1> HIDE DEF after, kept
  <1>7. \A k \in 0..n : after[k] = IF k = 0 THEN text ELSE without_comments(after[k - 1])
    BY <1>4 DEF IsAfter
  <1> DEFINE T == {k \in 0..n : kept[k] # after[k]}
  <1>8. T = {}
    <2> SUFFICES ASSUME T # {} PROVE FALSE
      OBVIOUS
    <2>1. T \in SUBSET Nat
      BY <1>1
    <2> HIDE DEF T
    <2>2. PICK k \in T : \A j \in T : k <= j
      BY <2>1, Least
    <2>3. k \in 0..n /\ k \in Nat /\ kept[k] # after[k]
      BY <2>1, <2>2 DEF T
    <2>4. k # 0
      BY <1>6, <1>7, <2>3
    <2>5. k - 1 \in 0..n /\ kept_of(after[k - 1]) = without_comments(after[k - 1])
      BY <1>4, <1>5, <2>3, <2>4
    <2>6. k - 1 \notin T
      BY <2>1, <2>2, <2>3, <2>4
    <2>7. kept[k - 1] = after[k - 1]
      BY <2>5, <2>6 DEF T
    <2>8. kept[k] = kept_of(kept[k - 1]) /\ after[k] = without_comments(after[k - 1])
      BY <1>6, <1>7, <2>3, <2>4
    <2> QED BY <2>3, <2>5, <2>7, <2>8
  <1>9. n \in 0..n
    BY <1>1
  <1> QED BY <1>2, <1>8, <1>9

-----------------------------------------------------------------------------
(* What a build keeps.                                                       *)

\* The names that are used by some names too.
Further(source, names) ==
    names \cup (defined_names(source) \cap UNION {UsesOf(source, n) : n \in names})

\* The function that keeps the names, over a number of rounds.
IsKeep(f, source, wanted, m) ==
    f = [i \in 0..m |-> IF i = 0 THEN defined_names(source) \cap wanted ELSE Further(source, f[i - 1])]

\* There is such a function.
LEMMA KeepOf ==
    ASSUME NEW source, NEW wanted
    PROVE  \A m \in Nat : \E f : IsKeep(f, source, wanted, m)
  <1> DEFINE T == {m \in Nat : ~\E f : IsKeep(f, source, wanted, m)}
             first == defined_names(source) \cap wanted
  <1> SUFFICES ASSUME T # {} PROVE FALSE
    OBVIOUS
  <1>1. T \in SUBSET Nat
    OBVIOUS
  <1> HIDE DEF T
  <1>2. PICK m \in T : \A j \in T : m <= j
    BY <1>1, Least
  <1>3. m \in Nat /\ ~\E f : IsKeep(f, source, wanted, m)
    BY <1>2 DEF T
  <1>4. CASE m = 0
    <2> DEFINE f == [i \in 0..0 |-> first]
    <2>1. f = [i \in 0..0 |-> IF i = 0 THEN first ELSE Further(source, f[i - 1])]
      OBVIOUS
    <2> QED BY <1>3, <1>4, <2>1 DEF IsKeep
  <1>5. CASE m # 0
    <2>1. m - 1 \in Nat /\ m - 1 \notin T
      BY <1>1, <1>2, <1>3, <1>5
    <2>2. PICK g : IsKeep(g, source, wanted, m - 1)
      BY <2>1 DEF T
    <2>3. \A i \in 0..m - 1 : g[i] = IF i = 0 THEN first ELSE Further(source, g[i - 1])
      BY <2>2 DEF IsKeep
    <2> DEFINE f == [i \in 0..m |-> IF i = m THEN Further(source, g[m - 1]) ELSE g[i]]
    <2>4. \A i \in 0..m : f[i] = IF i = 0 THEN first ELSE Further(source, f[i - 1])
      <3> TAKE i \in 0..m
      <3> HIDE DEF first
      <3>1. CASE i = m
        BY <1>3, <1>5, <3>1
      <3>2. CASE i # m
        <4>1. i \in 0..m - 1 /\ (i # 0 => i - 1 \in 0..m /\ i - 1 # m)
          BY <1>3, <3>2
        <4>2. f[i] = g[i] /\ (i # 0 => f[i - 1] = g[i - 1])
          BY <3>2, <4>1
        <4> HIDE DEF f
        <4> QED BY <2>3, <4>1, <4>2
      <3> QED BY <3>1, <3>2
    <2>5. f = [i \in 0..m |-> f[i]]
      OBVIOUS
    <2> HIDE DEF f
    <2>6. IsKeep(f, source, wanted, m)
      BY <2>4, <2>5 DEF IsKeep
    <2> QED BY <1>3, <2>6
  <1> QED BY <1>4, <1>5

\* What keeps everything its names use of a source.
IsClosed(source, names) == \A n \in names : UsesOf(source, n) \cap defined_names(source) \subseteq names

\* reachable of build.py keeps just what is needed, in a source of any length:
\* what is wanted of it, with all that those names use, and no other name.
THEOREM ReachableIsLeast ==
    ASSUME NEW source, NEW wanted, IsFiniteSet(defined_names(source))
    PROVE  LET keep == reachable(source, wanted)
               first == defined_names(source) \cap wanted
           IN  /\ first \subseteq keep /\ keep \subseteq defined_names(source)
               /\ IsClosed(source, keep)
               /\ \A names : first \subseteq names /\ IsClosed(source, names) => keep \subseteq names
  <1> DEFINE defined == defined_names(source)
             N == Cardinality(defined)
             first == defined \cap wanted
             keep == CHOOSE f : f = [i \in 0..N |->
                       IF i = 0 THEN defined \cap wanted
                       ELSE f[i - 1] \cup (defined \cap UNION {UsesOf(source, n) : n \in f[i - 1]})]
  <1>1. N \in Nat
    BY FS_CardinalityType
  <1>2. reachable(source, wanted) = keep[N]
    BY DEF reachable
  <1>3. IsKeep(keep, source, wanted, N)
    <2>1. \E f : IsKeep(f, source, wanted, N)
      BY <1>1, KeepOf
    <2>2. \E f : f = [i \in 0..N |->
                       IF i = 0 THEN defined \cap wanted
                       ELSE f[i - 1] \cup (defined \cap UNION {UsesOf(source, n) : n \in f[i - 1]})]
      BY <2>1 DEF IsKeep, Further
    <2>3. keep = [i \in 0..N |->
                       IF i = 0 THEN defined \cap wanted
                       ELSE keep[i - 1] \cup (defined \cap UNION {UsesOf(source, n) : n \in keep[i - 1]})]
      BY <2>2
    <2> QED BY <2>3 DEF IsKeep, Further
  <1> HIDE DEF keep
  <1>4. \A i \in 0..N : keep[i] = IF i = 0 THEN first ELSE Further(source, keep[i - 1])
    BY <1>3 DEF IsKeep
  <1> DEFINE Closed(names) == IsClosed(source, names)
             Good(i) == /\ first \subseteq keep[i] /\ keep[i] \subseteq defined
                        /\ Closed(keep[i]) \/ Cardinality(keep[i]) >= i
                        /\ \A names : first \subseteq names /\ Closed(names) => keep[i] \subseteq names
             T == {i \in 0..N : ~Good(i)}
  <1>5. \A names : names \subseteq defined =>
          /\ names \subseteq Further(source, names) /\ Further(source, names) \subseteq defined
          /\ Closed(names) <=> Further(source, names) = names
    <2> TAKE names
    <2> HAVE names \subseteq defined
    <2>1. names \subseteq Further(source, names) /\ Further(source, names) \subseteq defined
      BY DEF Further
    <2>2. Closed(names) => Further(source, names) \subseteq names
      BY DEF Further, IsClosed
    <2>3. Further(source, names) \subseteq names => Closed(names)
      BY DEF Further, IsClosed
    <2> QED BY <2>1, <2>2, <2>3
  <1>6. \A names, more : names \subseteq more /\ Closed(more) => Further(source, names) \subseteq more
    BY DEF Further, IsClosed
  <1> HIDE DEF defined, first, Closed
  <1>7. T = {}
    <2> SUFFICES ASSUME T # {} PROVE FALSE
      OBVIOUS
    <2> HIDE DEF Good
    <2>1. T \in SUBSET Nat
      BY <1>1
    <2> HIDE DEF T
    <2>2. PICK i \in T : \A j \in T : i <= j
      BY <2>1, Least
    <2>3. i \in 0..N /\ i \in Nat /\ ~Good(i)
      BY <2>1, <2>2 DEF T
    <2>4. CASE i = 0
      <3>1. keep[i] = first
        BY <1>4, <2>3, <2>4
      <3>2. first \subseteq defined /\ IsFiniteSet(defined)
        BY DEF first, defined
      <3>3. Cardinality(first) \in Nat
        BY <3>2, FS_Subset, FS_CardinalityType
      <3> QED BY <2>3, <2>4, <3>1, <3>2, <3>3 DEF Good
    <2>5. CASE i # 0
      <3>1. i - 1 \in 0..N /\ i - 1 \in Nat /\ Good(i - 1)
        <4>1. i - 1 \in 0..N /\ i - 1 \in Nat /\ i - 1 \notin T
          BY <1>1, <2>1, <2>2, <2>3, <2>5
        <4> QED BY <4>1 DEF T
      <3> DEFINE before == keep[i - 1]
                 after == Further(source, before)
      <3>2. keep[i] = after
        BY <1>4, <2>3, <2>5
      <3>3. /\ first \subseteq before /\ before \subseteq defined
            /\ Closed(before) \/ Cardinality(before) >= i - 1
            /\ \A names : first \subseteq names /\ Closed(names) => before \subseteq names
        BY <3>1 DEF Good
      <3> HIDE DEF before
      <3>4. before \subseteq after /\ after \subseteq defined /\ (Closed(before) <=> after = before)
        BY <1>5, <3>3
      <3>5. \A names : first \subseteq names /\ Closed(names) => after \subseteq names
        BY <1>6, <3>3
      <3>6. IsFiniteSet(after) /\ IsFiniteSet(before) /\ Cardinality(after) \in Nat /\ Cardinality(before) \in Nat
        <4>1. IsFiniteSet(defined)
          BY DEF defined
        <4> HIDE DEF after
        <4>2. IsFiniteSet(after) /\ IsFiniteSet(before)
          BY <3>3, <3>4, <4>1, FS_Subset
        <4> QED BY <4>2, FS_CardinalityType
      <3> HIDE DEF after
      <3>7. Closed(after) \/ Cardinality(after) >= i
        <4>1. CASE after = before
          BY <3>4, <4>1
        <4>2. CASE after # before
          <5>1. Cardinality(before) <= Cardinality(after) /\ Cardinality(before) # Cardinality(after)
            BY <3>4, <3>6, <4>2, FS_Subset
          <5>2. Cardinality(before) >= i - 1
            BY <3>3, <3>4, <4>2
          <5> QED BY <2>3, <3>6, <5>1, <5>2
        <4> QED BY <4>1, <4>2
      <3>8. Good(i)
        BY <3>2, <3>3, <3>4, <3>5, <3>7 DEF Good
      <3> QED BY <2>3, <3>8
    <2> QED BY <2>4, <2>5
  <1>8. N \in 0..N
    BY <1>1
  <1>9. Good(N)
    BY <1>7, <1>8
  <1>10. Closed(keep[N])
    <2>1. CASE Cardinality(keep[N]) >= N
      <3>1. keep[N] \subseteq defined /\ IsFiniteSet(defined)
        BY <1>9 DEF defined
      <3>2. Cardinality(keep[N]) = Cardinality(defined)
        <4>1. Cardinality(keep[N]) <= Cardinality(defined) /\ IsFiniteSet(keep[N])
          BY <3>1, FS_Subset
        <4>2. Cardinality(keep[N]) \in Nat
          BY <4>1, FS_CardinalityType
        <4> QED BY <1>1, <2>1, <4>1, <4>2
      <3>3. keep[N] = defined
        BY <3>1, <3>2, FS_Subset
      <3> QED BY <3>3 DEF Closed, IsClosed, defined
    <2> QED BY <1>9, <2>1
  <1> QED BY <1>2, <1>9, <1>10 DEF Closed, first, defined

-----------------------------------------------------------------------------
(* The report of a probe.                                                    *)

\* What the counts rest on: each call was to one of the two methods, and what was
\* not read neither agreed nor disagreed.
IsRow(row) ==
    /\ row.method \in {"full", "plain"}
    /\ row.about.votes \in Seq(STRING)
    /\ row.about.result = MISSING => ~disagreed(row) /\ ~first_round(row)

\* A call that was not read shows no reading, and neither agreed nor disagreed.
LEMMA NotReadIs ==
    ASSUME NEW row, row.about = NotRead
    PROVE  ~judge(row) /\ (row.method \in {"full", "plain"} => IsRow(row))
  <1>1. /\ NotRead.reading.fields = MISSING /\ NotRead.votes = <<>>
        /\ NotRead.result = MISSING
    BY DEF NotRead, NoReading
  <1>2. ~judge(row)
    BY <1>1, ResultsAssumption DEF judge
  <1>3. row.about.votes = <<>> /\ row.about.result = MISSING
    BY <1>1
  <1>4. ~disagreed(row)
    BY <1>3 DEF disagreed, SPLIT, MISSING
  <1>5. ~first_round(row)
    BY <1>3 DEF first_round, AGREED, MISSING
  <1>6. row.about.votes \in Seq(STRING)
    BY <1>3
  <1> QED BY <1>2, <1>4, <1>5, <1>6 DEF IsRow

\* A row tells of its call, whatever reads about it failed.
LEMMA RowIsOfTheCall ==
    ASSUME NEW call \in Calls
    PROVE  LET row == read_row(call.run, call.answers) IN
           /\ OfTheCall(row, call)
           /\ IsRow(row)
  <1> DEFINE run == call.run
             answers == call.answers
             row == read_row(run, answers)
  <1>1. /\ run.method \in {"full", "plain"} /\ answers.stored # MISSING
        /\ answers.data.result # MISSING /\ answers.data.votes \in Seq(STRING)
    BY AlgorithmsAssumption
  <1> HIDE DEF run, answers
  <1>2. row.body = run.body /\ row.method = run.method
    BY DEF read_row, Row
  <1>3. CASE ~run.tx
    <2>1. row.about = NotRead /\ row.notes = {"no consensus tx"}
      BY <1>3 DEF read_row, Row
    <2> HIDE DEF row
    <2>2. ~judge(row) /\ IsRow(row)
      BY <1>1, <1>2, <2>1, NotReadIs
    <2> QED BY <1>3, <2>1, <2>2 DEF OfTheCall, Known, run, answers, row
  <1>4. CASE run.tx /\ ~answers.came
    <2>1. row.about = NotRead /\ "unreadable" \in row.notes
      BY <1>4 DEF read_row, Row
    <2> HIDE DEF row
    <2>2. ~judge(row) /\ IsRow(row)
      BY <1>1, <1>2, <2>1, NotReadIs
    <2> QED BY <1>4, <2>1, <2>2 DEF OfTheCall, Known, run, answers, row
  <1>5. CASE run.tx /\ answers.came
    <2>1. row.about = Stored(decode_transaction(answers.data), answers.stored)
      BY <1>5 DEF read_row, Row
    <2>2. /\ answers.stored # RAISES => row.about.status = answers.stored
          /\ row.about.result = answers.data.result /\ row.about.votes = answers.data.votes
          /\ row.about.reading = answers.data.reading
      BY <2>1 DEF Stored, decode_transaction
    <2>3. answers.stored = RAISES => "unreadable" \in row.notes
      BY <1>5 DEF read_row, Row
    <2>4. judge(row) => ((answers.data.reading.inj = MISSING) <=> run.method = "plain")
      BY <1>1, <1>2, <2>2 DEF judge, Shaped, MISSING
    <2>5. IsRow(row)
      BY <1>1, <1>2, <2>2 DEF IsRow
    <2> HIDE DEF row
    <2> QED BY <1>1, <1>5, <2>2, <2>3, <2>4, <2>5 DEF OfTheCall, Known, run, answers, row
  <1> QED BY <1>3, <1>4, <1>5 DEF run, answers

\* The rows of a report, of calls however many.
AreRows(rows) ==
    /\ Len(rows) \in Nat /\ DOMAIN rows = 1..Len(rows)
    /\ \A i \in DOMAIN rows : IsRow(rows[i])

\* What is counted under a key: calls, and for violations their votes.
CountedAs(row, key) ==
    CASE key = "runs" -> TRUE
      [] key = "read" -> row.about.result # MISSING
      [] key = "correct" -> judge(row)
      [] key = "first_round" -> row.about.result # MISSING /\ first_round(row)
      [] key = "disagreed" -> row.about.result # MISSING /\ disagreed(row)
      [] key = "undetermined" -> row.about.result # MISSING /\ undetermined(row)
      [] OTHER -> FALSE

\* What the report counts under a key: calls, or the rules they broke.
UnderKey(rows, S, key) ==
    IF key = "violations"
    THEN UNION {{i} \X violations(rows[i]) : i \in {j \in S : rows[j].about.result # MISSING}}
    ELSE {i \in S : CountedAs(rows[i], key)}

\* A count is the size of what is under its key.
LEMMA CountIs ==
    ASSUME NEW rows, NEW S, NEW key \in Totals
    PROVE  _counts(rows, S)[key] = Cardinality(UnderKey(rows, S, key))
  <1> DEFINE read == {i \in S : rows[i].about.result # MISSING}
             c == _counts(rows, S)
  <1>1. /\ c.runs = Cardinality(S) /\ c.read = Cardinality(read)
        /\ c.correct = Cardinality({i \in S : judge(rows[i])})
        /\ c.first_round = Cardinality({i \in read : first_round(rows[i])})
        /\ c.disagreed = Cardinality({i \in read : disagreed(rows[i])})
        /\ c.undetermined = Cardinality({i \in read : undetermined(rows[i])})
        /\ c.violations = Cardinality(UNION {{i} \X violations(rows[i]) : i \in read})
    BY DEF _counts
  <1>2. UnderKey(rows, S, "violations") = UNION {{i} \X violations(rows[i]) : i \in read}
    BY DEF UnderKey
  <1>3. /\ UnderKey(rows, S, "runs") = S /\ UnderKey(rows, S, "read") = read
        /\ UnderKey(rows, S, "correct") = {i \in S : judge(rows[i])}
    BY DEF UnderKey, CountedAs
  <1>4. /\ UnderKey(rows, S, "first_round") = {i \in read : first_round(rows[i])}
        /\ UnderKey(rows, S, "disagreed") = {i \in read : disagreed(rows[i])}
        /\ UnderKey(rows, S, "undetermined") = {i \in read : undetermined(rows[i])}
    BY DEF UnderKey, CountedAs
  <1> HIDE DEF c, read
  <1>5. \A k \in Totals : c[k] = Cardinality(UnderKey(rows, S, k))
    BY <1>1, <1>2, <1>3, <1>4 DEF Totals
  <1> QED BY <1>5 DEF c

\* It is of finitely many.
LEMMA UnderIsFinite ==
    ASSUME NEW rows, NEW S \in SUBSET DOMAIN rows, NEW key, AreRows(rows)
    PROVE  /\ IsFiniteSet(UnderKey(rows, S, key))
           /\ Cardinality(UnderKey(rows, S, key)) \in Nat
  <1>1. IsFiniteSet(S)
    <2>1. PICK n \in Nat : n = Len(rows)
      BY DEF AreRows
    <2>2. IsFiniteSet(1..n)
      BY FS_Interval
    <2>3. S \in SUBSET (1..n)
      BY <2>1 DEF AreRows
    <2> QED BY <2>2, <2>3, FS_Subset
  <1>2. CASE key # "violations"
    <2>1. UnderKey(rows, S, key) \in SUBSET S
      BY <1>2 DEF UnderKey
    <2> QED BY <1>1, <2>1, FS_Subset, FS_CardinalityType
  <1>3. CASE key = "violations"
    <2> DEFINE read == {j \in S : rows[j].about.result # MISSING}
               Votes(i) == {i} \X violations(rows[i])
               parts == {Votes(i) : i \in read}
    <2>1. IsFiniteSet(read)
      BY <1>1, FS_Subset
    <2>2. \A i \in read : IsFiniteSet(Votes(i))
      <3> TAKE i \in read
      <3>1. rows[i].about.votes \in Seq(STRING)
        BY DEF AreRows, IsRow
      <3>2. PICK m \in Nat : m = Len(rows[i].about.votes)
        BY <3>1, LenProperties
      <3>3. IsFiniteSet(1..m)
        BY FS_Interval
      <3>4. violations(rows[i]) \in SUBSET (1..m)
        BY <3>1, <3>2 DEF violations
      <3>5. IsFiniteSet(violations(rows[i]))
        BY <3>3, <3>4, FS_Subset
      <3>6. IsFiniteSet({i})
        BY FS_Singleton
      <3> QED BY <3>5, <3>6, FS_Product
    <2>3. IsFiniteSet(parts)
      <3> DEFINE f == [i \in read |-> Votes(i)]
      <3> HIDE DEF read, Votes
      <3>1. f \in Surjection(read, parts)
        BY DEF Surjection
      <3> HIDE DEF f, parts
      <3> QED BY <2>1, <3>1, FS_Surjection
    <2>4. IsFiniteSet(UNION parts)
      BY <2>2, <2>3, FS_UNION
    <2>5. UnderKey(rows, S, key) = UNION parts
      BY <1>3 DEF UnderKey
    <2> QED BY <2>4, <2>5, FS_CardinalityType
  <1> QED BY <1>2, <1>3

\* Counts of calls that are split add up.
LEMMA CountsAdd ==
    ASSUME NEW rows, NEW S \in SUBSET DOMAIN rows, NEW T \in SUBSET DOMAIN rows, NEW key \in Totals,
           AreRows(rows), S \cap T = {}
    PROVE  _counts(rows, S \cup T)[key] = _counts(rows, S)[key] + _counts(rows, T)[key]
  <1> DEFINE A == UnderKey(rows, S, key)
             B == UnderKey(rows, T, key)
  <1>1. UnderKey(rows, S \cup T, key) = A \cup B
    <2>1. CASE key # "violations"
      BY <2>1 DEF UnderKey
    <2>2. CASE key = "violations"
      <3> DEFINE Votes(i) == {i} \X violations(rows[i])
                 Answered(U) == {j \in U : rows[j].about.result # MISSING}
      <3>1. Answered(S \cup T) = Answered(S) \cup Answered(T)
        OBVIOUS
      <3>2. \A U : UnderKey(rows, U, key) = UNION {Votes(i) : i \in Answered(U)}
        BY <2>2 DEF UnderKey
      <3> HIDE DEF Votes, Answered
      <3>3. UNION {Votes(i) : i \in Answered(S \cup T)}
              = (UNION {Votes(i) : i \in Answered(S)}) \cup (UNION {Votes(i) : i \in Answered(T)})
        BY <3>1
      <3> QED BY <3>2, <3>3
    <2> QED BY <2>1, <2>2
  <1>2. A \cap B = {}
    <2>1. CASE key # "violations"
      BY <2>1 DEF UnderKey
    <2>2. CASE key = "violations"
      <3>1. \A p \in A : p[1] \in S
        BY <2>2 DEF UnderKey
      <3>2. \A p \in B : p[1] \in T
        BY <2>2 DEF UnderKey
      <3> HIDE DEF A, B
      <3> QED BY <3>1, <3>2
    <2> QED BY <2>1, <2>2
  <1>3. IsFiniteSet(A) /\ IsFiniteSet(B) /\ Cardinality(A) \in Nat /\ Cardinality(B) \in Nat
    BY UnderIsFinite
  <1>4. /\ _counts(rows, S \cup T)[key] = Cardinality(A \cup B)
        /\ _counts(rows, S)[key] = Cardinality(A)
        /\ _counts(rows, T)[key] = Cardinality(B)
    BY <1>1, CountIs
  <1> HIDE DEF A, B
  <1>5. Cardinality(A \cup B) = Cardinality(A) + Cardinality(B)
    <2>1. Cardinality(A \cap B) = 0
      BY <1>2, FS_EmptySet
    <2>2. Cardinality(A \cup B) = Cardinality(A) + Cardinality(B) - Cardinality(A \cap B)
      BY <1>3, FS_Union
    <2> QED BY <1>3, <2>1, <2>2
  <1> QED BY <1>3, <1>4, <1>5

\* Two bodies are not the same one, and each is one of them.
LEMMA BodiesAre ==
    /\ Len(Bodies) \in Nat
    /\ \A k \in 1..Len(Bodies) : Bodies[k] \in DOMAIN EXPECTED
    /\ \A body \in DOMAIN EXPECTED : \E k \in 1..Len(Bodies) : body = Bodies[k]
    /\ \A j, k \in 1..Len(Bodies) : Bodies[j] = Bodies[k] => j = k
  <1>1. Bodies \in Seq(DOMAIN EXPECTED)
    BY AlgorithmsAssumption
  <1>2. Len(Bodies) \in Nat /\ DOMAIN Bodies = 1..Len(Bodies)
    BY <1>1, LenProperties
  <1>3. \A k \in 1..Len(Bodies) : Bodies[k] \in DOMAIN EXPECTED
    BY <1>1
  <1> QED BY <1>2, <1>3, AlgorithmsAssumption

\* A function that grows from 0 by what each body adds.
Accumulates(g, per_body, method, key) ==
    /\ g[0] = 0
    /\ \A k \in 1..Len(Bodies) : g[k] = g[k - 1] + per_body[Bodies[k]][method][key]

\* A sum over the bodies is what any such function reaches.
LEMMA SumOverBodies ==
    ASSUME NEW per_body, NEW method, NEW key, NEW g, Accumulates(g, per_body, method, key)
    PROVE  OverBodies(per_body, method, key) = g[Len(Bodies)]
  <1> USE DEF Accumulates
  <1> DEFINE n == Len(Bodies)
             upTo == CHOOSE f : f = [k \in 0..n |-> IF k = 0 THEN 0 ELSE f[k - 1] + per_body[Bodies[k]][method][key]]
  <1>1. n \in Nat
    BY BodiesAre
  <1>2. OverBodies(per_body, method, key) = upTo[n]
    BY DEF OverBodies
  <1> DEFINE h == [k \in 0..n |-> g[k]]
  <1>3. h = [k \in 0..n |-> IF k = 0 THEN 0 ELSE h[k - 1] + per_body[Bodies[k]][method][key]]
    <2>1. \A k \in 0..n : h[k] = IF k = 0 THEN 0 ELSE h[k - 1] + per_body[Bodies[k]][method][key]
      <3> HIDE DEF upTo
      <3> TAKE k \in 0..n
      <3>1. k # 0 => k \in 1..Len(Bodies) /\ k - 1 \in 0..n
        BY <1>1
      <3> QED BY <3>1
    <2>2. h = [k \in 0..n |-> h[k]]
      BY DEF h
    <2> HIDE DEF n, h
    <2> QED BY <2>1, <2>2
  <1>4. upTo = [k \in 0..n |-> IF k = 0 THEN 0 ELSE upTo[k - 1] + per_body[Bodies[k]][method][key]]
    <2>1. \E f : f = [k \in 0..n |-> IF k = 0 THEN 0 ELSE f[k - 1] + per_body[Bodies[k]][method][key]]
      BY <1>3
    <2> QED BY <2>1
  <1> HIDE DEF upTo, n
  <1>5. \A k \in 0..n : upTo[k] = IF k = 0 THEN 0 ELSE upTo[k - 1] + per_body[Bodies[k]][method][key]
    BY <1>4
  <1> DEFINE T == {k \in 0..n : upTo[k] # g[k]}
  <1>6. T = {}
    <2> SUFFICES ASSUME T # {} PROVE FALSE
      OBVIOUS
    <2>1. T \in SUBSET Nat
      BY <1>1
    <2> HIDE DEF T
    <2>2. PICK k \in T : \A j \in T : k <= j
      BY <2>1, Least
    <2>3. k \in Nat /\ k <= n /\ upTo[k] # g[k]
      BY <1>1, <2>2 DEF T
    <2>4. k # 0
      BY <1>1, <1>5, <2>3
    <2>5. k - 1 \in 0..n /\ k - 1 \notin T
      BY <1>1, <2>1, <2>2, <2>3, <2>4
    <2>6. upTo[k - 1] = g[k - 1]
      BY <2>5 DEF T
    <2>7. k \in 0..n /\ k \in 1..n
      BY <1>1, <2>3, <2>4
    <2>8. upTo[k] = upTo[k - 1] + per_body[Bodies[k]][method][key]
      BY <1>5, <2>4, <2>7
    <2>9. g[k] = g[k - 1] + per_body[Bodies[k]][method][key]
      BY <2>7 DEF n
    <2> QED BY <2>3, <2>6, <2>8, <2>9
  <1>7. upTo[n] = g[n]
    BY <1>1, <1>6
  <1> QED BY <1>2, <1>7 DEF n

\* The calls of a method, and those of them that were about some bodies.
Of(rows, method) == {i \in DOMAIN rows : rows[i].method = method}
About(rows, method, S) == {i \in Of(rows, method) : rows[i].body \in S}

\* What a summary counts of the calls it is given.
LEMMA SummaryIs ==
    ASSUME NEW rows, NEW method \in {"full", "plain"}
    PROVE  /\ summarize(rows).per_method[method].all = _counts(rows, Of(rows, method))
           /\ summarize(rows).per_method[method].ordinary = _counts(rows, About(rows, method, ORDINARY))
           /\ summarize(rows).per_method[method].attacks
                = _counts(rows, {i \in Of(rows, method) : rows[i].body \notin ORDINARY})
           /\ \A body \in DOMAIN EXPECTED :
                summarize(rows).per_body[body][method] = _counts(rows, About(rows, method, {body}))
  <1>1. \A of, body : About(rows, of, {body}) = {i \in Of(rows, of) : rows[i].body = body}
    BY DEF About
  <1> DEFINE sum == summarize(rows)
  <1>2. /\ sum.per_method["full"].all = _counts(rows, Of(rows, "full"))
        /\ sum.per_method["plain"].all = _counts(rows, Of(rows, "plain"))
    BY DEF summarize, Of
  <1>3. /\ sum.per_method["full"].ordinary = _counts(rows, About(rows, "full", ORDINARY))
        /\ sum.per_method["plain"].ordinary = _counts(rows, About(rows, "plain", ORDINARY))
    BY DEF summarize, Of, About
  <1>4. /\ sum.per_method["full"].attacks
             = _counts(rows, {i \in Of(rows, "full") : rows[i].body \notin ORDINARY})
        /\ sum.per_method["plain"].attacks
             = _counts(rows, {i \in Of(rows, "plain") : rows[i].body \notin ORDINARY})
    BY DEF summarize, Of
  <1>5. \A body \in DOMAIN EXPECTED :
          /\ sum.per_body[body]["full"] = _counts(rows, About(rows, "full", {body}))
          /\ sum.per_body[body]["plain"] = _counts(rows, About(rows, "plain", {body}))
    <2> TAKE body \in DOMAIN EXPECTED
    <2>1. /\ sum.per_body[body].full = _counts(rows, {i \in Of(rows, "full") : rows[i].body = body})
          /\ sum.per_body[body].plain = _counts(rows, {i \in Of(rows, "plain") : rows[i].body = body})
      BY DEF summarize, Of
    <2> HIDE DEF sum
    <2> QED BY <1>1, <2>1
  <1> HIDE DEF sum
  <1>6. method = "full" \/ method = "plain"
    OBVIOUS
  <1> QED BY <1>2, <1>3, <1>4, <1>5, <1>6 DEF sum

\* Nothing is counted of no calls.
LEMMA NothingIsCounted ==
    ASSUME NEW rows, NEW key \in Totals
    PROVE  _counts(rows, {})[key] = 0
  <1>1. UnderKey(rows, {}, key) = {}
    BY DEF UnderKey
  <1> QED BY <1>1, CountIs, FS_EmptySet

\* Every call was about a body with an expected answer.
AreExpected(rows) == \A i \in DOMAIN rows : rows[i].body \in DOMAIN EXPECTED

\* The counts of the bodies add up to those of the method.
LEMMA BodiesAddUp ==
    ASSUME NEW rows, NEW method \in {"full", "plain"}, NEW key \in Totals,
           AreRows(rows), AreExpected(rows)
    PROVE  OverBodies(summarize(rows).per_body, method, key) = summarize(rows).per_method[method].all[key]
  <1>1. ASSUME NEW A \in SUBSET DOMAIN rows, NEW B \in SUBSET DOMAIN rows, A \cap B = {}
        PROVE  _counts(rows, A \cup B)[key] = _counts(rows, A)[key] + _counts(rows, B)[key]
    BY <1>1, CountsAdd
  <1> DEFINE N == Len(Bodies)
             First(k) == {Bodies[j] : j \in 1..k}
             count(S) == _counts(rows, About(rows, method, S))[key]
             g == [k \in 0..N |-> count(First(k))]
             per_body == summarize(rows).per_body
  <1>2. N \in Nat
    BY BodiesAre
  <1>3. g[0] = 0
    <2>1. First(0) = {}
      OBVIOUS
    <2>2. About(rows, method, First(0)) = {}
      BY <2>1 DEF About
    <2>3. count(First(0)) = 0
      BY <2>2, NothingIsCounted
    <2> HIDE DEF count, First
    <2> QED BY <1>2, <2>3
  <1>4. ASSUME NEW k \in 1..N
        PROVE  g[k] = g[k - 1] + per_body[Bodies[k]][method][key]
    <2>1. k \in 0..N /\ k - 1 \in 0..N
      BY <1>2
    <2>2. First(k) = First(k - 1) \cup {Bodies[k]}
      <3>1. 1..k = (1..k - 1) \cup {k}
        BY <1>2
      <3> QED BY <3>1
    <2>3. Bodies[k] \notin First(k - 1)
      <3>1. \A j \in 1..k - 1 : j \in 1..N /\ j # k
        BY <1>2
      <3> QED BY <3>1, BodiesAre
    <2> DEFINE S == About(rows, method, First(k - 1))
               T == About(rows, method, {Bodies[k]})
    <2> HIDE DEF First
    <2>4. S \cap T = {} /\ About(rows, method, First(k)) = S \cup T
      BY <2>2, <2>3 DEF About
    <2>5. S \in SUBSET DOMAIN rows /\ T \in SUBSET DOMAIN rows
      BY DEF About, Of, AreRows
    <2>6. Bodies[k] \in DOMAIN EXPECTED
      BY BodiesAre
    <2>7. per_body[Bodies[k]][method] = _counts(rows, T)
      <3>1. \A body \in DOMAIN EXPECTED :
              summarize(rows).per_body[body][method] = _counts(rows, About(rows, method, {body}))
        BY SummaryIs
      <3> QED BY <2>6, <3>1
    <2> HIDE DEF S, T
    <2>8. _counts(rows, S \cup T)[key] = _counts(rows, S)[key] + _counts(rows, T)[key]
      BY <1>1, <2>4, <2>5
    <2>9. count(First(k)) = count(First(k - 1)) + per_body[Bodies[k]][method][key]
      <3> HIDE DEF per_body
      <3> QED BY <2>4, <2>7, <2>8 DEF S
    <2> HIDE DEF count, per_body
    <2> QED BY <2>1, <2>9
  <1>5. g[N] = summarize(rows).per_method[method].all[key]
    <2>1. First(N) = DOMAIN EXPECTED
      <3>1. \A body \in First(N) : body \in DOMAIN EXPECTED
        BY BodiesAre
      <3>2. \A body \in DOMAIN EXPECTED : body \in First(N)
        BY BodiesAre
      <3> HIDE DEF First
      <3> QED BY <3>1, <3>2
    <2>2. About(rows, method, First(N)) = Of(rows, method)
      BY <2>1 DEF About, Of, AreExpected
    <2>3. count(First(N)) = summarize(rows).per_method[method].all[key]
      <3>1. summarize(rows).per_method[method].all = _counts(rows, Of(rows, method))
        BY SummaryIs
      <3> QED BY <2>2, <3>1
    <2> HIDE DEF count, First
    <2> QED BY <1>2, <2>3
  <1> HIDE DEF g, per_body
  <1>6. OverBodies(per_body, method, key) = g[Len(Bodies)]
    <2>1. \A k \in 1..Len(Bodies) : g[k] = g[k - 1] + per_body[Bodies[k]][method][key]
      BY <1>4
    <2> HIDE DEF N
    <2>2. Accumulates(g, per_body, method, key)
      BY <1>3, <2>1 DEF Accumulates
    <2> QED BY <2>2, SumOverBodies
  <1> QED BY <1>5, <1>6 DEF per_body

\* The counts of a method are those of its ordinary bodies and of the attacks.
LEMMA SplitAddsUp ==
    ASSUME NEW rows, NEW method \in {"full", "plain"}, NEW key \in Totals, AreRows(rows)
    PROVE  LET counts == summarize(rows).per_method[method]
           IN  counts.ordinary[key] + counts.attacks[key] = counts.all[key]
  <1> DEFINE A == About(rows, method, ORDINARY)
             B == {i \in Of(rows, method) : rows[i].body \notin ORDINARY}
  <1>1. A \in SUBSET DOMAIN rows /\ B \in SUBSET DOMAIN rows /\ A \cap B = {} /\ Of(rows, method) = A \cup B
    BY DEF About, Of
  <1>2. /\ summarize(rows).per_method[method].all = _counts(rows, Of(rows, method))
        /\ summarize(rows).per_method[method].ordinary = _counts(rows, A)
        /\ summarize(rows).per_method[method].attacks = _counts(rows, B)
    BY SummaryIs
  <1> HIDE DEF A, B
  <1>3. _counts(rows, A \cup B)[key] = _counts(rows, A)[key] + _counts(rows, B)[key]
    BY <1>1, CountsAdd
  <1> QED BY <1>1, <1>2, <1>3

\* Something is counted where there is something.
LEMMA SomeAreCounted ==
    ASSUME NEW rows, NEW S \in SUBSET DOMAIN rows, NEW key \in Totals, AreRows(rows)
    PROVE  _counts(rows, S)[key] > 0 <=> UnderKey(rows, S, key) # {}
  <1>1. IsFiniteSet(UnderKey(rows, S, key)) /\ Cardinality(UnderKey(rows, S, key)) \in Nat
    BY UnderIsFinite
  <1>2. Cardinality(UnderKey(rows, S, key)) = 0 <=> UnderKey(rows, S, key) = {}
    BY <1>1, FS_EmptySet
  <1>3. _counts(rows, S)[key] = Cardinality(UnderKey(rows, S, key))
    BY CountIs
  <1> QED BY <1>1, <1>2, <1>3

\* A body is told apart when it was disagreed about and read at once.
LEMMA ToldApart ==
    ASSUME NEW rows, NEW body \in DOMAIN EXPECTED, AreRows(rows)
    PROVE  LET counts == summarize(rows).per_body[body] IN
           counts.full_disagreed_plain_agreed <=> counts.full.disagreed > 0 /\ counts.plain.first_round > 0
  <1> DEFINE Full == About(rows, "full", {body})
             Plain == About(rows, "plain", {body})
             counts == summarize(rows).per_body[body]
  <1>1. Full \in SUBSET DOMAIN rows /\ Plain \in SUBSET DOMAIN rows
    BY DEF About, Of
  <1>2. counts.full_disagreed_plain_agreed <=> /\ \E i \in Full : disagreed(rows[i])
                                               /\ \E i \in Plain : first_round(rows[i])
    BY DEF summarize, About, Of
  <1>3. counts["full"] = _counts(rows, Full) /\ counts["plain"] = _counts(rows, Plain)
    BY SummaryIs
  <1>4. \A i \in DOMAIN rows : rows[i].about.result = MISSING => ~disagreed(rows[i]) /\ ~first_round(rows[i])
    BY DEF AreRows, IsRow
  <1> HIDE DEF Full, Plain, counts
  <1>5. UnderKey(rows, Full, "disagreed") # {} <=> \E i \in Full : disagreed(rows[i])
    BY <1>1, <1>4 DEF UnderKey, CountedAs
  <1>6. UnderKey(rows, Plain, "first_round") # {} <=> \E i \in Plain : first_round(rows[i])
    BY <1>1, <1>4 DEF UnderKey, CountedAs
  <1>7. "disagreed" \in Totals /\ "first_round" \in Totals
    BY DEF Totals
  <1>8. _counts(rows, Full)["disagreed"] > 0 <=> \E i \in Full : disagreed(rows[i])
    BY <1>1, <1>5, <1>7, SomeAreCounted
  <1>9. _counts(rows, Plain)["first_round"] > 0 <=> \E i \in Plain : first_round(rows[i])
    BY <1>1, <1>6, <1>7, SomeAreCounted
  <1> QED BY <1>2, <1>3, <1>8, <1>9 DEF counts

\* The calls that were read, of either method, and those that were not are all.
LEMMA ReadsAddUp ==
    ASSUME NEW rows, AreRows(rows)
    PROVE  summarize(rows).per_method["full"].all.read + summarize(rows).per_method["plain"].all.read
             + summarize(rows).unread = Len(rows)
  <1> DEFINE Full == {i \in Of(rows, "full") : rows[i].about.result # MISSING}
             Plain == {i \in Of(rows, "plain") : rows[i].about.result # MISSING}
             Unread == {i \in DOMAIN rows : rows[i].about.result = MISSING}
             sum == summarize(rows)
  <1>1. sum.unread = Cardinality(Unread)
    BY DEF summarize
  <1>2. sum.per_method["full"].all.read = Cardinality(Full)
    <2>1. sum.per_method["full"].all = _counts(rows, Of(rows, "full"))
      BY SummaryIs
    <2>2. \A S : _counts(rows, S).read = Cardinality({i \in S : rows[i].about.result # MISSING})
      BY DEF _counts
    <2> QED BY <2>1, <2>2
  <1>3. sum.per_method["plain"].all.read = Cardinality(Plain)
    <2>1. sum.per_method["plain"].all = _counts(rows, Of(rows, "plain"))
      BY SummaryIs
    <2>2. \A S : _counts(rows, S).read = Cardinality({i \in S : rows[i].about.result # MISSING})
      BY DEF _counts
    <2> QED BY <2>1, <2>2
  <1>4. PICK n \in Nat : n = Len(rows) /\ DOMAIN rows = 1..n
    BY DEF AreRows
  <1>5. Full \cup Plain \cup Unread = 1..n
    BY <1>4 DEF AreRows, IsRow, Of
  <1>6. Full \cap Plain = {} /\ (Full \cup Plain) \cap Unread = {}
    BY DEF Of
  <1>7. Full \in SUBSET (1..n) /\ Plain \in SUBSET (1..n) /\ Unread \in SUBSET (1..n)
    BY <1>4 DEF Of
  <1> HIDE DEF Full, Plain, Unread, sum
  <1>8. IsFiniteSet(1..n) /\ Cardinality(1..n) = n
    BY FS_Interval
  <1>9. IsFiniteSet(Full) /\ IsFiniteSet(Plain) /\ IsFiniteSet(Unread)
    BY <1>7, <1>8, FS_Subset
  <1>10. /\ IsFiniteSet(Full \cup Plain)
         /\ Cardinality(Full \cup Plain) = Cardinality(Full) + Cardinality(Plain)
    <2>1. /\ IsFiniteSet(Full \cup Plain)
          /\ Cardinality(Full \cup Plain) = Cardinality(Full) + Cardinality(Plain) - Cardinality(Full \cap Plain)
      BY <1>9, FS_Union
    <2>2. Cardinality(Full \cap Plain) = 0
      BY <1>6, FS_EmptySet
    <2>3. Cardinality(Full) \in Nat /\ Cardinality(Plain) \in Nat
      BY <1>9, FS_CardinalityType
    <2> QED BY <2>1, <2>2, <2>3
  <1>11. Cardinality(1..n) = Cardinality(Full \cup Plain) + Cardinality(Unread)
    <2> DEFINE Answered == Full \cup Plain
    <2> HIDE DEF Answered
    <2>1. Answered \cup Unread = 1..n /\ Answered \cap Unread = {} /\ IsFiniteSet(Answered)
      BY <1>5, <1>6, <1>10 DEF Answered
    <2>2. Cardinality(Answered \cup Unread) = Cardinality(Answered) + Cardinality(Unread) - Cardinality(Answered \cap Unread)
      BY <1>9, <2>1, FS_Union
    <2>3. Cardinality(Answered \cap Unread) = 0
      BY <2>1, FS_EmptySet
    <2>4. Cardinality(Answered) \in Nat /\ Cardinality(Unread) \in Nat
      BY <1>9, <2>1, FS_CardinalityType
    <2>5. Cardinality(Answered \cup Unread) = Cardinality(Answered) + Cardinality(Unread)
      BY <2>2, <2>3, <2>4
    <2> QED BY <2>1, <2>5 DEF Answered
  <1>12. Cardinality(Full) \in Nat /\ Cardinality(Plain) \in Nat /\ Cardinality(Unread) \in Nat
    BY <1>9, FS_CardinalityType
  <1>13. sum.per_method["full"].all.read + sum.per_method["plain"].all.read + sum.unread = Len(rows)
    BY <1>1, <1>2, <1>3, <1>4, <1>8, <1>10, <1>11, <1>12
  <1> QED BY <1>13 DEF sum

\* ReportIsOfTheChain holds of every log, however long.
LEMMA LogsAreReported ==
    ASSUME input \in Seq(Calls)
    PROVE  ReportIsOfTheChain
  <1> DEFINE rows == [i \in DOMAIN input |-> read_row(input[i].run, input[i].answers)]
  <1>1. PICK n \in Nat : n = Len(input) /\ DOMAIN input = 1..n
    BY LenProperties
  <1>2. \A i \in DOMAIN input : input[i] \in Calls /\ rows[i] = read_row(input[i].run, input[i].answers)
    OBVIOUS
  <1>3. DOMAIN rows = DOMAIN input /\ Len(rows) = n
    BY <1>1
  <1> HIDE DEF rows
  <1>4. \A i \in DOMAIN rows : OfTheCall(rows[i], input[i])
    BY <1>2, <1>3, RowIsOfTheCall
  <1>5. \A i \in DOMAIN rows : Known(input[i]) => rows[i].about.status = input[i].answers.stored
    BY <1>4 DEF OfTheCall
  <1>6. AreRows(rows)
    <2>1. \A i \in DOMAIN rows : IsRow(rows[i])
      BY <1>2, <1>3, RowIsOfTheCall
    <2> QED BY <1>1, <1>3, <2>1 DEF AreRows
  <1>7. OfTheSameCalls(rows, summarize(rows))
    <2>1. \A method \in {"full", "plain"}, key \in Totals :
            (\A i \in DOMAIN rows : rows[i].body \in DOMAIN EXPECTED) =>
              OverBodies(summarize(rows).per_body, method, key) = summarize(rows).per_method[method].all[key]
      BY <1>6, BodiesAddUp DEF AreExpected
    <2>2. \A method \in {"full", "plain"}, key \in Totals :
            summarize(rows).per_method[method].ordinary[key] + summarize(rows).per_method[method].attacks[key]
              = summarize(rows).per_method[method].all[key]
      BY <1>6, SplitAddsUp
    <2>3. \A body \in DOMAIN EXPECTED :
            LET counts == summarize(rows).per_body[body] IN
            counts.full_disagreed_plain_agreed <=> counts.full.disagreed > 0 /\ counts.plain.first_round > 0
      BY <1>6, ToldApart
    <2>4. summarize(rows).per_method["full"].all.read + summarize(rows).per_method["plain"].all.read
             + summarize(rows).unread = Len(rows)
      BY <1>6, ReadsAddUp
    <2> QED BY <2>1, <2>2, <2>3, <2>4 DEF OfTheSameCalls
  <1>8. (\A i \in DOMAIN rows : Known(input[i])) =>
          summarize(rows).not_finalized = Cardinality({i \in DOMAIN input : input[i].answers.stored # "FINALIZED"})
    <2> SUFFICES ASSUME \A i \in DOMAIN rows : Known(input[i])
                 PROVE  summarize(rows).not_finalized
                          = Cardinality({i \in DOMAIN input : input[i].answers.stored # "FINALIZED"})
      OBVIOUS
    <2>1. summarize(rows).not_finalized
            = Cardinality({i \in DOMAIN rows : rows[i].about.status \notin {MISSING, "FINALIZED"}})
      BY DEF summarize
    <2>2. \A i \in DOMAIN input : rows[i].about.status = input[i].answers.stored /\ input[i].answers.stored # MISSING
      BY <1>2, <1>3, <1>5, AlgorithmsAssumption
    <2>3. {i \in DOMAIN rows : rows[i].about.status \notin {MISSING, "FINALIZED"}}
            = {i \in DOMAIN input : input[i].answers.stored # "FINALIZED"}
      BY <1>3, <2>2
    <2> QED BY <2>1, <2>3
  <1> QED BY <1>4, <1>7, <1>8 DEF ReportIsOfTheChain, rows

-----------------------------------------------------------------------------
(* AlgorithmsSpec.                                                           *)

\* Every input is made as it should be: a situation, texts, bytes (damaged or as
\* they were published), a date with the days that unix_time counts to it, or a
\* log of calls.
InputsAreMade ==
    /\ kind \in {"call", "name", "key", "date", "report"}
    /\ kind = "call" => beside \in Situations
    /\ kind = "name" => input \in Seq(NameAlphabet) /\ beside \in Seq(NameAlphabet)
    /\ kind = "key" => input \in Seq(Nat) /\ beside \in Nat
    /\ kind = "key" /\ beside = 0 => input \in {BareKey, PublishedKey}
    /\ kind = "date" => DateIsCounted
    /\ kind = "report" => input \in Seq(Calls)

\* They are so at the start: unix_time counts the first day of every year as the
\* calendar does.
LEMMA InputsAtFirst ==
    ASSUME InitAlgorithms
    PROVE  InputsAreMade
  <1>1. CASE kind = "call" /\ input = <<>> /\ beside \in Situations
    BY <1>1 DEF InputsAreMade
  <1>2. CASE kind = "name" /\ input = <<>> /\ beside = <<>>
    BY <1>2 DEF InputsAreMade
  <1>3. CASE kind = "key" /\ input \in {BareKey, PublishedKey} /\ beside = 0
    <2>1. BareKey \in Seq(Nat)
      BY DEF BareKey
    <2> QED BY <1>3, <2>1, PublishedBytes DEF InputsAreMade
  <1>4. CASE /\ kind = "date" /\ input = <<>>
             /\ beside \in {[y |-> y, m |-> 1, d |-> 1, days |-> DaysBefore(y)] : y \in FirstYear..LastYear}
    <2>1. PICK y \in FirstYear..LastYear : beside = [y |-> y, m |-> 1, d |-> 1, days |-> DaysBefore(y)]
      BY <1>4
    <2>2. y \in Nat /\ y >= 1970
      BY AlgorithmsAssumption
    <2>3. DaysBefore(y) = days_since_1970(y, 1, 1)
      BY <2>2, NewYear
    <2>4. days_since_1970(y, 1, 1) \in Int
      <3>1. FebruaryLast(y, 1) \in Int
        BY <2>2 DEF FebruaryLast
      <3> QED BY <3>1 DEF days_since_1970
    <2>5. MonthDays(y)[1] = 31
      BY DEF MonthDays
    <2>6. DateIsCounted
      BY <2>1, <2>2, <2>3, <2>4, <2>5 DEF DateIsCounted
    <2> QED BY <1>4, <2>6 DEF InputsAreMade
  <1>5. CASE kind = "report" /\ input = <<>> /\ beside = <<>>
    BY <1>5 DEF InputsAreMade
  <1> QED BY <1>1, <1>2, <1>3, <1>4, <1>5 DEF InitAlgorithms

\* One more character in one of the texts.
LEMMA NameIsMade ==
    ASSUME InputsAreMade, Name
    PROVE  InputsAreMade'
  <1>1. kind = "name" /\ kind' = kind /\ input \in Seq(NameAlphabet) /\ beside \in Seq(NameAlphabet)
    BY DEF InputsAreMade, Name
  <1>2. PICK c \in NameAlphabet :
          \/ input' = Append(input, c) /\ beside' = beside
          \/ beside' = Append(beside, c) /\ input' = input
    BY DEF Name
  <1>3. \A text \in Seq(NameAlphabet) : Append(text, c) \in Seq(NameAlphabet)
    OBVIOUS
  <1>4. input' \in Seq(NameAlphabet) /\ beside' \in Seq(NameAlphabet)
    BY <1>1, <1>2, <1>3
  <1> QED BY <1>1, <1>4 DEF InputsAreMade

\* One more byte of a key changed, or its last ones cut.
LEMMA KeyIsMade ==
    ASSUME InputsAreMade, Garbled
    PROVE  InputsAreMade'
  <1>1. kind = "key" /\ kind' = kind /\ input \in Seq(Nat) /\ beside \in Nat /\ beside' = beside + 1
    BY DEF InputsAreMade, Garbled
  <1>2. CASE \E i \in DOMAIN input, b \in Bytes : input' = [input EXCEPT ![i] = b]
    <2>1. PICK i \in DOMAIN input, b \in Bytes : input' = [input EXCEPT ![i] = b]
      BY <1>2
    <2>2. b \in Nat /\ i \in 1..Len(input)
      BY <1>1, AlgorithmsAssumption
    <2> QED BY <1>1, <2>1, <2>2, ExceptSeq DEF InputsAreMade
  <1>3. CASE \E n \in 0..Len(input) : input' = SubSeq(input, 1, n)
    <2>1. PICK n \in 0..Len(input) : input' = SubSeq(input, 1, n)
      BY <1>3
    <2>2. n \in Nat /\ n <= Len(input) /\ \A i \in 1..Len(input) : input[i] \in Nat
      BY <1>1
    <2>3. SubSeq(input, 1, n) \in Seq(Nat)
      BY <1>1, <2>2, SubSeqProperties
    <2> QED BY <1>1, <2>1, <2>3 DEF InputsAreMade
  <1> QED BY <1>2, <1>3 DEF Garbled

\* One more day, in the same month or on the first of the next one.
LEMMA DateIsMade ==
    ASSUME InputsAreMade, NextDay
    PROVE  InputsAreMade'
  <1>1. kind = "date" /\ kind' = kind /\ DateIsCounted
    BY DEF InputsAreMade, NextDay
  <1>2. PICK y \in Nat, m \in 1..12, d \in Nat \ {0}, days \in Int :
          beside = [y |-> y, m |-> m, d |-> d, days |-> days]
    BY <1>1 DEF DateIsCounted
  <1>3. y >= 1970 /\ d <= MonthDays(y)[m] /\ days = days_since_1970(y, m, d)
    BY <1>1, <1>2 DEF DateIsCounted
  <1>4. MonthDays(y)[m] \in 28..31
    BY <1>3, Months
  <1>5. CASE d < MonthDays(y)[m] /\ beside' = [beside EXCEPT !.d = @ + 1, !.days = @ + 1]
    <2>1. beside' = [y |-> y, m |-> m, d |-> d + 1, days |-> days + 1]
      BY <1>2, <1>5
    <2>2. days_since_1970(y, m, d + 1) = days + 1
      BY <1>3, NextDayCounts
    <2>3. d + 1 \in Nat \ {0} /\ d + 1 <= MonthDays(y)[m] /\ days + 1 \in Int
      BY <1>4, <1>5
    <2>4. DateIsCounted'
      BY <1>3, <2>1, <2>2, <2>3 DEF DateIsCounted
    <2> QED BY <1>1, <2>4 DEF InputsAreMade
  <1>6. CASE d = MonthDays(y)[m] /\ m < 12 /\ beside' = [beside EXCEPT !.d = 1, !.m = @ + 1, !.days = @ + 1]
    <2>1. beside' = [y |-> y, m |-> m + 1, d |-> 1, days |-> days + 1]
      BY <1>2, <1>6
    <2>2. days_since_1970(y, m + 1, 1) = days + 1
      BY <1>3, <1>6, NextMonthCounts
    <2>3. m + 1 \in 1..12 /\ days + 1 \in Int
      BY <1>6
    <2>4. MonthDays(y)[m + 1] \in 28..31
      BY <1>3, <2>3, Months
    <2>5. DateIsCounted'
      BY <1>3, <2>1, <2>2, <2>3, <2>4 DEF DateIsCounted
    <2> QED BY <1>1, <2>5 DEF InputsAreMade
  <1>7. \/ d < MonthDays(y)[m] /\ beside' = [beside EXCEPT !.d = @ + 1, !.days = @ + 1]
        \/ d = MonthDays(y)[m] /\ m < 12 /\ beside' = [beside EXCEPT !.d = 1, !.m = @ + 1, !.days = @ + 1]
    BY <1>2 DEF NextDay
  <1> QED BY <1>5, <1>6, <1>7

\* One more call in the log.
LEMMA LogIsMade ==
    ASSUME InputsAreMade, Collect
    PROVE  InputsAreMade'
  <1>1. kind = "report" /\ kind' = kind /\ input \in Seq(Calls)
    BY DEF InputsAreMade, Collect
  <1>2. PICK call \in Calls : input' = Append(input, call)
    BY DEF Collect
  <1>3. input' \in Seq(Calls)
    BY <1>1, <1>2
  <1> QED BY <1>1, <1>3 DEF InputsAreMade

\* Every input of a behaviour is made as it should be.
THEOREM AlgorithmsInputsAreMade == AlgorithmsSpec => []InputsAreMade
  <1>1. InitAlgorithms => InputsAreMade
    BY InputsAtFirst
  <1>2. InputsAreMade /\ [NextAlgorithms]_algorithmVars => InputsAreMade'
    <2> SUFFICES ASSUME InputsAreMade, [NextAlgorithms]_algorithmVars PROVE InputsAreMade'
      OBVIOUS
    <2>1. CASE UNCHANGED algorithmVars
      BY <2>1 DEF algorithmVars, InputsAreMade, DateIsCounted
    <2> QED BY <2>1, NameIsMade, KeyIsMade, DateIsMade, LogIsMade DEF NextAlgorithms
  <1> QED BY <1>1, <1>2, PTL DEF AlgorithmsSpec

\* The composite keys find their own, for texts of any length in any alphabet.
THEOREM KeysOfNames == AlgorithmsSpec => []KeysFindTheirOwn
  <1>1. InputsAreMade => KeysFindTheirOwn
    <2>1. kind = "name" => (InputsAreMade => KeysFindTheirOwn)
      BY TextsFindTheirOwn DEF InputsAreMade
    <2>2. kind # "name" => KeysFindTheirOwn
      BY DEF KeysFindTheirOwn
    <2> QED BY <2>1, <2>2
  <1> QED BY <1>1, AlgorithmsInputsAreMade, PTL

\* Both key readers agree, on keys of any length damaged as often as one likes.
THEOREM KeysAreReadAlike == AlgorithmsSpec => []KeyReadersAgree
  <1>1. InputsAreMade => KeyReadersAgree
    <2>1. kind = "key" => (InputsAreMade => KeyReadersAgree)
      BY BytesAreReadAlike DEF InputsAreMade
    <2>2. kind # "key" => KeyReadersAgree
      BY DEF KeyReadersAgree
    <2> QED BY <2>1, <2>2
  <1> QED BY <1>1, AlgorithmsInputsAreMade, PTL

\* unix_time and iso_date are right about every day from 1970 on.
THEOREM DatesOfTheCalendar == AlgorithmsSpec => []DatesAreCivil
  <1>1. InputsAreMade => DatesAreCivil
    BY CountedDatesAreCivil DEF InputsAreMade
  <1> QED BY <1>1, AlgorithmsInputsAreMade, PTL

\* The tools tell refusals ahead, whatever else can go wrong for them: all but
\* what the Extractors make of a record that is no dict and that dict() takes.
THEOREM RefusalsAreForetold == AlgorithmsSpec => []RefusalsAgree
  <1>1. InputsAreMade => RefusalsAgree
    <2>1. kind = "call" => (InputsAreMade => RefusalsAgree)
      BY SituationsAreForetold DEF InputsAreMade
    <2>2. kind # "call" => RefusalsAgree
      BY DEF RefusalsAgree
    <2> QED BY <2>1, <2>2
  <1> QED BY <1>1, AlgorithmsInputsAreMade, PTL

\* The report is of the chain, for a log of any length, any answers about its
\* calls and any set of bodies.
THEOREM ReportsAreOfTheChain == AlgorithmsSpec => []ReportIsOfTheChain
  <1>1. InputsAreMade => ReportIsOfTheChain
    <2>1. kind = "report" => (InputsAreMade => ReportIsOfTheChain)
      BY LogsAreReported DEF InputsAreMade
    <2>2. kind # "report" => ReportIsOfTheChain
      BY DEF ReportIsOfTheChain
    <2> QED BY <2>1, <2>2
  <1> QED BY <1>1, AlgorithmsInputsAreMade, PTL
=============================================================================
