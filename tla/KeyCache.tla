------------------------------ MODULE KeyCache ------------------------------
(* contracts/keycache/keycache_template.py: which RSA key a domain published *)
(* under a DKIM selector.  A key is read from two DNS resolvers, waits out a *)
(* quarantine as pending, and becomes active only if a second read finds it  *)
(* again.                                                                    *)
(*                                                                           *)
(* One action is one executed write; a call that raises, or that returns     *)
(* without storing anything, is no step.  keys is keyed by the DNS name      *)
(* lookup_key builds (module NameKeys): arguments that are no names find no  *)
(* record and register none.  A DER and its SHA-256 are one value.           *)

EXTENDS Naturals, Ownership, TreeMaps

CONSTANTS
    Keys,           \* DNS names of key records, <selector>._domainkey.<domain>
    Ders,           \* DERs that decode to an RSA key
    BadDer,         \* a DER that decode_spki rejects
    Absent,         \* b"": the resolver says there is no key
    NoAnswer,       \* None: the resolver says nothing
    Unreadable,     \* published raises: unsupported key record, bad base64
    NotSet,         \* "": a datetime not set yet
    QUARANTINE,     \* 24 hours in the code
    MaxTime         \* bound on the clock

ASSUME KeyCacheAssumption ==
    /\ QUARANTINE \in Nat \ {0}
    /\ MaxTime \in Nat
    /\ NotSet \notin Nat
    /\ Ders \cap {BadDer, Absent, NoAnswer, Unreadable} = {}
    /\ Absent # NoAnswer /\ Absent # Unreadable /\ NoAnswer # Unreadable
    /\ BadDer \notin {Absent, NoAnswer, Unreadable}

\* One answer from each of the two RESOLVERS.
Answers == [1..2 -> Ders \cup {BadDer, Absent, NoAnswer, Unreadable}]

PENDING == "pending"
ACTIVE  == "active"
ROTATED == "rotated"
RETIRED == "retired"

UNAVAILABLE == "resolver unavailable"
ABSENT      == "key revoked or absent"
DISAGREE    == "resolvers disagree"
UNUSABLE    == "key unusable"
CHANGED     == "key changed during quarantine"

VARIABLES
    now,            \* the datetime the next transaction will carry
    keys,           \* key name -> KeyRecord
    failures,       \* key name -> the last failed lookup and its datetime
    witnessed,      \* history: what both resolvers answered alike, and when
    ownerRetired,   \* history: the names the owner retired
    bothAnswered    \* history: both resolvers answered at the last DNS read

history == <<witnessed, ownerRetired, bothAnswered>>
vars == <<now, keys, failures, history, ownershipVars>>

Stamp == Nat \cup {NotSet}

KeyRecord == [state : {PENDING, ACTIVE, ROTATED, RETIRED}, key_sha256 : Ders,
              first_seen : Nat, activated_at : Stamp, refreshed_at : Stamp]

Failure == [at : Nat, reason : {UNAVAILABLE, ABSENT, DISAGREE, UNUSABLE, CHANGED}]

TypeOK ==
    /\ now \in Nat
    /\ DOMAIN keys \subseteq Keys
    /\ keys \in [DOMAIN keys -> KeyRecord]
    /\ DOMAIN failures \subseteq Keys
    /\ failures \in [DOMAIN failures -> Failure]
    /\ witnessed \subseteq Keys \X (Ders \cup {Absent}) \X Nat
    /\ ownerRetired \subseteq Keys
    /\ bothAnswered \in BOOLEAN
    /\ OwnershipTypeOK

Init ==
    /\ now = 0
    /\ keys = EmptyMap
    /\ failures = EmptyMap
    /\ witnessed = {}
    /\ ownerRetired = {}
    /\ bothAnswered = FALSE
    /\ OwnershipInit

-----------------------------------------------------------------------------
(* Reading a key.                                                            *)

Key(der) == [sha256 |-> der, reason |-> ""]
Fail(why) == [sha256 |-> NotSet, reason |-> why]

\* What the two answers amount to, and what the validators compare under
\* strict_eq.  A record that published cannot read ends the lookup at once,
\* before it matters whether the other resolver answers.
fetch_key(answers) ==
    IF \E r \in 1..2 : answers[r] = Unreadable THEN Fail(UNUSABLE)
    ELSE IF \E r \in 1..2 : answers[r] = NoAnswer THEN Fail(UNAVAILABLE)
    ELSE IF answers[1] # answers[2] THEN Fail(DISAGREE)
    ELSE IF answers[1] = Absent THEN Fail(ABSENT)
    ELSE IF answers[1] = BadDer THEN Fail(UNUSABLE)
    ELSE Key(answers[1])

\* History, independent of fetch_key: an answer both resolvers gave alike.
Witness(key, answers) ==
    /\ bothAnswered' = \A r \in 1..2 : answers[r] # NoAnswer
    /\ witnessed' = witnessed \cup
          {<<key, a, now>> : a \in {answers[1]} \cap {answers[2]}
                                   \cap (Ders \cup {Absent})}
    /\ UNCHANGED ownerRetired

_failed(key, reason) ==
    failures' = Put(failures, key, [at |-> now, reason |-> reason])

-----------------------------------------------------------------------------
(* Writes.                                                                   *)

\* Mutated form of register_key: the failure reason is not looked at.
register_key_unchecked(key, answers) ==
    /\ ~Has(keys, key)
    /\ keys' = Put(keys, key,
          [state |-> PENDING, key_sha256 |-> fetch_key(answers).sha256,
           first_seen |-> now, activated_at |-> NotSet, refreshed_at |-> NotSet])
    /\ Witness(key, answers)
    /\ UNCHANGED <<now, failures, ownershipVars>>

\* An existing record is returned as it is: only an unknown name is read.
register_key(key, answers) ==
    LET parts == fetch_key(answers) IN
    /\ ~Has(keys, key)
    /\ \/ /\ parts.reason # ""
          /\ _failed(key, parts.reason)
          /\ UNCHANGED keys
       \/ /\ parts.reason = ""
          /\ keys' = Put(keys, key,
                [state |-> PENDING, key_sha256 |-> parts.sha256,
                 first_seen |-> now, activated_at |-> NotSet,
                 refreshed_at |-> NotSet])
          /\ UNCHANGED failures
    /\ Witness(key, answers)
    /\ UNCHANGED <<now, ownershipVars>>

\* Mutated form of QuarantinePassed: the comparison is off by one.
QuarantinePassedEarly(key) == now + 1 >= keys[key].first_seen + QUARANTINE

QuarantinePassed(key) == now >= keys[key].first_seen + QUARANTINE

\* Mutated form of IsOutage: an outage is a failure like any other.
IsOutageNever(reason) == FALSE

IsOutage(reason) == reason = UNAVAILABLE

\* Mutated form of KeepPending: the quarantine starts over.
KeepPendingRestarted(key) == keys' = [keys EXCEPT ![key].first_seen = now]

\* The record stays as it was, its first_seen included.
KeepPending(key) == UNCHANGED keys

\* Mutated form of DropPending: the record is kept for another try.
DropPendingNever(key) == UNCHANGED keys

DropPending(key) == keys' = Delete(keys, key)

\* An outage says nothing about the key, which stays pending; any other answer
\* than the key first read drops the record; the same key activates it.
confirm_key(key, answers) ==
    LET parts == fetch_key(answers)
        same  == parts.reason = "" /\ parts.sha256 = keys[key].key_sha256 IN
    /\ Has(keys, key) /\ keys[key].state = PENDING
    /\ QuarantinePassed(key)
    /\ \/ /\ IsOutage(parts.reason)
          /\ _failed(key, parts.reason)
          /\ KeepPending(key)
       \/ /\ ~IsOutage(parts.reason) /\ ~same
          /\ DropPending(key)
          /\ _failed(key, IF parts.reason # "" THEN parts.reason ELSE CHANGED)
       \/ /\ same
          /\ keys' = [keys EXCEPT ![key].state = ACTIVE,
                                  ![key].activated_at = now,
                                  ![key].refreshed_at = now]
          /\ UNCHANGED failures
    /\ Witness(key, answers)
    /\ UNCHANGED <<now, ownershipVars>>

\* A pending key is settled by confirm_key, and retirement is terminal.
Refreshable(key) == Has(keys, key) /\ keys[key].state \notin {PENDING, RETIRED}

\* Only both resolvers reporting no key retire one; a key that comes back does
\* not undo a rotation.
refresh_key(key, answers) ==
    LET parts == fetch_key(answers) IN
    /\ Refreshable(key)
    /\ \/ /\ parts.reason = ABSENT
          /\ keys' = [keys EXCEPT ![key].state = RETIRED,
                                  ![key].refreshed_at = now]
          /\ UNCHANGED failures
       \/ /\ parts.reason \notin {ABSENT, ""}
          /\ _failed(key, parts.reason)
          /\ UNCHANGED keys
       \/ /\ parts.reason = ""
          /\ keys' = [keys EXCEPT
                ![key].refreshed_at = now,
                ![key].state = IF parts.sha256 = keys[key].key_sha256
                               THEN @ ELSE ROTATED]
          /\ UNCHANGED failures
    /\ Witness(key, answers)
    /\ UNCHANGED <<now, ownershipVars>>

retire_key(sender, key) ==
    /\ RequireOwner(sender)
    /\ Has(keys, key)
    /\ keys' = [keys EXCEPT ![key].state = RETIRED]
    /\ ownerRetired' = ownerRetired \cup {key}
    /\ UNCHANGED <<now, failures, witnessed, bothAnswered, ownershipVars>>

propose_owner(sender, candidate) ==
    /\ ProposeOwner(sender, candidate)
    /\ UNCHANGED <<now, keys, failures, history>>

accept_owner(sender) ==
    /\ AcceptOwner(sender)
    /\ UNCHANGED <<now, keys, failures, history>>

Tick ==
    /\ now < MaxTime
    /\ now' = now + 1
    /\ UNCHANGED <<keys, failures, history, ownershipVars>>

Next ==
    \/ Tick
    \/ \E key \in Keys, answers \in Answers :
         \/ register_key(key, answers)
         \/ confirm_key(key, answers)
         \/ refresh_key(key, answers)
    \/ \E sender \in Accounts :
         \/ \E key \in Keys : retire_key(sender, key)
         \/ \E candidate \in Accounts \cup {ZERO_ADDRESS} :
              propose_owner(sender, candidate)
         \/ accept_owner(sender)

Spec == Init /\ [][Next]_vars

-----------------------------------------------------------------------------
(* Properties.                                                               *)

\* Activation rests on two reads, at first_seen and at activated_at, a full
\* quarantine apart, at each of which both resolvers returned this very key.
ActiveWasReadTwice ==
    \A k \in DOMAIN keys :
        LET held == keys[k] IN
        held.activated_at # NotSet =>
            /\ <<k, held.key_sha256, held.first_seen>> \in witnessed
            /\ <<k, held.key_sha256, held.activated_at>> \in witnessed
            /\ held.activated_at >= held.first_seen + QUARANTINE

\* Between those two reads the contract never saw the resolvers agree on
\* anything else: a key that changed is refused, not kept waiting until it
\* comes back.
NoContraryRead ==
    \A k \in DOMAIN keys : keys[k].activated_at # NotSet =>
        \A w \in witnessed :
            (w[1] = k /\ keys[k].first_seen < w[3] /\ w[3] < keys[k].activated_at)
                => w[2] = keys[k].key_sha256

Rank(state) ==
    CASE state = PENDING -> 0 [] state = ACTIVE -> 1
      [] state = ROTATED -> 2 [] state = RETIRED -> 3

\* A record only moves forward, pending, active, rotated, retired, whatever
\* order the calls come in: retirement is terminal, a rotated key does not
\* come back, only a pending record can disappear, and the key under a
\* standing record and its first_seen never change.
LifecycleMovesForward ==
    [][\A k \in DOMAIN keys :
          IF Has(keys', k)
          THEN /\ Rank(keys[k].state) <= Rank(keys'[k].state)
               /\ keys'[k].key_sha256 = keys[k].key_sha256
               /\ keys'[k].first_seen = keys[k].first_seen
          ELSE keys[k].state = PENDING]_vars

\* Nothing but the owner, or both resolvers saying at once that there is no
\* key, retires a key: no outage and no single resolver can.
RetiredForCause ==
    \A k \in DOMAIN keys :
        keys[k].state = RETIRED =>
            k \in ownerRetired \/ <<k, Absent, keys[k].refreshed_at>> \in witnessed

\* A key is marked rotated only after both resolvers published another one
\* under its selector, after it was activated.
RotatedForCause ==
    \A k \in DOMAIN keys :
        keys[k].state = ROTATED =>
            \E w \in witnessed : /\ w[1] = k /\ w[2] \in Ders
                                 /\ w[2] # keys[k].key_sha256
                                 /\ w[3] >= keys[k].activated_at

\* A pending record never just disappears: the call that drops it leaves the
\* reason and its datetime in last_failure, and the reason is not an outage.
DropIsExplained ==
    [][\A k \in DOMAIN keys :
          ~Has(keys', k) => /\ Has(failures', k)
                            /\ failures'[k].at = now
                            /\ failures'[k].reason # UNAVAILABLE]_vars

\* docs/keycache.md: "When one resolver cannot be read, the other's answer is
\* not acted on, even if it reports no key or another key: the contract acts
\* on no single resolver's answer".
DropNeedsBothAnswers ==
    [][\A k \in DOMAIN keys : ~Has(keys', k) => bothAnswered']_vars

\* Somebody keeps calling confirm_key, and the resolvers keep coming back.
FairSpec ==
    /\ Spec
    /\ WF_vars(Tick)
    /\ \A key \in Keys :
         WF_vars(\E answers \in Answers :
                    /\ \A r \in 1..2 : answers[r] # NoAnswer
                    /\ confirm_key(key, answers))

\* An outage never wedges a pending key: whatever failed before, a key whose
\* quarantine can end is settled one way or the other.
PendingIsSettled ==
    \A k \in Keys :
        Has(keys, k) /\ keys[k].state = PENDING
          /\ keys[k].first_seen + QUARANTINE <= MaxTime
            ~> ~(Has(keys, k) /\ keys[k].state = PENDING)
=============================================================================
