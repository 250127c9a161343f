------------------------------ MODULE Registry -------------------------------
(* contracts/registry/registry_template.py, the first version of what Router *)
(* and KeyCache do now: the owner points names at contracts without notice,  *)
(* and a DKIM key is registered from one agreed DNS read, for good.          *)

EXTENDS Naturals, Sequences, SequencesExt, Ownership, TreeMaps

CONSTANTS
    Labels,         \* version names
    Contracts,      \* what a label can be pointed at
    KeyNames,       \* domain and selector pairs
    Ders,           \* the keys DNS can publish
    MaxHistory      \* bound on set_version

ABSENT == "absent"
UNREADABLE == "unreadable"

ASSUME RegistryAssumption ==
    /\ ABSENT \notin Ders /\ UNREADABLE \notin Ders
    /\ MaxHistory \in Nat

VARIABLES
    versions,       \* label -> contract
    history,        \* every version there was, oldest first
    keys            \* key name -> its record

registryVars == <<versions, history, keys, ownershipVars>>

RegistryInit ==
    /\ OwnershipInit
    /\ versions = EmptyMap /\ history = <<>> /\ keys = EmptyMap

set_version(sender, name, address) ==
    /\ RequireOwner(sender) /\ Len(history) < MaxHistory
    /\ versions' = Put(versions, name, address)
    /\ history' = Append(history, [name |-> name, address |-> address])
    /\ UNCHANGED <<keys, ownershipVars>>

\* What the validators can agree a DNS read says.
agree == Ders \cup {ABSENT, UNREADABLE}

\* A record is made of a key only.
Registrable == agree \cap Ders

\* Open to anyone; a name that has a record is not read again.
register_key(key) ==
    /\ ~Has(keys, key)
    /\ \E reading \in Registrable :
         keys' = Put(keys, key, [der |-> reading, retired |-> FALSE, rotated |-> FALSE])
    /\ UNCHANGED <<versions, history, ownershipVars>>

\* Mutated form of Refreshed: the record follows DNS.
Refreshed_following(held, reading) ==
    CASE reading = ABSENT -> [held EXCEPT !.retired = TRUE]
      [] reading = UNREADABLE -> held
      [] OTHER -> [held EXCEPT !.der = reading]

\* The record keeps the key that attestations were checked against.
Refreshed(held, reading) ==
    CASE reading = ABSENT -> [held EXCEPT !.retired = TRUE]
      [] reading = UNREADABLE \/ reading = held.der -> held
      [] OTHER -> [held EXCEPT !.rotated = TRUE]

\* Open to anyone; a retired key is not read again.
refresh_key(key) ==
    /\ Has(keys, key) /\ ~keys[key].retired
    /\ \E reading \in agree : keys' = Put(keys, key, Refreshed(keys[key], reading))
    /\ UNCHANGED <<versions, history, ownershipVars>>

retire_key(sender, key) ==
    /\ RequireOwner(sender) /\ Has(keys, key)
    /\ keys' = [keys EXCEPT ![key].retired = TRUE]
    /\ UNCHANGED <<versions, history, ownershipVars>>

propose_owner(sender, candidate) ==
    ProposeOwner(sender, candidate) /\ UNCHANGED <<versions, history, keys>>

accept_owner(sender) == AcceptOwner(sender) /\ UNCHANGED <<versions, history, keys>>

\* set_version is the operator's, see module Release.
RegistryNext ==
    \/ \E key \in KeyNames : register_key(key) \/ refresh_key(key)
    \/ \E sender \in Accounts :
         \/ \E key \in KeyNames : retire_key(sender, key)
         \/ \E candidate \in Accounts \cup {ZERO_ADDRESS} : propose_owner(sender, candidate)
         \/ accept_owner(sender)

-----------------------------------------------------------------------------
(* Properties.                                                               *)

Version == [name : Labels, address : Contracts]

KeyRecord == [der : Ders, retired : BOOLEAN, rotated : BOOLEAN]

\* The type invariant of the storage.
RegistryTypeOK ==
    /\ OwnershipTypeOK
    /\ DOMAIN versions \subseteq Labels /\ versions \in [DOMAIN versions -> Contracts]
    /\ history \in Seq(Version)
    /\ DOMAIN keys \subseteq KeyNames /\ keys \in [DOMAIN keys -> KeyRecord]

\* A key is for good: whatever DNS says later, no call changes the key of a
\* record, brings a retired one back or takes a flag off it, since records
\* were attested against it.
KeysAreForGood ==
    [][\A key \in DOMAIN keys :
          /\ Has(keys', key) /\ keys'[key].der = keys[key].der
          /\ keys[key].retired => keys'[key] = keys[key]
          /\ keys[key].rotated => keys'[key].rotated]_registryVars
=============================================================================
