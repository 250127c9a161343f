---------------------------- MODULE RouterProofs ----------------------------
(* What holds of the Router for every set of names, labels, addresses and    *)
(* accounts, for every delay and for histories of any length.                *)

EXTENDS RouterWatch, TLAPS

-----------------------------------------------------------------------------
(* The steps, in the forms the proofs below split them into.                 *)

\* The first address of a name.
FirstVersion(name, label, address) ==
    /\ ~Has(current, name)
    /\ ~Has(changes, name)
    /\ LabelIsFree(name, label, address)
    /\ make_current(name, label, address)
    /\ UNCHANGED <<changes, now, ownershipVars>>

\* The announcement of another one.
Announcement(name, label, address) ==
    /\ Has(current, name)
    /\ ~Has(changes, name)
    /\ LabelIsFree(name, label, address)
    /\ changes' = Put(changes, name, [label |-> label, address |-> address,
                                      proposed_at |-> now])
    /\ UNCHANGED <<now, current, pinned, versions, ownershipVars>>

Application(name) ==
    /\ Has(changes, name)
    /\ now >= changes[name].proposed_at + DELAY
    /\ make_current(name, changes[name].label, changes[name].address)
    /\ changes' = Delete(changes, name)
    /\ UNCHANGED <<now, ownershipVars>>

Cancellation(name) ==
    /\ Has(changes, name)
    /\ changes' = Delete(changes, name)
    /\ UNCHANGED <<now, current, pinned, versions, ownershipVars>>

OwnershipStep ==
    /\ \E sender, candidate \in Accounts :
          ProposeOwner(sender, candidate) \/ AcceptOwner(sender)
    /\ UNCHANGED <<now, storage>>

\* Every call is one of these, on normalized names.
LEMMA CallCases ==
    ASSUME TypeOK, NEW sender \in Accounts, Call(sender)
    PROVE  \/ \E n, l \in Names, a \in Addresses :
                FirstVersion(n, l, a) \/ Announcement(n, l, a)
           \/ \E n \in Names : Application(n) \/ Cancellation(n)
           \/ OwnershipStep
  <1>1. ASSUME NEW name \in NameTexts, NEW label \in LabelTexts,
               NEW address \in Addresses,
               set_version(sender, name, label, address)
        PROVE  \E n, l \in Names, a \in Addresses :
                 FirstVersion(n, l, a) \/ Announcement(n, l, a)
    <2> DEFINE n == normalize[name]
               l == normalize[label]
    <2>1. n \in Names /\ l \in Names
      BY <1>1, RouterAssumption DEF set_version, IsName
    <2>2. FirstVersion(n, l, address) \/ Announcement(n, l, address)
      BY <1>1 DEF set_version, FirstVersion, Announcement, NothingPending
    <2> QED BY <2>1, <2>2
  <1>2. ASSUME NEW name \in NameTexts, apply_version(sender, name)
        PROVE  \E n \in Names : Application(n)
    BY <1>2 DEF apply_version, Application, TypeOK, Has, DelayPassed
  <1>3. ASSUME NEW name \in NameTexts, cancel_version(sender, name)
        PROVE  \E n \in Names : Cancellation(n)
    BY <1>3 DEF cancel_version, Cancellation, TypeOK, Has
  <1>4. ASSUME NEW candidate \in Accounts \cup {ZERO_ADDRESS},
               propose_owner(sender, candidate)
        PROVE  OwnershipStep
    BY <1>4 DEF propose_owner, OwnershipStep, ProposeOwner
  <1>5. ASSUME accept_owner(sender) PROVE OwnershipStep
    BY <1>5 DEF accept_owner, OwnershipStep
  <1> QED BY <1>1, <1>2, <1>3, <1>4, <1>5 DEF Call

-----------------------------------------------------------------------------
(* Type correctness.                                                         *)

\* make_current keeps the three maps it writes well formed.
LEMMA MakeCurrentType ==
    ASSUME TypeOK, NEW n \in Names, NEW l \in Names, NEW a \in Addresses,
           make_current(n, l, a)
    PROVE  /\ DOMAIN current' \subseteq Names
           /\ current' \in [DOMAIN current' -> Addresses]
           /\ DOMAIN pinned' \subseteq Names \X Names
           /\ pinned' \in [DOMAIN pinned' -> Addresses]
           /\ versions' \in Seq(Version)
  <1>1. /\ DOMAIN current' \subseteq Names
        /\ current' \in [DOMAIN current' -> Addresses]
    BY DEF TypeOK, make_current, Put
  <1>2. /\ DOMAIN pinned' \subseteq Names \X Names
        /\ pinned' \in [DOMAIN pinned' -> Addresses]
    <2>1. <<n, l>> \in Names \X Names
      OBVIOUS
    <2> QED BY <2>1 DEF TypeOK, make_current, Put
  <1>3. versions' \in Seq(Version)
    BY DEF TypeOK, make_current, Version
  <1> QED BY <1>1, <1>2, <1>3

LEMMA CallType ==
    ASSUME TypeOK, NEW sender \in Accounts, Call(sender)
    PROVE  TypeOK'
  <1>1. ASSUME NEW n \in Names, NEW l \in Names, NEW a \in Addresses,
               FirstVersion(n, l, a)
        PROVE  TypeOK'
    BY <1>1, MakeCurrentType
    DEF FirstVersion, TypeOK, OwnershipTypeOK, ownershipVars
  <1>2. ASSUME NEW n \in Names, NEW l \in Names, NEW a \in Addresses,
               Announcement(n, l, a)
        PROVE  TypeOK'
    <2> DEFINE c == [label |-> l, address |-> a, proposed_at |-> now]
    <2>1. c \in Change /\ changes' = Put(changes, n, c)
      BY <1>2 DEF Change, TypeOK, Announcement
    <2> HIDE DEF c
    <2>2. DOMAIN changes' \subseteq Names /\ changes' \in [DOMAIN changes' -> Change]
      BY <2>1 DEF TypeOK, Put
    <2> QED
      BY <1>2, <2>2 DEF Announcement, TypeOK, OwnershipTypeOK, ownershipVars
  <1>3. ASSUME NEW n \in Names, Application(n)
        PROVE  TypeOK'
    <2>1. changes[n] \in Change
      BY <1>3 DEF Application, TypeOK, Has
    <2>2. changes[n].label \in Names /\ changes[n].address \in Addresses
      BY <2>1 DEF Change
    <2>3. DOMAIN changes' \subseteq Names /\ changes' \in [DOMAIN changes' -> Change]
      BY <1>3 DEF Application, TypeOK, Delete
    <2> QED
      BY <1>3, <2>2, <2>3, MakeCurrentType
      DEF Application, TypeOK, OwnershipTypeOK, ownershipVars
  <1>4. ASSUME NEW n \in Names, Cancellation(n)
        PROVE  TypeOK'
    <2>1. DOMAIN changes' \subseteq Names /\ changes' \in [DOMAIN changes' -> Change]
      BY <1>4 DEF Cancellation, TypeOK, Delete
    <2> QED
      BY <1>4, <2>1 DEF Cancellation, TypeOK, OwnershipTypeOK, ownershipVars
  <1>5. ASSUME OwnershipStep PROVE TypeOK'
    BY <1>5 DEF OwnershipStep, ProposeOwner, AcceptOwner, RequireOwner, TypeOK,
                OwnershipTypeOK, storage
  <1> QED BY <1>1, <1>2, <1>3, <1>4, <1>5, CallCases

LEMMA TickType == TypeOK /\ Tick => TypeOK'
  BY DEF Tick, TypeOK, OwnershipTypeOK, ownershipVars, storage

LEMMA NextType == TypeOK /\ [Next]_vars => TypeOK'
  <1>1. TypeOK /\ UNCHANGED vars => TypeOK'
    BY DEF vars, TypeOK, OwnershipTypeOK, ownershipVars, storage
  <1> QED BY <1>1, CallType, TickType DEF Next

LEMMA InitType == Init => TypeOK
  BY OwnershipAssumption
  DEF Init, TypeOK, EmptyMap, OwnershipInit, OwnershipTypeOK

\* The storage of the Router is well formed in every reachable state.
THEOREM RouterTypeOK == Spec => []TypeOK
  BY InitType, NextType, PTL DEF Spec

-----------------------------------------------------------------------------
(* The stored history.                                                       *)

\* The clock orders what the contract stores: no version is stamped later than
\* now, a name with a version resolves, and a pending change was proposed no
\* sooner than its name last moved.
StoredInOrder ==
    /\ \A i \in DOMAIN versions :
         versions[i].set_at <= now /\ Has(current, versions[i].name)
    /\ \A n \in DOMAIN changes :
         /\ changes[n].proposed_at <= now
         /\ \A i \in DOMAIN versions :
              versions[i].name = n => versions[i].set_at <= changes[n].proposed_at

\* The invariants of the storage, which are inductive together: a change can
\* only be applied as announced because its label was free when it was
\* proposed and nothing else could take the label since, and the delay shows
\* in the history because a change is proposed after its name last moved.
StorageInv ==
    /\ TypeOK
    /\ PendingIsBindable
    /\ HistoryAgrees
    /\ HistoryKeepsDelay
    /\ StoredInOrder

\* What a make_current leaves in the history.
LEMMA AppendedVersion ==
    ASSUME TypeOK, NEW n \in Names, NEW l \in Names, NEW a \in Addresses,
           make_current(n, l, a)
    PROVE  /\ Len(versions) \in Nat
           /\ DOMAIN versions = 1..Len(versions)
           /\ DOMAIN versions' = 1..(Len(versions) + 1)
           /\ \A i \in DOMAIN versions : versions'[i] = versions[i]
           /\ \A i \in DOMAIN versions : versions[i] \in Version
           /\ versions'[Len(versions) + 1] =
                 [name |-> n, label |-> l, address |-> a, set_at |-> now]
           /\ \A i \in DOMAIN versions' : versions'[i].name # n =>
                 i \in DOMAIN versions /\ versions'[i] = versions[i]
  <1>1. /\ Len(versions) \in Nat
        /\ DOMAIN versions = 1..Len(versions)
        /\ DOMAIN versions' = 1..(Len(versions) + 1)
        /\ \A i \in DOMAIN versions : versions'[i] = versions[i]
        /\ \A i \in DOMAIN versions : versions[i] \in Version
        /\ versions'[Len(versions) + 1] =
             [name |-> n, label |-> l, address |-> a, set_at |-> now]
    BY DEF TypeOK, make_current
  <1>2. \A i \in DOMAIN versions' : i \in DOMAIN versions \/ i = Len(versions) + 1
    BY <1>1
  <1> QED BY <1>1, <1>2

\* Making an address current keeps the maps and the history in agreement,
\* provided the label was free or the address's own and the name's last move
\* is a full delay away.
LEMMA MakeCurrentInv ==
    ASSUME StorageInv, NEW n \in Names, NEW l \in Names, NEW a \in Addresses,
           make_current(n, l, a), now' = now,
           LabelIsFree(n, l, a),
           \A i \in DOMAIN versions :
             versions[i].name = n => now >= versions[i].set_at + DELAY
    PROVE  /\ HistoryAgrees'
           /\ HistoryKeepsDelay'
           /\ \A i \in DOMAIN versions' :
                versions'[i].set_at <= now /\ Has(current', versions'[i].name)
           /\ \A k \in DOMAIN pinned : Has(pinned', k) /\ pinned'[k] = pinned[k]
  <1> DEFINE last == Len(versions) + 1
  <1>0. TypeOK BY DEF StorageInv
  <1>1. /\ Len(versions) \in Nat
        /\ DOMAIN versions = 1..Len(versions)
        /\ DOMAIN versions' = 1..last
        /\ \A i \in DOMAIN versions : versions'[i] = versions[i]
        /\ \A i \in DOMAIN versions : versions[i] \in Version
        /\ versions'[last] =
              [name |-> n, label |-> l, address |-> a, set_at |-> now]
    BY <1>0, AppendedVersion
  <1>2. /\ DOMAIN current' = DOMAIN current \cup {n}
        /\ current'[n] = a
        /\ \A x \in DOMAIN current : x # n => current'[x] = current[x]
    BY DEF make_current, Put
  <1>3. /\ DOMAIN pinned' = DOMAIN pinned \cup {<<n, l>>}
        /\ pinned'[<<n, l>>] = a
        /\ \A k \in DOMAIN pinned : k # <<n, l>> => pinned'[k] = pinned[k]
    BY DEF make_current, Put
  <1>4. \A k \in DOMAIN pinned : Has(pinned', k) /\ pinned'[k] = pinned[k]
    BY <1>3 DEF LabelIsFree, GetOr, Has
  <1> HIDE DEF last
  <1>5. last = Len(versions) + 1 BY DEF last
  <1>6. HistoryAgrees'
    <2>1. ASSUME NEW x \in DOMAIN current'
          PROVE  \E i \in DOMAIN versions' :
                   /\ versions'[i].name = x
                   /\ versions'[i].address = current'[x]
                   /\ \A j \in DOMAIN versions' : j > i => versions'[j].name # x
      <3>1. CASE x = n
        BY <3>1, <1>1, <1>2, <1>5
      <3>2. CASE x # n
        <4>1. x \in DOMAIN current BY <3>2, <1>2
        <4>2. PICK i \in DOMAIN versions :
                /\ versions[i].name = x
                /\ versions[i].address = current[x]
                /\ \A j \in DOMAIN versions : j > i => versions[j].name # x
          BY <4>1 DEF StorageInv, HistoryAgrees
        <4>3. \A j \in DOMAIN versions' : j > i => versions'[j].name # x
          BY <4>2, <3>2, <1>1, <1>5
        <4> QED BY <4>1, <4>2, <4>3, <3>2, <1>1, <1>2, <1>5
      <3> QED BY <3>1, <3>2
    <2>2. ASSUME NEW i \in DOMAIN versions'
          PROVE  LET key == <<versions'[i].name, versions'[i].label>> IN
                 Has(pinned', key) /\ pinned'[key] = versions'[i].address
      <3>1. CASE i = last
        BY <3>1, <1>1, <1>3 DEF Has
      <3>2. CASE i # last
        <4>1. i \in DOMAIN versions BY <3>2, <1>1, <1>5
        <4>2. LET key == <<versions[i].name, versions[i].label>> IN
              Has(pinned, key) /\ pinned[key] = versions[i].address
          BY <4>1 DEF StorageInv, HistoryAgrees
        <4> QED BY <4>1, <4>2, <1>1, <1>4 DEF Has
      <3> QED BY <3>1, <3>2
    <2> QED BY <2>1, <2>2 DEF HistoryAgrees
  <1>7. HistoryKeepsDelay'
    <2> SUFFICES ASSUME NEW i \in DOMAIN versions', NEW j \in DOMAIN versions',
                        i < j, versions'[i].name = versions'[j].name
                 PROVE  versions'[j].set_at >= versions'[i].set_at + DELAY
      BY DEF HistoryKeepsDelay
    <2>1. i \in DOMAIN versions BY <1>1, <1>5
    <2>2. CASE j = last
      BY <2>1, <2>2, <1>1
    <2>3. CASE j # last
      <3>1. j \in DOMAIN versions BY <2>3, <1>1, <1>5
      <3> QED BY <2>1, <3>1, <1>1 DEF StorageInv, HistoryKeepsDelay
    <2> QED BY <2>2, <2>3
  <1>8. \A i \in DOMAIN versions' :
           versions'[i].set_at <= now /\ Has(current', versions'[i].name)
    <2> SUFFICES ASSUME NEW i \in DOMAIN versions'
                 PROVE  versions'[i].set_at <= now /\ Has(current', versions'[i].name)
      OBVIOUS
    <2>1. CASE i = last
      BY <2>1, <1>0, <1>1, <1>2 DEF TypeOK, Has
    <2>2. CASE i # last
      <3>1. i \in DOMAIN versions BY <2>2, <1>1, <1>5
      <3> QED BY <3>1, <1>1, <1>2 DEF StorageInv, StoredInOrder, Has
    <2> QED BY <2>1, <2>2
  <1> QED BY <1>4, <1>6, <1>7, <1>8

\* Deleting a change keeps the invariants about the changes that stay.
LEMMA DeleteChangeInv ==
    ASSUME StorageInv, NEW n, changes' = Delete(changes, n), now' = now,
           \A x \in DOMAIN current : Has(current', x),
           \A k \in DOMAIN pinned' : k[1] # n =>
             Has(pinned, k) /\ pinned'[k] = pinned[k],
           \A i \in DOMAIN versions' : versions'[i].name # n =>
             i \in DOMAIN versions /\ versions'[i] = versions[i]
    PROVE  /\ PendingIsBindable'
           /\ \A x \in DOMAIN changes' :
                /\ changes'[x].proposed_at <= now
                /\ \A i \in DOMAIN versions' :
                     versions'[i].name = x => versions'[i].set_at <= changes'[x].proposed_at
  <1>1. /\ DOMAIN changes' = DOMAIN changes \ {n}
        /\ \A x \in DOMAIN changes' : changes'[x] = changes[x]
    BY DEF Delete
  <1>2. PendingIsBindable'
    <2> SUFFICES ASSUME NEW x \in DOMAIN changes'
                 PROVE  LET key == <<x, changes'[x].label>> IN
                        /\ Has(current', x)
                        /\ Has(pinned', key) => pinned'[key] = changes'[x].address
      BY DEF PendingIsBindable
    <2> DEFINE key == <<x, changes[x].label>>
    <2>1. key[1] # n BY <1>1
    <2>2. /\ Has(current, x)
          /\ Has(pinned, key) => pinned[key] = changes[x].address
      BY <1>1 DEF StorageInv, PendingIsBindable
    <2> QED BY <1>1, <2>1, <2>2 DEF Has
  <1>3. \A x \in DOMAIN changes' :
           /\ changes'[x].proposed_at <= now
           /\ \A i \in DOMAIN versions' :
                versions'[i].name = x => versions'[i].set_at <= changes'[x].proposed_at
    BY <1>1 DEF StorageInv, StoredInOrder
  <1> QED BY <1>2, <1>3

LEMMA CallInv ==
    ASSUME StorageInv, NEW sender \in Accounts, Call(sender)
    PROVE  /\ StorageInv'
           /\ \A k \in DOMAIN pinned : Has(pinned', k) /\ pinned'[k] = pinned[k]
  <1>0. TypeOK /\ TypeOK'
    BY CallType DEF StorageInv
  <1> DEFINE PinsKept == \A k \in DOMAIN pinned :
                            Has(pinned', k) /\ pinned'[k] = pinned[k]
  <1>1. ASSUME NEW n \in Names, NEW l \in Names, NEW a \in Addresses,
               FirstVersion(n, l, a)
        PROVE  StorageInv' /\ PinsKept
    <2>1. \A i \in DOMAIN versions : versions[i].name # n
      BY <1>1 DEF FirstVersion, StorageInv, StoredInOrder
    <2>2. make_current(n, l, a) /\ now' = now /\ changes' = changes /\ LabelIsFree(n, l, a)
      BY <1>1 DEF FirstVersion
    <2>3. /\ HistoryAgrees' /\ HistoryKeepsDelay' /\ PinsKept
          /\ \A i \in DOMAIN versions' :
               versions'[i].set_at <= now /\ Has(current', versions'[i].name)
      BY <2>1, <2>2, MakeCurrentInv
    <2>4. changes' = Delete(changes, n)
      <3>1. n \notin DOMAIN changes BY <1>1 DEF FirstVersion, Has
      <3>2. changes \in [DOMAIN changes -> Change] BY <1>0 DEF TypeOK
      <3> QED BY <2>2, <3>1, <3>2 DEF Delete
    <2>5. \A x \in DOMAIN current : Has(current', x)
      BY <2>2 DEF make_current, Put, Has
    <2>6. \A k \in DOMAIN pinned' : k[1] # n => Has(pinned, k) /\ pinned'[k] = pinned[k]
      BY <2>2 DEF make_current, Put, Has
    <2>7. \A i \in DOMAIN versions' : versions'[i].name # n =>
             i \in DOMAIN versions /\ versions'[i] = versions[i]
      BY <1>0, <2>2, AppendedVersion
    <2>8. /\ PendingIsBindable'
          /\ \A x \in DOMAIN changes' :
                /\ changes'[x].proposed_at <= now
                /\ \A i \in DOMAIN versions' :
                     versions'[i].name = x => versions'[i].set_at <= changes'[x].proposed_at
      BY <2>2, <2>4, <2>5, <2>6, <2>7, DeleteChangeInv
    <2> QED BY <1>0, <2>2, <2>3, <2>8 DEF StorageInv, StoredInOrder
  <1>2. ASSUME NEW n \in Names, NEW l \in Names, NEW a \in Addresses,
               Announcement(n, l, a)
        PROVE  StorageInv' /\ PinsKept
    <2>1. UNCHANGED <<now, current, pinned, versions>>
      BY <1>2 DEF Announcement
    <2>2. HistoryAgrees' /\ HistoryKeepsDelay' /\ PinsKept
      BY <2>1 DEF StorageInv, HistoryAgrees, HistoryKeepsDelay, Has
    <2>3. /\ DOMAIN changes' = DOMAIN changes \cup {n}
          /\ changes'[n] = [label |-> l, address |-> a, proposed_at |-> now]
          /\ \A x \in DOMAIN changes : x # n => changes'[x] = changes[x]
      BY <1>2 DEF Announcement, Put
    <2>4. PendingIsBindable'
      BY <1>2, <2>1, <2>3
      DEF StorageInv, PendingIsBindable, Announcement, LabelIsFree, GetOr, Has
    <2>5. StoredInOrder'
      BY <2>1, <2>3, <1>0 DEF StorageInv, StoredInOrder, TypeOK, Has
    <2> QED BY <1>0, <2>2, <2>4, <2>5 DEF StorageInv
  <1>3. ASSUME NEW n \in Names, Application(n)
        PROVE  StorageInv' /\ PinsKept
    <2> DEFINE l == changes[n].label
               a == changes[n].address
    <2>1. n \in DOMAIN changes /\ changes[n] \in Change
      BY <1>0, <1>3 DEF Application, TypeOK, Has
    <2>2. l \in Names /\ a \in Addresses /\ changes[n].proposed_at \in Nat
      BY <2>1 DEF Change
    <2>3. /\ make_current(n, l, a) /\ now' = now /\ changes' = Delete(changes, n)
          /\ now >= changes[n].proposed_at + DELAY
      BY <1>3 DEF Application
    <2>4. LabelIsFree(n, l, a)
      BY <2>1 DEF StorageInv, PendingIsBindable, LabelIsFree, GetOr, Has
    <2>5. \A i \in DOMAIN versions :
             versions[i].name = n => now >= versions[i].set_at + DELAY
      <3>1. \A i \in DOMAIN versions : versions[i].set_at \in Nat
        BY <1>0, AppendedVersion, <2>2, <2>3 DEF Version
      <3>2. \A i \in DOMAIN versions :
               versions[i].name = n => versions[i].set_at <= changes[n].proposed_at
        BY <2>1 DEF StorageInv, StoredInOrder
      <3>3. DELAY \in Nat BY RouterAssumption
      <3>4. now \in Nat BY <1>0 DEF TypeOK
      <3> QED BY <3>1, <3>2, <3>3, <3>4, <2>2, <2>3
    <2> HIDE DEF l, a
    <2>6. /\ HistoryAgrees' /\ HistoryKeepsDelay' /\ PinsKept
          /\ \A i \in DOMAIN versions' :
               versions'[i].set_at <= now /\ Has(current', versions'[i].name)
      BY <2>2, <2>3, <2>4, <2>5, MakeCurrentInv
    <2>7. \A x \in DOMAIN current : Has(current', x)
      BY <2>3 DEF make_current, Put, Has
    <2>8. \A k \in DOMAIN pinned' : k[1] # n => Has(pinned, k) /\ pinned'[k] = pinned[k]
      BY <2>3 DEF make_current, Put, Has
    <2>9. \A i \in DOMAIN versions' : versions'[i].name # n =>
             i \in DOMAIN versions /\ versions'[i] = versions[i]
      BY <1>0, <2>2, <2>3, AppendedVersion
    <2>10. /\ PendingIsBindable'
           /\ \A x \in DOMAIN changes' :
                /\ changes'[x].proposed_at <= now
                /\ \A i \in DOMAIN versions' :
                     versions'[i].name = x => versions'[i].set_at <= changes'[x].proposed_at
      BY <2>3, <2>7, <2>8, <2>9, DeleteChangeInv
    <2> QED BY <1>0, <2>3, <2>6, <2>10 DEF StorageInv, StoredInOrder
  <1>4. ASSUME NEW n \in Names, Cancellation(n)
        PROVE  StorageInv' /\ PinsKept
    <2>1. UNCHANGED <<now, current, pinned, versions>> /\ changes' = Delete(changes, n)
      BY <1>4 DEF Cancellation
    <2>2. HistoryAgrees' /\ HistoryKeepsDelay' /\ PinsKept
      BY <2>1 DEF StorageInv, HistoryAgrees, HistoryKeepsDelay, Has
    <2>3. PendingIsBindable'
      BY <2>1, DeleteChangeInv DEF Has
    <2>4. StoredInOrder'
      BY <2>1 DEF StorageInv, StoredInOrder, Delete, Has
    <2> QED BY <1>0, <2>2, <2>3, <2>4 DEF StorageInv
  <1>5. ASSUME OwnershipStep
        PROVE  StorageInv' /\ PinsKept
    BY <1>0, <1>5 DEF OwnershipStep, storage, StorageInv, PendingIsBindable,
                      HistoryAgrees, HistoryKeepsDelay, StoredInOrder, Has
  <1> QED BY <1>0, <1>1, <1>2, <1>3, <1>4, <1>5, CallCases

LEMMA TickInv == StorageInv /\ Tick => StorageInv'
  <1> SUFFICES ASSUME StorageInv, Tick PROVE StorageInv'
    OBVIOUS
  <1>1. TypeOK /\ TypeOK'
    BY TickType DEF StorageInv
  <1>2. UNCHANGED <<current, pinned, changes, versions>> /\ now' = now + 1
    BY DEF Tick, storage
  <1>3. PendingIsBindable' /\ HistoryAgrees' /\ HistoryKeepsDelay'
    BY <1>2 DEF StorageInv, PendingIsBindable, HistoryAgrees, HistoryKeepsDelay, Has
  <1>4. StoredInOrder'
    <2>1. \A i \in DOMAIN versions : versions[i].set_at \in Nat
      <3>1. \A i \in DOMAIN versions : versions[i] \in Version
        BY <1>1 DEF TypeOK
      <3> QED BY <3>1 DEF Version
    <2>2. \A n \in DOMAIN changes : changes[n].proposed_at \in Nat
      BY <1>1 DEF TypeOK, Change
    <2>3. now \in Nat BY <1>1 DEF TypeOK
    <2> QED BY <1>2, <2>1, <2>2, <2>3 DEF StorageInv, StoredInOrder, Has
  <1> QED BY <1>1, <1>3, <1>4 DEF StorageInv

LEMMA NextInv == StorageInv /\ [Next]_vars => StorageInv'
  <1>1. StorageInv /\ UNCHANGED vars => StorageInv'
    BY NextType
    DEF vars, storage, StorageInv, PendingIsBindable, HistoryAgrees,
        HistoryKeepsDelay, StoredInOrder, Has
  <1> QED BY <1>1, CallInv, TickInv DEF Next

LEMMA InitInv == Init => StorageInv
  BY InitType DEF Init, EmptyMap, StorageInv, PendingIsBindable, HistoryAgrees,
                  HistoryKeepsDelay, StoredInOrder

LEMMA StorageInvariant == Spec => []StorageInv
  BY InitInv, NextInv, PTL DEF Spec

\* Two days after it was proposed, a change still fits the labels as they are.
THEOREM RouterPendingIsBindable == Spec => []PendingIsBindable
  <1>1. StorageInv => PendingIsBindable BY DEF StorageInv
  <1> QED BY <1>1, StorageInvariant, PTL

\* current, pinned and versions agree in every reachable state.
THEOREM RouterHistoryAgrees == Spec => []HistoryAgrees
  <1>1. StorageInv => HistoryAgrees BY DEF StorageInv
  <1> QED BY <1>1, StorageInvariant, PTL

\* Two versions of one name are always a full delay apart.
THEOREM RouterHistoryKeepsDelay == Spec => []HistoryKeepsDelay
  <1>1. StorageInv => HistoryKeepsDelay BY DEF StorageInv
  <1> QED BY <1>1, StorageInvariant, PTL

\* A bound label is never unbound and never bound to anything else.
THEOREM RouterPinsNeverMove == Spec => PinsNeverMove
  <1> DEFINE Kept == \A k \in DOMAIN pinned : Has(pinned', k) /\ pinned'[k] = pinned[k]
  <1>1. StorageInv /\ [Next]_vars => [Kept]_vars
    <2>1. Tick => Kept
      BY DEF Tick, storage, Has
    <2> QED BY <2>1, CallInv DEF Next
  <1> QED BY <1>1, StorageInvariant, PTL DEF Spec, PinsNeverMove

\* A pending change is applied as announced, or cancelled, or left alone.
THEOREM RouterAnnouncementIsFixed == Spec => AnnouncementIsFixed
  <1> DEFINE Fixed == \A n \in DOMAIN changes :
                        Has(changes', n) => changes'[n] = changes[n]
  <1>1. ASSUME TypeOK, Next PROVE Fixed
    <2>1. CASE Tick
      BY <2>1 DEF Tick, storage
    <2>2. ASSUME NEW sender \in Accounts, Call(sender) PROVE Fixed
      <3>1. ASSUME NEW n \in Names, NEW l \in Names, NEW a \in Addresses,
                   FirstVersion(n, l, a) \/ Announcement(n, l, a)
            PROVE  Fixed
        BY <3>1 DEF FirstVersion, Announcement, Put, Has
      <3>2. ASSUME NEW n \in Names, Application(n) \/ Cancellation(n)
            PROVE  Fixed
        BY <3>2 DEF Application, Cancellation, Delete, Has
      <3>3. ASSUME OwnershipStep PROVE Fixed
        BY <3>3 DEF OwnershipStep, storage
      <3> QED BY <1>1, <2>2, <3>1, <3>2, <3>3, CallCases
    <2> QED BY <1>1, <2>1, <2>2 DEF Next
  <1>2. TypeOK /\ [Next]_vars => [Fixed]_vars
    BY <1>1
  <1> QED BY <1>2, RouterTypeOK, PTL DEF Spec, AnnouncementIsFixed

\* No account takes ownership over on the word of a former owner.
THEOREM RouterProposalIsOwners == Spec => []ProposalIsOwners
  <1>1. Init => ProposalIsOwners
    BY DEF Init, OwnershipInit, ProposalIsOwners
  <1>2. ASSUME TypeOK, ProposalIsOwners, [Next]_vars
        PROVE  ProposalIsOwners'
    <2>1. CASE UNCHANGED ownershipVars
      BY <2>1, <1>2 DEF ownershipVars, ProposalIsOwners
    <2>2. CASE OwnershipStep
      BY <2>2, <1>2 DEF OwnershipStep, ProposeOwner, AcceptOwner, RequireOwner,
                        ProposalIsOwners
    <2>3. UNCHANGED ownershipVars \/ OwnershipStep
      <3>1. CASE UNCHANGED vars BY <3>1 DEF vars
      <3>2. CASE Tick BY <3>2 DEF Tick
      <3>3. ASSUME NEW sender \in Accounts, Call(sender)
            PROVE  UNCHANGED ownershipVars \/ OwnershipStep
        BY <1>2, <3>3, CallCases
        DEF FirstVersion, Announcement, Application, Cancellation
      <3> QED BY <1>2, <3>1, <3>2, <3>3 DEF Next
    <2> QED BY <2>1, <2>2, <2>3
  <1> QED BY <1>1, <1>2, RouterTypeOK, PTL DEF Spec

-----------------------------------------------------------------------------
(* The Router implements NoticeService.                                      *)

\* What the Router has announced, as NoticeService sees it.
Announced == [n \in DOMAIN changes |->
                [target |-> changes[n].address, since |-> changes[n].proposed_at]]

LEMMA CallIsServiceStep ==
    ASSUME TypeOK, PendingIsBindable, NEW sender \in Accounts, Call(sender)
    PROVE  Service!Next \/ UNCHANGED Service!noticeVars
  <1>1. ASSUME NEW n \in Names, NEW l \in Names, NEW a \in Addresses,
               FirstVersion(n, l, a)
        PROVE  Service!First(n, a)
    BY <1>1 DEF FirstVersion, make_current, Service!First, Put, Has,
                Service!Put, Service!Has
  <1>2. ASSUME NEW n \in Names, NEW l \in Names, NEW a \in Addresses,
               Announcement(n, l, a)
        PROVE  Service!Announce(n, a)
    <2>1. Announced' = Service!Put(Announced, n, [target |-> a, since |-> now])
      BY <1>2 DEF Announcement, Announced, Put, Service!Put
    <2> QED
      BY <1>2, <2>1 DEF Announcement, Announced, Service!Announce, Has, Service!Has
  <1>3. ASSUME NEW n \in Names, Application(n)
        PROVE  Service!Move(n)
    <2>1. Announced' = Service!Delete(Announced, n)
      BY <1>3 DEF Application, Announced, Delete, Service!Delete
    <2>2. current' = Service!Put(current, n, Announced[n].target)
      BY <1>3 DEF Application, make_current, Announced, Put, Service!Put, Has
    <2>3. Announced[n].since + DELAY <= now
      <3>1. n \in DOMAIN changes /\ changes[n] \in Change
        BY <1>3 DEF Application, Has, TypeOK
      <3>2. changes[n].proposed_at \in Nat /\ now \in Nat /\ DELAY \in Nat
        BY <3>1, RouterAssumption DEF Change, TypeOK
      <3> QED BY <1>3, <3>1, <3>2 DEF Application, Announced
    <2> QED
      BY <1>3, <2>1, <2>2, <2>3
      DEF Application, Announced, Service!Move, Has, Service!Has
  <1>4. ASSUME NEW n \in Names, Cancellation(n)
        PROVE  Service!Withdraw(n)
    <2>1. Announced' = Service!Delete(Announced, n)
      BY <1>4 DEF Cancellation, Announced, Delete, Service!Delete
    <2> QED
      BY <1>4, <2>1 DEF Cancellation, Announced, Service!Withdraw, Has, Service!Has
  <1>5. ASSUME OwnershipStep
        PROVE  UNCHANGED Service!noticeVars
    BY <1>5 DEF OwnershipStep, storage, Service!noticeVars
  <1> QED BY <1>1, <1>2, <1>3, <1>4, <1>5, CallCases DEF Service!Next

\* The whole Router, with its labels, pins, history and ownership, shows its
\* readers nothing but what NoticeService allows: no name ever moves without
\* having been announced for DELAY.
THEOREM RouterGivesNotice == Spec => GivesNotice
  <1>1. Init => Service!Init
    BY DEF Init, Service!Init, EmptyMap, Service!EmptyMap
  <1>2. StorageInv /\ [Next]_vars => [Service!Next]_(Service!noticeVars)
    <2> SUFFICES ASSUME StorageInv, [Next]_vars
                 PROVE  Service!Next \/ UNCHANGED Service!noticeVars
      OBVIOUS
    <2>1. CASE UNCHANGED vars
      BY <2>1 DEF vars, storage, Service!noticeVars
    <2>2. CASE Tick
      BY <2>2 DEF StorageInv, TypeOK, Tick, storage, Service!Next, Service!Advance
    <2>3. ASSUME NEW sender \in Accounts, Call(sender)
          PROVE  Service!Next \/ UNCHANGED Service!noticeVars
      BY <2>3, CallIsServiceStep DEF StorageInv
    <2> QED BY <2>1, <2>2, <2>3 DEF Next
  <1> QED BY <1>1, <1>2, StorageInvariant, PTL DEF Spec, GivesNotice, Service!Spec

-----------------------------------------------------------------------------
(* A consumer that re-reads the Router more often than DELAY.                *)

\* The types of what the consumer remembers.
WatchTypeOK ==
    /\ TypeOK
    /\ polled_at \in Nat
    /\ seen \in [DOMAIN seen -> Addresses]
    /\ announced \in [DOMAIN announced -> Addresses]

\* A change still pending was either announced to the consumer, whose
\* knowledge of the name is then still right, or proposed since it last read.
Forewarned ==
    /\ polled_at <= now
    /\ now <= polled_at + PollGap
    /\ \A n \in DOMAIN seen \cap DOMAIN changes :
          changes[n].proposed_at < polled_at =>
              /\ current[n] = seen[n]
              /\ Has(announced, n)
              /\ changes[n].address = announced[n]

WatchInv == WatchTypeOK /\ StorageInv /\ NeverSurprised /\ Forewarned

LEMMA PollInv == WatchInv /\ Poll => WatchInv'
  <1> SUFFICES ASSUME WatchInv, Poll PROVE WatchInv'
    OBVIOUS
  <1>1. /\ polled_at' = now /\ seen' = current /\ UNCHANGED vars
        /\ announced' = [n \in DOMAIN changes |-> changes[n].address]
    BY DEF Poll
  <1>2. UNCHANGED <<now, current, pinned, changes, versions>>
    BY <1>1 DEF vars, storage
  <1>3. TypeOK /\ StorageInv'
    BY <1>1, NextInv DEF WatchInv, StorageInv
  <1>4. announced' \in [DOMAIN announced' -> Addresses]
    BY <1>1, <1>3 DEF TypeOK, Change
  <1>5. WatchTypeOK'
    BY <1>1, <1>2, <1>3, <1>4 DEF WatchTypeOK, StorageInv, TypeOK
  <1>6. NeverSurprised'
    BY <1>1, <1>2 DEF NeverSurprised, Has
  <1>7. Forewarned'
    BY <1>1, <1>2, <1>3, PollGapAssumption DEF Forewarned, TypeOK, Has
  <1> QED BY <1>3, <1>5, <1>6, <1>7 DEF WatchInv

LEMMA WatchedTickInv == WatchInv /\ WatchedTick => WatchInv'
  <1> SUFFICES ASSUME WatchInv, WatchedTick PROVE WatchInv'
    OBVIOUS
  <1>1. /\ Tick /\ UNCHANGED watchVars /\ now < polled_at + PollGap
        /\ UNCHANGED <<current, changes>> /\ now' = now + 1
    BY DEF WatchedTick, Tick, storage
  <1>2. StorageInv'
    BY <1>1, TickInv DEF WatchInv
  <1>3. WatchTypeOK'
    BY <1>1, <1>2 DEF WatchInv, WatchTypeOK, watchVars, StorageInv
  <1>4. NeverSurprised'
    BY <1>1 DEF WatchInv, NeverSurprised, watchVars, Has
  <1>5. Forewarned'
    BY <1>1, PollGapAssumption
    DEF WatchInv, Forewarned, watchVars, WatchTypeOK, TypeOK, Has
  <1> QED BY <1>2, <1>3, <1>4, <1>5 DEF WatchInv

LEMMA WatchedCallInv == WatchInv /\ WatchedCall => WatchInv'
  <1> SUFFICES ASSUME WatchInv, NEW sender \in Accounts, Call(sender),
                      UNCHANGED watchVars
               PROVE  WatchInv'
    BY DEF WatchedCall
  <1>0. TypeOK /\ UNCHANGED <<polled_at, seen, announced>>
    BY DEF WatchInv, StorageInv, watchVars
  <1>1. StorageInv'
    BY CallInv DEF WatchInv
  <1>2. WatchTypeOK'
    BY <1>0, <1>1 DEF WatchInv, WatchTypeOK, StorageInv
  <1>3. ASSUME NEW n \in Names, NEW l \in Names, NEW a \in Addresses,
               FirstVersion(n, l, a)
        PROVE  NeverSurprised' /\ Forewarned'
    <2>1. n \notin DOMAIN seen /\ UNCHANGED <<now, changes>>
      BY <1>3 DEF FirstVersion, WatchInv, NeverSurprised
    <2>2. \A x \in DOMAIN seen : Has(current', x) /\ current'[x] = current[x]
      BY <1>3, <2>1 DEF FirstVersion, make_current, Put, Has, WatchInv, NeverSurprised
    <2> QED BY <1>0, <2>1, <2>2 DEF WatchInv, NeverSurprised, Forewarned
  <1>4. ASSUME NEW n \in Names, NEW l \in Names, NEW a \in Addresses,
               Announcement(n, l, a)
        PROVE  NeverSurprised' /\ Forewarned'
    <2>1. UNCHANGED <<now, current>>
      BY <1>4 DEF Announcement
    <2>2. NeverSurprised'
      BY <1>0, <2>1 DEF WatchInv, NeverSurprised
    <2>3. /\ DOMAIN changes' = DOMAIN changes \cup {n}
          /\ changes'[n].proposed_at = now
          /\ \A x \in DOMAIN changes : x # n => changes'[x] = changes[x]
      BY <1>4 DEF Announcement, Put
    <2>4. ~(now < polled_at)
      BY DEF WatchInv, Forewarned, WatchTypeOK, TypeOK
    <2>5. Forewarned'
      BY <1>0, <2>1, <2>3, <2>4 DEF WatchInv, Forewarned
    <2> QED BY <2>2, <2>5
  <1>5. ASSUME NEW n \in Names, Application(n)
        PROVE  NeverSurprised' /\ Forewarned'
    <2>1. n \in DOMAIN changes /\ changes[n] \in Change
      BY <1>0, <1>5 DEF Application, TypeOK, Has
    <2>2. changes[n].proposed_at < polled_at
      <3>1. changes[n].proposed_at \in Nat BY <2>1 DEF Change
      <3>2. now >= changes[n].proposed_at + DELAY BY <1>5 DEF Application
      <3>3. now <= polled_at + PollGap BY DEF WatchInv, Forewarned
      <3>4. now \in Nat /\ polled_at \in Nat BY DEF WatchInv, WatchTypeOK, TypeOK
      <3> QED BY <3>1, <3>2, <3>3, <3>4, PollGapAssumption, RouterAssumption
    <2>3. n \in DOMAIN seen =>
            Has(announced, n) /\ changes[n].address = announced[n]
      BY <2>1, <2>2 DEF WatchInv, Forewarned
    <2>4. /\ DOMAIN current' = DOMAIN current \cup {n}
          /\ current'[n] = changes[n].address
          /\ \A x \in DOMAIN current : x # n => current'[x] = current[x]
      BY <1>5 DEF Application, make_current, Put
    <2>5. NeverSurprised'
      BY <1>0, <2>3, <2>4 DEF WatchInv, NeverSurprised, Has
    <2>6. /\ now' = now
          /\ DOMAIN changes' = DOMAIN changes \ {n}
          /\ \A x \in DOMAIN changes' : changes'[x] = changes[x]
      BY <1>5 DEF Application, Delete
    <2>7. \A x \in DOMAIN changes' : x \in DOMAIN seen => current'[x] = current[x]
      BY <2>4, <2>6 DEF WatchInv, NeverSurprised, Has
    <2>8. Forewarned'
      BY <1>0, <2>6, <2>7 DEF WatchInv, Forewarned
    <2> QED BY <2>5, <2>8
  <1>6. ASSUME NEW n \in Names, Cancellation(n)
        PROVE  NeverSurprised' /\ Forewarned'
    BY <1>0, <1>6 DEF Cancellation, Delete, WatchInv, NeverSurprised, Forewarned
  <1>7. ASSUME OwnershipStep
        PROVE  NeverSurprised' /\ Forewarned'
    BY <1>0, <1>7 DEF OwnershipStep, storage, WatchInv, NeverSurprised, Forewarned
  <1>8. NeverSurprised' /\ Forewarned'
    BY <1>0, <1>3, <1>4, <1>5, <1>6, <1>7, CallCases
  <1> QED BY <1>1, <1>2, <1>8 DEF WatchInv

\* A consumer that reads the Router more often than once every DELAY is never
\* moved to an address it had not seen announced, for any number of names and
\* whatever the owner proposes, cancels and proposes again.
THEOREM ConsumerNeverSurprised == WatchSpec => []NeverSurprised
  <1>1. WatchInit => WatchInv
    <2> SUFFICES ASSUME WatchInit PROVE WatchInv
      OBVIOUS
    <2>1. StorageInv BY InitInv DEF WatchInit
    <2>2. WatchTypeOK
      BY <2>1 DEF WatchInit, EmptyMap, WatchTypeOK, StorageInv, TypeOK
    <2>3. NeverSurprised /\ Forewarned
      BY <2>2, PollGapAssumption
      DEF WatchInit, Init, EmptyMap, NeverSurprised, Forewarned
    <2> QED BY <2>1, <2>2, <2>3 DEF WatchInv
  <1>2. WatchInv /\ [WatchNext]_<<vars, watchVars>> => WatchInv'
    <2>1. WatchInv /\ UNCHANGED <<vars, watchVars>> => WatchInv'
      BY NextInv
      DEF vars, storage, watchVars, WatchInv, WatchTypeOK, StorageInv,
          NeverSurprised, Forewarned, Has
    <2> QED BY <2>1, PollInv, WatchedTickInv, WatchedCallInv DEF WatchNext
  <1>3. WatchInv => NeverSurprised
    BY DEF WatchInv
  <1> QED BY <1>1, <1>2, <1>3, PTL DEF WatchSpec
=============================================================================
