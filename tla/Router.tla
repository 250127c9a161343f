------------------------------- MODULE Router -------------------------------
(* contracts/router/router_template.py: the registry of names, the contract  *)
(* every other one is reached through.  A name resolves to a contract        *)
(* address; the first address of a name takes effect at once, every later    *)
(* one is announced and waits DELAY.  A pinned label never moves.            *)
(*                                                                           *)
(* One action is one executed write.  A call that raises changes nothing and *)
(* is no step.  The datetime of a transaction is a natural number here: the  *)
(* clock of the chain, which never runs back between two transactions.       *)

EXTENDS Naturals, Sequences, Ownership, TreeMaps

CONSTANTS
    NameTexts,      \* what a caller passes as a name
    LabelTexts,     \* what a caller passes as a version label
    Names,          \* the normalized names, keys of the maps
    NoName,         \* "": what a text that is no name normalizes to
    normalize,      \* a text -> Names or NoName, see NameKeys
    Addresses,      \* the contract addresses a name can be bound to
    DELAY,          \* 48 hours in the code
    MaxTime         \* bound on the clock

ASSUME RouterAssumption ==
    /\ NoName \notin Names
    /\ \A text \in NameTexts \cup LabelTexts :
          normalize[text] \in Names \cup {NoName}
    /\ DELAY \in Nat \ {0}
    /\ MaxTime \in Nat

VARIABLES
    now,            \* the datetime the next transaction will carry
    current,        \* name -> address
    pinned,         \* <<name, label>> -> address
    changes,        \* name -> [label, address, proposed_at]
    versions        \* every version that ever took effect, in order

storage == <<current, pinned, changes, versions>>
vars == <<now, storage, ownershipVars>>

Change == [label : Names, address : Addresses, proposed_at : Nat]
Version == [name : Names, label : Names, address : Addresses, set_at : Nat]

TypeOK ==
    /\ now \in Nat
    /\ DOMAIN current \subseteq Names
    /\ current \in [DOMAIN current -> Addresses]
    /\ DOMAIN pinned \subseteq Names \X Names
    /\ pinned \in [DOMAIN pinned -> Addresses]
    /\ DOMAIN changes \subseteq Names
    /\ changes \in [DOMAIN changes -> Change]
    /\ versions \in Seq(Version)
    /\ OwnershipTypeOK

Init ==
    /\ now = 0
    /\ current = EmptyMap
    /\ pinned = EmptyMap
    /\ changes = EmptyMap
    /\ versions = <<>>
    /\ OwnershipInit

-----------------------------------------------------------------------------
(* Views.                                                                    *)

resolve(text, none) == GetOr(current, normalize[text], none)

resolve_pinned(name, version, none) ==
    GetOr(pinned, <<normalize[name], normalize[version]>>, none)

pending(text, none) ==
    IF Has(changes, normalize[text])
    THEN LET change == changes[normalize[text]] IN
         [version |-> change.label, address |-> change.address,
          effective_at |-> change.proposed_at + DELAY]
    ELSE none

-----------------------------------------------------------------------------
(* Writes.                                                                   *)

make_current(name, label, address) ==
    /\ current' = Put(current, name, address)
    /\ pinned' = Put(pinned, <<name, label>>, address)
    /\ versions' = Append(versions, [name |-> name, label |-> label,
                                     address |-> address, set_at |-> now])

\* Mutated form of IsName: whatever normalize returns is used as a key.
IsNameUnchecked(value) == TRUE

\* A text that normalizes to "" is refused.
IsName(value) == value # NoName

\* One change at a time.
NothingPending(name) == ~Has(changes, name)

\* Mutated form of LabelIsFree: a label can be given again.
LabelIsFreeUnchecked(name, label, address) == TRUE

\* The label is bound to nothing, or to this very address.
LabelIsFree(name, label, address) ==
    GetOr(pinned, <<name, label>>, address) = address

\* The first address of a name takes effect at once, any other is announced.
set_version(sender, nameText, labelText, address) ==
    LET name  == normalize[nameText]
        label == normalize[labelText] IN
    /\ RequireOwner(sender)
    /\ IsName(name) /\ IsName(label)
    /\ NothingPending(name)
    /\ LabelIsFree(name, label, address)
    /\ \/ /\ ~Has(current, name)
          /\ make_current(name, label, address)
          /\ UNCHANGED changes
       \/ /\ Has(current, name)
          /\ changes' = Put(changes, name,
                            [label |-> label, address |-> address,
                             proposed_at |-> now])
          /\ UNCHANGED <<current, pinned, versions>>
    /\ UNCHANGED <<now, ownershipVars>>

\* Mutated form of DelayPassed: the comparison is off by one.
DelayPassedEarly(name) == now + 1 >= changes[name].proposed_at + DELAY

DelayPassed(name) == now >= changes[name].proposed_at + DELAY

\* Mutated form of apply_version: the applied change is left pending.
apply_version_keeping(sender, text) ==
    LET name == normalize[text] IN
    /\ Has(changes, name)
    /\ DelayPassed(name)
    /\ make_current(name, changes[name].label, changes[name].address)
    /\ UNCHANGED <<changes, now, ownershipVars>>

\* Mutated form of apply_version: only the owner can finish a change.
apply_version_by_owner(sender, text) ==
    LET name == normalize[text] IN
    /\ RequireOwner(sender)
    /\ Has(changes, name)
    /\ DelayPassed(name)
    /\ make_current(name, changes[name].label, changes[name].address)
    /\ changes' = Delete(changes, name)
    /\ UNCHANGED <<now, ownershipVars>>

\* Open to anyone, once the delay has passed.
apply_version(sender, text) ==
    LET name == normalize[text] IN
    /\ Has(changes, name)
    /\ DelayPassed(name)
    /\ make_current(name, changes[name].label, changes[name].address)
    /\ changes' = Delete(changes, name)
    /\ UNCHANGED <<now, ownershipVars>>

cancel_version(sender, text) ==
    LET name == normalize[text] IN
    /\ RequireOwner(sender)
    /\ Has(changes, name)
    /\ changes' = Delete(changes, name)
    /\ UNCHANGED <<now, current, pinned, versions, ownershipVars>>

propose_owner(sender, candidate) ==
    ProposeOwner(sender, candidate) /\ UNCHANGED <<now, storage>>

accept_owner(sender) ==
    AcceptOwner(sender) /\ UNCHANGED <<now, storage>>

\* Time passes between two transactions.
Tick ==
    /\ now < MaxTime
    /\ now' = now + 1
    /\ UNCHANGED <<storage, ownershipVars>>

Call(sender) ==
    \/ \E name \in NameTexts, label \in LabelTexts, address \in Addresses :
         set_version(sender, name, label, address)
    \/ \E name \in NameTexts : apply_version(sender, name)
    \/ \E name \in NameTexts : cancel_version(sender, name)
    \/ \E candidate \in Accounts \cup {ZERO_ADDRESS} :
         propose_owner(sender, candidate)
    \/ accept_owner(sender)

Next == Tick \/ \E sender \in Accounts : Call(sender)

Spec == Init /\ [][Next]_vars

-----------------------------------------------------------------------------
(* Properties.                                                               *)

\* A pending change can always be applied as announced: its name resolves,
\* and its label is free or already names the same address.  set_version
\* looks at the label when the change is proposed and apply_version does not
\* look again, two days and any number of calls later.
PendingIsBindable ==
    \A n \in DOMAIN changes :
        LET key == <<n, changes[n].label>> IN
        /\ Has(current, n)
        /\ Has(pinned, key) => pinned[key] = changes[n].address

\* current, pinned and versions, written by separate statements of
\* make_current, never tell three stories: a name resolves to the last
\* version recorded for it, and a label to the address of every version
\* recorded under it.
HistoryAgrees ==
    /\ \A n \in DOMAIN current :
         \E i \in DOMAIN versions :
             /\ versions[i].name = n
             /\ versions[i].address = current[n]
             /\ \A j \in DOMAIN versions : j > i => versions[j].name # n
    /\ \A i \in DOMAIN versions :
         LET key == <<versions[i].name, versions[i].label>> IN
         Has(pinned, key) /\ pinned[key] = versions[i].address

\* A pin is safe: once a label is bound no call, by the owner or by anyone,
\* at any later time, unbinds it or binds it elsewhere.
PinsNeverMove ==
    [][\A k \in DOMAIN pinned : Has(pinned', k) /\ pinned'[k] = pinned[k]]_vars

\* The history is append-only and every entry after a name's first is stamped
\* no sooner than DELAY after the one before it for that name: the delay is
\* visible in the record the contract leaves behind.
HistoryKeepsDelay ==
    \A i, j \in DOMAIN versions :
        i < j /\ versions[i].name = versions[j].name
            => versions[j].set_at >= versions[i].set_at + DELAY

\* An announced change is never edited: it stays as announced until it is
\* applied or cancelled, so the target cannot be swapped late in its window.
AnnouncementIsFixed ==
    [][\A n \in DOMAIN changes :
          Has(changes', n) => changes'[n] = changes[n]]_vars

\* The Router keeps the promise of NoticeService.
Service == INSTANCE NoticeService WITH
    Targets <- Addresses, Notice <- DELAY, clock <- now, pointer <- current,
    announced <- [n \in DOMAIN changes |->
                    [target |-> changes[n].address,
                     since  |-> changes[n].proposed_at]]

GivesNotice == Service!Spec

\* Once announced and waited out, a change does not depend on the owner
\* coming back: an account other than the owner that keeps calling
\* apply_version settles every change whose time comes.
Bystander(name) ==
    \E sender \in Accounts : sender # owner_address /\ apply_version(sender, name)

FairSpec ==
    /\ Spec
    /\ WF_vars(Tick)
    /\ \A name \in NameTexts : WF_vars(Bystander(name))

Matures(n) == Has(changes, n) /\ changes[n].proposed_at + DELAY <= MaxTime

ChangeSettles == \A n \in Names : Matures(n) ~> ~Has(changes, n)
=============================================================================
