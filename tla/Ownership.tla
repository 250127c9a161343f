------------------------------ MODULE Ownership -----------------------------
(* The two-step ownership that every contract of this repository carries:    *)
(* the owner proposes a candidate, and ownership moves only when the         *)
(* candidate signs accept_owner.  The contracts hold a copy of this code     *)
(* each; a contract's module EXTENDS this one and frames the two actions     *)
(* with its own state.                                                       *)

CONSTANTS
    Accounts,       \* the accounts that sign transactions
    Deployer,       \* the account that deploys the contract
    ZERO_ADDRESS    \* what an unset Address field reads back as

ASSUME OwnershipAssumption ==
    /\ Deployer \in Accounts
    /\ ZERO_ADDRESS \notin Accounts

VARIABLES
    owner_address,
    pending_owner_address,
    proposed_by     \* history: who signed the standing proposal

ownershipVars == <<owner_address, pending_owner_address, proposed_by>>

OwnershipTypeOK ==
    /\ owner_address \in Accounts
    /\ pending_owner_address \in Accounts \cup {ZERO_ADDRESS}
    /\ proposed_by \in Accounts

OwnershipInit ==
    /\ owner_address = Deployer
    /\ pending_owner_address = ZERO_ADDRESS
    /\ proposed_by = Deployer

\* A call by anyone else raises, and a call that raises changes nothing.
RequireOwner(sender) == sender = owner_address

ProposeOwner(sender, candidate) ==
    /\ RequireOwner(sender)
    /\ candidate # ZERO_ADDRESS
    /\ pending_owner_address' = candidate
    /\ proposed_by' = sender
    /\ UNCHANGED owner_address

AcceptOwner(sender) ==
    /\ pending_owner_address # ZERO_ADDRESS
    /\ sender = pending_owner_address
    /\ owner_address' = pending_owner_address
    /\ pending_owner_address' = ZERO_ADDRESS
    /\ UNCHANGED proposed_by

\* A standing proposal was always signed by whoever owns the contract now:
\* no account can take ownership over on the word of a former owner, which
\* is what a proposal left standing across accept_owner would allow.
ProposalIsOwners ==
    pending_owner_address # ZERO_ADDRESS => proposed_by = owner_address
=============================================================================
