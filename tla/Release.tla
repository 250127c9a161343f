------------------------------- MODULE Release -------------------------------
(* How a contract of Lacre comes to be used: its build.py splices the        *)
(* modules of lacre/ into a template, tools/deploy.py sends the file that is *)
(* in the working tree and records with tools/provenance.py what it was, the *)
(* operator points the Registry at it, and tools/verify_deploy.py compares   *)
(* what runs with what the repository says.                                  *)
(*                                                                           *)
(* Whoever works in the tree edits, builds and commits at any time, also     *)
(* while a deploy waits for the chain.  A file is the number of its version; *)
(* what a build writes has the number of the sources it was built from.      *)

EXTENDS Naturals, Sequences, FiniteSets, Registry

CONSTANTS
    Versions,       \* the versions of a source, 0 the first
    EDITED,         \* what an artifact edited by hand is
    MaxCommits,     \* bound on commits
    MaxDeploys      \* bound on deploys

ASSUME ReleaseAssumption ==
    /\ 0 \in Versions
    /\ MaxCommits \in Nat /\ MaxDeploys \in Nat
    /\ 1..MaxDeploys \subseteq Contracts

VARIABLES
    tree,           \* the working tree
    commits,        \* the trees that were committed; HEAD is the last
    dirtied,        \* whether an untracked file lies under a watched directory
    deploy,         \* a run of deploy.py, or IDLE
    disturbed,      \* whether the tree changed while that run was looking at it
    onchain,        \* what code each deployed contract has, its place the address
    entry           \* the contract's entry in deployments.json, or NO_ENTRY

releaseVars == <<tree, commits, dirtied, deploy, disturbed, onchain, entry>>
vars == <<releaseVars, registryVars>>

Artifacts == Versions \cup {EDITED}
HEAD == Len(commits)
IDLE == [at |-> "idle"]
NO_ENTRY == [address |-> 0]
NO_COMMIT == 0

FirstTree == [sources |-> 0, artifact |-> 0, other |-> 0]

Init ==
    /\ RegistryInit
    /\ tree = FirstTree /\ commits = <<FirstTree>> /\ dirtied = FALSE
    /\ deploy = IDLE /\ disturbed = FALSE /\ onchain = <<>> /\ entry = NO_ENTRY

-----------------------------------------------------------------------------
(* The working tree.                                                         *)

\* What build.py produces from a tree: its sources, spliced, pruned and checked.
build(t) == t.sources

\* A change that comes after the bytes are read and before collect is through.
Disturb ==
    /\ disturbed' = (disturbed \/ deploy.at \in {"read", "head", "status"})
    /\ UNCHANGED <<deploy, onchain, entry, registryVars>>

\* Sources or artifact are edited, or build.py is run; or something else is.
Edit ==
    /\ \/ /\ tree' \in {[tree EXCEPT !.sources = v] : v \in Versions}
                     \cup {[tree EXCEPT !.other = v] : v \in Versions}
                     \cup {[tree EXCEPT !.artifact = a] : a \in {EDITED, build(tree)}}
          /\ UNCHANGED dirtied
       \/ dirtied' = ~dirtied /\ UNCHANGED tree
    /\ UNCHANGED commits /\ Disturb

\* All of the tree is committed, or all but the artifact.
Commit ==
    /\ HEAD < MaxCommits
    /\ \E committed \in {tree, [tree EXCEPT !.artifact = commits[HEAD].artifact]} :
         commits' = Append(commits, committed)
    /\ UNCHANGED <<tree, dirtied>> /\ Disturb

-----------------------------------------------------------------------------
(* deploy.py.                                                                *)

\* The bytes are read, once.
Read ==
    /\ deploy = IDLE /\ Len(onchain) < MaxDeploys
    /\ \E allow_dirty \in BOOLEAN :
         deploy' = [at |-> "read", source |-> tree.artifact, allow_dirty |-> allow_dirty]
    /\ disturbed' = FALSE
    /\ UNCHANGED <<tree, commits, dirtied, onchain, entry, registryVars>>

\* collect looks three times: at HEAD, at the status, and at what the build
\* gives.  Without an answer of git the commit is unknown, and that is a problem.
head_commit ==
    /\ deploy.at = "read"
    /\ \/ deploy' = [at |-> "head", source |-> deploy.source, allow_dirty |-> deploy.allow_dirty,
                     commit |-> HEAD]
       \/ deploy' = [at |-> "status", source |-> deploy.source, allow_dirty |-> deploy.allow_dirty,
                     commit |-> NO_COMMIT, dirty |-> TRUE]
    /\ UNCHANGED <<tree, commits, dirtied, disturbed, onchain, entry, registryVars>>

\* dirty_paths: why HEAD does not account for the tree.
dirty_paths ==
    /\ deploy.at = "head"
    /\ deploy' = [at |-> "status", source |-> deploy.source, allow_dirty |-> deploy.allow_dirty,
                  commit |-> deploy.commit, dirty |-> tree # commits[HEAD] \/ dirtied]
    /\ UNCHANGED <<tree, commits, dirtied, disturbed, onchain, entry, registryVars>>

\* Why HEAD does not account for the bytes: the tree, or the build of the tree.
problems == deploy.dirty \/ deploy.source # build(tree)

\* build_of ends collect: a problem ends the deploy, unless it is allowed and
\* then recorded.
collect ==
    /\ deploy.at = "status"
    /\ deploy' = IF problems /\ ~deploy.allow_dirty THEN IDLE
                 ELSE [at |-> "collected", source |-> deploy.source,
                       facts |-> [commit |-> deploy.commit, commit_dirty |-> problems,
                                  inlined |-> tree.sources, source |-> deploy.source,
                                  disturbed |-> disturbed]]
    /\ UNCHANGED <<tree, commits, dirtied, disturbed, onchain, entry, registryVars>>

\* Mutated form of Sent: the file is read again when it is sent.
SentAgain == tree.artifact

Sent == deploy.source

\* The deploy transaction: the contract gets the next address.
Send ==
    /\ deploy.at = "collected"
    /\ onchain' = Append(onchain, Sent)
    /\ deploy' = [at |-> "sent", address |-> Len(onchain) + 1, facts |-> deploy.facts]
    /\ UNCHANGED <<tree, commits, dirtied, disturbed, entry, registryVars>>

\* record_deployment: the entry of the contract's name is replaced.
Record ==
    /\ deploy.at = "sent"
    /\ entry' = [address |-> deploy.address, facts |-> deploy.facts]
    /\ deploy' = IDLE
    /\ UNCHANGED <<tree, commits, dirtied, disturbed, onchain, registryVars>>

\* It stops anywhere: refused, interrupted, or without an address.
Abandon ==
    /\ deploy # IDLE /\ deploy' = IDLE
    /\ UNCHANGED <<tree, commits, dirtied, disturbed, onchain, entry, registryVars>>

\* The operator points a label at a contract that was deployed.
Point ==
    /\ \E sender \in Accounts, label \in Labels, address \in DOMAIN onchain :
         set_version(sender, label, address)
    /\ UNCHANGED releaseVars

-----------------------------------------------------------------------------
(* verify_deploy.py.                                                         *)

MATCH == "match"
MISMATCH == "MISMATCH"
CANNOT == "cannot_check"

\* The contract source in the data of the recorded deploy.
deployed_code(e) == onchain[e.address]

compare(label, agrees) == <<IF agrees THEN MATCH ELSE MISMATCH, label>>

\* What needs the recorded commit.
against_commit(e, code) ==
    IF e.facts.commit = NO_COMMIT THEN {<<CANNOT, "commit">>}
    ELSE LET at == commits[e.facts.commit] IN
         {compare("artifact", at.artifact = code), compare("build", build(at) = code),
          compare("modules", at.sources = e.facts.inlined)}

\* Without one, what the working tree builds now is all there is to compare with.
against_current(e, code) ==
    IF e.facts.commit = NO_COMMIT THEN {compare("current_build", build(tree) = code)} ELSE {}

checks(e) ==
    {compare("recorded_hash", e.facts.source = deployed_code(e))}
      \cup against_commit(e, deployed_code(e)) \cup against_current(e, deployed_code(e))

Labelled(e, status) == {check[2] : check \in {c \in checks(e) : c[1] = status}}

-----------------------------------------------------------------------------

Next ==
    \/ Edit \/ Commit
    \/ Read \/ head_commit \/ dirty_paths \/ collect \/ Send \/ Record \/ Abandon
    \/ Point
    \/ RegistryNext /\ UNCHANGED releaseVars

Spec == Init /\ [][Next]_vars

-----------------------------------------------------------------------------
(* Properties.                                                               *)

Tree == [sources : Versions, artifact : Artifacts, other : Versions]

Facts == [commit : Nat, commit_dirty : BOOLEAN, inlined : Versions, source : Artifacts,
          disturbed : BOOLEAN]

Deploy ==
    {IDLE}
      \cup [at : {"read"}, source : Artifacts, allow_dirty : BOOLEAN]
      \cup [at : {"head"}, source : Artifacts, allow_dirty : BOOLEAN, commit : Nat]
      \cup [at : {"status"}, source : Artifacts, allow_dirty : BOOLEAN, commit : Nat,
            dirty : BOOLEAN]
      \cup [at : {"collected"}, source : Artifacts, facts : Facts]
      \cup [at : {"sent"}, address : Nat, facts : Facts]

\* The type invariant: at every stage of a deploy it knows just what it has
\* read by then, and an address the registry gives out was deployed.
TypeOK ==
    /\ RegistryTypeOK
    /\ tree \in Tree /\ commits \in Seq(Tree) /\ HEAD >= 1
    /\ dirtied \in BOOLEAN /\ disturbed \in BOOLEAN
    /\ deploy \in Deploy
    /\ onchain \in Seq(Artifacts) /\ Len(onchain) <= MaxDeploys
    /\ deploy.at \notin {"idle", "sent"} => Len(onchain) < MaxDeploys
    /\ entry \in {NO_ENTRY} \cup [address : Nat, facts : Facts]
    /\ \A label \in DOMAIN versions : versions[label] \in DOMAIN onchain

\* What deployments.json says stays true, however the tree is edited, built and
\* committed while the deploy waits and afterwards: the contract at the recorded
\* address has the recorded bytes, and an entry that is not marked dirty passes
\* every check verify_deploy.py ever makes of it, and leaves none that cannot
\* be made, unless somebody worked in the tree after the bytes were read and
\* before collect was through.
EntryStaysTrue ==
    entry # NO_ENTRY =>
        /\ "recorded_hash" \in Labelled(entry, MATCH)
        /\ ~entry.facts.commit_dirty /\ ~entry.facts.disturbed =>
             Labelled(entry, MATCH) = {"recorded_hash", "artifact", "build", "modules"}
=============================================================================
