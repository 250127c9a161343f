---------------------------- MODULE ReleaseProofs ---------------------------
(* That an entry of deployments.json stays true, however the tree is worked  *)
(* on, and that a key of the first registry is for good.                     *)

EXTENDS Release, TLAPS

-----------------------------------------------------------------------------
(* The inductive invariant.                                                  *)

\* What collect found: without a problem, and undisturbed, the recorded commit
\* is there and holds the recorded bytes, twice: as they are, and as sources.
Accounted(facts) ==
    ~facts.commit_dirty /\ ~facts.disturbed =>
        /\ facts.commit \in DOMAIN commits
        /\ commits[facts.commit].artifact = facts.source
        /\ commits[facts.commit].sources = facts.source
        /\ facts.inlined = facts.source

\* A contract runs the bytes that its facts are about.
Runs(address, facts) ==
    /\ address \in DOMAIN onchain /\ onchain[address] = facts.source
    /\ Accounted(facts)

\* Until somebody works in the tree, what collect saw is what is there.
Looking ==
    /\ deploy.at \in {"read", "head", "status"} /\ ~disturbed =>
         deploy.source = tree.artifact
    /\ deploy.at = "head" /\ ~disturbed => deploy.commit = HEAD
    /\ deploy.at = "status" /\ ~disturbed /\ ~deploy.dirty =>
         deploy.commit \in DOMAIN commits /\ commits[deploy.commit] = tree

\* What collect found goes with the bytes that are sent, to the entry.
Kept ==
    /\ deploy.at = "collected" =>
         deploy.source = deploy.facts.source /\ Accounted(deploy.facts)
    /\ deploy.at = "sent" => Runs(deploy.address, deploy.facts)
    /\ entry # NO_ENTRY => Runs(entry.address, entry.facts)

ReleaseInv == TypeOK /\ Looking /\ Kept

-----------------------------------------------------------------------------
(* The registry alone.                                                       *)

\* A record is refreshed to a record, of the same key, with no flag taken off.
LEMMA RefreshedRecord ==
    ASSUME NEW held \in KeyRecord, NEW reading \in agree, ~held.retired
    PROVE  /\ Refreshed(held, reading) \in KeyRecord
           /\ Refreshed(held, reading).der = held.der
           /\ held.rotated => Refreshed(held, reading).rotated
  <1>1. CASE reading = ABSENT
    <2>1. reading # held.der /\ reading # UNREADABLE
      BY <1>1, RegistryAssumption DEF KeyRecord, ABSENT, UNREADABLE
    <2>2. Refreshed(held, reading) = [held EXCEPT !.retired = TRUE]
      BY <1>1, <2>1 DEF Refreshed
    <2> QED BY <2>2 DEF KeyRecord
  <1>2. CASE reading # ABSENT /\ (reading = UNREADABLE \/ reading = held.der)
    BY <1>2 DEF Refreshed
  <1>3. CASE reading # ABSENT /\ ~(reading = UNREADABLE \/ reading = held.der)
    <2>1. Refreshed(held, reading) = [held EXCEPT !.rotated = TRUE]
      BY <1>3 DEF Refreshed
    <2> QED BY <2>1 DEF KeyRecord
  <1> QED BY <1>1, <1>2, <1>3

\* What a step may do to the keys: register one that is not there, or refresh
\* or retire one that is.
KeysMove ==
    \/ \E key \in KeyNames, reading \in Ders :
         /\ ~Has(keys, key)
         /\ keys' = Put(keys, key, [der |-> reading, retired |-> FALSE, rotated |-> FALSE])
    \/ \E key \in KeyNames, reading \in agree :
         /\ Has(keys, key) /\ ~keys[key].retired
         /\ keys' = Put(keys, key, Refreshed(keys[key], reading))
    \/ \E key \in KeyNames :
         Has(keys, key) /\ keys' = [keys EXCEPT ![key].retired = TRUE]
    \/ keys' = keys

\* No other step touches a key.
LEMMA RegistrySteps ==
    ASSUME RegistryNext PROVE KeysMove
  <1>1. ASSUME NEW key \in KeyNames, register_key(key) PROVE KeysMove
    BY <1>1 DEF register_key, Registrable, KeysMove
  <1>2. ASSUME NEW key \in KeyNames, refresh_key(key) PROVE KeysMove
    BY <1>2 DEF refresh_key, KeysMove
  <1>3. ASSUME NEW sender \in Accounts, NEW key \in KeyNames, retire_key(sender, key)
        PROVE  KeysMove
    BY <1>3 DEF retire_key, KeysMove
  <1>4. ASSUME NEW sender \in Accounts, NEW candidate, propose_owner(sender, candidate)
        PROVE  KeysMove
    BY <1>4 DEF propose_owner, KeysMove
  <1>5. ASSUME NEW sender \in Accounts, accept_owner(sender) PROVE KeysMove
    BY <1>5 DEF accept_owner, KeysMove
  <1> QED BY <1>1, <1>2, <1>3, <1>4, <1>5 DEF RegistryNext

\* The keys stay records of keys.
LEMMA KeysType ==
    ASSUME RegistryTypeOK, KeysMove
    PROVE  DOMAIN keys' \subseteq KeyNames /\ keys' \in [DOMAIN keys' -> KeyRecord]
  <1> DEFINE Kind == DOMAIN keys' \subseteq KeyNames /\ keys' \in [DOMAIN keys' -> KeyRecord]
  <1>1. ASSUME NEW key \in KeyNames, NEW record \in KeyRecord, keys' = Put(keys, key, record)
        PROVE  Kind
    BY <1>1 DEF RegistryTypeOK, Put
  <1>2. ASSUME NEW key \in KeyNames, NEW reading \in Ders,
               keys' = Put(keys, key, [der |-> reading, retired |-> FALSE, rotated |-> FALSE])
        PROVE  Kind
    <2>1. [der |-> reading, retired |-> FALSE, rotated |-> FALSE] \in KeyRecord
      BY DEF KeyRecord
    <2> QED BY <1>1, <1>2, <2>1
  <1>3. ASSUME NEW key \in KeyNames, NEW reading \in agree,
               Has(keys, key), ~keys[key].retired,
               keys' = Put(keys, key, Refreshed(keys[key], reading))
        PROVE  Kind
    <2>1. keys[key] \in KeyRecord
      BY <1>3 DEF RegistryTypeOK, Has
    <2>2. Refreshed(keys[key], reading) \in KeyRecord
      BY <1>3, <2>1, RefreshedRecord
    <2> QED BY <1>1, <1>3, <2>2
  <1>4. ASSUME NEW key \in KeyNames, Has(keys, key),
               keys' = [keys EXCEPT ![key].retired = TRUE]
        PROVE  Kind
    BY <1>4 DEF RegistryTypeOK, Has, KeyRecord
  <1>5. CASE keys' = keys
    BY <1>5 DEF RegistryTypeOK
  <1> QED BY <1>2, <1>3, <1>4, <1>5 DEF KeysMove

\* The registry's calls keep its storage well formed.
LEMMA RegistryType ==
    ASSUME RegistryTypeOK, RegistryNext PROVE RegistryTypeOK'
  <1>1. DOMAIN keys' \subseteq KeyNames /\ keys' \in [DOMAIN keys' -> KeyRecord]
    BY RegistrySteps, KeysType
  <1>2. UNCHANGED <<versions, history>>
    BY DEF RegistryNext, register_key, refresh_key, retire_key, propose_owner, accept_owner
  <1>3. OwnershipTypeOK'
    BY DEF RegistryNext, register_key, refresh_key, retire_key, propose_owner, accept_owner,
           ProposeOwner, AcceptOwner, RequireOwner, RegistryTypeOK, OwnershipTypeOK,
           ownershipVars
  <1> QED BY <1>1, <1>2, <1>3 DEF RegistryTypeOK

\* What KeysAreForGood asks of one step.
Kin(key) ==
    /\ Has(keys', key) /\ keys'[key].der = keys[key].der
    /\ keys[key].retired => keys'[key] = keys[key]
    /\ keys[key].rotated => keys'[key].rotated

LEMMA KeysKept ==
    ASSUME RegistryTypeOK, KeysMove, NEW key \in DOMAIN keys
    PROVE  Kin(key)
  <1>1. keys[key] \in KeyRecord
    BY DEF RegistryTypeOK
  <1>2. ASSUME NEW other \in KeyNames, NEW record, ~Has(keys, other),
               keys' = Put(keys, other, record)
        PROVE  Kin(key)
    BY <1>2 DEF Kin, Put, Has
  <1>3. ASSUME NEW other \in KeyNames, NEW reading \in agree,
               Has(keys, other), ~keys[other].retired,
               keys' = Put(keys, other, Refreshed(keys[other], reading))
        PROVE  Kin(key)
    <2>1. CASE other = key
      <3>1. /\ Refreshed(keys[key], reading).der = keys[key].der
            /\ keys[key].rotated => Refreshed(keys[key], reading).rotated
        BY <1>1, <1>3, <2>1, RefreshedRecord
      <3>2. keys'[key] = Refreshed(keys[key], reading) /\ Has(keys', key)
        BY <1>3, <2>1 DEF Put, Has
      <3> QED BY <1>3, <2>1, <3>1, <3>2 DEF Kin
    <2>2. CASE other # key
      BY <1>3, <2>2 DEF Kin, Put, Has
    <2> QED BY <2>1, <2>2
  <1>4. ASSUME NEW other \in KeyNames, Has(keys, other),
               keys' = [keys EXCEPT ![other].retired = TRUE]
        PROVE  Kin(key)
    <2>1. CASE other = key
      <3>1. keys'[key] = [keys[key] EXCEPT !.retired = TRUE] /\ Has(keys', key)
        BY <1>4, <2>1 DEF Has, RegistryTypeOK
      <3> QED BY <1>1, <3>1 DEF Kin, KeyRecord
    <2>2. CASE other # key
      BY <1>4, <2>2 DEF Kin, Has, RegistryTypeOK
    <2> QED BY <2>1, <2>2
  <1>5. CASE keys' = keys
    BY <1>5 DEF Kin, Has
  <1> QED BY <1>2, <1>3, <1>4, <1>5 DEF KeysMove

-----------------------------------------------------------------------------
(* Types.                                                                    *)

\* What a step may do to the tree, the commits and the code that is deployed.
LEMMA StagesType ==
    ASSUME TypeOK,
           \/ Read \/ head_commit \/ dirty_paths \/ collect \/ Send \/ Record \/ Abandon
    PROVE  TypeOK'
  <1>1. CASE Read
    <2>1. PICK allow_dirty \in BOOLEAN :
            deploy' = [at |-> "read", source |-> tree.artifact, allow_dirty |-> allow_dirty]
      BY <1>1 DEF Read
    <2>2. tree.artifact \in Artifacts
      BY DEF TypeOK, Tree
    <2>3. deploy' \in Deploy
      BY <2>1, <2>2 DEF Deploy
    <2> QED BY <1>1, <2>3 DEF Read, TypeOK, RegistryTypeOK, registryVars, ownershipVars,
                              OwnershipTypeOK, HEAD
  <1>2. CASE head_commit
    <2>1. deploy.source \in Artifacts /\ deploy.allow_dirty \in BOOLEAN
      BY <1>2 DEF TypeOK, Deploy, head_commit, IDLE
    <2>2. HEAD \in Nat /\ NO_COMMIT \in Nat
      BY DEF TypeOK, HEAD, NO_COMMIT
    <2>3. deploy' \in Deploy
      <3>1. CASE deploy' = [at |-> "head", source |-> deploy.source,
                            allow_dirty |-> deploy.allow_dirty, commit |-> HEAD]
        BY <2>1, <2>2, <3>1 DEF Deploy
      <3>2. CASE deploy' = [at |-> "status", source |-> deploy.source,
                            allow_dirty |-> deploy.allow_dirty, commit |-> NO_COMMIT,
                            dirty |-> TRUE]
        BY <2>1, <2>2, <3>2 DEF Deploy
      <3> QED BY <1>2, <3>1, <3>2 DEF head_commit
    <2> QED BY <1>2, <2>3 DEF head_commit, TypeOK, RegistryTypeOK, registryVars, ownershipVars,
                              OwnershipTypeOK, HEAD
  <1>3. CASE dirty_paths
    <2>1. deploy.source \in Artifacts /\ deploy.allow_dirty \in BOOLEAN /\ deploy.commit \in Nat
      BY <1>3 DEF TypeOK, Deploy, dirty_paths, IDLE
    <2>2. (tree # commits[HEAD] \/ dirtied) \in BOOLEAN
      OBVIOUS
    <2>3. deploy' \in Deploy
      BY <1>3, <2>1, <2>2 DEF dirty_paths, Deploy
    <2> QED BY <1>3, <2>3 DEF dirty_paths, TypeOK, RegistryTypeOK, registryVars, ownershipVars,
                              OwnershipTypeOK, HEAD
  <1>4. CASE collect
    <2>1. deploy.source \in Artifacts /\ deploy.commit \in Nat
      BY <1>4 DEF TypeOK, Deploy, collect, IDLE
    <2>2. problems \in BOOLEAN /\ tree.sources \in Versions /\ disturbed \in BOOLEAN
      BY DEF TypeOK, Tree, problems
    <2>3. [commit |-> deploy.commit, commit_dirty |-> problems, inlined |-> tree.sources,
           source |-> deploy.source, disturbed |-> disturbed] \in Facts
      BY <2>1, <2>2 DEF Facts
    <2>4. deploy' \in Deploy
      BY <1>4, <2>1, <2>3 DEF collect, Deploy
    <2> QED BY <1>4, <2>4 DEF collect, TypeOK, RegistryTypeOK, registryVars, ownershipVars,
                              OwnershipTypeOK, HEAD
  <1>5. CASE Send
    <2>1. deploy.source \in Artifacts /\ deploy.facts \in Facts
      BY <1>5 DEF TypeOK, Deploy, Send, IDLE
    <2>2. Len(onchain) + 1 \in Nat
      BY DEF TypeOK
    <2>3. deploy' \in Deploy
      BY <1>5, <2>1, <2>2 DEF Send, Deploy
    <2>4. onchain' \in Seq(Artifacts) /\ Len(onchain') = Len(onchain) + 1
      BY <1>5, <2>1 DEF Send, Sent, TypeOK
    <2>5. Len(onchain') <= MaxDeploys /\ deploy'.at = "sent"
      BY <1>5, <2>4, ReleaseAssumption DEF Send, TypeOK
    <2>6. \A label \in DOMAIN versions : versions[label] \in DOMAIN onchain'
      BY <2>4 DEF TypeOK
    <2> QED BY <1>5, <2>3, <2>4, <2>5, <2>6
            DEF Send, TypeOK, RegistryTypeOK, registryVars, ownershipVars, OwnershipTypeOK, HEAD
  <1>6. CASE Record
    <2>1. deploy.address \in Nat /\ deploy.facts \in Facts
      BY <1>6 DEF TypeOK, Deploy, Record, IDLE
    <2>2. entry' \in [address : Nat, facts : Facts]
      BY <1>6, <2>1 DEF Record
    <2>3. deploy' \in Deploy /\ deploy'.at = "idle"
      BY <1>6 DEF Record, Deploy, IDLE
    <2> QED BY <1>6, <2>2, <2>3 DEF Record, TypeOK, RegistryTypeOK, registryVars, ownershipVars,
                              OwnershipTypeOK, HEAD
  <1>7. CASE Abandon
    <2>1. deploy' \in Deploy /\ deploy'.at = "idle"
      BY <1>7 DEF Abandon, Deploy, IDLE
    <2> QED BY <1>7, <2>1 DEF Abandon, TypeOK, RegistryTypeOK, registryVars, ownershipVars,
                              OwnershipTypeOK, HEAD
  <1> QED BY <1>1, <1>2, <1>3, <1>4, <1>5, <1>6, <1>7

\* Whoever works in the tree leaves the types alone.
LEMMA TreeType ==
    ASSUME TypeOK, Edit \/ Commit PROVE TypeOK'
  <1>1. disturbed' \in BOOLEAN /\ UNCHANGED <<deploy, onchain, entry, registryVars>>
    BY DEF Edit, Commit, Disturb, TypeOK
  <1>2. tree' \in Tree /\ dirtied' \in BOOLEAN
    <2>1. CASE Edit
      <3>1. ASSUME NEW t \in {[tree EXCEPT !.sources = v] : v \in Versions}
                             \cup {[tree EXCEPT !.other = v] : v \in Versions}
                             \cup {[tree EXCEPT !.artifact = a] : a \in {EDITED, build(tree)}}
            PROVE  t \in Tree
        <4>1. build(tree) \in Artifacts /\ EDITED \in Artifacts
          BY DEF build, Artifacts, TypeOK, Tree
        <4> QED BY <4>1 DEF TypeOK, Tree
      <3> QED BY <2>1, <3>1 DEF Edit, TypeOK
    <2>2. CASE Commit
      BY <2>2 DEF Commit, TypeOK
    <2> QED BY <2>1, <2>2
  <1>3. commits' \in Seq(Tree) /\ Len(commits') >= 1
    <2>1. CASE Edit
      BY <2>1 DEF Edit, TypeOK, HEAD
    <2>2. CASE Commit
      <3>1. commits[HEAD] \in Tree
        BY DEF HEAD, TypeOK
      <3>2. commits[HEAD].artifact \in Artifacts
        BY <3>1 DEF Tree
      <3>3. [tree EXCEPT !.artifact = commits[HEAD].artifact] \in Tree
        BY <3>2 DEF TypeOK, Tree
      <3>4. PICK committed \in Tree : commits' = Append(commits, committed)
        BY <2>2, <3>3 DEF Commit, TypeOK
      <3> QED BY <3>4 DEF TypeOK
    <2> QED BY <2>1, <2>2
  <1> QED BY <1>1, <1>2, <1>3
          DEF TypeOK, RegistryTypeOK, registryVars, ownershipVars, OwnershipTypeOK, HEAD

\* The operator points a label at what was deployed.
LEMMA PointType ==
    ASSUME TypeOK, Point PROVE TypeOK'
  <1>1. PICK sender \in Accounts, label \in Labels, address \in DOMAIN onchain :
          set_version(sender, label, address)
    BY DEF Point
  <1>2. address \in Contracts
    <2>1. address \in 1..MaxDeploys
      BY <1>1, ReleaseAssumption DEF TypeOK
    <2> QED BY <2>1, ReleaseAssumption
  <1>3. versions' = Put(versions, label, address) /\ UNCHANGED <<keys, ownershipVars>>
    BY <1>1 DEF set_version
  <1>4. DOMAIN versions' \subseteq Labels /\ versions' \in [DOMAIN versions' -> Contracts]
    BY <1>2, <1>3 DEF Put, TypeOK, RegistryTypeOK
  <1>5. \A l \in DOMAIN versions' : versions'[l] \in DOMAIN onchain
    BY <1>1, <1>3 DEF Put, TypeOK
  <1>6. history' \in Seq(Version)
    <2>1. [name |-> label, address |-> address] \in Version
      BY <1>2 DEF Version
    <2> QED BY <1>1, <2>1 DEF set_version, TypeOK, RegistryTypeOK
  <1>7. RegistryTypeOK'
    BY <1>3, <1>4, <1>6 DEF TypeOK, RegistryTypeOK, ownershipVars, OwnershipTypeOK
  <1> QED BY <1>5, <1>7 DEF Point, releaseVars, TypeOK, HEAD

LEMMA TypeStep ==
    ASSUME TypeOK, [Next]_vars PROVE TypeOK'
  <1>1. CASE RegistryNext /\ UNCHANGED releaseVars
    <2>1. RegistryTypeOK'
      BY <1>1, RegistryType DEF TypeOK
    <2>2. UNCHANGED versions
      BY <1>1 DEF RegistryNext, register_key, refresh_key, retire_key, propose_owner,
                  accept_owner
    <2> QED BY <1>1, <2>1, <2>2 DEF releaseVars, TypeOK, HEAD
  <1>2. CASE UNCHANGED vars
    BY <1>2 DEF vars, releaseVars, registryVars, ownershipVars, TypeOK, RegistryTypeOK,
                OwnershipTypeOK, HEAD
  <1> QED BY <1>1, <1>2, StagesType, TreeType, PointType DEF Next

LEMMA TypeInit ==
    ASSUME Init PROVE TypeOK
  <1>1. FirstTree \in Tree
    BY ReleaseAssumption DEF FirstTree, Tree, Artifacts
  <1>2. RegistryTypeOK
    BY OwnershipAssumption DEF Init, RegistryInit, OwnershipInit, RegistryTypeOK,
                               OwnershipTypeOK, EmptyMap
  <1>3. commits \in Seq(Tree) /\ Len(commits) = 1
    BY <1>1 DEF Init
  <1>4. deploy \in Deploy /\ deploy.at = "idle"
    BY DEF Init, Deploy, IDLE
  <1>5. onchain \in Seq(Artifacts) /\ Len(onchain) = 0
    BY DEF Init
  <1>6. DOMAIN versions = {}
    BY DEF Init, RegistryInit, EmptyMap
  <1>7. Len(onchain) <= MaxDeploys
    BY <1>5, ReleaseAssumption
  <1>8. tree \in Tree /\ dirtied \in BOOLEAN /\ disturbed \in BOOLEAN /\ entry = NO_ENTRY
    BY <1>1 DEF Init
  <1> QED BY <1>2, <1>3, <1>4, <1>5, <1>6, <1>7, <1>8 DEF TypeOK, HEAD

\* Every state is well typed: a run of deploy.py knows at each stage just what
\* it has read by then, and a label is only pointed at what was deployed.
THEOREM ReleaseTypeOK == Spec => []TypeOK
  <1> QED BY TypeInit, TypeStep, PTL DEF Spec

-----------------------------------------------------------------------------
(* What was found stays found.                                               *)

\* Commits and contracts are added, never changed.
Grew ==
    /\ \A i \in DOMAIN commits : i \in DOMAIN commits' /\ commits'[i] = commits[i]
    /\ \A i \in DOMAIN onchain : i \in DOMAIN onchain' /\ onchain'[i] = onchain[i]

LEMMA AllGrows ==
    ASSUME TypeOK, [Next]_vars PROVE Grew
  <1>1. CASE Commit
    <2>1. TypeOK'
      BY TypeStep
    <2>2. PICK committed : commits' = Append(commits, committed)
      BY <1>1 DEF Commit
    <2>3. \A i \in DOMAIN commits : i \in DOMAIN commits' /\ commits'[i] = commits[i]
      BY <2>2 DEF TypeOK
    <2> QED BY <1>1, <2>3 DEF Commit, Disturb, Grew
  <1>2. CASE Send
    <2>1. \A i \in DOMAIN onchain : i \in DOMAIN onchain' /\ onchain'[i] = onchain[i]
      BY <1>2 DEF Send, TypeOK
    <2> QED BY <1>2, <2>1 DEF Send, Grew
  <1>3. CASE ~Commit /\ ~Send
    BY <1>3 DEF Next, Edit, Disturb, Read, head_commit, dirty_paths, collect, Record, Abandon,
                Point, releaseVars, vars, Grew
  <1> QED BY <1>1, <1>2, <1>3

LEMMA StaysAccounted ==
    ASSUME NEW facts, Accounted(facts), Grew PROVE Accounted(facts)'
  BY DEF Accounted, Grew

LEMMA StillRuns ==
    ASSUME NEW address, NEW facts, Runs(address, facts), Grew
    PROVE  Runs(address, facts)'
  BY StaysAccounted DEF Runs, Grew

\* A step that neither collects, nor sends, nor records.
LEMMA KeptStays ==
    ASSUME Kept, Grew, entry' = entry,
           deploy' = deploy \/ deploy'.at \notin {"collected", "sent"}
    PROVE  Kept'
  <1>1. ASSUME entry' # NO_ENTRY PROVE Runs(entry.address, entry.facts)'
    <2>1. PICK address, facts : address = entry.address /\ facts = entry.facts
      OBVIOUS
    <2>2. Runs(address, facts)
      BY <1>1, <2>1 DEF Kept, NO_ENTRY
    <2>3. Runs(address, facts)'
      BY <2>2, StillRuns
    <2> QED BY <2>1, <2>3
  <1>2. ASSUME deploy' = deploy, deploy.at = "collected"
        PROVE  (deploy.source = deploy.facts.source /\ Accounted(deploy.facts))'
    <2>1. PICK facts : facts = deploy.facts
      OBVIOUS
    <2>2. Accounted(facts)' /\ deploy.source = deploy.facts.source
      BY <1>2, <2>1, StaysAccounted DEF Kept
    <2> QED BY <1>2, <2>1, <2>2
  <1>3. ASSUME deploy' = deploy, deploy.at = "sent"
        PROVE  Runs(deploy.address, deploy.facts)'
    <2>1. PICK address, facts : address = deploy.address /\ facts = deploy.facts
      OBVIOUS
    <2>2. Runs(address, facts)'
      BY <1>3, <2>1, StillRuns DEF Kept
    <2> QED BY <1>3, <2>1, <2>2
  <1> QED BY <1>1, <1>2, <1>3 DEF Kept

LEMMA KeptStep ==
    ASSUME TypeOK, Looking, Kept, [Next]_vars PROVE Kept'
  <1> USE AllGrows
  <1>1. CASE collect
    <2>1. CASE deploy' = IDLE
      BY <1>1, <2>1, KeptStays DEF collect, IDLE
    <2>2. CASE deploy' # IDLE
      <3> DEFINE facts == [commit |-> deploy.commit, commit_dirty |-> problems,
                           inlined |-> tree.sources, source |-> deploy.source,
                           disturbed |-> disturbed]
      <3>1. deploy' = [at |-> "collected", source |-> deploy.source, facts |-> facts]
        BY <1>1, <2>2 DEF collect
      <3>2. Accounted(facts)
        <4>1. SUFFICES ASSUME ~problems, ~disturbed
                       PROVE  /\ deploy.commit \in DOMAIN commits
                              /\ commits[deploy.commit].artifact = deploy.source
                              /\ commits[deploy.commit].sources = deploy.source
                              /\ tree.sources = deploy.source
          BY DEF Accounted
        <4>2. ~deploy.dirty /\ deploy.source = tree.sources
          BY <4>1 DEF problems, build
        <4>3. deploy.source = tree.artifact
          BY <1>1, <4>1 DEF Looking, collect
        <4>4. deploy.commit \in DOMAIN commits /\ commits[deploy.commit] = tree
          BY <1>1, <4>1, <4>2 DEF Looking, collect
        <4> QED BY <4>2, <4>3, <4>4
      <3>3. facts.source = deploy.source
        OBVIOUS
      <3> HIDE DEF facts
      <3>4. PICK found : found = facts
        OBVIOUS
      <3>5. Accounted(found)'
        BY <3>2, <3>4, StaysAccounted
      <3>6. deploy'.facts = found /\ deploy'.source = found.source /\ deploy'.at = "collected"
        BY <3>1, <3>3, <3>4
      <3>7. ASSUME entry' # NO_ENTRY PROVE Runs(entry.address, entry.facts)'
        <4>1. PICK address, noted : address = entry.address /\ noted = entry.facts
          OBVIOUS
        <4>2. Runs(address, noted)' /\ entry' = entry
          BY <1>1, <3>7, <4>1, StillRuns DEF Kept, collect, NO_ENTRY
        <4> QED BY <4>1, <4>2
      <3> QED BY <3>5, <3>6, <3>7 DEF Kept
    <2> QED BY <2>1, <2>2
  <1>2. CASE Send
    <2>1. PICK facts : facts = deploy.facts
      OBVIOUS
    <2>2. PICK address : address = Len(onchain) + 1
      OBVIOUS
    <2>3. Accounted(facts) /\ deploy.source = facts.source
      BY <1>2, <2>1 DEF Send, Kept
    <2>4. address \in DOMAIN onchain' /\ onchain'[address] = facts.source
      BY <1>2, <2>2, <2>3 DEF Send, Sent, TypeOK
    <2>5. Runs(address, facts)'
      BY <2>3, <2>4, StaysAccounted DEF Runs
    <2>6. deploy'.at = "sent" /\ deploy'.address = address /\ deploy'.facts = facts
      BY <1>2, <2>1, <2>2 DEF Send
    <2>7. ASSUME entry' # NO_ENTRY PROVE Runs(entry.address, entry.facts)'
      <3>1. PICK at, noted : at = entry.address /\ noted = entry.facts
        OBVIOUS
      <3>2. Runs(at, noted)' /\ entry' = entry
        BY <1>2, <2>7, <3>1, StillRuns DEF Kept, Send, NO_ENTRY
      <3> QED BY <3>1, <3>2
    <2> QED BY <2>5, <2>6, <2>7 DEF Kept
  <1>3. CASE Record
    <2>1. PICK address, facts : address = deploy.address /\ facts = deploy.facts
      OBVIOUS
    <2>2. Runs(address, facts)'
      BY <1>3, <2>1, StillRuns DEF Record, Kept
    <2>3. entry'.address = address /\ entry'.facts = facts /\ deploy'.at = "idle"
      BY <1>3, <2>1 DEF Record, IDLE
    <2> QED BY <2>2, <2>3 DEF Kept
  <1>4. CASE ~collect /\ ~Send /\ ~Record
    <2>1. entry' = entry
      BY <1>4 DEF Next, Edit, Commit, Disturb, Read, head_commit, dirty_paths, Abandon, Point,
                  releaseVars, vars
    <2>2. deploy' = deploy \/ deploy'.at \notin {"collected", "sent"}
      <3>1. CASE Read \/ head_commit \/ dirty_paths \/ Abandon
        BY <3>1 DEF Read, head_commit, dirty_paths, Abandon, IDLE
      <3>2. CASE ~(Read \/ head_commit \/ dirty_paths \/ Abandon)
        BY <1>4, <3>2 DEF Next, Edit, Commit, Disturb, Point, releaseVars, vars
      <3> QED BY <3>1, <3>2
    <2> QED BY <2>1, <2>2, KeptStays
  <1> QED BY <1>1, <1>2, <1>3, <1>4

LEMMA LookingStep ==
    ASSUME TypeOK, Looking, [Next]_vars PROVE Looking'
  <1>1. CASE Edit \/ Commit
    <2>1. deploy' = deploy
      BY <1>1 DEF Edit, Commit, Disturb
    <2>2. deploy.at \in {"read", "head", "status"} => disturbed'
      BY <1>1 DEF Edit, Commit, Disturb
    <2> QED BY <2>1, <2>2 DEF Looking
  <1>2. CASE Read
    BY <1>2 DEF Read, Looking
  <1>3. CASE head_commit
    <2>1. UNCHANGED <<tree, commits, disturbed>> /\ deploy'.source = deploy.source
          /\ deploy.at = "read"
      BY <1>3 DEF head_commit
    <2>2. \/ deploy'.at = "head" /\ deploy'.commit = HEAD
          \/ deploy'.at = "status" /\ deploy'.dirty
      BY <1>3 DEF head_commit
    <2> QED BY <2>1, <2>2 DEF Looking, HEAD
  <1>4. CASE dirty_paths
    <2>1. /\ UNCHANGED <<tree, commits, disturbed>> /\ deploy'.source = deploy.source
          /\ deploy'.at = "status" /\ deploy'.commit = deploy.commit
      BY <1>4 DEF dirty_paths
    <2>2. deploy'.dirty = (tree # commits[HEAD] \/ dirtied)
      BY <1>4 DEF dirty_paths
    <2>3. HEAD \in DOMAIN commits
      BY DEF TypeOK, HEAD
    <2>4. deploy.at = "head"
      BY <1>4 DEF dirty_paths
    <2> QED BY <2>1, <2>2, <2>3, <2>4 DEF Looking
  <1>5. CASE collect \/ Send \/ Record \/ Abandon
    <2>1. deploy'.at \notin {"read", "head", "status"}
      BY <1>5 DEF collect, Send, Record, Abandon, IDLE
    <2> QED BY <2>1 DEF Looking
  <1>6. CASE Point \/ (RegistryNext /\ UNCHANGED releaseVars) \/ UNCHANGED vars
    BY <1>6 DEF Point, releaseVars, vars, Looking, HEAD
  <1> QED BY <1>1, <1>2, <1>3, <1>4, <1>5, <1>6 DEF Next

\* What collect saw, what it found and what runs agree in every state.
THEOREM ReleaseIsKept == Spec => []ReleaseInv
  <1>1. ASSUME Init PROVE ReleaseInv
    BY <1>1, TypeInit DEF ReleaseInv, Init, Looking, Kept, IDLE
  <1>2. ASSUME ReleaseInv, [Next]_vars PROVE ReleaseInv'
    BY <1>2, TypeStep, LookingStep, KeptStep DEF ReleaseInv
  <1> QED BY <1>1, <1>2, PTL DEF Spec

-----------------------------------------------------------------------------
(* The results.                                                              *)

LEMMA EntryIsTrue ==
    ASSUME ReleaseInv PROVE EntryStaysTrue
  <1> SUFFICES ASSUME entry # NO_ENTRY
               PROVE  /\ "recorded_hash" \in Labelled(entry, MATCH)
                      /\ ~entry.facts.commit_dirty /\ ~entry.facts.disturbed =>
                           Labelled(entry, MATCH) = {"recorded_hash", "artifact", "build", "modules"}
    BY DEF EntryStaysTrue
  <1>1. /\ entry.address \in DOMAIN onchain /\ onchain[entry.address] = entry.facts.source
        /\ Accounted(entry.facts)
    BY DEF ReleaseInv, Kept, Runs
  <1>2. <<MATCH, "recorded_hash">> \in checks(entry)
    BY <1>1 DEF checks, compare, deployed_code
  <1>3. "recorded_hash" \in Labelled(entry, MATCH)
    BY <1>2 DEF Labelled
  <1>4. ASSUME ~entry.facts.commit_dirty, ~entry.facts.disturbed
        PROVE  Labelled(entry, MATCH) = {"recorded_hash", "artifact", "build", "modules"}
    <2>1. entry.facts.commit # NO_COMMIT
      BY <1>1, <1>4 DEF Accounted, ReleaseInv, TypeOK, NO_COMMIT
    <2>2. against_current(entry, deployed_code(entry)) = {}
      BY <2>1 DEF against_current
    <2>3. against_commit(entry, deployed_code(entry)) =
            {<<MATCH, "artifact">>, <<MATCH, "build">>, <<MATCH, "modules">>}
      BY <1>1, <1>4, <2>1 DEF Accounted, against_commit, compare, deployed_code, build
    <2>4. checks(entry) = {<<MATCH, "recorded_hash">>, <<MATCH, "artifact">>,
                           <<MATCH, "build">>, <<MATCH, "modules">>}
      BY <1>1, <2>2, <2>3 DEF checks, compare, deployed_code
    <2>5. {c \in checks(entry) : c[1] = MATCH} = checks(entry)
      BY <2>4
    <2>6. Labelled(entry, MATCH) = {check[2] : check \in checks(entry)}
      BY <2>5 DEF Labelled
    <2>7. \A label : label \in Labelled(entry, MATCH) <=>
                       label \in {"recorded_hash", "artifact", "build", "modules"}
      BY <2>4, <2>6
    <2> QED BY <2>7
  <1> QED BY <1>3, <1>4

\* An entry of deployments.json stays true however the tree is worked on while
\* the deploy waits and afterwards: the contract at its address runs the
\* recorded bytes, and an entry that is not marked dirty passes every check of
\* verify_deploy.py, unless the tree was worked on under collect's eyes.
THEOREM ReleaseEntryStaysTrue == Spec => []EntryStaysTrue
  <1> QED BY ReleaseIsKept, EntryIsTrue, PTL

LEMMA StepsMoveKeys ==
    ASSUME [Next]_vars PROVE KeysMove
  <1>1. CASE RegistryNext
    BY <1>1, RegistrySteps
  <1>2. CASE ~RegistryNext
    BY <1>2 DEF Next, Edit, Commit, Disturb, Read, head_commit, dirty_paths, collect, Send,
                Record, Abandon, Point, set_version, registryVars, vars, KeysMove
  <1> QED BY <1>1, <1>2

\* A key of the registry is for good: no call changes the key of a record,
\* brings a retired one back or takes a flag off it.
THEOREM ReleaseKeysAreForGood == Spec => KeysAreForGood
  <1>1. ASSUME TypeOK, [Next]_vars
        PROVE  [\A key \in DOMAIN keys :
                  /\ Has(keys', key) /\ keys'[key].der = keys[key].der
                  /\ keys[key].retired => keys'[key] = keys[key]
                  /\ keys[key].rotated => keys'[key].rotated]_registryVars
    BY <1>1, StepsMoveKeys, KeysKept DEF Kin, TypeOK
  <1> QED BY <1>1, ReleaseTypeOK, PTL DEF Spec, KeysAreForGood
=============================================================================
