# A TLA+ verification project for Lacre

Lacre is signed evidence for contracts on GenLayer: validators check the DKIM
signature of a mail's headers against a key read from DNS, agree on a record,
and other contracts act on it. This directory holds models of its contracts
written from the code under `contracts/`, the TLC configurations that check
them, and theorems about them checked by TLAPS.

## The system and its parts

State lives in contracts. A *write* is a transaction that runs alone, changes
storage at its end, and changes nothing if it raises. A transaction is first
ACCEPTED, then, after a window in which it can be appealed, FINALIZED. Reads
between contracts name LATEST_FINAL. Value sent along with a call is in the
callee's balance from the activation of the call; value a contract sends out
leaves when the transaction that sent it is FINALIZED. Whatever a write reads
from the network is run by every validator and compared.

| part | state | operations | what it calls | what is hard about it | what makes it correct |
|---|---|---|---|---|---|
| **Router** `contracts/router` | `current`, `pinned`, `changes`, `versions`, owner | `set_version`, `apply_version` (open to anyone), `cancel_version`, two-step ownership, views | nothing | a label checked at proposal and used two days later; three maps written apart; time between proposal and application; readers that poll | a name never moves without 48 hours' notice of that very move; a pin never moves; the history agrees with the maps; a change needs no owner to finish |
| **KeyCache** `contracts/keycache` | `keys`, `failures`, owner | `register_key`, `confirm_key`, `refresh_key` (open to anyone), `retire_key`, ownership, views | two DNS resolvers | each resolver can answer, lie, be down or be unreadable, at each of several reads a day apart | a key is active only on two agreeing reads a quarantine apart with nothing contrary between; retirement is terminal; one resolver decides nothing |
| **Verifier** `contracts/verifier` | `records`, `record_count`, `ids_of`, `refusals`, fee, balance, owner, treasury | `attest`, `attest_inline` (payable), `set_fee`, `withdraw`, two-step ownership and treasury, views | Router and KeyCache at LATEST_FINAL, the mail's URL | refusals that must hand value back without raising; a balance that counts value already promised; calls finalized without executing | a call writes a record and keeps its value or gives all of it back; the records are the ledger; who is owed a refund gets it |
| **Extractor** `contracts/extractor`, **LLM Extractor** `contracts/llmextractor` | `records`, `documents` (pattern lane), the Verifier's money and ownership code | `extract` (payable), `set_patterns`, owner's calls | Router and Verifier at LATEST_FINAL, the body's URL, a language model | records of several Verifiers share ids; patterns change between calls | a value is stored only for a body that hashes to the signed `bh`; money as in the Verifier |
| **Registry v1** `contracts/registry` | `versions`, `history`, `keys`, owner | `set_version`, `register_key`, `refresh_key`, `retire_key`, ownership | two DNS resolvers | superseded; no delay and no quarantine | retirement is terminal; keys only on agreement |
| **Consumer** `integrations/consumer_example.py` | `delivered`, `messages` | `mark_delivered`, views | Router, Verifier, Extractors | one message attested many times, by several Verifiers; a scan window of 32 | one delivery per message |
| **Broadcast** `tools/chain.py` | the node's answers, nonces | `broadcast`, `send`, `l2_known`, retries | a JSON-RPC gateway that drops, delays and repeats | an answer lost after the send got through | one signed transaction becomes at most one; "not sent" is never said of one that was |
| **Attestation client** `tools/attest.py`, **extraction client** `tools/extract.py` | snapshot, attempts | `Session.send`, `wait`, `outcome`, `judge`, `protocol` | Broadcast, Verifier/Extractor views | a call that is ACCEPTED, appealed, finalized without executing; records of concurrent calls | no second attestation is paid for while the first may still count |
| **Waits** `tools/txstate.py` | stored status | `stored`, `wait_stored`, `wait_for_decision` | the chain, an SDK | views that disagree with the stored status | the wait ends with what the chain stored |
| **Algorithms** `lacre/` | none | DKIM header and body verification, DER reading, extraction rules | | boundaries of parsing and canonicalization | each agrees with its RFC on what it accepts |
| **Deployment** `tools/deploy.py`, `provenance.py`, `verify_deploy.py` | `deployments.json` | deploy, record, compare | the chain | failure between deploying and recording | the record names the code that runs |
| **Builds**, one-shot tools, `experiments/` | none, or frozen | | | | |

Contracts reach each other only through the Router: the Verifier resolves
`keycache`, the Extractors resolve `verifier`, a consumer resolves both, at
every call and never from storage.

## Modules

| module | of | stands for |
|---|---|---|
| `TreeMaps` | all contracts | the storage type `TreeMap`: a function on the set of keys it holds |
| `Ownership` | all contracts | `propose_owner`, `accept_owner` and the owner check, extended by each contract's module |
| `NoticeService` | Router | abstract specification: a pointer per name that moves only as announced and only after the notice |
| `Router`, `RouterWatch` | Router | the contract, one action per write; then the contract with a consumer that polls it |
| `KeyCache` | KeyCache | the contract, with every pair of resolver answers as its input |
| `Verifier` | Verifier | the contract, its balance, and the messages that carry value until they settle |
| `Lacre` | both Extractors, the consumer | their writes composed with a Router whose names move, several Verifiers, finality and appeals |
| `Registry`, `Release` | Registry v1, `deploy.py`, `provenance.py`, `verify_deploy.py` | the contract; then the way from a working tree to a contract in use |
| `OneTransaction` | `chain.py` | abstract specification: what a send promises to the one who pays for it |
| `Broadcast` | `chain.py`, `Session.send` | a send over a network that loses, delays and repeats, and a node that evicts |
| `Consensus`, `Wait`, `Attest` | `txstate.py`, `attest.py`, `extract.py` | the chain as its clients meet it; the wait for one transaction; the protocol of attempts over both |
| `Refusals` | `attest.py`, `extract.py` | the refusals the clients predict, beside those the contracts make |
| `Dkim`, `KeyRecords`, `BodyText`, `Comments`, `Dates`, `NameKeys` | `lacre/`, the contracts, `rfc6376.py`, `prompt.py` | the algorithms, each beside the second implementation the repository has of it or a definition from its RFC |
| `Samples`, `Builds` | `headers_blob.py`, `extract_check.py`, `llm_check.py`, the `build.py` files | what the tools make of a message, what a build makes of sources |
| `ProbeRun`, `Results` | `experiments/llm-probe-2` | the driver that runs a plan of calls window by window, and the report of its log |
| `Algorithms` | `NameKeys`, `KeyRecords`, `Dates`, `Refusals`, `Results` | the inputs these are given, made step by step, and what the code must compute of them |
| `RouterProofs`, `KeyCacheProofs`, `VerifierProofs`, `LacreProofs`, `BroadcastProofs`, `AttestProofs`, `ProbeRunProofs`, `ReleaseProofs` | | lemmas and theorems, see below |
| `MCRouter`, `MCVerifier`, `MCLacre`, `MCAlgorithms` | | instances for TLC |

Actions and fields carry the names of the code. Where one method has a test
worth naming (`NothingPending`, `LabelIsFree`, `DelayPassed`, `Readable`,
`Pinned`, ...) the test is an operator of its own. Next to some of them stands a
*mutated form* of it, the slip a maintainer could make there. They are part of
no specification: each says which slip the property named for it in
`PROJECT.json` would catch.

Conventions shared by the contract modules:

- A call that raises changes nothing, and so does one that returns early
  without storing; neither is a step. What such a call returns cannot be read
  from the chain.
- Time is a natural number advanced by `Tick`. `unix_time` turns the
  transaction's datetime into seconds; the models start where it has, and
  module `Dates` checks it. That datetimes never decrease from one transaction
  to the next is assumed of the chain.
- Variables called *history* in their declaration (`witnessed`, `bothAnswered`,
  `received`, `returned`, `paid_out`, `settled` of `Attest`, ...) record what
  happened so that a property can speak of it. No guard reads them.
- A built contract (`verifier.py` and the like) is its template with modules of
  `lacre/` spliced in, so a definition may be mapped to either.

### Router

`make_current` writes `current`, `pinned` and `versions` as the code does.
`set_version` has its two outcomes as two disjuncts, the first address of a
name and the announcement of a later one. The key `name + "/" + label` of
`pinned` is the pair of its parts; `KeysFindTheirOwn` is why that
loses nothing. `normalize` is a constant function in `Router`, so that
the proofs hold for any, and computed by `NameKeys` in `MCRouter`. `RouterWatch`
adds the consumer that polls `resolve` and `pending`, which the 48 hours are for.

### KeyCache

Each of the two resolvers answers with one of: a key's DER, a DER that does
not decode, no key (`Absent`), nothing (`NoAnswer`), or a record `published`
raises on (`Unreadable`). `fetch_key` maps a pair of answers to a key or a
reason in the order the code looks at them. Validators agree on its string
before anything is stored, so one pair of answers stands for what they agreed
on; a disagreement among validators is a transaction that does not execute
and no step. `witnessed` records, independently of `fetch_key`, every answer
both resolvers gave alike, and it is what the properties compare records with.

### Verifier

A call meets one of `Requests`: whether its arguments pass, whether the
KeyCache holds an active key, and the verdict. `Reason` keeps the order of the
tests, so that the fee is looked at before the names and the names before the
key. `in_flight` is the bag of messages sent by transactions not yet
finalized; `Settle` takes any of them. `Unexecuted` is a payable call the
chain finalizes without having run it: the code never sees it, yet its value
is in the balance until the protocol returns it.

`Next` lets the owner withdraw whatever the code allows; `ByTheBookNext` only as
docs/verifier.md, "Operations", says. `prudent` records whether every withdrawal
so far found nothing in flight, and `RefundsArrive` speaks of such owners. What
`attest_blob` makes of a mail is module `Dkim`, and an input here.

### Lacre

Each Verifier numbers its records from 0, and the Router's name moves between
them, so an id alone says nothing. `final` and `final_x` are how much of each
list is final: `Appeal` cuts a list down to that, and every read between
contracts stops there. `verified` keeps the order of the Extractor's tests. What
a body says is an input (`Readings`), which is a match only for the body that
was signed. `mark_delivered` is the consumer's only write; `shipped` looks at
the newest `MAX_SCAN` extractions of the record's requester, as
`require_shipped` does. The fee of an extraction is the Verifier's code again
and is not repeated: `paid` says whether it sufficed.

### Broadcast and OneTransaction

A transaction is its nonce and its fee. `transit` counts requests that got no
answer: each can reach the node at any later moment or never (`Arrive`), also
after its send gave up. The node may mine, evict, or take a transaction of
another program of the account. `SendRaw` has one disjunct for each way
`broadcast` tells answers apart; `Spent` is its lookup after "nonce too low",
`LookUp` the one after the last attempt; `Check`, `Sign` and `NotSent` are the
loop of `Session.send`, with its pinned nonce. `OneTransaction` counts
transactions mined per send and says what a report promises; `SendsOne` is that
`Broadcast` implements it.

### Consensus, Wait and Attest

`Consensus` is what docs/interfaces.md measured of the chain: a call runs once
the earlier ones are decided, can be appealed with its writes undone, cancelled
and revived, finalized without having run, and is shown as CANCELED by a
timestamped view while it waits. `behind` are the final transactions whose
writes the final views do not show yet, or never will: with a finality,
`Finalize` may put one there, and `CatchUp` may take it out. `Wait` follows one transaction: the SDK's
receipt read off that view (`WaitReceipt`), the check of a CANCELED
(`Recheck`), the hand-over to the stored status (`DecideStored`), and
`Session.wait`'s own wait for finality. A transient failure resumes the wait
where the code's `try` covers it, which is also inside the hand-over that
follows a CANCELED. Time is the number of polls.

`Attest` is `protocol` of `attest.py`, which `extract.py` runs too. A send is
one step there: that it makes at most one transaction, and that one may come
after all (`astray`), is what `Broadcast` shows. `settled` says whether all the
sender's earlier calls were final, and shown, at the start; `missed` are the final
calls of the run whose record or reason was not there when final state was read.
Rule 11 of docs/interfaces.md and `judge` (`attest.py:305-307`) send again after
such a read, and may so leave two records of one attestation: `NeverOverlaps`
allows a second one in that case and in no other.

### Registry and Release

A file is the number of its version; what a build writes has the number of the
sources it was built from. `Edit` and `Commit` happen between any two steps of a
deploy: reading the bytes, then `head_commit`, `dirty_paths` and the build of
`collect`, sending, recording. `checks` is `verify_deploy.py` on the entry.
`disturbed` is true when somebody worked in the tree between the read and the
end of `collect`; the entry can then be wrong without saying so.

### The algorithms

An input is made one piece at a time, so that every input up to the bounds is a
state, and the invariants compare what the code computes of it with a reference.
`Algorithms` makes names, key records, days, the situations of a call and the
log of a probe (`Name`, `Garbled`, `NextDay`, `Collect`); what it says of them is
proved. `MCAlgorithms` adds texts, messages and sources (`Longer`, `Line`,
`Define`), whose properties are only checked. Texts, bodies and headers are
sequences of tokens. RSA and SHA-256 are perfect: a hash is what was hashed, a
signature is its key and its data.

A body that is read can end in `extract failed`, without a match although its
hash matched: a base64 part that cannot be decoded (`b64decode`; a part in plain
letters decodes to itself), or a canonicalization there is none of. A document of
patterns that does not load is none: `set_patterns` loads it before it is stored.
The record of an attestation has the hash of the first Message-ID of the blob,
signed or not (`Dkim!message_id`); what `headers_blob.py` cuts out of a message
has only what is signed.

What the code does in a loop is a recursive function here, on the positions of
the input or on the number of rounds. `Comments` holds both ways the repository
has to drop the comments of a text; `Builds!reachable` is the worklist of a
build, a round at a time.

### ProbeRun and Results

The log is all that survives a run that is killed. `Check` is
`pre_call_check`, over transactions the log mentions; `Sign`, `Broadcast`,
`Receipt`, `Decision` and `Wait` are a run of `send.py` and what `run.py`
makes of its exit. They are two processes: `Sign` prints the hash into a pipe and
goes on, and `Log` is `run.py` writing the line, at any time until it acts on
what `send.py` printed next; a hash that was printed and not yet read
(`unwritten`) is lost with it. What is printed after `run.py` is gone is not sent,
since the print itself fails. `NotSent` repeats it under a pinned nonce. `parse_log` and
module `Results` are `collect.py`, with a read that can fail wherever the code
has one.

## Runs

| run | configuration | states | question and answer |
|---|---|---|---|
| `router` | `MCRouter.cfg` | 84,216 | does a name move only with notice, can a polling consumer be surprised, does a ripe change settle without the owner? Yes, no, yes. |
| `keycache` | `KeyCache.cfg` | 354,444 | what does an active or dropped record rest on, and do outages wedge a pending key? On what the properties say; no. |
| `keycache_one_resolver` | `KeyCacheOneResolver.cfg` | violation | is a pending key ever dropped while a resolver is down? Yes, see Findings. |
| `verifier` | `Verifier.cfg` | 438,144 | does every unit of value end in a record, a refund or a withdrawal, do ids agree, and do refunds arrive? Yes. |
| `verifier_by_the_book` | `VerifierByTheBook.cfg` | violation | is a refund covered if the owner follows the documented rule? Not always, see Findings. |
| `broadcast` | `Broadcast.cfg` | 265,706 | can one call be mined twice, or success be reported of a call that is not mined? No. |
| `broadcast_refused` | `BroadcastRefused.cfg` | violation | is "nothing sent" always true? No, see Findings. |
| `attest` | `Attest.cfg` | 3,310,260 | can two attempts overlap, an exit code be wrong, a run not end? Only where the final views miss what is final can there be two records; otherwise no, under what each property says. |
| `lacre` | `Lacre.cfg` | 584,316 | does what an extraction or a delivery rests on stand, wherever names move and whatever is appealed? Yes. |
| `probe_run` | `ProbeRun.cfg` | 3,991,622 | is a repeated call executed once, and a double noticed? Yes, the double if its hashes were logged. |
| `release` | `Release.cfg` | 1,515,024 | is a clean entry what runs, for good? Yes, if nobody worked in the tree while it was made. |
| `algorithms` | `Algorithms.cfg` | 598,582 | do the algorithms compute what their definitions say, on every short input, and do the tools tell what the contracts do? Yes, with the exceptions the properties name. |

Bounds, and why they are enough to meet the interesting cases:

- **Router.** The clock runs to `MaxTime` = 5 with `DELAY` = 2: a first
  version, two announced ones and a third pending fit. Two labels and two
  addresses are what it takes to give a label twice, to roll back to an old
  label and to swap a target; two accounts, to hand ownership over and back.
  Two spellings of one name and a text that is no name keep `normalize` in
  play. Names do not interact; the theorems are for any number. `PollGap` = 1 is
  the longest below `DELAY`; `PollGapAssumption` states that requirement.
- **KeyCache.** Two usable keys and four other answers at each of two
  resolvers, 36 pairs, `QUARANTINE` = 2 and `MaxTime` = 5: a key can be
  registered, fail, be registered again, activate, rotate and be retired.
  Records of different names do not interact. One account suffices: ownership
  is checked with two by `router`, and the code is the same.
- **Verifier.** Two accounts, values around two fees, two payable calls and two
  messages in flight (`MaxCalls`, `MaxInFlight` bound only what would be
  infinite); three calls and four messages in the violation.
- **Broadcast.** Three sends a signature, three signatures of two fees, two
  transactions of another program: a repeat can meet its own earlier request,
  its own earlier signature at either fee, and a nonce taken by somebody else.
  One send: the variables of a send start afresh at `BeginSend`.
- **Attest.** Two attempts, one earlier call, one appeal or revival, two waits
  for the receipt and one poll of each kind: every attempt can end every way,
  and the second can meet what became of the first. One final transaction at a
  time is missing from the final views (`MaxBehind`), the earlier call or one of
  the run. Views of what is not final are not behind: a call that was accepted
  and left nothing to read (`WritesNothing`) looks the same, and ends the run.
- **Lacre.** Two Verifiers with a record each, two extractions, three moves of
  names, one appeal, a scan window of one, a message of the consumer's domain
  and one of another. Verifiers are interchangeable and so are requesters
  (`Alike`); the view leaves out `refused`, which no guard and no property reads.
- **ProbeRun.** A plan of two calls, four signatures, three entries: a call can be
  repeated in its run, killed, run again and followed by another one.
- **Release.** Two versions of every file, one commit beyond the first, one
  deploy. Ownership of the registry is checked by `router`.
- **Algorithms.** Names of five characters; all bodies and texts of six tokens,
  seven where the first opens a tag; a limit of six tokens on a body, which its
  missing end of line can exceed, and of three on a text; a blob is a signature, the message and one
  more line; a message with one thing unusual about it (a Message-ID, a body that
  cannot be decoded, a stamp, another key) and two changes on its way;
  every key record cut short or with one element replaced; every day from 1970
  to 2104, which has leap years, 2000 and 2100 in it; every way two reads of the
  chain can fail.

The runs other than `router`, `keycache` and `keycache_one_resolver` say
`CHECK_DEADLOCK FALSE`, because there the program ends or the bound ends the
behaviour (all calls made and settled, all texts written). In those three the
owner can always call `propose_owner`, so a deadlock would be one.

### Fairness

- `ChangeSettles` assumes that time passes, that the consumer keeps reading, and
  that somebody other than the owner keeps calling `apply_version`. The method
  is open to anyone, which is the claim: with the owner check added
  (`apply_version_by_owner`) the property fails. Nothing is assumed of the owner.
- `PendingIsSettled` assumes that time passes and that somebody keeps calling
  `confirm_key` with both resolvers answering, whatever they answer. Outages
  in between are not excluded.
- `RefundsArrive` assumes that each transaction that sent a refund is
  finalized in the end, which is the chain's promise, and nothing of the
  owner.
- `SendEnds` and `RunEnds` assume only that the program, which is one thread,
  goes on. Nothing is assumed of the network or the chain: every loop has to end
  by its own bound.

## What is proved

All theorems hold for every value of the constants allowed by the assumptions:
any sets of accounts, names, labels, addresses, keys, any delay and quarantine
of at least 1, no bound on the number of calls, and any `MaxTime`. The
assumptions are the named `ASSUME`s: `OwnershipAssumption` (the deployer is an
account, the zero address is not), `RouterAssumption` (`normalize` yields a
name or the empty text; delays are naturals), `PollGapAssumption`,
`KeyCacheAssumption` (the kinds of answers are distinct values),
`BroadcastAssumption` (at least one attempt per send, fees are positive),
`ConsensusAssumption` (the reasons of refusals are none of the other effects),
`WaitAssumption` and `AttestAssumption` (the numbers of polls and attempts are
numbers), `LacreAssumption` (every message has a domain, the scan window is at
least 1), `VerifierAssumption` (requests have the fields of a request; values,
fees and amounts are naturals), `ProbeRunAssumption` (a plan has a call; retries
and bounds are naturals), `RegistryAssumption` (no key is called "absent" or
"unreadable"), `ReleaseAssumption` (a source has a first version; what can be
deployed can be pointed at; bounds are naturals), `NameKeysAssumption` (capitals
are no characters of a name, as `_ALLOWED` of the code has none; a space, a dot
and a slash are no letters), `ResultsAssumption` (a body that has an expected
answer has one that can be told from "no answer", which `EXPECTED` of the code
has) and `AlgorithmsAssumption` (bytes are bytes; a call of the log has one of
the two methods and answers of the shape the chain gives; the bodies are listed
once each).

**Router** (`RouterProofs`). Each action is first restated as one of a few
kinds of step (`FirstVersion`, `Announcement`, `Application`, `Cancellation`,
`OwnershipStep`, a tick), so that each invariant is shown once per kind.
`RouterTypeOK` comes first. `PendingIsBindable`, `HistoryAgrees` and
`HistoryKeepsDelay` are not inductive one by one: that a version is a full
delay after the one before it needs to know that its proposal was made no
sooner than that one took effect, which is `StoredInOrder`. `StorageInv` is
their conjunction with the type, and is inductive. `PinsNeverMove` follows
from `PendingIsBindable`, since an application binds a label that is free or
already bound so. `AnnouncementIsFixed` follows from the kinds of step.

`RouterGivesNotice` is a refinement. Under the mapping of `Router!Service`,
`set_version` is `First` or `Announce`, `apply_version` is `Move`,
`cancel_version` is `Withdraw`, `Tick` is `Advance`, and the rest stutter.

`ConsumerNeverSurprised` is about the composition. `NeverSurprised` is
strengthened to `WatchInv`, which adds `Forewarned`: a change pending since
before the last poll was announced to the consumer, whose knowledge of the
name is then still right, while a younger one cannot be ripe before the next
poll because `PollGap < DELAY`. The theorem is the point of the 48 hours.

**KeyCache** (`KeyCacheProofs`). Each DNS write is one of: a failure noted, a
registration, a drop, an activation or a refresh (`StepCases`). `RecordInv`
says of one record what its state rests on; its key clause is about pending
records, which no property mentions: the resolvers agreed on the key when it
was registered, and have been seen to agree on nothing for that name since.
Without it activation could not be shown to follow an undisturbed quarantine,
because a contrary read drops the record and the next registration starts
over. `KeyCacheInv` is the type invariant and `RecordInv` of every record; the
four invariants about causes follow from it, and the two action properties
from the kinds of step.

**Broadcast** (`BroadcastProofs`). `BroadcastTypeOK` adds to the types that a
send is made of its own bytes (`Holds`) and only while there are attempts left
(`Tries`), which is what bounds its counter. `OneNonce` is not inductive: it
speaks of two transactions, and the second is signed from the variables of the
program. `NonceInv` says how those are tied to what is under way. A transaction
is *live* if it can still reach the chain or has. `AsCurrent` and `AsPinned`:
what the present send has live has the nonce it signed last, which is the
pinned one; `Repeats`: with nothing pinned, nothing is live, so that a fresh
nonce may be read; `Past`: no later send has anything live; `Placed`: a block takes
nonces in order, which makes two mined transactions of one nonce one.
`SentIsMined` carries what was reported from send to send. `BroadcastSendsOne`
is the refinement: mining is `Land` of `OneTransaction`, the end of a send is
its `Report`, and the rest stutters. That a report of success is of a transaction that
is mined is `SentIsMined`, and that no send pays twice is `OneNonce` with
`Placed`.

**Attest** (`AttestProofs`). `RunInv` says what the program knows. A call is
`Spent` if it is final and what it wrote, if anything, is `missed`: the final
views did not show it when they were read. `Quiet`: whenever another call can be
sent, or one given up can still arrive, all of the run are spent. To keep it needs
what was read: `Stands` (a stored status that is final is what the transaction
stays), `FoundStands` (if the call wrote a record, reading final state finds one
or misses it), `MissedAtJudge` (what the views still do not show was missed) and
`LastStands` (with all earlier calls final and shown, the reason read before is
the last of them, so a new reason is of the run: `RefusedWhenSettled`). So a call
that is sent again wrote no record and no reason, or it would have been read, or
it was missed; `NeverOverlaps` follows. Of the final views it is assumed that
they do not take back what they showed. `OwnIsNew` keeps
the ids of before apart from those of the run, and `ReportStands` carries a
report to the end, whatever the chain does after it. The last reason is that of a
greatest element of a set (`Greatest`, from the well-foundedness of the numbers).

**Lacre** (`LacreProofs`). What is final stands: `RecordsStand` and
`ExtractionsStand` show for every action that it keeps the final part of a list
as it is, an appeal included, since it cuts no deeper than `final`. An extraction
is made of a record that is final, so that `RestsOnRecord` stands
(`LacreExtractions`). `Delivered` is inductive where `ActsOnce` and
`ActsOnEvidence` are not: a delivery has its `Evidence`, and its message is
`Noted` under the key the next delivery would look at, which is what makes a
second one impossible. `LacreShippedFades` compares the window before and after
a step by cardinality: the newest `MAX_SCAN` extractions of a requester change
only with that requester's own calls.

**Verifier** (`VerifierProofs`). `NoThirdOutcome` is an equation between what an
account sent and three sums: over its records, over what came back, and over the
refunds in flight. Sums are folds, which the provers cannot unfold. The first
part of the module therefore shows that the sum of naturals over a finite set is
the cardinality of the set of its units, from which it follows what a sum gains
when an element is added or one of its terms grows (`TotalDiffers` and its
neighbours); induction is over the subsets of a finite set, by a minimal
counterexample. That needs the set of messages in flight to be finite, so
`Typed` (`VerifierIsTyped`) is the type with that. `IdsAgree` is inductive with
`Typed`: the new id is the count, and larger than all before. `Books` is
`NoThirdOutcome` over what the steps change and is kept by every step, given
that an id is not reused, which is `IdsAgree`. `VerifierStrandsNothing` is the
safety under `RefundsArrive`: `Solvent`, that a prudent owner leaves the balance
at or above all that is in flight together, is inductive where "each message is
covered" is not, since a settlement takes from what the others wait for.

**ProbeRun** (`ProbeRunProofs`). A step of the chain, a check that opens an
entry, a signature, a printed receipt, or a move that signs and prints nothing
(`Steps`). Each property has its own layer on the one before. `TypeInv` adds to
the types that hashes in the log are of signatures, and what the program holds
at each of its points. `LogInv`: what an entry holds was signed for its call, and
its id is that of its last hash, whether or not that hash is written yet; `RowsArePaired` follows. `NonceInv`: nonces never
fall from one signature to the next, one that can still be mined has the nonce
that is next, and all that was signed during one entry share theirs, logged or
not, of which the account executes one; `OnePerEntry` follows. `OrderInv`:
whatever can still be mined is of the open call, and the calls come in the order of the plan, so that a stray which
turns up is a double of the open call, which the next check sees before anything
else is signed; that there is at most one, `StraysAreOfTheCall` counts.
`DoubleIsTheLast` follows, for any number of kills and resumptions. Of what was
signed and never logged it says nothing, and there would be nothing true to say.

**Release** (`ReleaseProofs`). `EntryStaysTrue` speaks of the entry, which is
written last; `ReleaseInv` carries it back to where the bytes were read.
`Looking`: until somebody works in the tree, the bytes are those in the tree,
HEAD is the commit that was read, and a clean status means that this commit is the
tree. `Kept`: what `collect` found holds of the bytes that are sent, of the
contract that runs them, and of the entry. Commits and contracts are only
appended (`AllGrows`), so what was found stays found. That an undisturbed, clean
entry passes every check is then a computation (`EntryIsTrue`).
`ReleaseKeysAreForGood` goes by the three things a call can do to a key
(`KeysMove`).

**The algorithms** (`KeyCacheProofs`, next to the contract that uses most of
them). `InputsAreMade` is the invariant of `AlgorithmsSpec`: a text is in its
alphabet, a key is of bytes and undamaged while nothing was changed, a day is one
of the calendar together with the number of days before it, a log is of calls
that can be made. It is inductive, and each property is then a fact about one
input. The provers have no induction over data. Where one is needed, a set of
naturals for which the claim fails is assumed to be non-empty, and its least
element refutes it (`Least`); for a function defined by recursion it is first
shown that there is one, since tlapm takes `f[x \in S] == ...` for a `CHOOSE`.

- *Keys of names* (`KeysOfNames`): a normalized text is its own normal form; in
  `name/label` there is one slash; in `selector._domainkey.domain` no part can be
  empty.
- *Key records* (`KeysAreReadAlike`): the two readers differ in the order of
  their checks and in what they take for a failure. Element by element, either
  both fail or both read the same value and go on at the same place.
  `PublishedKeyIsRead` says that agreement is not that of readers that refuse
  everything: any modulus and exponent, in a bare key or in a wrapped one,
  are read back as they were published.
- *Dates* (`DatesOfTheCalendar`): the days before a year by the formula of the
  code are those counted by leap years one by one (`LeapYears`), which is shown
  from year to year.
- *Refusals* (`RefusalsAreForetold`): by cases over what can be amiss, in the
  order in which the contract looks, and over what `get` can answer that is no
  dict, where alone the two can differ.
- *Report* (`ReportsAreOfTheChain`): a count is the size of a set of positions in
  the log, the calls of a method are those of its bodies taken together, and the
  sum over the bodies in the file's order follows the sets as they grow
  (`SumOverBodies`).
- *Comments* (`NoCommentIsLeft`, `CommentsAreDroppedAlike`): a pass that changes
  a text makes it shorter, so as many passes as it has characters reach one that
  changes nothing, and such a text has no opener. The two scans agree pass by
  pass: what is left behind a place is shown equal from the end of the text back.
- *Builds* (`ReachableIsLeast`): a round that adds no name is closed, and one that
  adds a name makes the set larger, which can happen as often as there are names.

Only model-checked:

- liveness (`ChangeSettles`, `PendingIsSettled`, `RefundsArrive`, `SendEnds`,
  `RunEnds`), which rests on fairness;
- `BodyIsHashedByTheBook`, `SanitizedIsInert`, `VerdictIsOfWhatWasSigned`,
  `SamplesTellAhead` and `BuildIsComplete`: these algorithms select and join the
  pieces of a sequence by a test that is handed to an operator (`SelectSeq`,
  `FlattenSeq`, folds), and no prover at hand can instantiate that. Of
  `SanitizedIsInert`, that no comment is left is proved (`NoCommentIsLeft`), as
  is the agreement of the two scans (`CommentsAreDroppedAlike`); of
  `BuildIsComplete`, that the names kept are those needed (`ReachableIsLeast`).

Every invariant that is proved and that no run lists was model-checked before, on
the bounds of the run of its module.

## Hazards and the properties aimed at them

`PROJECT.json` lists each at its line. In short: a label checked early and used
late, a target swapped in its window, a change applied twice (`PinsNeverMove`,
`GivesNotice`, `NeverSurprised`); boundaries in time (`ActiveWasReadTwice`,
`DatesAreCivil`); outages taken for answers (`DropIsExplained`,
`PendingIsSettled`); changes hidden between two reads (`NoContraryRead`); maps
written apart (`IdsAgree`); value kept without a record or promised twice
(`NoThirdOutcome`, `RefundsArrive`); ids of several Verifiers, reads of what is
not final, a scan window (`ExtractionsAreOfRecords`, `ActsOnce`,
`ActsOnEvidence`, `ShippedFadesByOwnCalls`); lost and late answers, repeats,
evictions (`OneNonce`, `SendsOne`, `OnePerEntry`, `DoubleIsTheLast`); a
transaction that runs after all (`NeverOverlaps`); reads of views that lag
(`NeverOverlaps`, `RecordedIsFinal`, `RefusedWhenSettled`, `ReportIsOfTheChain`); loops that must
end (`SendEnds`, `RunEnds`); a tree that changes while it is looked at
(`EntryStaysTrue`); parsing and canonicalization at their edges
(`BodyIsHashedByTheBook`, `KeyReadersAgree`, `VerdictIsOfWhatWasSigned`,
`SanitizedIsInert`, `KeysFindTheirOwn`); two places that must say the same
(`RefusalsAgree`, `SamplesTellAhead`, `BuildIsComplete`).

## Findings

Three places where a document and the code differ; none was looked for.

1. **One unreadable record decides alone.** `fetch_key` returns
   `key unusable` as soon as reading one resolver's record raises
   (`keycache_template.py:99-102`), before it matters whether the other one
   answers. `confirm_key` treats that as an answer and drops the pending record.
   docs/keycache.md (154-156, 164-166) says that no single resolver's answer is
   acted on and that an outage is reported before the other side is looked at.
   `RetiredForCause` is proved all the same: this path can drop a pending key but
   not retire one. Run `keycache_one_resolver`.
2. **The documented margin does not cover earlier withdrawals.** Rule and
   margin of docs/verifier.md (511, 528-530) are stated per withdrawal and look
   at attestations in flight. `withdraw` compares with a balance that earlier
   withdrawals have not left yet. Several withdrawals inside one finalization
   window, each by the book, can promise more than the balance, and a later
   refund is then uncovered. Waiting for withdrawals too is enough:
   `RefundsArrive`. Run `verifier_by_the_book`.
3. **"Nothing sent" after a lost answer.** `broadcast` fails with `REFUSED` on the
   first final refusal (`chain.py:346-356`), also when an earlier request with
   the same bytes got no answer and may have reached the node. `Session.send`
   turns that into `NothingSent`, "This attempt failed before anything could
   reach the chain" (`attest.py:141`). Run `broadcast_refused`. No call is mined
   twice by it (`SendsOne`): the next run of the client reads its state anew.

Smaller observations, which no run is spent on:

- A wait for the L2 receipt that runs out, or an HTTP error that is no answer,
  ends the client with a traceback and the exit code 1, which is documented for
  "nothing was sent" (`chain.py:617-619`, `attest.py:64`); the model's `CRASH`.
- Exit code 3 is documented as "every attempt finalized without executing", and is
  also given after attempts that executed and left nothing to read
  (`attest.py:305-307`); the model's "again". Such an attempt may have left a
  record that the final views do not show yet; rule 11 names the two records
  that can come of it.
- An earlier call of the sender that was decided and not final at the start can
  lend its refusal to this run (`attest.py:259-264`), which is why
  `RefusedWhenSettled` asks that all were final. It can lend its record too:
  `ours` compares what was called, so that exit 0 is of a new record of such a
  call, which `RecordedIsFinal` says, and not always of this call's.
- `run.py` checks the log before a call and signs after; a transaction of an
  earlier run that arrives in between makes the call twice. `DoubleIsTheLast`
  says that it is noticed and stops everything.
- `send.py` prints a hash into a pipe and broadcasts (`chain.py:603-609`);
  `run.py`, another process, writes the line (`run.py:299-301`). If `run.py` is
  killed in between, a live transaction is in no log: the resumed run signs the
  call again, and nothing notices that it was made twice.
- `llm_check.py` decodes the text part once more to show it, so a base64 part
  that cannot be decoded is an error there and no report, while the contract
  records `extract failed` (`llm_check.py:72`, `llmfields.py:183-184`).
- Both Extractors apply `dict()` to what a Verifier's `get` answers
  (`extractor_template.py:86`, `llmextractor_template.py:84`). For an empty list
  or text they say `record not found`, and they take a list of pairs for the
  record; `extract.py:88-89` says `verifier unreadable` of both and sends nothing.
  No Verifier of this repository answers so.
- A blob that `headers_blob.py` cuts out of a message has no Message-ID that is
  not signed. Its record has no `message_id_sha256` where that of the message
  has one; docs/interfaces.md (542, 611) says that the field may be unsigned.
- An entry that `deploy.py` makes while somebody edits the tree can be wrong
  without saying so (`provenance.py:169`).
- When the read of the stored status fails, a row of `collect.py` keeps the
  status of the view, with a note (`collect.py:404-411`).
- A treasury proposed by a former owner can still be accepted.
- Two modules spliced into one contract could define the same name without any
  build noticing.

## Not modelled, and what is left

Out of reach or left out on purpose: RSA and SHA-256 (a signature and a hash are
perfect), HTTP and DNS themselves (their answers are inputs), the language model
and regular expressions (their answers are inputs), base64 (but for a part of a
body that does not decode), JSON and quoted-printable, consensus among validators (a write executes or does not), gas
prices, formatting and logging.

- The Extractors' fee, withdrawals and owner's calls are the Verifier's code
  copied and are modelled once, in `Verifier`.
- The `build.py` of the KeyCache and the Registry splice one module without
  pruning, as the Verifier's does.
- `call.py` and `read.py` send or read once and keep no state.
- The experiments other than `llm-probe-2` are frozen earlier copies of code that
  is modelled where it is used now; `rfc6376.py` is modelled because it is the
  second implementation of the same RFC.
- Left: sorting out by hand, without the operators of the library, what the body
  canonicalizations and the verdict of `Dkim` select, which is what a proof of
  their properties would need first.
