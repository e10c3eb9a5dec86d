# sm-bridge: a TLA+ verification project

This directory models and checks `sm_bridge`, a Python library that turns a
registry of agents into a federated one. It publishes agent records in one
normalised form (`SmAgentFacts`), keeps an append-only log of changes that peers
poll, rebuilds an agent catalog from that log, stitches other registries in by
pointer, verifies trust evidence about agents, and accepts delegated writes that
it commits to a Merkle log. Paths below are relative to the repository root.

## 1. Inventory of the system

| Part | Source | State | Operations | What makes it hard |
| --- | --- | --- | --- | --- |
| Delta store | `sm_bridge/store.py` | `_seq`, `_deltas`, `_latest` under one lock | `add`, `since`, `snapshot`, `get`, `next_seq`, `clear` | log and per-agent index must agree; readers rely on gap-free numbers |
| Persistent store | `sm_bridge/store.py` | the above plus rows in a database | `add` persists after the lock is released, `since` prefers rows | rows appear out of order; a failed persist; restart |
| Router | `sm_bridge/router.py` | none of its own (closures over converter and store) | `/index`, `/resolve`, `/deltas`, `/registries`, well-known | paging while agents change; two critical sections per `/deltas` answer |
| Bridge | `sm_bridge/router.py` (`SmBridge`) | converter, store, entries | `register_agent`, `unregister_agent`, `admit_entries` | two data structures changed in separate steps by concurrent callers |
| Converter | `sm_bridge/converter.py` | registered agents | `register`, `unregister`, `to_sm`, `list_agents` | every output field must be accounted for by provenance |
| Federation client | `sm_bridge/federation.py` | cursor `since`, stop flag, thread | `pull_deltas`, `sync_once`, `start`, `stop` | partial pages, retries, disordered pages, two loops at once |
| Gateway | `sm_bridge/gateway.py` | none (rebuilds from the store) | `ai-catalog`, `search`, agent cards | last writer of a shared slug; removals |
| Binding writes | `sm_bridge/binding_write.py` | records, used nonces, Merkle log | `POST /bindings/write` | three pieces of state changed one after another by concurrent handlers |
| Transparency log | `sm_bridge/tlog.py` | leaves, entries | `append`, proofs, checkpoints | unlocked; Merkle index arithmetic |
| Conformance audit | `sm_bridge/conformance.py` | none | `audit`, `conformance_level` | the audited log grows during the audit |
| Onboarding | `sm_bridge/onboarding.py` | proof of each entry | `to_entry`, `admit`, `delegate` | a failed re-admission leaves the older proof |
| Switchboard | `sm_bridge/switchboard.py` | registries and hostings by name | `add_registry`, `add_hosting`, `resolve` | name clashes |
| Trust core | `sm_bridge/trust/base.py` | profiles by id | `verify`, `ProofResult` honesty rules | never claim more than was checked |
| Delegation profile | `sm_bridge/trust/delegation.py` | none | chain verification | scope may only shrink along a chain |
| Other profiles | `sm_bridge/trust/*.py` | none | `verify` | order of checks decides the verdict |
| Feed | `sm_bridge/feed.py` | none | build and read a signed feed | thin wrapper over an external package |
| Models, CLI | `sm_bridge/models.py`, `sm_bridge/cli.py` | none | data classes, argument parsing | no control of its own |

How they interact: `SmBridge.register_agent` writes the converter and then the
delta store; the router reads both; the gateway folds the store's snapshot; a
peer's `FederationPoller` calls `/deltas` over HTTP from its own thread and writes
its local store, whose catalog and `/deltas` then serve the same records onward;
binding writes are independent of the delta log and commit to a `MerkleLog` that
the conformance audit checks.

## 2. Modules

| Module | Models | Checked by | Proved in |
| --- | --- | --- | --- |
| `DeltaStore` | class `DeltaStore`, `current_facts` | `MCDeltaStore` | `StoreProofs` |
| `Catalog` | what a catalog reader is promised (abstract) | as `ImplementsCatalog` | `StoreProofs` |
| `PersistentStore` | class `PersistentDeltaStore`, restarts | `MCPersistentStore` | `StoreProofs` |
| `Federation` | `pull_deltas`, `FederationPoller`, the peer's `/deltas` | `MCFederation` | `FederationProofs` |
| `BindingWrite` | `POST /bindings/write`, `BindingStore`, `MerkleLog.append` and `root` under concurrency | `MCBindingWrite` | `BindingWriteProofs` |
| `MerkleTree` | roots and proofs of `tlog.py`, the proof walk of `ans_scitt.py` | `MCMerkleAudit` | `MerkleProofs` |
| `MerkleAudit` | a growing log, its checkpoints, `conformance.audit` | `MCMerkleAudit` | `MerkleProofs` |
| `Bridge` | `SmBridge.register_agent`, `unregister_agent`, `GET /index` | `MCBridge` | `BridgeProofs` |
| `Conversion` | `to_sm`, agent cards, `_parse_agent_identifier` (operators) | `MCResolution` | by use in `ResolutionProofs` |
| `Resolution` | `GET /resolve`, `Switchboard` | `MCResolution` | `ResolutionProofs` |
| `Admission` | `ANSEntryConverter.admit`, `SmBridge.admit_entries` | `MCAdmission` | `AdmissionProofs` |
| `Delegation` | the delegation trust profile | `MCDelegation` | `DelegationProofs` |
| `TrustProfiles` | the other five profiles and `TrustRegistry.verify` | `MCTrustProfiles` | `MerkleProofs` |

`Federation` is composed of two instances of `DeltaStore` and `Bridge` of one, and
`PersistentStore` extends it, as its class does; `MerkleAudit` and `TrustProfiles`
extend `MerkleTree`, `Resolution` extends `Conversion`. Definitions whose comment begins with
"Mutant of" are deliberate faults: putting one in place of the original must break
a property. They are not part of the model.

### DeltaStore

`seq`, `deltas` and `latest` are `_seq`, `_deltas` and `_latest`. Every method
holds the lock throughout, so `Add` and `Clear` are single steps and the readers
(`Since`, `Snapshot`, `NextSeq`) are operators on the state. `Replay` is the fold
of `gateway.current_facts`; `CurrentFacts` applies it to the snapshot, as the
gateway does. The snapshot is `InOrder(Latest)`, the index sorted by number, and
`Since` filters the log in one pass. A record is abstracted to its id, its slug and a version. `slug` is a
field of the record, so that `SlugsAreStable` can say when it is a function of the
agent.

### PersistentStore

The in-memory part is `DeltaStore` itself, inherited. `add` is two steps: `Number`
(the inherited `add`, under the lock) and `Persist` (after it), or `PersistFails`,
which raises before or after the row was committed. `since` is `Load` and, when no
row answers, `Fallback` to memory. The table and `_load_seq` belong to a subclass
and are modelled as the base class uses them: rows keyed by number, the counter
resumed from the greatest one. `Restart` loses the memory and the calls in progress
and keeps the table and the follower. `answered`, `late` and `ghosts` are history.

### Federation

Two `DeltaStore` instances, `Peer` and `Local`. A poll of thread `t` is
`CheckStop`, `ReadCursor`, `ServeRows`, `Validate`, one `Apply` per row,
`Advance`, `Wait`. `Fail` is any exception that the loop swallows. The controller
calls `Start`, `Stop` and is in `join` until `Joined`. `PeerFilter` is what the
peer's `since` means, `CursorMode` what the poller takes it to mean. The
repository's own router is `"exclusive"`; an inclusive peer is external and is
modelled from the checks of `pull_deltas`. `origin` is a history variable that
records which peer delta each local delta came from. The peer's rows are
`SubSeq(pDeltas, n + 1, pSeq)`: the filter `seq > n` on a log without gaps
(`LogIsContiguous` is proved).

### BindingWrite

The endpoint is a plain `def`, which FastAPI runs in a thread pool, so handlers
overlap. `seen` and `records` change under a lock each and are one step; the log
has no lock, so the two list appends, the read of the size, the read of the length
in `_merkle_root` and the slice of the right subtree are steps of their own. The
authenticator and the authorizer are injected, so any answer is possible. Field
values, `target_host` and `agent_role` are abstracted to the set of field names.
A root is abstracted to what determines it, given a collision-free hash: how many
leaves went to the left subtree, and how far the right one reached.

### MerkleTree and MerkleAudit

A hash is the term it was computed from, which is what an ideal hash with domain
separation gives. Roots, paths and the walk's shifts are recursive functions of the
code's own recursions, on lists of leaf hashes over any set of entries. `Climb` is one turn of the loop that both verification walks of
the repository share; they differ in their last test (`sn` in `tlog.py`, `fn` in
`ans_scitt.py`) and in the length limit. `Consistent` is the client's side of a
consistency proof, which the repository leaves to the client, from RFC 9162.
`MerkleAudit` lets entries be appended between any two reads of the signer
(`SignSize`, `SignRoot`) and of the auditor (`ReadRoot`, `ReadSize`, `ReadPrefix`,
`ReadGrew`), lets the operator replace a leaf (`Tamper`) and lets somebody without
the key hand out a fitting checkpoint (`Fabricate`). A checkpoint keeps, for the
properties, the leaves it was computed over.

### Bridge

`agents` is the converter's dictionary in insertion order. A registration is
`Register` then `RecordUpsert`, a removal `Find`, `Pop`, `RecordDelete`; no lock
spans the steps, and calls about one agent may overlap. An exception between two
steps undoes nothing: `ConversionFails` is `to_sm` raising on an agent that is
registered by then, `StoreFails` is `delta_store.add` raising before or after it
added the delta. `Slug` gives the slug of each agent, which two may share because
`default_slug` keeps only what follows the last slash of the handle. The client of
`/index` reads a page (`ReadPage`, or `PageFails` when an agent of it cannot be
converted) and the count in two steps and goes on until its offset reaches the
count, which looks at the first `CountLimit` agents only. `mixed` records which calls
overlapped another about their slug, `settled` which agents the last undisturbed call
about their slug left behind, and `disturbed` what happened to the walk: all history.

### Conversion and Resolution

A string that takes part in a name is the sequence of its words and of its separators
`@`, `:` and `/`, so `Parse` decides by prefixes and cuts at separators where
`_parse_agent_identifier` does, and an id, a namespace, a provider URL or a domain may
itself contain any of them. `Home` is this registry's configuration, with its DID
method, and `Peer` holds those of others. The value of a field is abstracted to who
supplied it: the source (`Given`, or `From(k)` for key `k` of a skill), the bridge
(`Made`), or nobody (`Absent`). `ToSm` keeps the fields that the bridge may have to
fill in and the three provenance lists, `Card` the identifier and the url of the agent
card. `FilledIn` and `Lost` read off the converted record what the bridge supplied and
which keys no field holds; `ProvenanceIsTrue` compares them with the lists, up to the
fields of `Unlisted`, which the code fills in and does not list. `Resolve` and `Switch`
are the two coroutines up to their `await` of a trust profile, `Resume` and `Fail` what
follows it; registration, removal and the switchboard's additions happen in between.

### Admission

`proof[c]` is the `_proof` of converter `c`. One call of `admit_entries` is `Begin`,
then for each source `ListUnseen` (no `admit` method), `AdmitAtOnce` (nothing to
wait for), or `AdmitAwaits` and `AdmitResumes` or `AdmitFails`. What a coroutine
does between two awaits is one step, as on an event loop.

### Delegation

`verify` is `CheckPresence`, `CheckSignature` per hop and `CheckRules` per hop, in
the code's order: all signatures come before the first rule. `Violation` lists the rules in the
order of `_validate_chain`. A scope is the sequence of its labels. A signature entry
is the credential it signs, so an entry found by id that signs another credential
is a forged one. What raises out of `verify` does so where the code meets it: an
unreadable time before the loop, an id that is no key and a credential without a
canonical form in the signature loop, any other type in the rules. A credential
without an id is answered in the signature loop with the reason that the rule has.

### TrustProfiles

A signature is the pair of its key and its message. Each verdict operator is the
sequence of early returns of its profile; `Bad`, `None` and `Short` stand for what
is unreadable, absent, or of the wrong length, and `NoObject` for a JWS header that is
JSON and no object, on which `jws_catalog.py` raises. `ans_txt` asks four record sets of
each vantage in turn (`AskVantage`), and the records may change in between
(`Publish`); `shown` is the history of every answer each record set could have given. `dns_aid` judges whatever its package answered (`AskDnsAid`). `IsZone`,
`IsSequence` and the assumptions named after them say what kind of thing a request
and the DNS are; `Below` is the reference that `VerifiedIsReal` compares a receipt
with: the leaf lies under the root that the receipt itself names, at the depth that
the path is long. That root stands in the unprotected header (`ans_scitt.py:311`
signs the protected bytes and the payload only): nothing signs it or its size, and a
receipt that names its own leaf as the root of any size, with an empty path, passes.

## 3. Runs

| Run | Bounds | Shows |
| --- | --- | --- |
| `delta_store` | 3 agents, 2 of one slug; 4 deltas | index, snapshot, folded catalog and full replay agree in every log; the store implements `Catalog` |
| `persistent_store` | 2 writers, 3 numbers, 2 restarts | no two rows share a number; a poll serves every change whose `add` had returned; a follower only misses rows inserted after a greater number, or under a number that was served from memory and given up by a restart |
| `follower` | 1 thread, 3 peer deltas, 2 faults; `stop(timeout=None)` | nothing skipped, nothing written twice below the cursor, agreement when caught up, progress, and `stop()` returns |
| `follower_two_loops` | 2 threads, 2 peer deltas, 1 fault; `stop()` with its default timeout, so `join` may time out | under the inclusive contract with short pages and two loops on one cursor: nothing is skipped and the follower still catches up |
| `binding_write` | 2 handlers, 1 signer, 1 nonce, 2 stores | every write is logged exactly once or still under way, refusals are final, a record has the field names and the lifecycle that the log says, an answered tree holds its write, and a tree answered or signed is exact while its size is still the log's size |
| `bridge` | 2 threads, 3 agents, 2 of one slug, one that cannot be converted, one that turns private and one that turns unconvertible; a store that may raise; 4 deltas; pages of 1, 2 agents counted | an agent whose last call overlapped none about its slug and did not raise is listed as it is registered, whatever overlapped or failed before; a walk that no removal and no private agent disturbed got every agent that it began with, among those that are counted |
| `merkle_audit` | trees of up to 7 leaves of 2 entries; 2 checkpoints; up to 3 leaves once a checkpoint is out | proofs prove their own leaf and position only, the two walks agree on paths of the right length, consistency proofs link prefixes only; an audit report is true of the log, and growth is never taken for tampering |
| `delegation` | chains of up to 3 hops (and one too long), 3 scopes and 4 windows each, at most one further defect | a VERIFIED chain only shrinks authority, is a path, and has every hop accepted; each verdict, and each exception, names a defect the chain has |
| `trust_profiles` | receipts of 2 logs, cards of 3 fields, 2 vantages, records that change twice | VERIFIED and FAILED both rest on what was read; changed content does not keep its verdict |
| `admission` | 3 sources, 2 profiles, 3 overlapping sweeps | a strict sweep lists only VERIFIED sources |
| `resolution` | 6 shapes of agent, 12 identifiers, 2 other registries, 1 name, 1 request at a time | answers were true at some moment of their request; a delegated name stays delegated; published names lead back to their agent exactly when the property says so, those of other registries nowhere; provenance is exact but for the fields named as unlisted |
| `poll_with_next_seq` (violation) | 1 thread, 3 peer deltas | polling this router with `next_seq` loses a change |

Why these bounds suffice. Two agents that share a slug, a removal between their
upserts, and one more delta need a log of four; in `bridge` it holds two registrations
and two removals that overlap in every order. Three agents where two are counted let a
walk end at the last counted one or before it. A disordered page leaves a wrong
result only if it has three rows; two faults let one page be written in part twice.
Two poll loops need two changes for a stale page. Two handlers give every order of
two writes; the bodies share one nonce, so that one pair is replayed with another
operation while another store uses the nonce on its own. Seven leaves contain every
unbalanced shape of tree up to depth three, in which the walk skips one or two levels.
Three sources hold two attested ones and one without `admit`; three sweeps let two
strict calls overlap with a lax one. The six shapes of agent put a separator into the
id or the namespace in each place where a name is cut, and give each kind of skill.
Requests do not write what other requests read, so one at a time, with everything else
changing around it, is enough in `resolution`. In `persistent_store` three numbers allow
two rows that land in the wrong order and one that is reused.

The violation run states a sentence of the documentation that the code does not keep;
it is quoted under "findings" in `PROJECT.json`. Section 5 lists the other sentences
that were met; the model has the behaviours, and the properties named there stop short
of them.

Fairness: weak fairness of each poll thread (the operating system schedules it and
every fetch returns or raises because the transport has a timeout) and of the
return of `join`. Faults are not fair and are bounded by `MaxFaults`: liveness is
claimed for a peer that eventually answers. No other run states liveness; the
endpoints wait for injected or external services whose answers nothing guarantees.
Deadlock is not checked where the system stops: a verdict was given (`delegation`,
`trust_profiles`), or a bounded log is full (`merkle_audit`).

## 4. Proofs

For arbitrary agents, records, threads, logs, chains and fault counts. Type
invariants are proved as theorems or as parts of the inductive invariants; no run
spends itself on them.

- `StoreProofs`, the delta store. The inductive invariant is type correctness with
  contiguity, which makes sequence numbers keys of the log and lets `Newest` compare an
  agent's deltas. `SameCatalog`: if slugs are stable, a delta that is not the newest of
  its agent is superseded under its own slug by its own agent, so the newest deltas
  decide every slug. `Implements` maps the store to `Catalog` by the same argument.
  `Replayed` is about the two folds themselves. Folding deltas whose numbers increase
  gives, under every slug, the last delta of that slug, by induction over the fold; and
  the snapshot is such a sequence of exactly the newest deltas (`SnapshotIsOrdered`).
  Then `SameCatalog` decides.
- `StoreProofs`, the persistent store. `Free` says that
  the counter is never behind the table or a call in progress and that these hold
  different numbers; only with it is `RowsAreKeyed` inductive. `PollsServe` needs in
  addition that everything answered and not in the table does not exist (`Durable`),
  and that memory holds no fewer numbers than it has given out since the start.
  `CursorSkips`: every number behind the cursor is behind a row of the table (an insert
  under it will be late), or memory holds its delta and the follower has it, or a restart
  lost it (`Passed`). The property speaks of rows; the invariant must speak of the
  numbers that have no row yet.
- `MerkleProofs`, trees. `RootEquation` shows that the recursive function that is
  chosen exists, and so that a root is what the code's recursion computes.
  `RootIsInjective`: the root commits to every leaf and to their number, by induction
  over the length, since both trees split at the same place or differ in kind.
- `MerkleProofs`, the audit. The inductive invariant says what every checkpoint commits
  to (`Handed`), and what each read of the audit under way has established (`Honest`):
  unless a leaf was replaced since, an untorn checkpoint is a beginning of the log
  (`Begins`), and it stays one as the log grows. `RootIsInjective` turns equal roots into
  equal leaves. `ReportsAreTrue` and `GrowthPasses` read it off.
- `MerkleProofs`, the profiles. While `ans_txt` is under way, `Watching` says that every
  view recorded is of answers that its vantage gave at some time since the start, and that
  the last view is the only one incomplete; `Decided` keeps with the verdict the evidence
  that it was given on. `RejectionsAreReal` and `NoExchange` are case analyses of the
  verdict operators on top of these. A FAILED of `ans_txt` rests on an unexpected url or on
  two different answers, of which one may be that no service record could be read: that
  much the code promises, and no more. A FAILED of `jws_catalog` says that the signature
  is not one of the selected key over this content, be it that this key does not load.
  `VerdictsAreReal` says of a card and a catalog that the named key signed this content,
  field by field, and of a receipt that its leaf lies below the root that the receipt
  names at the depth that the path is long. It needs the walk: `WalkEquation`
  turns the fold over the path into a sequence of climbs, and each climb goes one level
  down in the term of the root (`ClimbedIsBelow`). The proof attempt found
  `UrlAssumption`: the code compares the
  endpoints of two views as one set, so two vantages would look alike if one of them
  served the text of a service record as the url of another.
- `MerkleProofs`, inclusion. `InclusionIsExact`: an entry is accepted at a position under
  the root of a tree if and only if it is the leaf there. The walk goes from leaf to root
  by the bits of two numbers, the tree is defined from root to leaf by powers of two, and
  the proof relates the two. `Inside` and `Apart` relate the position (`fn`, `sn`) in a
  left or a right subtree to the one in the whole tree: the turns are the same until the
  subtree is finished, and then one is left (`InsideRises`, `ApartRises`; `Apart` has to
  follow the levels that a right subtree skips). By induction over the tree, the path
  the log hands out climbs to the root in exactly the turns it has (`PathsComplete`), and
  whatever path climbs to the root does so through the entry at its place (`PathsSound`).
  The walk stops at a shorter or a longer path than that (`ReachesOnce`).
- `MerkleProofs`, consistency. `ConsistencyIsExact`: the proof served for an earlier size
  is accepted with the root of the log of that time and with no other tree's root of that
  size. It reuses the positions of inclusion, from another start: the largest node that
  the last old leaf closes (`ShiftOdd`). In the subtree that holds the old end this start
  is the one of the whole tree (`InsideShift`, `ApartShift`, `StartOfHalf`), or the old
  tree is complete and the start is its root (`ShiftPower`). By induction over the tree
  both roots of the fold, the present one that takes every neighbour and the old one that
  takes only those on the left, come out as the roots of the two trees (`BothRoots`).
  A root that the client holds enters the fold only where the old tree is complete: the
  walk starts at it, and one path leads to the present root from one start only
  (`JoinsBack`). Elsewhere the path alone gives the old root. `RootIsInjective` turns the
  root into the leaves (`LinksExactly`, for every other list of the old length).
- `FederationProofs`. `NeverSkips`: of every pull in progress the invariant says that
  the cursor it asked with is honest (everything it covers is applied), that its rows
  are the peer's deltas without a gap after that cursor, and that the rows counted as
  written are applied. It assumes only that poller and peer read the cursor alike
  (`ModesAgree`). `CursorMonotone` and `NeverReapplies` assume also that `join` waits
  (`JoinWaits`): only the current thread runs, its pull started from the present
  cursor, and accepted rows are consecutive and beyond it.
  `CaughtUp` adds `AgreeInv`: every local delta is the peer's change it came from, what
  a pull has written so far is the end of the local log, and every change below the
  cursor is settled, that is, written after everything that is older. Once all of them
  are settled the last local delta of a slug is the peer's last (`SettledAgrees`).
- `BindingWriteProofs`. `NonceSingleUse`, `RefusalIsFinal`: a (store, nonce) pair is
  claimed by the handler that took it and has not logged it, or by the one whose
  write was refused. Claimed pairs are in `seen`, belong to one claimant, and are on
  no leaf. `EveryVersionLogged`: `LedgerInv` says that leaves and handlers in flight
  hold pairwise different versions of a subject and together all of them; the
  cardinalities of the property follow (`LeafCounts`). `LogRestoresRecords`: `ReplayInv`
  says the same of the record's content, with the writes in flight counted in, since
  only the record and its version change together. `AppliedIsLogged` and
  `CurrentTreeExact`: `TreeInv` says what a thread between its append and its answer
  knows (the size it read, the length it split at, and that its entry lies before it);
  it is needed because a root is computed in several reads while others append.
- `BridgeProofs`. `CatalogAgreement`: two calls under way about one slug know of each
  other (`OverlapsAreMixed`), so a call that is not `mixed` finds the dictionary as its
  first half left it (`HalvesFit`), and no call is under way about the slug of a settled
  agent (`SettledIsQuiet`). When such a call adds its delta, that delta is the newest of
  its slug, and the fold lists the agent of the newest delta or nothing (`ListedBySlug`,
  from the argument of `StoreProofs`). `WalkCompleteness`: `WalkCovers` says that the
  agents of the beginning are still registered and that those before the offset, or the
  first `CountLimit` of them, have been got. This is stable because a registered agent
  keeps its place and a new one goes to the end. Neither needs a hypothesis: overlaps,
  exceptions, private agents and the count limit are in the model.
- `DelegationProofs`. The invariant says what the hops walked so far have passed:
  each is linked to its predecessor, has its scopes rooted in the provider's and its
  window inside that of every ancestor. `AuthorityShrinks` and `WindowsAreNested` are
  transitivity along the walk; `ChainIsPath` follows because ids lead back to the one
  root that has no parent. `HonestVerdict` looks at the step that gives the verdict, or
  at which `verify` raises (`VerdictStep`): nothing changes the evidence after it.
- `AdmissionProofs`. A strict sweep that has not raised has listed the sources it has
  passed, in order, and stamped each that has the method VERIFIED in the step in which it
  listed it (`Passed`); what others stamp later does not change the list.
- `ResolutionProofs`. What a waiting request has read is among what was registered
  during the request, and it names a profile that was asked. `DelegationWins`: names
  are only ever added to the delegating dictionary, and it is consulted first.
  `EveryNameReduces`, `OthersLeadNowhere` and `FactsOwnUp` are about the operators of
  `Conversion`, for any strings. The first string lemmas say where the first and the last
  separator of a concatenation are and what is before and after it (`Places`, `Slice`).
  On top of them, a handle is parsed to what follows its first slash (`HandleName`) and
  its scope is this registry's (`OwnHandle`); a DID begins with the local prefix exactly
  when the method is `web` and the provider URL does not end in a slash (`DidNeeds`,
  `DidPieces`, by cancelling the common prefix, `PrefixCancel`); the identifier of the
  card needs the publisher's host (`CardName`). `BareName` uses lengths: a name that is
  parsed as a handle or a DID comes out shorter than it was. `PeerDid` compares the
  hosts of two registries inside their prefixes. For provenance, `DeclaredAre`,
  `FilledAre` and `DroppedAre` compute both sides of `ProvenanceIsTrue`.

The assumptions on constants (`FactsAssumption`, `EvidenceAssumption`,
`SourceAssumption`, `AgentAssumption` and so on) only give the constants their kinds,
and `TokenAssumption` says that the separators and the fixed words of the name formats
are tokens and lower-case; TLC evaluates them in every run of the module. What the code does not ensure is
a hypothesis of the theorems that need it, named and defined in the model:

| Hypothesis | Needed by | Without it |
| --- | --- | --- |
| `SlugsAreStable` | `SameCatalog`, `Implements` | the snapshot forgets an older slug (section 5) |
| `ModesAgree` | `NeverSkips` and what builds on it | a change is lost (run `poll_with_next_seq`) |
| `JoinWaits` | `CursorMonotone`, `NeverReapplies`, `CaughtUp` | it holds for `stop(timeout=None)` only; after a `stop()` with its default of 5.0 seconds an older loop may move the cursor back (section 5) |
| `PathsFit` | `InclusionIsExact` | in a log of more than 2^64 entries `ans_scitt.py` refuses, for its length, a path that `tlog.py` accepts |

The instances of the runs satisfy those that their properties need: `follower` has a
`join` that waits, `follower_two_loops` has none and checks what does not need it.

Two tools that the provers lack are made here. An induction takes the least number at
which a claim fails, which exists because the finite sets of numbers are well-founded
under inclusion (`LeastNumber`, `StrongInduction`). A recursive function or a fold is
defined by a choice, so that its equation holds only if some function satisfies it: a
lemma builds one up to every length, and a second one shows that any two agree.

Only model-checked, and why:

- `StopReturns`, `CatchesUp`: liveness, which the provers cannot express.

## 5. Known divergences

Met while modelling, each between a sentence of the documentation and the code. The
passing runs do not assume them away silently: the hypothesis that excludes one is
named here.

- `store.py:127` calls the snapshot equivalent to a replay. For an agent whose slug
  changes it is not: the snapshot forgets the older slug. (`SlugsAreStable`.)
- `federation.py:171` says that the cursor advances. After a `stop()` whose `join`
  timed out and a `start()`, the older loop can move it back. (`JoinWaits`;
  `follower_two_loops` shows that nothing is skipped all the same.)
- `binding_write.py:215` reads the size after other handlers may have appended:
  `leaf_index` can name another write's leaf.
- `tlog.py:182` reads the size before the root: a checkpoint signed during an append
  joins one tree's size to another's root. (`Torn` in `MerkleAudit`.)
- `router.py:504` says that an agent is unregistered with a delete delta, and
  `gateway.py:99` calls the fold of the deltas the current agent set. Of two overlapping calls
  about one agent the upsert may be logged after the delete of the other, and then a
  removed agent stays listed; and `to_sm` (495) or the store (499) may raise after the
  agent was registered. Both last until the next call about the slug that overlaps
  none (`CatalogAgrees`).
- `router.py:498` records nothing for a private agent, and `router.py:520` no delete:
  one that is registered again as private stays in the catalog even when it is
  unregistered. (`CatalogAgrees` speaks of calls about public agents.)
- `router.py:109` applies limit and offset before the visibility filter and counts
  after it: paging up to `total_count` can miss a public agent, which README.md:139
  promises otherwise. (`WalkIsComplete` speaks of walks without private agents.)
- `router.py:113` says that `total_count` reflects all public agents. It is counted from
  the first 10,000 agents. (`WalkIsComplete` speaks of agents below `CountLimit`.)
- `router.py:467` says that a source that fails a strict admission does not join.
  `admit_entries` raises, but the converter stays among the served entries, with the
  proof it had (`Stamp`): a VERIFIED of an earlier sweep goes on being served.
- `trust/ans_scitt.py:98` promises a `ValueError` for a path that is too short to reach
  the root. The walk tests `fn` instead of `sn` at its end, so that for a node on the
  left edge (three leaves, leaf 0, a path of one) it returns the root of a subtree. On the
  paths that the log served, compared with the log's own root, this accepts nothing wrong
  (`InclusionExact`).
- `trust/ans_scitt.py:22` says that the event of a VERIFIED receipt is really in the
  log's tree. The root stands in the
  unprotected header and nothing signs it, so that a receipt proves no more than that the
  key signed the payload and that the leaf lies below a root of the presenter's choice
  (`VerifiedIsReal`).
- `trust/ans_txt.py:267` swallows a service query that times out; at one vantage only,
  the views then differ and the verdict is FAILED, which `ans_txt.py:27` says it never is.
  `trust/jws_catalog.py` answers FAILED for a key that does not load
  and for a `crit` header, against the rule of `trust/base.py:36`; and a header
  that is JSON but no object raises. (`RejectionIsReal` names each of these causes.)
- `trust/dns_aid.py:122` and `docs/trust-profiles.md:31` say "+ DANE when requested". The
  verdict is VERIFIED too when DANE was wanted and the package says nothing about it.
- `trust/base.py:16` has a profile answer NOT_VERIFIED when verification cannot run.
  `trust/delegation.py` raises on a credential with a float in it (67), on an id that is
  a list, on a `now` that is no number and on a null subject. A credential without an id
  is answered with the reason of the rules before its signature is looked at (342).
  (`VerdictIsHonest` says when.)
- `router.py:130` says that an agent is found by its id, its DID and its handle.
  `NamesReduce` says when: a provider URL with a trailing slash gives DIDs that
  `/resolve` refuses, because only the reader strips it (261); so does a `did_method`
  other than `web`; an id with a colon resolves by its bare form and its handle only, and
  one with a slash not by its card; a namespace with a slash or a registry id with a
  colon breaks the handle; and an id that begins with `@`, `did:` or `urn:` is not
  reached by its bare form.
- `router.py:290` says that an identifier of another authority is refused. The prefix of
  a provider on `host` ends in the colon that also begins a port, so the DID of another
  registry on `host:8080` is reduced to an id of this one; a registry whose id differs
  after a colon only shares its handles. (`OthersAreRefused` speaks of registries that
  differ in the host, or before the colon.)
- `converter.py:196` says that provenance holds what the bridge supplied. The input and
  output modes of a skill (317), the issuer of a certification (347) and the policies of
  the resolver (236) are filled in and not listed; the name of a skill beside its id is
  neither kept nor listed as dropped. (`Unlisted`.)
- `trust/delegation.py:291` says Ed25519; the signatures checked are ES256.

## 6. Not modelled, and why

- Signatures, hashes, canonical JSON, COSE, JOSE, DNS: external libraries, symbolic
  here. What the code concludes from their results is modelled.
- `feed.py`: a wrapper without state over an external package that orders, signs and
  checks the feed.
- In `federation.py`, the replacement of an inbound proof block
  (`_resolve_inbound_proof`): it changes a field that no modelled reader looks at.
- In `router.py`, the `/registries` routes: they list the entries that the converters
  have at that moment.
- In `gateway.py`, the listing filter, the text search and the routes; in `router.py`
  the static well-known and tools documents: pure functions of data.
- In `converter.py`, display texts and the capability, evaluation and telemetry
  blocks, which are copied; in `onboarding.py`, the fields of an entry and `delegate`.
- `models.py`, `cli.py`, `__init__.py`, `examples/`: no control of their own.
- Timestamps are wall-clock values that no reader orders by, and are left out, except
  for the windows and token expiries of delegation.

## 7. What is left

`MutualFederation`: two registries that poll each other, and whether a change echoes
between them for ever. Both logs then grow without bound, so a run needs a bound on
echoes that the code does not have.
