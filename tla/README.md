# Xion in TLA+

Xion is a Cosmos SDK chain. This directory holds TLA+ models of the modules the
repository adds to the SDK, the TLC configurations that check them, and proofs
that TLAPS checks. Paths below are relative to the repository (`src/` in
`PROJECT.json`). `PROJECT.json` maps every definition to the lines it models.

    tlc -workers 2 -config MCDkimRegistry.cfg MCDkimRegistry    # a run
    tlapm FeeAllowanceProofs.tla                                # the proofs

## 1. Inventory

The chain executes transactions one at a time: a message handler either returns
an error and leaves no trace or commits all its writes. So a handler is one
action, and what is concurrent is elsewhere: the mempools of the nodes against
governance, an upgrade or an export between two messages, the indexer that works
beside consensus, clients that page through a collection that changes, and the nodes
themselves, which execute the same blocks each at its own pace, with its own clock, and
crash and start again around an upgrade.

| Part | State | Operations | Interacts with | What is hard | What makes it correct |
|---|---|---|---|---|---|
| **x/xion sends and mint** (`x/xion/keeper`) | platform percentage, platform minimums | Send, MultiSend, SetPlatformPercentage, SetPlatformMinimum, StakedInflationMintFn at each block | bank, x/mint, fee collector, x/distribution in the begin-block order of `app.go` | rounding for each output, two code paths that must agree, minting against the fees collected | no fee evaded, stakers get the provision and no more, issuance net of fees |
| **x/xion fee allowances** (`types/feegrant.go`) | nested allowances stored by x/feegrant | Accept, ValidateBasic, ExpiresAt | x/feegrant, x/authz, x/wasm messages | members used up and removed, a refusing member that has already changed its copy, nesting | behaves as the flat list of its leaves; nothing lost or gained |
| **x/zk** | verification keys by id, index by name, sequence, parameters | AddVKey, UpdateVKey, RemoveVKey, UpdateParams, genesis, migrations to 2 and 3, verification queries | x/dkim keeps ids | two stores that must agree, ids that others keep, 64-bit gas, two validators | index exact, ids not reused, owners keep their keys |
| **x/jwk** | audiences, claims on their names, time offset | Create/DeleteAudienceClaim, Create/Update/DeleteAudience, parameters, genesis, migrations, ValidateJWT, DecodeJWT, VerifyJWS | contracts that query it | claim and audience drift apart over rename, hand-over and deletion; uint64 read as int64 | admin decides, names freed, no late token |
| **x/dkim** | keys by domain and selector, revoked keys, parameters | AddDkimPubKeys, RemoveDkimPubKey, RevokeDkimPubKey, UpdateParams, genesis, migration, Authenticate, DkimPubKeys | x/zk | a key under several selectors and encodings, limits that change after keys are stored, positions in public inputs | revoked keys stay out, stored keys are found, inputs read in range |
| **x/globalfee** (`ante`) | minimum prices, bypass messages and their gas | the ante decorator, parameter changes, migration | the SDK's fee checker, node configuration, mempools | transactions admitted under old rules; prices of node and chain combined | what waits pays by the rules in force |
| **indexer** | grants and allowances by granter, references by grantee | ListenCommit, re-index, authz and fee grant handlers, queries | BaseApp's streaming, the node's configuration | crash between two writes, lost changes, pages over a changing collection | mirrors the chain, re-index restores, pages sound and complete |
| **x/xion WebAuthn queries** (`types/webauthn.go`, `keeper/grpc_query.go`) | none; a contract keeps the credential that a registration returns | WebAuthNVerifyRegister, WebAuthNVerifyAuthenticate | go-webauthn, contracts through the wasm bindings | called inside a block: what they answer must not depend on the node, and the library uses the node's clock | the same answer on every node, by request, credential and block time |
| **wasm bindings** (`wasmbindings`) | the whitelist and its response messages | StargateQuerier, GrpcQuerier, ConvertProtoToJSONMarshal | query router of BaseApp, x/wasm | a block and clients query at the same time | each query gets its own answer |
| **upgrades** (`app/upgrades.go`, `module.go` of each module) | upgrade plan, module versions, the note on each node's disk | RegisterUpgradeHandlers, NextStoreLoader, NextUpgradeHandler | x/upgrade, the migrations of all modules, operators | crash between two migrations, the wrong binary, a version without a migration | every migration once, all nodes alike, and the chain goes on |
| **application** (`app`) | wiring, ante handler, export, wasm importer | block order, pre-blocker, zero-height export | all of the above | the order of begin blockers | modelled where another module needs it |
| **x/mint types, x/feeabs types, command lines, generated code** | none of their own, or none left | pure functions, input and output | | | see section 7 |

## 2. Plan

Order of work; all of it is done.

1. `PlatformFee` (with `Coins`): sends, parameters, mint function.
2. `VKeyRegistry` (with `Store`).
3. `AudienceRegistry`.
4. `DkimRegistry`.
5. `FeeGate`.
6. `FeeAllowance`, shown to implement the abstract `FlatAllowance`.
7. `GrantIndex` and `GrantPages`.
8. `Authentication`, which composes `DkimRegistry` and `VKeyRegistry`: `Authenticate`
   with the key that `Params.VkeyIdentifier` names while that key is updated or
   removed; the verification queries of x/zk and their limits.
9. `Replicas`, shown to implement the abstract `Chain`: the upgrade with crashes, the
   WebAuthn queries (`WebAuthn`) and the wasm bindings on several nodes at once.
10. `GrantIndex` with the query for a grantee as an actor, and the length of the next key
    in `GrantPages`.
11. Proofs of `PlatformFee`, the registries, `Authentication`, `FeeGate`, `GrantIndex`,
    `GrantPages` and `Replicas`: every safety property of their runs, and the refinement
    of `Chain`.
12. Proofs of `FeeAllowance`, for allowances nested in any way, and of its refinement of
    `FlatAllowance`.

## 3. Modules

Every `MC` module gives the constants of one module values for TLC. Definitions
named `X_Something` are deliberately wrong variants of `X`: replacing `X` by one of
them makes TLC report the property `PROJECT.json` pairs with it, so that no
property holds for want of anything to check. Variables marked *history* in a module
are written by the actions and read only by properties, or carry a bound.

**PlatformFee** `Send` and `MultiSend` follow `msg_server.go`: send-enabled and
blocked-address checks, the platform minimums, the fee of `getPlatformCoins` (rounded
up for each denomination, never above the amount) and the bank calls that move fee and
remainder. `SetPlatformPercentage` and `SetPlatformMinimum` are the governance
messages. `BeginBlock` runs `StakedInflationMintFn` (mint what the fees do not cover of
the provision, or burn what they exceed it by) and then the allocation of
x/distribution, the order of `app.go`. `DeductFee` stands for the transaction fees
of the SDK. Bank, distribution and the provision are external. Sums over the outputs of a
`MultiSend` are running totals (`Totals`). A genesis file may hold any percentage:
`InitGenesis` stores it as it is, and the history variable `checked` says whether it was ever
compared with 100%. With more than 100% the fee exceeds its amount, `Coins.Sub` panics and
every send fails.

**VKeyRegistry** One action per message; `Migrate` is `Migrate1to2` and `Migrate2to3`
in one upgrade; `Restart` is `ExportGenesis` followed by `InitGenesis` in a new
chain. A payload is a model value with a size and the set of proof systems that it
parses as. Gas is computed modulo `Word` (2^64 in the code). A genesis file is a list that
`InitGenesis` sets entry by entry, so that the last entry of an id and the last one of a name
stay (`EntryOf`, `EntryNamed`). It validates the parameters and the bytes of each key as a
Circom key, and no more: `GenesisState.Validate`, which would refuse an id or a name twice, is
called by no start of a chain. The history variable `vetted` says whether the file would have
passed it. An export finds the id of a key by its name, so that after a migration that put the
default key under id 1 while its name belongs to another id (`Displaced`), the export has one
id twice and another not at all. Such an export is imported; `ExportKeeps` says which keys
come through.

**AudienceRegistry** Claims are stored under the name (SHA-256 has no collisions
here). A key is what the checks tell apart: algorithm, key type, private part, size.
`UpdateAudience` is `Rekey` or `Rename`, each with an optional hand-over. `ValidateJWT`,
`DecodeJWT` and `VerifyJWS` are operators over the state, tokens name a subject, and
offsets have width (`Half` is 2^63). `InitGenesis` checks the time offset and nothing else;
of a name that a file has twice the last entry stays (`LastFor`), and `vetted` says, as in
`VKeyRegistry`, whether `Validate` would have passed the file.

**DkimRegistry** A key is an RSA key in one of two encodings with the hash stored with
it. The hash (`HashOf`) is taken of the low bits of the modulus, without the exponent, so two
keys may have the same one; revoked keys are kept in canonical form, which has all of the
key. `SaveDkimPubKeys` lets the last record for a slot win. Genesis is what
`AppModule.InitGenesis` does, which is not `Keeper.InitGenesis`: it stores keys and parameters
without any check, and does not read the revoked keys. `checked` says whether the parameters
in force passed a check: that of a message, of the migration, or the `Validate` that was not
asked for. The positions that `Authenticate` reads are compared with the length it checks.
A hash of 0 finds every key of a domain (`AuthenticateFinds`): its bytes are empty, and an
empty hash is no filter.

**Authentication** extends `VKeyRegistry` and instantiates `DkimRegistry` as `Dkim`, whose
parameters and version are `dkimParams` and `dkimVersion` here: each step is a message of
one of them, an `Upgrade` of both, or the export and import of the whole
chain. The queries are operators over the two states. `Authenticate` reads the public
inputs at the positions of the parameters (`Reading`: decimal numbers only, bytes in
little-endian order, zeros trimmed on the right), looks the DKIM key up by domain and
hash (by domain alone where the hash is 0), checks host and subject, and verifies the proof with the key under
`Params.VkeyIdentifier`. `ProofVerify`, `ProofVerifyGnark` and `ProofVerifyUltraHonk`
select a key by name or else by id and check limits and proof system.

**FeeGate** `AnteHandle` writes prices into the context of one transaction; the SDK's
checker compares the fee with them, in CheckTx only. Each node has its own prices and
mempool; a block (`DeliverTx`), a parameter change or the upgrade is followed by the
recheck, as in CometBFT.

**Allowance, FeeAllowance, FlatAllowance** `FeeAllowance` is the tree of allowances as
it is stored, with `Accept`, `ValidateBasic` and `ExpiresAt` of each kind. In the code each
of the three calls the same method of the allowances inside. Here such a method is a
function for each level of nesting (`Accept_UpTo`, `ValidateBasicDepth`, `ExpiresAt_UpTo`), made
from that of the level below by what one call does (`Accept_Call`, `ValidateBasicDepth_Call`,
`ExpiresAt_Level`), up to `MaxNesting`. The leaves, which hold the limits, are in `Allowance`
with the two restrictions. `FlatAllowance` is what the granter may rely on: a list of
limits, each with the restrictions above it (`Entries` of the tree); a fee is taken from the
first limit that admits it, and no other changes. A leaf has a number, its position in the
allowance as it was signed, which the code does not have: it says which leaf of the old
tree one of the new tree is, and `FlatAllowance` orders its limits by it.

**GrantIndex** `Commit` changes the chain's grants, `ListenCommit` takes the change
set, `Write` does one database write, `WriteFails` drops one pair as
`SafeAuthzHandlerUpdate` does when it logs an error (a change set, `pending`, is a function
from the changed keys, of which the code takes one after another, `First`). Writes are not
synced: queries see them at once, and `disk` has them after a `Flush`, at a time of the
database's own, or when it is closed, by a node that is stopped (`Close`) or at the end of the
command. `Crash` loses what is in hand and falls back to `disk`,
`Start` reads the configuration, `ReIndex` and `ReIndexEnds` are the command.
`Allowance` and `GranteeAnswers` are what the queriers find in the database. A client's
`GranteeGrants` runs beside all that in steps of its own: a snapshot of the references,
then `ReadGrant` for each of them from the database as it is by then, which fails the query
where the grant is gone, then `Answer`.

**GrantPages** The paged queries of the indexer, of x/dkim (`DkimPubKeys`), x/zk (`VKeys`)
and x/jwk (`AudienceAll`), while entries come and go. Entries are positions in the order of
their encodings. A next key is a number: `2i` for the encoding of key `i`, `2i + 1` for its encoding as a part of a
longer key, which has one byte more. The queries differ in which one they hand
out and where they start from. Two of them encode the next key into a buffer of fixed
size (`BufferOf`); a longer key makes the query fail (`failed`). `Queries` lists the
queries, and `LengthOf` how long the encoding of each key is.

**WebAuthn** The two verification queries as operators on a request: sizes, the checks of
structure before the library's parser, the recovery from its panics, the certificates
against the block time, and the library on data from which the attestation statement was
taken. A request keeps the fields that those checks compare.

**Replicas, Chain** Each node executes the agreed blocks by itself. `PreBlocker` is
x/upgrade: the old binary writes a note and stops at the height of the plan, a binary that
comes too early or too late stops as well, and the new one (`Proceed`) runs
`NextUpgradeHandler`, one migration a step (`Migrate` of the `NextModule`), in the order of
the SDK, from the versions that the store has; an error is a panic. `Deliver` executes the transaction, in which a contract registers or
authenticates through the wasm bindings: `GetWhitelistedQuery`, `Route`, `Unmarshal` and
`Marshal` are steps of their own, of the block and of a client (`Ask`) at once. `Commit`
makes the block's state the node's; `Crash` loses everything but the committed state and
the note, and `Start` may start either binary. Consensus, x/upgrade, BaseApp, the operator
and the contract are external. `mode` is fixed at the start: the upgrade runs, is
skipped by all nodes (`--unsafe-skip-upgrades`), or its last migration fails. `Chain` is
what the chain's users may rely on: one state, one step for each block, a result that is a
matter of the block and its time, all migrations once or none.

## 4. Runs

| Run | Configuration | Bounds | Shows |
|---|---|---|---|
| platform_fee | MCPlatformFee | 2 users (symmetric), 2 denominations of which one is frozen, amounts 0 and 2, minimums for some of them, 0, 1, 10000 and 10001 basis points (the last in a genesis file only), 2 outputs, 2 blocks | no balance negative, provisions, issuance, no fee evaded by splitting, where Send and MultiSend agree |
| vkeys | MCVKeyRegistry | 4 ids, a user and governance, chains of version 1 and 3, 6 genesis files of which `Validate` would refuse 3, 1 restart | index, ids, owners, what a restart keeps and what it does not, parameters of old stores |
| vkey_export | MCVKeyExport | as above | *violation*: an exported registry with a gnark key cannot be imported |
| audiences | MCAudienceRegistry | 2 users, 2 names, time to 3, versions 1 to 3, genesis files that `Validate` would refuse among others, 1 restart | claims, names, admins, tokens |
| dkim | MCDkimRegistry | 2 domains, 2 keys of one hash under several slots and encodings, batches of 2, parameters without positions or with wrong ones, 1 restart | revocation, positions of inputs, who decides |
| dkim_restart | MCDkimRestart | as above | *violation*: revoked keys are exported and not imported |
| authentication | MCAuthentication | 1 user and governance, 2 DKIM keys, 3 ids, the default key in its place and its name elsewhere, 11 requests (canonical and not, hexadecimal, without domain, with hash 0, too short), 7 queries, both versions of both modules, 1 restart | one proof, one transaction; who can change an answer; what an upgrade leaves |
| globalfee | MCFeeGate | 2 nodes (symmetric), 2 denominations, both versions | mempools against changing rules |
| feegrant | MCFeeAllowance | 1 to 3 leaves in trees of up to 4 levels around them, lists in lists one deeper than allowed, 5 blocks | refinement of the flat list, nothing lost, one expiration |
| indexer | MCGrantIndex | 2 authz keys and 1 fee grant, 2 values (symmetric), 2 blocks that change up to 2 keys each, 2 crashes or failed writes, unsynced writes, 1 re-index, a query at a time | mirroring, what re-index restores, what a query beside them returns |
| pages | MCGrantPages | 6 keys in 3 groups, pages of 2 | pages sound, complete (but for GranteeGrants), ending |
| replicas | MCReplicas | 2 nodes whose clocks disagree, 5 logs of 3 blocks, the upgrade at the second (or skipped, or failing), 2 crashes or starts of the wrong binary, 1 query of a client | nodes agree, refinement of Chain, own answers, the upgrade passes |

`MCAuthenticationEmpty.cfg` checks the properties of `authentication` from a chain whose
x/zk holds no key at first, so that the default id is the next one anybody may get. Both use a
view (`AuthView`) without `signer` and `shown`, which no guard and no property of a state
reads: every step is still checked with its own.

Why the bounds are enough: the properties relate at most two accounts, two names or
ids, and one restart or upgrade; the instances have one more than that of whatever must
be told apart (a third id so that one can be removed between two, a third entry
so that a page has a predecessor and a successor). An amount of 2 pays no fee at 0, a
fee of 1 that was rounded up at 1 basis point, and all of it at 100%, and with transaction fees the collector is
below, at and above the provision of 1; other amounts and percentages are left to the proofs.
The logs of `replicas` have a registration or an assertion for each check of the queries,
and the upgrade comes after a block and before one. The requests of `authentication` have one
for each check of `Authenticate` that it alone fails, and the same proof with its inputs
in every form that the parser reads. The proofs of section 5 lift the bounds
for the modules they cover.

**Fairness.** Two runs use it. `pages`: weak fairness of `NextPage`, a client that keeps
asking while it is given a next key; the answer to a query waits for nothing. `replicas`:
weak fairness of each node's own steps (a running process executes the blocks that
were agreed on) and of starting a node that is down with the binary that the note on its disk
calls for (what a service manager with cosmovisor does). Nothing is assumed of
consensus, clients, or of crashes, which the bound on faults ends. Every other
property is about what a step may do. Deadlock is not checked because the bounds on
blocks, ids and time end each behaviour.

**Disagreements.** Two are runs (`findings` of `PROJECT.json`). More came up, each
stated as a property next to the others of its module; they are not part of the runs,
and the configuration shows the trace (with `-continue` where it has several invariants).

| Property | Configuration | What the code does |
|---|---|---|
| EmptyMinimumsAdmitSends | MCPlatformFeeMinimums | without platform minimums, the default that `x/xion/README.md` calls "no minimums", every send fails (`msg_server.go:172`) |
| ZeroMinimumsProposable | MCPlatformFeeMinimums | `Coins.IsValid` refuses the zero minimum that the comment at `types/msgs.go:191` allows |
| PercentageLimited | MCPlatformFeeMinimums | `InitGenesis` stores a percentage above 100%, which `types/genesis.go:15` refuses where it is asked (`keeper/genesis.go:11`) |
| IdsUnique | MCVKeyDocs | the sequence is not exported: the id of the highest key, once removed, is given out again after an import |
| IdsUsable | MCVKeyDocs | the first key of a chain without keys gets id 0, which the queries take for absent |
| NameAndIdAgree | MCVKeyDocs | the migration to version 2 stores a key under id 1 and not its name |
| RoundTrip (x/zk) | MCVKeyDocs | after that migration over a chain that has the name under id 0, the export has id 0 twice; it is imported, the key of id 0 becomes governance's and the key of id 1 is gone (`keeper.go:118-136, 168-183`) |
| UploadsCharged | MCVKeyGas | a chunk size next to 2^64 makes the rounding wrap: an upload is free |
| RevocationWorks | MCDkimRevocation | after the size limit was lowered below one stored key, no key of its domain can be revoked |
| LimitPositive | MCDkimLimit | a size limit of 0 in a genesis file is validated as the default and stored as 0 |
| LengthPositive | MCDkimLimit | a genesis file without positions is stored as it is (`x/dkim/module.go:115`), and `Authenticate` reads the first of no public inputs |
| ClaimKept | MCAudienceDocs | the admin of an audience removes a claim that another account made on its name |
| StoredKeysVerify | MCAudienceDocs | a key with alg ES256K is stored whatever its type |
| RoundTrip (x/jwk) | MCAudienceDocs | claims are not exported |
| FeeInGlobalDenoms | MCFeeGateDocs | a fee in a denomination that only the node has a price for is enough |
| BypassBelowMinimum | MCFeeGateDocs | a bypass transaction with a small fee is refused where one without is admitted |
| GranteePagesComplete | MCGrantPagesDocs | `GranteeGrants` leaves out the first entry of every page after the first: the next key is encoded as the part of a longer key, after the entry it stands for (`authz_querier.go:382`) |
| GranteeServed | MCGrantIndexGrantee | a write that fails between reference and grant leaves a reference that neither the deletion of the grant nor re-index removes, and with it every query for that grantee is an error (`authz_querier.go:351`) |
| NextKeysFit | MCGrantPagesDocs | the next key of `GranteeGrants` is encoded into 128 bytes (`authz_querier.go:389`); two accounts with addresses of 32 bytes (contracts) and MsgExecuteContract need 136, and the query panics instead of giving a next page |
| GrantsMatchType | MCGrantPagesDocs | `Grants` never reads the kind of message it is asked for |

Four modules share a cause: x/xion, x/zk, x/dkim and x/jwk have a `GenesisState.Validate`
that `genesis validate` calls and the start of a chain does not. The models start from any
file that `InitGenesis` accepts, and where a property needs more it says so (`vetted`,
`checked`). `Authenticate` looks for a key by its hash: a revoked key's hash may be that of
another key of the domain (the hash leaves out the exponent and high bits of the modulus), and
an input of 0 stands on any key of the domain (`query_server.go:140`). Neither is a
property's violation: `RevokedStaysOut` and `AnswersKept` say what is left, given these.

Also seen: the comment of the x/globalfee migration lists IBC messages as the
default bypass messages, the code uses those of x/xion. The types of `x/mint` in this
repository are registered in a codec and used nowhere else: the application runs the
mint keeper of the SDK.

## 5. Proofs

The theorems hold for every value of the constants that meets the named assumptions of the
modules, for any number of accounts, keys, nodes, entries or blocks. Each proof has the
same outline: an inductive invariant `Inv`, `Init => Inv`, one lemma or step for each
action, `Inv => P`, and PTL. An action property follows from `Inv` and the step itself.

| Module | `Inv` and why | Theorems |
|---|---|---|
| PlatformFeeProofs | `TypeOK`, `RewardsAreProvisions`, `IssuanceNetOfFees`. Balances stay natural numbers because a fee never exceeds its amount, at a percentage of at most 100% (`ShareBounds`); a genesis file may hold more, but a transfer that is accepted has its fee covered, which shows that the percentage is not above 100% (`FeeCovered`, `MultiSendPercentage`). What `MultiSend` takes is summed over any number of outputs (`CreditToAppend`, `MultiSendEffect`). `SendsAgree` is about both directions: a MultiSend of one output is accepted exactly where the Send is and leaves something to deliver | TypeCorrect, StakersGetProvisions, IssuanceIsNetOfFees, NoFeeEvaded, SendPathsAgree |
| AuthenticationProofs, x/zk alone (`Spec`) | `TypeOK`, `IndexExact`, `IdsNotReused`, `KeysParse`, `ParamsServe` and `IndexBelow`: every indexed id is below the sequence, without which a new id could be in use. Chains start from any file that `InitGenesis` accepts: `ImportedKey` and `ImportedName` say what the last entries leave, `ImportedExact` that a vetted file yields an exact index, and `ImportKeeps` that what `ExportKeeps` names comes back under its id with its owner. Without a displaced key that is everything (`ExportInPlace`, `ImportedIndexIsIndex`), and a registry of Circom keys can be imported (`CircomImportable`) | TypeCorrect, IndexStaysExact, IdsStayRetired, StoredKeysParse, ParamsAlwaysServe, OwnersKeepKeys, RestartsAreFaithful |
| AuthenticationProofs, both modules (`AuthSpec`) | a step of both modules is a step of x/zk or leaves it alone (`ZkStep`), so `Inv` of x/zk holds here; with it `DkimOK`: stored hashes are those of the keys and the positions in force are those of some input, valid or not, of which `Authenticate` reads only what is in range (`InputPositions`). A proof fixes its inputs modulo the field, and `Canonical` the inputs themselves (`VerifyBinds`). An account that may not change a key leaves it as it is (`MessageKeepsKey`, from `IdsNotReused`), a restart keeps what `ExportKeeps` names and the parameters (`RestartKeepsKey`, `RestartKeepsName`, `RestartKeepsParams`), and a revocation takes only what gives the hash of the key shown, or 0 (`RevocationKeepsAnswer`) | ProofsBind, UpgradesServe, AnswersAreKept, VerdictsAreKept |
| DkimRegistryProofs | `TypeOK`, `HashExact`, `RevokedStaysOut` and, at version 2, valid indices once they were checked (`checked`). A key is looked up by its hash: what is found for a revoked key is another key of the same hash, which rests on exact hashes | TypeCorrect, RevocationHolds, HashesExact, InputsAreSafe, OwnersDecide |
| FeeAllowanceProofs | what is stored is valid and numbered in order, its queue entry is its expiration, and it is in balance with what was granted (`Balanced`): each entry that is left matches one that was granted, and each limit that is gone has paid all it had. All of it rests on `AcceptAnswers`, of which more below | AllowancesStayValid, NothingIsLost, ExpiryIsKept, ImplementsFlat |
| AudienceRegistryProofs | `TypeOK`, `ClaimFollowsAudience`, `ExportImportable`: the time offset is always valid, which is all a restart asks for and what `TokensInTime` rests on; the exported file is valid as a whole where the chain started from a vetted one (`LastForExists` and `ImportedContents` for lists that have a name twice) | TypeCorrect, ClaimsFollow, ExportsImport, NoLateTokens, AdminsDecide, NamesAreFreed, ClaimsComeFirst |
| FeeGateProofs | `TypeOK` and `Checked`: each node would admit what waits in its mempool again, under the rules now in force. It is the recheck after every block that keeps it; the prices combined are at least those of the chain, rounding up included | TypeCorrect, WhatWaitsPays, OnlyBypassIsFree, WhatWaitsExecutes |
| IndexerProofs, GrantIndex (`Spec`) | `TypeOK`; `PendingCurrent` and `TodoCurrent`: what is in hand is what the chain holds, and which writes of the pair are done; `Paired`: reference and grant come and go together but for lost changes, those that a crash takes back to `disk` included; `Settled`: every other key mirrors the chain, during a re-index also those not yet written; `ReIndexServes`; `QueryInv`: a query knows every grant in motion as touched, and has read the others as they are | TypeCorrect, IndexMirrors, ReIndexRestores, QueriesTruthful |
| IndexerProofs, GrantPages (`PagesSpec`) | `PagesTypeOK`, `PagesSound`, `Before`: what the client has lies before its cursor; `StillToCome`: an entry that was there all the time was given or lies behind the cursor. Each kind of page is shown to fit, to advance and, but for `GranteeGrants`, to leave out nothing before its next key (`CollectionPages`, `DkimPages`, `RawPages`). A page with a next key returns something (`EmptyPageIsLast`), so that the cursor moves on and the bound `Remaining` falls with each page (`PageAdvances`) | PagesTypeCorrect, PagesAreSound, PagesAreComplete, ClientsComeToAnEnd |
| ReplicasProofs | there is one run of the agreed blocks on which every committed state lies (`Follows`), and each node is fit (`NodeOK`): the state in work is a prefix of the next block (`WorkOK`), queries keep their requests and messages (`QueryOK`, `BlockQueryOK`), clients were answered what they asked (`ServedOK`). It rests on `ClockFree` (a registration without its statement is answered without the node's clock) and `MigrationsUnique` (whoever runs the migrations to the end runs the same ones, whatever crashed before). The refinement maps `Chain`'s state to the node that is ahead (`AheadIn`): a commit of that node is a block of `Chain`, every other step a stutter | ReplicasAgree, ClientsGetTheirOwn, ImplementsChain |

`AcceptAnswers` is an induction over the levels of nesting: the result of `Accept` for any
valid allowance is a refusal exactly where no entry can pay, and otherwise charges the first
entry that can, leaves all the others, asks for removal exactly where none is left, and
returns an allowance that is valid at the same depth, expires at the same time and has
the entries that are left (`Replaces`). A leaf answers for itself (`LeafAnswers`); behind a
restriction the messages that pass are those that the allowance inside is asked with
(`RestrictionAnswers`, `PassedBehind`); in a list the first member that accepts holds the first
entry that can pay, because entries are numbered in the order of the members, and a list that
loses a member keeps both its order and its expiration (`ListAnswers`, `ListKeeps`,
`WithoutValues`). That what `ValidateBasic` accepts has entries, one expiration and no limit
of zero (`ValidIsSound`) is needed for the removal: an empty list inside another would keep a
grant with no limit left. The provers have no induction over trees or levels, so the
functions of the levels are first shown to satisfy their equations (`AcceptDef` and its like,
from partial functions on the first levels) and each induction is by the least counterexample
(`LeastNatural`, `AllLevels`).

The assumptions are facts of the code or of its inputs: users are not module
accounts, default parameters are valid, a genesis file holds records of the right
kind. Some deserve a word. `GrantPages`: the names that x/dkim pages over fit into 1024 bytes
(DNS names do; the code has no check), for a longer one would make the query fail as
`GranteeGrants` does. `Replicas`: a registration that the parser decodes has a format and
certificates with dates; the modules start from version 1 or a later one, x/zk from one
before its present one, and the plan is for a height above 0.
`DkimRegistry`: the hashes of a genesis file are those of its keys, which the code does not
recompute. `Authentication`: the Poseidon hash is a number of the field. `FeeAllowance`: an
allowance is nested at most `MaxNesting` deep, for any value of it (the codec of the SDK unpacks
a bounded number of `Any` inside each other), the leaves of what is signed are numbered in order,
which names them and restricts nothing, and the set of message lists is closed under taking
the messages inside (`MsgsAssumption`).

The type invariants of the proved modules are theorems; only that of `PlatformFee`, which
says that no balance becomes negative and no percentage that was checked exceeds 100%, is a run's property
as well.

**Only model-checked.** `PagesEnd` and `UpgradePasses` are liveness, which the prover does not
do under fairness. What `PagesEnd` rests on is proved: a bound on the pages to come that each
page lowers and no step raises (ClientsComeToAnEnd); only that a client goes on asking is left
to fairness. Every other property of a passing run is a theorem.
`KeysParse` and the type invariants other than `PlatformFee`'s are the other way round: they
are proved and no run needs to check them.

## 6. Abstractions

Cryptography (RSA, SHA-256, signatures, pairings) is injective or a set of
accepted payloads; the Poseidon hash is any function of the key, since the code gives it only
a part of the key; a proof verifies exactly for its circuit and its statement, modulo the
field, as a sound and complete system would. A field element has two bytes of base
`Base`, 32 in the code, and a subject of an email is a list of pieces and words, as the
checks of `ValidateForcedSubject` tell them apart. Names, addresses and payloads are model values. Events, logs and
error texts are left out, and so is gas except for uploads. Genesis files and inputs are
the small sets of the `MC` modules; those include files that the code refuses, and files that
only `genesis validate` would refuse.

In `Replicas` a block holds one transaction, and the migrations are names in an order:
what each does is in the module it belongs to. Two paths of the whitelist stand for its 35;
those of x/jwk, x/dkim and x/zk are queries over the state that the other modules model.

## 7. Not modelled

- The inflation formula and the types of `x/mint`: the application runs the SDK's mint
  keeper, and the provision of a block is an input of `StakedInflationMintFn`.
- The zero-height export (`app/export.go`), beyond the export of the modules' own state: it
  withdraws rewards, resets starting heights and jails validators in the SDK's
  distribution, staking and slashing modules, whose rules are not in this repository.
- Export and import of x/xion and x/globalfee: the parameters are written and read back
  as they are, a step that changes nothing in `PlatformFee` and `FeeGate`.
- The wasm genesis importer hands code and contracts to x/wasm, whose state they are; nothing
  in the application constructs it.
- `getExistingStoreNames` and `isModuleInitialized` of `app/upgrades.go`, `NewSafeIndexer` and
  the no-op service of the indexer have no caller but tests; the application uses
  `indexer.New`.
- The arithmetic of proof verification and of WebAuthn signatures belongs to libraries.
- x/feeabs types (whose keeper is gone), command lines and generated code have no state of
  their own in this repository.
- Stores written by releases before the checks of the present one are initial states only
  where a migration of this repository starts from them.
