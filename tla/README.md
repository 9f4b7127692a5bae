# A TLA+ verification of BRDPoSChain

BRDPoSChain is a go-ethereum descendant whose blocks are produced by masternodes.
Up to a configured *switch block* they run BRDPoS v1, from there on BRDPoS v2, a
chained BFT protocol of the HotStuff family. This directory models the v2 consensus and
the stateful parts of the node around it: rounds and timers, gossip, the miner, masternode
lists, the block store and fetcher, the transaction pool, and the order matching and
lending that run inside block processing.

## The system and its modules

| part | source | module |
|---|---|---|
| protocol of v2 (votes, locks, commits) | `consensus/BRDPoS/engines/engine_v2/{engine,vote}.go` | `Blocks`, `ChainedBFT` |
| v2 engine, message pools, BFT gateway, proposing | `engine_v2/*.go`, `BRDPoS/utils/pool.go`, `eth/bft`, `miner/worker.go` | `EngineV2` |
| gossip of votes, timeouts, sync infos | `eth/handler.go`, `eth/peer.go` | `Gossip` |
| countdown of a round and its length | `common/countdown` | `Countdown`, `ExpDuration` |
| event loop of the worker | `miner/worker.go` | `MinerLoop` |
| start and stop of staking | `cmd/BRC/main.go`, `miner/{miner,worker,agent}.go` | `Staking` |
| epoch switch search | `engine_v2/{epochSwitch,utils}.go` | `EpochSearch` |
| masternode lists and snapshots | `engine_v2/{snapshot,epochSwitch,verifyHeader}.go`, `core/blockchain.go` | `Masternodes` |
| block store, fork choice, crashes | `core/{blockchain,headerchain,block_validator}.go` | `ChainStore` |
| block fetcher | `eth/fetcher/fetcher.go` | `Fetcher` |
| transaction pool | `core/txpool/{txpool,list,noncer}.go` | `TxPool` |
| trading state, order matching | `BRCx`, `BRCx/tradingstate` | `TradingState`, `OrderBook`, `Matching` |
| lending | `BRCxlending`, `BRCxlending/lendingstate` | `LendingState`, `Lending` |

How they interact. The worker asks the engine for the highest certified block and whether it
is its turn, prepares a block on it, seals it and writes it to the chain; the block is
broadcast. Another node's fetcher verifies the header, imports the block and calls
`ProposedBlockHandler`, which processes the quorum certificate (QC) in the header and votes.
Votes, timeouts and sync infos travel by gossip to `eth/bft`, which verifies each and calls
the engine's handler. A QC or a timeout certificate (TC) moves the engine to a new round,
which restarts the countdown and wakes the worker. Three certified blocks of consecutive
rounds on top of each other commit the lowest; the chain store refuses to reorganise a
committed block away. `Gossip` composes with `EngineV2` (it extends it); the other modules model
one component each, with what they need of the others as inputs.

**`Blocks`.** A header names its parent by hash, so a block is the sequence of headers from the
first v2 block to itself; ancestors are prefixes. Only round and a token for everything else
are kept of a header. `verifyHeader` accepts a header only if its QC certifies its parent, so
the QC of a header is the one for `ParentOf(b)`.

**`ChainedBFT`** says what the engine promises, over the set of signed votes: `ProcessQC` moves
a lock, `ProposedBlock` votes by `verifyVotingRule`. Who proposes, how votes travel and when
rounds change is left open. Masternodes in `Faulty` sign anything.

**`EngineV2`** is the engine as written, for a fixed list of masternodes. `node[n]` has the
fields of the Go struct. Handlers that hold `x.lock` are functions from such a record to the
next, named after the Go functions; what the code does in several steps without the lock is
several actions:

| action | code |
|---|---|
| `CommitNewWork` | worker `commitNewWork` with `FindParentBlockToAssign`, `YourTurn`, `Prepare` |
| `WaitResult` | `Seal` by the agent, then worker `wait`: write, broadcast |
| `InsertBlock` | fetcher `insert`: `verifyHeader`, import |
| `ProposedBlockHandler` | the engine's handler of an own or imported block, including the vote |
| `ReceiveVote`, `ReceiveTimeout` | `Bfter.Vote`, `Bfter.Timeout` with their handlers |
| `SyncInfoHandler` | `Bfter.SyncInfo` with `processQC`, `processTC` |
| `OnCountdownTimeout` | the callback of the countdown with `sendTimeout` |
| `Hygiene` | `periodicJob` |
| `Restart` | process stop and `loadLastState` with `New`, `Initial` |

Messages stay in the network: delivered late, in any order, repeatedly or never. **`Gossip`**
replaces this network by the real one: each message reaches a node once and is marked known
before it is handled, so one the engine refuses is lost.

**`Masternodes`** has the blocks of `Blocks` and, for each node, what it stored, its head, its canonical
number-to-block map and its snapshots. Each head write of a reorganisation is an action (`WriteHead`), and so is
the `UpdateM1` that follows it on a gap block, so that lookups and crashes fall between them.

**`Countdown`**, **`ExpDuration`**, **`MinerLoop`** and **`Staking`** model goroutines step by step
between their channel operations and critical sections. **`ChainStore`** has one action per
database batch, so a crash falls between any two of them: `disk` survives it and `chain` does
not. **`Fetcher`** has one action per event of its loop. **`TxPool`** has one per section under
`pool.mu`. **`Matching`** and **`Lending`** have one step per `ApplyOrder` and one per end of a block,
on amounts small enough to enumerate, with every division of the code (in `Lending` an epoch switch, which goes by
round, may be at any block number); **`TradingState`** and
**`LendingState`** are the state databases with their journals, tries and live objects.

The `MC*` modules instantiate these for TLC. `MCMiner`, `MCEpochs`, `MCChain` and `MCExchange`
hold several components that share no variable: `running`, chosen in the initial state,
says which one steps, so nothing is claimed of their interaction. `env` and `market` choose
among several environments in the same way. Operators marked "Mutant" are wrong versions of
a definition: putting one in its place must make a run fail.

## Model checking

| run | instance | checks |
|---|---|---|
| `chained_bft` | 4 masternodes, 1 faulty, threshold 0.667, rounds 1..4 | `OneCertificatePerRound`, `CommittedIsFinal`, `Agreement` |
| `engine_commits` | 2 masternodes, rounds 1..5, timeouts in 1 and 3 | `ImplementsChainedBFT`, `CommitsAreCommittable`, `NeverGoesBack`, `TimeoutPoolIsCurrent` |
| `engine_leader_behind` | 3 masternodes, two of which certify, rounds 1..3, two locked and the leader of round 3 behind | `StepsImplementChainedBFT`, `HighestQCIsKnown` |
| `engine_restart` | 2 masternodes, one restarting, two bodies, rounds 1..3 | `RoundFollowsCertificates`, `CertificatesAreSigned`, `ImplementsChainedBFT` |
| `two_votes` | 2 masternodes, one restarting, two bodies, rounds 1..2 | `VotesOncePerRound` **fails** |
| `gossip` | 2 masternodes, round 1, timeouts in 1 and 2 | `RoundsEnd` |
| `miner` | a countdown with two handlers and two callbacks; its length, read while `SetParams` writes; the worker's loop; staking over 3 epochs and 2 syncs | `ResetReturns`, `RoundsTimeOut`, `AcceptedParams`, `NewRoundSeenOrStuck`, `MasternodeMinesOrForgotten`, `StopEnds` |
| `epochs` | two nodes on forks, or one that crashes twice; chains of up to 12 rounds | `NoneRefused`, `CachedInfoRight`, `GapBlocksHaveSnapshots`, `SearchFinds` |
| `chain` | two branches of 3 and 4 blocks under crashes, rewinds, commits or fetches; a fetcher with two peers; the transaction pool in five surroundings of one or two accounts | `CanonicalChain`, `HeadHasState`, `CheckedCommittedStays`, `QueueCountsExact`, `LookupMatchesLists`, `PendingIsExecutable`, `RunRestoresLimits`, `DiscardedReturn` |
| `exchange` | two traders, two relayers, three markets; the trading state by itself | `TokensConserved`, `SettlementNeverFails`, `PriceTimePriority`, `RevertRestoresOrders` |
| `lending` | a borrower, an investor, one collateral, two liquidation blocks, epoch switches at any block | `TokensConserved`, `LockMatchesLoans`, `NoneDue`, `NoUntimelyEnd` |
| `two_collaterals` | the same with two collaterals, one of them priced | `IndexesAgree` **fails** |

`ImplementsChainedBFT` is the refinement: with the votes and locks of the masternodes that never
restart as the abstract state, every step of `EngineV2` is a step of `ChainedBFT` or a stutter.
With `CommitsAreCommittable` it carries `Agreement` over to `highestCommitBlock`.

*Bounds.* Four rounds are the least in which a block can be committed and a competing block of
a later round be certified; two disjoint three-chains need six and are covered by the proof. With
two masternodes every certificate needs both, so no lock ever refuses a vote:
`engine_leader_behind` is the run for the lock, and for two proposals in a round, which
`engine_commits` does not reach. It starts in a state computed with the engine's handlers.
`LiveView` leaves pooled votes of left rounds out of the fingerprint, since only the pool
cleaning reads them; `engine_restart` does without it and explores the cleaning. There,
`FewBlocks` keeps to two rounds and one body once a countdown has expired. The store's branches
are long enough for a state to be pruned below the head; one fault counter is shared by crashes
and rewinds. In `chain` the fingerprint is of the variables of the component that runs (`RunningVars`); the others do not
change. In `epochs` one block is proposed per round (`perRound`), epochs have 3 blocks, the gap is 2 and forks are
1 deep. In `miner` the count of rounds has 3 bits instead of 8 and 10 rounds pass, so that it wraps. In `lending`
an epoch has 3 blocks, of which the second liquidates, and a loan runs for 3; the prices are 0, 10, 14 and 20, by a
direct quote, an inverse one or averages in BRC. Deadlock is
checked for `chained_bft` only: elsewhere rounds, blocks, orders or messages are bounded and
behaviours end.

*Fairness.* Goroutines that can run do run (weak fairness in `Countdown`, `Staking`, `MinerLoop`).
A Go `select` picks at random among ready cases, so a case that is ready again and again is
taken (strong fairness in `MinerLoop`); it gives no case precedence. In `Gossip`, peers stay connected, delivered messages are
handled, and the countdown of a round that does not end expires again.

## What the passing runs assume, and what happens otherwise

Several properties hold only under a condition that the code does not enforce. The comment of the
property states the condition, and TLC finds the property violated when it is lifted. These can be
repeated by making the change named:

| property | condition in the run | change that violates it |
|---|---|---|
| `CanonicalChain` | `InsertChain` and `InsertBlock` do not run together | `threads = {i1, f1}`, no crash: pruned ancestors are imported without the mutex |
| `CanonicalChain` | no `SetHead` after a crash repair | `crashes = 2, rewinds = 2`: the block the head marker names is deleted |
| `SearchFinds` | the switch block is at least an epoch long | `SwitchBlock = 0` (as in `common/constants.local.go`): a bound wraps below zero |
| `SearchFinds` | the chain does not fork below a cached block | `Forks = TRUE` in `MCEpochs`: the switch block of a branch that lost is returned |
| `NoneRefused`, `CachedInfoRight` | forks are shallower than the gap | `Depth = 2` in `Epochs.cfg`: the gap block of another branch is read |
| `LookupMatchesLists` | special transactions have nonces of their own | `Tx("s", {1, 2}, {1, 2})` in `Signing`: lists are searched by nonce only |
| `TokensConserved` (trading) | the masternode owner does not trade | `MasternodeOwner = alice`: the matching fee is overwritten |

The second group was found with TLC on formulas and instances that are not among the runs kept
here, some of them on earlier versions of the modules; it is to be read as a list of observations:

- At the switch from v1 to v2 two countdown goroutines can start (`Countdown` with `Boot = {}`).
- `StopTimer`, called by tests only, can leave a `Reset` waiting for ever.
- `engine.go` says of `highestSelfMinedRound` "to make sure we only mine once per round"; a leader
  that prepares on two parents before sealing either proposes two blocks. Safety holds.
- `Miner.update` goes on handling downloader events after the first `Done`, and a stop can
  overtake the `Miner.Start` of an earlier epoch.
- `reorg` reaches "Impossible reorg, please file an issue" when the current branch is not the
  committed one.
- An archive node that crashes between the head write and `UpdateM1` never takes that snapshot.
- Fetcher: a peer's announce count is given back twice; an import that ends after `Stop` waits for
  ever; body requests never expire.
- Pool: a processable transaction stays queued when its promotion falls into a reset's run; a
  local transaction that replaces a pending one does not make its sender local.
- Trading: a revert does not bring an emptied price back into its trie; within a block, an order
  at a price emptied earlier in the block is not in the trie (hence one order per block in
  `PriceTimePriority`).
- Lending: with few units locked a top up is rounded to nothing (3 units at liquidation price 14 and a
  price of 13, against `NoneDue`); loans of different books are processed in the order of a Go map, on which the
  resulting state depends; an epoch whose liquidation block, chosen by number, is the switch block, chosen by
  round, has no liquidation.

Two runs are kept in which TLC refutes what a comment says of the code:

| run | what is said | what the run shows |
|---|---|---|
| `two_votes` | `vote.go:215`: "Make sure this node has not voted for this round" | the highest voted round is not persisted, so a masternode that restarts can vote again |
| `two_collaterals` | `lendingstate/statedb.go:501`: "RevertToSnapshot reverts all state changes made since the given revision" | liquidation times are not in the journal; one of an undone loan stays |

To the theorems below a masternode that restarts is one of `Faulty`, and counts against `ThresholdAssumption` as such;
in `engine_restart` the refinement is checked for the others.

Five more properties of the modules state what the code is said to do and are violated in the instances of the passing
runs; naming one in `Miner.cfg` or `Chain.cfg` shows the counterexample. Beside each, a passing run checks a
property with the one exception that the counterexample needs, so nothing else goes wrong there:

| violated | what is said | what happens | what holds |
|---|---|---|---|
| `WrongParamsUnused` (`ExpDuration`) | `exp_duration.go:62`: "if parameters are wrong, should remain instead of change or panic" | they are written before they are checked, without a lock, and a countdown reads them in between | `AcceptedParams`, of a countdown that no `SetParams` overlaps |
| `CappedTimeouts` (`ExpDuration`) | `exp_duration_test.go:41`: "already 4 rounds timeout, but max_exponent=3, should be base*exponent^3" | the number of rounds is cut to eight bits before it is capped; after 257 rounds the exponent is 0 | `AcceptedParams`, of the number after the cut |
| `NewRoundSeen` (`MinerLoop`) | `BRDPoS.go:67`, of the round channel: "Miner use this channel to trigger worker to commitNewWork" | the worker's loop and its timer goroutine wait for each other, each on a full channel | `NewRoundSeenOrStuck`, of a loop that is not in this deadlock |
| `MasternodeMines` (`Staking`) | `miner.go:64`: "should start indicates whether we should start after sync" | a start between the read of the flag and its clearing is forgotten | `MasternodeMinesOrForgotten`, when none falls there |
| `CommittedStays` (`ChainStore`) | `blockchain.go:2356`: "Ensure BRDPoS engine committed block will be not reverted" | a block committed after `reorg` asked, and before it wrote, is reverted | `CheckedCommittedStays`, of a block committed before |

The last one needs certificates on two branches, which agreement excludes unless too many masternodes vote twice.

## Proofs

TLAPS checks every theorem for all values of the constants. Assumptions on constants are named
`ASSUME`s of the component (TLC evaluates them in the runs) or stand in the theorem.

**The protocol** (`ChainedBFTProofs`, `BlocksProofs`).

- `MasternodesAssumption`: finitely many masternodes, the faulty ones among them;
- `ThresholdAssumption`: `2 * threshold * N > N + |Faulty|`, so two quorums share a masternode that
  follows the rules. The threshold 0.45 of the test network's
  default configuration (`params/config.go:103`) does not satisfy it;
- `RoundsAssumption`, `NilAssumption`: rounds are positive, the nil pointer is no block.

`SafetyInvariance` proves the inductive invariant `SafetyInv`. Agreement is not inductive: it says
nothing of how votes came about. `SafetyInv` adds that every vote is for a child of a certified
block in a later round (`VotesWellFormed`), that whoever voted for a block is locked at least as
high as its grandparent (`LocksFollowVotes`), and that of two votes by one masternode the later was
allowed by a certified lock at least as high as the grandparent of the earlier
(`VotesRespectLocks`). From it follow `TypeCorrect`; `OneCertificatePerRoundHolds`, as two quorums have
a common voter, who voted once; `CommittedIsFinalHolds`, by the certified block of least round that
does not extend a three-chain: the common voter's lock, or the block's parent, would be a smaller
one; and `AgreementHolds`.

**The engine implements it** (`EngineV2Proofs`). `EngineRefinesChainedBFT` is `Spec =>
ImplementsChainedBFT`: each handler, as written, is a `ProcessQC`, a `ProposedBlock` or a stutter of the
protocol. It needs no intersection of quorums, only `ParametersAssumption` (the engine's
configuration is positive) and `RestartingAssumption`: the masternodes that restart are too
few to certify a block by themselves. The inductive invariant `EngineInv` ties what a
node holds to the messages that were broadcast: every header it has was accepted by `verifyHeader`
(its parent is stored and certified by votes that exist), its certificates are signed, the block of its highest
QC is stored and the lock is not above it, pooled votes and timeouts were sent, the timeout pool is
of the current round, the round is one above the higher of the two certificates, and the
committed block is the grandparent of a stored, certified three-chain. There is one lemma per handler
function (`ProcessQC`, `ProcessTC`, the pools, `sendVote`) and one per action.
`RoundFollowsCertificatesHolds`, `CertificatesAreSignedHolds`, `HighestQCIsKnownHolds`,
`TimeoutPoolIsCurrentHolds` and `CommitsAreCommittableHolds` follow from it. `StepsRefineChainedBFT` is the
refinement of the steps alone, from any state that satisfies `EngineInv`; `engine_leader_behind`, which starts in the
middle of an execution, checks this form.

**What it inherits** (`EngineV2Agreement`). With `QuorumsIntersect`, the engine's form of
`ThresholdAssumption` with `Restarting` as the faulty ones, the refinement instantiates the protocol's theorems:
`EngineAgreement` says that no two masternodes, restarting ones included, have committed blocks of different
branches; `NeverGoesBackHolds` that rounds, voted rounds, certificates and committed blocks of one
that does not restart only advance, along one branch. `commitBlocks` compares rounds and
heights only, so this rests on agreement. `OneVotePerRound` is what `two_votes` refutes for the others.
`GossipImplementsEngine` shows that `Gossip` implements `EngineV2`: that a message is marked known before it is handled,
and lost when the handler refuses it, only removes behaviours of a network that may deliver again or never. So
`GossipAgreement` has the two results above for masternodes that gossip. That the lost messages do not stop a round,
`RoundsEnd`, is liveness and left to TLC.

**The block store** (`ChainStoreProofs`), for any tree of blocks (`TreeAssumption`: numbers grow by
one and total difficulty does not fall), any number of threads and any bound on crashes. `StoreInv` says of the database that
blocks are stored after their parents and that the numbers up to the head are its ancestors; of memory
that the current block is an ancestor of the head; and of each thread, statement by statement, what its
next batch relies on, such as that the part of a new branch that `reorg` has not written yet is a path from the
head. Every batch keeps it, so a crash may fall between any two.

| theorem | environments it is about (besides `Apart`) |
|---|---|
| `CanonicalChainHolds` | all |
| `HeadHasStateHolds` | `KeepsStates`: archive nodes; others with importers only, nothing committed, and a longer chain not lighter |
| `CheckedCommittedStaysHolds` | `KeepsCommitted`: importers only, commits at any moment, no crash; and the head is never repaired (`HeadNotRepaired`) |
| `ArchiveKeepsChecked` | the same on an archive node, where no repair happens |

`Apart` excludes `SetHead`, and `InsertBlock` beside `InsertChain`. The conditions are those without which the
property fails: a refused or lighter branch that leads by `triesInMemory` prunes the head's state, a crash within
`reorg` leaves numbers above the head that a later `reorg` does not see, and a repair makes the current
block another one than the head.

**The fetcher** (`NodeProofs`), for any finite set of blocks. `QueueInv` adds to `QueueCountsExact`
that a counted block waits in the queue or is with an importer and never both; without it a second import
of a block could give its count back twice. `forgetHash` and `forgetBlock` are defined for sets of blocks,
in closed form, so that no fold has to be reasoned about.

**Masternode lists** (`MasternodesProofs`), for any number of nodes, rounds and blocks, and any epoch and
gap. `SnapshotInv` holds at every head write: below the next block to write the canonical chain is already
that of the target, below the head it is that of the head, and a canonical gap block has its snapshot or
is the head whose `UpdateM1` is due. `GapBlocksHaveSnapshotsHold` follows, with any number of crashes:
`repair` goes below the head, where nothing is due. `NoneRefusedHolds` and `CachedInfoRightHolds` need
`Depth < Gap`, and hold until a node crashes. `getSnapshot` looks a block up by number in whatever is
canonical, so `AgreeInv` has to relate the branches of all nodes. Proposals leave the chain of each node by
at most `Depth` blocks, also the chain it is reorganising to, and no block is higher than the highest of
these chains; so any two blocks share all but the last `Depth` blocks of the shorter branch. A canonical number
belongs to a block at most one lower than the target, also amid a reorganisation, and a node has no block above
its target. The gap block of a switch block is `Gap` blocks or more below it, hence in the part that all share.

**Reverts of the trading state** (`OrderBookProofs`), for any prices and sizes and journals of any length.
`RevertToSnapshot` undoes the journal from its end by calling setters, not by restoring a copy. What has to come back
(`RevertRestoresOrders`) is what a book *shows*: the orders with a quantity, the lists and volumes, the prices and the
counter. Emptied orders, which undoing an insertion leaves behind, do not count, and a price emptied since the snapshot
stays out of its trie. There is a lemma for each kind of entry (`UndoInsert`, `UndoCancel`, `UndoTrade`): undone in any
book that shows what the later book shows, it gives one that shows what the earlier book did. The undoing is a recursive
function on the journal, but no induction over it is needed: the inductive invariant `RevertInv` says that every
such undoing of the *present* journal ends in a book that shows the saved one, and each step that adds an entry
prepends one undoing to those of the journal before. It needs `BookInv`, which ties the copies of
a quantity to each other: a list has an amount for exactly the orders with a quantity, the same one, and its volume is
the sum of its amounts (counted as the cardinality of a set of units, so that no sum has to be reasoned about).

**The countdown's length** (end of `NodeProofs`), for any width of the count and any configurations, accepted or not.
`SetParams` and `GetTimeoutDuration` run beside each other, a field at a time. `AcceptedParamsHold` needs to know at every
point of `SetParams` which fields are still, or again, those of an accepted configuration (`SetterInv`), and that a reader
which no `SetParams` has overlapped so far has read from the present one (`ReaderInv`).

**Only model-checked.**

- Liveness and what rests on `ENABLED`: `RoundsEnd`, `ResetReturns`, `RoundsTimeOut`, `NewRoundSeenOrStuck`,
  `MasternodeMinesOrForgotten`, `StopEnds`.
- `SetHead` and `InsertBlock` beside `InsertChain` in the store, within the bounds of the `chain` run.
- Results of recursive definitions that no invariant over the steps replaces, which need induction over data:
  `SearchFinds`, everything of `Matching` and `Lending` (their loops are `RECURSIVE`, and conservation is about
  sums over accounts and orders), and the transaction pool, whose lists are worked through by folds.

## Not modelled

The models cover a small part of the repository, most of which is inherited from go-ethereum. Left
out, though parts of it could be modelled: the v1 engine and the dispatch between the engines
(`VerifyHeaders` hands one results channel to both), the reward and penalty hooks, the downloader,
the order and lending pools, the journal and price heaps of the transaction pool, fast sync, and
`CalculateMissingRounds`. Left out as sequential data processing or I/O: EVM, state tries, RLP, crypto,
p2p, RPC, accounts, command line, light client, contracts, clique and ethash. Forensics:
`ProcessForensics`, `ProcessVoteEquivocation` and `DetectEquivocationInVotePool` return at their first
statement; `SetCommittedQCs` runs, but outside tests only the code behind those returns reads what it
stores.

Within the modelled parts: signatures (a message carries its signer), gap numbers and changes of
the masternode list within the engine, `UpdateParams`, wall-clock time. `Masternodes` assumes proposals
on shallow forks (`Shallow`; the gap is 450 blocks in the code), and after a crash only its snapshots are checked.
`ChainStore`: numbers and total difficulties of the blocks are constants; imports on blocks whose
ancestors a `SetHead` deleted are left out; a `reorg` that misses a block of either branch ends with the error of the
code (`InvalidChain`).
`Matching`: one pair, constant decimals, relayers that do not resign, no 256-bit overflow.
`Lending`: one lent token; the quotes of the oracle, and the averages behind `GetMediumTradePriceBeforeEpoch` and
`GetBRCBasePrices`, are inputs of `GetCollateralPrices`; a block's time is its number.
