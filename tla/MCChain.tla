-------------------------------- MODULE MCChain --------------------------------
(***************************************************************************)
(* The chain and the transactions of a node, for TLC: the block store, on a  *)
(* small tree and in four environments, the block fetcher that calls it, and *)
(* the transaction pool that follows its head, in five surroundings.  The    *)
(* three share no variable: the initial state says which of them runs.       *)
(***************************************************************************)
EXTENDS ChainStore, Fetcher, TLC

CONSTANTS i1, f1, a1, a2, a0

VARIABLES
  running,   \* "store", "fetcher" or "pool"
  surroundings, pool, poolChain, headCh, poolHead, asked, nextRun, activeRun

\* For the fetcher: two blocks above the root, the second without a body.
TwoBlocks == a1 :> a0 @@ a2 :> a1

\* Two branches above the genesis block, one of which is longer.
ForkBlocks == {"g", "a1", "a2", "a3", "b1", "b2", "b3", "b4"}
ForkParent ==
  [b \in ForkBlocks \ {"g"} |->
     CASE b \in {"a1", "b1"} -> "g"
       [] b = "a2" -> "a1" [] b = "a3" -> "a2"
       [] b = "b2" -> "b1" [] b = "b3" -> "b2" [] b = "b4" -> "b3"]

ForkNumber ==
  [b \in ForkBlocks |->
     CASE b = "g" -> 0 [] b \in {"a1", "b1"} -> 1 [] b \in {"a2", "b2"} -> 2
       [] b \in {"a3", "b3"} -> 3 [] b = "b4" -> 4]

\* The difficulty of every v2 block is one.
ForkTd == [b \in ForkBlocks |-> ForkNumber[b] + 1]

Crashing ==
  [threads |-> {i1}, final |-> {}, triesInMemory |-> 1, archive |-> FALSE, crashes |-> 2, rewinds |-> 0]
Rewinding == [Crashing EXCEPT !.crashes = 0, !.rewinds = 1, !.triesInMemory = 2]
Committing == [Crashing EXCEPT !.crashes = 0, !.final = {"a1"}, !.triesInMemory = 2]
FastSyncing == [Crashing EXCEPT !.crashes = 1, !.threads = {f1}, !.archive = TRUE]

MCEnvironments == {Crashing, Rewinding, Committing, FastSyncing}

-----------------------------------------------------------------------------
(* The surroundings of the transaction pool *)

Tx(a, nonces, prices) == [from : {a}, nonce : nonces, price : prices, special : {FALSE}]
Special(a, nonces) == [from : {a}, nonce : nonces, price : {1}, special : {TRUE}]

Mined(h, a) == Cardinality({i \in DOMAIN h : \E t \in h[i].txs : t.from = a})

\* The chains are all valid ones of the given length, with at most one transaction in a
\* block and the given balances after it.
Extensions(h, txs, balances) ==
  {Append(h, [txs |-> S, balance |-> b]) :
      S \in {{}} \union {{t} : t \in {u \in txs : u.nonce = Mined(h, u.from)}},
      b \in balances}

ChainsOf(txs, balances, length) ==
  LET chains[n \in 0..length] ==
        IF n = 0 THEN {<<>>}
        ELSE chains[n - 1] \union UNION {Extensions(h, txs, balances) : h \in chains[n - 1]}
  IN  chains[length]

Surroundings(txs, heads) ==
  [txs |-> txs, heads |-> heads, losses |-> FALSE, prices |-> {1}, callers |-> {FALSE},
   quiet |-> {}, globalSlots |-> 4, globalQueue |-> 4, accountSlots |-> 2, accountQueue |-> 2]

\* The chain grows and reorganises.
Growing ==
  [Surroundings(Tx("a", 0..2, {1}), ChainsOf(Tx("a", 0..2, {1}), {2}, 2)) EXCEPT !.quiet = {"a"}]

\* Balances fall and rise, blocks and states are missing and the chain is set back.
Losing ==
  [Surroundings(Tx("a", 0..2, {1}) \union Tx("a", {1}, {2}), ChainsOf(Tx("a", {0}, {1}), {1}, 1))
     EXCEPT !.losses = TRUE]

\* Two accounts, local or not, overfill the pool.
Crowded ==
  [Surroundings(Tx("a", 0..2, {1}) \union Tx("b", 0..2, {1}), {}) EXCEPT
     !.callers = BOOLEAN, !.quiet = {"a", "b"}, !.globalSlots = 3, !.globalQueue = 2,
     !.accountSlots = 1, !.accountQueue = 1]

\* The same when the price of the pool is raised.
Repriced ==
  [Surroundings(Tx("a", 0..1, {1, 2}) \union Tx("b", {0}, {1}), {}) EXCEPT
     !.callers = BOOLEAN, !.quiet = {"a"}, !.prices = {1, 2}, !.globalSlots = 2,
     !.globalQueue = 1, !.accountSlots = 1, !.accountQueue = 1]

\* A signer sends special transactions, of nonces that none of its others has.
Signing ==
  Surroundings(Special("s", {0, 2}) \union Tx("s", {1}, {1, 2}),
               ChainsOf(Special("s", {0}) \union Tx("s", {1}, {1}), {2}, 2))

PoolAccounts == {"a", "b", "s"}
PoolSigners == {"s"}

Pool ==
  INSTANCE TxPool WITH
    Accounts <- PoolAccounts, Signers <- PoolSigners, Genesis <- 2, PriceBump <- 10, NonceAhead <- 1,
    ReorgLimit <- 1, MaxWaiting <- 1, Environments <- {Growing, Losing, Crowded, Repriced, Signing},
    env <- surroundings, p <- pool, chain <- poolChain, head <- poolHead, next <- nextRun,
    running <- activeRun

poolVars == << surroundings, pool, poolChain, headCh, poolHead, asked, nextRun, activeRun >>

-----------------------------------------------------------------------------
MCInit ==
  /\ running \in {"store", "fetcher", "pool"}
  /\ Init /\ FetcherInit /\ Pool!Init
  /\ running # "store" => env = Crashing
  /\ running # "pool" => surroundings = Crowded

MCNext ==
  \/ running = "store" /\ Next /\ UNCHANGED << running, fetcherVars, poolVars >>
  \/ running = "fetcher" /\ FetcherNext /\ UNCHANGED << running, vars, poolVars >>
  \/ running = "pool" /\ Pool!Next /\ UNCHANGED << running, vars, fetcherVars >>

MCSpec == MCInit /\ [][MCNext]_<< running, vars, fetcherVars, poolVars >>

\* What the component that runs may change: TLC tells states apart by it.
RunningVars ==
  CASE running = "store" -> << "store", vars >>
    [] running = "fetcher" -> << "fetcher", fetcherVars >>
    [] running = "pool" -> << "pool", poolVars >>

-----------------------------------------------------------------------------
\* The lookup set and the lists of the pool hold the same transactions.
LookupMatchesLists == running = "pool" => Pool!LookupMatchesLists

\* What is pending can be executed from the nonce of the state on, without a gap.
PendingIsExecutable == running = "pool" => Pool!PendingIsExecutable

\* Once a run is over the pool is back in its limits.
RunRestoresLimits == Pool!RunRestoresLimits

\* What a reorganisation took out of the chain is in the pool again.
DiscardedReturn == Pool!DiscardedReturn
=============================================================================
