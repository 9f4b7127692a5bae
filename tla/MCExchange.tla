------------------------------ MODULE MCExchange ------------------------------
(***************************************************************************)
(* Trading, for TLC: order matching of two traders on two relayers in three *)
(* markets, and by itself the trading state under snapshots and reverts.    *)
(***************************************************************************)
EXTENDS Matching, OrderBook

CONSTANTS alice, bob, r1, r2, owner, brc, btc

VARIABLE running   \* which of the two runs

MCAccounts == {alice, bob, owner, MasternodeOwner}
MCRelayerOwner == [r \in Relayers |-> owner]
MCFeeRate == [r \in Relayers |-> IF r = r1 THEN 0 ELSE 4]
MCDeposits == [r \in Relayers |-> 13]

Funds(a, b0) ==
  [x \in MCAccounts |-> [t \in {btc, brc} |-> IF x = alice THEN a ELSE IF x = bob THEN b0 ELSE 0]]

\* BRC is the quote token; both traders use the relayer of the other one too.
NativeQuote ==
  [base |-> btc, quote |-> brc, baseDecimal |-> 1, quoteDecimal |-> 1, nativeDecimal |-> 1,
   baseCancelFee |-> 100, cancellationFork |-> TRUE, balances |-> Funds(9, 4),
   access |-> {<<alice, r1>>, <<bob, r1>>, <<bob, r2>>},
   maxNonce |-> 2, maxPerBlock |-> 4, maxBlocks |-> 2]

\* BRC is the base token: decimals differ, the price of the quote token is the inverse
\* of the last price, and the cancellation fee is that of before the fork.
NativeBase ==
  [NativeQuote EXCEPT
     !.base = brc, !.quote = btc, !.baseDecimal = 2, !.quoteDecimal = 6, !.nativeDecimal = 2,
     !.baseCancelFee = 10, !.cancellationFork = FALSE, !.balances = Funds(9, 5),
     !.access = {<<alice, r1>>, <<bob, r2>>}, !.maxPerBlock = 3]

\* One order in a block.
Sparse ==
  [NativeQuote EXCEPT
     !.access = {<<alice, r1>>, <<bob, r2>>}, !.maxNonce = 3, !.maxPerBlock = 1, !.maxBlocks = 4]

MCMarkets == {NativeQuote, NativeBase, Sparse}

MCInit ==
  /\ running \in {"matching", "book"}
  /\ Init /\ BookInit
  /\ running = "book" => market = Sparse

MCNext ==
  \/ running = "matching" /\ Next /\ UNCHANGED <<running, bookVars>>
  \/ running = "book" /\ BookNext /\ UNCHANGED <<running, vars>>

MCSpec == MCInit /\ [][MCNext]_<<vars, running, bookVars>>

=============================================================================
