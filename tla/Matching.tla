------------------------------- MODULE Matching -------------------------------
(***************************************************************************)
(* Order matching on one pair (BRCx/order_processor.go, with               *)
(* tradingstate/settle_balance.go and relayer_state.go): orders are        *)
(* applied one after the other on the trading state (module TradingState)  *)
(* and on the token balances and relayer deposits of the chain state.  One *)
(* step is the whole of ApplyOrder; a block is a few orders and a commit,  *)
(* or an epoch switch block, which takes no orders.                        *)
(*                                                                         *)
(* Amounts are small integers and the rates and fees of common/constants.go *)
(* are constants, so that every division rounds as it does in the code.    *)
(***************************************************************************)
EXTENDS TradingState, SequencesExt

CONSTANTS
  Users, Relayers, Accounts,   \* Accounts holds users, relayer owners, masternode owner
  RelayerOwner,                \* GetRelayerOwner
  FeeRate,                     \* GetExRelayerFee
  MasternodeOwner,             \* the owner of the block's coinbase
  Native,                      \* BRC
  OtherLast,                   \* last price of the QUOTE/BRC book, 0 for none
  BaseFee, DefaultFeeRate, RelayerFee, RelayerCancelFee, LockedFund,
  Deposits,                    \* of the first block
  Quantities,
  Markets                      \* the pairs, with what their traders have and send

ASSUME MatchingAssumption ==
  /\ Users \subseteq Accounts /\ MasternodeOwner \in Accounts
  /\ RelayerOwner \in [Relayers -> Accounts] /\ FeeRate \in [Relayers -> Nat]
  /\ BaseFee > 0
  /\ Quantities \subseteq Nat \ {0}
  /\ \A m \in Markets :
       m.base # m.quote /\ m.baseDecimal > 0 /\ m.quoteDecimal > 0
       /\ m.access \subseteq Users \X Relayers

VARIABLES
  market,   \* the pair
  b,        \* the trading state
  bal,      \* account -> token -> balance, in the chain state
  dep,      \* relayer -> deposit, in the registration contract
  nonce,    \* user -> nonce, in the trading state
  inBlock,  \* orders of this block
  blocks,   \* blocks so far
  out       \* what the latest order did

vars == <<market, b, bal, dep, nonce, inBlock, blocks, out>>

Base == market.base
Quote == market.quote
BaseDecimal == market.baseDecimal        \* GetTokenDecimal, external
QuoteDecimal == market.quoteDecimal
NativeDecimal == market.nativeDecimal    \* BasePrice
BaseCancelFee == market.baseCancelFee
CancellationFork == market.cancellationFork   \* IsTIPBRCXCancellationFee
Access == market.access                  \* the <<user, relayer>> pairs that send orders
Balances == market.balances              \* of the first block

Tokens == {Base, Quote, Native}
NoOutcome == [order |-> "none", trades |-> {}, rejected |-> {}, err |-> FALSE]

Orders ==
  [who : Access, side : Sides, type : {"limit"}, price : Prices, qty : Quantities]
    \cup [who : Access, side : Sides, type : {"market"}, price : {0}, qty : Quantities]

AsItem(o, qty) ==
  [side |-> o.side, price |-> o.price, qty |-> qty, user |-> o.who[1],
   relayer |-> o.who[2], hash |-> "hash"]

-----------------------------------------------------------------------------
(* Quantities and fees.                                                    *)

QuoteQuantity(qty, price) == (qty * price) \div BaseDecimal
Fee(quoteQty, rate) == (quoteQty * rate) \div BaseFee

(* How much base token a balance of quote token buys, fee included.        *)
AffordableNoFee(balance, rate, price) ==
  (balance * BaseDecimal) \div price

Affordable(balance, rate, price) ==
  ((balance * BaseDecimal * BaseFee) \div (BaseFee + rate)) \div price

(* GetTradeQuantity: the quantity both sides can pay for, and whether it   *)
(* is the maker who cannot pay for the whole.                              *)
GetTradeQuantity(takerSide, takerRate, takerBal, price, makerRate, makerBal, qty) ==
  LET quoteQty == QuoteQuantity(qty, price)
      payerRate == IF takerSide = "bid" THEN takerRate ELSE makerRate
      quoteOut == quoteQty + Fee(quoteQty, payerRate)
      takerOut == IF takerSide = "bid" THEN quoteOut ELSE qty
      makerOut == IF takerSide = "bid" THEN qty ELSE quoteOut
      taker == IF takerSide = "bid" THEN Affordable(takerBal, takerRate, price) ELSE takerBal
      maker == IF takerSide = "bid" THEN makerBal ELSE Affordable(makerBal, makerRate, price)
      makerFirst == IF takerSide = "bid" THEN maker < taker ELSE maker <= taker
  IN CASE takerBal >= takerOut /\ makerBal >= makerOut -> [qty |-> qty, rejectMaker |-> FALSE]
       [] takerBal < takerOut /\ makerBal >= makerOut -> [qty |-> taker, rejectMaker |-> FALSE]
       [] takerBal >= takerOut /\ makerBal < makerOut -> [qty |-> maker, rejectMaker |-> TRUE]
       [] OTHER -> [qty |-> IF makerFirst THEN maker ELSE taker, rejectMaker |-> makerFirst]

(* The last price of the quote token in BRC, 0 for none.                   *)
QuotePrice(book) ==
  CASE Quote = Native -> NativeDecimal
    [] Quote # Native /\ OtherLast > 0 -> OtherLast
    [] Quote # Native /\ OtherLast = 0 /\ Base = Native /\ book.last > 0 ->
         (NativeDecimal * QuoteDecimal) \div book.last
    [] OTHER -> 0

(* GetSettleBalance refuses a trade whose fees do not exceed the relayer   *)
(* fee, or eat up what one side receives.                                  *)
TooSmall(quotePrice, takerSide, takerFee, makerFee, quoteQty) ==
  LET default == Fee(quoteQty, DefaultFeeRate)
      checked == Quote = Native \/ quotePrice > 0
      InBRC(fee) == IF Quote = Native THEN fee ELSE (fee * quotePrice) \div QuoteDecimal
      receiverFee == IF takerSide = "bid" THEN makerFee ELSE takerFee
  IN \/ quoteQty <= receiverFee
     \/ quoteQty <= default
     \/ checked /\ InBRC(default) <= RelayerFee
     \/ checked /\ \E fee \in {takerFee, makerFee} : InBRC(fee) > 0 /\ InBRC(fee) <= RelayerFee

(* DoSettleBalance checks the six movements one on top of the other and    *)
(* only then writes the balances it computed.                              *)
Movements(o, m, qty, quoteQty, takerFee, makerFee) ==
  LET taker == o.who[1]
      buyer == IF o.side = "bid" THEN taker ELSE m.user
      seller == IF o.side = "bid" THEN m.user ELSE taker
      buyerFee == IF o.side = "bid" THEN takerFee ELSE makerFee
      sellerFee == IF o.side = "bid" THEN makerFee ELSE takerFee
      BuyerIn == [who |-> buyer, token |-> Base, delta |-> qty]
      BuyerOut == [who |-> buyer, token |-> Quote, delta |-> 0 - (quoteQty + buyerFee)]
      SellerIn == [who |-> seller, token |-> Quote, delta |-> quoteQty - sellerFee]
      SellerOut == [who |-> seller, token |-> Base, delta |-> 0 - qty]
      fees == <<[who |-> RelayerOwner[o.who[2]], token |-> Quote, delta |-> takerFee],
                [who |-> RelayerOwner[m.relayer], token |-> Quote, delta |-> makerFee]>>
  IN (IF o.side = "bid" THEN <<BuyerIn, BuyerOut, SellerIn, SellerOut>>
                        ELSE <<SellerIn, SellerOut, BuyerIn, BuyerOut>>) \o fees

Move(acc, mv) ==
  LET now == acc.bal[mv.who][mv.token] + mv.delta
  IN IF acc.fails \/ now < 0 THEN [acc EXCEPT !.fails = TRUE]
     ELSE [acc EXCEPT !.bal[mv.who][mv.token] = now, !.set = @ \cup {<<mv.who, mv.token>>}]

(* The deposits once both relayers paid the matching fee.  "If maker and   *)
(* Taker are on same relayer, that relayer is charged fee twice".          *)
ChargeOnce(deposits, taker, maker) ==
  [r \in Relayers |-> IF r \in {taker, maker} THEN deposits[r] - RelayerFee ELSE deposits[r]]

Charge(deposits, taker, maker) ==
  [r \in Relayers |-> deposits[r] - (IF r = taker THEN RelayerFee ELSE 0)
                                  - (IF r = maker THEN RelayerFee ELSE 0)]

DoSettleBalance(st, o, m, qty, quoteQty, takerFee, makerFee) ==
  LET moved == FoldLeft(Move, [bal |-> st.bal, set |-> {}, fails |-> FALSE],
                        Movements(o, m, qty, quoteQty, takerFee, makerFee))
      charged == Charge(st.dep, o.who[2], m.relayer)
      paid == [st.bal EXCEPT ![MasternodeOwner][Native] = @ + 2 * RelayerFee]
  IN IF moved.fails \/ \E r \in Relayers : charged[r] < 0
     THEN [st EXCEPT !.err = TRUE]
     ELSE [st EXCEPT !.dep = charged,
                     !.bal = [a \in Accounts |-> [t \in Tokens |->
                                IF <<a, t>> \in moved.set THEN moved.bal[a][t]
                                                          ELSE paid[a][t]]]]

-----------------------------------------------------------------------------
(* Matching.  st is [b, bal, dep, left, trades, rejected, err]: the state, *)
(* the quantity of the order still to trade, the trades made, who was      *)
(* rejected (an OrderID, 0 for the order itself), and whether matching     *)
(* ended in an error.                                                      *)

(* CheckRelayerFee: paying leaves the locked fund untouched.               *)
CheckRelayerFee(deposit, fee) == deposit - fee >= LockedFund

RelayerShort(st, o, m) ==
  IF o.who[2] = m.relayer
  THEN [taker |-> ~CheckRelayerFee(st.dep[m.relayer], 2 * RelayerFee), maker |-> FALSE]
  ELSE [taker |-> ~CheckRelayerFee(st.dep[o.who[2]], RelayerFee),
        maker |-> ~CheckRelayerFee(st.dep[m.relayer], RelayerFee)]

(* getTradeQuantity: the quantity to trade, whose order is to be rejected, *)
(* and the state with that trade settled.                                  *)
Settle(st, o, m, most) ==
  LET short == RelayerShort(st, o, m)
      takerRate == FeeRate[o.who[2]]
      makerRate == FeeRate[m.relayer]
      takerPays == IF o.side = "bid" THEN Quote ELSE Base
      makerPays == IF o.side = "bid" THEN Base ELSE Quote
      trade == GetTradeQuantity(o.side, takerRate, st.bal[o.who[1]][takerPays], m.price,
                                makerRate, st.bal[m.user][makerPays], most)
      quoteQty == QuoteQuantity(trade.qty, m.price)
      takerFee == Fee(quoteQty, takerRate)
      makerFee == Fee(quoteQty, makerRate)
  IN CASE short.taker -> [qty |-> 0, rejectMaker |-> FALSE, small |-> FALSE, st |-> st]
       [] ~short.taker /\ short.maker ->
            [qty |-> 0, rejectMaker |-> TRUE, small |-> FALSE, st |-> st]
       [] OTHER ->
            LET small == trade.qty > 0
                         /\ TooSmall(QuotePrice(st.b), o.side, takerFee, makerFee, quoteQty)
            IN [qty |-> trade.qty, rejectMaker |-> trade.rejectMaker, small |-> small,
                st |-> IF trade.qty = 0 \/ small THEN st
                       ELSE DoSettleBalance(st, o, m, trade.qty, quoteQty, takerFee, makerFee)]

RejectTaker(st) == [st EXCEPT !.left = 0, !.rejected = @ \cup {0}]
RejectMaker(st, id) ==
  [st EXCEPT !.b = CancelOrder(@, id, @.items[id]), !.rejected = @ \cup {id},
             !.err = @ \/ CancelFails(st.b, id, st.b.items[id])]

(* The average price of the epoch after a trade.                           *)
AveragePrice(book, price, qty) ==
  IF book.medium = 0 \/ book.total = 0 THEN price
  ELSE (book.medium * book.total + price * qty) \div (book.total + qty)

Record(st, id, side, price, qty) ==
  LET sold == SetLastPrice(SubAmountOrderItem(st.b, id, price, qty, side), price)
      total == IF sold.medium = 0 \/ sold.total = 0 THEN qty ELSE sold.total + qty
  IN [st EXCEPT !.b = SetMediumPrice(sold, AveragePrice(sold, price, qty), total),
                !.left = @ - qty,
                !.trades = @ \cup {[id |-> id, price |-> price, qty |-> qty]}]

(* One turn of processOrderList, with the first order of the list.         *)
MatchOne(st, o, side, price, id) ==
  LET amount == Amount(st.b, <<side, price>>, id)
      most == Min({st.left, amount})
      s == Settle(st, o, st.b.items[id], most)
      dropTaker == IF s.qty = most THEN st.left <= amount ELSE ~s.rejectMaker
      dropMaker == IF s.qty = most THEN st.left >= amount ELSE s.rejectMaker
      traded == IF s.qty > 0 THEN Record(s.st, id, side, price, s.qty) ELSE s.st
  IN CASE s.small ->
            LET x == IF dropMaker THEN RejectMaker(st, id) ELSE st
            IN IF dropTaker THEN RejectTaker(x) ELSE x
       [] ~s.small /\ s.st.err -> s.st
       [] ~s.small /\ ~s.st.err /\ s.qty = 0 /\ ~s.rejectMaker -> RejectTaker(st)
       [] OTHER -> IF s.rejectMaker THEN RejectMaker(traded, id) ELSE traded

RECURSIVE ProcessOrderList(_, _, _, _)
ProcessOrderList(st, o, side, price) ==
  LET id == GetBestOrderId(st.b, side, price)
  IN IF st.left = 0 \/ st.err \/ id = 0 THEN st
     ELSE ProcessOrderList(MatchOne(st, o, side, price, id), o, side, price)

Crosses(o, best) ==
  o.type = "limit" => IF o.side = "bid" THEN o.price >= best ELSE o.price <= best

(* The loop of processMarketOrder and of processLimitOrder.                *)
RECURSIVE MatchAll(_, _)
MatchAll(st, o) ==
  LET best == GetBestPrice(st.b, Opposite(o.side))
  IN IF st.left = 0 \/ st.err \/ best = 0 \/ ~Crosses(o, best) THEN st
     ELSE MatchAll(ProcessOrderList(st, o, Opposite(o.side), best), o)

Rest(st, o) ==
  IF o.type = "market" \/ st.left = 0 \/ st.err THEN st
  ELSE [st EXCEPT !.b = InsertOrderItem(SetNonce(@, @.nonce + 1), @.nonce + 1,
                                        AsItem(o, st.left))]

-----------------------------------------------------------------------------
(* Cancelling.                                                             *)

(* GetAveragePriceLastEpoch of a token in BRC, read off this pair's book;  *)
(* 0 for none.                                                             *)
LastEpochPrice(book, token) ==
  CASE token = Base /\ Quote = Native -> book.before
    [] token = Quote /\ Base = Native /\ book.before > 0 ->
         (QuoteDecimal * NativeDecimal) \div book.before
    [] OTHER -> 0

TokenDecimal(token) == IF token = Base THEN BaseDecimal ELSE QuoteDecimal

ConvertBRCToToken(book, token, qty) ==
  CASE token = Native -> qty
    [] token # Native /\ LastEpochPrice(book, token) > 0 ->
         (qty * TokenDecimal(token)) \div LastEpochPrice(book, token)
    [] OTHER -> 0

CancelFee(book, item) ==
  LET rate == FeeRate[item.relayer]
      token == IF item.side = "ask" THEN Base ELSE Quote
      traded == IF item.side = "ask" THEN item.qty ELSE QuoteQuantity(item.qty, item.price)
  IN IF ~CancellationFork THEN (traded * rate) \div BaseCancelFee
     ELSE IF rate = 0 THEN 0 ELSE ConvertBRCToToken(book, token, RelayerCancelFee)

PayCancel(st, item, fee) ==
  LET token == IF item.side = "ask" THEN Base ELSE Quote
  IN [st EXCEPT !.dep[item.relayer] = @ - RelayerCancelFee,
                !.bal[MasternodeOwner][Native] = @ + RelayerCancelFee,
                !.bal[item.user][token] = @ - fee,
                !.bal[RelayerOwner[item.relayer]][token] = @ + fee]

(* ProcessCancelOrder.  The request names an OrderID, and the user, the    *)
(* relayer and the hash that CancelOrder compares.                         *)
ProcessCancelOrder(st, req) ==
  IF \/ ~CheckRelayerFee(st.dep[req.relayer], RelayerCancelFee)
     \/ CancelFails(st.b, req.id, req)
  THEN RejectTaker(st)
  ELSE LET item == st.b.items[req.id]
           fee == CancelFee(st.b, item)
           token == IF item.side = "ask" THEN Base ELSE Quote
       IN IF st.bal[item.user][token] < fee THEN RejectTaker(st)
          ELSE PayCancel([st EXCEPT !.b = CancelOrder(@, req.id, req)], item, fee)

-----------------------------------------------------------------------------
Start(left) ==
  [b |-> b, bal |-> bal, dep |-> dep, left |-> left,
   trades |-> {}, rejected |-> {}, err |-> FALSE]

(* The deferred function of ApplyOrder: on an error of matching both       *)
(* states go back to their snapshots, and the order is rejected.           *)
Finish(st, o) ==
  LET kept == IF st.err THEN [st EXCEPT !.b = RevertToSnapshot(@, 0), !.bal = bal, !.dep = dep]
              ELSE st
  IN /\ b' = [kept.b EXCEPT !.journal = <<>>]
     /\ bal' = kept.bal
     /\ dep' = kept.dep
     /\ out' = [order |-> o, trades |-> st.trades, rejected |-> st.rejected, err |-> st.err]

(* The nonce check: an order with another nonce than the user's is refused *)
(* and changes nothing.                                                    *)
TakeNonce(user) ==
  /\ blocks < market.maxBlocks /\ inBlock < market.maxPerBlock
  /\ nonce[user] < market.maxNonce
  /\ nonce' = [nonce EXCEPT ![user] = @ + 1]
  /\ inBlock' = inBlock + 1
  /\ UNCHANGED <<market, blocks>>

(* VerifyOrder, of what depends on the state: the relayer has more than    *)
(* the locked fund.                                                        *)
VerifyOrder(relayer) == dep[relayer] > LockedFund

(* ApplyOrder on a new order.                                              *)
ApplyOrder(o) ==
  /\ TakeNonce(o.who[1])
  /\ IF VerifyOrder(o.who[2]) THEN Finish(Rest(MatchAll(Start(o.qty), o), o), o)
     ELSE Finish(RejectTaker(Start(o.qty)), o)

(* ApplyOrder on a cancellation.                                           *)
ApplyCancel(who, id, hash) ==
  LET req == [user |-> who[1], relayer |-> who[2], id |-> id, hash |-> hash]
  IN /\ TakeNonce(who[1])
     /\ IF VerifyOrder(who[2]) THEN Finish(ProcessCancelOrder(Start(0), req), "cancel")
        ELSE Finish(RejectTaker(Start(0)), "cancel")

EndBlock ==
  /\ inBlock > 0
  /\ b' = Commit(b)
  /\ inBlock' = 0
  /\ blocks' = blocks + 1
  /\ out' = NoOutcome
  /\ UNCHANGED <<market, bal, dep, nonce>>

(* An epoch switch block: UpdateMediumPriceBeforeEpoch and no orders.      *)
EpochBlock ==
  LET before == IF b.medium > 0 THEN b.medium ELSE b.before
  IN /\ inBlock = 0 /\ blocks < market.maxBlocks
     /\ b' = Commit([b EXCEPT !.before = before, !.medium = 0, !.total = 0])
     /\ blocks' = blocks + 1
     /\ UNCHANGED <<market, bal, dep, nonce, inBlock, out>>

Init ==
  /\ market \in Markets
  /\ b = EmptyBook /\ bal = Balances /\ dep = Deposits
  /\ nonce = [u \in Users |-> 0]
  /\ inBlock = 0 /\ blocks = 0 /\ out = NoOutcome

Next ==
  \/ \E o \in Orders : ApplyOrder(o)
  \/ \E who \in Access, id \in DOMAIN b.items, hash \in {"hash", "other"} :
       ApplyCancel(who, id, hash)
  \/ EndBlock
  \/ EpochBlock

Spec == Init /\ [][Next]_vars

-----------------------------------------------------------------------------
Total(t) == MapThenSumSet(LAMBDA a : bal[a][t], Accounts)
              + (IF t = Native THEN MapThenSumSet(LAMBDA r : dep[r], Relayers) ELSE 0)
TotalAtStart(t) == MapThenSumSet(LAMBDA a : Balances[a][t], Accounts)
              + (IF t = Native THEN MapThenSumSet(LAMBDA r : Deposits[r], Relayers) ELSE 0)

(* Matching and cancelling move tokens and create or destroy none, fees,   *)
(* rounding and relayer deposits included (DoSettleBalance and             *)
(* ProcessCancelOrder).  "masternodes charges fee of both 2 relayers".     *)
(* Needs a masternode owner who does not trade: DoSettleBalance would      *)
(* overwrite the fee of an owner whose balance it has computed before.     *)
TokensConserved == \A t \in Tokens : Total(t) = TotalAtStart(t)

(* The quantity GetTradeQuantity computes can be settled: DoSettleBalance  *)
(* never finds a balance or a deposit short, so an order is never undone   *)
(* half way.                                                               *)
SettlementNeverFails == ~out.err

RestingIds(side) == {i \in DOMAIN b.items : b.items[i].qty > 0 /\ b.items[i].side = side}

(* Trades are made at the best price, and at one price in the order of     *)
(* arrival: nobody who offered better, or the same earlier, is left        *)
(* waiting on the side an order traded with, if blocks hold one order.     *)
PriceTimePriority ==
  market.maxPerBlock = 1 => \A t \in out.trades : \A i \in RestingIds(Opposite(out.order.side)) :
    LET better == IF out.order.side = "bid" THEN b.items[i].price < t.price
                                            ELSE b.items[i].price > t.price
    IN ~better /\ (b.items[i].price = t.price => i >= t.id)
=============================================================================
