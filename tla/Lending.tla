------------------------------- MODULE Lending -------------------------------
(***************************************************************************)
(* Lending (BRCxlending/order_processor.go, BRCxlending.go, with           *)
(* lendingstate/settle_balance.go): borrowers and investors send orders    *)
(* that match into loans, a loan locks collateral, and is topped up,       *)
(* repaid or liquidated.  One step is the whole of ApplyOrder, or a block's *)
(* end; in one block of an epoch the end is ProcessLiquidationData, which  *)
(* closes the loans whose time is over, tops up or liquidates those whose  *)
(* collateral lost its value, and gives back collateral that gained.       *)
(*                                                                         *)
(* Loans are in one token, Lend, against several collaterals; the time of  *)
(* a block is its number.  Orders with a wrong nonce change nothing and    *)
(* are left out.                                                           *)
(***************************************************************************)
EXTENDS LendingState, SequencesExt

CONSTANTS
  Accounts,                    \* users, relayer owners, masternode owner, Lock
  Lock,                        \* LendingLockAddress
  Relayers, RelayerOwner,      \* GetRelayerOwner
  FeeRate,                     \* GetFee
  MasternodeOwner,
  Lend, Native,                \* the token lent; BRC
  LendPrice, LendDecimal,      \* price in BRC and unit of the token lent
  CollDecimal,                 \* unit of the collaterals
  DepositRate, LiquidationRate, RecallRate,   \* GetCollateralDetail, in percent
  BaseFee, BaseCancelFee, DefaultFeeRate, RelayerLendingFee, RelayerLendingCancelFee,
  TokenCancelFee,              \* the cancellation fee in each token, ConvertBRCToToken
  InterestBase, OneYear,       \* 100 * BaseLendingInterest
  RateTopUp, BaseTopUp, BaseRecall,
  LockedFund,
  CancellationFork, LendingFork,   \* IsTIPBRCXCancellationFee, IsTIPBRCXLending
  Balances, Deposits,          \* of the first block
  Orders, TopUps,              \* orders that may be sent; amounts of a top up
  FirstQuotes, Quotes,         \* direct quotes of the first block; pair -> prices quoted
  Averages,                    \* collateral -> average prices an epoch may end with
  Epoch, LiquidationBlock,     \* blocks of an epoch, and the one that liquidates
  MaxNonce, MaxPerBlock, MaxBlocks

(* addCollateral of the registration contract requires the order of the    *)
(* rates.                                                                  *)
ASSUME LendingAssumption ==
  /\ 100 < LiquidationRate /\ LiquidationRate < DepositRate /\ DepositRate < RecallRate
  /\ RelayerOwner \in [Relayers -> Accounts] /\ FeeRate \in [Relayers -> Nat]
  /\ {Lock, MasternodeOwner} \subseteq Accounts
  /\ Lend \notin Collaterals
  /\ LiquidationBlock \in 1 .. Epoch - 1
  /\ \A i \in Quotes["inverse"] : 0 < i /\ 2 * i <= LendDecimal * CollDecimal
  /\ \A p \in Quotes["direct"] : p >= 2

VARIABLES
  lend,     \* the lending and liquidation price state, as in LendingState
  bal,      \* account -> token -> balance
  dep,      \* relayer -> deposit
  quote,    \* collateral -> pair -> price in the contract and epoch of its block
  medium,   \* collateral -> average prices, in Lend and in BRC, before this epoch
  since,    \* blocks since the epoch switch, 0 in the switch block itself
  nonce,    \* user -> nonce
  number,   \* number, and time, of the current block
  inBlock,  \* orders in it
  out       \* what the latest step did

vars == <<lend, bal, dep, quote, medium, since, nonce, number, inBlock, out>>

Users == {o.user : o \in Orders}
Tokens == {Lend, Native} \cup Collaterals
Borrowing == "bid"
Investing == "ask"

-----------------------------------------------------------------------------
(* GetCollateralPrices: the price of a collateral in Lend, 0 for none.  A  *)
(* quote of the contract, direct or inverse, counts in the epoch of its    *)
(* block; then the average of the pair, then those of both tokens in BRC.  *)
(* Epochs are counted in block numbers here.                               *)
GetCollateralPrices(c) ==
  LET ThisEpoch(pair) == quote[c][pair].epoch = number \div Epoch
  IN CASE ThisEpoch("direct") -> quote[c]["direct"].price
       [] ~ThisEpoch("direct") /\ ThisEpoch("inverse") ->
            (LendDecimal * CollDecimal) \div quote[c]["inverse"].price
       [] OTHER -> IF medium[c].pair > 0 THEN medium[c].pair
                   ELSE (medium[c].brc * LendDecimal) \div LendPrice

(* UpdateMediumPriceBeforeEpoch: "if there is no trade in this epoch, use  *)
(* average price of last epoch".                                           *)
UpdateMediumPriceBeforeEpoch(average) ==
  [c \in Collaterals |-> [x \in {"pair", "brc"} |->
     IF average[c][x] > 0 THEN average[c][x] ELSE medium[c][x]]]

(* The contract after a transaction of its oracle, if the block has one.   *)
QuotesAfter ==
  {quote} \cup
    UNION {{[quote EXCEPT ![c][pair] = [price |-> p, epoch |-> number \div Epoch]] :
              c \in Collaterals, p \in Quotes[pair]} : pair \in {"direct", "inverse"}}

-----------------------------------------------------------------------------
(* Quantities, fees and settlement.                                        *)

CollateralFor(qty, p) == ((qty * CollDecimal * DepositRate) \div 100) \div p

LendableOn(balance, p) == ((balance * p * 100) \div DepositRate) \div CollDecimal

(* GetLendQuantity: the quantity both sides can pay for, and whether it is *)
(* the maker who cannot pay for the whole.                                 *)
GetLendQuantity(takerSide, p, takerBal, makerBal, qty) ==
  LET borrows == takerSide = Borrowing
      takerOut == IF borrows THEN CollateralFor(qty, p) ELSE qty
      makerOut == IF borrows THEN qty ELSE CollateralFor(qty, p)
      taker == IF borrows THEN LendableOn(takerBal, p) ELSE takerBal
      maker == IF borrows THEN makerBal ELSE LendableOn(makerBal, p)
      makerFirst == IF borrows THEN maker < taker ELSE maker <= taker
  IN CASE takerBal >= takerOut /\ makerBal >= makerOut -> [qty |-> qty, rejectMaker |-> FALSE]
       [] takerBal < takerOut /\ makerBal >= makerOut -> [qty |-> taker, rejectMaker |-> FALSE]
       [] takerBal >= takerOut /\ makerBal < makerOut -> [qty |-> maker, rejectMaker |-> TRUE]
       [] OTHER -> [qty |-> IF makerFirst THEN maker ELSE taker, rejectMaker |-> makerFirst]

Fee(qty, rate) == (qty * rate) \div BaseFee

(* GetSettleBalance refuses a loan whose fee does not exceed the relayer   *)
(* fee, or eats up what the borrower receives.                             *)
TooSmall(qty, fee) ==
  LET default == Fee(qty, DefaultFeeRate)
      InBRC(x) == (x * LendPrice) \div LendDecimal
  IN \/ qty <= fee \/ qty <= default
     \/ InBRC(default) <= RelayerLendingFee
     \/ InBRC(fee) > 0 /\ InBRC(fee) <= RelayerLendingFee

(* Mutant: a borrower whose order was waiting still receives the fee.      *)
BorrowerInWithFee(takerSide, qty, fee) ==
  IF takerSide = Borrowing THEN qty - fee ELSE qty + fee

(* What the borrower receives.  Before the fork a borrower whose order was *)
(* waiting received the fee as well.                                       *)
BorrowerIn(takerSide, qty, fee) ==
  IF LendingFork \/ takerSide = Borrowing THEN qty - fee ELSE qty + fee

Move(acc, mv) ==
  LET now == acc.bal[mv.who][mv.token] + mv.delta
  IN IF acc.fails \/ now < 0 THEN [acc EXCEPT !.fails = TRUE]
     ELSE [acc EXCEPT !.bal[mv.who][mv.token] = now, !.set = @ \cup {<<mv.who, mv.token>>}]

(* The movements of DoSettleBalance, in its order.                         *)
Movements(takerSide, borrower, investor, owner, c, qty, fee, locked) ==
  LET In == [who |-> borrower, token |-> Lend, delta |-> BorrowerIn(takerSide, qty, fee)]
      Out == [who |-> borrower, token |-> c, delta |-> 0 - locked]
      Lent == [who |-> investor, token |-> Lend, delta |-> 0 - qty]
  IN (IF takerSide = Borrowing THEN <<In, Out, Lent>> ELSE <<Lent, In, Out>>)
       \o <<[who |-> owner, token |-> Lend, delta |-> fee],
            [who |-> Lock, token |-> c, delta |-> locked]>>

(* "masternodes only charge borrower relayer fee".  The balances computed  *)
(* are written after the masternode's owner was paid.                      *)
DoSettleBalance(st, takerSide, b, i, c, qty, fee, locked) ==
  LET moved == FoldLeft(Move, [bal |-> st.bal, set |-> {}, fails |-> FALSE],
                        Movements(takerSide, b.user, i.user, RelayerOwner[b.relayer],
                                  c, qty, fee, locked))
      paid == [st.bal EXCEPT ![MasternodeOwner][Native] = @ + RelayerLendingFee]
  IN IF moved.fails \/ st.dep[b.relayer] < RelayerLendingFee
     THEN [st EXCEPT !.err = "settle"]
     ELSE [st EXCEPT !.dep[b.relayer] = @ - RelayerLendingFee,
                     !.bal = [a \in Accounts |-> [t \in Tokens |->
                                IF <<a, t>> \in moved.set THEN moved.bal[a][t]
                                                          ELSE paid[a][t]]]]

CheckRelayerFee(deposit, fee) == deposit - fee >= LockedFund

RelayerShort(st, o, m) ==
  IF o.relayer = m.relayer
  THEN [taker |-> ~CheckRelayerFee(st.dep[m.relayer], 2 * RelayerLendingFee), maker |-> FALSE]
  ELSE [taker |-> ~CheckRelayerFee(st.dep[o.relayer], RelayerLendingFee),
        maker |-> ~CheckRelayerFee(st.dep[m.relayer], RelayerLendingFee)]

-----------------------------------------------------------------------------
(* Matching.  st is the lending state with bal and dep, the quantity left  *)
(* to trade, who was rejected (0 is the order itself), and err, "" or the  *)
(* error that ended the order.                                             *)

Borrower(o, m) == IF o.side = Borrowing THEN o ELSE m
Investor(o, m) == IF o.side = Borrowing THEN m ELSE o

(* getLendQuantity: the quantity, whose order is to be rejected, and the   *)
(* state with the loan settled.                                            *)
Settle(st, o, m, most) ==
  LET b == Borrower(o, m)
      i == Investor(o, m)
      p == GetCollateralPrices(b.coll)
      short == RelayerShort(st, o, m)
      takerPays == IF o.side = Borrowing THEN b.coll ELSE Lend
      makerPays == IF o.side = Borrowing THEN Lend ELSE b.coll
      q == GetLendQuantity(o.side, p, st.bal[o.user][takerPays], st.bal[m.user][makerPays], most)
      fee == Fee(q.qty, FeeRate[b.relayer])
      locked == CollateralFor(q.qty, p)
      small == q.qty > 0 /\ TooSmall(q.qty, fee)
  IN IF short.taker \/ short.maker
     THEN [qty |-> 0, locked |-> 0, rejectMaker |-> ~short.taker, small |-> FALSE, st |-> st]
     ELSE [qty |-> q.qty, locked |-> locked, rejectMaker |-> q.rejectMaker, small |-> small,
           st |-> IF q.qty = 0 \/ small THEN st
                  ELSE DoSettleBalance(st, o.side, b, i, b.coll, q.qty, fee, locked)]

RejectTaker(st) == [st EXCEPT !.left = 0, !.rejected = @ \cup {0}]
RejectMaker(st, d, id) ==
  LET item == st.books[d].items[id]
  IN [st EXCEPT !.books[d] = CancelOrder(@, id, item), !.rejected = @ \cup {id},
                !.err = IF CancelFails(st.books[d], id, item) THEN "cancel" ELSE @]

(* The loan of a match: the trade under the next trade id, its liquidation *)
(* time, the trade nonce and its liquidation price.                        *)
OpenLoan(st, o, m, qty, locked) ==
  LET d == o.term
      b == Borrower(o, m)
      k == <<d, st.last[d] + 1>>
      loan == [coll |-> b.coll, amount |-> qty, time |-> number + d,
               liqPrice |-> (GetCollateralPrices(b.coll) * LiquidationRate) \div DepositRate,
               interest |-> m.price, borrower |-> b.user, investor |-> Investor(o, m).user,
               relayer |-> b.relayer, locked |-> locked, auto |-> b.auto]
  IN InsertLiquidationPrice(
       SetTradeNonce(
         InsertLiquidationTime(InsertTradingItem(st, k, loan), d, loan.time, k[2]),
         d, k[2]),
       b.coll, loan.liqPrice, k)

(* One turn of processOrderList, with the first order of the list.         *)
MatchOne(st, o, side, rate, id) ==
  LET d == o.term
      m == st.books[d].items[id]
      amount == Amount(st.books[d], <<side, rate>>, id)
      most == Min({st.left, amount})
      q == Settle(st, o, m, most)
      dropTaker == IF q.qty = most THEN st.left <= amount ELSE ~q.rejectMaker
      dropMaker == IF q.qty = most THEN st.left >= amount ELSE q.rejectMaker
      sold == [q.st EXCEPT !.left = @ - q.qty,
                           !.books[d] = SubAmountOrderItem(@, id, rate, q.qty, side)]
      traded == IF q.qty > 0 THEN OpenLoan(sold, o, m, q.qty, q.locked) ELSE q.st
  IN CASE GetCollateralPrices(Borrower(o, m).coll) = 0 -> [st EXCEPT !.err = "no price"]
       [] GetCollateralPrices(Borrower(o, m).coll) # 0 /\ q.small ->
            LET x == IF dropMaker THEN RejectMaker(st, d, id) ELSE st
            IN IF dropTaker THEN RejectTaker(x) ELSE x
       [] GetCollateralPrices(Borrower(o, m).coll) # 0 /\ ~q.small /\ q.st.err # "" -> q.st
       [] OTHER ->
            IF q.qty = 0 /\ ~q.rejectMaker THEN RejectTaker(st)
            ELSE IF q.rejectMaker THEN RejectMaker(traded, d, id) ELSE traded

RECURSIVE ProcessOrderList(_, _, _, _)
ProcessOrderList(st, o, side, rate) ==
  LET id == GetBestOrderId(st.books[o.term], side, rate)
  IN IF st.left = 0 \/ st.err # "" \/ id = 0 THEN st
     ELSE ProcessOrderList(MatchOne(st, o, side, rate, id), o, side, rate)

Crosses(o, best) ==
  o.type = "limit" => IF o.side = Borrowing THEN o.price >= best ELSE o.price <= best

(* The loop of processMarketOrder and of processLimitOrder.                *)
RECURSIVE MatchAll(_, _)
MatchAll(st, o) ==
  LET best == GetBestPrice(st.books[o.term], Opposite(o.side))
  IN IF st.left = 0 \/ st.err # "" \/ best = 0 \/ ~Crosses(o, best) THEN st
     ELSE MatchAll(ProcessOrderList(st, o, Opposite(o.side), best), o)

Rest(st, o) ==
  IF o.type = "market" \/ st.left = 0 \/ st.err # "" THEN st
  ELSE [st EXCEPT !.books[o.term] =
          InsertOrderItem(SetNonce(@, @.nonce + 1), @.nonce + 1,
            [side |-> o.side, price |-> o.price, qty |-> st.left, user |-> o.user,
             relayer |-> o.relayer, coll |-> o.coll, auto |-> o.auto, hash |-> "hash"])]

-----------------------------------------------------------------------------
(* Cancelling an order.                                                    *)

CancelToken(item) == IF item.side = Investing THEN Lend ELSE item.coll

CancelFee(item) ==
  LET rate == FeeRate[item.relayer]
      feeV1 == IF item.side = Investing THEN (item.qty * rate) \div BaseCancelFee
               ELSE ((item.qty * CollDecimal * rate) \div GetCollateralPrices(item.coll)) \div BaseCancelFee
  IN IF ~CancellationFork THEN feeV1
     ELSE IF rate = 0 THEN 0 ELSE TokenCancelFee[CancelToken(item)]

(* ProcessCancelOrder; the order of a borrower needs a price.              *)
ProcessCancelOrder(st, d, id, user, hash) ==
  LET item == st.books[d].items[id]
      fee == CancelFee(item)
      token == CancelToken(item)
  IN IF \/ item.hash # hash \/ item.user # user
        \/ ~CheckRelayerFee(st.dep[item.relayer], RelayerLendingCancelFee)
        \/ item.side = Borrowing /\ GetCollateralPrices(item.coll) = 0
        \/ st.bal[item.user][token] < fee
        \/ CancelFails(st.books[d], id, item)
     THEN RejectTaker(st)
     ELSE [st EXCEPT !.books[d] = CancelOrder(@, id, item),
                     !.dep[item.relayer] = @ - RelayerLendingCancelFee,
                     !.bal[MasternodeOwner][Native] = @ + RelayerLendingCancelFee,
                     !.bal[item.user][token] = @ - fee,
                     !.bal[RelayerOwner[item.relayer]][token] = @ + fee]

-----------------------------------------------------------------------------
(* The life of a loan.                                                     *)

AddTokenBalance(st, who, token, amount) == [st EXCEPT !.bal[who][token] = @ + amount]

(* Refused, with an error, when the balance is short.                      *)
SubTokenBalance(st, who, token, amount) ==
  IF st.bal[who][token] < amount THEN st ELSE [st EXCEPT !.bal[who][token] = @ - amount]

(* The error of SubTokenBalance is only logged: the other side is paid.    *)
Pay(st, from, to, token, amount) ==
  AddTokenBalance(SubTokenBalance(st, from, token, amount), to, token, amount)

(* The end of every loan: it leaves both indexes, then the loans.          *)
CloseLoan(st, k) ==
  LET loan == st.loans[k]
      untimed == RemoveLiquidationTime(st, k[1], loan.time, k[2])
      unpriced == RemoveLiquidationPrice(untimed, loan.coll, loan.liqPrice, k)
  IN IF untimed.err # "" THEN untimed
     ELSE IF unpriced.err # "" THEN unpriced ELSE CancelLendingTrade(unpriced, k)

(* The borrower pays what is missing of the new amount in, or gets back    *)
(* what exceeds it.                                                        *)
PayDifference(st, loan, locked) ==
  IF locked >= loan.locked
  THEN Pay(st, loan.borrower, Lock, loan.coll, locked - loan.locked)
  ELSE Pay(st, Lock, loan.borrower, loan.coll, loan.locked - locked)

(* Mutant: collateral is paid in or out, and the loan does not record it.  *)
MoveLoanSameLocked(st, k, p, locked) ==
  LET loan == st.loans[k]
      removed == RemoveLiquidationPrice(st, loan.coll, loan.liqPrice, k)
      paid == PayDifference(removed, loan, locked)
  IN IF removed.err # "" THEN removed
     ELSE InsertLiquidationPrice(UpdateLoan(paid, k, p, loan.locked), loan.coll, p, k)

(* A loan changes its locked amount and its liquidation price.             *)
MoveLoan(st, k, p, locked) ==
  LET loan == st.loans[k]
      removed == RemoveLiquidationPrice(st, loan.coll, loan.liqPrice, k)
      paid == PayDifference(removed, loan, locked)
  IN IF removed.err # "" THEN removed
     ELSE InsertLiquidationPrice(UpdateLoan(paid, k, p, locked), loan.coll, p, k)

(* ProcessTopUpLendingTrade of an open loan; fails when the borrower does  *)
(* not have the quantity.                                                  *)
TopUpFails(st, k, qty) == st.bal[st.loans[k].borrower][st.loans[k].coll] < qty

ProcessTopUpLendingTrade(st, k, qty) ==
  LET loan == st.loans[k]
      locked == loan.locked + qty
  IN MoveLoan(st, k, (loan.liqPrice * loan.locked) \div locked, locked)

(* Mutant: the rate of the top up and its base change places.              *)
AutoTopUpSwapped(loan, p) ==
  (loan.locked * loan.liqPrice) \div ((p * BaseTopUp) \div RateTopUp) - loan.locked

(* AutoTopUp: what it takes to bring the liquidation price to 90% of the   *)
(* price of the collateral.                                                *)
AutoTopUpQuantity(loan, p) ==
  (loan.locked * loan.liqPrice) \div ((p * RateTopUp) \div BaseTopUp) - loan.locked

AutoTopUpFails(st, k, p) ==
  \/ k \notin DOMAIN st.loans
  \/ p >= st.loans[k].liqPrice
  \/ TopUpFails(st, k, AutoTopUpQuantity(st.loans[k], p))

(* CalculateTotalRepayValue: interest for half the term and half the time  *)
(* borrowed.                                                               *)
TotalRepayValue(loan, term, amount) ==
  LET borrowed == number - (loan.time - term)
      rate == (loan.interest * ((term + borrowed) \div 2)) \div OneYear
  IN (amount * (InterestBase + rate)) \div InterestBase

(* LiquidationTrade: the investor gets the collateral.                     *)
LiquidationTrade(st, k) ==
  IF k \notin DOMAIN st.loans THEN [st EXCEPT !.err = "no loan"]
  ELSE LET loan == st.loans[k]
       IN CloseLoan(Pay(st, Lock, loan.investor, loan.coll, loan.locked), k)

(* LiquidationExpiredTrade: the investor gets the debt and its interest in *)
(* collateral, all of it without a price; the borrower gets the rest.      *)
LiquidationExpiredTrade(st, k) ==
  LET loan == st.loans[k]
      p == GetCollateralPrices(loan.coll)
      debt == (loan.locked * loan.liqPrice) \div p
      principal == (debt * 100) \div LiquidationRate
      owed == debt + (TotalRepayValue(loan, k[1], principal) - principal)
      repay == IF p = 0 THEN loan.locked ELSE Min({owed, loan.locked})
      recalled == AddTokenBalance(st, loan.borrower, loan.coll, loan.locked - repay)
      released == SubTokenBalance(recalled, Lock, loan.coll, loan.locked)
  IN CloseLoan(AddTokenBalance(released, loan.investor, loan.coll, repay), k)

(* Mutant: a loan is liquidated for want of money before its time is over. *)
RepayEarlyLiquidation(st, k) ==
  IF k \notin DOMAIN st.loans THEN [st EXCEPT !.err = "no loan"]
  ELSE LET loan == st.loans[k]
           payment == TotalRepayValue(loan, k[1], loan.amount)
       IN IF st.bal[loan.borrower][Lend] >= payment
          THEN CloseLoan(Pay(Pay(st, loan.borrower, loan.investor, Lend, payment),
                             Lock, loan.borrower, loan.coll, loan.locked), k)
          ELSE LiquidationTrade(st, k)

(* ProcessRepayLendingTrade.                                               *)
ProcessRepayLendingTrade(st, k) ==
  IF k \notin DOMAIN st.loans THEN [st EXCEPT !.err = "no loan"]
  ELSE LET loan == st.loans[k]
           payment == TotalRepayValue(loan, k[1], loan.amount)
       IN CASE st.bal[loan.borrower][Lend] >= payment ->
                 CloseLoan(Pay(Pay(st, loan.borrower, loan.investor, Lend, payment),
                               Lock, loan.borrower, loan.coll, loan.locked), k)
            [] st.bal[loan.borrower][Lend] < payment /\ loan.time > number ->
                 [st EXCEPT !.err = "no money"]
            [] OTHER -> IF LendingFork THEN LiquidationExpiredTrade(st, k)
                                       ELSE LiquidationTrade(st, k)

(* ProcessRecallLendingTrade: a higher liquidation price releases          *)
(* collateral.                                                             *)
ProcessRecallLendingTrade(st, k, p) ==
  IF k \notin DOMAIN st.loans THEN [st EXCEPT !.err = "no loan"]
  ELSE LET loan == st.loans[k]
           locked == (loan.locked * loan.liqPrice) \div p
       IN IF p <= loan.liqPrice THEN [st EXCEPT !.err = "recall"]
          ELSE MoveLoan(st, k, p, locked)

-----------------------------------------------------------------------------
(* ProcessLiquidationData.  The books are visited in the order of a Go     *)
(* map, any order: books is a sequence of the terms.  A loop that would    *)
(* never end sets err to "loop".                                           *)

Each(Op(_, _), st, seq) == FoldLeft(LAMBDA x, k : IF x.err # "" THEN x ELSE Op(x, k), st, seq)

(* The loans of a set, book by book, each book's by trade id.              *)
InOrder(keys, books) ==
  FlattenSeq([i \in DOMAIN books |->
    SetToSortSeq({k \in keys : k[1] = books[i]}, LAMBDA x, y : x[2] < y[2])])

IsDue(time) == time > 0 /\ time < number

(* The loans of one book whose time is over.                               *)
RECURSIVE LiquidateByTime(_, _)
LiquidateByTime(st, d) ==
  LET lowest == GetLowestLiquidationTime(st, d)
      keys == {<<d, id>> : id \in st.times[d][lowest].ids}
  IN IF st.err # "" \/ ~IsDue(lowest) THEN st
     ELSE IF keys = {} THEN [st EXCEPT !.err = "loop"]
     ELSE LiquidateByTime(Each(ProcessRepayLendingTrade, st, InOrder(keys, <<d>>)), d)

TopUpOrLiquidate(st, k) ==
  LET p == GetCollateralPrices(st.loans[k].coll)
  IN IF k \in DOMAIN st.loans /\ st.loans[k].auto /\ ~AutoTopUpFails(st, k, p)
     THEN ProcessTopUpLendingTrade(st, k, AutoTopUpQuantity(st.loans[k], p))
     ELSE LiquidationTrade(st, k)

(* The loans against collateral c whose liquidation price is above its     *)
(* price, from the highest price down.                                     *)
RECURSIVE LiquidateByPrice(_, _, _)
LiquidateByPrice(st, c, books) ==
  LET highest == GetHighestLiquidationPrice(st, c)
      next == Each(TopUpOrLiquidate, st, InOrder(LevelIds(st.prices[c], highest), books))
  IN IF st.err # "" \/ highest <= GetCollateralPrices(c) THEN st
     ELSE IF next = st THEN [st EXCEPT !.err = "loop"]
     ELSE LiquidateByPrice(next, c, books)

RecallTarget(c) == (GetCollateralPrices(c) * LiquidationRate) \div DepositRate

Recall(st, c) ==
  LET lower == GetAllLowerLiquidationPrice(st, c, (GetCollateralPrices(c) * BaseRecall) \div RecallRate)
      keys == {k \in UNION {LevelIds(st.prices[c], p) : p \in lower} :
                 k \in DOMAIN st.loans /\ st.loans[k].auto}
  IN Each(LAMBDA x, k : ProcessRecallLendingTrade(x, k, RecallTarget(c)), st, SetToSeq(keys))

LiquidatePair(st, c, books) ==
  IF GetCollateralPrices(c) = 0 THEN st
  ELSE LET lowered == LiquidateByPrice(st, c, books)
       IN IF lowered.err # "" THEN lowered ELSE Recall(lowered, c)

ProcessLiquidationData(st, books) ==
  Each(LAMBDA x, c : LiquidatePair(x, c, books),
       Each(LiquidateByTime, st, books), SetToSeq(Collaterals))

-----------------------------------------------------------------------------
Start(left) ==
  [books |-> lend.books, loans |-> lend.loans, last |-> lend.last, times |-> lend.times,
   prices |-> lend.prices, bal |-> bal, dep |-> dep, left |-> left, rejected |-> {},
   err |-> ""]

Fields == {"books", "loans", "last", "times", "prices"}
LendingOf(st) == [f \in Fields |-> st[f]]

Outcome(op, err, rejected) ==
  [op |-> op, err |-> err, rejected |-> rejected, at |-> number,
   price |-> [c \in Collaterals |-> GetCollateralPrices(c)]]

Write(st, op) ==
  /\ lend' = ClearJournal(LendingOf(st))
  /\ bal' = st.bal
  /\ dep' = st.dep
  /\ out' = Outcome(op, st.err, st.rejected)

(* The deferred function of ApplyOrder undoes an order whose matching      *)
(* ended in an error; top ups and repayments return before it sees theirs. *)
Finish(st, op) ==
  IF st.err = "" \/ op # "order" THEN Write(st, op)
  ELSE Write([Revert(st, lend) EXCEPT !.bal = bal, !.dep = dep], op)

(* The nonce, and VerifyLendingItem of what depends on the state: the      *)
(* relayer has more than the locked fund.  An epoch switch block holds no  *)
(* orders.                                                                 *)
Accept(user) ==
  /\ number < MaxBlocks /\ since # 0
  /\ inBlock < MaxPerBlock /\ nonce[user] < MaxNonce
  /\ nonce' = [nonce EXCEPT ![user] = @ + 1]
  /\ inBlock' = inBlock + 1
  /\ UNCHANGED <<quote, medium, since, number>>

IsValidRelayer(relayer) == dep[relayer] > LockedFund

(* ApplyOrder on a new order.                                              *)
ApplyOrder(o) ==
  /\ Accept(o.user)
  /\ IF IsValidRelayer(o.relayer)
     THEN Finish(Rest(MatchAll(Start(o.qty), o), o), "order")
     ELSE Finish(RejectTaker(Start(o.qty)), "order")

(* ApplyOrder on a cancellation.                                           *)
ApplyCancel(user, relayer, d, id, hash) ==
  /\ Accept(user)
  /\ IF IsValidRelayer(relayer)
     THEN Finish(ProcessCancelOrder(Start(0), d, id, user, hash), "cancel")
     ELSE Finish(RejectTaker(Start(0)), "cancel")

(* ApplyOrder on a top up: ProcessTopUp takes it from the borrower only,   *)
(* through the relayer of the loan.                                        *)
ApplyTopUp(user, relayer, k, qty) ==
  /\ Accept(user)
  /\ IF /\ IsValidRelayer(relayer)
        /\ user = lend.loans[k].borrower /\ relayer = lend.loans[k].relayer
        /\ ~TopUpFails(Start(0), k, qty)
     THEN Finish(ProcessTopUpLendingTrade(Start(0), k, qty), "topup")
     ELSE Finish(RejectTaker(Start(0)), "topup")

(* ApplyOrder on a repayment, ProcessRepay.                                *)
ApplyRepay(user, relayer, k) ==
  /\ Accept(user)
  /\ IF /\ IsValidRelayer(relayer)
        /\ user = lend.loans[k].borrower /\ relayer = lend.loans[k].relayer
     THEN Finish(ProcessRepayLendingTrade(Start(0), k), "repay")
     ELSE Finish(RejectTaker(Start(0)), "repay")

(* The next block is an epoch switch when its round is of another epoch    *)
(* than that of its parent: rounds may pass without a block, so an epoch   *)
(* has any number of blocks up to Epoch.                                   *)
NewBlock(st) ==
  /\ number < MaxBlocks
  /\ lend' = CommitLending(LendingOf(st))
  /\ bal' = st.bal
  /\ dep' = st.dep
  /\ number' = number + 1
  /\ since' \in {0} \cup {n \in 1 .. Epoch - 1 : n = since + 1}
  /\ inBlock' = 0
  /\ UNCHANGED nonce

(* The end of a block without liquidation.                                 *)
EndBlock ==
  /\ since # 0 /\ number % Epoch # LiquidationBlock
  /\ NewBlock(Start(0))
  /\ quote' \in QuotesAfter
  /\ out' = Outcome("end", "", {})
  /\ UNCHANGED medium

(* An epoch switch block: no order, no transaction and no liquidation,     *)
(* whatever its number.                                                    *)
EndSwitchBlock(average) ==
  /\ since = 0
  /\ NewBlock(Start(0))
  /\ medium' = UpdateMediumPriceBeforeEpoch(average)
  /\ out' = Outcome("switch", "", {})
  /\ UNCHANGED quote

(* The block that liquidates is not made when ProcessLiquidationData fails. *)
EndLiquidationBlock(books) ==
  LET st == ProcessLiquidationData(Start(0), books)
  IN /\ since # 0 /\ number % Epoch = LiquidationBlock
     /\ IF st.err = "" THEN NewBlock(st) /\ quote' \in QuotesAfter
        ELSE UNCHANGED <<lend, bal, dep, quote, since, nonce, number, inBlock>>
     /\ out' = Outcome("liquidation", st.err, {})
     /\ UNCHANGED medium

(* Lending starts after the first epoch.                                   *)
Init ==
  /\ lend = EmptyLending /\ bal = Balances /\ dep = Deposits
  /\ \E first \in FirstQuotes :
       quote = [c \in Collaterals |->
         [direct |-> [price |-> first[c], epoch |-> IF first[c] = 0 THEN 0 ELSE 1],
          inverse |-> [price |-> 0, epoch |-> 0]]]
  /\ medium = [c \in Collaterals |-> [pair |-> 0, brc |-> 0]]
  /\ since = 1
  /\ nonce = [u \in Users |-> 0]
  /\ number = Epoch + 1 /\ inBlock = 0
  /\ out = Outcome("none", "", {})

Senders == {<<o.user, o.relayer>> : o \in Orders}

Next ==
  \/ \E o \in Orders : ApplyOrder(o)
  \/ \E w \in Senders, d \in Terms : \E id \in DOMAIN lend.books[d].items :
       \E hash \in {"hash", "other"} : ApplyCancel(w[1], w[2], d, id, hash)
  \/ \E w \in Senders, k \in DOMAIN lend.loans, qty \in TopUps : ApplyTopUp(w[1], w[2], k, qty)
  \/ \E w \in Senders, k \in DOMAIN lend.loans : ApplyRepay(w[1], w[2], k)
  \/ EndBlock
  \/ \E average \in Averages : EndSwitchBlock(average)
  \/ \E books \in SetToSeqs(Terms) : EndLiquidationBlock(books)

Spec == Init /\ [][Next]_vars

-----------------------------------------------------------------------------
TotalOf(balances, deposits, t) ==
  MapThenSumSet(LAMBDA a : balances[a][t], Accounts)
    + (IF t = Native THEN MapThenSumSet(LAMBDA r : deposits[r], Relayers) ELSE 0)

(* Lending, repaying, cancelling and liquidating move tokens and create or *)
(* destroy none, fees, interest and rounding included.                     *)
TokensConserved ==
  \A t \in Tokens : TotalOf(bal, dep, t) = TotalOf(Balances, Deposits, t)

(* The lock address holds exactly what the open loans have locked, so that *)
(* no loan is ever paid out of the collateral of another                   *)
(* (LendingLockAddressBinary).                                             *)
LockMatchesLoans ==
  \A c \in Collaterals :
    bal[Lock][c] = MapThenSumSet(LAMBDA k : lend.loans[k].locked,
                                 {k \in DOMAIN lend.loans : lend.loans[k].coll = c})

(* "RevertToSnapshot reverts all state changes made since the given        *)
(* revision" (lendingstate/statedb.go): the liquidation times and the      *)
(* liquidation prices hold the open loans, each at its own time and price, *)
(* and nothing else, whatever orders were undone in between.  Violated by  *)
(* a market order that meets two collaterals, the second without a price:  *)
(* its first loan is undone and its liquidation time stays, as             *)
(* InsertLiquidationTime writes no journal entry.                          *)
IndexesAgree ==
  /\ \A d \in Terms : \A x \in DOMAIN lend.times[d] :
       /\ lend.times[d][x].vol = Cardinality(lend.times[d][x].ids)
       /\ \A id \in lend.times[d][x].ids :
            <<d, id>> \in DOMAIN lend.loans /\ lend.loans[<<d, id>>].time = x
  /\ \A c \in Collaterals : \A p \in DOMAIN lend.prices[c].ids : \A k \in lend.prices[c].ids[p] :
       k \in DOMAIN lend.loans /\ lend.loans[k].coll = c /\ lend.loans[k].liqPrice = p
  /\ \A k \in DOMAIN lend.loans :
       LET loan == lend.loans[k]
       IN /\ loan.time \in DOMAIN lend.times[k[1]] /\ k[2] \in lend.times[k[1]][loan.time].ids
          /\ k \in LevelIds(lend.prices[loan.coll], loan.liqPrice)

(* ProcessLiquidationData ends without an error and leaves no loan open    *)
(* whose time is over, and none whose collateral fell below its            *)
(* liquidation price: each was topped up, repaid or liquidated.  With few  *)
(* units locked an automatic top up is rounded to nothing and this fails.  *)
NoneDue ==
  out.op = "liquidation" =>
    /\ out.err = ""
    /\ \A k \in DOMAIN lend.loans :
         LET p == out.price[lend.loans[k].coll]
         IN lend.loans[k].time >= out.at /\ (p > 0 => lend.loans[k].liqPrice <= p)

(* A loan ends early only for a reason: by a repayment that returns the    *)
(* whole collateral, or because its time was over or the price of its      *)
(* collateral below its liquidation price.                                 *)
NoUntimelyEnd ==
  [][\A k \in DOMAIN lend.loans \ DOMAIN lend'.loans :
       LET loan == lend.loans[k]
           Over == loan.time < number
           Below == /\ 0 < GetCollateralPrices(loan.coll)
                    /\ GetCollateralPrices(loan.coll) < loan.liqPrice
       IN \/ out'.op = "liquidation" /\ (Over \/ Below)
          \/ /\ out'.op = "repay"
             /\ \/ loan.time <= number
                \/ bal'[loan.borrower][loan.coll] = bal[loan.borrower][loan.coll] + loan.locked
    ]_vars

=============================================================================
