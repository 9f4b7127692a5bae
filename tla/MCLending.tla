------------------------------ MODULE MCLending ------------------------------
(***************************************************************************)
(* An instance of Lending: a borrower and an investor on one relayer.      *)
(***************************************************************************)
EXTENDS Lending

CONSTANTS ann, bob, lock, owner, mn, r1, usd, brc, btc, Coins, DepositOf

MCAccounts == {ann, bob, lock, owner, mn}
MCRelayers == {r1}
MCRelayerOwner == [r \in MCRelayers |-> owner]
MCFeeRate == [r \in MCRelayers |-> 10]
MCDeposits == [r \in MCRelayers |-> DepositOf]
MCTokenCancelFee == [x \in {usd, brc} \cup Collaterals |-> 2]

(* ann lends usd, bob owns collateral.                                     *)
MCBalances ==
  [a \in MCAccounts |-> [x \in {usd, brc} \cup Collaterals |->
     IF a = ann /\ x = usd THEN Coins[1]
     ELSE IF a = bob /\ x \in Collaterals THEN Coins[2]
     ELSE 0]]

Order(user, side, type, rate, qty, coll, auto, term) ==
  [user |-> user, relayer |-> r1, side |-> side, type |-> type, price |-> rate,
   qty |-> qty, coll |-> coll, auto |-> auto, term |-> term]

MCOrders ==
  {Order(ann, "ask", "limit", rate, 100, btc, FALSE, 3) : rate \in {5, 8}}
    \cup {Order(ann, "ask", "market", 0, 150, btc, FALSE, 3)}
    \cup {Order(bob, "bid", "limit", 5, 60, btc, auto, 3) : auto \in BOOLEAN}
    \cup {Order(bob, "bid", "limit", 5, 150, btc, TRUE, 3)}
    \cup {Order(bob, "bid", "market", 0, 100, btc, TRUE, 3)}

(* The inverse quote 4 is a price of 40 \div 4.                            *)
MCFirstQuotes == {[c \in Collaterals |-> p] : p \in {0, 14}}
MCQuotes == [direct |-> {20}, inverse |-> {4}]
MCAverages == {[c \in Collaterals |-> a] : a \in {[pair |-> 0, brc |-> 0], [pair |-> 0, brc |-> 10]}}

MCCoins == <<150, 20>>

(* bob borrows against two collaterals, of which only btc has a price.     *)
TwoOrders ==
  {Order(ann, "ask", "market", 0, 150, btc, FALSE, 3)}
    \cup {Order(bob, "bid", "limit", 5, 60, c, FALSE, 3) : c \in Collaterals}
TwoFirstQuotes == {[c \in Collaterals |-> IF c = btc THEN 14 ELSE 0]}
TwoAverages == {[c \in Collaterals |-> [pair |-> 0, brc |-> 0]]}
=============================================================================
