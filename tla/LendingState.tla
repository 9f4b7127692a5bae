---------------------------- MODULE LendingState ----------------------------
(***************************************************************************)
(* What LendingStateDB and TradingStateDB keep of lending                  *)
(* (BRCxlending/lendingstate/statedb.go, state_liquidationtime.go;         *)
(* BRCx/tradingstate/statedb.go, state_orderbook.go): pure operators on a  *)
(* record s with                                                           *)
(*                                                                         *)
(*   books   term -> the lending book, a book of TradingState: lendingstate *)
(*           keeps investing orders as tradingstate keeps asks, borrowing  *)
(*           orders as bids, and interests as prices                       *)
(*   loans   <<term, id>> -> open loan (LendingTrade with an amount)       *)
(*   last    term -> the last trade id (TradeNonce)                        *)
(*   times   term -> time -> [ids, vol], the liquidation time trie         *)
(*   prices  collateral -> [ids, tree, known]: the loans at each           *)
(*           liquidation price, the prices in the trie, and the prices     *)
(*           whose object exists (in the trie, or live in this block)      *)
(*                                                                         *)
(* The trade ids of a time and its volume are separate because the code    *)
(* counts insertions, and an id may be inserted twice.                     *)
(***************************************************************************)
EXTENDS TradingState

CONSTANTS
  Terms,         \* terms of loans, one lending book each
  Collaterals    \* tokens that may be locked

ASSUME TermsAssumption == Terms \subseteq Nat \ {0}

NoLevels == [ids |-> [p \in {} |-> {}], tree |-> {}, known |-> {}]
EmptyLending ==
  [books |-> [d \in Terms |-> EmptyBook], loans |-> [k \in {} |-> 0],
   last |-> [d \in Terms |-> 0], times |-> [d \in Terms |-> [x \in {} |-> 0]],
   prices |-> [c \in Collaterals |-> NoLevels]]

-----------------------------------------------------------------------------
(* The liquidation times.  Neither operation writes a journal entry.       *)

InsertLiquidationTime(s, d, time, id) ==
  LET entry == IF time \in DOMAIN s.times[d] THEN s.times[d][time] ELSE [ids |-> {}, vol |-> 0]
  IN [s EXCEPT !.times[d] = Put(@, time, [ids |-> entry.ids \cup {id}, vol |-> entry.vol + 1])]

(* The trade id is not looked for: Exist answers true for any id.          *)
RemoveLiquidationTime(s, d, time, id) ==
  IF time \notin DOMAIN s.times[d] THEN [s EXCEPT !.err = "time"]
  ELSE LET entry == s.times[d][time]
       IN [s EXCEPT !.times[d] =
             IF entry.vol = 1 THEN Drop(@, time)
             ELSE Put(@, time, [ids |-> entry.ids \ {id}, vol |-> entry.vol - 1])]

(* 0 for none.                                                             *)
GetLowestLiquidationTime(s, d) ==
  IF DOMAIN s.times[d] = {} THEN 0 ELSE Min(DOMAIN s.times[d])

-----------------------------------------------------------------------------
(* The liquidation prices.                                                 *)

LevelIds(levels, p) == IF p \in DOMAIN levels.ids THEN levels.ids[p] ELSE {}

(* A price enters the trie only when its object is created.                *)
InsertLiquidationPrice(s, c, p, k) ==
  [s EXCEPT !.prices[c] =
     [ids |-> Put(@.ids, p, LevelIds(@, p) \cup {k}),
      tree |-> IF p \in @.known THEN @.tree ELSE @.tree \cup {p},
      known |-> @.known \cup {p}]]

RemoveLiquidationPrice(s, c, p, k) ==
  IF p \notin s.prices[c].known THEN [s EXCEPT !.err = "price"]
  ELSE LET left == LevelIds(s.prices[c], p) \ {k}
       IN [s EXCEPT !.prices[c].ids = Put(@, p, left),
                    !.prices[c].tree = IF left = {} THEN @ \ {p} ELSE @]

(* The highest price of the trie, 0 for none or when its object is empty.  *)
GetHighestLiquidationPrice(s, c) ==
  LET levels == s.prices[c]
  IN IF levels.tree = {} \/ LevelIds(levels, Max(levels.tree)) = {} THEN 0
     ELSE Max(levels.tree)

GetAllLowerLiquidationPrice(s, c, limit) ==
  {p \in s.prices[c].tree : p > 0 /\ p < limit}

-----------------------------------------------------------------------------
(* The loans.                                                              *)

InsertTradingItem(s, k, loan) == [s EXCEPT !.loans = Put(@, k, loan)]
CancelLendingTrade(s, k) == [s EXCEPT !.loans = Drop(@, k)]
SetTradeNonce(s, d, n) == [s EXCEPT !.last[d] = n]

(* UpdateLiquidationPrice and UpdateCollateralLockedAmount.                *)
UpdateLoan(s, k, p, locked) ==
  [s EXCEPT !.loans[k].liqPrice = p, !.loans[k].locked = locked]

-----------------------------------------------------------------------------
(* Reverting an order: the journals of both states undo the changes to the *)
(* books, the loans, the trade nonce and the liquidation prices, whose     *)
(* objects stay live; the liquidation times stay as they are.              *)
Revert(s, old) ==
  [s EXCEPT
     !.books = [d \in Terms |-> RevertToSnapshot(@[d], 0)],
     !.loans = old.loans, !.last = old.last,
     !.prices = [c \in Collaterals |-> [old.prices[c] EXCEPT !.known = s.prices[c].known]]]

(* The end of an order: the next one starts from an empty journal.         *)
ClearJournal(s) ==
  [s EXCEPT !.books = [d \in Terms |-> [@[d] EXCEPT !.journal = <<>>]]]

(* The end of a block: the tries are written, and the next block reads     *)
(* them anew.                                                              *)
CommitLending(s) ==
  LET Listed(c) == {p \in DOMAIN s.prices[c].ids : s.prices[c].ids[p] # {}}
  IN [s EXCEPT
        !.books = [d \in Terms |-> Commit(@[d])],
        !.prices = [c \in Collaterals |->
           [ids |-> [p \in Listed(c) |-> s.prices[c].ids[p]],
            tree |-> Listed(c), known |-> Listed(c)]]]

=============================================================================
