------------------------------ MODULE OrderBook ------------------------------
(***************************************************************************)
(* TradingStateDB under the calls order processing makes of it: a snapshot *)
(* before an order is applied, the order's trades, rejections and its own  *)
(* entry into the book, then either a revert to the snapshot or the next   *)
(* order, and a commit at the end of the block (statedb.go, journal.go;    *)
(* the callers are BRCx/order_processor.go and BRCxlending).               *)
(***************************************************************************)
EXTENDS TradingState

CONSTANTS
  Sizes,       \* the quantities of an order or of a trade
  MaxOrders,   \* orders that enter the book
  MaxChanges   \* journal entries of one order

ASSUME SizesAssumption == Sizes \subseteq Nat \ {0}

VARIABLES
  book,   \* the book
  open,   \* whether an order is being applied, after its Snapshot
  saved   \* the book at that snapshot, while one is open

bookVars == <<book, open, saved>>

BookOrders == [side : Sides, price : Prices, qty : Sizes]
BookItem(o) == [side |-> o.side, price |-> o.price, qty |-> o.qty,
                user |-> "user", relayer |-> "relayer", hash |-> "hash"]

BookInit == book = EmptyBook /\ open = FALSE /\ saved = EmptyBook

(* Snapshot.  The entries of an order that is done are never undone: the   *)
(* journal is empty here and starts with the snapshot.                     *)
Snapshot ==
  /\ ~open
  /\ open' = TRUE
  /\ saved' = book
  /\ UNCHANGED book

CanChange == open /\ Len(book.journal) < MaxChanges

(* The unmatched part of a limit order enters the book.                    *)
RestOrder(o) ==
  /\ CanChange /\ book.nonce < MaxOrders
  /\ book' = InsertOrderItem(SetNonce(book, book.nonce + 1), book.nonce + 1, BookItem(o))
  /\ UNCHANGED <<open, saved>>

(* A trade with the first order at the best price of a side.               *)
Trade(side, v) ==
  LET price == GetBestPrice(book, side)
      id == GetBestOrderId(book, side, price)
      traded == SetLastPrice(SubAmountOrderItem(book, id, price, v, side), price)
  IN /\ CanChange /\ price # 0 /\ id # 0
     /\ v <= Amount(book, <<side, price>>, id)
     /\ book' = SetMediumPrice(traded, price, v)
     /\ UNCHANGED <<open, saved>>

(* The first order at the best price is rejected.                          *)
Reject(side) ==
  LET id == GetBestOrderId(book, side, GetBestPrice(book, side))
  IN /\ CanChange /\ GetBestPrice(book, side) # 0 /\ id # 0
     /\ book' = CancelOrder(book, id, book.items[id])
     /\ UNCHANGED <<open, saved>>

Revert ==
  /\ open
  /\ book' = RevertToSnapshot(book, 0)
  /\ open' = FALSE
  /\ saved' = EmptyBook

Accept ==
  /\ open
  /\ book' = [book EXCEPT !.journal = <<>>]
  /\ open' = FALSE
  /\ saved' = EmptyBook

CommitBlock ==
  /\ ~open
  /\ book' = Commit(book)
  /\ UNCHANGED <<open, saved>>

BookNext ==
  \/ Snapshot \/ Revert \/ Accept \/ CommitBlock
  \/ \E o \in BookOrders : RestOrder(o)
  \/ \E side \in Sides : (\E v \in Sizes : Trade(side, v)) \/ Reject(side)

BookSpec == BookInit /\ [][BookNext]_bookVars

-----------------------------------------------------------------------------
(* A revert gives every order its quantity and every list its volume of    *)
(* the snapshot, and the last and medium prices and the OrderID counter    *)
(* theirs.  The price of an emptied level does not come back into the trie.*)
Resting(x) == [i \in {j \in DOMAIN x.items : x.items[j].qty > 0} |-> x.items[i]]
RevertRestoresOrders ==
  [][Revert => /\ Resting(book') = Resting(saved)
               /\ book'.volume = saved.volume /\ book'.amounts = saved.amounts
               /\ book'.nonce = saved.nonce /\ book'.last = saved.last
               /\ book'.medium = saved.medium /\ book'.total = saved.total]_bookVars
=============================================================================
