---------------------------- MODULE TradingState ----------------------------
(***************************************************************************)
(* The order book of one trading pair as TradingStateDB keeps it           *)
(* (BRCx/tradingstate/statedb.go, state_orderbook.go, state_orderList.go,  *)
(* journal.go): pure operators on a book b, a record of                    *)
(*                                                                         *)
(*   items     OrderID -> order, the order objects (stateOrderObjects and  *)
(*             the orders trie behind them)                                *)
(*   amounts   <<side, price>> -> (OrderID -> amount), the order lists     *)
(*   volume    <<side, price>> -> the list's own total                     *)
(*   tree      side -> the prices in the asks trie or the bids trie, the   *)
(*             only place GetBestAskPrice and GetBestBidPrice look at      *)
(*   known     side -> the prices whose list object exists: in the trie,   *)
(*             or live in stateAskObjects or stateBidObjects               *)
(*   nonce     the last OrderID given out                                  *)
(*   last, medium, total, before   the last price, the average price and   *)
(*             quantity of this epoch, the average of the previous one     *)
(*   journal   the undo entries since the last snapshot                    *)
(*                                                                         *)
(* The trie that a price is deleted from when its list empties and the map *)
(* of live list objects, which keeps the empty list, are separate pieces   *)
(* of state here because they are separate in the code: they agree again   *)
(* when the block is finalised.                                            *)
(***************************************************************************)
EXTENDS Integers, Sequences, FiniteSets, FiniteSetsExt

CONSTANTS Prices    \* the prices orders may name

ASSUME PricesAssumption == Prices \subseteq Nat \ {0}

Sides == {"ask", "bid"}
Levels == Sides \X Prices
Opposite(side) == IF side = "ask" THEN "bid" ELSE "ask"

NoAmounts == [i \in {} |-> 0]
EmptyBook ==
  [items |-> [i \in {} |-> 0],
   amounts |-> [l \in Levels |-> NoAmounts], volume |-> [l \in Levels |-> 0],
   tree |-> [s \in Sides |-> {}], known |-> [s \in Sides |-> {}],
   nonce |-> 0, last |-> 0, medium |-> 0, total |-> 0, before |-> 0,
   journal |-> <<>>]

Put(f, x, y) == [z \in DOMAIN f \cup {x} |-> IF z = x THEN y ELSE f[z]]
Drop(f, x) == [z \in DOMAIN f \ {x} |-> f[z]]

Log(b, entry) == [b EXCEPT !.journal = Append(@, entry)]
LevelOf(o) == <<o.side, o.price>>
Amount(b, l, id) == IF id \in DOMAIN b.amounts[l] THEN b.amounts[l][id] ELSE 0

-----------------------------------------------------------------------------
(* The setters.                                                            *)

SetNonce(b, n) == [Log(b, [op |-> "nonce", prev |-> b.nonce]) EXCEPT !.nonce = n]

SetLastPrice(b, p) == [Log(b, [op |-> "last", prev |-> b.last]) EXCEPT !.last = p]

SetMediumPrice(b, p, q) ==
  [Log(b, [op |-> "medium", price |-> b.medium, qty |-> b.total])
     EXCEPT !.medium = p, !.total = q]

(* InsertOrderItem.  A list that is not known is created, and only then is *)
(* its price written into the trie.                                        *)
InsertOrderItem(b, id, o) ==
  LET l == LevelOf(o)
      fresh == o.price \notin b.known[o.side]
  IN [Log(b, [op |-> "insert", id |-> id, order |-> o]) EXCEPT
        !.items = Put(@, id, o),
        !.amounts[l] = Put(@, id, o.qty),
        !.volume[l] = @ + o.qty,
        !.tree[o.side] = IF fresh THEN @ \cup {o.price} ELSE @,
        !.known[o.side] = @ \cup {o.price}]

(* The list takes amount v off order id, and leaves the trie when empty.   *)
TakeFrom(b, l, id, v, left) ==
  [b EXCEPT
     !.items[id].qty = left,
     !.amounts[l] = IF left = 0 THEN Drop(@, id) ELSE Put(@, id, left),
     !.volume[l] = @ - v,
     !.tree[l[1]] = IF b.volume[l] = v THEN @ \ {l[2]} ELSE @]

(* SubAmountOrderItem; it refuses an empty list, an empty order and an     *)
(* amount the list does not have.                                          *)
SubAmountOrderItem(b, id, price, v, side) ==
  LET l == <<side, price>>
  IN IF \/ price \notin b.known[side] \/ b.volume[l] = 0
        \/ id \notin DOMAIN b.items \/ b.items[id].qty = 0
        \/ Amount(b, l, id) < v
     THEN b
     ELSE TakeFrom(Log(b, [op |-> "sub", id |-> id, order |-> b.items[id], amount |-> v]),
                   l, id, v, Amount(b, l, id) - v)

(* CancelOrder fails on an unknown or empty order, and when the request    *)
(* does not name the user, the hash and the relayer of the order.          *)
CancelFails(b, id, req) ==
  \/ id \notin DOMAIN b.items
  \/ LET o == b.items[id]
         l == LevelOf(o)
     IN \/ o.qty = 0
        \/ o.price \notin b.known[o.side] \/ b.volume[l] = 0
        \/ o.user # req.user \/ o.hash # req.hash \/ o.relayer # req.relayer

CancelOrder(b, id, req) ==
  IF CancelFails(b, id, req) THEN b
  ELSE LET o == b.items[id]
           l == LevelOf(o)
       IN TakeFrom(Log(b, [op |-> "cancel", id |-> id, order |-> o]),
                   l, id, Amount(b, l, id), 0)

-----------------------------------------------------------------------------
(* The getters.                                                            *)

GetBestPrice(b, side) ==
  IF b.tree[side] = {} THEN 0
  ELSE IF side = "ask" THEN Min(b.tree[side]) ELSE Max(b.tree[side])

(* Mutant: the newest order of the list is served first.                   *)
GetNewestOrderId(b, side, price) ==
  LET ids == DOMAIN b.amounts[<<side, price>>]
  IN IF price \notin b.known[side] \/ ids = {} THEN 0 ELSE Max(ids)

(* The lowest OrderID of the list; 0 stands for an empty answer.           *)
GetBestOrderId(b, side, price) ==
  LET ids == DOMAIN b.amounts[<<side, price>>]
  IN IF price \notin b.known[side] \/ ids = {} THEN 0 ELSE Min(ids)

-----------------------------------------------------------------------------
(* The journal.                                                            *)

(* Mutant: the order gets its amount back, its list not its volume.        *)
UndoSubNoVolume(b, e) ==
  LET l == LevelOf(e.order)
      back == b.items[e.id].qty + e.amount
  IN [b EXCEPT !.items[e.id].qty = back, !.amounts[l] = Put(@, e.id, back)]

UndoSub(b, e) ==
  LET l == LevelOf(e.order)
      back == b.items[e.id].qty + e.amount
  IN [b EXCEPT !.items[e.id].qty = back, !.amounts[l] = Put(@, e.id, back),
               !.volume[l] = @ + e.amount]

Undo(b, e) ==
  CASE e.op = "insert" -> CancelOrder(b, e.id, e.order)
    [] e.op = "cancel" -> InsertOrderItem(b, e.id, e.order)
    [] e.op = "sub" -> UndoSub(b, e)
    [] e.op = "nonce" -> SetNonce(b, e.prev)
    [] e.op = "last" -> SetLastPrice(b, e.prev)
    [] e.op = "medium" -> SetMediumPrice(b, e.price, e.qty)

(* RevertToSnapshot: the entries since position snap, the latest first;    *)
(* undone[k] is the book after k of them.                                  *)
RevertToSnapshot(b, snap) ==
  LET count == Len(b.journal) - snap
      undone[k \in 0 .. count] ==
        IF k = 0 THEN b ELSE Undo(undone[k - 1], b.journal[Len(b.journal) + 1 - k])
  IN [undone[count] EXCEPT !.journal = SubSeq(b.journal, 1, snap)]

(* The end of a block: IntermediateRoot writes every list that changed     *)
(* into its trie and deletes the empty ones, Commit stores the tries, and  *)
(* the next block opens a new TradingStateDB on the root.                  *)
Commit(b) ==
  LET listed == [s \in Sides |-> {p \in Prices : b.volume[<<s, p>>] # 0}]
  IN [b EXCEPT !.tree = listed, !.known = listed, !.journal = <<>>,
               !.items = [i \in {j \in DOMAIN @ : @[j].qty # 0} |-> @[i]]]

=============================================================================
