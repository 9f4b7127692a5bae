--------------------------- MODULE OrderBookProofs ---------------------------
(***************************************************************************)
(* A revert of the trading state restores what the snapshot saw, for any   *)
(* prices, any quantities and journals of any length.  Each entry, undone  *)
(* by the setter that RevertToSnapshot calls, leads from a book that shows *)
(* what the later book shows to one that shows what the earlier one did;   *)
(* the emptied orders, prices and lists that undoing leaves behind are not *)
(* part of what a book shows.                                              *)
(***************************************************************************)
EXTENDS OrderBook, FiniteSetTheorems, TLAPS

\* The orders of a book; the names on them are BookItem's.
Item == [side : Sides, price : Prices, qty : Nat,
         user : {"user"}, relayer : {"relayer"}, hash : {"hash"}]

IsFunction(g) == g = [i \in DOMAIN g |-> g[i]]

IsBook(x) ==
  /\ IsFunction(x)
  /\ DOMAIN x = {"items", "amounts", "volume", "tree", "known", "nonce", "last", "medium", "total",
                 "before", "journal"}

IsItems(I) == IsFunction(I) /\ \A i \in DOMAIN I : I[i] \in Item
IsLists(A) == A = [l \in Levels |-> A[l]] /\ \A l \in Levels : IsFunction(A[l])

\* The fields of a book; what the journal entries say does not matter here.
Shape(x) ==
  /\ IsBook(x)
  /\ IsItems(x.items) /\ IsLists(x.amounts)
  /\ x.volume \in [Levels -> Nat]
  /\ x.tree \in [Sides -> SUBSET Prices] /\ x.known \in [Sides -> SUBSET Prices]

\* The orders that have an amount left.
Live(x) == {i \in DOMAIN x.items : x.items[i].qty > 0}

\* One element for each unit of each order of a list: their number is the sum of the
\* amounts of the list.
Unit(i, k) == <<i, k>>
Units(a) == {u \in (DOMAIN a) \X Nat : u[2] \in 1 .. a[u[1]]}
UnitsOf(id, p, q) == {id} \X (p .. q)

\* Orders and lists agree, the volume of a list is the sum of its amounts, and no
\* order with an amount left has an OrderID that was not given out.
BookInv(x) ==
  /\ Shape(x)
  /\ \A l \in Levels : \A i \in DOMAIN x.amounts[l] :
       i \in Live(x) /\ LevelOf(x.items[i]) = l /\ x.items[i].qty = x.amounts[l][i]
  /\ \A i \in Live(x) : i \in DOMAIN x.amounts[LevelOf(x.items[i])]
  /\ \A l \in Levels : IsFiniteSet(Units(x.amounts[l])) /\ x.volume[l] = Cardinality(Units(x.amounts[l]))
  /\ x.nonce \in Nat /\ Live(x) \subseteq 1 .. x.nonce

-----------------------------------------------------------------------------
(* The units of a list *)

\* The units of one order are as many as the range they span.
LEMMA UnitsOfOne ==
  ASSUME NEW id, NEW p \in Int, NEW q \in Int, p <= q + 1
  PROVE  IsFiniteSet(UnitsOf(id, p, q)) /\ Cardinality(UnitsOf(id, p, q)) = q - p + 1
<1>1. IsFiniteSet({id}) /\ Cardinality({id}) = 1
  BY FS_Singleton, Zenon
<1>2. IsFiniteSet(p .. q) /\ Cardinality(p .. q) = IF p > q THEN 0 ELSE q - p + 1
  BY FS_Interval, Zenon
<1>3. /\ IsFiniteSet({id} \X (p .. q))
      /\ Cardinality({id} \X (p .. q)) = Cardinality({id}) * Cardinality(p .. q)
  BY <1>1, <1>2, FS_Product, Zenon
<1>. QED BY <1>1, <1>2, <1>3 DEF UnitsOf

\* What a unit of a list is.
LEMMA UnitOfList ==
  ASSUME NEW a
  PROVE  /\ \A i, k : Unit(i, k) \in Units(a) <=> i \in DOMAIN a /\ k \in Nat /\ k \in 1 .. a[i]
         /\ \A u \in Units(a) : \E i, k : u = Unit(i, k)
  BY DEF Units, Unit

\* What a unit of an order is.
LEMMA UnitOfOrder ==
  ASSUME NEW id, NEW p \in Int, NEW q \in Int
  PROVE  /\ \A i, k : Unit(i, k) \in UnitsOf(id, p, q) <=> i = id /\ k \in Int /\ p <= k /\ k <= q
         /\ \A u \in UnitsOf(id, p, q) : \E i, k : u = Unit(i, k)
  BY DEF UnitsOf, Unit

\* Sets without a common element have as many elements as their union.
LEMMA DisjointUnion ==
  ASSUME NEW S, NEW T, IsFiniteSet(S), IsFiniteSet(T), S \cap T = {}
  PROVE  /\ IsFiniteSet(S \cup T)
         /\ Cardinality(S \cup T) = Cardinality(S) + Cardinality(T)
         /\ Cardinality(S) \in Nat /\ Cardinality(T) \in Nat
<1>1. Cardinality(S) \in Nat /\ Cardinality(T) \in Nat
  BY FS_CardinalityType, Zenon
<1>2. /\ IsFiniteSet(S \cup T)
      /\ Cardinality(S \cup T) = Cardinality(S) + Cardinality(T) - Cardinality(S \cap T)
  BY FS_Union, Zenon
<1>3. Cardinality(S \cap T) = 0
  BY FS_EmptySet, Zenon
<1>. QED BY <1>1, <1>2, <1>3

\* An order that enters a list adds its quantity.
LEMMA UnitsPut ==
  ASSUME NEW a, NEW id, id \notin DOMAIN a, NEW q \in Nat, IsFiniteSet(Units(a))
  PROVE  /\ IsFiniteSet(Units(Put(a, id, q)))
         /\ Cardinality(Units(Put(a, id, q))) = Cardinality(Units(a)) + q
<1>. DEFINE c == Put(a, id, q)
            new == UnitsOf(id, 1, q)
<1>1. IsFiniteSet(new) /\ Cardinality(new) = q
  <2>1. 1 \in Int /\ q \in Int /\ 1 <= q + 1 /\ q - 1 + 1 = q
    OBVIOUS
  <2>. QED BY <2>1, UnitsOfOne, Zenon
<1>2. DOMAIN c = DOMAIN a \cup {id} /\ c[id] = q /\ \A i \in DOMAIN a : c[i] = a[i]
  BY DEF Put
<1>3. /\ \A i, k : Unit(i, k) \in new <=> i = id /\ k \in Int /\ 1 <= k /\ k <= q
      /\ \A u \in new : \E i, k : u = Unit(i, k)
  BY UnitOfOrder
<1>. HIDE DEF c, new
<1>4. \A i, k : /\ Unit(i, k) \in Units(c) <=> Unit(i, k) \in Units(a) \/ Unit(i, k) \in new
                /\ ~(Unit(i, k) \in Units(a) /\ Unit(i, k) \in new)
  BY <1>2, <1>3, UnitOfList
<1>5. \A u \in Units(c) \cup Units(a) : \E i, k : u = Unit(i, k)
  BY UnitOfList
<1>6. Units(c) = Units(a) \cup new
  BY <1>3, <1>4, <1>5
<1>7. Units(a) \cap new = {}
  BY <1>3, <1>4
<1>. QED BY <1>1, <1>6, <1>7, DisjointUnion, Zenon DEF c

\* What is left of n when v is taken, and the units v is made of.
LEMMA Remainder ==
  ASSUME NEW n \in Nat, NEW v \in 0 .. n
  PROVE  /\ n - v \in Nat /\ n - v <= n /\ n - v + 1 \in Int /\ n \in Int
         /\ n - v + 1 <= n + 1 /\ n - (n - v + 1) + 1 = v
OBVIOUS

\* A trade takes its amount off the list, and the list has it.
LEMMA UnitsTake ==
  ASSUME NEW a, NEW id \in DOMAIN a, a[id] \in Nat, NEW v \in 0 .. a[id], IsFiniteSet(Units(a)),
         NEW c, c = IF a[id] - v = 0 THEN Drop(a, id) ELSE Put(a, id, a[id] - v)
  PROVE  /\ IsFiniteSet(Units(c))
         /\ Cardinality(Units(c)) = Cardinality(Units(a)) - v
         /\ v <= Cardinality(Units(a)) /\ Cardinality(Units(a)) \in Nat
<1>. DEFINE left == a[id] - v
            from == left + 1
            old == UnitsOf(id, from, a[id])
<1>1. /\ left \in Nat /\ left <= a[id] /\ from = left + 1 /\ from \in Int /\ a[id] \in Int
      /\ from <= a[id] + 1 /\ a[id] - from + 1 = v
  BY Remainder, Zenon
<1>2. c = IF left = 0 THEN Drop(a, id) ELSE Put(a, id, left)
  OBVIOUS
<1>. HIDE DEF left, from
<1>3. IsFiniteSet(old) /\ Cardinality(old) = v
  BY <1>1, UnitsOfOne, Zenon
<1>4. /\ \A i, k : Unit(i, k) \in old <=> i = id /\ k \in Int /\ from <= k /\ k <= a[id]
      /\ \A u \in old : \E i, k : u = Unit(i, k)
  BY <1>1, UnitOfOrder
<1>. HIDE DEF old
<1>5. /\ \A i \in DOMAIN a \ {id} : i \in DOMAIN c /\ c[i] = a[i]
      /\ DOMAIN c \subseteq DOMAIN a
      /\ id \in DOMAIN c => c[id] = left
      /\ left # 0 => id \in DOMAIN c
  BY <1>2 DEF Drop, Put
<1>6. \A i, k : /\ Unit(i, k) \in Units(a) <=> Unit(i, k) \in Units(c) \/ Unit(i, k) \in old
                /\ ~(Unit(i, k) \in Units(c) /\ Unit(i, k) \in old)
  BY <1>1, <1>4, <1>5, UnitOfList
<1>7. \A u \in Units(c) \cup Units(a) : \E i, k : u = Unit(i, k)
  BY UnitOfList
<1>8. Units(a) = Units(c) \cup old
  BY <1>4, <1>6, <1>7
<1>9. Units(c) \cap old = {}
  BY <1>4, <1>6
<1>10. IsFiniteSet(Units(c))
  BY <1>8, FS_Subset, Zenon
<1>11. /\ Cardinality(Units(a)) = Cardinality(Units(c)) + v
       /\ Cardinality(Units(c)) \in Nat /\ v \in Nat
  BY <1>3, <1>8, <1>9, <1>10, DisjointUnion, Zenon
<1>. QED BY <1>10, <1>11

-----------------------------------------------------------------------------
(* What the setters write *)

\* A journal entry is appended, and nothing else changes.
LEMMA LogFields ==
  ASSUME NEW x, IsBook(x), NEW e, NEW z, z = Log(x, e)
  PROVE  /\ IsBook(z) /\ z.journal = Append(x.journal, e)
         /\ z.items = x.items /\ z.amounts = x.amounts /\ z.volume = x.volume /\ z.tree = x.tree
         /\ z.known = x.known /\ z.nonce = x.nonce /\ z.last = x.last /\ z.medium = x.medium
         /\ z.total = x.total /\ z.before = x.before
  BY Zenon DEF Log, IsBook, IsFunction

\* Updates of several fields, of one list and of one quantity, by name.
With(x, i, a, v) == [x EXCEPT !.items = i, !.amounts = a, !.volume = v]
WithTree(x, i, a, v, t) == [x EXCEPT !.items = i, !.amounts = a, !.volume = v, !.tree = t]
WithKnown(x, i, a, v, t, k) ==
  [x EXCEPT !.items = i, !.amounts = a, !.volume = v, !.tree = t, !.known = k]
SetList(A, l, w) == [A EXCEPT ![l] = w]
AtQty(o, q) == [o EXCEPT !.qty = q]
SetQty(I, id, q) == [I EXCEPT ![id].qty = q]

\* The fields an update does not name stay.
LEMMA Updated ==
  ASSUME NEW x, IsBook(x), NEW i, NEW a, NEW v, NEW y, y = With(x, i, a, v)
  PROVE  /\ IsBook(y) /\ y.items = i /\ y.amounts = a /\ y.volume = v /\ y.tree = x.tree
         /\ y.known = x.known /\ y.nonce = x.nonce /\ y.last = x.last /\ y.medium = x.medium
         /\ y.total = x.total /\ y.journal = x.journal
  BY Zenon DEF IsBook, IsFunction, With

\* The same with the trie.
LEMMA UpdatedTree ==
  ASSUME NEW x, IsBook(x), NEW i, NEW a, NEW v, NEW t, NEW y, y = WithTree(x, i, a, v, t)
  PROVE  /\ IsBook(y) /\ y.items = i /\ y.amounts = a /\ y.volume = v /\ y.tree = t
         /\ y.known = x.known /\ y.nonce = x.nonce /\ y.last = x.last /\ y.medium = x.medium
         /\ y.total = x.total /\ y.journal = x.journal
  BY Zenon DEF IsBook, IsFunction, WithTree

\* The same with the trie and the list objects.
LEMMA UpdatedKnown ==
  ASSUME NEW x, IsBook(x), NEW i, NEW a, NEW v, NEW t, NEW k, NEW y,
         y = WithKnown(x, i, a, v, t, k)
  PROVE  /\ IsBook(y) /\ y.items = i /\ y.amounts = a /\ y.volume = v /\ y.tree = t
         /\ y.known = k /\ y.nonce = x.nonce /\ y.last = x.last /\ y.medium = x.medium
         /\ y.total = x.total /\ y.journal = x.journal
  BY Zenon DEF IsBook, IsFunction, WithKnown

\* Lists stay functions.
LEMMA ListsUpdated ==
  ASSUME NEW A, IsLists(A), NEW l \in Levels, NEW w, IsFunction(w), NEW B, B = SetList(A, l, w)
  PROVE  /\ IsLists(B)
         /\ B[l] = w /\ \A k \in Levels \ {l} : B[k] = A[k]
<1>1. DOMAIN A = Levels
  BY Zenon DEF IsLists
<1>2. B = [k \in Levels |-> IF k = l THEN w ELSE A[k]]
  BY <1>1, Zenon DEF SetList
<1>3. \A k \in Levels : B[k] = IF k = l THEN w ELSE A[k]
  BY <1>2
<1>4. B = [k \in Levels |-> B[k]]
  BY <1>2
<1>. QED BY <1>3, <1>4 DEF IsLists

\* The functions Put and Drop return.
LEMMA PutDrop ==
  /\ \A g, i, w : /\ IsFunction(Put(g, i, w)) /\ DOMAIN Put(g, i, w) = DOMAIN g \cup {i}
                  /\ Put(g, i, w)[i] = w /\ \A k \in DOMAIN g : k # i => Put(g, i, w)[k] = g[k]
  /\ \A g, i : /\ IsFunction(Drop(g, i)) /\ DOMAIN Drop(g, i) = DOMAIN g \ {i}
               /\ \A k \in DOMAIN g : k # i => Drop(g, i)[k] = g[k]
  BY DEF Put, Drop, IsFunction

\* The orders next to one that gets another quantity.
LEMMA QuantityKept ==
  \A I, id, q, i : i \in DOMAIN I /\ i # id => SetQty(I, id, q)[i] = I[i]
  BY DEF SetQty

\* An order with another quantity.
LEMMA QuantityUpdated ==
  ASSUME NEW I, IsItems(I), NEW id \in DOMAIN I,
         NEW q \in Nat, NEW J, J = SetQty(I, id, q)
  PROVE  /\ IsItems(J) /\ DOMAIN J = DOMAIN I
         /\ \A i \in DOMAIN I : i # id => J[i] = I[i]
         /\ J[id] = AtQty(I[id], q)
         /\ J[id].qty = q /\ LevelOf(J[id]) = LevelOf(I[id])
<1>1. J = [I EXCEPT ![id] = [I[id] EXCEPT !.qty = q]]
  BY Zenon DEF SetQty
<1>2. [I[id] EXCEPT !.qty = q] \in Item /\ I[id] \in Item
  BY DEF Item, IsItems
<1>3. [I[id] EXCEPT !.qty = q].qty = q /\ LevelOf([I[id] EXCEPT !.qty = q]) = LevelOf(I[id])
  BY <1>2 DEF Item, LevelOf
<1>. DEFINE o == [I[id] EXCEPT !.qty = q]
<1>4. o \in Item /\ J = [I EXCEPT ![id] = o] /\ o.qty = q /\ LevelOf(o) = LevelOf(I[id])
  BY <1>1, <1>2, <1>3
<1>. HIDE DEF o
<1>5. /\ IsItems(J) /\ DOMAIN J = DOMAIN I
      /\ \A i \in DOMAIN I : i # id => J[i] = I[i]
      /\ J[id] = o
  BY <1>4, Zenon DEF IsItems, IsFunction
<1>6. J[id] = AtQty(I[id], q)
  BY <1>5, Zenon DEF o, AtQty
<1>. QED BY <1>4, <1>5, <1>6

\* What SetNonce leaves of x: y.
NonceSet(x, y, n) ==
  /\ Shape(y) /\ y.journal = Append(x.journal, [op |-> "nonce", prev |-> x.nonce])
  /\ y.items = x.items /\ y.amounts = x.amounts /\ y.volume = x.volume /\ y.known = x.known
  /\ y.nonce = n /\ y.last = x.last /\ y.medium = x.medium /\ y.total = x.total

\* SetNonce.
LEMMA SetNonceFields ==
  ASSUME NEW x, Shape(x), NEW n, NEW y, y = SetNonce(x, n)
  PROVE  NonceSet(x, y, n)
<1>. DEFINE z == Log(x, [op |-> "nonce", prev |-> x.nonce])
<1>1. /\ IsBook(z) /\ z.journal = Append(x.journal, [op |-> "nonce", prev |-> x.nonce])
      /\ z.items = x.items /\ z.amounts = x.amounts /\ z.volume = x.volume /\ z.tree = x.tree
      /\ z.known = x.known /\ z.nonce = x.nonce /\ z.last = x.last /\ z.medium = x.medium
      /\ z.total = x.total
  BY LogFields DEF Shape
<1>2. y = [z EXCEPT !.nonce = n]
  BY Zenon DEF SetNonce
<1>. HIDE DEF z
<1>3. /\ IsBook(y) /\ y.journal = z.journal
      /\ y.items = z.items /\ y.amounts = z.amounts /\ y.volume = z.volume /\ y.tree = z.tree
      /\ y.known = z.known /\ y.nonce = n /\ y.last = z.last /\ y.medium = z.medium
      /\ y.total = z.total
  BY <1>1, <1>2, Zenon DEF IsBook, IsFunction
<1>. QED BY <1>1, <1>3 DEF Shape, NonceSet

\* What SetLastPrice leaves of x: y.
LastSet(x, y, n) ==
  /\ Shape(y) /\ y.journal = Append(x.journal, [op |-> "last", prev |-> x.last])
  /\ y.items = x.items /\ y.amounts = x.amounts /\ y.volume = x.volume /\ y.known = x.known
  /\ y.nonce = x.nonce /\ y.last = n /\ y.medium = x.medium /\ y.total = x.total

\* SetLastPrice.
LEMMA SetLastFields ==
  ASSUME NEW x, Shape(x), NEW n, NEW y, y = SetLastPrice(x, n)
  PROVE  LastSet(x, y, n)
<1>. DEFINE z == Log(x, [op |-> "last", prev |-> x.last])
<1>1. /\ IsBook(z) /\ z.journal = Append(x.journal, [op |-> "last", prev |-> x.last])
      /\ z.items = x.items /\ z.amounts = x.amounts /\ z.volume = x.volume /\ z.tree = x.tree
      /\ z.known = x.known /\ z.nonce = x.nonce /\ z.last = x.last /\ z.medium = x.medium
      /\ z.total = x.total
  BY LogFields DEF Shape
<1>2. y = [z EXCEPT !.last = n]
  BY Zenon DEF SetLastPrice
<1>. HIDE DEF z
<1>3. /\ IsBook(y) /\ y.journal = z.journal
      /\ y.items = z.items /\ y.amounts = z.amounts /\ y.volume = z.volume /\ y.tree = z.tree
      /\ y.known = z.known /\ y.nonce = z.nonce /\ y.last = n /\ y.medium = z.medium /\ y.total = z.total
  BY <1>1, <1>2, Zenon DEF IsBook, IsFunction
<1>. QED BY <1>1, <1>3 DEF Shape, LastSet

\* What SetMediumPrice leaves of x: y.
MediumSet(x, y, n, m) ==
  /\ Shape(y) /\ y.journal = Append(x.journal, [op |-> "medium", price |-> x.medium, qty |-> x.total])
  /\ y.items = x.items /\ y.amounts = x.amounts /\ y.volume = x.volume /\ y.known = x.known
  /\ y.nonce = x.nonce /\ y.last = x.last /\ y.medium = n /\ y.total = m

\* SetMediumPrice.
LEMMA SetMediumFields ==
  ASSUME NEW x, Shape(x), NEW n, NEW m, NEW y, y = SetMediumPrice(x, n, m)
  PROVE  MediumSet(x, y, n, m)
<1>. DEFINE z == Log(x, [op |-> "medium", price |-> x.medium, qty |-> x.total])
<1>1. /\ IsBook(z) /\ z.journal = Append(x.journal, [op |-> "medium", price |-> x.medium, qty |-> x.total])
      /\ z.items = x.items /\ z.amounts = x.amounts /\ z.volume = x.volume /\ z.tree = x.tree
      /\ z.known = x.known /\ z.nonce = x.nonce /\ z.last = x.last /\ z.medium = x.medium
      /\ z.total = x.total
  BY LogFields DEF Shape
<1>2. y = [z EXCEPT !.medium = n, !.total = m]
  BY Zenon DEF SetMediumPrice
<1>. HIDE DEF z
<1>3. /\ IsBook(y) /\ y.journal = z.journal
      /\ y.items = z.items /\ y.amounts = z.amounts /\ y.volume = z.volume /\ y.tree = z.tree
      /\ y.known = z.known /\ y.nonce = z.nonce /\ y.last = z.last /\ y.medium = n /\ y.total = m
  BY <1>1, <1>2, Zenon DEF IsBook, IsFunction
<1>. QED BY <1>1, <1>3 DEF Shape, MediumSet

\* What InsertOrderItem leaves of x: y.
Inserted(x, y, id, o) ==
  /\ Shape(y) /\ y.journal = Append(x.journal, [op |-> "insert", id |-> id, order |-> o])
  /\ y.items = Put(x.items, id, o)
  /\ y.amounts = SetList(x.amounts, LevelOf(o), Put(x.amounts[LevelOf(o)], id, o.qty))
  /\ y.volume = [x.volume EXCEPT ![LevelOf(o)] = @ + o.qty]
  /\ y.known = [x.known EXCEPT ![o.side] = @ \cup {o.price}]
  /\ y.nonce = x.nonce /\ y.last = x.last /\ y.medium = x.medium /\ y.total = x.total

\* InsertOrderItem.
LEMMA InsertFields ==
  ASSUME NEW x, Shape(x), NEW id, NEW o \in Item, NEW y, y = InsertOrderItem(x, id, o)
  PROVE  Inserted(x, y, id, o)
<1>. DEFINE l == LevelOf(o)
            z == Log(x, [op |-> "insert", id |-> id, order |-> o])
            Tree(t) == IF o.price \notin x.known[o.side] THEN t \cup {o.price} ELSE t
<1>1. l \in Levels /\ o.side \in Sides /\ o.price \in Prices /\ o.qty \in Nat
  BY DEF Item, LevelOf, Levels
<1>2. /\ IsBook(z) /\ z.journal = Append(x.journal, [op |-> "insert", id |-> id, order |-> o])
      /\ z.items = x.items /\ z.amounts = x.amounts /\ z.volume = x.volume /\ z.tree = x.tree
      /\ z.known = x.known /\ z.nonce = x.nonce /\ z.last = x.last /\ z.medium = x.medium
      /\ z.total = x.total
  BY LogFields DEF Shape
<1>3. y = [z EXCEPT !.items = Put(@, id, o), !.amounts[l] = Put(@, id, o.qty),
                    !.volume[l] = @ + o.qty, !.tree[o.side] = Tree(@),
                    !.known[o.side] = @ \cup {o.price}]
  BY Zenon DEF InsertOrderItem
<1>. HIDE DEF z, l, Tree
<1>4. /\ IsBook(y) /\ y.journal = z.journal
      /\ y.items = Put(z.items, id, o) /\ y.amounts = SetList(z.amounts, l, Put(z.amounts[l], id, o.qty))
      /\ y.volume = [z.volume EXCEPT ![l] = @ + o.qty]
      /\ y.tree = [z.tree EXCEPT ![o.side] = Tree(@)]
      /\ y.known = [z.known EXCEPT ![o.side] = @ \cup {o.price}]
      /\ y.nonce = z.nonce /\ y.last = z.last /\ y.medium = z.medium /\ y.total = z.total
  <2>. DEFINE I == Put(z.items, id, o)
              A == SetList(z.amounts, l, Put(z.amounts[l], id, o.qty))
              V == [z.volume EXCEPT ![l] = @ + o.qty]
              T == [z.tree EXCEPT ![o.side] = Tree(@)]
              K == [z.known EXCEPT ![o.side] = @ \cup {o.price}]
  <2>1. y = WithKnown(z, I, A, V, T, K)
    BY <1>3, ZenonT(30) DEF WithKnown, SetList
  <2>. HIDE DEF I, A, V, T, K
  <2>2. /\ IsBook(y) /\ y.items = I /\ y.amounts = A /\ y.volume = V /\ y.tree = T /\ y.known = K
        /\ y.nonce = z.nonce /\ y.last = z.last /\ y.medium = z.medium /\ y.total = z.total
        /\ y.journal = z.journal
    BY <1>2, <2>1, UpdatedKnown
  <2>. QED BY <2>2 DEF I, A, V, T, K
<1>5. y.tree \in [Sides -> SUBSET Prices] /\ y.known \in [Sides -> SUBSET Prices]
  BY <1>1, <1>2, <1>4 DEF Shape, Tree
<1>6. y.volume \in [Levels -> Nat]
  BY <1>1, <1>2, <1>4 DEF Shape
<1>7. IsItems(y.items)
  BY <1>2, <1>4 DEF Shape, Put, IsItems, IsFunction
<1>8. IsLists(y.amounts)
  BY <1>1, <1>2, <1>4, PutDrop, ListsUpdated DEF Shape
<1>9. Shape(y)
  BY <1>4, <1>5, <1>6, <1>7, <1>8, Zenon DEF Shape
<1>. QED BY <1>2, <1>4, <1>9 DEF l, Inserted

\* What is left of an order: nothing when the list drops it.
Left(a, id, left) == IF left = 0 THEN Drop(a, id) ELSE Put(a, id, left)

\* What TakeFrom leaves of x: y, with the entry e in the journal.
Taken(x, y, e, l, id, v, left) ==
  /\ Shape(y) /\ y.journal = Append(x.journal, e)
  /\ y.items = SetQty(x.items, id, left)
  /\ y.amounts = SetList(x.amounts, l, Left(x.amounts[l], id, left))
  /\ y.volume = [x.volume EXCEPT ![l] = @ - v] /\ y.known = x.known
  /\ y.nonce = x.nonce /\ y.last = x.last /\ y.medium = x.medium /\ y.total = x.total

\* TakeFrom, with the entry that SubAmountOrderItem or CancelOrder appends.
LEMMA TakeFields ==
  ASSUME NEW x, Shape(x), NEW l \in Levels, NEW id \in DOMAIN x.items, NEW left \in Nat,
         NEW v \in 0 .. x.volume[l], NEW e, NEW y, y = TakeFrom(Log(x, e), l, id, v, left)
  PROVE  Taken(x, y, e, l, id, v, left)
<1>. DEFINE z == Log(x, e)
            Tree(t) == IF z.volume[l] = v THEN t \ {l[2]} ELSE t
<1>1. /\ IsBook(z) /\ z.journal = Append(x.journal, e)
      /\ z.items = x.items /\ z.amounts = x.amounts /\ z.volume = x.volume /\ z.tree = x.tree
      /\ z.known = x.known /\ z.nonce = x.nonce /\ z.last = x.last /\ z.medium = x.medium
      /\ z.total = x.total
  BY LogFields DEF Shape
<1>2. y = [z EXCEPT !.items[id].qty = left, !.amounts[l] = Left(@, id, left), !.volume[l] = @ - v,
                    !.tree[l[1]] = Tree(@)]
  BY Zenon DEF TakeFrom, Left
<1>. HIDE DEF z, Tree
<1>3. /\ IsBook(y) /\ y.journal = z.journal
      /\ y.items = SetQty(z.items, id, left)
      /\ y.amounts = SetList(z.amounts, l, Left(z.amounts[l], id, left))
      /\ y.volume = [z.volume EXCEPT ![l] = @ - v]
      /\ y.tree = [z.tree EXCEPT ![l[1]] = Tree(@)] /\ y.known = z.known
      /\ y.nonce = z.nonce /\ y.last = z.last /\ y.medium = z.medium /\ y.total = z.total
  <2>. DEFINE I == SetQty(z.items, id, left)
              A == SetList(z.amounts, l, Left(z.amounts[l], id, left))
              V == [z.volume EXCEPT ![l] = @ - v]
              T == [z.tree EXCEPT ![l[1]] = Tree(@)]
  <2>1. y = WithTree(z, I, A, V, T)
    BY <1>2, Zenon DEF WithTree, SetList, SetQty
  <2>. HIDE DEF I, A, V, T
  <2>2. /\ IsBook(y) /\ y.items = I /\ y.amounts = A /\ y.volume = V /\ y.tree = T /\ y.known = z.known
        /\ y.nonce = z.nonce /\ y.last = z.last /\ y.medium = z.medium /\ y.total = z.total
        /\ y.journal = z.journal
    BY <1>1, <2>1, UpdatedTree
  <2>. QED BY <2>2 DEF I, A, V, T
<1>4. y.tree \in [Sides -> SUBSET Prices] /\ y.known \in [Sides -> SUBSET Prices]
  <2>1. l[1] \in Sides /\ z.tree \in [Sides -> SUBSET Prices] /\ z.known \in [Sides -> SUBSET Prices]
    BY <1>1 DEF Shape, Levels
  <2>2. Tree(z.tree[l[1]]) \in SUBSET Prices
    BY <2>1 DEF Tree
  <2>. QED BY <1>3, <2>1, <2>2
<1>5. y.volume \in [Levels -> Nat]
  BY <1>1, <1>3 DEF Shape
<1>6. IsItems(y.items)
  BY <1>1, <1>3, QuantityUpdated DEF Shape
<1>7. IsLists(y.amounts)
  <2>1. IsFunction(Left(x.amounts[l], id, left))
    BY PutDrop, Zenon DEF Left
  <2>. QED BY <1>1, <1>3, <2>1, ListsUpdated DEF Shape
<1>8. Shape(y)
  BY <1>3, <1>4, <1>5, <1>6, <1>7 DEF Shape
<1>. QED BY <1>1, <1>3, <1>8 DEF Taken

\* What UndoSub leaves of x: y.
SubUndone(x, y, e, back) ==
  /\ Shape(y)
  /\ y.items = SetQty(x.items, e.id, back)
  /\ y.amounts = SetList(x.amounts, LevelOf(e.order),
                                   Put(x.amounts[LevelOf(e.order)], e.id, back))
  /\ y.volume = [x.volume EXCEPT ![LevelOf(e.order)] = @ + e.amount] /\ y.known = x.known
  /\ y.nonce = x.nonce /\ y.last = x.last /\ y.medium = x.medium /\ y.total = x.total

\* UndoSub.
LEMMA UndoSubFields ==
  ASSUME NEW x, Shape(x), NEW e, e.order \in Item, e.amount \in Nat, e.id \in DOMAIN x.items,
         NEW y, y = UndoSub(x, e), NEW back, back = x.items[e.id].qty + e.amount
  PROVE  SubUndone(x, y, e, back)
<1>. DEFINE l == LevelOf(e.order)
<1>1. l \in Levels /\ back \in Nat
  BY DEF Item, LevelOf, Levels, Shape, IsItems
<1>2. y = [x EXCEPT !.items[e.id].qty = back, !.amounts[l] = Put(@, e.id, back),
                    !.volume[l] = @ + e.amount]
  BY Zenon DEF UndoSub
<1>. HIDE DEF l
<1>3. /\ IsBook(y) /\ y.items = SetQty(x.items, e.id, back)
      /\ y.amounts = SetList(x.amounts, l, Put(x.amounts[l], e.id, back))
      /\ y.volume = [x.volume EXCEPT ![l] = @ + e.amount] /\ y.tree = x.tree /\ y.known = x.known
      /\ y.nonce = x.nonce /\ y.last = x.last /\ y.medium = x.medium /\ y.total = x.total
  <2>. DEFINE I == SetQty(x.items, e.id, back)
              A == SetList(x.amounts, l, Put(x.amounts[l], e.id, back))
              V == [x.volume EXCEPT ![l] = @ + e.amount]
  <2>1. y = With(x, I, A, V)
    BY <1>2, Zenon DEF With, SetList, SetQty
  <2>. HIDE DEF I, A, V
  <2>2. IsBook(x)
    BY DEF Shape
  <2>3. /\ IsBook(y) /\ y.items = I /\ y.amounts = A /\ y.volume = V /\ y.tree = x.tree /\ y.known = x.known
        /\ y.nonce = x.nonce /\ y.last = x.last /\ y.medium = x.medium /\ y.total = x.total
    BY <2>1, <2>2, Updated
  <2>. QED BY <2>3 DEF I, A, V
<1>4. y.volume \in [Levels -> Nat]
  BY <1>1, <1>3 DEF Shape
<1>5. IsItems(y.items)
  BY <1>1, <1>3, QuantityUpdated DEF Shape
<1>6. IsLists(y.amounts)
  BY <1>1, <1>3, PutDrop, ListsUpdated DEF Shape
<1>7. Shape(y)
  BY <1>3, <1>4, <1>5, <1>6 DEF Shape
<1>. QED BY <1>3, <1>7 DEF l, SubUndone

-----------------------------------------------------------------------------
(* Undoing a journal *)

\* f[k] is what the last k entries of the journal j undone leave of the book u.
After(f, u, j, k) == IF k = 0 THEN u ELSE Undo(f[k - 1], j[Len(j) + 1 - k])
Chain(f, u, j) == f = [k \in 0 .. Len(j) |-> After(f, u, j, k)]

StepByStep(f, u, j) ==
  /\ IsFunction(f) /\ DOMAIN f = 0 .. Len(j) /\ f[0] = u
  /\ \A k \in 1 .. Len(j) : f[k] = Undo(f[k - 1], j[Len(j) + 1 - k])

\* u shows what the book h shows: the lists, the prices and the counter, and the orders of
\* the set K; every other order of u is empty.
Like(K, u, h) ==
  /\ Shape(u) /\ u.amounts = h.amounts /\ u.volume = h.volume
  /\ u.nonce = h.nonce /\ u.last = h.last /\ u.medium = h.medium /\ u.total = h.total
  /\ \A i \in K : i \in DOMAIN u.items /\ u.items[i] = h.items[i]
  /\ \A i \in DOMAIN u.items \ K : u.items[i].qty = 0
  /\ \A s \in Sides : h.known[s] \subseteq u.known[s]

\* Undoing the entry e leads from what y shows to what x shows.
Undoes(e, L, y, K, x) == \A u : Like(L, u, y) => Like(K, Undo(u, e), x)

\* Undoing the journal of x leads from what x shows to what s shows.
Restores(K, x, s) ==
  \A u : Like(K, u, x) =>
    /\ \E f : Chain(f, u, x.journal)
    /\ \A f : Chain(f, u, x.journal) => Like(Live(s), f[Len(x.journal)], s)

IsJournal(j) == \E S : j \in Seq(S)

\* One more entry.
LEMMA Appended ==
  ASSUME NEW j, IsJournal(j), NEW e, NEW y, y = Append(j, e)
  PROVE  /\ IsJournal(y) /\ Len(j) \in Nat /\ Len(y) = Len(j) + 1
         /\ y[Len(j) + 1] = e /\ \A i \in 1 .. Len(j) : y[i] = j[i]
<1>1. PICK S : j \in Seq(S)
  BY DEF IsJournal
<1>2. j \in Seq(S \cup {e})
  BY <1>1
<1>3. y \in Seq(S \cup {e})
  BY <1>2
<1>. QED BY <1>2, <1>3 DEF IsJournal

\* A chain, entry by entry.
LEMMA ChainSteps ==
  ASSUME NEW f, NEW u, NEW j, Len(j) \in Nat
  PROVE  Chain(f, u, j) <=> StepByStep(f, u, j)
<1>1. Chain(f, u, j) <=> /\ IsFunction(f) /\ DOMAIN f = 0 .. Len(j)
                         /\ \A k \in 0 .. Len(j) : f[k] = After(f, u, j, k)
  BY DEF Chain, IsFunction
<1>2. After(f, u, j, 0) = u
  BY DEF After
<1>3. \A k \in 1 .. Len(j) : k # 0 /\ k \in 0 .. Len(j)
  OBVIOUS
<1>4. \A k \in 1 .. Len(j) : After(f, u, j, k) = Undo(f[k - 1], j[Len(j) + 1 - k])
  BY <1>3, Zenon DEF After
<1>5. 0 \in 0 .. Len(j) /\ \A k \in 0 .. Len(j) : k = 0 \/ k \in 1 .. Len(j)
  OBVIOUS
<1>. QED BY <1>1, <1>2, <1>3, <1>4, <1>5, Zenon DEF StepByStep

\* The first entry undone, then the rest.
LEMMA ChainTail ==
  ASSUME NEW j, IsJournal(j), NEW e, NEW u, NEW f, Chain(f, u, Append(j, e)),
         NEW g, g = [k \in 0 .. Len(j) |-> f[k + 1]]
  PROVE  Chain(g, Undo(u, e), j) /\ g[Len(j)] = f[Len(Append(j, e))]
<1>. DEFINE y == Append(j, e)
            n == Len(j)
<1>1. n \in Nat /\ Len(y) = n + 1 /\ y[n + 1] = e /\ \A i \in 1 .. n : y[i] = j[i]
  BY Appended
<1>a. Chain(f, u, y) /\ Len(y) \in Nat
  BY <1>1
<1>. HIDE DEF y
<1>b. StepByStep(f, u, y)
  BY <1>a, ChainSteps, Zenon
<1>2. f[0] = u /\ \A k \in 1 .. Len(y) : f[k] = Undo(f[k - 1], y[Len(y) + 1 - k])
  BY <1>b, Zenon DEF StepByStep
<1>3. \A k \in 0 .. n : f[k + 1] = Undo(f[k], y[n + 1 - k])
  <2>. TAKE k \in 0 .. n
  <2>1. k + 1 \in 1 .. Len(y) /\ (k + 1) - 1 = k /\ Len(y) + 1 - (k + 1) = n + 1 - k
    BY <1>1
  <2>. DEFINE m == k + 1
  <2>2. f[m] = Undo(f[m - 1], y[Len(y) + 1 - m])
    BY <1>2, <2>1, Zenon
  <2>. QED BY <2>1, <2>2, Zenon
<1>4. f[1] = Undo(u, e)
  <2>1. 0 \in 0 .. n /\ 0 + 1 = 1 /\ n + 1 - 0 = n + 1
    BY <1>1
  <2>. QED BY <1>1, <1>2, <1>3, <2>1
<1>5. IsFunction(g) /\ DOMAIN g = 0 .. n /\ \A k \in 0 .. n : g[k] = f[k + 1]
  BY DEF IsFunction
<1>6. \A k \in 1 .. n : g[k] = Undo(g[k - 1], j[n + 1 - k])
  <2>. TAKE k \in 1 .. n
  <2>1. k - 1 \in 0 .. n /\ k \in 0 .. n /\ (k - 1) + 1 = k /\ n + 1 - k \in 1 .. n
    BY <1>1
  <2>2. g[k - 1] = f[k] /\ g[k] = f[k + 1] /\ y[n + 1 - k] = j[n + 1 - k]
    BY <1>1, <1>5, <2>1
  <2>. QED BY <1>3, <2>1, <2>2
<1>7. g[0] = Undo(u, e) /\ g[n] = f[n + 1]
  BY <1>1, <1>4, <1>5
<1>8. StepByStep(g, Undo(u, e), j)
  BY <1>5, <1>6, <1>7, Zenon DEF StepByStep
<1>9. Chain(g, Undo(u, e), j)
  BY <1>1, <1>8, ChainSteps, Zenon
<1>. QED BY <1>1, <1>7, <1>9 DEF y

\* A chain for the rest, with the book before it, is a chain for the whole.
LEMMA ChainCons ==
  ASSUME NEW j, IsJournal(j), NEW e, NEW u, NEW g, Chain(g, Undo(u, e), j),
         NEW f, f = [k \in 0 .. Len(j) + 1 |-> IF k = 0 THEN u ELSE g[k - 1]]
  PROVE  Chain(f, u, Append(j, e))
<1>. DEFINE y == Append(j, e)
            n == Len(j)
<1>1. n \in Nat /\ Len(y) = n + 1 /\ y[n + 1] = e /\ \A i \in 1 .. n : y[i] = j[i]
  BY Appended
<1>a. StepByStep(g, Undo(u, e), j)
  BY <1>1, ChainSteps, Zenon
<1>2. g[0] = Undo(u, e) /\ \A k \in 1 .. n : g[k] = Undo(g[k - 1], j[n + 1 - k])
  BY <1>a, Zenon DEF StepByStep
<1>3. IsFunction(f) /\ DOMAIN f = 0 .. n + 1 /\ f[0] = u /\ \A k \in 1 .. n + 1 : f[k] = g[k - 1]
  BY <1>1 DEF IsFunction
<1>. HIDE DEF y
<1>4. \A k \in 1 .. n + 1 : f[k] = Undo(f[k - 1], y[n + 2 - k])
  <2>. TAKE k \in 1 .. n + 1
  <2>1. CASE k = 1
    BY <1>1, <1>2, <1>3, <2>1
  <2>2. CASE k # 1
    <3>. DEFINE m == k - 1
    <3>1. m \in 1 .. n /\ m \in 1 .. n + 1 /\ n + 1 - m = n + 2 - k /\ n + 2 - k \in 1 .. n
      BY <1>1, <2>2
    <3>2. f[k] = g[m] /\ f[m] = g[m - 1]
      BY <1>3, <3>1, Zenon
    <3>3. g[m] = Undo(g[m - 1], j[n + 1 - m])
      BY <1>2, <3>1, Zenon
    <3>. QED BY <1>1, <3>1, <3>2, <3>3, Zenon
  <2>. QED BY <2>1, <2>2
<1>5. Len(y) \in Nat /\ DOMAIN f = 0 .. Len(y)
  BY <1>1, <1>3
<1>6. \A k \in 1 .. Len(y) : f[k] = Undo(f[k - 1], y[Len(y) + 1 - k])
  <2>. TAKE k \in 1 .. Len(y)
  <2>1. k \in 1 .. n + 1 /\ Len(y) + 1 - k = n + 2 - k
    BY <1>1
  <2>. QED BY <1>4, <2>1, Zenon
<1>7. Chain(f, u, y)
  BY <1>3, <1>5, <1>6, ChainSteps, ZenonT(30) DEF StepByStep
<1>. QED BY <1>7 DEF y

\* A change whose entry undoes it can be added to what a revert undoes.
LEMMA OneMore ==
  ASSUME NEW x, NEW s, NEW K, Restores(K, x, s), IsJournal(x.journal),
         NEW y, NEW L, NEW e, y.journal = Append(x.journal, e), Undoes(e, L, y, K, x)
  PROVE  Restores(L, y, s) /\ IsJournal(y.journal)
<1>. DEFINE j == x.journal
<1>1. IsJournal(y.journal) /\ Len(j) \in Nat
  <2>. DEFINE yj == y.journal
  <2>1. yj = Append(j, e) /\ IsJournal(j)
    OBVIOUS
  <2>. HIDE DEF yj, j
  <2>2. IsJournal(yj) /\ Len(j) \in Nat
    BY <2>1, Appended, Zenon
  <2>. QED BY <2>2 DEF yj, j
<1>2. ASSUME NEW u, Like(L, u, y)
      PROVE  \E f : Chain(f, u, y.journal)
  <2>1. Like(K, Undo(u, e), x)
    BY <1>2 DEF Undoes
  <2>2. PICK g : Chain(g, Undo(u, e), j)
    BY <2>1, Zenon DEF Restores
  <2>. DEFINE f == [k \in 0 .. Len(j) + 1 |-> IF k = 0 THEN u ELSE g[k - 1]]
  <2>3. f = [k \in 0 .. Len(j) + 1 |-> IF k = 0 THEN u ELSE g[k - 1]]
    OBVIOUS
  <2>. HIDE DEF f
  <2>4. Chain(f, u, Append(j, e))
    BY <2>2, <2>3, ChainCons, Zenon
  <2>. QED BY <2>4, Zenon
<1>3. ASSUME NEW u, Like(L, u, y), NEW f, Chain(f, u, y.journal)
      PROVE  Like(Live(s), f[Len(y.journal)], s)
  <2>1. Like(K, Undo(u, e), x)
    BY <1>3 DEF Undoes
  <2>. DEFINE g == [k \in 0 .. Len(j) |-> f[k + 1]]
  <2>2. g = [k \in 0 .. Len(j) |-> f[k + 1]]
    OBVIOUS
  <2>. HIDE DEF g
  <2>a. Chain(f, u, Append(j, e))
    BY <1>3, Zenon
  <2>c. IsJournal(j)
    OBVIOUS
  <2>b. Chain(g, Undo(u, e), j) /\ g[Len(j)] = f[Len(Append(j, e))]
    <3>. HIDE DEF j
    <3>. QED BY <2>a, <2>c, <2>2, ChainTail
  <2>3. Chain(g, Undo(u, e), j) /\ g[Len(j)] = f[Len(y.journal)]
    BY <2>b, Zenon
  <2>4. Like(Live(s), g[Len(j)], s)
    BY <2>1, <2>3, Zenon DEF Restores
  <2>. QED BY <2>3, <2>4, Zenon
<1>. QED BY <1>1, <1>2, <1>3, Zenon DEF Restores

\* RevertToSnapshot, when every entry undoes its change.
LEMMA Reverted ==
  ASSUME NEW x, NEW s, NEW K, Restores(K, x, s), IsJournal(x.journal), Like(K, x, x),
         NEW y, y = RevertToSnapshot(x, 0)
  PROVE  Like(Live(s), y, s) /\ y.journal = << >>
<1>. DEFINE j == x.journal
            h == CHOOSE f : Chain(f, x, j)
            c == h[Len(j)]
<1>1. Chain(h, x, j)
  <2>1. \E f : Chain(f, x, j)
    BY Zenon DEF Restores
  <2>. QED BY <2>1, Zenon
<1>2. Like(Live(s), c, s)
  BY <1>1, Zenon DEF Restores
<1>3. Len(j) \in Nat /\ Len(j) - 0 = Len(j) /\ SubSeq(j, 1, 0) = << >>
  BY DEF IsJournal
<1>4. y = [c EXCEPT !.journal = SubSeq(j, 1, 0)]
  <2>1. \A f : Chain(f, x, j) <=> f = [k \in 0 .. Len(j) |-> IF k = 0 THEN x ELSE Undo(f[k - 1], j[Len(j) + 1 - k])]
    BY Zenon DEF Chain, After
  <2>. DEFINE G(f) == f = [k \in 0 .. Len(j) - 0 |-> IF k = 0 THEN x ELSE Undo(f[k - 1], j[Len(j) + 1 - k])]
              d == CHOOSE f : G(f)
  <2>2. y = [d[Len(j) - 0] EXCEPT !.journal = SubSeq(j, 1, 0)]
    BY Zenon DEF RevertToSnapshot
  <2>3. \A f : G(f) <=> Chain(f, x, j)
    BY <1>3, <2>1, Zenon
  <2>. HIDE DEF G
  <2>4. d = h
    BY <2>3, Zenon
  <2>. QED BY <1>3, <2>2, <2>4, Zenon
<1>. HIDE DEF c
<1>5. IsBook(c)
  BY <1>2 DEF Like, Shape
<1>6. y = [c EXCEPT !.journal = << >>]
  BY <1>3, <1>4, Zenon
<1>7. /\ IsBook(y) /\ y.items = c.items /\ y.amounts = c.amounts /\ y.volume = c.volume
      /\ y.tree = c.tree /\ y.known = c.known /\ y.nonce = c.nonce /\ y.last = c.last
      /\ y.medium = c.medium /\ y.total = c.total /\ y.journal = << >>
  BY <1>5, <1>6, Zenon DEF IsBook, IsFunction
<1>8. Shape(y)
  BY <1>2, <1>7 DEF Like, Shape
<1>. QED BY <1>2, <1>7, <1>8 DEF Like

-----------------------------------------------------------------------------
(* Each entry undoes its change *)

\* What Undo calls for each kind of entry.
LEMMA UndoCalls ==
  ASSUME NEW u
  PROVE  /\ \A n : Undo(u, [op |-> "nonce", prev |-> n]) = SetNonce(u, n)
         /\ \A p : Undo(u, [op |-> "last", prev |-> p]) = SetLastPrice(u, p)
         /\ \A p, q : Undo(u, [op |-> "medium", price |-> p, qty |-> q]) = SetMediumPrice(u, p, q)
         /\ \A id, o : Undo(u, [op |-> "insert", id |-> id, order |-> o]) = CancelOrder(u, id, o)
         /\ \A id, o : Undo(u, [op |-> "cancel", id |-> id, order |-> o]) = InsertOrderItem(u, id, o)
         /\ \A id, o, v : LET e == [op |-> "sub", id |-> id, order |-> o, amount |-> v]
                          IN Undo(u, e) = UndoSub(u, e)
  BY DEF Undo

\* SetNonce.
LEMMA UndoNonce ==
  ASSUME NEW x, Shape(x), NEW n, NEW y, y = SetNonce(x, n), NEW K
  PROVE  Undoes([op |-> "nonce", prev |-> x.nonce], K, y, K, x)
<1>. SUFFICES ASSUME NEW u, Like(K, u, y)
              PROVE  Like(K, Undo(u, [op |-> "nonce", prev |-> x.nonce]), x)
  BY DEF Undoes
<1>. DEFINE w == Undo(u, [op |-> "nonce", prev |-> x.nonce])
<1>1. w = SetNonce(u, x.nonce)
  BY UndoCalls, Zenon
<1>. HIDE DEF w
<1>2. Shape(u)
  BY DEF Like
<1>3. NonceSet(u, w, x.nonce)
  BY <1>1, <1>2, SetNonceFields
<1>4. NonceSet(x, y, n)
  BY SetNonceFields, Zenon
<1>5. Like(K, w, x)
  BY <1>3, <1>4 DEF Like, NonceSet
<1>. QED BY <1>5 DEF w

\* SetLastPrice.
LEMMA UndoLast ==
  ASSUME NEW x, Shape(x), NEW p, NEW y, y = SetLastPrice(x, p), NEW K
  PROVE  Undoes([op |-> "last", prev |-> x.last], K, y, K, x)
<1>. SUFFICES ASSUME NEW u, Like(K, u, y)
              PROVE  Like(K, Undo(u, [op |-> "last", prev |-> x.last]), x)
  BY DEF Undoes
<1>. DEFINE w == Undo(u, [op |-> "last", prev |-> x.last])
<1>1. w = SetLastPrice(u, x.last)
  BY UndoCalls, Zenon
<1>. HIDE DEF w
<1>2. Shape(u)
  BY DEF Like
<1>3. LastSet(u, w, x.last)
  BY <1>1, <1>2, SetLastFields, ZenonT(30)
<1>4. LastSet(x, y, p)
  BY SetLastFields
<1>5. Like(K, w, x)
  BY <1>3, <1>4 DEF Like, LastSet
<1>. QED BY <1>5 DEF w

\* SetMediumPrice.
LEMMA UndoMedium ==
  ASSUME NEW x, Shape(x), NEW p, NEW q, NEW y, y = SetMediumPrice(x, p, q), NEW K
  PROVE  Undoes([op |-> "medium", price |-> x.medium, qty |-> x.total], K, y, K, x)
<1>. SUFFICES ASSUME NEW u, Like(K, u, y)
              PROVE  Like(K, Undo(u, [op |-> "medium", price |-> x.medium, qty |-> x.total]), x)
  BY DEF Undoes
<1>. DEFINE w == Undo(u, [op |-> "medium", price |-> x.medium, qty |-> x.total])
<1>1. w = SetMediumPrice(u, x.medium, x.total)
  BY UndoCalls, Zenon
<1>. HIDE DEF w
<1>2. Shape(u)
  BY DEF Like
<1>3. MediumSet(u, w, x.medium, x.total)
  BY <1>1, <1>2, SetMediumFields, Zenon
<1>4. MediumSet(x, y, p, q)
  BY SetMediumFields, Zenon
<1>5. Like(K, w, x)
  BY <1>3, <1>4 DEF Like, MediumSet
<1>. QED BY <1>5 DEF w

\* What an order leaves and what comes back make the list it was.
LEMMA AmountBack ==
  ASSUME NEW a, IsFunction(a), NEW id, NEW q
  PROVE  /\ id \notin DOMAIN a => Left(Put(a, id, q), id, 0) = a
         /\ id \in DOMAIN a => Put(Left(a, id, q), id, a[id]) = a
<1>1. a = [i \in DOMAIN a |-> a[i]]
  BY DEF IsFunction
<1>2. ASSUME id \notin DOMAIN a
      PROVE  Drop(Put(a, id, q), id) = a
  BY <1>1, <1>2 DEF Put, Drop
<1>3. ASSUME id \in DOMAIN a
      PROVE  Put(Drop(a, id), id, a[id]) = a
  BY <1>1, <1>3, Zenon DEF Put, Drop
<1>4. ASSUME id \in DOMAIN a
      PROVE  Put(Put(a, id, q), id, a[id]) = a
  BY <1>1, <1>4 DEF Put
<1>. QED BY <1>2, <1>3, <1>4 DEF Left

\* A list written twice.
LEMMA ListBack ==
  ASSUME NEW A, IsLists(A), NEW l \in Levels, NEW b, NEW c, c = A[l]
  PROVE  /\ SetList(SetList(A, l, b), l, c) = A
         /\ SetList(A, l, b)[l] = b
<1>1. A = [k \in Levels |-> A[k]] /\ DOMAIN A = Levels
  BY Zenon DEF IsLists
<1>. DEFINE B == SetList(A, l, b)
<1>2. B = [k \in Levels |-> IF k = l THEN b ELSE A[k]]
  BY <1>1 DEF SetList
<1>3. DOMAIN B = Levels /\ B[l] = b /\ \A k \in Levels : k # l => B[k] = A[k]
  BY <1>2
<1>. HIDE DEF B
<1>. DEFINE C == SetList(B, l, c)
<1>4. C = [k \in Levels |-> IF k = l THEN c ELSE B[k]]
  BY <1>3, Zenon DEF SetList
<1>. HIDE DEF C
<1>5. C = A
  BY <1>1, <1>3, <1>4
<1>. QED BY <1>3, <1>5 DEF B, C

\* A cancel that does not fail.
LEMMA Cancelled ==
  ASSUME NEW u, NEW id, NEW req, ~CancelFails(u, id, req)
  PROVE  CancelOrder(u, id, req)
           = TakeFrom(Log(u, [op |-> "cancel", id |-> id, order |-> u.items[id]]),
                      LevelOf(u.items[id]), id, Amount(u, LevelOf(u.items[id]), id), 0)
  BY Zenon DEF CancelOrder

\* InsertOrderItem is undone by CancelOrder.
LEMMA UndoInsert ==
  ASSUME NEW x, BookInv(x), NEW K, Live(x) \subseteq K, K \subseteq DOMAIN x.items,
         NEW id, id \notin K, NEW o \in Item, o.qty > 0, NEW y, y = InsertOrderItem(x, id, o)
  PROVE  Undoes([op |-> "insert", id |-> id, order |-> o], K \cup {id}, y, K, x)
<1>. SUFFICES ASSUME NEW u, Like(K \cup {id}, u, y)
              PROVE  Like(K, Undo(u, [op |-> "insert", id |-> id, order |-> o]), x)
  BY DEF Undoes
<1>. DEFINE w == Undo(u, [op |-> "insert", id |-> id, order |-> o])
            l == LevelOf(o)
            a == x.amounts[l]
            e == [op |-> "cancel", id |-> id, order |-> o]
<1>1. w = CancelOrder(u, id, o)
  BY UndoCalls, Zenon
<1>2. Shape(x) /\ IsLists(x.amounts) /\ Shape(u) /\ o.qty \in Nat /\ x.volume \in [Levels -> Nat]
  BY DEF BookInv, Like, Shape, Item
<1>3. Inserted(x, y, id, o)
  BY <1>2, InsertFields
<1>4. l \in Levels /\ o.side \in Sides /\ o.price \in Prices /\ l[1] = o.side /\ l[2] = o.price
  BY Zenon DEF Item, LevelOf, Levels
<1>. HIDE DEF w, l, e
<1>5. IsFunction(a) /\ id \notin DOMAIN a
  BY <1>2, <1>4, Zenon DEF BookInv, IsLists
<1>6. id \in DOMAIN u.items /\ u.items[id] = o /\ \A i \in K : i \in DOMAIN u.items /\ u.items[i] = x.items[i]
  <2>1. y.items = Put(x.items, id, o)
    BY <1>3, Zenon DEF Inserted
  <2>2. y.items[id] = o /\ \A i \in K : y.items[i] = x.items[i]
    BY <2>1, PutDrop
  <2>. QED BY <2>2 DEF Like
<1>7. u.amounts = SetList(x.amounts, l, Put(a, id, o.qty)) /\ u.amounts[l] = Put(a, id, o.qty)
  <2>1. u.amounts = SetList(x.amounts, l, Put(a, id, o.qty))
    BY <1>3, Zenon DEF Inserted, Like, l
  <2>. QED BY <1>2, <1>4, <2>1, ListBack
<1>8. u.volume = [x.volume EXCEPT ![l] = @ + o.qty] /\ u.volume[l] = x.volume[l] + o.qty
  BY <1>2, <1>3, <1>4 DEF Inserted, Like, l
<1>9. o.price \in u.known[o.side]
  BY <1>2, <1>3, <1>4, ZenonT(30) DEF Inserted, Like, Shape
<1>10. ~CancelFails(u, id, o)
  BY <1>2, <1>4, <1>6, <1>8, <1>9 DEF CancelFails, l
<1>11. Amount(u, l, id) = o.qty
  <2>1. id \in DOMAIN Put(a, id, o.qty) /\ Put(a, id, o.qty)[id] = o.qty
    BY DEF Put
  <2>. QED BY <1>7, <2>1, Zenon DEF Amount
<1>12. w = TakeFrom(Log(u, e), l, id, o.qty, 0)
  BY <1>1, <1>6, <1>10, <1>11, Cancelled, Zenon DEF e, l
<1>13. Taken(u, w, e, l, id, o.qty, 0)
  <2>1. o.qty \in 0 .. u.volume[l] /\ 0 \in Nat
    BY <1>2, <1>4, <1>8
  <2>. QED BY <1>2, <1>4, <1>6, <1>12, <2>1, TakeFields, Zenon
<1>14. w.amounts = x.amounts
  <2>1. w.amounts = SetList(u.amounts, l, Left(u.amounts[l], id, 0))
    BY <1>13, Zenon DEF Taken
  <2>2. Left(u.amounts[l], id, 0) = a
    BY <1>5, <1>7, AmountBack
  <2>. QED BY <1>2, <1>4, <1>7, <2>1, <2>2, ListBack
<1>15. w.volume = x.volume
  BY <1>2, <1>4, <1>8, <1>13 DEF Taken
<1>16. /\ \A i \in K : i \in DOMAIN w.items /\ w.items[i] = x.items[i]
       /\ \A i \in DOMAIN w.items \ K : w.items[i].qty = 0
  <2>1. w.items = SetQty(u.items, id, 0) /\ IsItems(u.items)
    BY <1>2, <1>13, ZenonT(30) DEF Taken, Shape
  <2>2. /\ DOMAIN w.items = DOMAIN u.items /\ w.items[id].qty = 0
        /\ \A i \in DOMAIN u.items : i # id => w.items[i] = u.items[i]
    BY <1>6, <2>1, QuantityUpdated, SMTT(30)
  <2>. QED BY <1>6, <2>2 DEF Like
<1>17. \A s \in Sides : x.known[s] \subseteq w.known[s]
  <2>1. x.known \in [Sides -> SUBSET Prices] /\ o.side \in Sides
    BY <1>2, <1>4, Zenon DEF Shape
  <2>2. y.known = [x.known EXCEPT ![o.side] = @ \cup {o.price}]
    BY <1>3, Zenon DEF Inserted
  <2>3. \A s \in Sides : x.known[s] \subseteq y.known[s]
    BY <2>1, <2>2
  <2>4. w.known = u.known
    BY <1>13, Zenon DEF Taken
  <2>5. \A s \in Sides : y.known[s] \subseteq u.known[s]
    BY Zenon DEF Like
  <2>. QED BY <2>3, <2>4, <2>5, Zenon
<1>18. Shape(w) /\ w.nonce = x.nonce /\ w.last = x.last /\ w.medium = x.medium /\ w.total = x.total
  BY <1>3, <1>13, Zenon DEF Inserted, Taken, Like
<1>19. Like(K, w, x)
  BY <1>14, <1>15, <1>16, <1>17, <1>18, Zenon DEF Like
<1>. QED BY <1>19 DEF w

\* CancelOrder is undone by InsertOrderItem.
LEMMA UndoCancel ==
  ASSUME NEW x, BookInv(x), NEW K, Live(x) \subseteq K, K \subseteq DOMAIN x.items,
         NEW l \in Levels, NEW id \in DOMAIN x.amounts[l], NEW o, o = x.items[id],
         NEW e, NEW y, Taken(x, y, e, l, id, x.amounts[l][id], 0)
  PROVE  Undoes([op |-> "cancel", id |-> id, order |-> o], K, y, K, x)
<1>. SUFFICES ASSUME NEW u, Like(K, u, y)
              PROVE  Like(K, Undo(u, [op |-> "cancel", id |-> id, order |-> o]), x)
  BY DEF Undoes
<1>. DEFINE w == Undo(u, [op |-> "cancel", id |-> id, order |-> o])
            a == x.amounts[l]
<1>1. w = InsertOrderItem(u, id, o)
  BY UndoCalls, Zenon
<1>. HIDE DEF w
<1>2. /\ Shape(x) /\ IsLists(x.amounts) /\ IsItems(x.items) /\ Shape(u) /\ IsItems(u.items)
      /\ x.volume \in [Levels -> Nat]
  BY ZenonT(30) DEF BookInv, Like, Shape
<1>3. id \in Live(x) /\ id \in DOMAIN x.items /\ LevelOf(o) = l /\ o.qty = a[id] /\ o \in Item
  BY <1>2, Zenon DEF BookInv, Live, IsItems
<1>4. o.side \in Sides /\ o.price \in Prices /\ o.qty \in Nat
  BY <1>3, Zenon DEF Item
<1>5. Inserted(u, w, id, o)
  BY <1>1, <1>2, <1>3, InsertFields, Zenon
<1>6. IsFunction(a)
  BY <1>2, ZenonT(30) DEF IsLists
<1>7. u.amounts = SetList(x.amounts, l, Left(a, id, 0)) /\ u.amounts[l] = Left(a, id, 0)
  <2>1. u.amounts = SetList(x.amounts, l, Left(a, id, 0))
    BY Zenon DEF Taken, Like
  <2>. QED BY <1>2, <2>1, ListBack, SMTT(30)
<1>8. w.amounts = x.amounts
  <2>1. w.amounts = SetList(u.amounts, l, Put(u.amounts[l], id, a[id]))
    BY <1>3, <1>5, ZenonT(30) DEF Inserted
  <2>2. Put(u.amounts[l], id, a[id]) = a
    BY <1>6, <1>7, AmountBack
  <2>3. SetList(SetList(x.amounts, l, Left(a, id, 0)), l, a) = x.amounts
    BY <1>2, ListBack
  <2>. QED BY <1>7, <2>1, <2>2, <2>3, Zenon
<1>9. w.volume = x.volume
  <2>1. u.volume = [x.volume EXCEPT ![l] = @ - o.qty]
    BY <1>3, Zenon DEF Taken, Like
  <2>2. w.volume = [u.volume EXCEPT ![l] = @ + o.qty]
    BY <1>3, <1>5, ZenonT(30) DEF Inserted
  <2>. QED BY <1>2, <1>4, <2>1, <2>2
<1>10. \A i \in K : i # id => i \in DOMAIN u.items /\ u.items[i] = x.items[i]
  <2>1. y.items = SetQty(x.items, id, 0) /\ 0 \in Nat
    BY Zenon DEF Taken
  <2>2. \A i \in DOMAIN x.items : i # id => SetQty(x.items, id, 0)[i] = x.items[i]
    BY QuantityKept
  <2>. QED BY <2>1, <2>2, Zenon DEF Like
<1>11. /\ \A i \in K : i \in DOMAIN w.items /\ w.items[i] = x.items[i]
       /\ \A i \in DOMAIN w.items \ K : w.items[i].qty = 0
  <2>1. w.items = Put(u.items, id, o)
    BY <1>5, Zenon DEF Inserted
  <2>2. /\ DOMAIN w.items = DOMAIN u.items \cup {id} /\ w.items[id] = o
        /\ \A i \in DOMAIN u.items : i # id => w.items[i] = u.items[i]
    BY <2>1, SMTT(30) DEF Put
  <2>. QED BY <1>3, <1>10, <2>2, Zenon DEF Like
<1>12. \A s \in Sides : x.known[s] \subseteq w.known[s]
  <2>1. u.known \in [Sides -> SUBSET Prices] /\ w.known = [u.known EXCEPT ![o.side] = @ \cup {o.price}]
    BY <1>2, <1>5, Zenon DEF Inserted, Shape
  <2>2. \A s \in Sides : x.known[s] \subseteq u.known[s]
    BY DEF Taken, Like
  <2>3. \A s \in Sides : u.known[s] \subseteq w.known[s]
    BY <1>4, <2>1, ZenonT(30)
  <2>. QED BY <2>2, <2>3, ZenonT(30)
<1>13. Shape(w) /\ w.nonce = x.nonce /\ w.last = x.last /\ w.medium = x.medium /\ w.total = x.total
  BY <1>5, Zenon DEF Inserted, Taken, Like
<1>14. Like(K, w, x)
  BY <1>8, <1>9, <1>11, <1>12, <1>13 DEF Like
<1>. QED BY <1>14, Zenon DEF w

\* SubAmountOrderItem is undone by UndoSub.
LEMMA UndoTrade ==
  ASSUME NEW x, BookInv(x), NEW K, Live(x) \subseteq K, K \subseteq DOMAIN x.items,
         NEW l \in Levels, NEW id \in DOMAIN x.amounts[l], NEW o, o = x.items[id],
         NEW v \in 0 .. x.amounts[l][id], NEW left, left = x.amounts[l][id] - v,
         NEW d, NEW y, Taken(x, y, d, l, id, v, left)
  PROVE  Undoes([op |-> "sub", id |-> id, order |-> o, amount |-> v], K, y, K, x)
<1>. DEFINE e == [op |-> "sub", id |-> id, order |-> o, amount |-> v]
<1>. SUFFICES ASSUME NEW u, Like(K, u, y)
              PROVE  Like(K, Undo(u, e), x)
  BY DEF Undoes
<1>. DEFINE w == Undo(u, e)
            a == x.amounts[l]
<1>1. w = UndoSub(u, e)
  BY UndoCalls, ZenonT(30)
<1>a. e.id = id /\ e.order = o /\ e.amount = v
  BY Zenon
<1>. HIDE DEF w, e
<1>2. /\ Shape(x) /\ IsLists(x.amounts) /\ IsItems(x.items) /\ Shape(u) /\ IsItems(u.items)
      /\ x.volume \in [Levels -> Nat]
  BY Zenon DEF BookInv, Like, Shape
<1>3. id \in Live(x) /\ id \in DOMAIN x.items /\ LevelOf(o) = l /\ o.qty = a[id] /\ o \in Item
  BY <1>2, Zenon DEF BookInv, Live, IsItems
<1>4. o.side \in Sides /\ o.price \in Prices /\ o.qty \in Nat /\ v \in Nat /\ left \in Nat
  BY <1>3, SMTT(30) DEF Item
<1>5. /\ u.items[id] = AtQty(o, left) /\ u.items[id].qty = left /\ id \in DOMAIN u.items
      /\ \A i \in K : i # id => i \in DOMAIN u.items /\ u.items[i] = x.items[i]
  <2>1. y.items = SetQty(x.items, id, left)
    BY ZenonT(30) DEF Taken
  <2>2. /\ \A i \in DOMAIN x.items : i # id => y.items[i] = x.items[i]
        /\ y.items[id] = AtQty(o, left) /\ y.items[id].qty = left
    <3>1. IsItems(x.items) /\ id \in DOMAIN x.items /\ left \in Nat
      BY <1>2, <1>3, <1>4, ZenonT(30)
    <3>. QED BY <2>1, <3>1, QuantityUpdated, SMTT(30)
  <2>. QED BY <1>3, <2>2, Zenon DEF Like
<1>6. u.items[e.id].qty + e.amount = o.qty
  <2>1. u.items[e.id].qty = left /\ e.amount = v /\ o.qty = x.amounts[l][id]
    BY <1>a, <1>3, <1>5, ZenonT(30)
  <2>. QED BY <1>4, <2>1, SMTT(30)
<1>7. SubUndone(u, w, e, o.qty)
  BY <1>a, <1>1, <1>2, <1>3, <1>4, <1>5, <1>6, UndoSubFields, Zenon
<1>8. IsFunction(a)
  BY <1>2, ZenonT(30) DEF IsLists
<1>9. u.amounts = SetList(x.amounts, l, Left(a, id, left)) /\ u.amounts[l] = Left(a, id, left)
  <2>1. u.amounts = SetList(x.amounts, l, Left(a, id, left))
    BY Zenon DEF Taken, Like
  <2>. QED BY <1>2, <2>1, ListBack, SMTT(30)
<1>10. w.amounts = x.amounts
  <2>1. w.amounts = SetList(u.amounts, l, Put(u.amounts[l], id, a[id]))
    BY <1>a, <1>3, <1>7, ZenonT(30) DEF SubUndone
  <2>2. Put(u.amounts[l], id, a[id]) = a
    BY <1>8, <1>9, AmountBack
  <2>3. SetList(SetList(x.amounts, l, Left(a, id, left)), l, a) = x.amounts
    BY <1>2, ListBack
  <2>. QED BY <1>9, <2>1, <2>2, <2>3, Zenon
<1>11. w.volume = x.volume
  <2>1. u.volume = [x.volume EXCEPT ![l] = @ - v]
    BY Zenon DEF Taken, Like
  <2>2. w.volume = [u.volume EXCEPT ![l] = @ + v]
    BY <1>a, <1>3, <1>7, SMTT(30) DEF SubUndone
  <2>. QED BY <1>2, <1>4, <2>1, <2>2, SMTT(30)
<1>12. /\ \A i \in K : i \in DOMAIN w.items /\ w.items[i] = x.items[i]
       /\ \A i \in DOMAIN w.items \ K : w.items[i].qty = 0
  <2>1. w.items = SetQty(u.items, id, o.qty)
    BY <1>a, <1>7, SMTT(30) DEF SubUndone
  <2>2. /\ DOMAIN w.items = DOMAIN u.items /\ w.items[id] = AtQty(u.items[id], o.qty)
        /\ \A i \in DOMAIN u.items : i # id => w.items[i] = u.items[i]
    <3>. DEFINE I == u.items
                J == w.items
                q == o.qty
    <3>1. IsItems(I) /\ id \in DOMAIN I /\ q \in Nat /\ J = SetQty(I, id, q)
      BY <1>2, <1>4, <1>5, <2>1, Zenon
    <3>. HIDE DEF I, J, q
    <3>2. /\ DOMAIN J = DOMAIN I /\ J[id] = AtQty(I[id], q)
          /\ \A i \in DOMAIN I : i # id => J[i] = I[i]
      BY <3>1, QuantityUpdated
    <3>. QED BY <3>2, SMTT(30) DEF I, J, q
  <2>3. AtQty(AtQty(o, left), o.qty) = o
    BY <1>3, ZenonT(30) DEF AtQty, Item
  <2>. QED BY <1>3, <1>5, <2>2, <2>3, ZenonT(30) DEF Like
<1>13. \A s \in Sides : x.known[s] \subseteq w.known[s]
  BY <1>2, <1>7, Zenon DEF SubUndone, Taken, Like, Shape
<1>14. Shape(w) /\ w.nonce = x.nonce /\ w.last = x.last /\ w.medium = x.medium /\ w.total = x.total
  BY <1>7, ZenonT(30) DEF SubUndone, Taken, Like
<1>15. Like(K, w, x)
  BY <1>10, <1>11, <1>12, <1>13, <1>14 DEF Like
<1>. QED BY <1>15 DEF w

-----------------------------------------------------------------------------
(* Each change keeps orders, lists and volumes together *)

\* The parts of BookInv, by name.
Backed(x) == \A l \in Levels : \A i \in DOMAIN x.amounts[l] :
               i \in Live(x) /\ LevelOf(x.items[i]) = l /\ x.items[i].qty = x.amounts[l][i]
Listed(x) == \A i \in Live(x) : i \in DOMAIN x.amounts[LevelOf(x.items[i])]
Counted(a, v) == IsFiniteSet(Units(a)) /\ v = Cardinality(Units(a))

\* BookInv is its parts.
LEMMA Parts ==
  ASSUME NEW x
  PROVE  BookInv(x) <=> /\ Shape(x) /\ Backed(x) /\ Listed(x)
                        /\ \A l \in Levels : Counted(x.amounts[l], x.volume[l])
                        /\ x.nonce \in Nat /\ Live(x) \subseteq 1 .. x.nonce
  BY Zenon DEF BookInv, Backed, Listed, Counted

\* InsertOrderItem.
LEMMA InsertInv ==
  ASSUME NEW x, BookInv(x), NEW id \in 1 .. x.nonce, id \notin Live(x), NEW o \in Item, o.qty > 0,
         NEW y, Inserted(x, y, id, o)
  PROVE  BookInv(y) /\ Live(y) = Live(x) \cup {id} /\ DOMAIN y.items = DOMAIN x.items \cup {id}
<1>. DEFINE l == LevelOf(o)
            a == x.amounts[l]
            c == Put(a, id, o.qty)
<1>1. /\ Shape(x) /\ Backed(x) /\ Listed(x) /\ \A k \in Levels : Counted(x.amounts[k], x.volume[k])
      /\ x.nonce \in Nat /\ Live(x) \subseteq 1 .. x.nonce
  BY Parts, Zenon
<1>2. IsLists(x.amounts) /\ x.volume \in [Levels -> Nat] /\ IsItems(x.items)
  BY <1>1 DEF Shape
<1>3. l \in Levels /\ o.qty \in Nat
  BY Zenon DEF Item, LevelOf, Levels
<1>4. /\ Shape(y) /\ y.items = Put(x.items, id, o) /\ y.amounts = SetList(x.amounts, l, c)
      /\ y.volume = [x.volume EXCEPT ![l] = @ + o.qty] /\ y.nonce = x.nonce
  BY Zenon DEF Inserted
<1>5. /\ DOMAIN y.items = DOMAIN x.items \cup {id} /\ y.items[id] = o
      /\ \A i \in DOMAIN x.items : i # id => y.items[i] = x.items[i]
  BY <1>4, Zenon DEF Put
<1>6. DOMAIN c = DOMAIN a \cup {id} /\ c[id] = o.qty /\ \A i \in DOMAIN a : i # id => c[i] = a[i]
  BY Zenon DEF Put
<1>7. y.amounts[l] = c /\ \A k \in Levels : k # l => y.amounts[k] = x.amounts[k]
  <2>1. IsFunction(c)
    BY Zenon DEF Put, IsFunction
  <2>. QED BY <1>2, <1>3, <1>4, <2>1, ListsUpdated
<1>8. id \notin DOMAIN a
  BY <1>1, <1>3 DEF Backed
<1>9. Live(y) = Live(x) \cup {id}
  BY <1>3, <1>5, Zenon DEF Live
<1>10. Counted(c, x.volume[l] + o.qty)
  <2>1. IsFiniteSet(Units(a)) /\ x.volume[l] = Cardinality(Units(a))
    BY <1>1, <1>3 DEF Counted
  <2>2. IsFiniteSet(Units(c)) /\ Cardinality(Units(c)) = Cardinality(Units(a)) + o.qty
    BY <1>3, <1>8, <2>1, UnitsPut, ZenonT(30)
  <2>. QED BY <2>1, <2>2, ZenonT(30) DEF Counted
<1>. HIDE DEF c, l
<1>11. Backed(y)
  <2>. SUFFICES ASSUME NEW k \in Levels, NEW i \in DOMAIN y.amounts[k]
                PROVE  i \in Live(y) /\ LevelOf(y.items[i]) = k /\ y.items[i].qty = y.amounts[k][i]
    BY DEF Backed
  <2>1. CASE i = id
    <3>1. k = l
      BY <1>1, <1>7, <2>1 DEF Backed
    <3>. QED BY <1>5, <1>6, <1>7, <1>9, <2>1, <3>1, Zenon DEF l
  <2>2. CASE i # id
    <3>1. i \in DOMAIN x.amounts[k] /\ y.amounts[k][i] = x.amounts[k][i]
      BY <1>6, <1>7, <2>2, ZenonT(30)
    <3>2. i \in Live(x) /\ LevelOf(x.items[i]) = k /\ x.items[i].qty = x.amounts[k][i]
      BY <1>1, <3>1 DEF Backed
    <3>3. y.items[i] = x.items[i]
      BY <1>5, <2>2, <3>2, Zenon DEF Live
    <3>. QED BY <1>9, <3>1, <3>2, <3>3, Zenon
  <2>. QED BY <2>1, <2>2, Zenon
<1>12. Listed(y)
  <2>. SUFFICES ASSUME NEW i \in Live(y)
                PROVE  i \in DOMAIN y.amounts[LevelOf(y.items[i])]
    BY DEF Listed
  <2>1. CASE i = id
    BY <1>5, <1>6, <1>7, <2>1, ZenonT(30) DEF l
  <2>2. CASE i # id
    <3>1. i \in Live(x) /\ i \in DOMAIN x.amounts[LevelOf(x.items[i])] /\ i \in DOMAIN x.items
      BY <1>1, <1>9, <2>2, Zenon DEF Listed, Live
    <3>2. y.items[i] = x.items[i] /\ LevelOf(x.items[i]) \in Levels
      BY <1>2, <1>5, <2>2, <3>1, Zenon DEF LevelOf, Levels, Item, IsItems
    <3>. QED BY <1>6, <1>7, <3>1, <3>2
  <2>. QED BY <2>1, <2>2, Zenon
<1>13. \A k \in Levels : Counted(y.amounts[k], y.volume[k])
  <2>1. y.volume[l] = x.volume[l] + o.qty /\ \A k \in Levels : k # l => y.volume[k] = x.volume[k]
    BY <1>2, <1>3, <1>4, ZenonT(30)
  <2>. QED BY <1>1, <1>7, <1>10, <2>1, Zenon
<1>14. y.nonce \in Nat /\ Live(y) \subseteq 1 .. y.nonce
  BY <1>1, <1>4, <1>9
<1>15. BookInv(y)
  BY <1>4, <1>11, <1>12, <1>13, <1>14, Parts, Zenon
<1>. QED BY <1>5, <1>9, <1>15

\* An amount v that the order id of the list l has, and what is left of it.
CanTake(x, l, id, v, left) ==
  /\ l \in Levels /\ id \in DOMAIN x.amounts[l] /\ v \in 0 .. x.amounts[l][id]
  /\ left = x.amounts[l][id] - v

\* SubAmountOrderItem and CancelOrder.
LEMMA TakenInv ==
  ASSUME NEW x, BookInv(x), NEW l, NEW id, NEW v, NEW left, CanTake(x, l, id, v, left),
         NEW e, NEW y, Taken(x, y, e, l, id, v, left)
  PROVE  BookInv(y) /\ Live(y) \subseteq Live(x) /\ DOMAIN y.items = DOMAIN x.items
<1>. DEFINE a == x.amounts[l]
            c == Left(a, id, left)
<1>. l \in Levels /\ id \in DOMAIN x.amounts[l] /\ v \in 0 .. x.amounts[l][id]
  BY Zenon DEF CanTake
<1>l. left = x.amounts[l][id] - v
  BY Zenon DEF CanTake
<1>1. /\ Shape(x) /\ Backed(x) /\ Listed(x) /\ \A k \in Levels : Counted(x.amounts[k], x.volume[k])
      /\ x.nonce \in Nat /\ Live(x) \subseteq 1 .. x.nonce
  BY Parts, Zenon
<1>2. IsLists(x.amounts) /\ x.volume \in [Levels -> Nat] /\ IsItems(x.items)
  BY <1>1, ZenonT(30) DEF Shape
<1>3. /\ id \in Live(x) /\ id \in DOMAIN x.items /\ LevelOf(x.items[id]) = l
      /\ x.items[id].qty = a[id] /\ a[id] \in Nat /\ left \in Nat
  BY <1>1, <1>2, <1>l DEF Backed, Live, IsItems, Item
<1>4. /\ Shape(y) /\ y.items = SetQty(x.items, id, left) /\ y.amounts = SetList(x.amounts, l, c)
      /\ y.volume = [x.volume EXCEPT ![l] = @ - v] /\ y.nonce = x.nonce
  BY DEF Taken
<1>5. /\ DOMAIN y.items = DOMAIN x.items /\ y.items[id].qty = left /\ LevelOf(y.items[id]) = l
      /\ \A i \in DOMAIN x.items : i # id => y.items[i] = x.items[i]
  <2>. DEFINE I == x.items
              J == y.items
  <2>1. IsItems(I) /\ id \in DOMAIN I /\ J = SetQty(I, id, left) /\ LevelOf(I[id]) = l
    BY <1>2, <1>3, <1>4, ZenonT(30)
  <2>. HIDE DEF I, J
  <2>2. /\ DOMAIN J = DOMAIN I /\ J[id].qty = left /\ LevelOf(J[id]) = LevelOf(I[id])
        /\ \A i \in DOMAIN I : i # id => J[i] = I[i]
    <3>1. left \in Nat
      BY <1>3, Zenon
    <3>. QED BY <2>1, <3>1, QuantityUpdated, SMTT(30)
  <2>. QED BY <2>1, <2>2, Zenon DEF I, J
<1>6. /\ left = 0 => DOMAIN c = DOMAIN a \ {id}
      /\ left # 0 => DOMAIN c = DOMAIN a /\ c[id] = left
      /\ \A i \in DOMAIN a : i # id => i \in DOMAIN c /\ c[i] = a[i]
  BY ZenonT(30) DEF Left, Put, Drop
<1>7. y.amounts[l] = c /\ \A k \in Levels : k # l => y.amounts[k] = x.amounts[k]
  <2>1. IsFunction(c)
    BY ZenonT(30) DEF Left, Put, Drop, IsFunction
  <2>. QED BY <1>2, <1>4, <2>1, ListsUpdated, SMTT(30)
<1>9. /\ \A i \in Live(y) : i \in Live(x) /\ (i = id => left # 0)
      /\ \A i \in Live(x) : i # id => i \in Live(y)
      /\ left # 0 => id \in Live(y)
  BY <1>3, <1>5 DEF Live
<1>10. Counted(c, x.volume[l] - v)
  <2>1. IsFiniteSet(Units(a)) /\ x.volume[l] = Cardinality(Units(a))
    BY <1>1 DEF Counted
  <2>2. c = IF a[id] - v = 0 THEN Drop(a, id) ELSE Put(a, id, a[id] - v)
    BY <1>l, Zenon DEF Left
  <2>. HIDE DEF c
  <2>3. IsFiniteSet(Units(c)) /\ Cardinality(Units(c)) = Cardinality(Units(a)) - v
    BY <1>3, <2>1, <2>2, UnitsTake, Zenon
  <2>. QED BY <2>1, <2>3, ZenonT(30) DEF Counted
<1>. HIDE DEF c
<1>11. Backed(y)
  <2>. SUFFICES ASSUME NEW k \in Levels, NEW i \in DOMAIN y.amounts[k]
                PROVE  i \in Live(y) /\ LevelOf(y.items[i]) = k /\ y.items[i].qty = y.amounts[k][i]
    BY DEF Backed
  <2>1. CASE i = id
    <3>1. k = l
      BY <1>1, <1>3, <1>7, <2>1, Zenon DEF Backed
    <3>2. left # 0
      BY <1>6, <1>7, <2>1, <3>1, ZenonT(30)
    <3>. QED BY <1>5, <1>6, <1>7, <1>9, <2>1, <3>1, <3>2, ZenonT(30)
  <2>2. CASE i # id
    <3>1. i \in DOMAIN x.amounts[k] /\ y.amounts[k][i] = x.amounts[k][i]
      BY <1>6, <1>7, <2>2, Zenon
    <3>2. i \in Live(x) /\ LevelOf(x.items[i]) = k /\ x.items[i].qty = x.amounts[k][i]
      BY <1>1, <3>1, Zenon DEF Backed
    <3>3. y.items[i] = x.items[i]
      BY <1>5, <2>2, <3>2, Zenon DEF Live
    <3>. QED BY <1>9, <2>2, <3>1, <3>2, <3>3, Zenon
  <2>. QED BY <2>1, <2>2, ZenonT(30)
<1>12. Listed(y)
  <2>. SUFFICES ASSUME NEW i \in Live(y)
                PROVE  i \in DOMAIN y.amounts[LevelOf(y.items[i])]
    BY Zenon DEF Listed
  <2>1. CASE i = id
    BY <1>5, <1>6, <1>7, <1>9, <2>1, Zenon
  <2>2. CASE i # id
    <3>1. i \in Live(x) /\ i \in DOMAIN x.amounts[LevelOf(x.items[i])] /\ i \in DOMAIN x.items
      BY <1>1, <1>9, <2>2, Zenon DEF Listed, Live
    <3>2. y.items[i] = x.items[i] /\ LevelOf(x.items[i]) \in Levels
      BY <1>2, <1>5, <2>2, <3>1, Zenon DEF LevelOf, Levels, Item, IsItems
    <3>. QED BY <1>6, <1>7, <2>2, <3>1, <3>2, Zenon
  <2>. QED BY <2>1, <2>2, Zenon
<1>13. \A k \in Levels : Counted(y.amounts[k], y.volume[k])
  <2>1. y.volume[l] = x.volume[l] - v /\ \A k \in Levels : k # l => y.volume[k] = x.volume[k]
    BY <1>2, <1>4, ZenonT(30)
  <2>. QED BY <1>1, <1>7, <1>10, <2>1, Zenon
<1>14. y.nonce \in Nat /\ Live(y) \subseteq 1 .. y.nonce
  BY <1>1, <1>4, <1>9, Zenon
<1>15. BookInv(y)
  BY <1>4, <1>11, <1>12, <1>13, <1>14, Parts, Zenon
<1>. QED BY <1>5, <1>9, <1>15

\* A list has what each of its orders has.
LEMMA VolumeCovers ==
  ASSUME NEW x, BookInv(x), NEW l \in Levels, NEW id \in DOMAIN x.amounts[l],
         NEW v \in 0 .. x.amounts[l][id]
  PROVE  v \in 0 .. x.volume[l] /\ x.amounts[l][id] \in Nat
<1>. DEFINE a == x.amounts[l]
            c == IF a[id] - v = 0 THEN Drop(a, id) ELSE Put(a, id, a[id] - v)
<1>1. IsFiniteSet(Units(a)) /\ x.volume[l] = Cardinality(Units(a)) /\ a[id] \in Nat
  BY Zenon DEF BookInv, Live, Shape, IsItems, Item
<1>2. c = IF a[id] - v = 0 THEN Drop(a, id) ELSE Put(a, id, a[id] - v)
  OBVIOUS
<1>. HIDE DEF c
<1>3. v <= Cardinality(Units(a)) /\ Cardinality(Units(a)) \in Nat
  BY <1>1, <1>2, UnitsTake, Zenon
<1>. QED BY <1>1, <1>3, SMTT(30)

\* The setters keep BookInv when the counter does not go down.
LEMMA SetInv ==
  ASSUME NEW x, BookInv(x), NEW y, Shape(y), y.items = x.items, y.amounts = x.amounts,
         y.volume = x.volume, y.nonce \in Nat, x.nonce <= y.nonce
  PROVE  BookInv(y) /\ Live(y) = Live(x)
<1>1. Live(y) = Live(x)
  BY DEF Live
<1>2. /\ Shape(x) /\ Backed(x) /\ Listed(x) /\ \A k \in Levels : Counted(x.amounts[k], x.volume[k])
      /\ x.nonce \in Nat /\ Live(x) \subseteq 1 .. x.nonce
  BY Parts, Zenon
<1>3. Backed(y)
  BY <1>1, <1>2, Zenon DEF Backed
<1>4. Listed(y)
  BY <1>1, <1>2, ZenonT(30) DEF Listed
<1>5. Live(y) \subseteq 1 .. y.nonce
  BY <1>1, <1>2
<1>6. \A k \in Levels : Counted(y.amounts[k], y.volume[k])
  BY <1>2
<1>7. BookInv(y)
  BY <1>3, <1>4, <1>5, <1>6, Parts, Zenon
<1>. QED BY <1>1, <1>7, Zenon

-----------------------------------------------------------------------------
(* What a revert can undo *)

\* The orders K that a revert keeps: every live one, and only some that have an OrderID.
Kept(K, x) == Live(x) \subseteq K /\ K \subseteq 1 .. x.nonce /\ K \subseteq DOMAIN x.items

\* The journal of x undoes everything since s.
Undoable(x, s) ==
  BookInv(x) /\ IsJournal(x.journal) /\ \E K : Kept(K, x) /\ Restores(K, x, s)

\* Nothing to undo.
LEMMA NothingToUndo ==
  ASSUME NEW x, BookInv(x), x.journal = << >>
  PROVE  Undoable(x, x)
<1>1. IsJournal(x.journal) /\ Len(x.journal) = 0
  <2>1. << >> \in Seq({}) /\ Len(<< >>) = 0
    OBVIOUS
  <2>. QED BY <2>1, Zenon DEF IsJournal
<1>2. Kept(Live(x), x)
  BY DEF Kept, BookInv, Live
<1>3. ASSUME NEW u, Like(Live(x), u, x)
      PROVE  /\ \E f : Chain(f, u, x.journal)
             /\ \A f : Chain(f, u, x.journal) => Like(Live(x), f[Len(x.journal)], x)
  <2>1. \A f : Chain(f, u, x.journal) <=> StepByStep(f, u, x.journal)
    BY <1>1, ChainSteps, Zenon
  <2>. DEFINE g == [k \in 0 .. 0 |-> u]
  <2>2. IsFunction(g) /\ DOMAIN g = 0 .. 0 /\ g[0] = u /\ ~ \E k : k \in 1 .. 0
    BY DEF IsFunction
  <2>. HIDE DEF g
  <2>3. StepByStep(g, u, x.journal)
    BY <1>1, <2>2, Zenon DEF StepByStep
  <2>4. \A f : StepByStep(f, u, x.journal) => f[0] = u
    BY Zenon DEF StepByStep
  <2>. QED BY <1>1, <1>3, <2>1, <2>3, <2>4, ZenonT(30)
<1>4. Restores(Live(x), x, x)
  BY <1>3, Zenon DEF Restores
<1>. QED BY <1>1, <1>2, <1>4, Zenon DEF Undoable

\* The last price.
LEMMA LastUndoable ==
  ASSUME NEW x, NEW s, Undoable(x, s), NEW p, NEW y, y = SetLastPrice(x, p)
  PROVE  Undoable(y, s)
<1>1. PICK K : Kept(K, x) /\ Restores(K, x, s)
  BY ZenonT(30) DEF Undoable
<1>2. BookInv(x) /\ Shape(x) /\ IsJournal(x.journal) /\ x.nonce \in Nat
  BY Zenon DEF Undoable, BookInv
<1>3. LastSet(x, y, p)
  BY <1>2, SetLastFields
<1>. DEFINE e == [op |-> "last", prev |-> x.last]
<1>4. Undoes(e, K, y, K, x)
  BY <1>2, UndoLast, ZenonT(30)
<1>5. y.journal = Append(x.journal, e)
  BY <1>3 DEF LastSet
<1>. HIDE DEF e
<1>6. Restores(K, y, s) /\ IsJournal(y.journal)
  BY <1>1, <1>2, <1>4, <1>5, OneMore, Zenon
<1>7. BookInv(y) /\ Live(y) = Live(x)
  <2>1. /\ Shape(y) /\ y.items = x.items /\ y.amounts = x.amounts /\ y.volume = x.volume
        /\ y.nonce = x.nonce
    BY <1>3, Zenon DEF LastSet
  <2>2. x.nonce <= x.nonce
    BY <1>2
  <2>. QED BY <1>2, <2>1, <2>2, SetInv, Zenon
<1>8. Kept(K, y)
  BY <1>1, <1>3, <1>7, Zenon DEF Kept, LastSet
<1>. QED BY <1>6, <1>7, <1>8, Zenon DEF Undoable

\* The medium price.
LEMMA MediumUndoable ==
  ASSUME NEW x, NEW s, Undoable(x, s), NEW p, NEW q, NEW y, y = SetMediumPrice(x, p, q)
  PROVE  Undoable(y, s)
<1>1. PICK K : Kept(K, x) /\ Restores(K, x, s)
  BY ZenonT(30) DEF Undoable
<1>2. BookInv(x) /\ Shape(x) /\ IsJournal(x.journal) /\ x.nonce \in Nat
  BY Zenon DEF Undoable, BookInv
<1>3. MediumSet(x, y, p, q)
  BY <1>2, SetMediumFields
<1>. DEFINE e == [op |-> "medium", price |-> x.medium, qty |-> x.total]
<1>4. Undoes(e, K, y, K, x)
  BY <1>2, UndoMedium, Zenon
<1>5. y.journal = Append(x.journal, e)
  BY <1>3 DEF MediumSet
<1>. HIDE DEF e
<1>6. Restores(K, y, s) /\ IsJournal(y.journal)
  BY <1>1, <1>2, <1>4, <1>5, OneMore, Zenon
<1>7. BookInv(y) /\ Live(y) = Live(x)
  <2>1. /\ Shape(y) /\ y.items = x.items /\ y.amounts = x.amounts /\ y.volume = x.volume
        /\ y.nonce = x.nonce
    BY <1>3, Zenon DEF MediumSet
  <2>2. y.nonce \in Nat /\ x.nonce <= y.nonce
    BY <1>2, <2>1
  <2>. QED BY <1>2, <2>1, <2>2, SetInv, Zenon
<1>8. Kept(K, y)
  BY <1>1, <1>3, <1>7 DEF Kept, MediumSet
<1>. QED BY <1>6, <1>7, <1>8, Zenon DEF Undoable

\* An order that enters the book under the next OrderID.
LEMMA RestUndoable ==
  ASSUME NEW x, NEW s, Undoable(x, s), NEW o \in Item, o.qty > 0, NEW id, id = x.nonce + 1,
         NEW z, z = SetNonce(x, id), NEW y, y = InsertOrderItem(z, id, o)
  PROVE  Undoable(y, s)
<1>1. PICK K : Kept(K, x) /\ Restores(K, x, s)
  BY ZenonT(30) DEF Undoable
<1>2. BookInv(x) /\ Shape(x) /\ IsJournal(x.journal) /\ x.nonce \in Nat
  BY Zenon DEF Undoable, BookInv
<1>3. NonceSet(x, z, id)
  BY <1>2, SetNonceFields
<1>. DEFINE d == [op |-> "nonce", prev |-> x.nonce]
            e == [op |-> "insert", id |-> id, order |-> o]
<1>4. Undoes(d, K, z, K, x)
  BY <1>2, UndoNonce, ZenonT(30)
<1>5. z.journal = Append(x.journal, d)
  BY <1>3 DEF NonceSet
<1>. HIDE DEF d
<1>6. Restores(K, z, s) /\ IsJournal(z.journal)
  BY <1>1, <1>2, <1>4, <1>5, OneMore, Zenon
<1>7. BookInv(z) /\ Live(z) = Live(x)
  <2>1. /\ Shape(z) /\ z.items = x.items /\ z.amounts = x.amounts /\ z.volume = x.volume
        /\ z.nonce = id
    BY <1>3, Zenon DEF NonceSet
  <2>2. id \in Nat /\ x.nonce <= id
    BY <1>2
  <2>. QED BY <1>2, <2>1, <2>2, SetInv, Zenon
<1>8. /\ Live(z) \subseteq K /\ K \subseteq DOMAIN z.items /\ id \notin K /\ id \in 1 .. z.nonce
      /\ K \subseteq 1 .. z.nonce
  BY <1>1, <1>2, <1>3, <1>7 DEF Kept, NonceSet
<1>9. Inserted(z, y, id, o)
  <2>1. Shape(z)
    BY <1>7 DEF BookInv
  <2>. QED BY <2>1, InsertFields, ZenonT(30)
<1>10. Undoes(e, K \cup {id}, y, K, z)
  BY <1>7, <1>8, UndoInsert, ZenonT(30)
<1>11. y.journal = Append(z.journal, e) /\ y.nonce = z.nonce
  BY <1>9, Zenon DEF Inserted
<1>. HIDE DEF e
<1>12. Restores(K \cup {id}, y, s) /\ IsJournal(y.journal)
  BY <1>6, <1>10, <1>11, OneMore, ZenonT(30)
<1>13. BookInv(y) /\ Live(y) = Live(z) \cup {id} /\ DOMAIN y.items = DOMAIN z.items \cup {id}
  <2>1. id \notin Live(z)
    BY <1>8, Zenon
  <2>. QED BY <1>7, <1>8, <1>9, <2>1, InsertInv, SMTT(30)
<1>14. Kept(K \cup {id}, y)
  BY <1>8, <1>11, <1>13, Zenon DEF Kept
<1>. QED BY <1>12, <1>13, <1>14, Zenon DEF Undoable

\* An order that a list has an amount for has a quantity.
LEMMA AmountOfOrder ==
  ASSUME NEW x, BookInv(x), NEW l \in Levels, NEW id \in DOMAIN x.amounts[l]
  PROVE  x.amounts[l][id] \in Nat /\ id \in DOMAIN x.items
<1>1. Shape(x) /\ id \in Live(x) /\ x.items[id].qty = x.amounts[l][id]
  BY Zenon DEF BookInv
<1>2. id \in DOMAIN x.items
  BY <1>1, Zenon DEF Live
<1>3. x.items[id] \in Item
  BY <1>1, <1>2, Zenon DEF Shape, IsItems
<1>4. x.items[id].qty \in Nat
  BY <1>3 DEF Item
<1>. QED BY <1>1, <1>2, <1>4, Zenon

\* An order with a quantity is in the list of its side and price.
LEMMA ListOfOrder ==
  ASSUME NEW x, BookInv(x), NEW id \in DOMAIN x.items, x.items[id].qty # 0
  PROVE  /\ id \in Live(x) /\ x.items[id] \in Item /\ LevelOf(x.items[id]) \in Levels
         /\ id \in DOMAIN x.amounts[LevelOf(x.items[id])]
<1>1. x.items[id] \in Item
  BY Zenon DEF BookInv, Shape, IsItems
<1>2. LevelOf(x.items[id]) \in Levels /\ x.items[id].qty > 0
  BY <1>1 DEF Item, LevelOf, Levels
<1>3. id \in Live(x)
  BY <1>2, ZenonT(30) DEF Live
<1>. QED BY <1>1, <1>2, <1>3, Zenon DEF BookInv

\* A trade with an order of the book.
LEMMA TradeUndoable ==
  ASSUME NEW x, NEW s, Undoable(x, s), NEW id, NEW price, NEW v \in Nat \ {0}, NEW side \in Sides,
         NEW y, y = SubAmountOrderItem(x, id, price, v, side)
  PROVE  Undoable(y, s)
<1>. DEFINE l == <<side, price>>
            refused == \/ price \notin x.known[side] \/ x.volume[l] = 0
                       \/ id \notin DOMAIN x.items \/ x.items[id].qty = 0
                       \/ Amount(x, l, id) < v
<1>1. CASE refused
  <2>1. y = x
    BY <1>1, Zenon DEF SubAmountOrderItem
  <2>. QED BY <2>1
<1>2. CASE ~refused
  <2>1. PICK K : Kept(K, x) /\ Restores(K, x, s)
    BY ZenonT(30) DEF Undoable
  <2>2. BookInv(x) /\ Shape(x) /\ IsJournal(x.journal) /\ x.nonce \in Nat
    BY Zenon DEF Undoable, BookInv
  <2>. DEFINE o == x.items[id]
              e == [op |-> "sub", id |-> id, order |-> o, amount |-> v]
              left == Amount(x, l, id) - v
  <2>3. y = TakeFrom(Log(x, e), l, id, v, left)
    BY <1>2, ZenonT(30) DEF SubAmountOrderItem
  <2>4. price \in Prices /\ l \in Levels
    BY <1>2, <2>2 DEF Shape, Levels
  <2>5. ~(Amount(x, l, id) < v)
    BY <1>2, ZenonT(30)
  <2>. HIDE DEF l, refused, e, o
  <2>6. id \in DOMAIN x.amounts[l] /\ Amount(x, l, id) = x.amounts[l][id]
    <3>. HIDE DEF left
    <3>. QED BY <2>5, SMTT(30) DEF Amount
  <2>7. x.amounts[l][id] \in Nat /\ id \in DOMAIN x.items
    BY <2>2, <2>4, <2>6, AmountOfOrder, Zenon
  <2>8. v \in 0 .. x.amounts[l][id] /\ left = x.amounts[l][id] - v /\ left \in Nat
    BY <2>5, <2>6, <2>7, SMTT(30)
  <2>. HIDE DEF left
  <2>9. v \in 0 .. x.volume[l]
    BY <2>2, <2>4, <2>6, <2>8, VolumeCovers, Zenon
  <2>10. Taken(x, y, e, l, id, v, left)
    BY <2>2, <2>3, <2>4, <2>7, <2>8, <2>9, TakeFields, Zenon
  <2>11. Live(x) \subseteq K /\ K \subseteq DOMAIN x.items
    BY <2>1 DEF Kept
  <2>12. Undoes(e, K, y, K, x)
    BY <2>2, <2>4, <2>6, <2>8, <2>10, <2>11, UndoTrade, ZenonT(30) DEF e, o
  <2>13. y.journal = Append(x.journal, e) /\ y.nonce = x.nonce
    BY <2>10 DEF Taken
  <2>14. Restores(K, y, s) /\ IsJournal(y.journal)
    BY <2>1, <2>2, <2>12, <2>13, OneMore, Zenon
  <2>15. BookInv(y) /\ Live(y) \subseteq Live(x) /\ DOMAIN y.items = DOMAIN x.items
    <3>1. CanTake(x, l, id, v, left)
      BY <2>4, <2>6, <2>8, Zenon DEF CanTake
    <3>. QED BY <2>2, <2>10, <3>1, TakenInv
  <2>16. Kept(K, y)
    BY <2>1, <2>13, <2>15, Zenon DEF Kept
  <2>. QED BY <2>14, <2>15, <2>16, Zenon DEF Undoable
<1>. QED BY <1>1, <1>2, Zenon

\* A cancelled order.
LEMMA CancelUndoable ==
  ASSUME NEW x, NEW s, Undoable(x, s), NEW id, NEW req, NEW y, y = CancelOrder(x, id, req)
  PROVE  Undoable(y, s)
<1>1. CASE CancelFails(x, id, req)
  <2>1. y = x
    BY <1>1, Zenon DEF CancelOrder
  <2>. QED BY <2>1
<1>2. CASE ~CancelFails(x, id, req)
  <2>1. PICK K : Kept(K, x) /\ Restores(K, x, s)
    BY Zenon DEF Undoable
  <2>2. BookInv(x) /\ Shape(x) /\ IsJournal(x.journal) /\ x.nonce \in Nat
    BY Zenon DEF Undoable, BookInv
  <2>. DEFINE o == x.items[id]
              l == LevelOf(o)
              e == [op |-> "cancel", id |-> id, order |-> o]
              v == Amount(x, l, id)
  <2>3. y = TakeFrom(Log(x, e), l, id, v, 0)
    BY <1>2, Cancelled, Zenon
  <2>4. id \in DOMAIN x.items /\ o.qty # 0
    BY <1>2, Zenon DEF CancelFails
  <2>5. o \in Item /\ l \in Levels /\ id \in Live(x) /\ id \in DOMAIN x.amounts[l]
    BY <2>2, <2>4, ListOfOrder, Zenon
  <2>6. id \in DOMAIN x.amounts[l] /\ v = x.amounts[l][id]
    BY <2>5, ZenonT(30) DEF Amount
  <2>7. x.amounts[l][id] \in Nat /\ v \in 0 .. x.amounts[l][id] /\ 0 = x.amounts[l][id] - v /\ 0 \in Nat
    <3>1. x.amounts[l][id] \in Nat
      BY <2>2, <2>5, AmountOfOrder, Zenon
    <3>. HIDE DEF l, v, e
    <3>. QED BY <2>6, <3>1, SMTT(30)
  <2>. HIDE DEF l, v
  <2>8. v \in 0 .. x.volume[l]
    BY <2>2, <2>5, <2>6, <2>7, VolumeCovers, Zenon
  <2>. HIDE DEF e
  <2>10. Taken(x, y, e, l, id, v, 0)
    BY <2>2, <2>3, <2>4, <2>5, <2>7, <2>8, TakeFields, Zenon
  <2>11. Live(x) \subseteq K /\ K \subseteq DOMAIN x.items
    BY <2>1 DEF Kept
  <2>12. Undoes(e, K, y, K, x)
    BY <2>2, <2>5, <2>6, <2>10, <2>11, UndoCancel, Zenon DEF e
  <2>13. y.journal = Append(x.journal, e) /\ y.nonce = x.nonce
    BY <2>10 DEF Taken
  <2>14. Restores(K, y, s) /\ IsJournal(y.journal)
    BY <2>1, <2>2, <2>12, <2>13, OneMore, Zenon
  <2>15. BookInv(y) /\ Live(y) \subseteq Live(x) /\ DOMAIN y.items = DOMAIN x.items
    <3>1. CanTake(x, l, id, v, 0)
      BY <2>5, <2>6, <2>7, Zenon DEF CanTake
    <3>. QED BY <2>2, <2>10, <3>1, TakenInv
  <2>16. Kept(K, y)
    BY <2>1, <2>13, <2>15, Zenon DEF Kept
  <2>. QED BY <2>14, <2>15, <2>16, Zenon DEF Undoable
<1>. QED BY <1>1, <1>2

\* A book that shows what s shows has the same resting orders, and keeps BookInv.
LEMMA LikeSaved ==
  ASSUME NEW y, NEW s, BookInv(s), Like(Live(s), y, s)
  PROVE  /\ BookInv(y) /\ Resting(y) = Resting(s)
<1>1. /\ Shape(s) /\ Backed(s) /\ Listed(s) /\ \A k \in Levels : Counted(s.amounts[k], s.volume[k])
      /\ s.nonce \in Nat /\ Live(s) \subseteq 1 .. s.nonce
  BY Parts, ZenonT(30)
<1>2. Shape(y) /\ y.amounts = s.amounts /\ y.volume = s.volume /\ y.nonce = s.nonce
  BY DEF Like
<1>3. Live(y) = Live(s) /\ \A i \in Live(s) : y.items[i] = s.items[i]
  <2>1. \A i \in Live(s) : i \in DOMAIN y.items /\ y.items[i] = s.items[i] /\ s.items[i].qty > 0
    BY Zenon DEF Like, Live
  <2>2. \A i \in DOMAIN y.items : i \notin Live(s) => y.items[i].qty = 0
    BY DEF Like
  <2>3. \A i \in Live(y) : i \in DOMAIN y.items /\ y.items[i].qty > 0
    BY Zenon DEF Live
  <2>4. \A i \in Live(y) : i \in Live(s)
    BY <2>2, <2>3
  <2>5. \A i \in Live(s) : i \in Live(y)
    BY <2>1, Zenon DEF Live
  <2>. QED BY <2>1, <2>4, <2>5, ZenonT(30)
<1>4. Backed(y)
  BY <1>1, <1>2, <1>3, Zenon DEF Backed
<1>5. Listed(y)
  BY <1>1, <1>2, <1>3, ZenonT(30) DEF Listed
<1>6. (\A k \in Levels : Counted(y.amounts[k], y.volume[k])) /\ y.nonce \in Nat /\ Live(y) \subseteq 1 .. y.nonce
  BY <1>1, <1>2, <1>3, Zenon
<1>7. BookInv(y)
  BY <1>2, <1>4, <1>5, <1>6, Parts, Zenon
<1>8. Resting(y) = Resting(s)
  <2>1. Resting(y) = [i \in Live(y) |-> y.items[i]] /\ Resting(s) = [i \in Live(s) |-> s.items[i]]
    BY Zenon DEF Resting, Live
  <2>. QED BY <1>3, <2>1, Zenon
<1>. QED BY <1>7, <1>8, Zenon

\* The journal is no part of BookInv.
LEMMA ClearedInv ==
  ASSUME NEW x, BookInv(x), NEW y, y = [x EXCEPT !.journal = << >>]
  PROVE  BookInv(y) /\ y.journal = << >>
<1>1. IsBook(x) /\ Shape(x) /\ x.nonce \in Nat
  BY DEF BookInv, Shape
<1>2. /\ IsBook(y) /\ y.items = x.items /\ y.amounts = x.amounts /\ y.volume = x.volume
      /\ y.tree = x.tree /\ y.known = x.known /\ y.nonce = x.nonce /\ y.journal = << >>
  BY <1>1 DEF IsBook, IsFunction
<1>3. Shape(y)
  BY <1>1, <1>2 DEF Shape
<1>4. y.nonce \in Nat /\ x.nonce <= y.nonce
  BY <1>1, <1>2
<1>5. BookInv(y)
  BY <1>2, <1>3, <1>4, SetInv, ZenonT(30)
<1>. QED BY <1>2, <1>5, Zenon

\* Commit drops empty orders and prices, and the journal.
LEMMA CommitInv ==
  ASSUME NEW x, BookInv(x), NEW y, y = Commit(x)
  PROVE  BookInv(y) /\ y.journal = << >>
<1>. DEFINE listed == [c \in Sides |-> {p \in Prices : x.volume[<<c, p>>] # 0}]
            I == [i \in {j \in DOMAIN x.items : x.items[j].qty # 0} |-> x.items[i]]
<1>1. /\ Shape(x) /\ Backed(x) /\ Listed(x) /\ \A k \in Levels : Counted(x.amounts[k], x.volume[k])
      /\ x.nonce \in Nat /\ Live(x) \subseteq 1 .. x.nonce
  BY Parts, ZenonT(30)
<1>2. IsBook(x) /\ IsItems(x.items)
  BY <1>1 DEF Shape
<1>3. y = [x EXCEPT !.tree = listed, !.known = listed, !.journal = << >>, !.items = I]
  BY Zenon DEF Commit
<1>4. listed \in [Sides -> SUBSET Prices]
  BY ZenonT(30)
<1>5. IsItems(I) /\ DOMAIN I = {j \in DOMAIN x.items : x.items[j].qty # 0} /\ \A i \in DOMAIN I : I[i] = x.items[i]
  BY <1>2 DEF IsItems, IsFunction
<1>. HIDE DEF listed, I
<1>6. /\ IsBook(y) /\ y.items = I /\ y.amounts = x.amounts /\ y.volume = x.volume
      /\ y.tree = listed /\ y.known = listed /\ y.nonce = x.nonce /\ y.journal = << >>
  BY <1>2, <1>3, ZenonT(30) DEF IsBook, IsFunction
<1>7. Shape(y)
  BY <1>1, <1>4, <1>5, <1>6, ZenonT(30) DEF Shape
<1>8. Live(y) = Live(x) /\ \A i \in Live(x) : y.items[i] = x.items[i]
  <2>1. \A i \in DOMAIN x.items : x.items[i].qty \in Nat
    BY <1>2, ZenonT(30) DEF IsItems, Item
  <2>. QED BY <1>5, <1>6, <2>1 DEF Live
<1>9. Backed(y)
  BY <1>1, <1>6, <1>8, SMTT(30) DEF Backed
<1>10. Listed(y)
  BY <1>1, <1>6, <1>8, Zenon DEF Listed
<1>11. (\A k \in Levels : Counted(y.amounts[k], y.volume[k])) /\ y.nonce \in Nat /\ Live(y) \subseteq 1 .. y.nonce
  BY <1>1, <1>6, <1>8, Zenon
<1>12. BookInv(y)
  BY <1>7, <1>9, <1>10, <1>11, Parts, Zenon
<1>. QED BY <1>6, <1>12

\* The empty book.
LEMMA EmptyInv == BookInv(EmptyBook) /\ EmptyBook.journal = << >>
<1>. DEFINE b == EmptyBook
<1>1. /\ IsBook(b) /\ b.items = [i \in {} |-> 0] /\ b.amounts = [l \in Levels |-> NoAmounts]
      /\ b.volume = [l \in Levels |-> 0] /\ b.tree = [c \in Sides |-> {}]
      /\ b.known = [c \in Sides |-> {}] /\ b.nonce = 0 /\ b.journal = << >>
  BY Zenon DEF EmptyBook, IsBook, IsFunction
<1>. HIDE DEF b
<1>2. IsFunction(NoAmounts) /\ DOMAIN NoAmounts = {}
  BY DEF NoAmounts, IsFunction
<1>3. IsItems(b.items) /\ DOMAIN b.items = {} /\ IsLists(b.amounts) /\ \A l \in Levels : b.amounts[l] = NoAmounts
  BY <1>1, <1>2, ZenonT(30) DEF IsItems, IsFunction, IsLists
<1>4. Shape(b)
  BY <1>1, <1>3 DEF Shape
<1>5. Live(b) = {}
  BY <1>3 DEF Live
<1>6. Counted(NoAmounts, 0)
  <2>1. Units(NoAmounts) = {}
    BY <1>2 DEF Units
  <2>. QED BY <2>1, FS_EmptySet DEF Counted
<1>7. \A l \in Levels : Counted(b.amounts[l], b.volume[l])
  BY <1>1, <1>3, <1>6, Zenon
<1>8. Backed(b) /\ Listed(b)
  BY <1>2, <1>3, <1>5, ZenonT(30) DEF Backed, Listed
<1>9. b.nonce \in Nat /\ Live(b) \subseteq 1 .. b.nonce
  BY <1>1, <1>5
<1>10. BookInv(b)
  BY <1>4, <1>7, <1>8, <1>9, Parts, Zenon
<1>. QED BY <1>1, <1>10, Zenon DEF b

-----------------------------------------------------------------------------
(* The property *)

\* While an order is applied, the journal undoes all of it; between orders it is empty.
RevertInv ==
  /\ BookInv(book) /\ open \in BOOLEAN
  /\ open => BookInv(saved) /\ Undoable(book, saved)
  /\ ~open => book.journal = << >>

\* An order of the model is an order.
LEMMA BookItems ==
  ASSUME NEW o \in BookOrders
  PROVE  BookItem(o) \in Item /\ BookItem(o).qty > 0
<1>1. o.side \in Sides /\ o.price \in Prices /\ o.qty \in Sizes
  BY DEF BookOrders
<1>2. \A n \in Sizes : n \in Nat /\ n > 0
  BY SizesAssumption
<1>. DEFINE i == BookItem(o)
<1>3. i = [side |-> o.side, price |-> o.price, qty |-> o.qty,
           user |-> "user", relayer |-> "relayer", hash |-> "hash"]
  BY Zenon DEF BookItem
<1>. HIDE DEF i
<1>4. i \in Item /\ i.qty = o.qty
  BY <1>1, <1>2, <1>3, ZenonT(30) DEF Item
<1>. QED BY <1>1, <1>2, <1>4, Zenon DEF i

\* What Revert does.
LEMMA RevertStep ==
  ASSUME RevertInv, Revert
  PROVE  BookInv(book') /\ book'.journal = << >> /\ Like(Live(saved), book', saved)
         /\ Resting(book') = Resting(saved)
<1>1. open /\ BookInv(saved) /\ Undoable(book, saved) /\ book' = RevertToSnapshot(book, 0)
  BY Zenon DEF RevertInv, Revert
<1>2. PICK K : Kept(K, book) /\ Restores(K, book, saved)
  BY <1>1 DEF Undoable
<1>3. IsJournal(book.journal) /\ BookInv(book)
  BY <1>1 DEF Undoable
<1>4. Like(K, book, book)
  <2>1. Shape(book) /\ IsItems(book.items)
    BY <1>3, Zenon DEF BookInv, Shape
  <2>2. \A i \in DOMAIN book.items : i \notin K => book.items[i].qty = 0
    <3>1. \A i \in DOMAIN book.items : book.items[i].qty \in Nat
      BY <2>1 DEF IsItems, Item
    <3>. QED BY <1>2, <3>1 DEF Kept, Live
  <2>. QED BY <1>2, <2>1, <2>2, ZenonT(30) DEF Like, Kept
<1>5. Like(Live(saved), book', saved) /\ book'.journal = << >>
  <2>. DEFINE y == book'
  <2>1. y = RevertToSnapshot(book, 0)
    BY <1>1
  <2>. HIDE DEF y
  <2>2. Like(Live(saved), y, saved) /\ y.journal = << >>
    BY <1>2, <1>3, <1>4, <2>1, Reverted, Zenon
  <2>. QED BY <2>2 DEF y
<1>6. BookInv(book') /\ Resting(book') = Resting(saved)
  BY <1>1, <1>5, LikeSaved, Zenon
<1>. QED BY <1>5, <1>6

\* RevertInv holds in every reachable state.
THEOREM RevertInvHolds == BookSpec => []RevertInv
<1>1. BookInit => RevertInv
  BY EmptyInv, Zenon DEF BookInit, RevertInv
<1>2. RevertInv /\ [BookNext]_bookVars => RevertInv'
  <2>. SUFFICES ASSUME RevertInv, [BookNext]_bookVars
                PROVE  RevertInv'
    OBVIOUS
  <2>0. BookInv(book) /\ (open => BookInv(saved) /\ Undoable(book, saved)) /\ (~open => book.journal = << >>)
    BY Zenon DEF RevertInv
  <2>a. ASSUME open, UNCHANGED <<open, saved>>, Undoable(book', saved)
        PROVE  RevertInv'
    <3>1. BookInv(book')
      BY <2>a DEF Undoable
    <3>. QED BY <2>0, <2>a, <3>1, Zenon DEF RevertInv
  <2>1. CASE Snapshot
    <3>1. ~open /\ open' = TRUE /\ saved' = book /\ book' = book
      BY <2>1, Zenon DEF Snapshot
    <3>2. Undoable(book, book)
      BY <2>0, <3>1, NothingToUndo, Zenon
    <3>. QED BY <2>0, <3>1, <3>2, Zenon DEF RevertInv
  <2>2. CASE Revert
    <3>1. BookInv(book') /\ book'.journal = << >>
      BY <2>2, RevertStep, Zenon
    <3>2. open' = FALSE
      BY <2>2, Zenon DEF Revert
    <3>. QED BY <3>1, <3>2, Zenon DEF RevertInv
  <2>3. CASE Accept
    <3>1. open' = FALSE /\ book' = [book EXCEPT !.journal = << >>]
      BY <2>3, Zenon DEF Accept
    <3>2. BookInv(book') /\ book'.journal = << >>
      BY <2>0, <3>1, ClearedInv, Zenon
    <3>. QED BY <3>1, <3>2, Zenon DEF RevertInv
  <2>4. CASE CommitBlock
    <3>1. open' = open /\ ~open /\ book' = Commit(book)
      BY <2>4, Zenon DEF CommitBlock
    <3>2. BookInv(book') /\ book'.journal = << >>
      BY <2>0, <3>1, CommitInv, Zenon
    <3>. QED BY <3>1, <3>2, Zenon DEF RevertInv
  <2>5. ASSUME NEW o \in BookOrders, RestOrder(o)
        PROVE  RevertInv'
    <3>. DEFINE id == book.nonce + 1
                z == SetNonce(book, id)
    <3>1. open /\ UNCHANGED <<open, saved>> /\ book' = InsertOrderItem(z, id, BookItem(o))
      BY <2>5, Zenon DEF RestOrder, CanChange
    <3>2. BookItem(o) \in Item /\ BookItem(o).qty > 0
      BY BookItems, Zenon
    <3>3. id = book.nonce + 1 /\ z = SetNonce(book, id)
      OBVIOUS
    <3>. HIDE DEF id, z
    <3>4. Undoable(book', saved)
      BY <2>0, <3>1, <3>2, <3>3, RestUndoable, Zenon
    <3>. QED BY <2>a, <3>1, <3>4, Zenon
  <2>6. ASSUME NEW side \in Sides, NEW v \in Sizes, Trade(side, v)
        PROVE  RevertInv'
    <3>. DEFINE price == GetBestPrice(book, side)
                id == GetBestOrderId(book, side, price)
                sub == SubAmountOrderItem(book, id, price, v, side)
                traded == SetLastPrice(sub, price)
    <3>1. open /\ UNCHANGED <<open, saved>> /\ book' = SetMediumPrice(traded, price, v)
      BY <2>6, Zenon DEF Trade, CanChange
    <3>2. v \in Nat \ {0}
      BY SizesAssumption
    <3>. HIDE DEF price, id
    <3>3. Undoable(sub, saved)
      BY <2>0, <3>1, <3>2, TradeUndoable, Zenon
    <3>. HIDE DEF sub
    <3>4. Undoable(traded, saved)
      BY <3>3, LastUndoable, Zenon
    <3>. HIDE DEF traded
    <3>5. Undoable(book', saved)
      BY <3>1, <3>4, MediumUndoable, Zenon
    <3>. QED BY <2>a, <3>1, <3>5, Zenon
  <2>7. ASSUME NEW side \in Sides, Reject(side)
        PROVE  RevertInv'
    <3>. DEFINE id == GetBestOrderId(book, side, GetBestPrice(book, side))
    <3>1. open /\ UNCHANGED <<open, saved>> /\ book' = CancelOrder(book, id, book.items[id])
      BY <2>7, Zenon DEF Reject, CanChange
    <3>. HIDE DEF id
    <3>2. Undoable(book', saved)
      BY <2>0, <3>1, CancelUndoable, Zenon
    <3>. QED BY <2>a, <3>1, <3>2, Zenon
  <2>8. CASE UNCHANGED bookVars
    BY <2>8, Zenon DEF bookVars, RevertInv
  <2>. QED BY <2>1, <2>2, <2>3, <2>4, <2>5, <2>6, <2>7, <2>8, Zenon DEF BookNext
<1>. QED BY <1>1, <1>2, PTL DEF BookSpec

\* RevertRestoresOrders: RevertToSnapshot gives every order its quantity, every list its
\* amounts and its volume, and the prices and the OrderID counter what the snapshot saw,
\* whatever entries, trades and rejections the order made since.
THEOREM RevertRestoresOrdersHolds == BookSpec => RevertRestoresOrders
<1>1. ASSUME RevertInv, Revert
      PROVE  /\ Resting(book') = Resting(saved)
             /\ book'.volume = saved.volume /\ book'.amounts = saved.amounts
             /\ book'.nonce = saved.nonce /\ book'.last = saved.last
             /\ book'.medium = saved.medium /\ book'.total = saved.total
  <2>1. Like(Live(saved), book', saved) /\ Resting(book') = Resting(saved)
    BY <1>1, RevertStep, Zenon
  <2>. QED BY <2>1, Zenon DEF Like
<1>. QED BY <1>1, RevertInvHolds, PTL DEF RevertRestoresOrders
=============================================================================
