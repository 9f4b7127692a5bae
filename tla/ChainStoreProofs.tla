--------------------------- MODULE ChainStoreProofs ---------------------------
(***************************************************************************)
(* The block store for any tree of blocks, any number of importing threads  *)
(* and of crashes: the database is consistent after every batch.            *)
(***************************************************************************)
EXTENDS ChainStore, WellFoundedInduction, TLAPS

\* SetHead is not called, and InsertBlock, which imports pruned ancestors without
\* the mutex, runs alone.
Apart(e) ==
  /\ e.rewinds = 0
  /\ e.threads \subseteq Importers \/ \E t \in Fetchers : e.threads = {t}

-----------------------------------------------------------------------------
(* The inductive invariant.  d is the database, c the fields in memory.     *)

DiskInv(d) ==
  /\ d \in [blocks : SUBSET Block, canon : [Heights -> Block \cup {NoBlock}],
            head : Block, header : Block, states : SUBSET Block]
  /\ Genesis \in d.blocks /\ Genesis \in d.states
  /\ \A b \in d.blocks \ {Genesis} : Parent[b] \in d.blocks
  /\ d.head \in d.blocks
  /\ \A n \in 0 .. Number[d.head] : d.canon[n] = AncestorAt(d.head, n)

ChainInv(d, c) ==
  /\ c \in [running : BOOLEAN, current : Block \cup {NoBlock}, header : Block \cup {NoBlock},
            tries : SUBSET Block, committed : Block \cup {NoBlock}, lastWrite : Int]
  /\ c.running => c.current \in Ancestors[d.head]

\* A block to import whose parent is stored.
Item(blocks) == [block : {b \in Block \ {Genesis} : Parent[b] \in blocks}, checked : BOOLEAN]

\* The record of a thread with such blocks to import.
Work(S) == [stage : {"idle", "run", "result", "written", "reorg", "head"},
            todo : Seq(S), new : Seq(Block), td : Nat, latest : Block \cup {NoBlock}]

\* What a thread that imports its first block has found out about it.
WorkInv(w, d, c) ==
  LET b == Head(w.todo).block IN
  /\ w \in Work(Item(d.blocks))
  /\ w.stage # "idle" => w.todo # << >>
  /\ w.stage \in {"written", "reorg", "head"} => b \in d.blocks
  /\ w.stage = "written" => w.td = Td[c.current]
  /\ w.stage = "reorg" =>
       /\ \E a \in Ancestors[b] \cap Ancestors[c.current] : w.new = Above(a, b)
       /\ w.new = << >> => d.head = b /\ c.current = b
  /\ w.stage = "head" => Parent[b] \in Ancestors[c.current]

\* Only the threads of the environment run, and the importers one at a time.
ThreadsInv ==
  \A t \in Threads : pc[t] # Idle =>
    t \in env.threads /\ chain.running /\ (t \in Importers => lock = t)

StoreInv ==
  /\ env \in Environments
  /\ DiskInv(disk)
  /\ ChainInv(disk, chain)
  /\ pc = [t \in Threads |-> pc[t]]
  /\ \A t \in Threads : WorkInv(pc[t], disk, chain)
  /\ ThreadsInv
  /\ faults \in Nat

-----------------------------------------------------------------------------
(* The states of blocks *)

\* The conditions under which the state of the head is kept: every state goes to disk,
\* or all imports hold the mutex, no reorganisation is refused for a committed block,
\* and a longer chain is not lighter, as with the difficulty of v2 blocks, which is one.
\* Otherwise a fork that grows beside the head dereferences the head's trie.
KeepsStates(e) ==
  \/ e.archive
  \/ /\ e.threads \subseteq Importers /\ e.final = {}
     /\ \A b, c \in Block : Number[b] > Number[c] => Td[b] >= Td[c]

\* On an archive node a block has its state on disk once the head may move to it.
ArchiveInv ==
  /\ chain.tries = {}
  /\ \A b \in disk.states \ {Genesis} : Parent[b] \in disk.states
  /\ disk.head \in disk.states
  /\ chain.running => chain.current = disk.head
  /\ \A t \in Threads : /\ pc[t].stage \in {"result", "written"} => Parent[Block1(t)] \in disk.states
                        /\ pc[t].stage \in {"reorg", "head"} => Block1(t) \in disk.states

\* Otherwise the current block has its state, or it is about to become a block that has.
CachedInv ==
  /\ chain.committed = NoBlock
  /\ chain.running => HasState(chain.current) \/ \E t \in Threads : pc[t].stage \in {"reorg", "head"}
  /\ \A t \in Threads : pc[t].stage \in {"reorg", "head"} => HasState(Block1(t))

StateInv == IF env.archive THEN ArchiveInv ELSE CachedInv

-----------------------------------------------------------------------------
(* Committed blocks *)

\* The conditions under which only a commit amid a reorganisation is reverted: besides Apart,
\* imports hold the mutex, and no crash leaves half a reorganisation.
KeepsCommitted(e) == e.threads \subseteq Importers /\ e.crashes = 0

\* The head was not repaired to a lower block when the chain was opened.
HeadNotRepaired == chain.running => chain.current = disk.head

\* A thread that reorganises keeps the committed block it has seen, and no older block is
\* committed since.
ReorgChecked(w, canon, committed) ==
  /\ committed \in Block /\ w.latest = committed =>
       (canon[Number[committed]] = committed => committed \in Ancestors[Head(w.todo).block])
  /\ w.latest \in Block => committed \in Block /\ Number[w.latest] <= Number[committed]

CommitInv ==
  /\ faults = 0
  /\ \A n \in Heights : disk.canon[n] # NoBlock => \A m \in 0 .. n : disk.canon[m] # NoBlock
  /\ (\A t \in Threads : pc[t].stage \notin {"reorg", "head"}) =>
       \A n \in Heights : n > Number[disk.head] => disk.canon[n] = NoBlock
  /\ \A t \in Threads : pc[t].stage = "head" =>
       \A n \in Heights : n > Number[Block1(t)] => disk.canon[n] = NoBlock
  /\ \A t \in Threads : pc[t].stage = "head" =>
       \A c \in Block : disk.canon[Number[c]] = c => c \in Ancestors[Block1(t)]
  /\ \A t \in Threads : pc[t].stage = "reorg" => ReorgChecked(pc[t], disk.canon, chain.committed)
-----------------------------------------------------------------------------
(* Sequences *)

\* A sequence is empty or has a positive length.
LEMMA EmptyOrNot ==
  ASSUME NEW S
  PROVE  << >> \in Seq(S) /\ Len(<< >>) = 0 /\ \A s \in Seq(S) : s # << >> => Len(s) \in Nat \ {0}
OBVIOUS

\* The first element of a list of blocks to import, and the list without it.
LEMMA HeadAndTail ==
  ASSUME NEW S, NEW s \in Seq(S), s # << >>
  PROVE  /\ Head(s) \in S /\ Tail(s) \in Seq(S) /\ Len(Tail(s)) = Len(s) - 1
         /\ \A i \in 1 .. Len(Tail(s)) : Tail(s)[i] = s[i + 1]
<1>1. Len(s) \in Nat /\ Len(s) # 0
  OBVIOUS
<1>2. Head(s) \in S
  BY <1>1
<1>3. Tail(s) \in Seq(S) /\ Len(Tail(s)) = Len(s) - 1
  BY <1>1
<1>. QED BY <1>1, <1>2, <1>3

\* Two lists one after the other; blocks are put before the rest of a list.
LEMMA Concatenation ==
  ASSUME NEW S, NEW s \in Seq(S), NEW t \in Seq(S)
  PROVE  s \o t \in Seq(S) /\ (s # << >> \/ t # << >> => s \o t # << >>)
<1>1. s \o t \in Seq(S) /\ Len(s \o t) = Len(s) + Len(t)
  OBVIOUS
<1>2. ASSUME s \o t = << >> PROVE s = << >> /\ t = << >>
  <2>1. Len(s) \in Nat /\ Len(t) \in Nat /\ Len(s) + Len(t) = 0
    BY <1>1, <1>2
  <2>. QED BY <2>1
<1>. QED BY <1>1, <1>2

\* A sequence is the function of its indexes.
LEMMA SeqIsFunction ==
  ASSUME NEW S, NEW s \in Seq(S)
  PROVE  s = [i \in 1 .. Len(s) |-> s[i]]
OBVIOUS

\* A list of stored blocks is one of all that are stored later.
LEMMA SeqOfSubset ==
  ASSUME NEW S, NEW T, S \subseteq T, NEW s \in Seq(S)
  PROVE  s \in Seq(T)
OBVIOUS

-----------------------------------------------------------------------------
(* The tree of blocks *)

\* Every block but the genesis block has a parent one number below.
LEMMA ParentBelow ==
  /\ Genesis \in Block /\ NoBlock \notin Block /\ Number[Genesis] = 0
  /\ \A b \in Block : Number[b] \in Nat /\ Td[b] \in Nat
  /\ \A b \in Block \ {Genesis} : /\ Parent[b] \in Block /\ Number[b] = Number[Parent[b]] + 1
                                  /\ Td[b] >= Td[Parent[b]]
  BY TreeAssumption DEF TreeAssumption

\* A set with b that is closed under Parent has all ancestors of b, the headers that
\* a walk along ParentHash reaches.
LEMMA AncestorsLeast ==
  ASSUME NEW b \in Block, NEW S \in SUBSET Block, b \in S, \A c \in S \ {Genesis} : Parent[c] \in S
  PROVE  Ancestors[b] \subseteq S
  BY DEF Ancestors

\* The ancestors of b are such a set.
LEMMA AncestorsClosed ==
  ASSUME NEW b \in Block
  PROVE  /\ Ancestors[b] \in SUBSET Block
         /\ b \in Ancestors[b]
         /\ \A c \in Ancestors[b] \ {Genesis} : Parent[c] \in Ancestors[b]
<1>1. Ancestors[b] = {a \in Block : \A S \in SUBSET Block :
                        b \in S /\ (\A c \in S \ {Genesis} : Parent[c] \in S) => a \in S}
  BY DEF Ancestors
<1>2. ASSUME NEW c \in Ancestors[b] \ {Genesis}
      PROVE  Parent[c] \in Ancestors[b]
  <2>1. Parent[c] \in Block
    BY <1>1, ParentBelow
  <2>. QED BY <1>1, <2>1
<1>. QED BY <1>1, <1>2

\* Ancestors of an ancestor are ancestors.
LEMMA AncestorsTransitive ==
  ASSUME NEW b \in Block, NEW a \in Ancestors[b]
  PROVE  a \in Block /\ Ancestors[a] \subseteq Ancestors[b]
  BY AncestorsClosed, AncestorsLeast

\* The ancestors of b are b and those of its parent.
LEMMA AncestorsOfChild ==
  ASSUME NEW b \in Block \ {Genesis}
  PROVE  Ancestors[b] = {b} \cup Ancestors[Parent[b]]
<1>1. Parent[b] \in Block
  BY ParentBelow
<1>2. Parent[b] \in Ancestors[b]
  BY AncestorsClosed
<1>3. {b} \cup Ancestors[Parent[b]] \subseteq Ancestors[b]
  BY <1>2, AncestorsClosed, AncestorsTransitive
<1>. DEFINE S == {b} \cup Ancestors[Parent[b]]
<1>4. S \in SUBSET Block /\ b \in S /\ \A c \in S \ {Genesis} : Parent[c] \in S
  BY <1>1, AncestorsClosed
<1>. HIDE DEF S
<1>5. Ancestors[b] \subseteq S
  BY <1>4, AncestorsLeast
<1>. QED BY <1>3, <1>5 DEF S

\* The genesis block has no other ancestor.
LEMMA AncestorsOfGenesis == Ancestors[Genesis] = {Genesis}
<1>. DEFINE S == {Genesis}
<1>1. S \in SUBSET Block /\ Genesis \in S /\ \A c \in S \ {Genesis} : Parent[c] \in S
  BY ParentBelow
<1>. HIDE DEF S
<1>2. Ancestors[Genesis] \subseteq S
  BY <1>1, AncestorsLeast
<1>. QED BY <1>2, ParentBelow, AncestorsClosed DEF S

\* Ancestors have lower numbers.
LEMMA AncestorsLower ==
  ASSUME NEW b \in Block, NEW a \in Ancestors[b]
  PROVE  Number[a] <= Number[b] /\ (Number[a] = Number[b] => a = b)
<1>. DEFINE S == {c \in Block : Number[c] < Number[b]} \cup {b}
<1>1. S \in SUBSET Block /\ b \in S /\ \A c \in S \ {Genesis} : Parent[c] \in S
  BY ParentBelow
<1>. HIDE DEF S
<1>2. Ancestors[b] \subseteq S
  BY <1>1, AncestorsLeast
<1>. QED BY <1>2, ParentBelow DEF S

\* And no higher total difficulty.
LEMMA AncestorsLighter ==
  ASSUME NEW b \in Block, NEW a \in Ancestors[b]
  PROVE  Td[a] <= Td[b]
<1>. DEFINE S == {c \in Block : Td[c] <= Td[b]}
<1>1. S \in SUBSET Block /\ b \in S /\ \A c \in S \ {Genesis} : Parent[c] \in S
  BY ParentBelow
<1>. HIDE DEF S
<1>2. Ancestors[b] \subseteq S
  BY <1>1, AncestorsLeast
<1>. QED BY <1>2 DEF S

\* Of two ancestors of a block one is an ancestor of the other.
LEMMA AncestorsLinear ==
  ASSUME NEW b \in Block, NEW a \in Ancestors[b], NEW c \in Ancestors[b]
  PROVE  a \in Ancestors[c] \/ c \in Ancestors[a]
<1>. DEFINE S == {x \in Ancestors[b] : x \in Ancestors[c] \/ c \in Ancestors[x]}
<1>0. c \in Block
  BY AncestorsClosed
<1>1. ASSUME NEW x \in S \ {Genesis}
      PROVE  Parent[x] \in S
  <2>1. Parent[x] \in Ancestors[b] /\ x \in Block
    BY AncestorsClosed
  <2>2. CASE x \in Ancestors[c]
    BY <1>0, <2>1, <2>2, AncestorsClosed
  <2>3. CASE c \in Ancestors[x] /\ c = x
    BY <1>0, <2>1, <2>3, AncestorsClosed
  <2>4. CASE c \in Ancestors[x] /\ c # x
    BY <2>1, <2>4, AncestorsOfChild
  <2>. QED BY <2>2, <2>3, <2>4
<1>2. S \in SUBSET Block /\ b \in S
  BY AncestorsClosed
<1>3. Ancestors[b] \subseteq S
  BY <1>1, <1>2, AncestorsLeast, Zenon
<1>. QED BY <1>3

\* A nonempty set of natural numbers has a least element.
LEMMA LeastOf ==
  ASSUME NEW T \in SUBSET Nat, T # {}
  PROVE  \E x \in T : \A y \in T : x <= y
<1>1. \E x \in T : \A y \in T : <<y, x>> \notin OpToRel(<, Nat)
  BY NatLessThanWellFounded, WFMin, Zenon
<1>2. \A x, y \in Nat : y < x => <<y, x>> \in OpToRel(<, Nat)
  BY DEF OpToRel
<1>3. PICK x \in T : \A y \in T : ~(y < x)
  BY <1>1, <1>2, Zenon
<1>4. \A y \in T : x <= y
  BY <1>3
<1>. QED BY <1>4

\* All chains start with the genesis block.
LEMMA GenesisIsAncestor ==
  ASSUME NEW b \in Block
  PROVE  Genesis \in Ancestors[b]
<1>. SUFFICES ASSUME Genesis \notin Ancestors[b] PROVE FALSE
  OBVIOUS
<1>. DEFINE N == {Number[c] : c \in Ancestors[b]}
<1>1. N \in SUBSET Nat /\ N # {}
  BY AncestorsClosed, ParentBelow
<1>2. PICK n \in N : \A m \in N : n <= m
  <2>. HIDE DEF N
  <2>. QED BY <1>1, LeastOf
<1>3. PICK c \in Ancestors[b] : Number[c] = n
  BY <1>2
<1>4. Parent[c] \in Ancestors[b] /\ c \in Block /\ c # Genesis
  BY AncestorsClosed
<1>5. Number[Parent[c]] \in N
  BY <1>4
<1>6. n <= Number[Parent[c]]
  BY <1>2, <1>5
<1>. QED BY <1>3, <1>4, <1>6, ParentBelow

\* A block has exactly one ancestor of each number below its own.
LEMMA AncestorAtExists ==
  ASSUME NEW b \in Block, NEW n \in 0 .. Number[b]
  PROVE  AncestorAt(b, n) \in Ancestors[b] /\ Number[AncestorAt(b, n)] = n
<1>1. \E a \in Ancestors[b] : Number[a] = n
  <2>. SUFFICES ASSUME \A a \in Ancestors[b] : Number[a] # n PROVE FALSE
    OBVIOUS
  <2>. DEFINE S == {c \in Ancestors[b] : Number[c] > n}
  <2>1. S \in SUBSET Block /\ b \in S
    BY AncestorsClosed, ParentBelow
  <2>2. \A c \in S \ {Genesis} : Parent[c] \in S
    BY AncestorsClosed, ParentBelow
  <2>. HIDE DEF S
  <2>3. Ancestors[b] \subseteq S
    BY <2>1, <2>2, AncestorsLeast
  <2>. QED BY <2>3, GenesisIsAncestor, ParentBelow DEF S
<1>. QED BY <1>1 DEF AncestorAt

LEMMA AncestorAtUnique ==
  ASSUME NEW b \in Block, NEW a \in Ancestors[b]
  PROVE  AncestorAt(b, Number[a]) = a
<1>1. Number[a] \in 0 .. Number[b]
  BY AncestorsLower, AncestorsClosed, ParentBelow
<1>. DEFINE c == AncestorAt(b, Number[a])
<1>2. c \in Ancestors[b] /\ Number[c] = Number[a]
  BY <1>1, AncestorAtExists
<1>3. a \in Block /\ c \in Block
  BY <1>2, AncestorsClosed
<1>4. a \in Ancestors[c] \/ c \in Ancestors[a]
  BY <1>2, AncestorsLinear
<1>. QED BY <1>2, <1>3, <1>4, AncestorsLower

\* An ancestor has the same ancestors up to its own number.
LEMMA AncestorAtShared ==
  ASSUME NEW b \in Block, NEW a \in Ancestors[b], NEW n \in 0 .. Number[a]
  PROVE  AncestorAt(a, n) = AncestorAt(b, n)
<1>1. a \in Block
  BY AncestorsClosed
<1>2. AncestorAt(a, n) \in Ancestors[a] /\ Number[AncestorAt(a, n)] = n
  BY <1>1, AncestorAtExists
<1>. QED BY <1>1, <1>2, AncestorsTransitive, AncestorAtUnique

\* A set of ancestors has a highest one.
LEMMA HighestExists ==
  ASSUME NEW b \in Block, NEW S \in SUBSET Ancestors[b], S # {}
  PROVE  Highest(S) \in S /\ \A c \in S : Number[c] <= Number[Highest(S)]
<1>. DEFINE N == {Number[b] - Number[c] : c \in S}
<1>1. N \in SUBSET Nat /\ N # {}
  BY AncestorsClosed, AncestorsLower, ParentBelow
<1>2. PICK n \in N : \A m \in N : n <= m
  <2>. HIDE DEF N
  <2>. QED BY <1>1, LeastOf
<1>3. PICK a \in S : n = Number[b] - Number[a]
  BY <1>2
<1>4. ASSUME NEW c \in S PROVE Number[c] <= Number[a]
  <2>1. Number[b] - Number[c] \in N
    OBVIOUS
  <2>2. n <= Number[b] - Number[c]
    BY <1>2, <2>1
  <2>. QED BY <1>3, <2>2, AncestorsClosed, ParentBelow
<1>. QED BY <1>3, <1>4 DEF Highest

\* The path from an ancestor a up to b starts with a child of a.
LEMMA AboveIsPath ==
  ASSUME NEW b \in Block, NEW a \in Ancestors[b]
  PROVE  /\ Above(a, b) \in Seq(Block)
         /\ Above(a, b) = << >> <=> a = b
         /\ \A i \in 1 .. Len(Above(a, b)) :
              /\ Above(a, b)[i] \in Ancestors[b]
              /\ Above(a, b)[i] # Genesis
         /\ a # b => LET c == Head(Above(a, b)) IN
              /\ c \in Ancestors[b] /\ c # Genesis /\ Parent[c] = a
              /\ Tail(Above(a, b)) = Above(c, b)
<1>. DEFINE k == Number[b] - Number[a]
            s == Above(a, b)
<1>1. a \in Block /\ k \in Nat /\ Number[a] \in Nat /\ Number[b] \in Nat /\ (k = 0 <=> a = b)
  BY AncestorsClosed, AncestorsLower, ParentBelow
<1>2. ASSUME NEW i \in 1 .. k
      PROVE  /\ AncestorAt(b, Number[a] + i) \in Ancestors[b] /\ AncestorAt(b, Number[a] + i) \in Block
             /\ Number[AncestorAt(b, Number[a] + i)] = Number[a] + i
             /\ AncestorAt(b, Number[a] + i) # Genesis
  <2>1. Number[a] + i \in 0 .. Number[b]
    BY <1>1
  <2>. QED BY <1>1, <2>1, AncestorAtExists, AncestorsClosed, ParentBelow
<1>3. s = [i \in 1 .. k |-> AncestorAt(b, Number[a] + i)]
  BY DEF Above
<1>4. s \in Seq(Block) /\ Len(s) = k
  BY <1>1, <1>2, <1>3
<1>5. s = << >> <=> a = b
  BY <1>1, <1>4
<1>6. ASSUME a # b
      PROVE  LET c == Head(s) IN
             /\ c \in Ancestors[b] /\ c # Genesis /\ Parent[c] = a
             /\ Tail(s) = Above(c, b)
  <2>. DEFINE c == AncestorAt(b, Number[a] + 1)
  <2>1. k >= 1 /\ 1 \in 1 .. k
    BY <1>1, <1>6
  <2>2. Head(s) = c
    BY <1>3, <1>4, <2>1
  <2>3. c \in Ancestors[b] /\ c \in Block /\ Number[c] = Number[a] + 1 /\ c # Genesis
    BY <1>2, <2>1
  <2>4. Parent[c] = a
    <3>1. Parent[c] \in Ancestors[b] /\ Number[Parent[c]] = Number[a]
      BY <1>1, <2>3, AncestorsClosed, ParentBelow
    <3>. QED BY <3>1, AncestorAtUnique
  <2>5. Tail(s) = Above(c, b)
    <3>. HIDE DEF c
    <3>1. Above(c, b) = [i \in 1 .. k - 1 |-> AncestorAt(b, Number[a] + 1 + i)]
      BY <1>1, <2>3 DEF Above
    <3>. HIDE DEF s
    <3>2. Tail(s) \in Seq(Block) /\ Len(Tail(s)) = k - 1
          /\ \A i \in 1 .. Len(Tail(s)) : Tail(s)[i] = s[i + 1]
      BY <1>4, <2>1, HeadAndTail, EmptyOrNot
    <3>3. \A i \in 1 .. k - 1 : s[i + 1] = AncestorAt(b, Number[a] + 1 + i)
      <4>1. ASSUME NEW i \in 1 .. k - 1 PROVE i + 1 \in 1 .. k /\ Number[a] + (i + 1) = Number[a] + 1 + i
        BY <1>1
      <4>. QED BY <1>3, <4>1
    <3>4. Tail(s) = [i \in 1 .. k - 1 |-> Tail(s)[i]]
      BY <3>2, SeqIsFunction, Zenon
    <3>. QED BY <3>1, <3>2, <3>3, <3>4
  <2>. QED BY <2>2, <2>3, <2>4, <2>5
<1>. QED BY <1>2, <1>3, <1>4, <1>5, <1>6, ZenonT(30)
\* The ancestors of a stored block are stored.
LEMMA StoredAncestors ==
  ASSUME NEW d, DiskInv(d), NEW b \in d.blocks
  PROVE  b \in Block /\ Ancestors[b] \subseteq d.blocks
<1>1. d.blocks \in SUBSET Block /\ \A c \in d.blocks \ {Genesis} : Parent[c] \in d.blocks
  BY DEF DiskInv
<1>2. b \in Block
  BY <1>1
<1>. QED BY <1>1, <1>2, AncestorsLeast

-----------------------------------------------------------------------------
(* What the batches do to the database *)

\* The block batch of writeBlockWithState and writeBlockWithoutState.
LEMMA BlockBatch ==
  ASSUME NEW d, DiskInv(d), NEW b \in Block \ {Genesis}, Parent[b] \in d.blocks
  PROVE  DiskInv([d EXCEPT !.blocks = @ \cup {b}])
  BY DEF DiskInv

\* States that are committed.
LEMMA StateBatch ==
  ASSUME NEW d, DiskInv(d), NEW S \in SUBSET Block
  PROVE  DiskInv([d EXCEPT !.states = @ \cup S])
  BY DEF DiskInv

\* The batch of writeHeadBlock, when the parent of the new head is on the chain of
\* the old one.
LEMMA HeadBatch ==
  ASSUME NEW d, DiskInv(d), NEW b \in Block \ {Genesis}, Parent[b] \in Ancestors[d.head],
         NEW B \in {d.blocks, d.blocks \cup {b}}, b \in B
  PROVE  DiskInv([d EXCEPT !.canon[Number[b]] = b, !.head = b, !.header = b, !.blocks = B])
<1>. DEFINE e == [d EXCEPT !.canon[Number[b]] = b, !.head = b, !.header = b, !.blocks = B]
<1>1. /\ d \in [blocks : SUBSET Block, canon : [Heights -> Block \cup {NoBlock}],
                head : Block, header : Block, states : SUBSET Block]
      /\ Genesis \in d.blocks /\ Genesis \in d.states
      /\ \A c \in d.blocks \ {Genesis} : Parent[c] \in d.blocks
      /\ d.head \in d.blocks
  BY DEF DiskInv
<1>2. Number[b] \in Heights
  BY DEF Heights
<1>3. /\ e \in [blocks : SUBSET Block, canon : [Heights -> Block \cup {NoBlock}],
                head : Block, header : Block, states : SUBSET Block]
      /\ e.blocks = B /\ e.head = b /\ e.states = d.states
      /\ e.canon = [d.canon EXCEPT ![Number[b]] = b]
  BY <1>1, <1>2, Zenon
<1>4. Parent[b] \in d.blocks
  BY <1>1, StoredAncestors
<1>5. \A c \in B \ {Genesis} : Parent[c] \in B
  BY <1>1, <1>4
<1>6. ASSUME NEW n \in 0 .. Number[b]
      PROVE  e.canon[n] = AncestorAt(b, n)
  <2>1. CASE n = Number[b]
    <3>1. AncestorAt(b, n) = b
      BY <2>1, AncestorAtUnique, AncestorsClosed
    <3>. QED BY <1>1, <1>2, <1>3, <2>1, <3>1
  <2>2. CASE n # Number[b]
    <3>1. n \in 0 .. Number[Parent[b]] /\ Parent[b] \in Block
      BY <2>2, ParentBelow
    <3>2. Number[Parent[b]] <= Number[d.head] /\ Number[Parent[b]] \in Nat /\ Number[d.head] \in Nat
      BY <1>1, ParentBelow, AncestorsLower
    <3>3. d.canon[n] = AncestorAt(d.head, n)
      BY <3>1, <3>2 DEF DiskInv
    <3>4. AncestorAt(Parent[b], n) = AncestorAt(d.head, n)
      BY <1>1, <3>1, AncestorAtShared
    <3>5. AncestorAt(Parent[b], n) = AncestorAt(b, n)
      BY <3>1, AncestorsClosed, AncestorAtShared
    <3>6. e.canon[n] = d.canon[n]
      BY <1>1, <1>3, <2>2
    <3>. QED BY <3>3, <3>4, <3>5, <3>6
  <2>. QED BY <2>1, <2>2
<1>. HIDE DEF e
<1>7. DiskInv(e)
  BY <1>1, <1>3, <1>5, <1>6 DEF DiskInv
<1>. QED BY <1>7 DEF e

\* The deletion of the canonical numbers above the new head that ends reorg.
LEMMA CutBatch ==
  ASSUME NEW d, DiskInv(d), NEW canon \in [Heights -> Block \cup {NoBlock}],
         \A n \in Heights : n <= Number[d.head] => canon[n] = d.canon[n]
  PROVE  DiskInv([d EXCEPT !.canon = canon])
<1>1. ASSUME NEW n \in 0 .. Number[d.head] PROVE n \in Heights
  <2>1. d.head \in Block
    BY DEF DiskInv
  <2>2. AncestorAt(d.head, n) \in Block /\ Number[AncestorAt(d.head, n)] = n
    BY <2>1, AncestorAtExists, AncestorsClosed
  <2>. QED BY <2>2 DEF Heights
<1>. QED BY <1>1, ParentBelow DEF DiskInv

-----------------------------------------------------------------------------
(* Threads *)

LEMMA IdleWork ==
  ASSUME NEW d, NEW c
  PROVE  WorkInv(Idle, d, c)
<1>1. << >> \in Seq(Item(d.blocks)) /\ << >> \in Seq(Block)
  BY EmptyOrNot
<1>. QED BY <1>1 DEF WorkInv, Work, Idle

\* A thread in the middle of its work is alone, and knows of its first block.
LEMMA Working ==
  ASSUME StoreInv, \A e \in Environments : Apart(e), NEW t \in Threads, pc[t].stage # "idle"
  PROVE  /\ pc[t] # Idle /\ \A u \in Threads \ {t} : pc[u] = Idle
         /\ t \in env.threads /\ chain.running /\ (t \in Importers => lock = t)
         /\ chain.current \in Block /\ chain.current \in Ancestors[disk.head]
         /\ WorkInv(pc[t], disk, chain)
         /\ pc[t].todo \in Seq(Item(disk.blocks)) /\ pc[t].todo # << >>
         /\ Head(pc[t].todo) \in Item(disk.blocks)
         /\ Block1(t) \in Block \ {Genesis} /\ Parent[Block1(t)] \in disk.blocks
<1>1. pc[t] # Idle
  BY DEF Idle
<1>2. t \in env.threads /\ chain.running /\ (t \in Importers => lock = t)
  BY <1>1 DEF StoreInv, ThreadsInv
<1>3. Apart(env)
  BY DEF StoreInv
<1>4. ASSUME NEW u \in Threads \ {t} PROVE pc[u] = Idle
  <2>. SUFFICES ASSUME pc[u] # Idle PROVE FALSE
    OBVIOUS
  <2>1. u \in env.threads /\ (u \in Importers => lock = u)
    BY DEF StoreInv, ThreadsInv
  <2>. QED BY <1>2, <1>3, <2>1 DEF Apart
<1>5. chain.current \in Ancestors[disk.head] /\ disk.head \in Block
  BY <1>2 DEF StoreInv, ChainInv, DiskInv
<1>6. chain.current \in Block
  BY <1>5, AncestorsClosed
<1>7. WorkInv(pc[t], disk, chain)
  BY DEF StoreInv
<1>8. pc[t].todo \in Seq(Item(disk.blocks)) /\ pc[t].todo # << >>
  BY <1>7 DEF WorkInv, Work
<1>9. Head(pc[t].todo) \in Item(disk.blocks)
  BY <1>8, HeadAndTail
<1>10. Block1(t) \in Block \ {Genesis} /\ Parent[Block1(t)] \in disk.blocks
  BY <1>9 DEF Item, Block1
<1>. QED BY <1>1, <1>2, <1>4, <1>5, <1>6, <1>7, <1>8, <1>9, <1>10, Zenon

\* A step of one thread while the others are idle.
LEMMA ThreadStep ==
  ASSUME StoreInv, NEW t \in Threads, \A u \in Threads \ {t} : pc[u] = Idle,
         NEW w, pc' = [pc EXCEPT ![t] = w],
         env' = env, faults' \in Nat,
         DiskInv(disk'), ChainInv(disk', chain'), WorkInv(w, disk', chain'),
         w # Idle => t \in env.threads /\ chain'.running /\ (t \in Importers => lock' = t)
  PROVE  StoreInv'
<1>1. pc = [u \in Threads |-> pc[u]] /\ env \in Environments
  BY DEF StoreInv
<1>2. pc' = [u \in Threads |-> pc'[u]]
  BY <1>1
<1>3. pc'[t] = w /\ \A u \in Threads \ {t} : pc'[u] = Idle
  BY <1>1
<1>4. \A u \in Threads : WorkInv(pc'[u], disk', chain')
  BY <1>3, IdleWork
<1>5. ThreadsInv'
  BY <1>3 DEF ThreadsInv
<1>. QED BY <1>1, <1>2, <1>4, <1>5 DEF StoreInv
\* Work stays possible when blocks are added.
LEMMA ItemsStay ==
  ASSUME NEW A, NEW B, A \subseteq B, NEW s \in Seq(Item(A))
  PROVE  s \in Seq(Item(B))
<1>1. Item(A) \subseteq Item(B)
  BY DEF Item
<1>. QED BY <1>1, SeqOfSubset

\* Stages that know no more than the blocks to import.
LEMMA RunWork ==
  ASSUME NEW w, NEW d, NEW c, w.stage \in {"run", "result"},
         w \in Work(Item(d.blocks)), w.todo # << >>
  PROVE  WorkInv(w, d, c)
  BY DEF WorkInv

\* The record of a thread that starts on a list of blocks.
LEMMA NextWork ==
  ASSUME NEW S, NEW list \in Seq(S)
  PROVE  [Idle EXCEPT !.stage = "run", !.todo = list] \in Work(S)
<1>1. << >> \in Seq(Block)
  BY EmptyOrNot
<1>. QED BY <1>1, Zenon DEF Idle, Work

\* The end of the work on a block, and of a whole call.
LEMMA DoneStep ==
  ASSUME StoreInv, \A e \in Environments : Apart(e), NEW t \in Threads, pc[t].stage # "idle",
         Done(t) \/ Return(t), env' = env, faults' = faults,
         DiskInv(disk'), ChainInv(disk', chain'), disk.blocks \subseteq disk'.blocks, chain'.running
  PROVE  StoreInv'
<1>1. faults' \in Nat
  BY DEF StoreInv
<1>2. CASE pc' = [pc EXCEPT ![t] = Idle]
  BY <1>1, <1>2, Working, ThreadStep, IdleWork, Zenon
<1>3. CASE Done(t) /\ Len(pc[t].todo) # 1
  <2>. DEFINE w == [Idle EXCEPT !.stage = "run", !.todo = Tail(pc[t].todo)]
  <2>1. pc' = [pc EXCEPT ![t] = w] /\ lock' = lock
    BY <1>3 DEF Done
  <2>2. pc[t].todo \in Seq(Item(disk'.blocks)) /\ pc[t].todo # << >>
    BY Working, ItemsStay
  <2>3. Tail(pc[t].todo) \in Seq(Item(disk'.blocks)) /\ Tail(pc[t].todo) # << >>
    <3>1. Len(pc[t].todo) \in Nat \ {0}
      BY <2>2, EmptyOrNot
    <3>2. Tail(pc[t].todo) \in Seq(Item(disk'.blocks)) /\ Len(Tail(pc[t].todo)) = Len(pc[t].todo) - 1
      BY <2>2, HeadAndTail, Zenon
    <3>3. Len(Tail(pc[t].todo)) # 0
      BY <1>3, <3>1, <3>2
    <3>. QED BY <3>2, <3>3, EmptyOrNot, Zenon
  <2>4. w.stage = "run" /\ w.todo = Tail(pc[t].todo)
    BY DEF Idle
  <2>5. w \in Work(Item(disk'.blocks))
    BY <2>3, NextWork, Zenon
  <2>. HIDE DEF w
  <2>6. WorkInv(w, disk', chain')
    <3>1. w.stage \in {"run", "result"} /\ w.todo # << >>
      BY <2>3, <2>4
    <3>. QED BY <2>5, <3>1, RunWork
  <2>. QED BY <1>1, <2>1, <2>6, Working, ThreadStep, Zenon
<1>. QED BY <1>2, <1>3 DEF Done, Return

LEMMA UncheckedItems ==
  ASSUME NEW A, NEW s \in Seq({b \in Block \ {Genesis} : Parent[b] \in A})
  PROVE  Unchecked(s) \in Seq(Item(A))
  BY DEF Unchecked, Item

LEMMA CheckedItem ==
  ASSUME NEW A, NEW b \in Block \ {Genesis}, Parent[b] \in A
  PROVE  Checked(b) \in Seq(Item(A)) /\ Checked(b) # << >> /\ Len(Checked(b)) = 1
  BY DEF Checked, Item

\* The pruned ancestors that getResultBlock and insertChain import first.
LEMMA WinnerItems ==
  ASSUME StoreInv, NEW b \in Block \ {Genesis}, Parent[b] \in disk.blocks
  PROVE  Unchecked(Winner(b)) \in Seq(Item(disk.blocks))
<1>. DEFINE S == disk.states \cup chain.tries
            a == Repair(Parent[b], S)
<1>1. DiskInv(disk) /\ Genesis \in disk.states
  BY DEF StoreInv, DiskInv
<1>2. Parent[b] \in Block /\ Ancestors[Parent[b]] \subseteq disk.blocks
  BY <1>1, StoredAncestors
<1>3. a \in Ancestors[Parent[b]]
  <2>1. Genesis \in Ancestors[Parent[b]] \cap S
    BY <1>1, <1>2, GenesisIsAncestor
  <2>2. Ancestors[Parent[b]] \cap S \in SUBSET Ancestors[Parent[b]]
    OBVIOUS
  <2>. QED BY <1>2, <2>1, <2>2, HighestExists DEF Repair
<1>. DEFINE s == Winner(b)
            T == {x \in Block \ {Genesis} : Parent[x] \in disk.blocks}
<1>4. s = Above(a, Parent[b])
  BY DEF Winner
<1>. HIDE DEF s, a
<1>5. s \in Seq(Block) /\ \A i \in 1 .. Len(s) : s[i] \in Ancestors[Parent[b]] /\ s[i] # Genesis
  BY <1>2, <1>3, <1>4, AboveIsPath
<1>6. \A x \in disk.blocks \ {Genesis} : Parent[x] \in disk.blocks
  BY <1>1 DEF DiskInv
<1>7. \A i \in 1 .. Len(s) : s[i] \in T
  BY <1>2, <1>5, <1>6, AncestorsClosed
<1>8. s \in Seq(T)
  BY <1>5, <1>7
<1>9. Unchecked(s) \in Seq(Item(disk.blocks))
  BY <1>8, UncheckedItems
<1>. QED BY <1>9 DEF s
-----------------------------------------------------------------------------
(* The steps of a thread *)

\* ChainInv depends on the head alone.
LEMMA ChainFrame ==
  ASSUME NEW d, NEW e, NEW c, ChainInv(d, c), e.head = d.head
  PROVE  ChainInv(e, c)
  BY DEF ChainInv

\* A thread's record after a change of its fields.
LEMMA WorkChange ==
  ASSUME NEW S, NEW w \in Work(S), NEW stage \in {"idle", "run", "result", "written", "reorg", "head"}
  PROVE  /\ [w EXCEPT !.stage = stage] \in Work(S)
         /\ \A td \in Nat : [w EXCEPT !.stage = stage, !.td = td] \in Work(S)
         /\ \A new \in Seq(Block) : [w EXCEPT !.stage = stage, !.new = new] \in Work(S)
         /\ \A todo \in Seq(S) : [w EXCEPT !.stage = stage, !.todo = todo] \in Work(S)
         /\ \A new \in Seq(Block) : [w EXCEPT !.new = new] \in Work(S)
         /\ \A todo \in Seq(S) : [w EXCEPT !.todo = todo] \in Work(S)
  BY Zenon DEF Work

LEMMA WorkStays ==
  ASSUME NEW A, NEW B, A \subseteq B, NEW w \in Work(Item(A))
  PROVE  w \in Work(Item(B))
<1>1. w.todo \in Seq(Item(B))
  BY ItemsStay DEF Work
<1>. QED BY <1>1 DEF Work

\* A thread starts only when no other works: the mutex is free, or it is the only
\* thread.
LEMMA Starting ==
  ASSUME StoreInv, \A e \in Environments : Apart(e), NEW t \in env.threads,
         (t \in Importers /\ lock = NoThread) \/ t \in Fetchers
  PROVE  t \in Threads /\ \A u \in Threads \ {t} : pc[u] = Idle
<1>1. Apart(env)
  BY DEF StoreInv
<1>2. t \in Threads
  BY DEF Threads
<1>3. ASSUME NEW u \in Threads \ {t}, pc[u] # Idle PROVE FALSE
  <2>1. u \in env.threads /\ (u \in Importers => lock = u)
    BY <1>3 DEF StoreInv, ThreadsInv
  <2>. QED BY <1>1, <2>1, ThreadsAssumption DEF ThreadsAssumption, Apart
<1>. QED BY <1>2, <1>3

LEMMA InsertChainStep ==
  ASSUME StoreInv, \A e \in Environments : Apart(e), NEW t \in Importers, NEW b \in Block, InsertChain(t, b)
  PROVE  StoreInv'
<1>. DEFINE list == Unchecked(<< b >>)
            w == [pc[t] EXCEPT !.stage = "run", !.todo = list]
<1>1. /\ t \in env.threads /\ chain.running /\ lock = NoThread /\ lock' = t /\ pc[t] = Idle
      /\ b # Genesis /\ Parent[b] \in disk.blocks
      /\ disk' = disk /\ chain' = chain /\ env' = env /\ faults' = faults
  BY DEF InsertChain, Linkable
<1>2. t \in Threads /\ \A u \in Threads \ {t} : pc[u] = Idle
  BY <1>1, Starting
<1>3. pc' = [pc EXCEPT ![t] = w]
  BY <1>2, Zenon DEF InsertChain, StoreInv
<1>4. list \in Seq(Item(disk.blocks)) /\ list # << >>
  BY <1>1 DEF Unchecked, Item
<1>5. w \in Work(Item(disk.blocks)) /\ w.stage = "run" /\ w.todo = list
  <2>. HIDE DEF list
  <2>1. w \in Work(Item(disk.blocks))
    BY <1>1, <1>4, NextWork, Zenon
  <2>. QED BY <1>1, <2>1 DEF Idle
<1>. HIDE DEF w
<1>6. WorkInv(w, disk', chain')
  BY <1>1, <1>4, <1>5, RunWork
<1>7. DiskInv(disk') /\ ChainInv(disk', chain') /\ faults' \in Nat
  BY <1>1 DEF StoreInv
<1>. QED BY <1>1, <1>2, <1>3, <1>6, <1>7, ThreadStep, Zenon

LEMMA InsertBlockStep ==
  ASSUME StoreInv, \A e \in Environments : Apart(e), NEW t \in Fetchers, NEW b \in Block, InsertBlock(t, b)
  PROVE  StoreInv'
<1>. DEFINE list == (IF Pruned(b) THEN Unchecked(Winner(b)) ELSE << >>) \o Checked(b)
            w == [pc[t] EXCEPT !.stage = "run", !.todo = list]
<1>1. /\ t \in env.threads /\ chain.running /\ lock' = lock /\ pc[t] = Idle
      /\ b # Genesis /\ Parent[b] \in disk.blocks
      /\ disk' = disk /\ chain' = chain /\ env' = env /\ faults' = faults
  BY DEF InsertBlock, Linkable
<1>2. t \in Threads /\ \A u \in Threads \ {t} : pc[u] = Idle
  BY <1>1, Starting
<1>3. pc' = [pc EXCEPT ![t] = w]
  BY <1>2, Zenon DEF InsertBlock, StoreInv
<1>4. list \in Seq(Item(disk.blocks)) /\ list # << >>
  <2>1. /\ (IF Pruned(b) THEN Unchecked(Winner(b)) ELSE << >>) \in Seq(Item(disk.blocks))
        /\ Checked(b) \in Seq(Item(disk.blocks)) /\ Checked(b) # << >>
    BY <1>1, WinnerItems, CheckedItem, EmptyOrNot, Zenon
  <2>. QED BY <2>1, Concatenation
<1>5. w \in Work(Item(disk.blocks)) /\ w.stage = "run" /\ w.todo = list
  <2>. HIDE DEF list
  <2>1. w \in Work(Item(disk.blocks))
    BY <1>1, <1>4, NextWork, Zenon
  <2>. QED BY <1>1, <2>1 DEF Idle
<1>. HIDE DEF w
<1>6. WorkInv(w, disk', chain')
  BY <1>1, <1>4, <1>5, RunWork
<1>7. DiskInv(disk') /\ ChainInv(disk', chain') /\ faults' \in Nat
  BY <1>1 DEF StoreInv
<1>8. t \notin Importers
  BY ThreadsAssumption DEF ThreadsAssumption
<1>. QED BY <1>1, <1>2, <1>3, <1>6, <1>7, <1>8, ThreadStep, Zenon
\* A thread goes on with another list of blocks.
LEMMA ListStep ==
  ASSUME StoreInv, \A e \in Environments : Apart(e), NEW t \in Threads, pc[t].stage = "run",
         NEW list \in Seq(Item(disk.blocks)), list # << >>, pc' = [pc EXCEPT ![t].todo = list],
         UNCHANGED << disk, chain, lock, faults, env >>
  PROVE  StoreInv'
<1>. DEFINE w == [pc[t] EXCEPT !.todo = list]
<1>1. pc[t].stage # "idle"
  OBVIOUS
<1>2. pc[t] \in Work(Item(disk.blocks))
  BY <1>1, Working DEF WorkInv
<1>3. w \in Work(Item(disk.blocks)) /\ w.stage = "run" /\ w.todo = list
  BY <1>2, Zenon DEF Work
<1>4. pc' = [pc EXCEPT ![t] = w]
  OBVIOUS
<1>. HIDE DEF w
<1>5. WorkInv(w, disk, chain)
  BY <1>3, RunWork
<1>6. DiskInv(disk') /\ ChainInv(disk', chain') /\ faults' \in Nat /\ WorkInv(w, disk', chain')
  BY <1>5 DEF StoreInv
<1>. QED BY <1>1, <1>4, <1>6, Working, ThreadStep, Zenon

LEMMA ValidateStep ==
  ASSUME StoreInv, \A e \in Environments : Apart(e), NEW t \in Threads, Validate(t)
  PROVE  StoreInv'
<1>. DEFINE b == Block1(t)
            rest == Tail(pc[t].todo)
<1>1. pc[t].stage = "run" /\ pc[t].stage # "idle" /\ chain' = chain /\ faults' = faults /\ env' = env
  BY DEF Validate
<1>2. /\ b \in Block \ {Genesis} /\ Parent[b] \in disk.blocks /\ chain.running
      /\ pc[t].todo \in Seq(Item(disk.blocks)) /\ pc[t].todo # << >>
  BY <1>1, Working
<1>3. rest \in Seq(Item(disk.blocks))
  BY <1>2, HeadAndTail, Zenon
<1>4. Checked(b) \in Seq(Item(disk.blocks)) /\ Checked(b) # << >>
  BY <1>2, CheckedItem
<1>5. Unchecked(Winner(b)) \in Seq(Item(disk.blocks))
  BY <1>2, WinnerItems
<1>6. DiskInv(disk) /\ ChainInv(disk, chain)
  BY DEF StoreInv
<1>7. CASE Done(t) /\ disk' = disk
  BY <1>1, <1>2, <1>6, <1>7, DoneStep
<1>8. CASE Done(t) /\ disk' = [disk EXCEPT !.blocks = @ \cup {b}]
  <2>1. DiskInv(disk')
    BY <1>2, <1>6, <1>8, BlockBatch, Zenon
  <2>2. disk'.head = disk.head /\ disk.blocks \subseteq disk'.blocks
    BY <1>6, <1>8 DEF DiskInv
  <2>3. ChainInv(disk', chain')
    BY <1>1, <1>6, <2>2, ChainFrame
  <2>. QED BY <1>1, <1>2, <1>8, <2>1, <2>2, <2>3, DoneStep, Zenon
<1>9. CASE /\ pc' = [pc EXCEPT ![t].todo = Unchecked(Winner(b)) \o Checked(b) \o Tail(@)]
           /\ UNCHANGED << disk, lock >>
  <2>. DEFINE list == Unchecked(Winner(b)) \o Checked(b) \o rest
  <2>1. Unchecked(Winner(b)) \o Checked(b) \in Seq(Item(disk.blocks)) /\ Unchecked(Winner(b)) \o Checked(b) # << >>
    BY <1>4, <1>5, Concatenation
  <2>2. list \in Seq(Item(disk.blocks)) /\ list # << >>
    BY <1>3, <2>1, Concatenation
  <2>3. pc' = [pc EXCEPT ![t].todo = list]
    BY <1>9
  <2>. HIDE DEF list
  <2>. QED BY <1>1, <1>9, <2>2, <2>3, ListStep, Zenon
<1>10. CASE pc' = [pc EXCEPT ![t].todo = Checked(b) \o Tail(@)] /\ UNCHANGED << disk, lock >>
  <2>. DEFINE list == Checked(b) \o rest
  <2>2. list \in Seq(Item(disk.blocks)) /\ list # << >>
    BY <1>3, <1>4, Concatenation
  <2>3. pc' = [pc EXCEPT ![t].todo = list]
    BY <1>10
  <2>. HIDE DEF list
  <2>. QED BY <1>1, <1>10, <2>2, <2>3, ListStep, Zenon
<1>. QED BY <1>7, <1>8, <1>9, <1>10, Zenon DEF Validate

LEMMA GetResultStep ==
  ASSUME StoreInv, \A e \in Environments : Apart(e), NEW t \in Threads, GetResult(t)
  PROVE  StoreInv'
<1>1. /\ t \in Fetchers /\ pc[t].stage = "run" /\ pc[t].stage # "idle"
      /\ disk' = disk /\ chain' = chain /\ faults' = faults /\ env' = env
  BY DEF GetResult
<1>2. DiskInv(disk') /\ ChainInv(disk', chain') /\ faults' \in Nat
  BY <1>1 DEF StoreInv
<1>3. CASE Return(t)
  BY <1>1, <1>2, <1>3, Working, DoneStep
<1>4. CASE Goto(t, "result") /\ UNCHANGED lock
  <2>. DEFINE w == [pc[t] EXCEPT !.stage = "result"]
  <2>1. pc' = [pc EXCEPT ![t] = w]
    BY <1>4, ZenonT(30) DEF Goto
  <2>2. pc[t] \in Work(Item(disk.blocks)) /\ pc[t].todo # << >>
    BY <1>1, Working DEF WorkInv
  <2>3. w \in Work(Item(disk.blocks)) /\ w.stage = "result" /\ w.todo = pc[t].todo
    BY <2>2 DEF Work
  <2>. HIDE DEF w
  <2>4. WorkInv(w, disk', chain')
    BY <1>1, <2>2, <2>3, RunWork
  <2>5. t \notin Importers
    BY <1>1, ThreadsAssumption DEF ThreadsAssumption
  <2>. QED BY <1>1, <1>2, <1>4, <2>1, <2>4, <2>5, Working, ThreadStep, Zenon
<1>. QED BY <1>3, <1>4 DEF GetResult
\* The batch with the block was written, for a thread that has the mutex or is alone.
LEMMA WrittenStep ==
  ASSUME StoreInv, \A e \in Environments : Apart(e), NEW t \in Threads, pc[t].stage # "idle",
         disk' = [disk EXCEPT !.blocks = @ \cup {Block1(t)}],
         pc' = [pc EXCEPT ![t].stage = "written", ![t].td = Td[chain.current]],
         lock' \in {lock, t}, UNCHANGED << chain, faults, env >>
  PROVE  StoreInv'
<1>. DEFINE b == Block1(t)
            w == [pc[t] EXCEPT !.stage = "written", !.td = Td[chain.current]]
<1>1. /\ b \in Block \ {Genesis} /\ Parent[b] \in disk.blocks /\ chain.running
      /\ pc[t] \in Work(Item(disk.blocks)) /\ pc[t].todo # << >>
      /\ Td[chain.current] \in Nat
  BY Working, ParentBelow DEF WorkInv
<1>2. pc' = [pc EXCEPT ![t] = w]
  BY Zenon DEF StoreInv
<1>3. DiskInv(disk)
  BY DEF StoreInv
<1>4. DiskInv(disk')
  BY <1>1, <1>3, BlockBatch, Zenon
<1>5. disk'.head = disk.head /\ disk'.blocks = disk.blocks \cup {b}
  BY <1>3 DEF DiskInv
<1>6. ChainInv(disk', chain')
  BY <1>5, ChainFrame, Zenon DEF StoreInv
<1>7. pc[t] \in Work(Item(disk'.blocks))
  BY <1>1, <1>5, WorkStays
<1>8. w \in Work(Item(disk'.blocks)) /\ w.stage = "written" /\ w.todo = pc[t].todo /\ w.td = Td[chain.current]
  BY <1>1, <1>7, Zenon DEF Work
<1>9. Head(w.todo).block = b
  BY <1>8 DEF Block1
<1>. HIDE DEF w
<1>10. WorkInv(w, disk', chain')
  BY <1>1, <1>5, <1>8, <1>9 DEF WorkInv
<1>11. faults' \in Nat
  BY DEF StoreInv
<1>. QED BY <1>1, <1>2, <1>4, <1>6, <1>10, <1>11, Working, ThreadStep, ZenonT(30)

LEMMA ExecuteAndWriteStep ==
  ASSUME StoreInv, \A e \in Environments : Apart(e), NEW t \in Threads, ExecuteAndWrite(t)
  PROVE  StoreInv'
<1>1. pc[t].stage # "idle" /\ chain' = chain /\ faults' = faults /\ env' = env
  BY Zenon DEF ExecuteAndWrite, WriteBlock
<1>2. CASE Return(t) /\ UNCHANGED disk
  <2>1. DiskInv(disk') /\ ChainInv(disk', chain')
    BY <1>1, <1>2 DEF StoreInv
  <2>. QED BY <1>1, <1>2, <2>1, Working, DoneStep
<1>3. CASE /\ disk' = [disk EXCEPT !.blocks = @ \cup {Block1(t)}]
           /\ pc' = [pc EXCEPT ![t].stage = "written", ![t].td = Td[chain.current]]
           /\ UNCHANGED lock
  BY <1>1, <1>3, WrittenStep, Zenon
<1>. QED BY <1>2, <1>3 DEF ExecuteAndWrite, WriteBlock

LEMMA WriteResultStep ==
  ASSUME StoreInv, \A e \in Environments : Apart(e), NEW t \in Threads, WriteResult(t)
  PROVE  StoreInv'
<1>1. pc[t].stage # "idle" /\ lock = NoThread /\ chain' = chain /\ faults' = faults /\ env' = env
  BY DEF WriteResult
<1>2. CASE pc' = [pc EXCEPT ![t] = Idle] /\ UNCHANGED << disk, lock >>
  <2>1. DiskInv(disk') /\ ChainInv(disk', chain') /\ faults' \in Nat
    BY <1>1, <1>2 DEF StoreInv
  <2>. QED BY <1>1, <1>2, <2>1, Working, ThreadStep, IdleWork, Zenon
<1>3. CASE /\ lock' = t
           /\ disk' = [disk EXCEPT !.blocks = @ \cup {Block1(t)}]
           /\ pc' = [pc EXCEPT ![t].stage = "written", ![t].td = Td[chain.current]]
  BY <1>1, <1>3, WrittenStep, Zenon
<1>. QED BY <1>2, <1>3 DEF WriteResult

\* The states that the choice of the canonical chain follows are committed or
\* referenced; head, blocks and current block stay.
LEMMA CommitStateStep ==
  ASSUME StoreInv, NEW b \in Block, NEW slow, CommitState(b, slow)
  PROVE  /\ DiskInv(disk') /\ ChainInv(disk', chain')
         /\ disk'.blocks = disk.blocks /\ disk'.head = disk.head /\ disk'.canon = disk.canon
         /\ chain'.current = chain.current /\ chain'.running = chain.running
<1>1. DiskInv(disk) /\ ChainInv(disk, chain)
  BY DEF StoreInv
<1>2. chain.tries \in SUBSET Block /\ chain.lastWrite \in Int
  BY <1>1 DEF ChainInv
<1>3. PICK S \in SUBSET Block : disk' = [disk EXCEPT !.states = @ \cup S]
  <2>1. CASE env.archive
    BY <2>1, Zenon DEF CommitState
  <2>2. CASE ~env.archive
    BY <1>2, <2>2, Zenon DEF CommitState
  <2>. QED BY <2>1, <2>2
<1>4. DiskInv(disk')
  BY <1>1, <1>3, StateBatch
<1>5. disk'.blocks = disk.blocks /\ disk'.head = disk.head /\ disk'.canon = disk.canon
  BY <1>1, <1>3 DEF DiskInv
<1>6. PICK tries \in SUBSET Block, last \in Int : chain' = [chain EXCEPT !.tries = tries, !.lastWrite = last]
  <2>1. CASE env.archive
    <3>1. chain' = chain
      BY <2>1 DEF CommitState
    <3>2. chain = [chain EXCEPT !.tries = chain.tries, !.lastWrite = chain.lastWrite]
      BY <1>1, Zenon DEF ChainInv
    <3>. QED BY <1>2, <3>1, <3>2, Zenon
  <2>2. CASE ~env.archive
    <3>1. Number[b] - env.triesInMemory \in Int
      <4>1. env \in Environment
        BY TreeAssumption DEF StoreInv, TreeAssumption
      <4>. QED BY <4>1, ParentBelow DEF Environment
    <3>2. Collected(b) \in SUBSET Block
      BY <1>2 DEF Collected
    <3>. QED BY <1>2, <2>2, <3>1, <3>2, Zenon DEF CommitState
  <2>. QED BY <2>1, <2>2, Zenon
<1>7. chain'.current = chain.current /\ chain'.running = chain.running
  BY <1>1, <1>6 DEF ChainInv
<1>8. ChainInv(disk', chain')
  BY <1>1, <1>5, <1>6, <1>7, Zenon DEF ChainInv
<1>. QED BY <1>4, <1>5, <1>7, <1>8
\* A block that wins is no ancestor of the current block: with the total difficulty of
\* the current block in hand, an ancestor is not heavier and not longer.
LEMMA WinnerIsNew ==
  ASSUME NEW old \in Block, NEW b \in Ancestors[old]
  PROVE  ~(Td[b] > Td[old] \/ (Td[b] = Td[old] /\ Number[b] > Number[old]))
  BY AncestorsLighter, AncestorsLower, AncestorsClosed, ParentBelow

LEMMA CommonAncestorExists ==
  ASSUME NEW old \in Block, NEW new \in Block
  PROVE  CommonAncestor(old, new) \in Ancestors[old] \cap Ancestors[new]
<1>1. Genesis \in Ancestors[old] \cap Ancestors[new]
  BY GenesisIsAncestor
<1>2. Ancestors[old] \cap Ancestors[new] \in SUBSET Ancestors[old]
  OBVIOUS
<1>. QED BY <1>1, <1>2, HighestExists DEF CommonAncestor

LEMMA ChooseStep ==
  ASSUME StoreInv, \A e \in Environments : Apart(e), NEW t \in Threads, NEW slow \in BOOLEAN, Choose(t, slow)
  PROVE  StoreInv'
<1>. DEFINE b == Block1(t)
            old == chain.current
<1>1. pc[t].stage = "written" /\ pc[t].stage # "idle" /\ CommitState(b, slow) /\ faults' = faults /\ env' = env
  BY ZenonT(30) DEF Choose
<1>2. /\ b \in Block \ {Genesis} /\ chain.running /\ old \in Block
      /\ pc[t] \in Work(Item(disk.blocks)) /\ pc[t].todo # << >>
      /\ b \in disk.blocks /\ pc[t].td = Td[old]
  BY <1>1, Working DEF WorkInv, Block1
<1>3. /\ DiskInv(disk') /\ ChainInv(disk', chain')
      /\ disk'.blocks = disk.blocks /\ disk'.head = disk.head
      /\ chain'.current = old /\ chain'.running
  BY <1>1, <1>2, CommitStateStep, Zenon
<1>4. faults' \in Nat
  BY <1>1 DEF StoreInv
<1>5. CASE Done(t) \/ Return(t)
  BY <1>1, <1>3, <1>5, DoneStep
<1>6. CASE Wins(t, b) /\ Parent[b] = old /\ Goto(t, "head") /\ UNCHANGED lock
  <2>. DEFINE w == [pc[t] EXCEPT !.stage = "head"]
  <2>1. pc' = [pc EXCEPT ![t] = w]
    BY <1>6 DEF Goto
  <2>2. w \in Work(Item(disk.blocks)) /\ w.stage = "head" /\ w.todo = pc[t].todo
    BY <1>2, Zenon DEF Work
  <2>3. Head(w.todo).block = b
    BY <2>2 DEF Block1
  <2>. HIDE DEF w
  <2>4. Parent[b] \in Ancestors[chain'.current]
    BY <1>2, <1>3, <1>6, AncestorsClosed, ZenonT(30)
  <2>5. WorkInv(w, disk', chain')
    BY <1>2, <1>3, <2>2, <2>3, <2>4 DEF WorkInv
  <2>. QED BY <1>1, <1>3, <1>4, <1>6, <2>1, <2>5, Working, ThreadStep, Zenon
<1>7. CASE /\ Wins(t, b)
           /\ pc' = [pc EXCEPT ![t].stage = "reorg", ![t].new = NewChain(old, b), ![t].latest = chain.committed]
           /\ UNCHANGED lock
  <2>. DEFINE a == CommonAncestor(old, b)
              new == NewChain(old, b)
              w == [pc[t] EXCEPT !.stage = "reorg", !.new = new, !.latest = chain.committed]
  <2>1. pc' = [pc EXCEPT ![t] = w]
    BY <1>7, Zenon DEF StoreInv
  <2>2. a \in Ancestors[old] \cap Ancestors[b]
    BY <1>2, CommonAncestorExists
  <2>3. a # b
    <3>1. ~(Td[b] > Td[old] \/ (Td[b] = Td[old] /\ Number[b] > Number[old])) \/ b \notin Ancestors[old]
      BY <1>2, WinnerIsNew, Zenon
    <3>. QED BY <1>2, <1>7, <2>2, <3>1, Zenon DEF Wins
  <2>4. new = Above(a, b) /\ new \in Seq(Block) /\ new # << >>
    <3>1. new = Above(a, b)
      BY DEF NewChain
    <3>. HIDE DEF new, a
    <3>. QED BY <1>2, <2>2, <2>3, <3>1, AboveIsPath, Zenon
  <2>. HIDE DEF new, a
  <2>5. w \in Work(Item(disk.blocks)) /\ w.stage = "reorg" /\ w.todo = pc[t].todo /\ w.new = new
    <3>1. chain.committed \in Block \cup {NoBlock}
      BY DEF StoreInv, ChainInv
    <3>. QED BY <1>2, <2>4, <3>1, Zenon DEF Work
  <2>6. Head(w.todo).block = b
    BY <2>5 DEF Block1
  <2>. HIDE DEF w
  <2>7. \E x \in Ancestors[b] \cap Ancestors[chain'.current] : w.new = Above(x, b)
    BY <1>3, <2>2, <2>4, <2>5, Zenon
  <2>8. WorkInv(w, disk', chain')
    BY <1>2, <1>3, <2>4, <2>5, <2>6, <2>7, Zenon DEF WorkInv
  <2>. QED BY <1>1, <1>3, <1>4, <1>7, <2>1, <2>8, Working, ThreadStep, Zenon
<1>. QED BY <1>5, <1>6, <1>7 DEF Choose

\* The head and the current block move to b, whose parent is on the old chain.
LEMMA WriteHeadBlockStep ==
  ASSUME StoreInv, chain.running, NEW b \in Block \ {Genesis}, Parent[b] \in Ancestors[chain.current],
         NEW writeBlock \in BOOLEAN, writeBlock \/ b \in disk.blocks, WriteHeadBlock(b, writeBlock)
  PROVE  /\ DiskInv(disk') /\ ChainInv(disk', chain')
         /\ disk'.head = b /\ disk'.blocks = disk.blocks \cup {b}
         /\ chain'.current = b /\ chain'.running
<1>. DEFINE B == IF writeBlock THEN disk.blocks \cup {b} ELSE disk.blocks
<1>1. DiskInv(disk) /\ ChainInv(disk, chain) /\ disk.head \in Block
  BY DEF StoreInv, DiskInv
<1>2. Parent[b] \in Ancestors[disk.head]
  <2>1. chain.current \in Ancestors[disk.head]
    BY <1>1 DEF ChainInv
  <2>. QED BY <1>1, <2>1, AncestorsTransitive
<1>3. disk' = [disk EXCEPT !.canon[Number[b]] = b, !.head = b, !.header = b, !.blocks = B]
  BY DEF WriteHeadBlock
<1>4. B \in {disk.blocks, disk.blocks \cup {b}} /\ b \in B /\ B = disk.blocks \cup {b}
  OBVIOUS
<1>. HIDE DEF B
<1>5. DiskInv(disk')
  BY <1>1, <1>2, <1>3, <1>4, HeadBatch, Zenon
<1>6. disk'.head = b /\ disk'.blocks = disk.blocks \cup {b}
  BY <1>1, <1>3, <1>4 DEF DiskInv
<1>7. chain' = [chain EXCEPT !.current = b, !.header = b]
  BY DEF WriteHeadBlock
<1>8. chain'.current = b /\ chain'.running
  BY <1>1, <1>7 DEF ChainInv
<1>9. b \in Ancestors[disk'.head]
  BY <1>6, AncestorsClosed
<1>10. ChainInv(disk', chain')
  BY <1>1, <1>7, <1>8, <1>9, Zenon DEF ChainInv
<1>. QED BY <1>5, <1>6, <1>8, <1>10, Zenon

LEMMA SetNewHeadStep ==
  ASSUME StoreInv, \A e \in Environments : Apart(e), NEW t \in Threads, SetNewHead(t)
  PROVE  StoreInv'
<1>. DEFINE b == Block1(t)
<1>1. pc[t].stage = "head" /\ pc[t].stage # "idle" /\ WriteHeadBlock(b, FALSE) /\ Done(t)
      /\ faults' = faults /\ env' = env
  BY ZenonT(30) DEF SetNewHead
<1>2. b \in Block \ {Genesis} /\ chain.running /\ b \in disk.blocks /\ Parent[b] \in Ancestors[chain.current]
  BY <1>1, Working DEF WorkInv, Block1
<1>3. /\ DiskInv(disk') /\ ChainInv(disk', chain')
      /\ disk'.blocks = disk.blocks \cup {b} /\ chain'.running
  BY <1>1, <1>2, WriteHeadBlockStep, Zenon
<1>. QED BY <1>1, <1>3, DoneStep
LEMMA ReorgStep ==
  ASSUME StoreInv, \A e \in Environments : Apart(e), NEW t \in Threads, Reorg(t)
  PROVE  StoreInv'
<1>. DEFINE b == Block1(t)
            new == pc[t].new
<1>1. pc[t].stage = "reorg" /\ pc[t].stage # "idle" /\ faults' = faults /\ env' = env /\ lock' = lock
  BY ZenonT(30) DEF Reorg
<1>2. /\ b \in Block \ {Genesis} /\ chain.running /\ chain.current \in Block
      /\ pc[t] \in Work(Item(disk.blocks)) /\ pc[t].todo # << >> /\ b \in disk.blocks
      /\ \E a \in Ancestors[b] \cap Ancestors[chain.current] : new = Above(a, b)
      /\ new = << >> => disk.head = b /\ chain.current = b
  BY <1>1, Working, Zenon DEF WorkInv, Block1
<1>3. faults' \in Nat /\ DiskInv(disk)
  BY <1>1 DEF StoreInv
<1>4. CASE new # << >>
  <2>. DEFINE x == Head(new)
              w == [pc[t] EXCEPT !.new = Tail(new)]
  <2>1. PICK a \in Ancestors[b] \cap Ancestors[chain.current] : new = Above(a, b)
    BY <1>2, Zenon
  <2>2. a # b /\ new \in Seq(Block) /\ x \in Ancestors[b] /\ x # Genesis /\ Parent[x] = a /\ Tail(new) = Above(x, b)
    BY <1>2, <1>4, <2>1, AboveIsPath
  <2>3. x \in Block
    BY <1>2, <2>2, AncestorsClosed
  <2>4. WriteHeadBlock(x, TRUE) /\ pc' = [pc EXCEPT ![t] = w]
    BY <1>4, Zenon DEF Reorg
  <2>5. /\ DiskInv(disk') /\ ChainInv(disk', chain')
        /\ disk'.head = x /\ disk'.blocks = disk.blocks \cup {x} /\ chain'.current = x /\ chain'.running
    <3>. HIDE DEF x, new, b
    <3>1. x \in Block \ {Genesis} /\ Parent[x] \in Ancestors[chain.current]
      BY <2>1, <2>2, <2>3, Zenon
    <3>. QED BY <1>2, <2>4, <3>1, WriteHeadBlockStep, Zenon
  <2>6. Tail(new) \in Seq(Block)
    BY <1>4, <2>2, HeadAndTail, Zenon
  <2>7. pc[t] \in Work(Item(disk'.blocks))
    BY <1>2, <2>5, WorkStays
  <2>8. w \in Work(Item(disk'.blocks)) /\ w.stage = "reorg" /\ w.todo = pc[t].todo /\ w.new = Above(x, b)
    BY <1>1, <2>2, <2>6, <2>7, Zenon DEF Work
  <2>9. Head(w.todo).block = b
    BY <2>8, Zenon DEF Block1
  <2>. HIDE DEF w
  <2>10. /\ \E y \in Ancestors[b] \cap Ancestors[chain'.current] : w.new = Above(y, b)
         /\ w.new = << >> => disk'.head = b /\ chain'.current = b
    <3>. HIDE DEF x, new, b
    <3>1. x \in Ancestors[chain'.current]
      BY <2>3, <2>5, AncestorsClosed
    <3>2. w.new = << >> => x = b
      BY <1>2, <2>2, <2>8, AboveIsPath, ZenonT(30)
    <3>. QED BY <2>2, <2>5, <2>8, <3>1, <3>2, Zenon
  <2>11. WorkInv(w, disk', chain')
    BY <1>2, <2>5, <2>8, <2>9, <2>10 DEF WorkInv
  <2>. QED BY <1>1, <1>3, <2>4, <2>5, <2>11, Working, ThreadStep, Zenon
<1>5. CASE new = << >>
  <2>. DEFINE canon == [n \in Heights |->
                IF n > Number[b] /\ \A m \in Number[b] + 1 .. n : disk.canon[m] # NoBlock
                THEN NoBlock ELSE disk.canon[n]]
              w == [pc[t] EXCEPT !.stage = "head"]
  <2>1. disk' = [disk EXCEPT !.canon = canon] /\ pc' = [pc EXCEPT ![t] = w] /\ chain' = chain
    BY <1>5 DEF Reorg, Goto
  <2>2. canon \in [Heights -> Block \cup {NoBlock}]
    BY <1>3, ZenonT(30) DEF DiskInv
  <2>3. \A n \in Heights : n <= Number[disk.head] => canon[n] = disk.canon[n]
    BY <1>2, <1>5, ParentBelow DEF Heights
  <2>. HIDE DEF canon
  <2>4. DiskInv(disk')
    BY <1>3, <2>1, <2>2, <2>3, CutBatch
  <2>5. disk'.head = disk.head /\ disk'.blocks = disk.blocks
    BY <1>3, <2>1 DEF DiskInv
  <2>6. ChainInv(disk', chain')
    BY <2>1, <2>5, ChainFrame, Zenon DEF StoreInv
  <2>7. w \in Work(Item(disk.blocks)) /\ w.stage = "head" /\ w.todo = pc[t].todo
    BY <1>2, Zenon DEF Work
  <2>8. Head(w.todo).block = b
    BY <2>7, Zenon DEF Block1
  <2>. HIDE DEF w
  <2>9. Parent[b] \in Ancestors[chain.current]
    BY <1>2, <1>5, AncestorsClosed, Zenon
  <2>10. WorkInv(w, disk', chain')
    BY <1>2, <2>1, <2>5, <2>7, <2>8, <2>9, Zenon DEF WorkInv
  <2>. QED BY <1>1, <1>3, <2>1, <2>4, <2>6, <2>10, Working, ThreadStep, Zenon
<1>. QED BY <1>4, <1>5

-----------------------------------------------------------------------------
(* The other steps *)

\* repair finds an ancestor of the head, at the latest the genesis block.
LEMMA RepairFinds ==
  ASSUME NEW b \in Block, NEW states, Genesis \in states
  PROVE  Repair(b, states) \in Ancestors[b] \cap states
<1>1. Genesis \in Ancestors[b] \cap states
  BY GenesisIsAncestor
<1>2. Ancestors[b] \cap states \in SUBSET Ancestors[b]
  BY Zenon
<1>. QED BY <1>1, <1>2, HighestExists DEF Repair

LEMMA LoadLastStateInv ==
  ASSUME NEW d, DiskInv(d), NEW tries \in SUBSET Block, NEW committed \in Block \cup {NoBlock}, NEW last \in Int
  PROVE  ChainInv(d, LoadLastState(d, tries, committed, last))
<1>1. d.head \in Block /\ d.header \in Block /\ Genesis \in d.states \cup tries
  BY DEF DiskInv
<1>2. Repair(d.head, d.states \cup tries) \in Ancestors[d.head]
  BY <1>1, RepairFinds
<1>3. Repair(d.head, d.states \cup tries) \in Block
  BY <1>1, <1>2, AncestorsClosed
<1>. QED BY <1>1, <1>2, <1>3, Zenon DEF LoadLastState, ChainInv

LEMMA InitInv == Init => StoreInv
<1>. SUFFICES ASSUME Init PROVE StoreInv
  OBVIOUS
<1>. DEFINE E == EmptyDatabase
<1>1. /\ E.blocks = {Genesis} /\ E.head = Genesis /\ E.states = {Genesis}
      /\ E.canon = [n \in Heights |-> IF n = 0 THEN Genesis ELSE NoBlock]
      /\ E \in [blocks : SUBSET Block, canon : [Heights -> Block \cup {NoBlock}],
                head : Block, header : Block, states : SUBSET Block]
  BY ParentBelow, Zenon DEF EmptyDatabase
<1>2. 0 \in Heights /\ AncestorAt(Genesis, 0) = Genesis
  BY ParentBelow, AncestorsClosed, AncestorAtUnique DEF Heights
<1>. HIDE DEF E
<1>3. DiskInv(E)
  BY <1>1, <1>2, ParentBelow DEF DiskInv
<1>4. disk = E /\ chain = LoadLastState(E, {}, NoBlock, 0)
  BY DEF Init, E
<1>5. ChainInv(disk, chain)
  BY <1>3, <1>4, LoadLastStateInv
<1>6. /\ env \in Environments /\ faults \in Nat
      /\ pc = [t \in Threads |-> pc[t]] /\ \A t \in Threads : pc[t] = Idle
  BY DEF Init
<1>7. \A t \in Threads : WorkInv(pc[t], disk, chain)
  BY <1>6, IdleWork
<1>. QED BY <1>3, <1>4, <1>5, <1>6, <1>7, Zenon DEF StoreInv, ThreadsInv
\* A step after which no thread works.
LEMMA QuietStep ==
  ASSUME StoreInv, env' = env, faults' \in Nat, DiskInv(disk'), ChainInv(disk', chain'),
         pc' = [t \in Threads |-> pc'[t]], \A t \in Threads : pc'[t] = Idle
  PROVE  StoreInv'
<1>1. \A t \in Threads : WorkInv(pc'[t], disk', chain')
  BY IdleWork
<1>. QED BY <1>1 DEF StoreInv, ThreadsInv

LEMMA CommitStep ==
  ASSUME StoreInv, NEW b, Commit(b)
  PROVE  StoreInv'
<1>1. /\ chain' = [chain EXCEPT !.committed = b] /\ b \in disk.blocks
      /\ disk' = disk /\ lock' = lock /\ pc' = pc /\ faults' = faults /\ env' = env
  BY DEF Commit
<1>2. ChainInv(disk', chain') /\ chain'.current = chain.current /\ chain'.running = chain.running
  BY <1>1, Zenon DEF StoreInv, ChainInv, DiskInv
<1>3. \A t \in Threads : WorkInv(pc'[t], disk', chain')
  BY <1>1, <1>2 DEF StoreInv, WorkInv
<1>4. ThreadsInv'
  BY <1>1, <1>2, Zenon DEF StoreInv, ThreadsInv
<1>. QED BY <1>1, <1>2, <1>3, <1>4 DEF StoreInv

LEMMA StoppedInv ==
  ASSUME NEW d
  PROVE  ChainInv(d, Stopped)
  BY DEF ChainInv, Stopped

LEMMA ProcessStep ==
  ASSUME StoreInv, Crash \/ Stop \/ Restart
  PROVE  StoreInv'
<1>1. DiskInv(disk) /\ ChainInv(disk, chain) /\ faults \in Nat /\ pc = [t \in Threads |-> pc[t]]
  BY DEF StoreInv
<1>2. CASE Crash
  <2>1. disk' = disk /\ chain' = Stopped /\ env' = env /\ faults' \in Nat /\ pc' = [t \in Threads |-> Idle]
    BY <1>1, <1>2 DEF Crash
  <2>. QED BY <1>1, <2>1, StoppedInv, QuietStep
<1>3. CASE Stop
  <2>1. chain' = Stopped /\ env' = env /\ faults' = faults /\ pc' = pc /\ \A t \in Threads : pc[t] = Idle
    BY <1>3 DEF Stop
  <2>2. Saved \in SUBSET Block
    BY <1>1 DEF Saved, ChainInv
  <2>3. DiskInv(disk')
    BY <1>1, <1>3, <2>2, StateBatch DEF Stop
  <2>. QED BY <1>1, <2>1, <2>3, StoppedInv, QuietStep
<1>4. CASE Restart
  <2>1. /\ ~chain.running /\ chain' = LoadLastState(disk, {}, NoBlock, 0)
        /\ disk' = disk /\ env' = env /\ faults' = faults /\ pc' = pc
    BY <1>4 DEF Restart
  <2>2. \A t \in Threads : pc[t] = Idle
    BY <2>1 DEF StoreInv, ThreadsInv
  <2>3. ChainInv(disk, LoadLastState(disk, {}, NoBlock, 0))
    BY <1>1, LoadLastStateInv
  <2>. QED BY <1>1, <2>1, <2>2, <2>3, QuietStep
<1>. QED BY <1>2, <1>3, <1>4

\* SetHead is not called.
LEMMA NoRewind ==
  ASSUME StoreInv, \A e \in Environments : Apart(e), (\E n \in Heights : SetHead(n)) \/ Rewind \/ Delete \/ Reload
  PROVE  FALSE
<1>1. env.rewinds = 0 /\ faults \in Nat
  BY DEF StoreInv, Apart
<1>2. Rewinder \in Threads
  BY DEF Threads
<1>3. pc[Rewinder].stage \in {"idle", "run", "result", "written", "reorg", "head"}
  BY <1>2 DEF StoreInv, WorkInv, Work
<1>. QED BY <1>1, <1>3 DEF SetHead, Rewind, Delete, Reload

LEMMA NextInv ==
  ASSUME StoreInv, \A e \in Environments : Apart(e), [Next]_vars
  PROVE  StoreInv'
<1>1. CASE \E t \in Importers, b \in Block : InsertChain(t, b)
  BY <1>1, InsertChainStep
<1>2. CASE \E t \in Fetchers, b \in Block : InsertBlock(t, b)
  BY <1>2, InsertBlockStep
<1>3. ASSUME NEW t \in Threads, Validate(t) \/ GetResult(t) \/ ExecuteAndWrite(t) \/ WriteResult(t)
      PROVE  StoreInv'
  BY <1>3, ValidateStep, GetResultStep, ExecuteAndWriteStep, WriteResultStep, Zenon
<1>4. ASSUME NEW t \in Threads, (\E slow \in BOOLEAN : Choose(t, slow)) \/ Reorg(t) \/ SetNewHead(t)
      PROVE  StoreInv'
  BY <1>4, ChooseStep, ReorgStep, SetNewHeadStep
<1>5. CASE \E b \in env.final : Commit(b)
  BY <1>5, CommitStep
<1>6. CASE Crash \/ Stop \/ Restart
  BY <1>6, ProcessStep
<1>7. CASE UNCHANGED vars
  BY <1>7 DEF vars, StoreInv, ThreadsInv
<1>. QED BY <1>1, <1>2, <1>3, <1>4, <1>5, <1>6, <1>7, NoRewind, Zenon DEF Next

-----------------------------------------------------------------------------
(* The theorems *)

\* The database and the work of every thread are consistent in every state, a crash
\* between any two batches of writeBlockWithState, reorg and writeHeadBlock included.
THEOREM StoreInvariance ==
  ASSUME \A e \in Environments : Apart(e)
  PROVE  Spec => []StoreInv
  BY InitInv, NextInv, PTL DEF Spec

\* The canonical numbers up to the head are the head's own ancestors, whatever the tree
\* of blocks, the difficulties, the cache of tries, the crashes and the commits are.
THEOREM CanonicalChainHolds ==
  ASSUME \A e \in Environments : Apart(e)
  PROVE  Spec => []CanonicalChain
<1>1. StoreInv => CanonicalChain
  BY DEF StoreInv, DiskInv, CanonicalChain
<1>. QED BY <1>1, StoreInvariance, PTL
-----------------------------------------------------------------------------
(* The state of the head *)

\* A step of one thread that leaves the states, the head and the current block alone.
LEMMA StateFrame ==
  ASSUME StoreInv, StateInv, NEW t \in Threads, \A u \in Threads \ {t} : pc[u] = Idle,
         NEW w, pc' = [pc EXCEPT ![t] = w], chain' = chain, env' = env,
         disk'.states = disk.states, disk'.head = disk.head,
         pc[t].stage \notin {"reorg", "head"}, w.stage \notin {"reorg", "head"},
         env.archive /\ w.stage \in {"result", "written"} => Parent[Head(w.todo).block] \in disk.states
  PROVE  StateInv'
<1>1. pc'[t] = w /\ \A u \in Threads \ {t} : pc'[u] = Idle
  BY Zenon DEF StoreInv
<1>2. Idle.stage = "idle"
  BY DEF Idle
<1>3. \A u \in Threads : pc[u].stage \notin {"reorg", "head"}
  BY <1>2
<1>4. \A u \in Threads : pc'[u].stage \notin {"reorg", "head"}
  BY <1>1, <1>2, ZenonT(30)
<1>5. CASE env.archive
  <2>1. \A u \in Threads : pc'[u].stage \in {"result", "written"} => Parent[Head(pc'[u].todo).block] \in disk.states
    BY <1>1, <1>2, <1>5, ZenonT(30)
  <2>. QED BY <1>4, <1>5, <2>1 DEF StateInv, ArchiveInv, Block1
<1>6. CASE ~env.archive
  BY <1>3, <1>4, <1>6 DEF StateInv, CachedInv, HasState
<1>. QED BY <1>5, <1>6

\* Where Done and Return lead.
LEMMA DoneLeads ==
  ASSUME NEW t, Done(t) \/ Return(t)
  PROVE  \E w : pc' = [pc EXCEPT ![t] = w] /\ w.stage \in {"idle", "run"}
<1>1. CASE pc' = [pc EXCEPT ![t] = Idle]
  <2>1. Idle.stage = "idle"
    BY DEF Idle
  <2>. QED BY <1>1, <2>1, Zenon
<1>2. CASE pc' = [pc EXCEPT ![t] = [Idle EXCEPT !.stage = "run", !.todo = Tail(pc[t].todo)]]
  <2>1. [Idle EXCEPT !.stage = "run", !.todo = Tail(pc[t].todo)].stage = "run"
    BY DEF Idle
  <2>. QED BY <1>2, <2>1, Zenon
<1>. QED BY <1>1, <1>2 DEF Done, Return

\* The steps up to the batch with the block touch neither the states nor the canonical
\* chain, and a block is written only after its parent's state was found.
ImportFrame(t) ==
  /\ chain' = chain /\ env' = env /\ faults' = faults
  /\ disk'.states = disk.states /\ disk'.head = disk.head /\ disk'.canon = disk.canon
  /\ pc[t].stage \in {"idle", "run", "result"} /\ \A u \in Threads \ {t} : pc[u] = Idle
  /\ \E w : /\ pc' = [pc EXCEPT ![t] = w] /\ w.stage \in {"idle", "run", "result", "written"}
            /\ w.stage \in {"result", "written"} =>
                 /\ Head(w.todo).block = Block1(t)
                 /\ HasState(Parent[Block1(t)]) \/ pc[t].stage = "result"

LEMMA ImportSteps ==
  ASSUME StoreInv, \A e \in Environments : Apart(e), NEW t \in Threads,
         \/ \E b \in Block : (t \in Importers /\ InsertChain(t, b)) \/ (t \in Fetchers /\ InsertBlock(t, b))
         \/ Validate(t) \/ GetResult(t) \/ ExecuteAndWrite(t) \/ WriteResult(t)
  PROVE  ImportFrame(t)
<1>0. pc = [u \in Threads |-> pc[u]] /\ DiskInv(disk) /\ pc[t] \in Work(Item(disk.blocks))
  BY DEF StoreInv, WorkInv
<1>1. ASSUME NEW b \in Block, t \in Importers /\ InsertChain(t, b) PROVE ImportFrame(t)
  <2>. DEFINE w == [pc[t] EXCEPT !.stage = "run", !.todo = Unchecked(<< b >>)]
  <2>1. \A u \in Threads \ {t} : pc[u] = Idle
    BY <1>1, Starting DEF InsertChain
  <2>2. pc' = [pc EXCEPT ![t] = w] /\ pc[t] = Idle /\ UNCHANGED << chain, disk, env, faults >>
    BY <1>0, <1>1, Zenon DEF InsertChain
  <2>3. w.stage = "run" /\ pc[t].stage = "idle"
    BY <2>2 DEF Idle
  <2>. HIDE DEF w
  <2>. QED BY <2>1, <2>2, <2>3, Zenon DEF ImportFrame
<1>2. ASSUME NEW b \in Block, t \in Fetchers /\ InsertBlock(t, b) PROVE ImportFrame(t)
  <2>. DEFINE list == (IF Pruned(b) THEN Unchecked(Winner(b)) ELSE << >>) \o Checked(b)
              w == [pc[t] EXCEPT !.stage = "run", !.todo = list]
  <2>1. \A u \in Threads \ {t} : pc[u] = Idle
    BY <1>2, Starting DEF InsertBlock
  <2>2. pc' = [pc EXCEPT ![t] = w] /\ pc[t] = Idle /\ UNCHANGED << chain, disk, env, faults >>
    BY <1>0, <1>2, Zenon DEF InsertBlock
  <2>. HIDE DEF list
  <2>3. w.stage = "run" /\ pc[t].stage = "idle"
    BY <2>2 DEF Idle
  <2>. HIDE DEF w
  <2>. QED BY <2>1, <2>2, <2>3, Zenon DEF ImportFrame
<1>3. ASSUME pc[t].stage \in {"run", "result"},
             disk' = disk \/ disk' = [disk EXCEPT !.blocks = @ \cup {Block1(t)}],
             UNCHANGED << chain, env, faults >>,
             NEW w, pc' = [pc EXCEPT ![t] = w], w.stage \in {"idle", "run", "result", "written"},
             w.stage \in {"result", "written"} =>
               Head(w.todo).block = Block1(t) /\ (HasState(Parent[Block1(t)]) \/ pc[t].stage = "result")
      PROVE  ImportFrame(t)
  <2>1. \A u \in Threads \ {t} : pc[u] = Idle
    BY <1>3, Working
  <2>2. disk'.states = disk.states /\ disk'.head = disk.head /\ disk'.canon = disk.canon
    BY <1>0, <1>3 DEF DiskInv
  <2>. QED BY <1>3, <2>1, <2>2, Zenon DEF ImportFrame
<1>4. ASSUME pc[t].stage \in {"run", "result"}, Done(t) \/ Return(t),
             disk' = disk \/ disk' = [disk EXCEPT !.blocks = @ \cup {Block1(t)}], UNCHANGED << chain, env, faults >>
      PROVE  ImportFrame(t)
  <2>1. PICK w : pc' = [pc EXCEPT ![t] = w] /\ w.stage \in {"idle", "run"}
    BY <1>4, DoneLeads
  <2>. QED BY <1>3, <1>4, <2>1, Zenon
<1>5. CASE Validate(t)
  <2>1. pc[t].stage = "run" /\ UNCHANGED << chain, env, faults >>
    BY <1>5, Zenon DEF Validate
  <2>2. CASE Done(t)
    BY <1>4, <1>5, <2>1, <2>2, Zenon DEF Validate
  <2>3. ASSUME NEW list, pc' = [pc EXCEPT ![t].todo = list], disk' = disk PROVE ImportFrame(t)
    <3>. DEFINE w == [pc[t] EXCEPT !.todo = list]
    <3>1. pc' = [pc EXCEPT ![t] = w]
      BY <2>3
    <3>2. w.stage = "run"
      BY <1>0, <2>1 DEF Work
    <3>. HIDE DEF w
    <3>. QED BY <1>3, <2>1, <2>3, <3>1, <3>2, Zenon
  <2>. QED BY <1>5, <2>2, <2>3, ZenonT(30) DEF Validate
<1>6. ASSUME NEW stage \in {"result", "written"}, pc[t].stage \in {"run", "result"},
             \/ pc' = [pc EXCEPT ![t].stage = stage]
             \/ pc' = [pc EXCEPT ![t].stage = stage, ![t].td = Td[chain.current]],
             HasState(Parent[Block1(t)]) \/ pc[t].stage = "result",
             disk' = disk \/ disk' = [disk EXCEPT !.blocks = @ \cup {Block1(t)}], UNCHANGED << chain, env, faults >>
      PROVE  ImportFrame(t)
  <2>2. PICK w \in {[pc[t] EXCEPT !.stage = stage],
                  [pc[t] EXCEPT !.stage = stage, !.td = Td[chain.current]]} :
          pc' = [pc EXCEPT ![t] = w]
    BY <1>0, <1>6
  <2>3. w.stage = stage /\ w.todo = pc[t].todo
    BY <1>0, <2>2, Zenon DEF Work
  <2>4. Head(w.todo).block = Block1(t)
    BY <2>3 DEF Block1
  <2>. QED BY <1>3, <1>6, <2>2, <2>3, <2>4, Zenon
<1>8. CASE GetResult(t)
  <2>1. pc[t].stage = "run" /\ disk' = disk /\ UNCHANGED << chain, env, faults >>
    BY <1>8 DEF GetResult
  <2>2. CASE Return(t)
    BY <1>4, <2>1, <2>2
  <2>3. CASE HasState(Parent[Block1(t)]) /\ pc' = [pc EXCEPT ![t].stage = "result"]
    BY <1>6, <2>1, <2>3, Zenon
  <2>. QED BY <1>8, <2>2, <2>3, ZenonT(30) DEF GetResult, Goto
<1>9. CASE ExecuteAndWrite(t)
  <2>1. pc[t].stage = "run" /\ UNCHANGED << chain, env, faults >>
    BY <1>9 DEF ExecuteAndWrite, WriteBlock
  <2>2. CASE Return(t) /\ UNCHANGED disk
    BY <1>4, <2>1, <2>2
  <2>3. CASE /\ HasState(Parent[Block1(t)])
             /\ disk' = [disk EXCEPT !.blocks = @ \cup {Block1(t)}]
             /\ pc' = [pc EXCEPT ![t].stage = "written", ![t].td = Td[chain.current]]
    BY <1>6, <2>1, <2>3, Zenon
  <2>. QED BY <1>9, <2>2, <2>3, Zenon DEF ExecuteAndWrite, WriteBlock
<1>10. CASE WriteResult(t)
  <2>1. pc[t].stage = "result" /\ UNCHANGED << chain, env, faults >>
    BY <1>10 DEF WriteResult
  <2>2. CASE pc' = [pc EXCEPT ![t] = Idle] /\ disk' = disk
    BY <1>3, <2>1, <2>2, Zenon DEF Idle
  <2>3. CASE /\ disk' = [disk EXCEPT !.blocks = @ \cup {Block1(t)}]
             /\ pc' = [pc EXCEPT ![t].stage = "written", ![t].td = Td[chain.current]]
    BY <1>6, <2>1, <2>3
  <2>. QED BY <1>10, <2>2, <2>3, Zenon DEF WriteResult
<1>. QED BY <1>1, <1>2, <1>5, <1>8, <1>9, <1>10, ZenonT(30)

LEMMA ImportKeepsState ==
  ASSUME StoreInv, StateInv, NEW t \in Threads, ImportFrame(t)
  PROVE  StateInv'
<1>1. PICK w : /\ pc' = [pc EXCEPT ![t] = w] /\ w.stage \in {"idle", "run", "result", "written"}
               /\ w.stage \in {"result", "written"} =>
                    /\ Head(w.todo).block = Block1(t)
                    /\ HasState(Parent[Block1(t)]) \/ pc[t].stage = "result"
  BY Zenon DEF ImportFrame
<1>2. env.archive /\ (HasState(Parent[Block1(t)]) \/ pc[t].stage = "result") => Parent[Block1(t)] \in disk.states
  BY Zenon DEF HasState, StateInv, ArchiveInv
<1>. QED BY <1>1, <1>2, StateFrame, Zenon DEF ImportFrame

\* A step of one thread on an archive node, and on another one.
LEMMA ArchiveStep ==
  ASSUME StoreInv, NEW t \in Threads, \A u \in Threads \ {t} : pc[u] = Idle,
         NEW w, pc' = [pc EXCEPT ![t] = w], chain'.tries = {},
         \A b \in disk'.states \ {Genesis} : Parent[b] \in disk'.states,
         disk'.head \in disk'.states, chain'.running => chain'.current = disk'.head,
         w.stage \notin {"result", "written"},
         w.stage \in {"reorg", "head"} => Head(w.todo).block \in disk'.states
  PROVE  ArchiveInv'
<1>1. pc'[t] = w /\ \A u \in Threads \ {t} : pc'[u].stage = "idle"
  BY DEF StoreInv, Idle
<1>2. \A u \in Threads : pc'[u].stage \notin {"result", "written"}
  BY <1>1
<1>3. \A u \in Threads : pc'[u].stage \in {"reorg", "head"} => Head(pc'[u].todo).block \in disk'.states
  BY <1>1, Zenon
<1>. QED BY <1>2, <1>3, Zenon DEF ArchiveInv, Block1

LEMMA CachedStep ==
  ASSUME StoreInv, NEW t \in Threads, \A u \in Threads \ {t} : pc[u] = Idle,
         NEW w, pc' = [pc EXCEPT ![t] = w], chain'.committed = NoBlock,
         w.stage \notin {"reorg", "head"} => chain'.current \in disk'.states \cup chain'.tries,
         w.stage \in {"reorg", "head"} => Head(w.todo).block \in disk'.states \cup chain'.tries
  PROVE  CachedInv'
<1>1. pc'[t] = w /\ \A u \in Threads \ {t} : pc'[u].stage = "idle"
  BY DEF StoreInv, Idle
<1>2. \A u \in Threads : pc'[u].stage \in {"reorg", "head"} => Head(pc'[u].todo).block \in disk'.states \cup chain'.tries
  BY <1>1
<1>3. chain'.current \in disk'.states \cup chain'.tries \/ \E u \in Threads : pc'[u].stage \in {"reorg", "head"}
  BY <1>1, Zenon
<1>. QED BY <1>2, <1>3, Zenon DEF CachedInv, HasState, Block1

\* The states after the batch, on both kinds of node: b has its state, and a block that
\* is not lower keeps the one it has.
LEMMA CommitStateKeeps ==
  ASSUME StoreInv, NEW b \in Block, NEW slow, CommitState(b, slow)
  PROVE  /\ env.archive => disk'.states = disk.states \cup {b} /\ chain'.tries = chain.tries
         /\ b \in disk'.states \cup chain'.tries
         /\ \A c \in disk.states \cup chain.tries :
              Number[c] >= Number[b] => c \in disk'.states \cup chain'.tries
         /\ chain'.committed = chain.committed
<1>1. DiskInv(disk) /\ ChainInv(disk, chain)
  BY DEF StoreInv
<1>2. CASE env.archive
  BY <1>1, <1>2 DEF CommitState, DiskInv
<1>3. CASE ~env.archive
  <2>1. env.triesInMemory \in Nat \ {0}
    <3>1. env \in Environment
      BY TreeAssumption, Zenon DEF StoreInv, TreeAssumption
    <3>. QED BY <3>1 DEF Environment
  <2>2. Number[b] \in Nat /\ \A c \in disk.states \cup chain.tries : Number[c] \in Nat
    BY <1>1, ParentBelow DEF DiskInv, ChainInv
  <2>3. PICK S, tries, last :
          /\ disk' = [disk EXCEPT !.states = @ \cup S]
          /\ chain' = [chain EXCEPT !.tries = tries, !.lastWrite = last]
          /\ tries \in {Collected(b), chain.tries \cup {b}}
    BY <1>3, Zenon DEF CommitState
  <2>4. disk'.states = disk.states \cup S /\ chain'.tries = tries /\ chain'.committed = chain.committed
    BY <1>1, <2>3 DEF DiskInv, ChainInv
  <2>5. b \in tries /\ \A c \in chain.tries : Number[c] >= Number[b] => c \in tries
    BY <2>1, <2>2, <2>3 DEF Collected
  <2>. QED BY <1>3, <2>4, <2>5
<1>. QED BY <1>2, <1>3

\* reorg finds all headers: nothing was deleted.
LEMMA ChainIsValid ==
  ASSUME DiskInv(disk), ChainInv(disk, chain), chain.running, NEW b \in disk.blocks
  PROVE  ~InvalidChain(chain.current, b)
<1>1. disk.head \in disk.blocks /\ disk.head \in Block /\ chain.current \in Ancestors[disk.head]
  BY Zenon DEF DiskInv, ChainInv
<1>2. chain.current \in disk.blocks
  BY <1>1, StoredAncestors
<1>. QED BY <1>2, StoredAncestors DEF InvalidChain

\* Where Choose leads.
LEMMA ChooseLeads ==
  ASSUME StoreInv, \A e \in Environments : Apart(e), NEW t \in Threads, NEW slow \in BOOLEAN, Choose(t, slow)
  PROVE  \E w : /\ pc' = [pc EXCEPT ![t] = w]
                /\ \/ w.stage \in {"idle", "run"} /\ (Wins(t, Block1(t)) => RefuseReorg(chain.current, Block1(t)))
                   \/ w.stage = "head" /\ w.todo = pc[t].todo /\ Parent[Block1(t)] = chain.current
                   \/ /\ w.stage = "reorg" /\ w.todo = pc[t].todo /\ w.latest = chain.committed
                      /\ ~RefuseReorg(chain.current, Block1(t))
<1>. DEFINE b == Block1(t)
            old == chain.current
<1>1. pc[t] \in Work(Item(disk.blocks)) /\ b \in disk.blocks /\ chain.running
  <2>1. pc[t].stage = "written" /\ pc[t].stage # "idle"
    BY Zenon DEF Choose
  <2>. QED BY <2>1, Working DEF WorkInv, Block1
<1>2. CASE ~Wins(t, b) /\ Done(t)
  BY <1>2, DoneLeads
<1>3. CASE Goto(t, "head") /\ Parent[b] = old
  <2>. DEFINE w == [pc[t] EXCEPT !.stage = "head"]
  <2>1. w.stage = "head" /\ w.todo = pc[t].todo /\ pc' = [pc EXCEPT ![t] = w]
    BY <1>1, <1>3, ZenonT(30) DEF Goto, Work
  <2>. QED BY <1>3, <2>1, Zenon
<1>4. CASE RefuseReorg(old, b) /\ Return(t)
  BY <1>4, DoneLeads
<1>5. CASE /\ ~RefuseReorg(old, b)
           /\ pc' = [pc EXCEPT ![t].stage = "reorg", ![t].new = NewChain(old, b), ![t].latest = chain.committed]
  <2>. DEFINE w == [pc[t] EXCEPT !.stage = "reorg", !.new = NewChain(old, b), !.latest = chain.committed]
  <2>1. w.stage = "reorg" /\ w.todo = pc[t].todo /\ w.latest = chain.committed
    BY <1>1 DEF Work
  <2>2. pc' = [pc EXCEPT ![t] = w]
    BY <1>5, Zenon DEF StoreInv
  <2>. QED BY <1>5, <2>1, <2>2, Zenon
<1>6. ~InvalidChain(old, b)
  BY <1>1, ChainIsValid, Zenon DEF StoreInv
<1>. QED BY <1>2, <1>3, <1>4, <1>5, <1>6, ZenonT(30) DEF Choose

LEMMA ChooseKeepsState ==
  ASSUME StoreInv, StateInv, \A e \in Environments : Apart(e) /\ KeepsStates(e),
         NEW t \in Threads, NEW slow \in BOOLEAN, Choose(t, slow)
  PROVE  StateInv'
<1>. DEFINE b == Block1(t)
            old == chain.current
<1>1. pc[t].stage = "written" /\ pc[t].stage # "idle" /\ CommitState(b, slow) /\ env' = env
  BY ZenonT(30) DEF Choose
<1>2. /\ b \in Block \ {Genesis} /\ chain.running /\ old \in Block
      /\ pc[t] \in Work(Item(disk.blocks)) /\ b \in disk.blocks /\ pc[t].td = Td[old]
      /\ \A u \in Threads \ {t} : pc[u] = Idle
  BY <1>1, Working, Zenon DEF WorkInv, Block1
<1>3. /\ disk'.head = disk.head /\ chain'.current = old /\ chain'.running
  BY <1>1, <1>2, CommitStateStep, Zenon
<1>4. /\ env.archive => disk'.states = disk.states \cup {b} /\ chain'.tries = chain.tries
      /\ b \in disk'.states \cup chain'.tries
      /\ \A c \in disk.states \cup chain.tries : Number[c] >= Number[b] => c \in disk'.states \cup chain'.tries
      /\ chain'.committed = chain.committed
  BY <1>1, <1>2, CommitStateKeeps, ZenonT(30)
<1>5. PICK w : /\ pc' = [pc EXCEPT ![t] = w]
               /\ \/ w.stage \in {"idle", "run"} /\ (Wins(t, b) => RefuseReorg(old, b))
                  \/ w.stage \in {"reorg", "head"} /\ w.todo = pc[t].todo
  <2>. HIDE DEF b
  <2>1. \A e \in Environments : Apart(e)
    BY Zenon
  <2>. QED BY <2>1, ChooseLeads DEF b
<1>6. w.stage \in {"reorg", "head"} => Head(w.todo).block = b
  BY <1>5, Zenon DEF Block1
<1>7. CASE env.archive
  <2>1. ArchiveInv
    BY <1>7, Zenon DEF StateInv
  <2>2. Parent[b] \in disk.states
    BY <1>1, <2>1 DEF ArchiveInv
  <2>3. ArchiveInv'
    BY <1>2, <1>3, <1>4, <1>5, <1>6, <1>7, <2>1, <2>2, ArchiveStep, ZenonT(30) DEF ArchiveInv
  <2>. QED BY <1>1, <1>7, <2>3, Zenon DEF StateInv
<1>8. CASE ~env.archive
  <2>1. CachedInv /\ KeepsStates(env)
    BY <1>8 DEF StateInv, StoreInv
  <2>2. chain.committed = NoBlock
    BY <2>1 DEF CachedInv
  <2>3. ~RefuseReorg(old, b)
    BY <1>2, <2>2, ParentBelow, AncestorsClosed, Zenon DEF RefuseReorg, OldChain
  <2>4. old \in disk.states \cup chain.tries
    <3>1. \A u \in Threads : pc[u].stage \notin {"reorg", "head"}
      <4>1. pc[t].stage \notin {"reorg", "head"} /\ Idle.stage = "idle"
        BY <1>1 DEF Idle
      <4>2. \A u \in Threads \ {t} : pc[u] = Idle
        BY <1>2, ZenonT(30)
      <4>. QED BY <4>1, <4>2, Zenon
    <3>. QED BY <1>2, <2>1, <3>1, Zenon DEF CachedInv, HasState
  <2>5. ~Wins(t, b) => Number[old] >= Number[b]
    <3>1. \A x, y \in Block : Number[x] > Number[y] => Td[x] >= Td[y]
      BY <1>8, <2>1, Zenon DEF KeepsStates
    <3>. QED BY <1>2, <3>1, ParentBelow DEF Wins
  <2>6. w.stage \notin {"reorg", "head"} => old \in disk'.states \cup chain'.tries
    BY <1>4, <1>5, <2>3, <2>4, <2>5, Zenon
  <2>7. CachedInv'
    BY <1>2, <1>3, <1>4, <1>5, <1>6, <2>2, <2>6, CachedStep, Zenon
  <2>. QED BY <1>1, <1>8, <2>7, Zenon DEF StateInv
<1>. QED BY <1>7, <1>8
\* The ancestors of a block with a state have theirs, on an archive node.
LEMMA ArchivedAncestors ==
  ASSUME DiskInv(disk), ArchiveInv, NEW b \in disk.states
  PROVE  Ancestors[b] \subseteq disk.states
<1>1. disk.states \in SUBSET Block /\ \A c \in disk.states \ {Genesis} : Parent[c] \in disk.states
  BY DEF DiskInv, ArchiveInv
<1>. QED BY <1>1, AncestorsLeast, ZenonT(30)

\* The fields that writeHeadBlock changes.
LEMMA HeadFields ==
  ASSUME StoreInv, NEW b, NEW writeBlock, WriteHeadBlock(b, writeBlock)
  PROVE  /\ disk'.head = b /\ disk'.states = disk.states /\ disk'.canon = [disk.canon EXCEPT ![Number[b]] = b]
         /\ chain'.current = b /\ chain'.tries = chain.tries /\ chain'.committed = chain.committed
<1>1. DiskInv(disk) /\ ChainInv(disk, chain)
  BY DEF StoreInv
<1>. QED BY <1>1 DEF WriteHeadBlock, DiskInv, ChainInv

LEMMA ReorgKeepsState ==
  ASSUME StoreInv, StateInv, \A e \in Environments : Apart(e), NEW t \in Threads, Reorg(t)
  PROVE  StateInv'
<1>. DEFINE b == Block1(t)
            new == pc[t].new
<1>1. pc[t].stage = "reorg" /\ pc[t].stage # "idle" /\ env' = env
  BY ZenonT(30) DEF Reorg
<1>2. /\ b \in Block \ {Genesis} /\ chain.running /\ pc[t] \in Work(Item(disk.blocks))
      /\ \A u \in Threads \ {t} : pc[u] = Idle
      /\ \E a \in Ancestors[b] \cap Ancestors[chain.current] : new = Above(a, b)
  BY <1>1, Working, Zenon DEF WorkInv, Block1
<1>3. DiskInv(disk) /\ ChainInv(disk, chain)
  BY Zenon DEF StoreInv
<1>4. PICK w : /\ pc' = [pc EXCEPT ![t] = w] /\ w.stage \in {"reorg", "head"} /\ w.todo = pc[t].todo
  <2>1. [pc[t] EXCEPT !.new = Tail(new)].stage = "reorg" /\ [pc[t] EXCEPT !.new = Tail(new)].todo = pc[t].todo
    BY <1>1, <1>2 DEF Work
  <2>2. [pc[t] EXCEPT !.stage = "head"].stage = "head" /\ [pc[t] EXCEPT !.stage = "head"].todo = pc[t].todo
    BY <1>2 DEF Work
  <2>3. CASE new # << >>
    <3>1. pc' = [pc EXCEPT ![t] = [pc[t] EXCEPT !.new = Tail(new)]]
      BY <2>3 DEF Reorg
    <3>. QED BY <2>1, <3>1, Zenon
  <2>4. CASE new = << >>
    <3>1. pc' = [pc EXCEPT ![t] = [pc[t] EXCEPT !.stage = "head"]]
      BY <2>4 DEF Reorg, Goto
    <3>. QED BY <2>2, <3>1, Zenon
  <2>. QED BY <2>3, <2>4
<1>5. Head(w.todo).block = b
  BY <1>4, Zenon DEF Block1
<1>6. /\ disk'.states = disk.states /\ chain'.tries = chain.tries /\ chain'.committed = chain.committed
      /\ \/ disk'.head = disk.head /\ chain' = chain
         \/ disk'.head \in Ancestors[b] /\ chain'.current = disk'.head
  <2>1. CASE new # << >>
    <3>1. Head(new) \in Ancestors[b]
      BY <1>2, <2>1, AboveIsPath, Zenon
    <3>2. WriteHeadBlock(Head(new), TRUE)
      BY <2>1, Zenon DEF Reorg
    <3>. QED BY <3>1, <3>2, HeadFields, ZenonT(30)
  <2>2. CASE new = << >>
    BY <1>3, <2>2, Zenon DEF Reorg, DiskInv
  <2>. QED BY <2>1, <2>2
<1>7. CASE env.archive
  <2>1. ArchiveInv
    BY <1>7, Zenon DEF StateInv
  <2>2. b \in disk.states
    BY <1>1, <2>1, Zenon DEF ArchiveInv
  <2>3. Ancestors[b] \subseteq disk.states
    BY <1>3, <2>1, <2>2, ArchivedAncestors, Zenon
  <2>4. ArchiveInv'
    BY <1>2, <1>4, <1>5, <1>6, <2>1, <2>2, <2>3, ArchiveStep, Zenon DEF ArchiveInv
  <2>. QED BY <1>1, <1>7, <2>4, Zenon DEF StateInv
<1>8. CASE ~env.archive
  <2>1. CachedInv
    BY <1>8, Zenon DEF StateInv
  <2>2. b \in disk.states \cup chain.tries /\ chain.committed = NoBlock
    BY <1>1, <2>1 DEF CachedInv, HasState
  <2>3. CachedInv'
    BY <1>2, <1>4, <1>5, <1>6, <2>2, CachedStep, Zenon
  <2>. QED BY <1>1, <1>8, <2>3, Zenon DEF StateInv
<1>. QED BY <1>7, <1>8

LEMMA SetNewHeadKeepsState ==
  ASSUME StoreInv, StateInv, \A e \in Environments : Apart(e), NEW t \in Threads, SetNewHead(t)
  PROVE  StateInv'
<1>. DEFINE b == Block1(t)
<1>1. pc[t].stage = "head" /\ pc[t].stage # "idle" /\ WriteHeadBlock(b, FALSE) /\ Done(t) /\ env' = env
  BY Zenon DEF SetNewHead
<1>2. \A u \in Threads \ {t} : pc[u] = Idle
  BY <1>1, Working, Zenon
<1>3. PICK w : pc' = [pc EXCEPT ![t] = w] /\ w.stage \in {"idle", "run"}
  BY <1>1, DoneLeads
<1>4. /\ disk'.head = b /\ disk'.states = disk.states
      /\ chain'.current = b /\ chain'.tries = chain.tries /\ chain'.committed = chain.committed
  BY <1>1, HeadFields, Zenon
<1>5. CASE env.archive
  <2>1. ArchiveInv /\ b \in disk.states
    BY <1>1, <1>5 DEF StateInv, ArchiveInv
  <2>2. ArchiveInv'
    BY <1>2, <1>3, <1>4, <2>1, ArchiveStep, Zenon DEF ArchiveInv
  <2>. QED BY <1>1, <1>5, <2>2, ZenonT(30) DEF StateInv
<1>6. CASE ~env.archive
  <2>1. CachedInv /\ b \in disk.states \cup chain.tries /\ chain.committed = NoBlock
    BY <1>1, <1>6, Zenon DEF StateInv, CachedInv, HasState
  <2>2. CachedInv'
    BY <1>2, <1>3, <1>4, <2>1, CachedStep, Zenon
  <2>. QED BY <1>1, <1>6, <2>2 DEF StateInv
<1>. QED BY <1>5, <1>6

\* repair leaves a head that has its state where it is.
LEMMA RepairOfWhole ==
  ASSUME NEW b \in Block, NEW states, b \in states, Genesis \in states
  PROVE  Repair(b, states) = b
<1>1. Ancestors[b] \cap states \in SUBSET Ancestors[b] /\ b \in Ancestors[b] \cap states
  BY AncestorsClosed
<1>. DEFINE r == Repair(b, states)
<1>2. r \in Ancestors[b] \cap states /\ Number[b] <= Number[r]
  BY <1>1, HighestExists, Zenon DEF Repair
<1>. HIDE DEF r
<1>3. r = b
  BY <1>2, AncestorsLower, AncestorsClosed, ParentBelow
<1>. QED BY <1>3 DEF r

LEMMA ProcessKeepsState ==
  ASSUME StoreInv, StateInv, \A e \in Environments : Apart(e) /\ KeepsStates(e),
         Crash \/ Stop \/ Restart \/ \E b \in env.final : Commit(b)
  PROVE  StateInv'
<1>1. /\ DiskInv(disk) /\ ChainInv(disk, chain) /\ disk.head \in Block /\ Genesis \in disk.states
      /\ KeepsStates(env) /\ Idle.stage = "idle"
  BY Zenon DEF StoreInv, DiskInv, Idle
<1>2. CASE Crash
  <2>1. disk' = disk /\ chain' = Stopped /\ env' = env /\ \A t \in Threads : pc'[t] = Idle
    BY <1>2 DEF Crash
  <2>2. ~chain'.running /\ chain'.tries = {} /\ chain'.committed = NoBlock
    BY <2>1, ZenonT(30) DEF Stopped
  <2>. QED BY <1>1, <2>1, <2>2, ZenonT(30) DEF StateInv, ArchiveInv, CachedInv
<1>3. CASE Stop
  <2>1. chain' = Stopped /\ env' = env /\ (env.archive => disk' = disk) /\ pc' = pc /\ \A t \in Threads : pc[t] = Idle
    BY <1>3 DEF Stop
  <2>2. ~chain'.running /\ chain'.tries = {} /\ chain'.committed = NoBlock
    BY <2>1, Zenon DEF Stopped
  <2>. QED BY <1>1, <2>1, <2>2, Zenon DEF StateInv, ArchiveInv, CachedInv
<1>4. CASE Restart
  <2>1. /\ ~chain.running /\ chain' = LoadLastState(disk, {}, NoBlock, 0)
        /\ disk' = disk /\ env' = env /\ pc' = pc
    BY <1>4 DEF Restart
  <2>2. \A t \in Threads : pc[t] = Idle
    BY <2>1, Zenon DEF StoreInv, ThreadsInv
  <2>3. /\ chain'.current = Repair(disk.head, disk.states \cup {})
        /\ chain'.tries = {} /\ chain'.committed = NoBlock
    BY <2>1, Zenon DEF LoadLastState
  <2>4. chain'.current \in disk.states
    BY <1>1, <2>3, RepairFinds, ZenonT(30)
  <2>5. disk.head \in disk.states => chain'.current = disk.head
    BY <1>1, <2>3, RepairOfWhole, Zenon
  <2>. QED BY <1>1, <2>1, <2>2, <2>3, <2>4, <2>5, Zenon DEF StateInv, ArchiveInv, CachedInv, HasState
<1>5. CASE \E b \in env.final : Commit(b)
  <2>1. PICK b \in env.final : Commit(b)
    BY <1>5, Zenon
  <2>2. env.archive
    BY <1>1, <2>1 DEF KeepsStates
  <2>3. chain' = [chain EXCEPT !.committed = b] /\ disk' = disk /\ pc' = pc /\ env' = env
    BY <2>1 DEF Commit
  <2>4. chain'.current = chain.current /\ chain'.running = chain.running /\ chain'.tries = chain.tries
    BY <1>1, <2>3, Zenon DEF ChainInv
  <2>. QED BY <2>2, <2>3, <2>4, Zenon DEF StateInv, ArchiveInv, Block1
<1>. QED BY <1>2, <1>3, <1>4, <1>5, Zenon
LEMMA StateInitInv == Init => StateInv
<1>. SUFFICES ASSUME Init PROVE StateInv
  OBVIOUS
<1>1. disk.head = Genesis /\ disk.states = {Genesis} /\ chain = LoadLastState(disk, {}, NoBlock, 0)
  BY DEF Init, EmptyDatabase
<1>2. \A t \in Threads : pc[t].stage = "idle"
  BY Zenon DEF Init, Idle
<1>3. chain.current = Repair(Genesis, {Genesis} \cup {}) /\ chain.tries = {} /\ chain.committed = NoBlock
  BY <1>1 DEF LoadLastState
<1>4. chain.current = Genesis
  BY <1>3, RepairOfWhole, ParentBelow, Zenon
<1>. QED BY <1>1, <1>2, <1>3, <1>4, ZenonT(30) DEF StateInv, ArchiveInv, CachedInv, HasState

LEMMA StateNextInv ==
  ASSUME StoreInv, StateInv, \A e \in Environments : Apart(e) /\ KeepsStates(e), [Next]_vars
  PROVE  StateInv'
<1>0. \A e \in Environments : Apart(e)
  OBVIOUS
<1>1. CASE \E t \in Importers, b \in Block : InsertChain(t, b)
  BY <1>0, <1>1, ImportSteps, ImportKeepsState, Zenon DEF Threads
<1>2. CASE \E t \in Fetchers, b \in Block : InsertBlock(t, b)
  BY <1>0, <1>2, ImportSteps, ImportKeepsState, Zenon DEF Threads
<1>3. ASSUME NEW t \in Threads, Validate(t) \/ GetResult(t) \/ ExecuteAndWrite(t) \/ WriteResult(t)
      PROVE  StateInv'
  BY <1>0, <1>3, ImportSteps, ImportKeepsState, Zenon
<1>4. ASSUME NEW t \in Threads, (\E slow \in BOOLEAN : Choose(t, slow)) \/ Reorg(t) \/ SetNewHead(t)
      PROVE  StateInv'
  BY <1>0, <1>4, ChooseKeepsState, ReorgKeepsState, SetNewHeadKeepsState, Zenon
<1>5. CASE Crash \/ Stop \/ Restart \/ \E b \in env.final : Commit(b)
  BY <1>5, ProcessKeepsState, ZenonT(30)
<1>6. CASE UNCHANGED vars
  BY <1>6 DEF vars, StateInv, ArchiveInv, CachedInv, Block1, HasState
<1>. QED BY <1>0, <1>1, <1>2, <1>3, <1>4, <1>5, <1>6, NoRewind, Zenon DEF Next

LEMMA StateInvariance ==
  ASSUME \A e \in Environments : Apart(e) /\ KeepsStates(e)
  PROVE  Spec => [](StoreInv /\ StateInv)
<1>1. \A e \in Environments : Apart(e)
  OBVIOUS
<1>2. StoreInv /\ StateInv /\ [Next]_vars => (StoreInv /\ StateInv)'
  BY <1>1, NextInv, StateNextInv
<1>. QED BY <1>2, InitInv, StateInitInv, PTL DEF Spec

\* Whenever nobody is writing the current block is stored with its state: on an archive
\* node, through crashes, commits and the fetcher's imports; with tries in memory, through
\* crashes and any interleaving of InsertChain, as long as nothing keeps the head behind
\* a fork.
THEOREM HeadHasStateHolds ==
  ASSUME \A e \in Environments : Apart(e) /\ KeepsStates(e)
  PROVE  Spec => []HeadHasState
<1>1. ASSUME StoreInv, StateInv, chain.running, lock = NoThread
      PROVE  HasBlockAndFullState(chain.current)
  <2>1. chain.current \in disk.blocks
    <3>1. DiskInv(disk) /\ disk.head \in disk.blocks /\ chain.current \in Ancestors[disk.head]
      BY <1>1 DEF StoreInv, DiskInv, ChainInv
    <3>. QED BY <3>1, StoredAncestors, ZenonT(30)
  <2>2. HasState(chain.current)
    <3>1. CASE env.archive
      BY <1>1, <3>1, Zenon DEF StateInv, ArchiveInv, HasState
    <3>2. CASE ~env.archive
      <4>1. env.threads \subseteq Importers
        BY <1>1, <3>2 DEF StoreInv, KeepsStates
      <4>2. ASSUME NEW t \in Threads PROVE pc[t] = Idle
        BY <1>1, <4>1, ThreadsAssumption, ZenonT(30) DEF StoreInv, ThreadsInv, ThreadsAssumption
      <4>3. \A t \in Threads : pc[t].stage \notin {"reorg", "head"}
        BY <4>2 DEF Idle
      <4>. QED BY <1>1, <3>2, <4>3, Zenon DEF StateInv, CachedInv
    <3>. QED BY <3>1, <3>2, Zenon
  <2>. QED BY <2>1, <2>2 DEF HasBlockAndFullState
<1>2. StoreInv /\ StateInv => HeadHasState
  BY <1>1, Zenon DEF HeadHasState
<1>. QED BY <1>2, StateInvariance, PTL
-----------------------------------------------------------------------------
(* Committed blocks stay canonical *)

KeepsCanon(e) == Apart(e) /\ KeepsCommitted(e)

\* What CheckedCommittedStays says of one step.
CommittedStay ==
  \A b \in env.final :
    /\ chain.committed = b /\ disk.canon[Number[b]] = b
    /\ \A t \in Threads : pc[t].stage = "reorg" => pc[t].latest = b
    => disk'.canon[Number[b]] = b

\* A step of one thread.
LEMMA CommitThread ==
  ASSUME StoreInv, NEW t \in Threads, \A u \in Threads \ {t} : pc[u] = Idle,
         NEW w, pc' = [pc EXCEPT ![t] = w], faults' = 0,
         \A n \in Heights : disk'.canon[n] # NoBlock => \A m \in 0 .. n : disk'.canon[m] # NoBlock,
         w.stage \notin {"reorg", "head"} =>
           \A n \in Heights : n > Number[disk'.head] => disk'.canon[n] = NoBlock,
         w.stage = "head" => \A n \in Heights : n > Number[Head(w.todo).block] => disk'.canon[n] = NoBlock,
         w.stage = "head" => \A c \in Block : disk'.canon[Number[c]] = c => c \in Ancestors[Head(w.todo).block],
         w.stage = "reorg" => ReorgChecked(w, disk'.canon, chain'.committed)
  PROVE  CommitInv'
<1>1. pc'[t] = w /\ \A u \in Threads \ {t} : pc'[u].stage = "idle"
  BY DEF StoreInv, Idle
<1>2. (\A u \in Threads : pc'[u].stage \notin {"reorg", "head"}) => w.stage \notin {"reorg", "head"}
  BY <1>1, Zenon
<1>3. \A u \in Threads : pc'[u].stage = "head" =>
        \A n \in Heights : n > Number[Head(pc'[u].todo).block] => disk'.canon[n] = NoBlock
  BY <1>1, Zenon
<1>4. \A u \in Threads : pc'[u].stage = "head" =>
        \A c \in Block : disk'.canon[Number[c]] = c => c \in Ancestors[Head(pc'[u].todo).block]
  BY <1>1, Zenon
<1>5. \A u \in Threads : pc'[u].stage = "reorg" => ReorgChecked(pc'[u], disk'.canon, chain'.committed)
  BY <1>1, Zenon
<1>. QED BY <1>2, <1>3, <1>4, <1>5, ZenonT(30) DEF CommitInv, Block1

\* The steps that leave the canonical chain alone and do not end in a reorganisation.
LEMMA CommitFrame ==
  ASSUME StoreInv, CommitInv, NEW t \in Threads, \A u \in Threads \ {t} : pc[u] = Idle,
         NEW w, pc' = [pc EXCEPT ![t] = w], faults' = faults,
         disk'.canon = disk.canon, disk'.head = disk.head,
         pc[t].stage \notin {"reorg", "head"}, w.stage \notin {"reorg", "head"}
  PROVE  CommitInv' /\ CommittedStay
<1>1. \A u \in Threads : pc[u].stage \notin {"reorg", "head"}
  BY DEF Idle
<1>2. /\ faults = 0
      /\ \A n \in Heights : disk.canon[n] # NoBlock => \A m \in 0 .. n : disk.canon[m] # NoBlock
      /\ \A n \in Heights : n > Number[disk.head] => disk.canon[n] = NoBlock
  BY <1>1 DEF CommitInv
<1>3. CommitInv'
  BY <1>2, CommitThread, Zenon
<1>. QED BY <1>3, ZenonT(30) DEF CommittedStay

\* A canonical block is on the chain of the head, unless a reorganisation is going on.
LEMMA CanonicalIsAncestor ==
  ASSUME StoreInv, CommitInv, \A t \in Threads : pc[t].stage \notin {"reorg", "head"},
         NEW c \in Block, disk.canon[Number[c]] = c
  PROVE  c \in Ancestors[disk.head]
<1>1. Number[c] \in Heights /\ Number[c] \in Nat /\ c # NoBlock /\ DiskInv(disk)
  BY ParentBelow, Zenon DEF Heights, StoreInv
<1>2. Number[c] <= Number[disk.head] /\ disk.head \in Block
  <2>1. disk.head \in Block /\ Number[disk.head] \in Nat
    BY <1>1, ParentBelow, Zenon DEF DiskInv
  <2>2. ~(Number[c] > Number[disk.head])
    BY <1>1, ZenonT(30) DEF CommitInv
  <2>. QED BY <1>1, <2>1, <2>2
<1>3. Number[c] \in 0 .. Number[disk.head]
  BY <1>1, <1>2, ParentBelow
<1>4. c = AncestorAt(disk.head, Number[c])
  BY <1>1, <1>3, Zenon DEF DiskInv
<1>. QED BY <1>2, <1>3, <1>4, AncestorAtExists, ZenonT(30)

LEMMA ChooseKeepsCommitted ==
  ASSUME StoreInv, CommitInv, HeadNotRepaired, \A e \in Environments : KeepsCanon(e),
         NEW t \in Threads, NEW slow \in BOOLEAN, Choose(t, slow)
  PROVE  CommitInv' /\ CommittedStay
<1>. DEFINE b == Block1(t)
            old == chain.current
<1>0. \A e \in Environments : Apart(e)
  BY DEF KeepsCanon
<1>1. pc[t].stage = "written" /\ pc[t].stage # "idle" /\ CommitState(b, slow) /\ faults' = faults
  BY Zenon DEF Choose
<1>2. /\ b \in Block \ {Genesis} /\ chain.running /\ old \in Block
      /\ \A u \in Threads \ {t} : pc[u] = Idle
  BY <1>0, <1>1, Working, Zenon
<1>3. disk'.canon = disk.canon /\ disk'.head = disk.head /\ chain'.committed = chain.committed
  BY <1>1, <1>2, CommitStateStep, CommitStateKeeps, Zenon
<1>4. old = disk.head
  BY <1>2, ZenonT(30) DEF HeadNotRepaired
<1>5. PICK w : /\ pc' = [pc EXCEPT ![t] = w]
               /\ \/ w.stage \in {"idle", "run"}
                  \/ w.stage = "head" /\ w.todo = pc[t].todo /\ Parent[b] = old
                  \/ /\ w.stage = "reorg" /\ w.todo = pc[t].todo /\ w.latest = chain.committed
                     /\ ~RefuseReorg(old, b)
  <2>. HIDE DEF b
  <2>. QED BY <1>0, ChooseLeads, Zenon DEF b
<1>6. CASE w.stage \in {"idle", "run"}
  BY <1>1, <1>2, <1>3, <1>5, <1>6, CommitFrame, Zenon
<1>7. CASE w.stage \in {"head", "reorg"}
  <2>1. \A u \in Threads : pc[u].stage \notin {"reorg", "head"}
    BY <1>1, <1>2 DEF Idle
  <2>2. Head(w.todo).block = b
    BY <1>5, <1>7, Zenon DEF Block1
  <2>3. /\ faults = 0
        /\ \A n \in Heights : disk.canon[n] # NoBlock => \A m \in 0 .. n : disk.canon[m] # NoBlock
        /\ \A n \in Heights : n > Number[disk.head] => disk.canon[n] = NoBlock
    BY <2>1, Zenon DEF CommitInv
  <2>4. w.stage = "head" => \A n \in Heights : n > Number[b] => disk.canon[n] = NoBlock
    <3>1. w.stage = "head" => Number[b] = Number[disk.head] + 1 /\ Number[disk.head] \in Nat
      BY <1>2, <1>4, <1>5, ParentBelow
    <3>2. \A n \in Heights : n \in Nat
      BY ParentBelow DEF Heights
    <3>3. \A i, j \in Nat : i > j + 1 => i > j
      OBVIOUS
    <3>. QED BY <2>3, <3>1, <3>2, <3>3, Zenon
  <2>5. ASSUME NEW c \in Block, disk.canon[Number[c]] = c
        PROVE  c \in Ancestors[old]
    BY <1>4, <2>1, <2>5, CanonicalIsAncestor, Zenon
  <2>6. w.stage = "head" => \A c \in Block : disk.canon[Number[c]] = c => c \in Ancestors[b]
    BY <1>2, <1>5, <2>5, AncestorsOfChild, Zenon
  <2>7. w.stage = "reorg" => ReorgChecked(w, disk.canon, chain.committed)
    <3>. SUFFICES ASSUME w.stage = "reorg" PROVE ReorgChecked(w, disk.canon, chain.committed)
      OBVIOUS
    <3>1. w.latest = chain.committed /\ ~RefuseReorg(old, b)
      BY <1>5, Zenon
    <3>2. \A c \in Block : Number[c] <= Number[c]
      BY ParentBelow
    <3>. QED BY <2>2, <2>5, <3>1, <3>2, ZenonT(30) DEF RefuseReorg, OldChain, ReorgChecked
  <2>8. CommitInv'
    BY <1>1, <1>2, <1>3, <1>5, <1>7, <2>2, <2>3, <2>4, <2>6, <2>7, CommitThread, ZenonT(30)
  <2>. QED BY <1>3, <2>8, ZenonT(30) DEF CommittedStay
<1>. QED BY <1>5, <1>6, <1>7, Zenon
\* writeHeadBlock leaves no gap in the canonical numbers.
LEMMA HeadLeavesNoGap ==
  ASSUME StoreInv, CommitInv, StoreInv', NEW x \in Block, disk'.head = x,
         disk'.canon = [disk.canon EXCEPT ![Number[x]] = x]
  PROVE  \A n \in Heights : disk'.canon[n] # NoBlock => \A m \in 0 .. n : disk'.canon[m] # NoBlock
<1>. SUFFICES ASSUME NEW n \in Heights, disk'.canon[n] # NoBlock, NEW m \in 0 .. n
              PROVE  disk'.canon[m] # NoBlock
  BY Zenon
<1>1. DiskInv(disk) /\ DiskInv(disk') /\ Number[x] \in Nat /\ n \in Nat /\ x # NoBlock
  BY ParentBelow DEF StoreInv, Heights
<1>2. disk.canon \in [Heights -> Block \cup {NoBlock}]
  BY <1>1, Zenon DEF DiskInv
<1>3. CASE m <= Number[x]
  <2>1. m \in 0 .. Number[x]
    BY <1>1, <1>3
  <2>2. disk'.canon[m] = AncestorAt(x, m)
    BY <1>1, <2>1, Zenon DEF DiskInv
  <2>3. AncestorAt(x, m) \in Block
    BY <2>1, AncestorAtExists, AncestorsClosed, ZenonT(30)
  <2>. QED BY <2>2, <2>3, ParentBelow, Zenon
<1>4. CASE m > Number[x]
  <2>1. n # Number[x] /\ m # Number[x]
    BY <1>1, <1>4
  <2>2. disk.canon[n] # NoBlock
    BY <1>2, <2>1, ZenonT(30)
  <2>3. disk.canon[m] # NoBlock
    BY <2>2, Zenon DEF CommitInv
  <2>. QED BY <1>2, <2>1, <2>3
<1>. QED BY <1>1, <1>3, <1>4

LEMMA ReorgKeepsCommitted ==
  ASSUME StoreInv, CommitInv, \A e \in Environments : KeepsCanon(e), NEW t \in Threads, Reorg(t)
  PROVE  CommitInv' /\ CommittedStay
<1>. DEFINE b == Block1(t)
            new == pc[t].new
<1>0. \A e \in Environments : Apart(e)
  BY DEF KeepsCanon
<1>1. pc[t].stage = "reorg" /\ pc[t].stage # "idle" /\ faults' = faults
  BY DEF Reorg
<1>2. /\ b \in Block \ {Genesis} /\ chain.running /\ pc[t] \in Work(Item(disk.blocks))
      /\ \A u \in Threads \ {t} : pc[u] = Idle
      /\ \E a \in Ancestors[b] \cap Ancestors[chain.current] : new = Above(a, b)
      /\ new = << >> => disk.head = b
  BY <1>0, <1>1, Working, ZenonT(30) DEF WorkInv, Block1
<1>3. DiskInv(disk) /\ ChainInv(disk, chain) /\ StoreInv' /\ Number[b] \in Nat
  BY <1>0, <1>2, ReorgStep, ParentBelow, Zenon DEF StoreInv
<1>4. /\ faults = 0
      /\ \A n \in Heights : disk.canon[n] # NoBlock => \A m \in 0 .. n : disk.canon[m] # NoBlock
      /\ \A c \in Block : chain.committed = c /\ pc[t].latest = c =>
           (disk.canon[Number[c]] = c => c \in Ancestors[b])
      /\ pc[t].latest \in Block => chain.committed \in Block /\ Number[pc[t].latest] <= Number[chain.committed]
  BY <1>1, ZenonT(30) DEF CommitInv, ReorgChecked, Block1
<1>5. env.final \subseteq Block /\ disk.canon \in [Heights -> Block \cup {NoBlock}] /\ \A n \in Heights : n \in Nat
  <2>1. env \in Environment
    BY TreeAssumption DEF StoreInv, TreeAssumption
  <2>. QED BY <1>3, <2>1, ParentBelow DEF Environment, DiskInv, Heights
<1>6. CASE new # << >>
  <2>. DEFINE x == Head(new)
              w == [pc[t] EXCEPT !.new = Tail(new)]
  <2>1. x \in Ancestors[b]
    BY <1>2, <1>6, AboveIsPath, Zenon
  <2>2. x \in Block /\ Number[x] \in Heights
    BY <1>2, <2>1, AncestorsClosed, Zenon DEF Heights
  <2>3. WriteHeadBlock(x, TRUE) /\ pc' = [pc EXCEPT ![t] = w]
    BY <1>6, Zenon DEF Reorg
  <2>4. disk'.head = x /\ disk'.canon = [disk.canon EXCEPT ![Number[x]] = x] /\ chain'.committed = chain.committed
    BY <2>3, HeadFields, Zenon
  <2>5. w.stage = "reorg" /\ w.todo = pc[t].todo /\ w.latest = pc[t].latest
    BY <1>1, <1>2, Zenon DEF Work
  <2>6. Head(w.todo).block = b
    BY <2>5, Zenon DEF Block1
  <2>. HIDE DEF x, w, b
  <2>7. \A n \in Heights : disk'.canon[n] # NoBlock => \A m \in 0 .. n : disk'.canon[m] # NoBlock
    BY <1>3, <2>2, <2>4, HeadLeavesNoGap, Zenon
  <2>8. ASSUME NEW c \in Block PROVE Number[c] \in Heights
    BY DEF Heights
  <2>9. ASSUME NEW c \in Block, chain.committed = c, pc[t].latest = c, disk'.canon[Number[c]] = c
        PROVE  c \in Ancestors[b]
    <3>1. CASE Number[c] = Number[x]
      BY <1>5, <2>1, <2>2, <2>4, <2>9, <3>1, Zenon
    <3>2. CASE Number[c] # Number[x]
      BY <1>4, <1>5, <2>4, <2>8, <2>9, <3>2, Zenon
    <3>. QED BY <3>1, <3>2
  <2>10. CommitInv'
    <3>1. ReorgChecked(w, disk'.canon, chain'.committed)
      BY <1>4, <2>4, <2>5, <2>6, <2>9, ZenonT(30) DEF ReorgChecked
    <3>2. w.stage # "head" /\ w.stage \in {"reorg", "head"}
      BY <2>5
    <3>. QED BY <1>1, <1>2, <1>4, <2>3, <2>7, <3>1, <3>2, CommitThread, ZenonT(30)
  <2>11. ASSUME NEW c \in Block, chain.committed = c, pc[t].latest = c, disk.canon[Number[c]] = c
         PROVE  disk'.canon[Number[c]] = c
    <3>1. c \in Ancestors[b] /\ b \in Block
      BY <1>2, <1>4, <2>11, Zenon
    <3>2. Number[c] = Number[x] => c = x
      BY <2>1, <3>1, AncestorAtUnique, ZenonT(30)
    <3>. QED BY <1>5, <2>2, <2>4, <2>8, <2>11, <3>2, Zenon
  <2>12. CommittedStay
    BY <1>1, <1>5, <2>11, Zenon DEF CommittedStay
  <2>. QED BY <2>10, <2>12, ZenonT(30)
<1>7. CASE new = << >>
  <2>. DEFINE canon == [n \in Heights |->
                IF n > Number[b] /\ \A m \in Number[b] + 1 .. n : disk.canon[m] # NoBlock
                THEN NoBlock ELSE disk.canon[n]]
              w == [pc[t] EXCEPT !.stage = "head"]
  <2>1. disk' = [disk EXCEPT !.canon = canon] /\ pc' = [pc EXCEPT ![t] = w] /\ chain' = chain
    BY <1>7 DEF Reorg, Goto
  <2>2. w.stage = "head" /\ w.todo = pc[t].todo
    BY <1>2 DEF Work
  <2>3. Head(w.todo).block = b
    BY <2>2, Zenon DEF Block1
  <2>. HIDE DEF w, b
  <2>4. ASSUME NEW n \in Heights, n > Number[b] PROVE canon[n] = NoBlock
    <3>1. \A m \in Number[b] + 1 .. n : m \in 0 .. n
      BY <1>3, <1>5
    <3>2. CASE disk.canon[n] = NoBlock
      BY <3>2
    <3>3. CASE disk.canon[n] # NoBlock
      BY <1>4, <2>4, <3>1, <3>3, ZenonT(30)
    <3>. QED BY <3>2, <3>3, Zenon
  <2>5. ASSUME NEW n \in Heights, n <= Number[b] PROVE canon[n] = disk.canon[n]
    BY <1>3, <1>5, <2>5
  <2>6. \A n \in Heights : \A m \in 0 .. n : m \in Heights
    <3>. SUFFICES ASSUME NEW n \in Heights, NEW m \in 0 .. n PROVE m \in Heights
      OBVIOUS
    <3>1. PICK y \in Block : Number[y] = n
      BY DEF Heights
    <3>2. AncestorAt(y, m) \in Block /\ Number[AncestorAt(y, m)] = m
      BY <3>1, AncestorAtExists, AncestorsClosed, Zenon
    <3>. QED BY <3>2 DEF Heights
  <2>. HIDE DEF canon
  <2>7. disk'.canon = canon /\ disk'.head = disk.head
    BY <1>3, <2>1, ZenonT(30) DEF DiskInv
  <2>8. \A n \in Heights : canon[n] # NoBlock => \A m \in 0 .. n : canon[m] # NoBlock
    <3>. SUFFICES ASSUME NEW n \in Heights, canon[n] # NoBlock, NEW m \in 0 .. n
                  PROVE  canon[m] # NoBlock
      BY Zenon
    <3>1. n <= Number[b] /\ n \in Nat /\ m <= Number[b]
      BY <1>3, <1>5, <2>4
    <3>2. disk.canon[n] # NoBlock
      BY <2>5, <3>1
    <3>3. disk.canon[m] # NoBlock /\ m \in Heights
      BY <1>4, <2>6, <3>2, Zenon
    <3>. QED BY <2>5, <3>1, <3>3, Zenon
  <2>9. ASSUME NEW c \in Block, canon[Number[c]] = c
        PROVE  c \in Ancestors[b]
    <3>1. Number[c] \in Heights /\ c # NoBlock /\ Number[c] \in Nat
      BY ParentBelow, ZenonT(30) DEF Heights
    <3>2. Number[c] <= Number[b]
      BY <1>3, <2>4, <2>9, <3>1
    <3>3. disk.canon[Number[c]] = c /\ Number[c] \in 0 .. Number[b]
      BY <1>3, <2>5, <2>9, <3>1, <3>2
    <3>4. c = AncestorAt(b, Number[c])
      BY <1>2, <1>3, <1>7, <3>3, Zenon DEF DiskInv
    <3>. QED BY <1>2, <3>3, <3>4, AncestorAtExists, ZenonT(30)
  <2>10. CommitInv'
    <3>1. \A n \in Heights : n > Number[Head(w.todo).block] => disk'.canon[n] = NoBlock
      BY <2>3, <2>4, <2>7, Zenon
    <3>2. \A c \in Block : disk'.canon[Number[c]] = c => c \in Ancestors[Head(w.todo).block]
      BY <2>3, <2>7, <2>9, Zenon
    <3>3. w.stage # "reorg" /\ w.stage \in {"reorg", "head"}
      BY <2>2
    <3>. QED BY <1>1, <1>2, <1>4, <2>1, <2>7, <2>8, <3>1, <3>2, <3>3, CommitThread, ZenonT(30)
  <2>11. CommittedStay
    <3>1. ASSUME NEW c \in Block, chain.committed = c, pc[t].latest = c, disk.canon[Number[c]] = c
          PROVE  canon[Number[c]] = c
      <4>1. Number[c] \in Heights /\ c \in Ancestors[b]
        BY <1>4, <3>1, ZenonT(30) DEF Heights
      <4>2. Number[c] <= Number[b]
        BY <1>2, <4>1, AncestorsLower, Zenon
      <4>. QED BY <2>5, <3>1, <4>1, <4>2, Zenon
    <3>. QED BY <1>1, <1>5, <2>7, <3>1, Zenon DEF CommittedStay
  <2>. QED BY <2>10, <2>11, Zenon
<1>. QED BY <1>6, <1>7, Zenon
LEMMA SetNewHeadKeepsCommitted ==
  ASSUME StoreInv, CommitInv, \A e \in Environments : KeepsCanon(e), NEW t \in Threads, SetNewHead(t)
  PROVE  CommitInv' /\ CommittedStay
<1>. DEFINE b == Block1(t)
<1>0. \A e \in Environments : Apart(e)
  BY DEF KeepsCanon
<1>1. pc[t].stage = "head" /\ pc[t].stage # "idle" /\ WriteHeadBlock(b, FALSE) /\ Done(t) /\ faults' = faults
  BY ZenonT(30) DEF SetNewHead
<1>2. b \in Block /\ \A u \in Threads \ {t} : pc[u] = Idle
  BY <1>0, <1>1, Working, ZenonT(30)
<1>3. StoreInv' /\ DiskInv(disk)
  BY <1>0, SetNewHeadStep, Zenon DEF StoreInv
<1>4. PICK w : pc' = [pc EXCEPT ![t] = w] /\ w.stage \in {"idle", "run"}
  BY <1>1, DoneLeads
<1>5. /\ disk'.head = b /\ disk'.canon = [disk.canon EXCEPT ![Number[b]] = b]
      /\ chain'.committed = chain.committed
  BY <1>1, HeadFields, Zenon
<1>6. /\ faults = 0
      /\ \A n \in Heights : n > Number[b] => disk.canon[n] = NoBlock
      /\ \A c \in Block : disk.canon[Number[c]] = c => c \in Ancestors[b]
  BY <1>1, ZenonT(30) DEF CommitInv
<1>7. /\ env.final \subseteq Block /\ disk.canon \in [Heights -> Block \cup {NoBlock}]
      /\ Number[b] \in Heights /\ \A n \in Heights : n \in Nat
  <2>1. env \in Environment
    BY TreeAssumption DEF StoreInv, TreeAssumption
  <2>. QED BY <1>2, <1>3, <2>1, ParentBelow DEF Environment, DiskInv, Heights
<1>. HIDE DEF b
<1>8. \A n \in Heights : disk'.canon[n] # NoBlock => \A m \in 0 .. n : disk'.canon[m] # NoBlock
  BY <1>2, <1>3, <1>5, HeadLeavesNoGap, ZenonT(30)
<1>9. \A n \in Heights : n > Number[disk'.head] => disk'.canon[n] = NoBlock
  BY <1>5, <1>6, <1>7
<1>10. CommitInv'
  BY <1>1, <1>2, <1>4, <1>6, <1>8, <1>9, CommitThread, ZenonT(30)
<1>11. ASSUME NEW c \in Block, chain.committed = c, disk.canon[Number[c]] = c
       PROVE  disk'.canon[Number[c]] = c
  <2>1. c \in Ancestors[b]
    BY <1>6, <1>11, Zenon
  <2>2. Number[c] = Number[b] => c = b
    BY <1>2, <2>1, AncestorsLower, ZenonT(30)
  <2>3. Number[c] \in Heights
    BY DEF Heights
  <2>. QED BY <1>5, <1>7, <1>11, <2>2, <2>3, Zenon
<1>12. CommittedStay
  BY <1>7, <1>11 DEF CommittedStay
<1>. QED BY <1>10, <1>12

LEMMA ProcessKeepsCommitted ==
  ASSUME StoreInv, CommitInv, \A e \in Environments : KeepsCanon(e),
         Crash \/ Stop \/ Restart \/ \E b \in env.final : Commit(b)
  PROVE  CommitInv' /\ CommittedStay
<1>1. /\ DiskInv(disk) /\ env.crashes = 0 /\ env.threads \subseteq Importers
      /\ Idle.stage = "idle"
  BY ZenonT(30) DEF StoreInv, KeepsCanon, KeepsCommitted, Idle
<1>2. ~Crash
  BY <1>1 DEF Crash, CommitInv
<1>3. ASSUME \A t \in Threads : pc[t] = Idle, pc' = pc, faults' = faults,
             disk'.canon = disk.canon, disk'.head = disk.head
      PROVE  CommitInv' /\ CommittedStay
  <2>1. \A t \in Threads : pc[t].stage \notin {"reorg", "head"}
    BY <1>1, <1>3, ZenonT(30)
  <2>2. CommitInv'
    BY <1>3, <2>1, Zenon DEF CommitInv
  <2>. QED BY <1>3, <2>2 DEF CommittedStay
<1>4. CASE Stop
  <2>1. (\A t \in Threads : pc[t] = Idle) /\ pc' = pc /\ faults' = faults
    BY <1>4 DEF Stop
  <2>2. disk'.canon = disk.canon /\ disk'.head = disk.head
    BY <1>1, <1>4, Zenon DEF Stop, DiskInv
  <2>. QED BY <1>3, <2>1, <2>2
<1>5. CASE Restart
  <2>1. \A t \in Threads : pc[t] = Idle
    BY <1>5, Zenon DEF Restart, StoreInv, ThreadsInv
  <2>. QED BY <1>3, <1>5, <2>1, Zenon DEF Restart
<1>6. CASE \E b \in env.final : Commit(b)
  <2>1. PICK b \in env.final : Commit(b)
    BY <1>6
  <2>2. pc' = pc /\ faults' = faults /\ disk' = disk /\ b \in Block /\ chain'.committed = b
    <3>1. b \in Block /\ chain' = [chain EXCEPT !.committed = b]
      BY <1>1, <2>1, Zenon DEF Commit, DiskInv
    <3>2. chain'.committed = b
      BY <3>1 DEF StoreInv, ChainInv
    <3>. QED BY <2>1, <3>1, <3>2, Zenon DEF Commit
  <2>3. ASSUME NEW t \in Threads, pc[t].stage = "reorg"
        PROVE  ReorgChecked(pc[t], disk.canon, b)
    <3>1. pc[t].latest \in Block => chain.committed \in Block /\ Number[pc[t].latest] <= Number[chain.committed]
      BY <2>3, Zenon DEF CommitInv, ReorgChecked
    <3>2. chain.committed \in Block => Number[b] > Number[chain.committed]
      BY <2>1, TreeAssumption, Zenon DEF Commit, TreeAssumption
    <3>3. \A c \in Block : Number[c] \in Nat
      BY ParentBelow
    <3>4. \A i, j, k \in Nat : i <= j /\ k > j => i <= k /\ i # k
      OBVIOUS
    <3>5. pc[t].latest \in Block => Number[pc[t].latest] <= Number[b] /\ pc[t].latest # b
      BY <2>2, <3>1, <3>2, <3>3, <3>4, Zenon
    <3>. QED BY <2>2, <3>5, Zenon DEF ReorgChecked
  <2>4. CommitInv'
    BY <2>2, <2>3, ZenonT(30) DEF CommitInv, Block1
  <2>. QED BY <2>2, <2>4, Zenon DEF CommittedStay
<1>. QED BY <1>2, <1>4, <1>5, <1>6, Zenon

LEMMA CommitNext ==
  ASSUME StoreInv, CommitInv, HeadNotRepaired, \A e \in Environments : KeepsCanon(e), [Next]_vars
  PROVE  CommitInv' /\ CommittedStay
<1>0. \A e \in Environments : Apart(e)
  BY DEF KeepsCanon
<1>1. ASSUME NEW t \in Threads, ImportFrame(t) PROVE CommitInv' /\ CommittedStay
  <2>1. PICK w : pc' = [pc EXCEPT ![t] = w] /\ w.stage \in {"idle", "run", "result", "written"}
    BY <1>1, Zenon DEF ImportFrame
  <2>. QED BY <1>1, <2>1, CommitFrame, Zenon DEF ImportFrame
<1>2. CASE \E t \in Importers, b \in Block : InsertChain(t, b)
  BY <1>0, <1>1, <1>2, ImportSteps, Zenon DEF Threads
<1>3. CASE \E t \in Fetchers, b \in Block : InsertBlock(t, b)
  BY <1>0, <1>1, <1>3, ImportSteps, Zenon DEF Threads
<1>4. ASSUME NEW t \in Threads, Validate(t) \/ GetResult(t) \/ ExecuteAndWrite(t) \/ WriteResult(t)
      PROVE  CommitInv' /\ CommittedStay
  BY <1>0, <1>1, <1>4, ImportSteps, Zenon
<1>5. ASSUME NEW t \in Threads, (\E slow \in BOOLEAN : Choose(t, slow)) \/ Reorg(t) \/ SetNewHead(t)
      PROVE  CommitInv' /\ CommittedStay
  BY <1>5, ChooseKeepsCommitted, ReorgKeepsCommitted, SetNewHeadKeepsCommitted
<1>6. CASE Crash \/ Stop \/ Restart \/ \E b \in env.final : Commit(b)
  BY <1>6, ProcessKeepsCommitted, Zenon
<1>7. CASE UNCHANGED vars
  BY <1>7, Zenon DEF vars, CommitInv, Block1, CommittedStay
<1>. QED BY <1>0, <1>2, <1>3, <1>4, <1>5, <1>6, <1>7, NoRewind, Zenon DEF Next

LEMMA CommitInit == Init => CommitInv
<1>. SUFFICES ASSUME Init PROVE CommitInv
  OBVIOUS
<1>1. /\ disk.head = Genesis /\ disk.canon = [n \in Heights |-> IF n = 0 THEN Genesis ELSE NoBlock]
      /\ faults = 0 /\ \A t \in Threads : pc[t].stage = "idle"
  BY DEF Init, EmptyDatabase, Idle
<1>2. \A n \in Heights : n \in Nat
  BY ParentBelow DEF Heights
<1>3. \A n \in Heights : disk.canon[n] # NoBlock <=> n = 0
  BY <1>1, ParentBelow, ZenonT(30)
<1>4. /\ \A n \in Nat : n > 0 => n # 0
      /\ \A m \in 0 .. 0 : m = 0
      /\ Number[Genesis] = 0
  BY ParentBelow
<1>. QED BY <1>1, <1>2, <1>3, <1>4, ZenonT(30) DEF CommitInv

\* reorg: "Ensure BRDPoS engine committed block will be not reverted".  For every tree and every
\* order of imports and commits, a committed block that is canonical is taken off the canonical chain
\* only by a reorganisation that had asked for the latest committed block before it was committed, as
\* long as the head is the current block: loadLastState did not have to repair it.
THEOREM CheckedCommittedStaysHolds ==
  ASSUME \A e \in Environments : KeepsCanon(e)
  PROVE  Spec /\ []HeadNotRepaired => CheckedCommittedStays
<1>1. Spec => []StoreInv
  BY StoreInvariance DEF KeepsCanon
<1>2. StoreInv /\ CommitInv /\ HeadNotRepaired /\ [Next]_vars => CommitInv' /\ CommittedStay
  BY CommitNext
<1>3. Spec /\ []HeadNotRepaired => [][CommittedStay]_vars
  BY <1>1, <1>2, CommitInit, PTL DEF Spec
<1>. QED BY <1>3 DEF CheckedCommittedStays, CommittedStay

\* On an archive node the head is never repaired, so nothing more is needed.
THEOREM ArchiveKeepsChecked ==
  ASSUME \A e \in Environments : KeepsCanon(e) /\ e.archive
  PROVE  Spec => CheckedCommittedStays
<1>1. \A e \in Environments : KeepsCanon(e) /\ Apart(e) /\ KeepsStates(e)
  BY DEF KeepsCanon, KeepsStates
<1>2. StoreInv /\ StateInv => HeadNotRepaired
  BY DEF StoreInv, StateInv, ArchiveInv, HeadNotRepaired
<1>3. Spec => [](StoreInv /\ StateInv)
  BY <1>1, StateInvariance
<1>4. Spec => []HeadNotRepaired
  BY <1>2, <1>3, PTL
<1>5. Spec /\ []HeadNotRepaired => CheckedCommittedStays
  BY <1>1, CheckedCommittedStaysHolds
<1>. QED BY <1>4, <1>5, PTL
=============================================================================
