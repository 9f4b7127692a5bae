-------------------------- MODULE MasternodesProofs --------------------------
(***************************************************************************)
(* Snapshots and masternode lists, for any number of nodes, rounds and      *)
(* blocks, any epoch and gap: canonical gap blocks have their snapshots,    *)
(* and as long as forks are shallower than the gap, proposers, verifiers    *)
(* and caches read the list of an epoch from the same block.                *)
(***************************************************************************)
EXTENDS Masternodes, BlocksProofs, WellFoundedInduction, TLAPS

IsGapNumber(k) == k % Epoch = Epoch - Gap

\* The proposed blocks and the one they start from.
Known == Proposed \cup {SwitchBlock}

-----------------------------------------------------------------------------
(* The inductive invariant *)

TypeInv ==
  /\ env \in Environments
  /\ Proposed \subseteq Block \ {SwitchBlock}
  /\ validators = [b \in Proposed |-> validators[b]]
  /\ \A b \in Proposed : RoundOf(b) > RoundOf(ParentOf(b))
  /\ \A b \in Known : \A k \in 0 .. Number(b) : AncestorAt(b, k) \in Known
  /\ stored \in [env.nodes -> SUBSET Known]
  /\ states \in [env.nodes -> SUBSET Known]
  /\ head \in [env.nodes -> Known]
  /\ todo \in [env.nodes -> Seq(Known)]
  /\ updating \in [env.nodes -> BOOLEAN]
  /\ snapshots \in [env.nodes -> SUBSET Known]
  /\ \A n \in env.nodes : SwitchBlock \in snapshots[n]
  /\ DOMAIN canon = env.nodes /\ canon = [n \in env.nodes |-> canon[n]]
  /\ DOMAIN standby = env.nodes /\ standby = [n \in env.nodes |-> standby[n]]
  /\ crashes \in Nat

\* What is left to write leads from the canonical chain to the target, block by block.
TodoInv(list, T) ==
  /\ \A i \in 1 .. Len(list) : list[i] \in Branch(T)
  /\ \A i \in 1 .. Len(list) - 1 : Number(list[i + 1]) <= Number(list[i]) + 1

\* Below the next block to write the canonical chain is that of the target, with its
\* snapshots; below the head it is that of the head.
ChainInv(list, T, h, up, can, snaps) ==
  /\ \A k \in 0 .. Number(h) :
       /\ k \in DOMAIN can /\ can[k] = AncestorAt(h, k)
       /\ IsGapNumber(k) => AncestorAt(h, k) \in snaps \/ (up /\ k = Number(h))
  /\ list # << >> =>
       \A k \in 0 .. Number(list[1]) - 1 :
         /\ k \in DOMAIN can /\ can[k] = AncestorAt(T, k)
         /\ IsGapNumber(k) => AncestorAt(T, k) \in snaps \/ (up /\ AncestorAt(T, k) = h)

NodeInv(n) ==
  /\ TodoInv(todo[n], Target(n))
  /\ ChainInv(todo[n], Target(n), head[n], updating[n], canon[n], snapshots[n])

SnapshotInv == TypeInv /\ \A n \in env.nodes : NodeInv(n)

\* Two proposed blocks share all but the last Depth blocks of the shorter branch.
ForksAreShallow ==
  \A b \in Known, c \in Known : \A k \in Nat :
    k <= Number(b) - Depth /\ k <= Number(c) - Depth => AncestorAt(b, k) = AncestorAt(c, k)

\* Every block was at most as high as a canonical chain when it was proposed.
SomeChainIsHighest == \A b \in Proposed : \E n \in env.nodes : Number(b) <= Number(Target(n))

\* A node has nothing above its target, and a canonical number is one of a block that is
\* at most one below the target.
HeightInv(n) ==
  /\ \A b \in stored[n] \cup states[n] : Number(b) <= Number(Target(n))
  /\ DOMAIN canon[n] \subseteq 0 .. Number(Target(n))
  /\ \A k \in DOMAIN canon[n] :
       \E a \in Known : /\ Number(a) >= Number(Target(n)) - 1 /\ k <= Number(a)
                        /\ canon[n][k] = AncestorAt(a, k)

ListInv ==
  /\ \A b \in Proposed : validators[b] = IF IsEpochSwitch(b) THEN GapOf(b) ELSE Nil
  /\ \A n \in env.nodes : \A s \in DOMAIN standby[n] : standby[n][s] = GapOf(s)

AgreeInv ==
  crashes = 0 =>
    /\ ForksAreShallow
    /\ SomeChainIsHighest
    /\ \A n \in env.nodes : HeightInv(n)
    /\ ListInv
-----------------------------------------------------------------------------
(* Branches *)

\* A nonempty set of numbers below a bound has a largest element.
LEMMA LargestOf ==
  ASSUME NEW N \in Nat, NEW S \in SUBSET (0 .. N), S # {}
  PROVE  Largest(S) \in S /\ \A y \in S : Largest(S) >= y
<1>. DEFINE T == {N - x : x \in S}
<1>1. T \in SUBSET Nat /\ T # {}
  <2>1. \A x \in S : N - x \in Nat
    OBVIOUS
  <2>2. PICK x \in S : TRUE
    BY Zenon
  <2>3. N - x \in T
    BY <2>2
  <2>. QED BY <2>1, <2>3
<1>2. \E t \in T : \A u \in T : <<u, t>> \notin OpToRel(<, Nat)
  <2>. HIDE DEF T
  <2>. QED BY <1>1, NatLessThanWellFounded, WFMin, Zenon
<1>3. \A t, u \in Nat : u < t => <<u, t>> \in OpToRel(<, Nat)
  BY DEF OpToRel
<1>4. PICK t \in T : \A u \in T : ~(u < t)
  BY <1>1, <1>2, <1>3, Zenon
<1>5. PICK x \in S : t = N - x
  BY <1>4
<1>6. \A y \in S : x >= y
  BY <1>4, <1>5
<1>. QED BY <1>6, Zenon DEF Largest

\* The number of a block is its distance from the last v1 block.
LEMMA Numbers ==
  ASSUME NEW b \in Block
  PROVE  /\ Number(b) \in Nat
         /\ AncestorAt(b, Number(b)) = b
         /\ AncestorAt(b, 0) = SwitchBlock
         /\ Number(b) = 0 <=> b = SwitchBlock
<1>1. Number(b) \in Nat /\ (Number(b) = 0 <=> b = SwitchBlock)
  BY DEF Block, Number, SwitchBlock
<1>2. AncestorAt(b, Number(b)) = b
  <2>1. Number(b) \in 0 .. Number(b)
    BY <1>1
  <2>. QED BY <2>1, AncestorProperties, SequencesEqual DEF Block, Number
<1>3. AncestorAt(b, 0) = SwitchBlock
  BY DEF Block, AncestorAt, SwitchBlock
<1>. QED BY <1>1, <1>2, <1>3

\* An ancestor of an ancestor.
LEMMA Ancestry ==
  ASSUME NEW b \in Block, NEW k \in 0 .. Number(b), NEW j \in 0 .. k
  PROVE  AncestorAt(AncestorAt(b, k), j) = AncestorAt(b, j)
<1>1. AncestorAt(b, k) \in Block /\ Number(AncestorAt(b, k)) = k
  BY AncestorProperties
<1>2. Number(b) \in Nat /\ j \in 0 .. Number(b)
  BY Numbers
<1>3. /\ AncestorAt(AncestorAt(b, k), j) \in Block
      /\ Number(AncestorAt(AncestorAt(b, k), j)) = j
      /\ AncestorAt(b, j) \in Block /\ Number(AncestorAt(b, j)) = j
  BY <1>1, <1>2, AncestorProperties
<1>4. \A i \in 1 .. j : AncestorAt(AncestorAt(b, k), j)[i] = AncestorAt(b, j)[i]
  BY <1>1, <1>2, AncestorProperties
<1>. QED BY <1>3, <1>4 DEF Block, Number

\* What two branches share at a number they share below it.
LEMMA SharedBelow ==
  ASSUME NEW a \in Block, NEW b \in Block,
         NEW k \in 0 .. Number(a), k <= Number(b), AncestorAt(a, k) = AncestorAt(b, k),
         NEW j \in 0 .. k
  PROVE  AncestorAt(a, j) = AncestorAt(b, j)
<1>1. k \in 0 .. Number(b)
  BY Numbers
<1>. QED BY <1>1, Ancestry

\* The members of a branch.
LEMMA BranchMembers ==
  ASSUME NEW b \in Block
  PROVE  /\ \A k \in 0 .. Number(b) : AncestorAt(b, k) \in Branch(b)
         /\ \A c \in Branch(b) : /\ c \in Block /\ Number(c) \in 0 .. Number(b)
                                 /\ c = AncestorAt(b, Number(c))
                                 /\ \A j \in 0 .. Number(c) : AncestorAt(c, j) = AncestorAt(b, j)
         /\ b \in Branch(b)
<1>1. ASSUME NEW c \in Branch(b)
      PROVE  /\ c \in Block /\ Number(c) \in 0 .. Number(b) /\ c = AncestorAt(b, Number(c))
             /\ \A j \in 0 .. Number(c) : AncestorAt(c, j) = AncestorAt(b, j)
  <2>1. PICK k \in 0 .. Number(b) : c = AncestorAt(b, k)
    BY <1>1 DEF Branch
  <2>2. c \in Block /\ Number(c) = k
    BY <2>1, AncestorProperties
  <2>. QED BY <2>1, <2>2, Ancestry
<1>2. b \in Branch(b)
  BY Numbers DEF Branch
<1>. QED BY <1>1, <1>2 DEF Branch

\* The last block two branches share.
LEMMA Common ==
  ASSUME NEW a \in Block, NEW b \in Block
  PROVE  /\ CommonNumber(a, b) \in 0 .. Number(a)
         /\ CommonNumber(a, b) <= Number(b)
         /\ \A j \in 0 .. CommonNumber(a, b) : AncestorAt(a, j) = AncestorAt(b, j)
<1>. DEFINE S == {k \in 0 .. Number(a) : k <= Number(b) /\ AncestorAt(a, k) = AncestorAt(b, k)}
<1>1. Number(a) \in Nat /\ Number(b) \in Nat
  BY Numbers
<1>2. S \in SUBSET (0 .. Number(a)) /\ 0 \in S
  BY <1>1, Numbers
<1>3. CommonNumber(a, b) = Largest(S)
  BY DEF CommonNumber
<1>4. Largest(S) \in S
  <2>. HIDE DEF S
  <2>. QED BY <1>1, <1>2, LargestOf, Zenon
<1>5. CommonNumber(a, b) \in S
  BY <1>3, <1>4
<1>. QED BY <1>5, SharedBelow

\* The child of a block.
LEMMA Children ==
  ASSUME NEW p \in Block, NEW round \in Rounds, NEW body \in Bodies, NEW b, b = Child(p, round, body)
  PROVE  /\ b \in Block /\ b # SwitchBlock /\ ParentOf(b) = p /\ RoundOf(b) = round
         /\ Number(b) = Number(p) + 1
         /\ \A k \in 0 .. Number(p) : AncestorAt(b, k) = AncestorAt(p, k)
<1>1. b \in Block /\ b # SwitchBlock /\ ParentOf(b) = p /\ RoundOf(b) = round
  BY ChildProperties
<1>2. Number(b) \in Nat \ {0} /\ Number(p) = Number(b) - 1
  BY <1>1, ParentProperties
<1>3. p = AncestorAt(b, Number(p))
  BY <1>1, <1>2 DEF ParentOf
<1>. QED BY <1>1, <1>2, <1>3, Ancestry

\* A block and its parent.
LEMMA Parents ==
  ASSUME NEW b \in Block, b # SwitchBlock
  PROVE  /\ ParentOf(b) \in Block /\ Number(ParentOf(b)) \in 0 .. Number(b)
         /\ Number(b) = Number(ParentOf(b)) + 1
         /\ \A k \in 0 .. Number(ParentOf(b)) : AncestorAt(b, k) = AncestorAt(ParentOf(b), k)
<1>1. /\ ParentOf(b) \in Block /\ Number(b) \in Nat \ {0} /\ Number(ParentOf(b)) = Number(b) - 1
      /\ ParentOf(b) = AncestorAt(b, Number(ParentOf(b)))
  BY ParentProperties DEF ParentOf
<1>. QED BY <1>1, Ancestry

\* A map with one more entry.
LEMMA Extended ==
  ASSUME NEW f, NEW k, NEW v
  PROVE  /\ DOMAIN With(f, k, v) = DOMAIN f \cup {k}
         /\ With(f, k, v)[k] = v
         /\ \A x \in DOMAIN f \ {k} : With(f, k, v)[x] = f[x]
         /\ With(f, k, v) = [x \in DOMAIN With(f, k, v) |-> With(f, k, v)[x]]
  BY DEF With

\* The gap lies within an epoch.
LEMMA Parameters ==
  Epoch \in Nat \ {0} /\ Gap \in Nat \ {0} /\ Depth \in Nat
  BY ConfigAssumption

\* The gap block of a number is the first v2 block's parent, or a gap block at least Gap below.
LEMMA GapNumbers ==
  ASSUME NEW number \in Nat
  PROVE  /\ GapNumber(number) \in 0 .. number
         /\ GapNumber(number) = 0 \/ (GapNumber(number) <= number - Gap /\ IsGapNumber(GapNumber(number)))
<1>. DEFINE m == number % Epoch
            d == number \div Epoch
            first == number - m
<1>1. Epoch \in Nat \ {0} /\ Gap \in 1 .. Epoch
  BY ConfigAssumption
<1>2. m \in 0 .. Epoch - 1 /\ d \in Nat /\ number = Epoch * d + m
  BY <1>1
<1>. HIDE DEF m, d
<1>3. Epoch * d \in Nat /\ first = Epoch * d /\ first \in 0 .. number
  BY <1>1, <1>2
<1>4. CASE first < Gap
  BY <1>1, <1>3, <1>4 DEF GapNumber, m
<1>5. CASE first >= Gap
  <2>1. d >= 1
    BY <1>1, <1>2, <1>3, <1>5
  <2>2. first - Gap = Epoch * (d - 1) + (Epoch - Gap)
    BY <1>1, <1>2, <1>3
  <2>3. Epoch - Gap \in 0 .. Epoch - 1 /\ d - 1 \in Nat
    BY <1>1, <1>2, <2>1
  <2>4. (Epoch * (d - 1) + (Epoch - Gap)) % Epoch = Epoch - Gap
    <3>. DEFINE q == d - 1
                r == Epoch - Gap
    <3>1. q \in Nat /\ r \in 0 .. Epoch - 1
      BY <2>3
    <3>. HIDE DEF q, r
    <3>2. (Epoch * q + r) % Epoch = r
      BY <1>1, <3>1, SMTT(30)
    <3>. QED BY <3>2 DEF q, r
  <2>5. GapNumber(number) = first - Gap
    BY <1>1, <1>3, <1>5 DEF GapNumber, m
  <2>6. IsGapNumber(GapNumber(number))
    BY <2>2, <2>4, <2>5 DEF IsGapNumber
  <2>. HIDE DEF first
  <2>. QED BY <1>1, <1>3, <1>5, <2>5, <2>6
<1>. QED BY <1>1, <1>3, <1>4, <1>5

\* Two more entries at the end of a sequence.
LEMMA TwoMore ==
  ASSUME NEW A, NEW s \in Seq(A), NEW e \in A
  PROVE  /\ s \o << e, e >> \in Seq(A) /\ Len(s \o << e, e >>) = Len(s) + 2
         /\ \A i \in 1 .. Len(s) : (s \o << e, e >>)[i] = s[i]
         /\ (s \o << e, e >>)[Len(s) + 1] = e /\ (s \o << e, e >>)[Len(s) + 2] = e
  OBVIOUS

\* reorg writes the new branch block by block, from the last block it shares with the
\* current one, and ends with the new block.
LEMMA HeadWritesLead ==
  ASSUME NEW n, head[n] \in Block, NEW b \in Block, b # SwitchBlock,
         NEW S, Branch(b) \subseteq S, NEW list, list = HeadWrites(n, b, ParentOf(b))
  PROVE  /\ list \in Seq(S) /\ list # << >> /\ list[Len(list)] = b
         /\ TodoInv(list, b)
         /\ Number(list[1]) \in 1 .. Number(b)
         /\ \A k \in 0 .. Number(list[1]) - 1 :
              k <= Number(head[n]) /\ AncestorAt(b, k) = AncestorAt(head[n], k)
<1>. DEFINE p == ParentOf(b)
            c == CommonNumber(p, head[n])
            m == Number(p) - c
            new == [i \in 1 .. m |-> AncestorAt(p, c + i)]
<1>1. /\ p \in Block /\ Number(p) \in Nat /\ Number(b) = Number(p) + 1
      /\ \A k \in 0 .. Number(p) : AncestorAt(b, k) = AncestorAt(p, k)
  BY Parents, Numbers
<1>2. /\ b \in Branch(b) /\ \A k \in 0 .. Number(p) : AncestorAt(p, k) \in Branch(b)
      /\ \A k \in 0 .. Number(p) : Number(AncestorAt(p, k)) = k
  BY <1>1, BranchMembers, AncestorProperties
<1>3. CASE p = head[n]
  <2>1. list = << b >>
    BY <1>3 DEF HeadWrites
  <2>2. list \in Seq(S) /\ Len(list) = 1 /\ list[1] = b
    BY <1>2, <2>1
  <2>. HIDE DEF p
  <2>3. TodoInv(list, b)
    BY <1>2, <2>2 DEF TodoInv
  <2>4. \A k \in 0 .. Number(p) : k <= Number(head[n]) /\ AncestorAt(b, k) = AncestorAt(head[n], k)
    BY <1>1, <1>3
  <2>5. list # << >> /\ list[Len(list)] = b
    BY <2>2
  <2>6. Number(list[1]) - 1 = Number(p) /\ Number(list[1]) \in 1 .. Number(b)
    <3>1. Number(list[1]) = Number(p) + 1 /\ Number(p) \in Nat
      BY <1>1, <2>2
    <3>. QED BY <1>1, <3>1
  <2>. QED BY <2>2, <2>3, <2>4, <2>5, <2>6
<1>4. CASE p # head[n]
  <2>1. list = new \o << b, b >>
    BY <1>4, Zenon DEF HeadWrites
  <2>2. /\ c \in 0 .. Number(p) /\ c <= Number(head[n])
        /\ \A j \in 0 .. c : AncestorAt(p, j) = AncestorAt(head[n], j)
    BY <1>1, Common
  <2>. HIDE DEF p, c
  <2>3. m \in Nat /\ \A i \in 1 .. m : c + i \in 0 .. Number(p)
    BY <1>1, <2>2
  <2>4. new \in Seq(S) /\ Len(new) = m
    BY <1>2, <2>3
  <2>5. /\ list \in Seq(S) /\ Len(list) = m + 2
        /\ \A i \in 1 .. m : list[i] = new[i]
        /\ list[m + 1] = b /\ list[m + 2] = b
    <3>. HIDE DEF m, new
    <3>1. /\ new \o << b, b >> \in Seq(S) /\ Len(new \o << b, b >>) = Len(new) + 2
          /\ \A i \in 1 .. Len(new) : (new \o << b, b >>)[i] = new[i]
          /\ (new \o << b, b >>)[Len(new) + 1] = b /\ (new \o << b, b >>)[Len(new) + 2] = b
      BY <1>2, <2>4, TwoMore, Zenon
    <3>. QED BY <2>1, <2>4, <3>1, Zenon
  <2>6. \A i \in 1 .. m : list[i] = AncestorAt(p, c + i) /\ Number(list[i]) = c + i /\ list[i] \in Branch(b)
    BY <1>2, <2>3, <2>5
  <2>7. TodoInv(list, b)
    <3>1. ASSUME NEW i \in 1 .. Len(list) PROVE list[i] \in Branch(b)
      BY <1>2, <2>3, <2>5, <2>6
    <3>2. ASSUME NEW i \in 1 .. Len(list) - 1 PROVE Number(list[i + 1]) <= Number(list[i]) + 1
      <4>1. CASE i < m
        BY <4>1, <2>2, <2>3, <2>6
      <4>2. CASE i = m
        BY <4>2, <1>1, <2>2, <2>3, <2>5, <2>6
      <4>3. CASE i = m + 1
        <5>. HIDE DEF m
        <5>. QED BY <4>3, <1>1, <2>3, <2>5
      <4>4. i < m \/ i = m \/ i = m + 1
        <5>. HIDE DEF m
        <5>. QED BY <2>3, <2>5
      <4>. QED BY <4>1, <4>2, <4>3, <4>4
    <3>. QED BY <3>1, <3>2 DEF TodoInv
  <2>8. Number(list[1]) = c + 1
    <3>1. CASE m = 0
      <4>1. Number(p) = c /\ Number(b) = Number(p) + 1
        BY <1>1, <2>2, <3>1
      <4>. HIDE DEF m
      <4>2. m + 1 = 1
        BY <3>1
      <4>3. list[1] = b
        BY <2>5, <4>2, Zenon
      <4>. QED BY <4>1, <4>3, Zenon
    <3>2. CASE m # 0
      <4>1. 1 \in 1 .. m
        BY <2>3, <3>2
      <4>. QED BY <2>6, <4>1, Zenon
    <3>. QED BY <3>1, <3>2, Zenon
  <2>9. list # << >> /\ list[Len(list)] = b
    BY <2>3, <2>5
  <2>10. \A k \in 0 .. c : k <= Number(head[n]) /\ AncestorAt(b, k) = AncestorAt(head[n], k)
    BY <1>1, <2>2, Numbers
  <2>. QED BY <1>1, <2>2, <2>5, <2>7, <2>8, <2>9, <2>10
<1>. QED BY <1>3, <1>4

\* A sequence over a set is one over a larger set.
LEMMA SeqMono ==
  ASSUME NEW A, NEW B, A \subseteq B, NEW s \in Seq(A)
  PROVE  s \in Seq(B)
  OBVIOUS
-----------------------------------------------------------------------------
(* Steps of a node *)

\* What the type invariant says of blocks, heads and targets.
LEMMA TypeFacts ==
  ASSUME TypeInv
  PROVE  /\ Known \subseteq Block
         /\ \A n \in env.nodes : head[n] \in Known /\ todo[n] \in Seq(Known) /\ Target(n) \in Known
<1>1. Known \subseteq Block
  <2>1. SwitchBlock \in Block
    BY DEF Block, SwitchBlock
  <2>. QED BY <2>1 DEF TypeInv, Known
<1>2. ASSUME NEW n \in env.nodes
      PROVE  head[n] \in Known /\ todo[n] \in Seq(Known) /\ Target(n) \in Known
  <2>1. head[n] \in Known /\ todo[n] \in Seq(Known)
    BY DEF TypeInv
  <2>2. todo[n] # << >> => todo[n][Len(todo[n])] \in Known
    BY <2>1
  <2>. QED BY <2>1, <2>2 DEF Target
<1>. QED BY <1>1, <1>2

\* Nothing changes for a node.
Untouched(n) ==
  /\ todo'[n] = todo[n] /\ head'[n] = head[n] /\ updating'[n] = updating[n]
  /\ canon'[n] = canon[n] /\ snapshots'[n] = snapshots[n]

\* A node nothing changes for keeps its target and its invariant.
LEMMA UntouchedNode ==
  ASSUME NEW n, Untouched(n)
  PROVE  Target(n)' = Target(n) /\ (NodeInv(n) => NodeInv(n)')
  BY DEF Untouched, Target, NodeInv

\* WriteBlockWithState sets the target to the longer chain and leaves a list that leads to it.
LEMMA WriteNode ==
  ASSUME TypeInv, NEW n \in env.nodes, NodeInv(n), Idle(n), NEW b \in Block, b # SwitchBlock,
         Write(n, b, ParentOf(b))
  PROVE  /\ NodeInv(n)'
         /\ Target(n) = head[n]
         /\ Target(n)' = IF Number(b) > Number(head[n]) THEN b ELSE head[n]
         /\ \A m \in env.nodes \ {n} : Untouched(m)
         /\ todo' \in [env.nodes -> Seq(Known \cup Branch(b))]
<1>1. /\ todo[n] = << >> /\ updating[n] = FALSE /\ head[n] \in Known /\ head[n] \in Block
      /\ Number(head[n]) \in Nat /\ Number(b) \in Nat
  BY TypeFacts, Numbers DEF Idle, TypeInv
<1>2. Target(n) = head[n]
  BY <1>1 DEF Target
<1>3. \A m \in env.nodes \ {n} : Untouched(m)
  BY DEF Write, Untouched, TypeInv
<1>4. /\ head'[n] = head[n] /\ updating'[n] = updating[n] /\ canon'[n] = canon[n]
      /\ snapshots'[n] = snapshots[n]
      /\ todo'[n] = IF Number(b) > Number(head[n]) THEN HeadWrites(n, b, ParentOf(b)) ELSE << >>
      /\ todo' = [todo EXCEPT ![n] = todo'[n]]
  BY Zenon DEF Write, TypeInv
<1>5. CASE Number(b) > Number(head[n])
  <2>. DEFINE list == HeadWrites(n, b, ParentOf(b))
              S == Known \cup Branch(b)
  <2>. HIDE DEF list
  <2>1. /\ list \in Seq(S) /\ list # << >> /\ list[Len(list)] = b
        /\ TodoInv(list, b)
        /\ Number(list[1]) \in 1 .. Number(b)
        /\ \A k \in 0 .. Number(list[1]) - 1 :
             k <= Number(head[n]) /\ AncestorAt(b, k) = AncestorAt(head[n], k)
    <3>. HIDE DEF S
    <3>1. Branch(b) \subseteq S
      BY DEF S
    <3>. QED BY <1>1, <3>1, HeadWritesLead, ZenonT(30) DEF list
  <2>2. todo'[n] = list /\ Target(n)' = b
    BY <1>4, <1>5, <2>1 DEF Target, list
  <2>3. ChainInv(list, b, head[n], FALSE, canon[n], snapshots[n])
    <3>1. ChainInv(<< >>, head[n], head[n], FALSE, canon[n], snapshots[n])
      BY <1>1, <1>2, Zenon DEF NodeInv
    <3>2. ASSUME NEW k \in 0 .. Number(list[1]) - 1
          PROVE  /\ k \in DOMAIN canon[n] /\ canon[n][k] = AncestorAt(b, k)
                 /\ IsGapNumber(k) => AncestorAt(b, k) \in snapshots[n]
      <4>1. k \in 0 .. Number(head[n]) /\ AncestorAt(b, k) = AncestorAt(head[n], k)
        BY <1>1, <2>1
      <4>. QED BY <3>1, <4>1 DEF ChainInv
    <3>. QED BY <3>1, <3>2 DEF ChainInv
  <2>4. NodeInv(n)'
    BY <1>1, <1>4, <2>1, <2>2, <2>3, Zenon DEF NodeInv
  <2>5. todo' \in [env.nodes -> Seq(S)]
    <3>1. \A m \in env.nodes : todo[m] \in Seq(S)
      <4>. Known \subseteq S
        OBVIOUS
      <4>. HIDE DEF S
      <4>. QED BY SeqMono DEF TypeInv
    <3>. HIDE DEF S
    <3>. QED BY <1>4, <2>1, <2>2, <3>1, Zenon DEF TypeInv
  <2>. QED BY <1>2, <1>3, <1>5, <2>2, <2>4, <2>5
<1>6. CASE ~(Number(b) > Number(head[n]))
  <2>1. todo'[n] = todo[n] /\ todo' = todo
    BY <1>1, <1>4, <1>6 DEF TypeInv
  <2>2. Untouched(n)
    BY <1>4, <2>1 DEF Untouched
  <2>3. todo' \in [env.nodes -> Seq(Known \cup Branch(b))]
    <3>. DEFINE S == Known \cup Branch(b)
    <3>1. \A m \in env.nodes : todo[m] \in Seq(S)
      <4>. Known \subseteq S
        OBVIOUS
      <4>. HIDE DEF S
      <4>. QED BY SeqMono DEF TypeInv
    <3>. QED BY <2>1, <3>1, Zenon DEF TypeInv
  <2>. QED BY <1>2, <1>3, <1>6, <2>2, <2>3, UntouchedNode, Zenon
<1>. QED BY <1>5, <1>6

\* writeHeadBlock moves the canonical chain one block towards the target.
LEMMA WriteHeadNode ==
  ASSUME TypeInv, NEW n \in env.nodes, NodeInv(n), WriteHead(n)
  PROVE  /\ NodeInv(n)' /\ TypeInv'
         /\ Target(n)' = Target(n)
         /\ \A m \in env.nodes \ {n} : Untouched(m)
         /\ todo[n][1] \in Branch(Target(n))
         /\ canon'[n] = With(canon[n], Number(todo[n][1]), todo[n][1])
<1>. DEFINE b == todo[n][1]
            T == Target(n)
<1>1. /\ todo[n] \in Seq(Known) /\ todo[n] # << >> /\ updating[n] = FALSE
      /\ head[n] \in Known /\ Known \subseteq Block /\ T \in Known
  BY TypeFacts DEF WriteHead, TypeInv
<1>2. Head(todo[n]) = b /\ b \in Known /\ Len(todo[n]) \in Nat \ {0}
  BY <1>1
<1>3. /\ Tail(todo[n]) \in Seq(Known) /\ Len(Tail(todo[n])) = Len(todo[n]) - 1
      /\ \A i \in 1 .. Len(todo[n]) - 1 : Tail(todo[n])[i] = todo[n][i + 1]
  BY <1>1, <1>2
<1>4. /\ head' = [head EXCEPT ![n] = b]
      /\ canon' = [canon EXCEPT ![n] = With(@, Number(b), b)]
      /\ updating' = [updating EXCEPT ![n] = IsGapBlock(b)]
      /\ todo' = [todo EXCEPT ![n] = Tail(@)]
      /\ UNCHANGED << validators, stored, states, snapshots, standby, crashes, env >>
  BY <1>2 DEF WriteHead
<1>5. \A m \in env.nodes \ {n} : Untouched(m)
  BY <1>4, Zenon DEF Untouched, TypeInv
<1>6. TypeInv'
  <2>1. /\ head' \in [env.nodes -> Known] /\ todo' \in [env.nodes -> Seq(Known)]
        /\ updating' \in [env.nodes -> BOOLEAN]
    BY <1>2, <1>3, <1>4 DEF TypeInv, IsGapBlock
  <2>2. DOMAIN canon' = env.nodes /\ canon' = [m \in env.nodes |-> canon'[m]]
    BY <1>4, Zenon DEF TypeInv
  <2>. QED BY <1>4, <2>1, <2>2 DEF TypeInv, Known, Proposed
<1>7. /\ head'[n] = b /\ canon'[n] = With(canon[n], Number(b), b) /\ updating'[n] = IsGapBlock(b)
      /\ todo'[n] = Tail(todo[n]) /\ snapshots'[n] = snapshots[n]
  BY <1>4 DEF TypeInv
<1>8. T = todo[n][Len(todo[n])] /\ T \in Block /\ b \in Block
  BY <1>1, <1>2, Zenon DEF Target
<1>9. /\ b \in Branch(T) /\ Number(b) \in 0 .. Number(T) /\ b = AncestorAt(T, Number(b))
      /\ \A j \in 0 .. Number(b) : AncestorAt(b, j) = AncestorAt(T, j)
      /\ Number(T) \in Nat /\ AncestorAt(b, Number(b)) = b
  <2>1. b \in Branch(T)
    BY <1>2 DEF NodeInv, TodoInv
  <2>. QED BY <1>8, <2>1, BranchMembers, Numbers, Zenon
<1>10. Target(n)' = T
  <2>. DEFINE list == todo[n]
              rest == Tail(list)
  <2>0. /\ list \in Seq(Known) /\ Len(list) \in Nat \ {0} /\ T = list[Len(list)] /\ b = list[1]
        /\ rest \in Seq(Known) /\ Len(rest) = Len(list) - 1
        /\ \A i \in 1 .. Len(list) - 1 : rest[i] = list[i + 1]
    BY <1>1, <1>2, <1>3, <1>8, Zenon
  <2>. Target(n)' = IF rest = << >> THEN b ELSE rest[Len(rest)]
    BY <1>7 DEF Target
  <2>. HIDE DEF list, rest, T, b
  <2>1. CASE Len(list) = 1
    <3>1. rest = << >> /\ T = b
      BY <2>0, <2>1
    <3>. QED BY <3>1
  <2>2. CASE Len(list) > 1
    <3>1. Len(list) - 1 \in 1 .. Len(list) - 1 /\ Len(rest) > 0
      BY <2>0, <2>2
    <3>2. rest[Len(rest)] = list[Len(list) - 1 + 1] /\ rest # << >>
      BY <2>0, <3>1
    <3>. QED BY <2>0, <3>2
  <2>. QED BY <2>0, <2>1, <2>2
<1>11. TodoInv(todo'[n], T)
  BY <1>2, <1>3, <1>7 DEF NodeInv, TodoInv
<1>12. /\ DOMAIN canon'[n] = DOMAIN canon[n] \cup {Number(b)}
       /\ canon'[n][Number(b)] = b
       /\ \A k \in DOMAIN canon[n] \ {Number(b)} : canon'[n][k] = canon[n][k]
  BY <1>7, Extended
<1>13. \A k \in 0 .. Number(b) - 1 :
         /\ k \in DOMAIN canon'[n] /\ canon'[n][k] = AncestorAt(T, k)
         /\ IsGapNumber(k) => AncestorAt(T, k) \in snapshots[n]
  <2>. SUFFICES ASSUME NEW k \in 0 .. Number(b) - 1
                PROVE  /\ k \in DOMAIN canon'[n] /\ canon'[n][k] = AncestorAt(T, k)
                       /\ IsGapNumber(k) => AncestorAt(T, k) \in snapshots[n]
    OBVIOUS
  <2>1. /\ k \in DOMAIN canon[n] /\ canon[n][k] = AncestorAt(T, k)
        /\ IsGapNumber(k) => AncestorAt(T, k) \in snapshots[n]
    BY <1>1 DEF NodeInv, ChainInv
  <2>2. k # Number(b)
    BY <1>9
  <2>. QED BY <1>12, <2>1, <2>2
<1>14. \A k \in 0 .. Number(b) :
         /\ k \in DOMAIN canon'[n] /\ canon'[n][k] = AncestorAt(T, k)
         /\ IsGapNumber(k) => AncestorAt(T, k) \in snapshots[n] \/ (updating'[n] /\ k = Number(b))
  <2>. SUFFICES ASSUME NEW k \in 0 .. Number(b)
                PROVE  /\ k \in DOMAIN canon'[n] /\ canon'[n][k] = AncestorAt(T, k)
                       /\ IsGapNumber(k) => AncestorAt(T, k) \in snapshots[n] \/ (updating'[n] /\ k = Number(b))
    BY Zenon
  <2>1. CASE k = Number(b)
    BY <1>7, <1>9, <1>12, <2>1, Zenon DEF IsGapBlock, IsGapNumber
  <2>2. CASE k # Number(b)
    <3>1. k \in 0 .. Number(b) - 1
      BY <1>9, <2>2
    <3>. QED BY <1>13, <3>1
  <2>. QED BY <2>1, <2>2
<1>15. ChainInv(todo'[n], T, b, updating'[n], canon'[n], snapshots[n])
  <2>1. ASSUME NEW k \in 0 .. Number(b)
        PROVE  /\ k \in DOMAIN canon'[n] /\ canon'[n][k] = AncestorAt(b, k)
               /\ IsGapNumber(k) => AncestorAt(b, k) \in snapshots[n] \/ (updating'[n] /\ k = Number(b))
    BY <1>9, <1>14
  <2>2. ASSUME todo'[n] # << >>, NEW k \in 0 .. Number(todo'[n][1]) - 1
        PROVE  /\ k \in DOMAIN canon'[n] /\ canon'[n][k] = AncestorAt(T, k)
               /\ IsGapNumber(k) => AncestorAt(T, k) \in snapshots[n] \/ (updating'[n] /\ AncestorAt(T, k) = b)
    <3>1. 1 \in 1 .. Len(todo[n]) - 1 /\ todo'[n][1] = todo[n][1 + 1]
      BY <1>2, <1>3, <1>7, <2>2
    <3>2. Number(todo'[n][1]) <= Number(b) + 1
      BY <3>1 DEF NodeInv, TodoInv
    <3>3. Number(todo'[n][1]) \in Nat
      <4>1. todo'[n][1] \in Block
        BY <1>1, <3>1
      <4>. QED BY <4>1, Numbers
    <3>4. k \in 0 .. Number(b)
      BY <1>9, <3>2, <3>3
    <3>. QED BY <1>9, <1>14, <3>4, Zenon
  <2>. HIDE DEF T, b
  <2>. QED BY <2>1, <2>2, Zenon DEF ChainInv
<1>16. NodeInv(n)'
  BY <1>7, <1>10, <1>11, <1>15, Zenon DEF NodeInv
<1>. QED BY <1>5, <1>6, <1>7, <1>9, <1>10, <1>16, Zenon

\* UpdateM1 stores the snapshot that was due for the head.
LEMMA UpdateM1Node ==
  ASSUME TypeInv, NEW n \in env.nodes, NodeInv(n), UpdateM1(n)
  PROVE  /\ NodeInv(n)' /\ TypeInv'
         /\ Target(n)' = Target(n)
         /\ \A m \in env.nodes \ {n} : Untouched(m)
<1>1. /\ snapshots' = [snapshots EXCEPT ![n] = @ \cup {head[n]}]
      /\ updating' = [updating EXCEPT ![n] = FALSE]
      /\ UNCHANGED << validators, stored, states, head, canon, todo, standby, crashes, env >>
      /\ updating[n] = TRUE
  BY DEF UpdateM1, TypeInv
<1>2. \A m \in env.nodes \ {n} : Untouched(m)
  BY <1>1, Zenon DEF Untouched, TypeInv
<1>3. TypeInv'
  <2>1. /\ snapshots' \in [env.nodes -> SUBSET Known]
        /\ updating' \in [env.nodes -> BOOLEAN]
        /\ \A m \in env.nodes : SwitchBlock \in snapshots'[m]
    BY <1>1 DEF TypeInv
  <2>. QED BY <1>1, <2>1 DEF TypeInv, Known, Proposed
<1>4. Target(n)' = Target(n)
  BY <1>1 DEF Target
<1>5. head[n] \in Block /\ AncestorAt(head[n], Number(head[n])) = head[n]
  BY TypeFacts, Numbers
<1>6. snapshots'[n] = snapshots[n] \cup {head[n]} /\ updating'[n] = FALSE
  BY <1>1, Zenon DEF TypeInv
<1>7. ChainInv(todo[n], Target(n), head[n], FALSE, canon[n], snapshots[n] \cup {head[n]})
  <2>1. ChainInv(todo[n], Target(n), head[n], TRUE, canon[n], snapshots[n])
    BY <1>1, Zenon DEF NodeInv
  <2>. QED BY <1>5, <2>1 DEF ChainInv
<1>8. NodeInv(n)'
  BY <1>1, <1>4, <1>6, <1>7, ZenonT(30) DEF NodeInv
<1>. QED BY <1>2, <1>3, <1>4, <1>8, Zenon

\* getEpochSwitchInfo touches nothing but its cache.
LEMMA ReadNode ==
  ASSUME TypeInv, NEW n \in env.nodes, NEW b, GetEpochSwitchInfo(n, b)
  PROVE  /\ TypeInv'
         /\ \A m \in env.nodes : Untouched(m)
<1>1. /\ standby' = [standby EXCEPT ![n] = With(@, SwitchBlockOf(b), Snapshot(n, Number(SwitchBlockOf(b))))]
      /\ UNCHANGED << validators, stored, states, head, canon, todo, updating, snapshots, crashes, env >>
  BY DEF GetEpochSwitchInfo
<1>2. DOMAIN standby' = env.nodes /\ standby' = [m \in env.nodes |-> standby'[m]]
  BY <1>1, Zenon DEF TypeInv
<1>3. TypeInv'
  BY <1>1, <1>2 DEF TypeInv, Known, Proposed
<1>. QED BY <1>1, <1>3 DEF Untouched

\* repair goes back below the head, where no snapshot is due.
LEMMA CrashNode ==
  ASSUME TypeInv, NEW n \in env.nodes, NodeInv(n), Crash(n)
  PROVE  /\ NodeInv(n)' /\ TypeInv'
         /\ \A m \in env.nodes \ {n} : Untouched(m)
         /\ crashes' # 0
<1>. DEFINE h == head[n]
<1>1. PICK a \in Branch(h) :
        /\ a = h => a = SwitchBlock
        /\ head' = [head EXCEPT ![n] = a]
        /\ states' = [states EXCEPT ![n] = Branch(a)]
  BY Zenon DEF Crash
<1>2. /\ todo' = [todo EXCEPT ![n] = << >>]
      /\ updating' = [updating EXCEPT ![n] = FALSE]
      /\ standby' = [standby EXCEPT ![n] = << >>]
      /\ crashes' = crashes + 1
      /\ UNCHANGED << validators, stored, canon, snapshots, env >>
  BY DEF Crash
<1>3. h \in Known /\ h \in Block /\ Number(h) \in Nat
  BY TypeFacts, Numbers, Zenon
<1>4. /\ a \in Block /\ Number(a) \in 0 .. Number(h) /\ a = AncestorAt(h, Number(a))
      /\ \A j \in 0 .. Number(a) : AncestorAt(a, j) = AncestorAt(h, j)
  BY <1>1, <1>3, BranchMembers
<1>5. a \in Known /\ Branch(a) \subseteq Known
  <2>1. a \in Known
    BY <1>3, <1>4 DEF TypeInv
  <2>. QED BY <2>1 DEF TypeInv, Branch
<1>6. TypeInv'
  <2>1. /\ head' \in [env.nodes -> Known] /\ states' \in [env.nodes -> SUBSET Known]
        /\ updating' \in [env.nodes -> BOOLEAN]
    BY <1>1, <1>2, <1>5, Zenon DEF TypeInv
  <2>2. todo' \in [env.nodes -> Seq(Known)]
    BY <1>2 DEF TypeInv
  <2>3. DOMAIN standby' = env.nodes /\ standby' = [m \in env.nodes |-> standby'[m]] /\ crashes' \in Nat
    <3>1. ASSUME NEW e, standby' = [standby EXCEPT ![n] = e]
          PROVE  DOMAIN standby' = env.nodes /\ standby' = [m \in env.nodes |-> standby'[m]]
      BY <3>1, Zenon DEF TypeInv
    <3>2. crashes' \in Nat
      BY <1>2 DEF TypeInv
    <3>. QED BY <1>2, <3>1, <3>2, Zenon
  <2>. QED BY <1>2, <2>1, <2>2, <2>3 DEF TypeInv, Known, Proposed
<1>7. \A m \in env.nodes \ {n} : Untouched(m)
  BY <1>1, <1>2 DEF Untouched, TypeInv
<1>8. /\ head'[n] = a /\ todo'[n] = << >> /\ updating'[n] = FALSE /\ Target(n)' = a
      /\ canon'[n] = canon[n] /\ snapshots'[n] = snapshots[n]
  BY <1>1, <1>2, ZenonT(30) DEF TypeInv, Target
<1>9. \A k \in 0 .. Number(a) :
        /\ k \in DOMAIN canon[n] /\ canon[n][k] = AncestorAt(a, k)
        /\ IsGapNumber(k) => AncestorAt(a, k) \in snapshots[n]
  <2>. SUFFICES ASSUME NEW k \in 0 .. Number(a)
                PROVE  /\ k \in DOMAIN canon[n] /\ canon[n][k] = AncestorAt(a, k)
                       /\ IsGapNumber(k) => AncestorAt(a, k) \in snapshots[n]
    OBVIOUS
  <2>1. k \in 0 .. Number(h) /\ AncestorAt(a, k) = AncestorAt(h, k)
    BY <1>3, <1>4
  <2>2. /\ k \in DOMAIN canon[n] /\ canon[n][k] = AncestorAt(h, k)
        /\ IsGapNumber(k) => AncestorAt(h, k) \in snapshots[n] \/ k = Number(h)
    BY <2>1 DEF NodeInv, ChainInv
  <2>3. CASE k = Number(h)
    <3>1. a = h /\ a = SwitchBlock /\ AncestorAt(a, k) = a
      BY <1>1, <1>3, <1>4, <2>3, Numbers
    <3>. QED BY <2>1, <2>2, <3>1 DEF TypeInv
  <2>. QED BY <2>1, <2>2, <2>3
<1>10. NodeInv(n)'
  <2>1. TodoInv(<< >>, a)
    BY DEF TodoInv
  <2>2. ChainInv(<< >>, a, a, FALSE, canon[n], snapshots[n])
    BY <1>9 DEF ChainInv
  <2>. QED BY <1>8, <2>1, <2>2, Zenon DEF NodeInv
<1>. QED BY <1>2, <1>6, <1>7, <1>10 DEF TypeInv

\* InsertChain of a verified block keeps the invariant of the node.
LEMMA ImportNode ==
  ASSUME TypeInv, NEW n \in env.nodes, NodeInv(n), NEW b \in Proposed, Import(n, b)
  PROVE  /\ NodeInv(n)' /\ TypeInv'
         /\ \A m \in env.nodes \ {n} : Untouched(m)
         /\ Target(n) = head[n]
         /\ Target(n)' = IF Number(b) > Number(head[n]) THEN b ELSE head[n]
<1>1. b \in Known /\ b \in Block /\ b # SwitchBlock /\ Idle(n) /\ Write(n, b, ParentOf(b))
  BY TypeFacts DEF Import, TypeInv, Known
<1>2. Branch(b) \subseteq Known
  BY <1>1 DEF TypeInv, Branch
<1>3. /\ NodeInv(n)'
      /\ Target(n) = head[n]
      /\ Target(n)' = IF Number(b) > Number(head[n]) THEN b ELSE head[n]
      /\ \A m \in env.nodes \ {n} : Untouched(m)
      /\ todo' \in [env.nodes -> Seq(Known \cup Branch(b))]
  BY <1>1, WriteNode, Zenon
<1>4. todo' \in [env.nodes -> Seq(Known)]
  <2>1. Known \cup Branch(b) = Known
    BY <1>2, Zenon
  <2>. QED BY <1>3, <2>1
<1>5. stored' \in [env.nodes -> SUBSET Known] /\ states' \in [env.nodes -> SUBSET Known]
  BY <1>1, Zenon DEF TypeInv, Write
<1>6. UNCHANGED << validators, standby, head, canon, updating, snapshots, crashes, env >>
  BY DEF Import, Write
<1>7. TypeInv'
  BY <1>4, <1>5, <1>6 DEF TypeInv, Known, Proposed
<1>. QED BY <1>3, <1>7, Zenon

\* A node proposes a block on a parent it has: the block is new, its child, and the target
\* of the node if it is higher.
ProposedOn(n, p, round, b) ==
  /\ \A m \in env.nodes \ {n} : Untouched(m)
  /\ Target(n) = head[n]
  /\ Target(n)' = IF Number(b) > Number(head[n]) THEN b ELSE head[n]
  /\ p \in Known /\ p \in Block /\ b \in Block /\ b # SwitchBlock /\ ParentOf(b) = p
  /\ RoundOf(b) = round /\ round > RoundOf(p)
  /\ Number(b) = Number(p) + 1 /\ Number(p) \in Nat
  /\ \A k \in 0 .. Number(p) : AncestorAt(b, k) = AncestorAt(p, k)
  /\ Proposed' = Proposed \cup {b} /\ Known' = Known \cup {b}
  /\ \A c \in Proposed : validators'[c] = validators[c]

\* The miner's own block keeps it too, and adds a child of a known block.
LEMMA ProposeNode ==
  ASSUME TypeInv, NEW n \in env.nodes, NodeInv(n),
         NEW p \in states[n], NEW round \in env.rounds, NEW body \in Bodies,
         Propose(n, p, round, body), NEW b, b = Child(p, round, body)
  PROVE  NodeInv(n)' /\ TypeInv' /\ ProposedOn(n, p, round, b)
<1>1. p \in Known /\ p \in Block /\ round \in Rounds
  BY TypeFacts, ConfigAssumption, ZenonT(30) DEF TypeInv
<1>2. /\ b \in Block /\ b # SwitchBlock /\ ParentOf(b) = p /\ RoundOf(b) = round
      /\ Number(b) = Number(p) + 1 /\ Number(p) \in Nat
      /\ \A k \in 0 .. Number(p) : AncestorAt(b, k) = AncestorAt(p, k)
  BY <1>1, Children, Numbers
<1>3. /\ Idle(n) /\ b \notin Proposed /\ round > RoundOf(p) /\ Write(n, b, p)
      /\ UNCHANGED << standby, head, canon, updating, snapshots, crashes, env >>
  BY ZenonT(30) DEF Propose, Write
<1>4. PICK v : validators' = With(validators, b, v)
  BY DEF Propose
<1>5. /\ Proposed' = Proposed \cup {b} /\ Known' = Known \cup {b}
      /\ \A c \in Proposed : validators'[c] = validators[c]
      /\ validators' = [c \in Proposed' |-> validators'[c]]
  <2>1. /\ Proposed' = Proposed \cup {b}
        /\ \A c \in Proposed : validators'[c] = validators[c]
        /\ validators' = [c \in Proposed' |-> validators'[c]]
    <3>. DEFINE g == With(validators, b, v)
    <3>1. /\ DOMAIN g = Proposed \cup {b}
          /\ \A c \in Proposed \ {b} : g[c] = validators[c]
          /\ g = [c \in DOMAIN g |-> g[c]]
      BY Zenon DEF With, Proposed
    <3>2. validators' = g
      BY <1>4
    <3>. HIDE DEF g
    <3>. QED BY <1>3, <3>1, <3>2, Zenon DEF Proposed
  <2>. QED BY <2>1 DEF Known
<1>6. \A k \in 0 .. Number(b) : AncestorAt(b, k) \in Known'
  <2>. SUFFICES ASSUME NEW k \in 0 .. Number(b) PROVE AncestorAt(b, k) \in Known'
    OBVIOUS
  <2>1. CASE k = Number(b)
    BY <1>2, <1>5, <2>1, Numbers, Zenon
  <2>2. CASE k # Number(b)
    <3>1. k \in 0 .. Number(p)
      BY <1>2, <2>2
    <3>. QED BY <1>1, <1>2, <1>5, <3>1, Zenon DEF TypeInv
  <2>. QED BY <2>1, <2>2, Zenon
<1>7. /\ NodeInv(n)'
      /\ Target(n) = head[n]
      /\ Target(n)' = IF Number(b) > Number(head[n]) THEN b ELSE head[n]
      /\ \A m \in env.nodes \ {n} : Untouched(m)
      /\ todo' \in [env.nodes -> Seq(Known \cup Branch(b))]
  BY <1>2, <1>3, WriteNode, Zenon
<1>8. todo' \in [env.nodes -> Seq(Known')]
  <2>1. Known \cup Branch(b) = Known'
    BY <1>2, <1>5, <1>6, BranchMembers DEF Branch
  <2>. QED BY <1>7, <2>1, Zenon
<1>9. stored' \in [env.nodes -> SUBSET Known'] /\ states' \in [env.nodes -> SUBSET Known']
  BY <1>3, <1>5 DEF TypeInv, Write
<1>10. \A c \in Known' : \A k \in 0 .. Number(c) : AncestorAt(c, k) \in Known'
  BY <1>5, <1>6, Zenon DEF TypeInv
<1>11. \A c \in Proposed' : RoundOf(c) > RoundOf(ParentOf(c))
  BY <1>2, <1>3, <1>5, Zenon DEF TypeInv
<1>12. Proposed' \subseteq Block \ {SwitchBlock}
  BY <1>2, <1>5, Zenon DEF TypeInv
<1>13. head' \in [env.nodes -> Known'] /\ snapshots' \in [env.nodes -> SUBSET Known']
  BY <1>3, <1>5, Zenon DEF TypeInv
<1>14. TypeInv'
  BY <1>3, <1>5, <1>8, <1>9, <1>10, <1>11, <1>12, <1>13, Zenon DEF TypeInv
<1>15. ProposedOn(n, p, round, b)
  BY <1>1, <1>2, <1>3, <1>5, <1>7, Zenon DEF ProposedOn
<1>. QED BY <1>7, <1>14, <1>15, Zenon
-----------------------------------------------------------------------------
(* Snapshots *)

\* The invariant of snapshots and canonical chains holds in the beginning.
LEMMA SnapshotInit == Init => SnapshotInv
<1>. SUFFICES ASSUME Init PROVE SnapshotInv
  OBVIOUS
<1>1. Proposed = {} /\ Known = {SwitchBlock} /\ SwitchBlock \in Block /\ Number(SwitchBlock) = 0
      /\ AncestorAt(SwitchBlock, 0) = SwitchBlock
  <2>1. SwitchBlock \in Block
    BY DEF Block, SwitchBlock
  <2>2. Proposed = {}
    BY DEF Init, Proposed
  <2>. QED BY <2>1, <2>2, Numbers, Zenon DEF Known
<1>2. TypeInv
  <2>1. validators = [b \in Proposed |-> validators[b]]
    BY <1>1 DEF Init
  <2>2. todo \in [env.nodes -> Seq(Known)]
    BY DEF Init
  <2>3. standby = [n \in env.nodes |-> standby[n]] /\ DOMAIN standby = env.nodes
    BY DEF Init
  <2>4. canon = [n \in env.nodes |-> canon[n]] /\ DOMAIN canon = env.nodes
    BY DEF Init
  <2>5. \A b \in Known : \A k \in 0 .. Number(b) : AncestorAt(b, k) \in Known
    BY <1>1
  <2>6. /\ stored \in [env.nodes -> SUBSET Known] /\ states \in [env.nodes -> SUBSET Known]
        /\ head \in [env.nodes -> Known] /\ updating \in [env.nodes -> BOOLEAN]
        /\ snapshots \in [env.nodes -> SUBSET Known]
        /\ \A n \in env.nodes : SwitchBlock \in snapshots[n]
        /\ crashes \in Nat /\ env \in Environments
    BY <1>1 DEF Init
  <2>. QED BY <1>1, <2>1, <2>2, <2>3, <2>4, <2>5, <2>6, Zenon DEF TypeInv
<1>3. ASSUME NEW n \in env.nodes PROVE NodeInv(n)
  <2>1. /\ head[n] = SwitchBlock /\ todo[n] = << >> /\ Target(n) = SwitchBlock
        /\ DOMAIN canon[n] = {0} /\ canon[n][0] = SwitchBlock /\ snapshots[n] = {SwitchBlock}
    BY DEF Init, Target
  <2>2. TodoInv(todo[n], Target(n))
    BY <2>1 DEF TodoInv
  <2>3. \A k \in 0 .. Number(SwitchBlock) : k = 0
    BY <1>1
  <2>4. ChainInv(todo[n], Target(n), head[n], updating[n], canon[n], snapshots[n])
    BY <1>1, <2>1, <2>3, Zenon DEF ChainInv
  <2>. QED BY <2>2, <2>4, Zenon DEF NodeInv
<1>. QED BY <1>2, <1>3 DEF SnapshotInv

\* Every step keeps it, of any node and with crashes.
LEMMA SnapshotNext == SnapshotInv /\ [Next]_vars => SnapshotInv'
<1>. SUFFICES ASSUME SnapshotInv, [Next]_vars PROVE SnapshotInv'
  OBVIOUS
<1>. USE DEF SnapshotInv
<1>1. CASE UNCHANGED vars
  BY <1>1, ZenonT(30) DEF vars, TypeInv, NodeInv, Target, Known, Proposed
<1>2. ASSUME NEW n \in env.nodes,
             \/ \E p \in states[n], round \in env.rounds, body \in Bodies : Propose(n, p, round, body)
             \/ \E b \in Proposed : Import(n, b)
             \/ WriteHead(n)
             \/ UpdateM1(n)
             \/ Crash(n)
      PROVE  SnapshotInv'
  <2>1. TypeInv' /\ NodeInv(n)' /\ \A m \in env.nodes \ {n} : Untouched(m)
    <3>1. ASSUME NEW p \in states[n], NEW round \in env.rounds, NEW body \in Bodies,
                 Propose(n, p, round, body)
          PROVE  TypeInv' /\ NodeInv(n)' /\ \A m \in env.nodes \ {n} : Untouched(m)
      <4>1. TypeInv' /\ NodeInv(n)' /\ ProposedOn(n, p, round, Child(p, round, body))
        BY <3>1, ProposeNode, Zenon
      <4>. QED BY <4>1, Zenon DEF ProposedOn
    <3>. QED BY <1>2, <3>1, ImportNode, WriteHeadNode, UpdateM1Node, CrashNode, Zenon
  <2>2. env' = env
    BY <1>2, ZenonT(30) DEF Propose, Import, Write, WriteHead, UpdateM1, Crash
  <2>. QED BY <2>1, <2>2, UntouchedNode
<1>3. ASSUME NEW n \in env.nodes, NEW b \in stored[n], GetEpochSwitchInfo(n, b)
      PROVE  SnapshotInv'
  <2>1. env' = env
    BY <1>3 DEF GetEpochSwitchInfo
  <2>. QED BY <1>3, <2>1, ReadNode, UntouchedNode, Zenon
<1>. QED BY <1>1, <1>2, <1>3 DEF Next

\* The canonical numbers up to the head are its ancestors, and their snapshots are stored
\* before the next block is written.
THEOREM SnapshotInvariance == Spec => []SnapshotInv
  BY SnapshotInit, SnapshotNext, PTL DEF Spec

\* UpdateM1 stores the snapshot of every gap block that becomes canonical, block by block
\* in a reorganisation too, and a crash leaves none out below the repaired head.
THEOREM GapBlocksHaveSnapshotsHold == Spec => []GapBlocksHaveSnapshots
<1>1. SnapshotInv => GapBlocksHaveSnapshots
  <2>. SUFFICES ASSUME SnapshotInv, NEW n \in env.nodes, Idle(n),
                       NEW b \in Branch(head[n]), IsGapBlock(b)
                PROVE  b \in snapshots[n]
    BY DEF GapBlocksHaveSnapshots
  <2>1. head[n] \in Block /\ ~updating[n] /\ NodeInv(n)
    BY TypeFacts DEF SnapshotInv, Idle
  <2>2. Number(b) \in 0 .. Number(head[n]) /\ b = AncestorAt(head[n], Number(b)) /\ IsGapNumber(Number(b))
    BY <2>1, BranchMembers, ZenonT(30) DEF IsGapBlock, IsGapNumber
  <2>. QED BY <2>1, <2>2 DEF NodeInv, ChainInv
<1>. QED BY <1>1, SnapshotInvariance, PTL
-----------------------------------------------------------------------------
(* Forks and lists, until a node crashes *)

\* A block is written on a parent the node has: its target grows by at most one.
LEMMA HeightWrite ==
  ASSUME SnapshotInv, NEW n \in env.nodes, HeightInv(n), NEW b \in Block, b # SwitchBlock,
         ParentOf(b) \in states[n], Write(n, b, ParentOf(b)),
         Known \subseteq Known',
         Target(n) = head[n],
         Target(n)' = IF Number(b) > Number(head[n]) THEN b ELSE head[n]
  PROVE  HeightInv(n)' /\ Number(Target(n)') >= Number(Target(n)) /\ Number(Target(n)') >= Number(b)
<1>. DEFINE h == head[n]
<1>1. h \in Known /\ h \in Block /\ Number(h) \in Nat /\ Number(b) \in Nat
  BY TypeFacts, Numbers, ZenonT(30) DEF SnapshotInv
<1>2. Number(b) <= Number(h) + 1
  <2>1. Number(ParentOf(b)) <= Number(h) /\ Number(b) = Number(ParentOf(b)) + 1 /\ Number(ParentOf(b)) \in Nat
    BY Parents, Numbers, Zenon DEF HeightInv
  <2>. QED BY <1>1, <2>1
<1>3. /\ Number(Target(n)') \in Nat /\ Number(Target(n)') >= Number(h)
      /\ Number(Target(n)') >= Number(b) /\ Number(h) >= Number(Target(n)') - 1
  BY <1>1, <1>2
<1>4. stored'[n] = stored[n] \cup {b} /\ states'[n] = states[n] \cup {b} /\ canon'[n] = canon[n]
  BY Zenon DEF Write, SnapshotInv, TypeInv
<1>5. \A c \in stored'[n] \cup states'[n] : Number(c) <= Number(Target(n)')
  <2>1. \A c \in stored[n] \cup states[n] : Number(c) \in Nat /\ Number(c) <= Number(h)
    BY TypeFacts, Numbers, ZenonT(30) DEF SnapshotInv, TypeInv, HeightInv
  <2>. QED BY <1>1, <1>3, <1>4, <2>1
<1>6. DOMAIN canon'[n] \subseteq 0 .. Number(Target(n)')
  <2>1. DOMAIN canon'[n] \subseteq 0 .. Number(h)
    BY <1>4, ZenonT(30) DEF HeightInv
  <2>. QED BY <1>1, <1>3, <2>1
<1>7. ASSUME NEW k \in DOMAIN canon'[n]
      PROVE  /\ h \in Known' /\ Number(h) >= Number(Target(n)') - 1 /\ k <= Number(h)
             /\ canon'[n][k] = AncestorAt(h, k)
  <2>1. k \in 0 .. Number(h)
    BY <1>4, <1>7, ZenonT(30) DEF HeightInv
  <2>2. canon[n][k] = AncestorAt(h, k)
    BY <2>1, Zenon DEF SnapshotInv, NodeInv, ChainInv
  <2>. QED BY <1>1, <1>3, <1>4, <2>1, <2>2
<1>. QED BY <1>3, <1>5, <1>6, <1>7, Zenon DEF HeightInv

\* What a block built on p shares with the blocks proposed before it.
LEMMA ShallowForks ==
  ASSUME SnapshotInv, ForksAreShallow, SomeChainIsHighest, NEW p \in Known, Shallow(p), NEW b \in Block,
         Number(b) = Number(p) + 1, \A k \in 0 .. Number(p) : AncestorAt(b, k) = AncestorAt(p, k)
  PROVE  /\ \A m \in env.nodes : \A k \in Nat :
              k <= Number(Target(m)) - Depth =>
                k \in 0 .. Number(p) /\ AncestorAt(p, k) = AncestorAt(Target(m), k)
         /\ \A c \in Known : \A k \in Nat :
              k <= Number(c) - Depth => AncestorAt(b, k) = AncestorAt(c, k)
<1>0. Depth \in Nat /\ Known \subseteq Block /\ p \in Block /\ Number(p) \in Nat
  BY ConfigAssumption, TypeFacts, Numbers, ZenonT(30) DEF SnapshotInv
<1>1. ASSUME NEW m \in env.nodes, NEW k \in Nat, k <= Number(Target(m)) - Depth
      PROVE  k \in 0 .. Number(p) /\ AncestorAt(p, k) = AncestorAt(Target(m), k)
  <2>1. Target(m) \in Block /\ Number(Target(m)) \in Nat
    BY TypeFacts, Numbers, Zenon DEF SnapshotInv
  <2>2. /\ CommonNumber(p, Target(m)) \in 0 .. Number(p)
        /\ \A j \in 0 .. CommonNumber(p, Target(m)) : AncestorAt(p, j) = AncestorAt(Target(m), j)
    BY <1>0, <2>1, Common, Zenon
  <2>3. Number(Target(m)) - Depth <= CommonNumber(p, Target(m))
    BY Zenon DEF Shallow
  <2>4. k \in 0 .. CommonNumber(p, Target(m))
    BY <1>0, <1>1, <2>1, <2>2, <2>3
  <2>. QED BY <1>0, <2>2, <2>4
<1>2. ASSUME NEW c \in Known, NEW k \in Nat, k <= Number(c) - Depth
      PROVE  AncestorAt(b, k) = AncestorAt(c, k)
  <2>0. c \in Block /\ Number(c) \in Nat
    BY <1>0, Numbers
  <2>1. CASE c = SwitchBlock
    <3>1. k = 0
      BY <1>0, <1>2, <2>0, <2>1, Numbers
    <3>. QED BY <2>0, <3>1, Numbers
  <2>2. CASE c # SwitchBlock
    <3>1. PICK m \in env.nodes : Number(c) <= Number(Target(m))
      BY <2>2, Zenon DEF SomeChainIsHighest, Known
    <3>2. Target(m) \in Known /\ Number(Target(m)) \in Nat
      BY TypeFacts, Numbers, Zenon DEF SnapshotInv
    <3>3. k <= Number(Target(m)) - Depth
      BY <1>0, <1>2, <2>0, <3>1, <3>2
    <3>4. AncestorAt(c, k) = AncestorAt(Target(m), k)
      BY <1>2, <3>2, <3>3 DEF ForksAreShallow
    <3>. QED BY <1>1, <3>3, <3>4, Zenon
  <2>. QED BY <2>1, <2>2
<1>. QED BY <1>1, <1>2, Zenon

\* isEpochSwitchAtRound of the proposer and IsEpochSwitch of the verifier agree.
LEMMA SwitchTestsAgree ==
  ASSUME NEW b \in Block, b # SwitchBlock, RoundOf(b) > RoundOf(ParentOf(b))
  PROVE  IsEpochSwitch(b) <=> IsEpochSwitchAtRound(RoundOf(b), ParentOf(b))
  BY ZenonT(30) DEF IsEpochSwitch, IsEpochSwitchAtRound

\* A block proposed close to every canonical chain keeps forks shallow, and its list is the
\* one of its own branch.
LEMMA AgreePropose ==
  ASSUME SnapshotInv, AgreeInv, crashes = 0, Depth < Gap, NEW n \in env.nodes,
         NEW p \in states[n], NEW round \in env.rounds, NEW body \in Bodies,
         Propose(n, p, round, body)
  PROVE  AgreeInv'
<1>. DEFINE b == Child(p, round, body)
            h == head[n]
            g == GapNumber(Number(b))
<1>. USE DEF SnapshotInv
<1>1. /\ \A m \in env.nodes \ {n} : Untouched(m)
      /\ Target(n) = head[n]
      /\ Target(n)' = IF Number(b) > Number(head[n]) THEN b ELSE head[n]
      /\ p \in Known /\ p \in Block /\ b \in Block /\ b # SwitchBlock /\ ParentOf(b) = p
      /\ RoundOf(b) = round /\ round > RoundOf(p)
      /\ Number(b) = Number(p) + 1 /\ Number(p) \in Nat
      /\ \A k \in 0 .. Number(p) : AncestorAt(b, k) = AncestorAt(p, k)
      /\ Proposed' = Proposed \cup {b} /\ Known' = Known \cup {b}
      /\ \A c \in Proposed : validators'[c] = validators[c]
  <2>1. NodeInv(n) /\ TypeInv
    BY Zenon
  <2>2. b = Child(p, round, body)
    OBVIOUS
  <2>. HIDE DEF SnapshotInv, b
  <2>3. ProposedOn(n, p, round, b)
    BY <2>1, <2>2, ProposeNode, Zenon
  <2>. QED BY <2>3, Zenon DEF ProposedOn
<1>2. ForksAreShallow /\ SomeChainIsHighest /\ ListInv /\ \A m \in env.nodes : HeightInv(m)
  BY Zenon DEF AgreeInv
<1>3. /\ Idle(n) /\ Shallow(p) /\ Write(n, b, p) /\ b \notin Proposed /\ UNCHANGED << standby, env, crashes >>
      /\ IsEpochSwitchAtRound(round, p) => Snapshot(n, Number(p) + 1) # Nil
      /\ validators' = With(validators, b, IF IsEpochSwitchAtRound(round, p) THEN Snapshot(n, Number(p) + 1) ELSE Nil)
  BY ZenonT(30) DEF Propose, Write
<1>. HIDE DEF b
<1>4. /\ \A m \in env.nodes : \A k \in Nat :
           k <= Number(Target(m)) - Depth =>
             k \in 0 .. Number(p) /\ AncestorAt(p, k) = AncestorAt(Target(m), k)
      /\ \A c \in Known : \A k \in Nat :
           k <= Number(c) - Depth => AncestorAt(b, k) = AncestorAt(c, k)
  <2>. HIDE DEF SnapshotInv
  <2>. QED BY <1>1, <1>2, <1>3, ShallowForks, ZenonT(30)
<1>5. ForksAreShallow'
  <2>1. ASSUME NEW c \in Known', NEW d \in Known', NEW k \in Nat,
               k <= Number(c) - Depth, k <= Number(d) - Depth
        PROVE  AncestorAt(c, k) = AncestorAt(d, k)
    <3>1. CASE c \in Known /\ d \in Known
      BY <1>2, <2>1, <3>1, Zenon DEF ForksAreShallow
    <3>2. CASE c = b /\ d \in Known
      BY <1>4, <2>1, <3>2, Zenon
    <3>3. CASE c \in Known /\ d = b
      BY <1>4, <2>1, <3>3, ZenonT(30)
    <3>. QED BY <1>1, <3>1, <3>2, <3>3, Zenon
  <2>. QED BY <2>1, Zenon DEF ForksAreShallow
<1>6. HeightInv(n)' /\ Number(Target(n)') >= Number(Target(n)) /\ Number(Target(n)') >= Number(b)
  <2>1. Known \subseteq Known' /\ HeightInv(n)
    BY <1>1, <1>2, Zenon
  <2>. HIDE DEF SnapshotInv
  <2>. QED BY <1>1, <1>3, <2>1, HeightWrite, Zenon
<1>7. \A m \in env.nodes \ {n} : Target(m)' = Target(m)
  BY <1>1, UntouchedNode, Zenon
<1>8. \A m \in env.nodes : Number(Target(m)) \in Nat /\ Number(Target(m)') \in Nat
                           /\ Number(Target(m)') >= Number(Target(m))
  <2>1. \A m \in env.nodes : Target(m) \in Block
    BY TypeFacts
  <2>2. Target(n)' \in Block
    BY <1>1, <2>1, ZenonT(30)
  <2>. QED BY <1>6, <1>7, <2>1, <2>2, Numbers
<1>9. SomeChainIsHighest'
  <2>1. ASSUME NEW c \in Proposed' PROVE \E m \in env.nodes : Number(c) <= Number(Target(m)')
    <3>1. CASE c = b
      <4>1. Number(b) \in Nat
        BY <1>1, Numbers, Zenon
      <4>. QED BY <1>6, <1>8, <3>1, <4>1, Zenon
    <3>2. CASE c \in Proposed
      <4>1. PICK m \in env.nodes : Number(c) <= Number(Target(m))
        BY <1>2, <3>2, Zenon DEF SomeChainIsHighest
      <4>2. Number(c) \in Nat
        BY <3>2, Numbers DEF TypeInv
      <4>. QED BY <1>8, <4>1, <4>2
    <3>. QED BY <1>1, <3>1, <3>2
  <2>. QED BY <1>3, <2>1, ZenonT(30) DEF SomeChainIsHighest
<1>10. \A m \in env.nodes : HeightInv(m)'
  <2>1. ASSUME NEW m \in env.nodes \ {n} PROVE HeightInv(m)'
    <3>1. /\ canon'[m] = canon[m] /\ stored'[m] = stored[m] /\ states'[m] = states[m]
          /\ Target(m)' = Target(m) /\ Known \subseteq Known'
      BY <1>1, <1>3, <1>7, Zenon DEF Untouched, Write, TypeInv
    <3>2. HeightInv(m)
      BY <1>2, Zenon
    <3>. QED BY <3>1, <3>2, ZenonT(30) DEF HeightInv
  <2>. QED BY <1>6, <2>1, ZenonT(30)
<1>11. g \in Nat /\ g \in 0 .. Number(h) /\ AncestorAt(h, g) = AncestorAt(b, g)
  <2>0. h \in Block /\ HeightInv(n) /\ p \in Known /\ Target(n) = h
    BY <1>1, <1>2, TypeFacts, ZenonT(30)
  <2>. HIDE DEF SnapshotInv
  <2>1. /\ Number(p) <= Number(h) /\ Number(h) \in Nat /\ h \in Block
    BY <2>0, Numbers, ZenonT(30) DEF HeightInv
  <2>2. /\ b \in Block /\ Number(b) \in Nat /\ Gap \in Nat /\ Depth \in Nat
        /\ Number(b) = Number(p) + 1 /\ Number(p) \in Nat
    <3>1. b \in Block /\ Number(b) = Number(p) + 1 /\ Number(p) \in Nat
      BY <1>1, Zenon
    <3>. QED BY <3>1, Parameters
  <2>3. g \in 0 .. Number(b) /\ (g = 0 \/ g <= Number(b) - Gap)
    BY <2>2, GapNumbers, Zenon
  <2>. HIDE DEF g, h
  <2>4. CASE g = 0
    <3>1. AncestorAt(h, 0) = AncestorAt(b, 0)
      BY <2>1, <2>2, Numbers, Zenon
    <3>2. 0 \in 0 .. Number(h)
      BY <2>1
    <3>. QED BY <2>4, <3>1, <3>2
  <2>5. CASE g <= Number(b) - Gap
    <3>1. g \in Nat /\ g <= Number(h) - Depth /\ g \in 0 .. Number(h)
      BY <2>1, <2>2, <2>3, <2>5
    <3>2. g \in 0 .. Number(p) /\ AncestorAt(p, g) = AncestorAt(h, g)
      BY <1>4, <2>0, <3>1, Zenon
    <3>. QED BY <1>1, <3>1, <3>2, Zenon
  <2>. QED BY <2>3, <2>4, <2>5, Zenon
<1>12. validators'[b] = IF IsEpochSwitch(b) THEN GapOf(b) ELSE Nil
  <2>1. IsEpochSwitch(b) <=> IsEpochSwitchAtRound(round, p)
    BY <1>1, SwitchTestsAgree
  <2>2. validators'[b] = IF IsEpochSwitchAtRound(round, p) THEN Snapshot(n, Number(p) + 1) ELSE Nil
    <3>1. ASSUME NEW v, validators' = With(validators, b, v) PROVE validators'[b] = v
      BY <3>1, ZenonT(30) DEF With
    <3>. QED BY <1>3, <3>1, Zenon
  <2>3. canon[n][g] = AncestorAt(b, g)
    <3>1. NodeInv(n)
      BY Zenon
    <3>. HIDE DEF SnapshotInv, g
    <3>. QED BY <1>11, <3>1 DEF NodeInv, ChainInv
  <2>4. Snapshot(n, Number(p) + 1) # Nil => Snapshot(n, Number(p) + 1) = canon[n][g]
    <3>1. Number(p) + 1 = Number(b)
      BY <1>1, ZenonT(30)
    <3>. QED BY <3>1 DEF Snapshot
  <2>. QED BY <1>3, <2>1, <2>2, <2>3, <2>4, ZenonT(30) DEF GapOf
<1>13. ListInv'
  <2>1. \A c \in Proposed' : validators'[c] = IF IsEpochSwitch(c) THEN GapOf(c) ELSE Nil
    <3>1. ASSUME NEW c \in Proposed PROVE validators'[c] = IF IsEpochSwitch(c) THEN GapOf(c) ELSE Nil
      BY <1>1, <1>2, ZenonT(30) DEF ListInv
    <3>. QED BY <1>1, <1>12, <3>1, Zenon
  <2>2. \A m \in env.nodes : \A s \in DOMAIN standby[m] : standby[m][s] = GapOf(s)
    BY <1>2 DEF ListInv
  <2>. QED BY <1>3, <2>1, <2>2, Zenon DEF ListInv
<1>. QED BY <1>3, <1>5, <1>9, <1>10, <1>13 DEF AgreeInv

\* Steps that propose nothing and leave the targets and caches of all other nodes alone.
LEMMA AgreeKept ==
  ASSUME SnapshotInv, AgreeInv, crashes = 0, NEW n \in env.nodes,
         UNCHANGED << validators, env >>,
         Number(Target(n)') >= Number(Target(n)), Number(Target(n)') \in Nat, HeightInv(n)',
         \A m \in env.nodes \ {n} : /\ Untouched(m) /\ stored'[m] = stored[m]
                                    /\ states'[m] = states[m] /\ standby'[m] = standby[m],
         \A s \in DOMAIN standby'[n] : standby'[n][s] = GapOf(s)
  PROVE  AgreeInv'
<1>1. ForksAreShallow /\ SomeChainIsHighest /\ ListInv /\ \A m \in env.nodes : HeightInv(m)
  BY DEF AgreeInv
<1>2. Proposed' = Proposed /\ Known' = Known
  BY Zenon DEF Proposed, Known
<1>3. ForksAreShallow'
  BY <1>1, <1>2, Zenon DEF ForksAreShallow
<1>4. \A m \in env.nodes \ {n} : Target(m)' = Target(m)
  BY UntouchedNode, Zenon
<1>5. SomeChainIsHighest'
  <2>1. ASSUME NEW c \in Proposed PROVE \E m \in env.nodes : Number(c) <= Number(Target(m)')
    <3>1. PICK m \in env.nodes : Number(c) <= Number(Target(m))
      BY <1>1 DEF SomeChainIsHighest
    <3>2. Number(c) \in Nat /\ Number(Target(m)) \in Nat
      BY TypeFacts, Numbers, Zenon DEF SnapshotInv, Known
    <3>. QED BY <1>4, <3>1, <3>2
  <2>. QED BY <1>2, <2>1, Zenon DEF SomeChainIsHighest
<1>6. ASSUME NEW m \in env.nodes \ {n} PROVE HeightInv(m)'
  <2>1. /\ Target(m)' = Target(m) /\ stored'[m] = stored[m] /\ states'[m] = states[m]
        /\ canon'[m] = canon[m]
    BY <1>4, ZenonT(30) DEF Untouched
  <2>2. HeightInv(m)
    BY <1>1
  <2>. QED BY <1>2, <2>1, <2>2, Zenon DEF HeightInv
<1>7. ListInv'
  <2>1. \A m \in env.nodes : \A s \in DOMAIN standby'[m] : standby'[m][s] = GapOf(s)
    BY <1>1, ZenonT(30) DEF ListInv
  <2>. QED BY <1>1, <1>2, <2>1, Zenon DEF ListInv
<1>. QED BY <1>3, <1>5, <1>6, <1>7, Zenon DEF AgreeInv

\* An import makes the target of the node no lower.
LEMMA AgreeImport ==
  ASSUME SnapshotInv, AgreeInv, crashes = 0, NEW n \in env.nodes, NEW b \in Proposed, Import(n, b)
  PROVE  AgreeInv'
<1>1. /\ \A m \in env.nodes \ {n} : Untouched(m)
      /\ Target(n) = head[n]
      /\ Target(n)' = IF Number(b) > Number(head[n]) THEN b ELSE head[n]
  BY ImportNode DEF SnapshotInv
<1>2. /\ b \in Block /\ b # SwitchBlock /\ ParentOf(b) \in states[n] /\ Write(n, b, ParentOf(b))
      /\ UNCHANGED << validators, standby, env >>
  BY DEF Import, Write, SnapshotInv, TypeInv
<1>3. HeightInv(n) /\ Known \subseteq Known'
  BY <1>2, ZenonT(30) DEF AgreeInv, Known, Proposed
<1>4. HeightInv(n)' /\ Number(Target(n)') >= Number(Target(n))
  BY <1>1, <1>2, <1>3, HeightWrite, Zenon
<1>5. Number(Target(n)') \in Nat
  <2>1. Target(n)' \in Block
    BY <1>1, <1>2, TypeFacts, Zenon DEF SnapshotInv
  <2>. QED BY <2>1, Numbers, ZenonT(30)
<1>6. \A m \in env.nodes \ {n} : /\ Untouched(m) /\ stored'[m] = stored[m]
                                 /\ states'[m] = states[m] /\ standby'[m] = standby[m]
  BY <1>1, <1>2, Zenon DEF Write, SnapshotInv, TypeInv
<1>7. \A s \in DOMAIN standby'[n] : standby'[n][s] = GapOf(s)
  BY <1>2, Zenon DEF AgreeInv, ListInv
<1>8. UNCHANGED << validators, env >>
  BY <1>2
<1>. QED BY <1>4, <1>5, <1>6, <1>7, <1>8, AgreeKept, Zenon

\* A head write makes a number of the target's branch canonical.
LEMMA AgreeWriteHead ==
  ASSUME SnapshotInv, AgreeInv, crashes = 0, NEW n \in env.nodes, WriteHead(n)
  PROVE  AgreeInv'
<1>. DEFINE b == todo[n][1]
            T == Target(n)
<1>1. /\ \A m \in env.nodes \ {n} : Untouched(m)
      /\ Target(n)' = T /\ b \in Branch(T)
      /\ canon'[n] = With(canon[n], Number(b), b)
  BY WriteHeadNode DEF SnapshotInv
<1>2. T \in Known /\ T \in Block /\ Number(T) \in Nat
  BY TypeFacts, Numbers, Zenon DEF SnapshotInv
<1>3. Number(b) \in 0 .. Number(T) /\ b = AncestorAt(T, Number(b))
  BY <1>1, <1>2, BranchMembers, Zenon
<1>4. UNCHANGED << validators, stored, states, standby, crashes, env >>
  BY Zenon DEF WriteHead
<1>5. HeightInv(n)'
  <2>1. HeightInv(n) /\ Known' = Known
    BY <1>4 DEF AgreeInv, Known, Proposed
  <2>2. /\ DOMAIN canon'[n] = DOMAIN canon[n] \cup {Number(b)}
        /\ canon'[n][Number(b)] = b
        /\ \A k \in DOMAIN canon[n] \ {Number(b)} : canon'[n][k] = canon[n][k]
    <3>. DEFINE k0 == Number(b)
    <3>. HIDE DEF b, k0
    <3>1. canon'[n] = With(canon[n], k0, b)
      BY <1>1 DEF k0
    <3>2. /\ DOMAIN canon'[n] = DOMAIN canon[n] \cup {k0}
          /\ canon'[n][k0] = b
          /\ \A k \in DOMAIN canon[n] \ {k0} : canon'[n][k] = canon[n][k]
      BY <3>1, Zenon DEF With
    <3>. QED BY <3>2, Zenon DEF k0
  <2>. HIDE DEF b, T
  <2>3. ASSUME NEW k \in DOMAIN canon'[n]
        PROVE  \E a \in Known : /\ Number(a) >= Number(T) - 1 /\ k <= Number(a)
                                /\ canon'[n][k] = AncestorAt(a, k)
    <3>1. CASE k = Number(b)
      <4>1. Number(T) >= Number(T) - 1 /\ k <= Number(T) /\ canon'[n][k] = AncestorAt(T, k)
        BY <1>2, <1>3, <2>2, <3>1
      <4>. QED BY <1>2, <4>1, Zenon
    <3>2. CASE k # Number(b)
      BY <2>1, <2>2, <3>2 DEF HeightInv, T
    <3>. QED BY <3>1, <3>2, Zenon
  <2>4. DOMAIN canon'[n] \subseteq 0 .. Number(T)
    BY <1>3, <2>1, <2>2, ZenonT(30) DEF HeightInv, T
  <2>5. \A c \in stored'[n] \cup states'[n] : Number(c) <= Number(T)
    BY <1>4, <2>1 DEF HeightInv, T
  <2>. QED BY <1>1, <2>1, <2>3, <2>4, <2>5, Zenon DEF HeightInv
<1>6. \A s \in DOMAIN standby'[n] : standby'[n][s] = GapOf(s)
  BY <1>4, Zenon DEF AgreeInv, ListInv
<1>7. \A m \in env.nodes \ {n} : /\ Untouched(m) /\ stored'[m] = stored[m]
                                 /\ states'[m] = states[m] /\ standby'[m] = standby[m]
  BY <1>1, <1>4, Zenon
<1>8. Number(Target(n)') >= Number(Target(n)) /\ Number(Target(n)') \in Nat
  BY <1>1, <1>2
<1>9. UNCHANGED << validators, env >>
  BY <1>4, ZenonT(30)
<1>. QED BY <1>5, <1>6, <1>7, <1>8, <1>9, AgreeKept, ZenonT(30)

\* UpdateM1 touches no chain and no list.
LEMMA AgreeUpdateM1 ==
  ASSUME SnapshotInv, AgreeInv, crashes = 0, NEW n \in env.nodes, UpdateM1(n)
  PROVE  AgreeInv'
<1>1. Target(n)' = Target(n) /\ \A m \in env.nodes \ {n} : Untouched(m)
  BY UpdateM1Node DEF SnapshotInv
<1>2. UNCHANGED << validators, stored, states, canon, standby, env >>
  BY Zenon DEF UpdateM1
<1>3. HeightInv(n)'
  BY <1>1, <1>2, Zenon DEF AgreeInv, HeightInv, Known, Proposed
<1>4. Number(Target(n)) \in Nat
  BY TypeFacts, Numbers, Zenon DEF SnapshotInv
<1>5. \A s \in DOMAIN standby'[n] : standby'[n][s] = GapOf(s)
  BY <1>2, Zenon DEF AgreeInv, ListInv
<1>6. \A m \in env.nodes \ {n} : /\ Untouched(m) /\ stored'[m] = stored[m]
                                 /\ states'[m] = states[m] /\ standby'[m] = standby[m]
  BY <1>1, <1>2, Zenon
<1>7. Number(Target(n)') >= Number(Target(n)) /\ Number(Target(n)') \in Nat
  BY <1>1, <1>4
<1>8. UNCHANGED << validators, env >>
  BY <1>2, Zenon
<1>. QED BY <1>3, <1>5, <1>6, <1>7, <1>8, AgreeKept, Zenon
\* The snapshot a node finds for a block no higher than its target is the one of the gap
\* block in the branch of that block.
LEMMA SnapshotRight ==
  ASSUME SnapshotInv, AgreeInv, crashes = 0, Depth < Gap, NEW n \in env.nodes,
         NEW s \in Known, Number(s) <= Number(Target(n)), Snapshot(n, Number(s)) # Nil
  PROVE  Snapshot(n, Number(s)) = GapOf(s)
<1>. DEFINE g == GapNumber(Number(s))
<1>1. HeightInv(n) /\ ForksAreShallow
  BY Zenon DEF AgreeInv
<1>2. g \in DOMAIN canon[n] /\ Snapshot(n, Number(s)) = canon[n][g]
  BY DEF Snapshot
<1>3. PICK a \in Known : /\ Number(a) >= Number(Target(n)) - 1 /\ g <= Number(a)
                         /\ canon[n][g] = AncestorAt(a, g)
  BY <1>1, <1>2, Zenon DEF HeightInv
<1>4. /\ s \in Block /\ a \in Block /\ Number(s) \in Nat /\ Number(a) \in Nat
      /\ Number(Target(n)) \in Nat
  BY TypeFacts, Numbers, Zenon DEF SnapshotInv, Known, TypeInv
<1>5. g \in Nat /\ (g = 0 \/ g <= Number(s) - Gap)
  <2>1. Number(s) \in Nat
    BY <1>4
  <2>2. g \in 0 .. Number(s) /\ (g = 0 \/ (g <= Number(s) - Gap /\ IsGapNumber(g)))
    BY <2>1, GapNumbers, Zenon
  <2>. HIDE DEF g
  <2>. QED BY <2>1, <2>2
<1>6. GapOf(s) = AncestorAt(s, g)
  BY DEF GapOf
<1>. HIDE DEF g
<1>7. CASE g = 0
  BY <1>2, <1>3, <1>4, <1>6, <1>7, Numbers, Zenon
<1>8. CASE g <= Number(s) - Gap
  <2>1. Depth \in Nat /\ Gap \in Nat
    BY ConfigAssumption
  <2>2. \A t, u, v \in Nat : t >= v - 1 /\ u <= v /\ g <= u - Gap => g <= u - Depth /\ g <= t - Depth
    BY <1>5, <2>1
  <2>3. g <= Number(s) - Depth /\ g <= Number(a) - Depth
    BY <1>3, <1>4, <1>8, <2>2, Zenon
  <2>. QED BY <1>1, <1>2, <1>3, <1>5, <1>6, <2>3, Zenon DEF ForksAreShallow
<1>. QED BY <1>5, <1>7, <1>8, Zenon

\* The last epoch switch block of a branch is a block of the branch.
LEMMA SwitchBlocks ==
  ASSUME NEW b \in Block
  PROVE  SwitchBlockOf(b) \in Branch(b)
<1>. DEFINE S == {k \in 0 .. Number(b) : IsEpochSwitch(AncestorAt(b, k))}
<1>1. Number(b) \in Nat /\ AncestorAt(b, 0) = SwitchBlock
  BY Numbers
<1>2. S \in SUBSET (0 .. Number(b)) /\ 0 \in S
  BY <1>1 DEF IsEpochSwitch
<1>3. SwitchBlockOf(b) = AncestorAt(b, Largest(S))
  BY DEF SwitchBlockOf
<1>4. Largest(S) \in S
  <2>. HIDE DEF S
  <2>. QED BY <1>1, <1>2, LargestOf, Zenon
<1>5. Largest(S) \in 0 .. Number(b)
  BY <1>2, <1>4
<1>. HIDE DEF S
<1>. QED BY <1>3, <1>5, BranchMembers

\* What getEpochSwitchInfo caches comes from the branch of the switch block.
LEMMA AgreeRead ==
  ASSUME SnapshotInv, AgreeInv, crashes = 0, Depth < Gap, NEW n \in env.nodes,
         NEW b \in stored[n], GetEpochSwitchInfo(n, b)
  PROVE  AgreeInv'
<1>. DEFINE s == SwitchBlockOf(b)
            v == Snapshot(n, Number(s))
<1>1. /\ v # Nil /\ standby' = [standby EXCEPT ![n] = With(@, s, v)]
      /\ UNCHANGED << validators, stored, states, head, canon, todo, updating, snapshots, crashes, env >>
  BY Zenon DEF GetEpochSwitchInfo
<1>2. b \in Known /\ b \in Block
  <2>1. b \in Known
    BY DEF SnapshotInv, TypeInv
  <2>. QED BY <2>1, TypeFacts, Zenon DEF SnapshotInv
<1>3. HeightInv(n)
  BY Zenon DEF AgreeInv
<1>4. /\ Number(b) <= Number(Target(n)) /\ Number(b) \in Nat
      /\ Number(Target(n)) \in Nat
  <2>1. Number(b) <= Number(Target(n))
    BY <1>3 DEF HeightInv
  <2>2. Target(n) \in Block
    BY TypeFacts, Zenon DEF SnapshotInv
  <2>. QED BY <1>2, <2>1, <2>2, Numbers, ZenonT(30)
<1>5. s \in Known /\ Number(s) \in 0 .. Number(b)
  <2>1. s \in Branch(b)
    BY <1>2, SwitchBlocks
  <2>2. Number(s) \in 0 .. Number(b) /\ s = AncestorAt(b, Number(s))
    BY <1>2, <2>1, BranchMembers, ZenonT(30)
  <2>. QED BY <1>2, <2>2, Zenon DEF SnapshotInv, TypeInv
<1>. HIDE DEF s
<1>6. v = GapOf(s)
  <2>1. Number(s) <= Number(Target(n))
    BY <1>4, <1>5
  <2>. QED BY <1>1, <1>5, <2>1, SnapshotRight, Zenon
<1>. HIDE DEF v
<1>7. standby'[n] = With(standby[n], s, v) /\ \A m \in env.nodes \ {n} : standby'[m] = standby[m]
  BY <1>1, Zenon DEF SnapshotInv, TypeInv
<1>8. \A x \in DOMAIN standby'[n] : standby'[n][x] = GapOf(x)
  <2>1. \A x \in DOMAIN standby[n] : standby[n][x] = GapOf(x)
    BY DEF AgreeInv, ListInv
  <2>2. /\ DOMAIN standby'[n] = DOMAIN standby[n] \cup {s}
        /\ standby'[n][s] = v
        /\ \A x \in DOMAIN standby[n] \ {s} : standby'[n][x] = standby[n][x]
    BY <1>7, Zenon DEF With
  <2>. QED BY <1>6, <2>1, <2>2, Zenon
<1>9. Target(n)' = Target(n)
  BY <1>1, ZenonT(30) DEF Target
<1>10. HeightInv(n)'
  BY <1>1, <1>3, <1>9, Zenon DEF HeightInv, Known, Proposed
<1>11. \A m \in env.nodes \ {n} : /\ Untouched(m) /\ stored'[m] = stored[m]
                                  /\ states'[m] = states[m] /\ standby'[m] = standby[m]
  BY <1>1, <1>7, Zenon DEF Untouched
<1>12. Number(Target(n)') >= Number(Target(n)) /\ Number(Target(n)') \in Nat
  BY <1>4, <1>9
<1>13. UNCHANGED << validators, env >>
  BY <1>1
<1>. QED BY <1>8, <1>10, <1>11, <1>12, <1>13, AgreeKept, Zenon

\* The invariant of forks and lists holds in the beginning.
LEMMA AgreeInit ==
  ASSUME Init
  PROVE  AgreeInv
<1>1. Proposed = {} /\ Known = {SwitchBlock}
  BY DEF Init, Proposed, Known
<1>2. SwitchBlock \in Block /\ Number(SwitchBlock) = 0
  BY DEF Block, SwitchBlock, Number
<1>3. ForksAreShallow /\ SomeChainIsHighest
  BY <1>1, Zenon DEF ForksAreShallow, SomeChainIsHighest
<1>4. ASSUME NEW n \in env.nodes PROVE HeightInv(n)
  <2>1. /\ stored[n] = {SwitchBlock} /\ states[n] = {SwitchBlock} /\ Target(n) = SwitchBlock
        /\ canon[n] = [k \in {0} |-> SwitchBlock]
    BY Zenon DEF Init, Target
  <2>2. DOMAIN canon[n] = {0} /\ canon[n][0] = SwitchBlock
    BY <2>1
  <2>3. AncestorAt(SwitchBlock, 0) = SwitchBlock
    BY <1>2, Numbers
  <2>. QED BY <1>1, <1>2, <2>1, <2>2, <2>3 DEF HeightInv
<1>5. ListInv
  <2>1. \A n \in env.nodes : DOMAIN standby[n] = {}
    BY DEF Init
  <2>. QED BY <1>1, <2>1, Zenon DEF ListInv
<1>. QED BY <1>3, <1>4, <1>5, Zenon DEF AgreeInv

\* Every step keeps it when forks are shallower than the gap.
LEMMA AgreeNext ==
  ASSUME Depth < Gap, SnapshotInv, SnapshotInv', AgreeInv, [Next]_vars
  PROVE  AgreeInv'
<1>0. CASE UNCHANGED vars
  BY <1>0, ZenonT(30) DEF vars, AgreeInv, ForksAreShallow, SomeChainIsHighest, HeightInv, ListInv, Known, Proposed,
              Target
<1>1. CASE Next /\ crashes # 0
  <2>1. crashes' = crashes \/ crashes' = crashes + 1
    <3>1. \A n, b, p : Write(n, b, p) => crashes' = crashes
      BY DEF Write
    <3>2. \A n, p, round, body : Propose(n, p, round, body) => crashes' = crashes
      BY <3>1, ZenonT(30) DEF Propose
    <3>3. \A n, b : Import(n, b) => crashes' = crashes
      BY <3>1, Zenon DEF Import
    <3>4. \A n : /\ WriteHead(n) => crashes' = crashes
                 /\ UpdateM1(n) => crashes' = crashes
                 /\ Crash(n) => crashes' = crashes + 1
                 /\ \A b : GetEpochSwitchInfo(n, b) => crashes' = crashes
      BY DEF WriteHead, UpdateM1, Crash, GetEpochSwitchInfo
    <3>. QED BY <1>1, <3>2, <3>3, <3>4, Zenon DEF Next
  <2>2. crashes \in Nat
    BY Zenon DEF SnapshotInv, TypeInv
  <2>. QED BY <1>1, <2>1, <2>2 DEF AgreeInv
<1>2. CASE Next /\ crashes = 0
  <2>1. PICK n \in env.nodes :
          \/ \E p \in states[n], round \in env.rounds, body \in Bodies : Propose(n, p, round, body)
          \/ \E b \in Proposed : Import(n, b)
          \/ WriteHead(n)
          \/ UpdateM1(n)
          \/ \E b \in stored[n] : GetEpochSwitchInfo(n, b)
          \/ Crash(n)
    BY <1>2, Zenon DEF Next
  <2>2. ASSUME NEW p \in states[n], NEW round \in env.rounds, NEW body \in Bodies,
               Propose(n, p, round, body)
        PROVE  AgreeInv'
    BY <1>2, <2>2, AgreePropose, Zenon
  <2>3. ASSUME NEW b \in Proposed, Import(n, b) PROVE AgreeInv'
    BY <1>2, <2>3, AgreeImport, Zenon
  <2>4. CASE WriteHead(n)
    BY <1>2, <2>4, AgreeWriteHead, Zenon
  <2>5. CASE UpdateM1(n)
    BY <1>2, <2>5, AgreeUpdateM1, Zenon
  <2>6. ASSUME NEW b \in stored[n], GetEpochSwitchInfo(n, b) PROVE AgreeInv'
    BY <1>2, <2>6, AgreeRead
  <2>7. CASE Crash(n)
    <3>1. crashes' # 0
      BY <1>2, <2>7 DEF Crash
    <3>. QED BY <3>1, Zenon DEF AgreeInv
  <2>. QED BY <2>1, <2>2, <2>3, <2>4, <2>5, <2>6, <2>7, ZenonT(30)
<1>. QED BY <1>0, <1>1, <1>2, Zenon

\* As long as no node crashed, two proposed blocks share all but the last Depth blocks of
\* the shorter branch, a canonical number names a block of a branch that reaches the target,
\* and every list in a header and every cached one come from the gap block in the branch of
\* its own block: what Prepare, verifyHeader and getEpochSwitchInfo read at a number is what
\* the branch has there.
THEOREM AgreeInvariance ==
  ASSUME Depth < Gap
  PROVE  Spec => []AgreeInv
<1>1. Init => AgreeInv
  BY AgreeInit
<1>2. SnapshotInv /\ SnapshotInv' /\ AgreeInv /\ [Next]_vars => AgreeInv'
  BY AgreeNext
<1>. QED BY <1>1, <1>2, SnapshotInvariance, PTL DEF Spec

\* No node refuses the block of another for its masternode list: whatever branch its own
\* canonical chain is on when verifyHeader asks getSnapshot, it finds the gap block of the
\* branch of the block, with its snapshot.
THEOREM NoneRefusedHolds ==
  ASSUME Depth < Gap
  PROVE  Spec => []NoneRefused
<1>1. ASSUME SnapshotInv, AgreeInv PROVE NoneRefused
  <2>. SUFFICES ASSUME crashes = 0, NEW n \in env.nodes, NEW b \in Proposed,
                       Idle(n), ParentOf(b) \in states[n]
                PROVE  Verified(n, b)
    BY DEF NoneRefused
  <2>1. HeightInv(n) /\ ListInv
    BY <1>1 DEF AgreeInv
  <2>2. Target(n) = head[n] /\ ~updating[n]
    BY Zenon DEF Idle, Target
  <2>3. CASE ~IsEpochSwitch(b)
    BY <2>1, <2>3, Zenon DEF ListInv, Verified
  <2>4. CASE IsEpochSwitch(b)
    <3>. DEFINE g == GapNumber(Number(b))
                h == head[n]
    <3>1. b \in Known /\ b \in Block /\ b # SwitchBlock /\ h \in Known /\ h \in Block
      BY <1>1, <2>2, TypeFacts, Zenon DEF SnapshotInv, TypeInv, Known
    <3>2. Number(b) = Number(ParentOf(b)) + 1 /\ Number(ParentOf(b)) \in Nat /\ Number(h) \in Nat
      BY <3>1, Parents, Numbers, Zenon
    <3>3. Number(ParentOf(b)) <= Number(h)
      BY <2>1, <2>2, Zenon DEF HeightInv
    <3>4. g \in Nat /\ (g = 0 \/ (g <= Number(b) - Gap /\ IsGapNumber(g)))
      BY <3>2, GapNumbers
    <3>. HIDE DEF g, h
    <3>5. g \in 0 .. Number(h)
      BY <3>2, <3>3, <3>4, Parameters
    <3>6. g \in DOMAIN canon[n] /\ canon[n][g] = AncestorAt(h, g)
          /\ (IsGapNumber(g) => AncestorAt(h, g) \in snapshots[n])
      BY <1>1, <2>2, <3>5, Zenon DEF SnapshotInv, NodeInv, ChainInv, h
    <3>7. AncestorAt(h, g) \in snapshots[n]
      <4>1. CASE g = 0
        BY <1>1, <3>1, <4>1, Numbers, Zenon DEF SnapshotInv, TypeInv
      <4>. QED BY <3>4, <3>6, <4>1, Zenon
    <3>8. Snapshot(n, Number(b)) = AncestorAt(h, g)
      BY <3>6, <3>7, ZenonT(30) DEF Snapshot, g
    <3>9. AncestorAt(h, g) # Nil
      BY <3>1, <3>5, AncestorProperties, NilAssumption, ZenonT(30)
    <3>10. AncestorAt(h, g) = GapOf(b)
      <4>1. CASE g = 0
        BY <3>1, <4>1, Numbers, ZenonT(30) DEF GapOf, g
      <4>2. CASE g <= Number(b) - Gap
        <5>0. Depth \in Nat /\ Gap \in Nat
          BY Parameters, Zenon
        <5>1. g <= Number(b) - Depth /\ g <= Number(h) - Depth
          BY <3>2, <3>3, <3>4, <4>2, <5>0
        <5>2. AncestorAt(h, g) = AncestorAt(b, g)
          BY <1>1, <3>1, <3>4, <5>1, ZenonT(30) DEF AgreeInv, ForksAreShallow
        <5>. QED BY <5>2 DEF GapOf, g
      <4>. QED BY <3>4, <4>1, <4>2
    <3>11. validators[b] = GapOf(b)
      BY <2>1, <2>4 DEF ListInv
    <3>. QED BY <2>4, <3>8, <3>9, <3>10, <3>11, ZenonT(30) DEF Verified
  <2>. QED BY <2>3, <2>4, Zenon
<1>. QED BY <1>1, SnapshotInvariance, AgreeInvariance, PTL

\* A cached epoch switch info stays right: its standby nodes come from the gap block in the
\* branch of the switch block, whatever was canonical when getEpochSwitchInfo computed it.
THEOREM CachedInfoRightHolds ==
  ASSUME Depth < Gap
  PROVE  Spec => []CachedInfoRight
<1>1. AgreeInv => CachedInfoRight
  BY DEF AgreeInv, ListInv, CachedInfoRight
<1>. QED BY <1>1, AgreeInvariance, PTL
=============================================================================
