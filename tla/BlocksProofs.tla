---------------------------- MODULE BlocksProofs ----------------------------
(***************************************************************************)
(* Facts about the block tree that the safety proof cites: ancestors are    *)
(* blocks, extension is a prefix order, and rounds are natural numbers.     *)
(***************************************************************************)
EXTENDS Blocks, TLAPS

\* What is taken out of a sequence is one of its elements.
LEMMA SequenceElement ==
  ASSUME NEW S, NEW s \in Seq(S), NEW i \in 1 .. Len(s)
  PROVE  s[i] \in S
OBVIOUS

\* Sequences of one length that agree everywhere are the same.
LEMMA SequencesEqual ==
  ASSUME NEW S, NEW s \in Seq(S), NEW t \in Seq(S), Len(s) = Len(t),
         \A i \in 1 .. Len(s) : s[i] = t[i]
  PROVE  s = t
OBVIOUS

\* The ancestor of a block at a height is a block of that height that agrees
\* with it up to there, as the headers reached by GetHeaderByHash do.
LEMMA AncestorProperties ==
  ASSUME NEW b \in Block, NEW n \in 0..Number(b)
  PROVE  /\ AncestorAt(b, n) \in Block
         /\ Number(AncestorAt(b, n)) = n
         /\ \A i \in 1..n : AncestorAt(b, n)[i] = b[i]
  BY DEF Block, AncestorAt, Number

\* Every block other than the switch block has a parent one block below it.
LEMMA ParentProperties ==
  ASSUME NEW b \in Block, b # SwitchBlock
  PROVE  /\ Number(b) \in Nat \ {0}
         /\ ParentOf(b) \in Block
         /\ Number(ParentOf(b)) = Number(b) - 1
         /\ \A i \in 1..(Number(b) - 1) : ParentOf(b)[i] = b[i]
<1>1. Number(b) \in Nat \ {0}
  BY DEF Block, SwitchBlock, Number
<1>2. Number(b) - 1 \in 0..Number(b)
  BY <1>1
<1>. QED
  BY <1>1, <1>2, AncestorProperties DEF ParentOf

\* The grandparent of a block at height two or more is its parent's parent.
LEMMA GrandParentProperties ==
  ASSUME NEW b \in Block, Number(b) >= 2
  PROVE  /\ b # SwitchBlock
         /\ ParentOf(b) # SwitchBlock
         /\ GrandParentOf(b) \in Block
         /\ GrandParentOf(b) = ParentOf(ParentOf(b))
         /\ Number(GrandParentOf(b)) = Number(b) - 2
<1>0. b # SwitchBlock
  BY DEF SwitchBlock, Number
<1>1. /\ Number(b) \in Nat
      /\ ParentOf(b) \in Block
      /\ Number(ParentOf(b)) = Number(b) - 1
      /\ \A i \in 1..(Number(b) - 1) : ParentOf(b)[i] = b[i]
  BY <1>0, ParentProperties
<1>2. ParentOf(b) # SwitchBlock
  BY <1>1 DEF SwitchBlock, Number
<1>3. /\ ParentOf(ParentOf(b)) \in Block
      /\ Number(ParentOf(ParentOf(b))) = Number(b) - 2
      /\ \A i \in 1..(Number(b) - 2) : ParentOf(ParentOf(b))[i] = b[i]
  <2>1. /\ ParentOf(ParentOf(b)) \in Block
        /\ Number(ParentOf(ParentOf(b))) = Number(ParentOf(b)) - 1
        /\ \A i \in 1..(Number(ParentOf(b)) - 1) :
             ParentOf(ParentOf(b))[i] = ParentOf(b)[i]
    BY <1>1, <1>2, ParentProperties
  <2>. QED BY <1>1, <2>1
<1>4. /\ GrandParentOf(b) \in Block
      /\ Number(GrandParentOf(b)) = Number(b) - 2
      /\ \A i \in 1..(Number(b) - 2) : GrandParentOf(b)[i] = b[i]
  <2>1. Number(b) - 2 \in 0..Number(b)
    BY <1>1
  <2>. QED BY <2>1, AncestorProperties DEF GrandParentOf
<1>5. GrandParentOf(b) = ParentOf(ParentOf(b))
  BY <1>3, <1>4, SequencesEqual DEF Block, Number
<1>. QED BY <1>0, <1>2, <1>4, <1>5

\* Rounds are natural numbers and only the switch block has round zero.
LEMMA RoundOfType ==
  ASSUME NEW b \in Block
  PROVE  /\ RoundOf(b) \in Nat
         /\ b # SwitchBlock => RoundOf(b) > 0
<1>1. CASE b = SwitchBlock
  BY <1>1 DEF RoundOf
<1>2. CASE b # SwitchBlock
  <2>1. Len(b) \in 1..Len(b)
    BY <1>2 DEF Block, SwitchBlock
  <2>2. b[Len(b)] \in Headers
    BY <2>1, SequenceElement DEF Block
  <2>3. b[Len(b)].round \in Nat \ {0}
    BY <2>2, RoundsAssumption DEF Headers, RoundsAssumption
  <2>. QED BY <1>2, <2>3 DEF RoundOf
<1>. QED BY <1>1, <1>2

\* Walking parents and comparing hashes decides the prefix order.
LEMMA ExtendsIsPrefix ==
  ASSUME NEW b \in Block, NEW a \in Block
  PROVE  IsExtendingFromAncestor(b, a)
           <=> Number(b) >= Number(a) /\ \A i \in 1..Number(a) : b[i] = a[i]
<1>. Number(a) \in Nat /\ Number(b) \in Nat
  BY DEF Block, Number
<1>1. CASE Number(b) > Number(a)
  <2>1. Number(a) \in 0..Number(b)
    BY <1>1
  <2>2. /\ AncestorAt(b, Number(a)) \in Block
        /\ Number(AncestorAt(b, Number(a))) = Number(a)
        /\ \A i \in 1..Number(a) : AncestorAt(b, Number(a))[i] = b[i]
    BY <2>1, AncestorProperties
  <2>3. AncestorAt(b, Number(a)) = a <=> \A i \in 1..Number(a) : b[i] = a[i]
    BY <2>2, SequencesEqual DEF Block, Number
  <2>. QED BY <1>1, <2>3 DEF IsExtendingFromAncestor
<1>2. CASE ~(Number(b) > Number(a))
  <2>1. b = a <=> Number(b) = Number(a) /\ \A i \in 1..Number(a) : b[i] = a[i]
    BY SequencesEqual DEF Block, Number
  <2>. QED BY <1>2, <2>1 DEF IsExtendingFromAncestor
<1>. QED BY <1>1, <1>2

\* Extension is reflexive and transitive, a block extends its parent, and two
\* ancestors of one block lie on one branch.
LEMMA ExtendsOrder ==
  ASSUME NEW a \in Block, NEW b \in Block, NEW c \in Block
  PROVE  /\ IsExtendingFromAncestor(a, a)
         /\ IsExtendingFromAncestor(c, b) /\ IsExtendingFromAncestor(b, a)
              => IsExtendingFromAncestor(c, a)
         /\ c # SwitchBlock => IsExtendingFromAncestor(c, ParentOf(c))
         /\ IsExtendingFromAncestor(c, a) /\ IsExtendingFromAncestor(c, b)
              => SameBranch(a, b)
<1>. Number(a) \in Nat /\ Number(b) \in Nat /\ Number(c) \in Nat
  BY DEF Block, Number
<1>1. IsExtendingFromAncestor(a, a)
  BY ExtendsIsPrefix
<1>2. IsExtendingFromAncestor(c, b) /\ IsExtendingFromAncestor(b, a)
        => IsExtendingFromAncestor(c, a)
  BY ExtendsIsPrefix
<1>3. c # SwitchBlock => IsExtendingFromAncestor(c, ParentOf(c))
  <2>. SUFFICES ASSUME c # SwitchBlock PROVE IsExtendingFromAncestor(c, ParentOf(c))
    OBVIOUS
  <2>1. /\ ParentOf(c) \in Block
        /\ Number(ParentOf(c)) = Number(c) - 1
        /\ \A i \in 1..(Number(c) - 1) : ParentOf(c)[i] = c[i]
    BY ParentProperties
  <2>. QED BY <2>1, ExtendsIsPrefix
<1>4. IsExtendingFromAncestor(c, a) /\ IsExtendingFromAncestor(c, b)
        => SameBranch(a, b)
  BY ExtendsIsPrefix DEF SameBranch
<1>. QED BY <1>1, <1>2, <1>3, <1>4

\* Of two blocks on one branch the higher one extends the other.
LEMMA ExtendsHigher ==
  ASSUME NEW a \in Block, NEW b \in Block, SameBranch(a, b), Number(a) <= Number(b)
  PROVE  IsExtendingFromAncestor(b, a)
<1>. Number(a) \in Nat /\ Number(b) \in Nat
  BY DEF Block, Number
<1>. QED BY ExtendsIsPrefix DEF SameBranch

\* A proposal built on a parent has that parent, the round it was built for and
\* one more block below it.
LEMMA ChildProperties ==
  ASSUME NEW p \in Block, NEW r \in Rounds, NEW body \in Bodies
  PROVE  /\ Child(p, r, body) \in Block
         /\ Child(p, r, body) # SwitchBlock
         /\ ParentOf(Child(p, r, body)) = p
         /\ RoundOf(Child(p, r, body)) = r
<1>. DEFINE c == Child(p, r, body)
<1>0. [round |-> r, body |-> body] \in Headers
  BY DEF Headers
<1>1. /\ c \in Block
      /\ Number(c) = Number(p) + 1
      /\ Number(p) \in Nat
      /\ \A i \in 1..Number(p) : c[i] = p[i]
      /\ c[Number(p) + 1] = [round |-> r, body |-> body]
  BY <1>0 DEF Block, Child, Number
<1>2. c # SwitchBlock
  BY <1>1 DEF SwitchBlock, Number
<1>3. RoundOf(c) = r
  BY <1>1, <1>2 DEF RoundOf, Number
<1>4. ParentOf(c) = p
  <2>1. /\ ParentOf(c) \in Block
        /\ Number(ParentOf(c)) = Number(p)
        /\ \A i \in 1..Number(p) : ParentOf(c)[i] = c[i]
    BY <1>1, <1>2, ParentProperties
  <2>. QED BY <1>1, <2>1, SequencesEqual DEF Block, Number
<1>. QED BY <1>1, <1>2, <1>3, <1>4
=============================================================================
