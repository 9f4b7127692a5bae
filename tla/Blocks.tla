------------------------------- MODULE Blocks -------------------------------
(***************************************************************************)
(* The v2 block tree.  A header names its parent by hash, and a hash is     *)
(* collision free, so a block is modelled as the sequence of headers from   *)
(* the first v2 block down to itself: equal sequences are equal hashes, a   *)
(* prefix is an ancestor, and the length is the height above the block at   *)
(* which the chain switched from BRDPoS v1 to v2.  That switch block is the *)
(* empty sequence.  Of a header only its round and its body (everything     *)
(* else that makes two headers of one parent and round differ) are kept.    *)
(*                                                                          *)
(* verifyHeader accepts a header only if the quorum certificate it carries  *)
(* certifies its parent, so the certificate in the header of b is the one   *)
(* for ParentOf(b) and is not stored again.                                 *)
(***************************************************************************)
EXTENDS Integers, Sequences

CONSTANTS
  Rounds,     \* the rounds in which blocks are proposed
  Bodies      \* contents that tell apart two blocks of one parent and round

ASSUME RoundsAssumption == Rounds \subseteq Nat \ {0}

Headers == [round : Rounds, body : Bodies]
Block == Seq(Headers)

SwitchBlock == << >>

Number(b) == Len(b)
RoundOf(b) == IF b = SwitchBlock THEN 0 ELSE b[Len(b)].round

\* The ancestor of b at height n.
AncestorAt(b, n) == SubSeq(b, 1, n)
ParentOf(b) == AncestorAt(b, Number(b) - 1)
GrandParentOf(b) == AncestorAt(b, Number(b) - 2)

\* Walk Number(b) - Number(a) parents up from b and compare with a; for a
\* height difference of zero or less the loop does not run.
IsExtendingFromAncestor(b, a) ==
  IF Number(b) > Number(a) THEN AncestorAt(b, Number(a)) = a ELSE b = a

\* The header that a proposer builds on a parent.
Child(parent, round, body) == Append(parent, [round |-> round, body |-> body])

SameBranch(a, b) == IsExtendingFromAncestor(a, b) \/ IsExtendingFromAncestor(b, a)
=============================================================================
