----------------------------- MODULE ChainedBFT -----------------------------
(***************************************************************************)
(* What the v2 consensus engine promises, stated over the votes that have   *)
(* been signed.  A masternode remembers the highest round it voted in and a *)
(* lock; it votes by the rule of verifyVotingRule and moves its lock as     *)
(* processQC does.  How votes travel, how they are pooled, who proposes,    *)
(* when timers expire and how rounds advance is left open: EngineV2         *)
(* describes that and implements this module.                               *)
(*                                                                          *)
(* Masternodes in Faulty are not bound by the rules (one that restarted and *)
(* forgot what it voted for is in this set): their signature is available   *)
(* for every block.                                                         *)
(***************************************************************************)
EXTENDS Blocks, FiniteSets

CONSTANTS
  Masternodes,   \* the masternodes of the epoch
  Faulty,        \* those whose votes are unconstrained
  CertNum,       \* CertThreshold is the fraction CertNum / CertDen
  CertDen,
  Nil            \* the nil pointer

ASSUME MasternodesAssumption ==
  /\ IsFiniteSet(Masternodes)
  /\ Faulty \subseteq Masternodes

\* Two certificates share more signers than there are faulty masternodes.
\* With the deployed threshold 0.667 this is 0.334 * N > Cardinality(Faulty).
ASSUME ThresholdAssumption ==
  /\ CertNum \in Nat
  /\ CertDen \in Nat \ {0}
  /\ 2 * (CertNum * Cardinality(Masternodes))
       > CertDen * Cardinality(Masternodes) + CertDen * Cardinality(Faulty)

ASSUME NilAssumption == Nil \notin Block

VARIABLES
  votes,               \* votes signed so far by masternodes that follow the rules
  highestVotedRound,
  lockQuorumCert       \* the block certified by the lock, or Nil

vars == << votes, highestVotedRound, lockQuorumCert >>

Honest == Masternodes \ Faulty
Votes == [signer : Honest, block : Block]

\* Mutant of IsQuorum: the threshold is rounded down.
IsQuorumRoundedDown(S) == Cardinality(S) >= (CertNum * Cardinality(Masternodes)) \div CertDen

IsQuorum(S) == Cardinality(S) * CertDen >= CertNum * Cardinality(Masternodes)

Voters(b) == {m \in Honest : [signer |-> m, block |-> b] \in votes}

\* A quorum certificate for b can be assembled from signatures that exist.
\* The certificate of the switch block has round 0 and needs no signature.
Certified(b) == b = SwitchBlock \/ IsQuorum(Faulty \cup Voters(b))

-----------------------------------------------------------------------------
\* Mutant of NewLock: a certificate never moves the lock.
NewLockNever(lock, b) == lock

\* The lock after processing the certificate of block b.
NewLock(lock, b) ==
  IF b # SwitchBlock /\ (lock = Nil \/ RoundOf(ParentOf(b)) > RoundOf(lock))
    THEN ParentOf(b)
    ELSE lock

\* b may be voted for under this lock.  The engine votes only in its current
\* round, which is later than the round of its lock.
VotingRule(lock, b) ==
  lock # Nil => /\ RoundOf(b) > RoundOf(lock)
                /\ \/ RoundOf(ParentOf(b)) > RoundOf(lock)
                   \/ IsExtendingFromAncestor(b, lock)

\* b, its parent and its grandparent are v2 blocks of three consecutive rounds.
ThreeChain(b) ==
  /\ Number(b) > 2
  /\ RoundOf(ParentOf(b)) = RoundOf(b) - 1
  /\ RoundOf(GrandParentOf(b)) = RoundOf(b) - 2

-----------------------------------------------------------------------------
Init ==
  /\ votes = {}
  /\ highestVotedRound = [n \in Honest |-> 0]
  /\ lockQuorumCert = [n \in Honest |-> Nil]

\* n processes a certificate for b, however it got it.
ProcessQC(n, b) ==
  /\ Certified(b)
  /\ lockQuorumCert' = [lockQuorumCert EXCEPT ![n] = NewLock(@, b)]
  /\ UNCHANGED << votes, highestVotedRound >>

\* Mutant of ProposedBlock: a second vote in the highest voted round is allowed.
ProposedBlockVotesAgain(n, b, certify) ==
  LET lock == NewLock(lockQuorumCert[n], ParentOf(b))
  IN  /\ Certified(ParentOf(b))
      /\ RoundOf(b) > RoundOf(ParentOf(b))
      /\ RoundOf(b) >= highestVotedRound[n]
      /\ VotingRule(lock, b)
      /\ votes' = votes \cup {[signer |-> n, block |-> b]}
      /\ highestVotedRound' = [highestVotedRound EXCEPT ![n] = RoundOf(b)]
      /\ certify => Certified(b)'
      /\ lockQuorumCert' =
           [lockQuorumCert EXCEPT ![n] = IF certify THEN NewLock(lock, b) ELSE lock]

\* n receives the proposal b: it processes the certificate b carries, votes if
\* the rule allows, and its own vote may complete a certificate for b, which it
\* then processes too (certify).  A proposal that earns no vote is ProcessQC.
ProposedBlock(n, b, certify) ==
  LET lock == NewLock(lockQuorumCert[n], ParentOf(b))
  IN  /\ RoundOf(b) > RoundOf(ParentOf(b))
      /\ RoundOf(b) > highestVotedRound[n]
      /\ Certified(ParentOf(b))
      /\ VotingRule(lock, b)
      /\ votes' = votes \cup {[signer |-> n, block |-> b]}
      /\ highestVotedRound' = [highestVotedRound EXCEPT ![n] = RoundOf(b)]
      /\ certify => Certified(b)'
      /\ lockQuorumCert' =
           [lockQuorumCert EXCEPT ![n] = IF certify THEN NewLock(lock, b) ELSE lock]

\* Blocks some rule-following masternode voted for, and the switch block.
KnownBlocks == {SwitchBlock} \cup {v.block : v \in votes}

Next ==
  \E n \in Honest :
    \/ \E b \in KnownBlocks : ProcessQC(n, b)
    \/ \E parent \in KnownBlocks, r \in Rounds, body \in Bodies, certify \in BOOLEAN :
         ProposedBlock(n, Child(parent, r, body), certify)

Spec == Init /\ [][Next]_vars

-----------------------------------------------------------------------------
\* The voting state of the engine has the types of its fields.
TypeOK ==
  /\ votes \subseteq Votes
  /\ highestVotedRound \in [Honest -> Nat]
  /\ lockQuorumCert \in [Honest -> Block \cup {Nil}]

\* What the votes and locks of rule-following masternodes keep true of each
\* other: the strengthening that makes the safety properties inductive.
VotesWellFormed ==
  \A v \in votes :
    /\ v.block # SwitchBlock
    /\ Certified(ParentOf(v.block))
    /\ RoundOf(ParentOf(v.block)) < RoundOf(v.block)
    /\ RoundOf(v.block) <= highestVotedRound[v.signer]

\* Who voted for a block is locked at least as high as its grandparent.
LocksFollowVotes ==
  /\ \A n \in Honest : lockQuorumCert[n] # Nil => Certified(lockQuorumCert[n])
  /\ \A v \in votes : Number(v.block) >= 2 =>
       /\ lockQuorumCert[v.signer] # Nil
       /\ RoundOf(lockQuorumCert[v.signer]) >= RoundOf(GrandParentOf(v.block))

\* The block lock justifies having voted for w after having voted for v.
Justifies(lock, v, w) ==
  /\ Certified(lock)
  /\ RoundOf(lock) >= RoundOf(GrandParentOf(v))
  /\ RoundOf(lock) < RoundOf(w)
  /\ RoundOf(ParentOf(w)) > RoundOf(lock) \/ IsExtendingFromAncestor(w, lock)

\* Of two votes of one masternode, the later one respects the lock that the
\* earlier one left (verifyVotingRule reads what processQC wrote), and no round
\* has two.
VotesRespectLocks ==
  \A v, w \in votes : v.signer = w.signer =>
    /\ RoundOf(v.block) = RoundOf(w.block) => v = w
    /\ RoundOf(v.block) < RoundOf(w.block) /\ Number(v.block) >= 2
         => \E lock \in KnownBlocks : Justifies(lock, v.block, w.block)

\* The inductive invariant: what ProposedBlockHandler and processQC preserve.
SafetyInv == TypeOK /\ VotesWellFormed /\ LocksFollowVotes /\ VotesRespectLocks

\* Two certified blocks of one round are the same block: the quorum that signed
\* one shares a rule-following masternode with the quorum that signed the other,
\* and verifyVotingRule lets it vote once per round.
OneCertificatePerRound ==
  \A b, c \in KnownBlocks :
    RoundOf(b) = RoundOf(c) /\ Certified(b) /\ Certified(c) => b = c

\* The blocks that commitBlocks may commit at some masternode.
Committable == {GrandParentOf(b) : b \in {c \in KnownBlocks : Certified(c) /\ ThreeChain(c)}}

\* Once a block can be committed anywhere, every certified block of its round or
\* a later one extends it: the locks that processQC sets on the way to the
\* commit outlive every later vote, whatever each masternode saw meanwhile.
CommittedIsFinal ==
  \A g \in Committable, c \in KnownBlocks :
    Certified(c) /\ RoundOf(c) >= RoundOf(g) => IsExtendingFromAncestor(c, g)

\* All blocks committed anywhere lie on one branch.
Agreement == \A g, h \in Committable : SameBranch(g, h)
=============================================================================
