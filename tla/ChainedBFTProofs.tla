-------------------------- MODULE ChainedBFTProofs --------------------------
(***************************************************************************)
(* Safety of the voting and locking rules of the v2 engine, for any number  *)
(* of masternodes, rounds and blocks, from the threshold assumption alone.  *)
(***************************************************************************)
EXTENDS ChainedBFT, BlocksProofs, FiniteSetTheorems, WellFoundedInduction

\* Multiplication by a natural number preserves the order: the only nonlinear
\* fact that the threshold arithmetic of voteHandler needs.
LEMMA ProductMonotone ==
  ASSUME NEW a \in Nat, NEW b \in Nat, NEW d \in Nat, a <= b
  PROVE  a * d <= b * d
  OBVIOUS

\* Sets of signers are finite and no larger than the masternode list.
LEMMA MasternodesFinite ==
  ASSUME NEW S \in SUBSET Masternodes
  PROVE  /\ IsFiniteSet(S)
         /\ Cardinality(S) \in Nat
         /\ Cardinality(S) <= Cardinality(Masternodes)
         /\ Cardinality(Masternodes) \in Nat
  BY MasternodesAssumption, FS_Subset, FS_CardinalityType DEF MasternodesAssumption

\* Two quorums share a masternode that follows the rules: what the threshold
\* test of voteHandler and verifyQC buys.
LEMMA QuorumsIntersect ==
  ASSUME NEW S \in SUBSET Masternodes, NEW T \in SUBSET Masternodes,
         IsQuorum(S), IsQuorum(T)
  PROVE  \E m \in S \cap T : m \in Honest
<1>. DEFINE N == Cardinality(Masternodes)
            F == Cardinality(Faulty)
            s == Cardinality(S)
            t == Cardinality(T)
            i == Cardinality(S \cap T)
<1>. SUFFICES ASSUME S \cap T \subseteq Faulty PROVE FALSE
  BY DEF Honest
<1>1. /\ IsFiniteSet(S) /\ IsFiniteSet(T) /\ IsFiniteSet(Faulty)
      /\ s \in Nat /\ t \in Nat /\ N \in Nat /\ F \in Nat /\ i \in Nat
  BY MasternodesFinite, MasternodesAssumption DEF MasternodesAssumption
<1>2. i <= F
  BY <1>1, FS_Subset
<1>3. Cardinality(S \cup T) <= N
  BY MasternodesFinite
<1>4. Cardinality(S \cup T) = s + t - i
  BY <1>1, FS_Union
<1>5. s + t <= N + F
  BY <1>1, <1>2, <1>3, <1>4
<1>6. s * CertDen >= CertNum * N /\ t * CertDen >= CertNum * N
  BY DEF IsQuorum
<1>7. CertNum \in Nat /\ CertDen \in Nat
  BY ThresholdAssumption DEF ThresholdAssumption
<1>8. 2 * (CertNum * N) > CertDen * N + CertDen * F
  BY ThresholdAssumption DEF ThresholdAssumption
<1>9. (s + t) * CertDen <= (N + F) * CertDen
  <2>. HIDE DEF s, t, N, F
  <2>. QED BY <1>1, <1>5, <1>7, ProductMonotone
<1>. HIDE DEF s, t, N, F, i
<1>. QED BY <1>1, <1>6, <1>7, <1>8, <1>9

\* Only masternodes sign: verifyVotes drops every other signature.
LEMMA VotersType ==
  ASSUME NEW b
  PROVE  Faulty \cup Voters(b) \in SUBSET Masternodes
  BY MasternodesAssumption DEF MasternodesAssumption, Voters, Honest

\* Two certified blocks, neither of them the switch block, have a common voter.
LEMMA CommonVoter ==
  ASSUME NEW b, NEW c, b # SwitchBlock, c # SwitchBlock, Certified(b), Certified(c)
  PROVE  \E m \in Honest : /\ [signer |-> m, block |-> b] \in votes
                           /\ [signer |-> m, block |-> c] \in votes
<1>1. PICK m \in (Faulty \cup Voters(b)) \cap (Faulty \cup Voters(c)) : m \in Honest
  BY VotersType, QuorumsIntersect DEF Certified
<1>. QED BY <1>1 DEF Voters, Honest

\* A certified block is the switch block or has been voted for.
LEMMA CertifiedIsKnown ==
  ASSUME NEW b, Certified(b)
  PROVE  b \in KnownBlocks
<1>1. CASE b = SwitchBlock
  BY <1>1 DEF KnownBlocks
<1>2. CASE b # SwitchBlock
  <2>1. PICK m \in Honest : [signer |-> m, block |-> b] \in votes
    BY <1>2, CommonVoter
  <2>. QED BY <2>1 DEF KnownBlocks
<1>. QED BY <1>1, <1>2

\* Signatures are never withdrawn, so a certificate stays a certificate.
LEMMA CertifiedStable ==
  ASSUME votes \subseteq votes'
  PROVE  \A b : Certified(b) => Certified(b)'
<1>. SUFFICES ASSUME NEW b, Certified(b), b # SwitchBlock
              PROVE  IsQuorum(Faulty \cup Voters(b))'
  BY DEF Certified
<1>. DEFINE S == Faulty \cup Voters(b)
            T == Faulty \cup {m \in Honest : [signer |-> m, block |-> b] \in votes'}
<1>1. S \subseteq T /\ T \in SUBSET Masternodes
  BY MasternodesAssumption DEF MasternodesAssumption, Voters, Honest
<1>2. Cardinality(S) \in Nat /\ Cardinality(T) \in Nat /\ Cardinality(S) <= Cardinality(T)
  BY <1>1, FS_Subset, MasternodesFinite, Zenon
<1>3. Cardinality(S) * CertDen >= CertNum * Cardinality(Masternodes)
  BY DEF Certified, IsQuorum
<1>4. CertDen \in Nat /\ CertNum \in Nat /\ Cardinality(Masternodes) \in Nat
  BY ThresholdAssumption, MasternodesFinite DEF ThresholdAssumption
<1>5. Cardinality(S) * CertDen <= Cardinality(T) * CertDen
  <2>. HIDE DEF S, T
  <2>. QED BY <1>2, <1>4, ProductMonotone
<1>6. Cardinality(T) * CertDen >= CertNum * Cardinality(Masternodes)
  <2>. HIDE DEF S, T
  <2>. QED BY <1>2, <1>3, <1>4, <1>5
<1>. QED BY <1>6 DEF IsQuorum, Voters

-----------------------------------------------------------------------------
\* The lock that processQC leaves behind is a certified block, no lower than
\* the lock before and no lower than the parent of the block certified.
LEMMA NewLockProperties ==
  ASSUME SafetyInv, NEW lock \in Block \cup {Nil}, NEW b \in Block,
         lock # Nil => Certified(lock),
         b # SwitchBlock => Certified(ParentOf(b))
  PROVE  /\ NewLock(lock, b) \in Block \cup {Nil}
         /\ NewLock(lock, b) # Nil => Certified(NewLock(lock, b))
         /\ lock # Nil => /\ NewLock(lock, b) # Nil
                          /\ RoundOf(NewLock(lock, b)) >= RoundOf(lock)
         /\ b # SwitchBlock => /\ NewLock(lock, b) # Nil
                               /\ RoundOf(NewLock(lock, b)) >= RoundOf(ParentOf(b))
<1>1. b # SwitchBlock => ParentOf(b) \in Block /\ ParentOf(b) # Nil
  BY ParentProperties, NilAssumption DEF NilAssumption
<1>2. lock # Nil => RoundOf(lock) \in Nat
  BY RoundOfType
<1>3. b # SwitchBlock => RoundOf(ParentOf(b)) \in Nat
  BY <1>1, RoundOfType
<1>. QED BY <1>1, <1>2, <1>3 DEF NewLock

\* The parent of a certified block is certified: no masternode that follows the
\* rules votes for a block whose own certificate does not hold.
LEMMA ParentCertified ==
  ASSUME SafetyInv, NEW b, Certified(b)
  PROVE  b \in Block /\ (b # SwitchBlock => Certified(ParentOf(b)))
<1>1. CASE b = SwitchBlock
  BY <1>1 DEF SwitchBlock, Block
<1>2. CASE b # SwitchBlock
  <2>1. PICK v \in votes : v.block = b
    BY <1>2, CertifiedIsKnown DEF KnownBlocks
  <2>2. v \in Votes
    BY DEF SafetyInv, TypeOK
  <2>. QED BY <2>1, <2>2 DEF Votes, SafetyInv, VotesWellFormed
<1>. QED BY <1>1, <1>2

\* Processing a certificate moves one lock and no vote.
LEMMA ProcessQCInv ==
  ASSUME SafetyInv, NEW n \in Honest, NEW b \in KnownBlocks, ProcessQC(n, b)
  PROVE  SafetyInv'
<1>. DEFINE new == NewLock(lockQuorumCert[n], b)
<1>1. /\ votes' = votes
      /\ highestVotedRound' = highestVotedRound
      /\ Certified(b)
      /\ lockQuorumCert' = [lockQuorumCert EXCEPT ![n] = new]
      /\ lockQuorumCert \in [Honest -> Block \cup {Nil}]
  BY DEF ProcessQC, SafetyInv, TypeOK
<1>2. b \in Block /\ (b # SwitchBlock => Certified(ParentOf(b)))
  BY <1>1, ParentCertified
<1>3. lockQuorumCert[n] # Nil => Certified(lockQuorumCert[n])
  BY DEF SafetyInv, LocksFollowVotes
<1>4. /\ new \in Block \cup {Nil}
      /\ new # Nil => Certified(new)
      /\ lockQuorumCert[n] # Nil =>
           new # Nil /\ RoundOf(new) >= RoundOf(lockQuorumCert[n])
  BY <1>1, <1>2, <1>3, NewLockProperties
<1>5. \A x : Certified(x)' <=> Certified(x)
  BY <1>1 DEF Certified, Voters
<1>6. \A v \in votes : v.signer \in Honest /\ v.block \in Block
  BY DEF SafetyInv, TypeOK, Votes
<1>7. TypeOK'
  BY <1>1, <1>4 DEF SafetyInv, TypeOK
<1>8. VotesWellFormed'
  BY <1>1, <1>5 DEF SafetyInv, VotesWellFormed
<1>9. LocksFollowVotes'
  <2>. HIDE DEF new
  <2>1. \A m \in Honest : lockQuorumCert'[m] # Nil => Certified(lockQuorumCert'[m])
    BY <1>1, <1>4 DEF SafetyInv, LocksFollowVotes
  <2>2. ASSUME NEW v \in votes, Number(v.block) >= 2
        PROVE  /\ lockQuorumCert'[v.signer] # Nil
               /\ RoundOf(lockQuorumCert'[v.signer]) >= RoundOf(GrandParentOf(v.block))
    <3>1. /\ lockQuorumCert[v.signer] # Nil
          /\ RoundOf(lockQuorumCert[v.signer]) >= RoundOf(GrandParentOf(v.block))
      BY <2>2 DEF SafetyInv, LocksFollowVotes
    <3>2. /\ RoundOf(GrandParentOf(v.block)) \in Nat
          /\ RoundOf(lockQuorumCert[v.signer]) \in Nat
          /\ new # Nil => RoundOf(new) \in Nat
      BY <1>1, <1>4, <1>6, <2>2, <3>1, GrandParentProperties, RoundOfType
    <3>. QED BY <1>1, <1>4, <1>6, <3>1, <3>2
  <2>. QED BY <1>1, <1>5, <2>1, <2>2 DEF LocksFollowVotes
<1>10. VotesRespectLocks'
  BY <1>1, <1>5 DEF SafetyInv, VotesRespectLocks, KnownBlocks, Justifies
<1>. QED BY <1>7, <1>8, <1>9, <1>10 DEF SafetyInv

\* A vote is cast in a round later than all of the voter's earlier ones, under
\* a lock that already covers the grandparent of everything it voted for.
LEMMA ProposedBlockInv ==
  ASSUME SafetyInv, NEW n \in Honest, NEW b \in Block, NEW certify \in BOOLEAN,
         b # SwitchBlock, ProposedBlock(n, b, certify)
  PROVE  SafetyInv'
<1>. DEFINE old == lockQuorumCert[n]
            lock == NewLock(old, ParentOf(b))
            new == IF certify THEN NewLock(lock, b) ELSE lock
            vote == [signer |-> n, block |-> b]
<1>1. /\ Certified(ParentOf(b))
      /\ RoundOf(b) > RoundOf(ParentOf(b))
      /\ RoundOf(b) > highestVotedRound[n]
      /\ VotingRule(lock, b)
      /\ votes' = votes \cup {vote}
      /\ highestVotedRound' = [highestVotedRound EXCEPT ![n] = RoundOf(b)]
      /\ lockQuorumCert' = [lockQuorumCert EXCEPT ![n] = new]
  BY DEF ProposedBlock
<1>2. /\ highestVotedRound \in [Honest -> Nat]
      /\ lockQuorumCert \in [Honest -> Block \cup {Nil}]
      /\ \A v \in votes : v.signer \in Honest /\ v.block \in Block
      /\ votes \subseteq Votes
  BY DEF SafetyInv, TypeOK, Votes
<1>3. /\ RoundOf(b) \in Nat
      /\ ParentOf(b) \in Block
      /\ RoundOf(ParentOf(b)) \in Nat
  BY ParentProperties, RoundOfType
<1>4. \A x : Certified(x) => Certified(x)'
  <2>1. votes \subseteq votes' BY <1>1
  <2>. QED BY <2>1, CertifiedStable
<1>5. /\ old # Nil => Certified(old)
      /\ ParentOf(b) # SwitchBlock => Certified(ParentOf(ParentOf(b)))
  BY <1>1, ParentCertified DEF SafetyInv, LocksFollowVotes
<1>6. /\ lock \in Block \cup {Nil}
      /\ lock # Nil => Certified(lock)
      /\ old # Nil => lock # Nil /\ RoundOf(lock) >= RoundOf(old)
      /\ ParentOf(b) # SwitchBlock =>
           lock # Nil /\ RoundOf(lock) >= RoundOf(ParentOf(ParentOf(b)))
  BY <1>2, <1>3, <1>5, NewLockProperties
<1>7. /\ new \in Block \cup {Nil}
      /\ new # Nil => Certified(new)
      /\ lock # Nil => new # Nil /\ RoundOf(new) >= RoundOf(lock)
  <2>. HIDE DEF lock
  <2>1. lock # Nil => RoundOf(lock) \in Nat
    BY <1>6, RoundOfType
  <2>. QED BY <1>1, <1>6, <2>1, NewLockProperties
<1>. HIDE DEF lock, new
<1>8. old # Nil => RoundOf(old) \in Nat
  BY <1>2, RoundOfType
<1>9. lock # Nil => RoundOf(lock) \in Nat
  BY <1>6, RoundOfType
<1>10. new # Nil => RoundOf(new) \in Nat
  BY <1>7, RoundOfType
<1>11. TypeOK'
  <2>1. vote \in Votes BY DEF Votes
  <2>. QED BY <1>1, <1>2, <1>3, <1>7, <2>1 DEF TypeOK
<1>12. VotesWellFormed'
  <2>1. ASSUME NEW v \in votes
        PROVE  /\ v.block # SwitchBlock
               /\ Certified(ParentOf(v.block))'
               /\ RoundOf(ParentOf(v.block)) < RoundOf(v.block)
               /\ RoundOf(v.block) <= highestVotedRound'[v.signer]
    <3>1. /\ v.block # SwitchBlock
          /\ Certified(ParentOf(v.block))
          /\ RoundOf(ParentOf(v.block)) < RoundOf(v.block)
          /\ RoundOf(v.block) <= highestVotedRound[v.signer]
      BY DEF SafetyInv, VotesWellFormed
    <3>2. RoundOf(v.block) \in Nat
      BY <1>2, RoundOfType
    <3>. QED BY <1>1, <1>2, <1>3, <1>4, <3>1, <3>2
  <2>2. /\ Certified(ParentOf(b))'
        /\ RoundOf(b) <= highestVotedRound'[n]
    BY <1>1, <1>2, <1>3, <1>4
  <2>. QED BY <1>1, <2>1, <2>2 DEF VotesWellFormed
<1>13. LocksFollowVotes'
  <2>1. (\A m \in Honest : lockQuorumCert[m] # Nil => Certified(lockQuorumCert[m]))'
    <3>1. ASSUME NEW m \in Honest, NEW l, l = lockQuorumCert'[m], l # Nil
          PROVE  Certified(l)'
      BY <1>1, <1>2, <1>4, <1>7, <3>1 DEF SafetyInv, LocksFollowVotes
    <3>. QED BY <3>1 DEF Certified, Voters
  <2>2. ASSUME NEW v \in votes, Number(v.block) >= 2
        PROVE  /\ lockQuorumCert'[v.signer] # Nil
               /\ RoundOf(lockQuorumCert'[v.signer]) >= RoundOf(GrandParentOf(v.block))
    <3>1. /\ lockQuorumCert[v.signer] # Nil
          /\ RoundOf(lockQuorumCert[v.signer]) >= RoundOf(GrandParentOf(v.block))
      BY <2>2 DEF SafetyInv, LocksFollowVotes
    <3>2. RoundOf(GrandParentOf(v.block)) \in Nat
      BY <1>2, <2>2, GrandParentProperties, RoundOfType
    <3>. QED BY <1>1, <1>2, <1>6, <1>7, <1>8, <1>9, <1>10, <3>1, <3>2
  <2>3. ASSUME Number(b) >= 2
        PROVE  /\ lockQuorumCert'[n] # Nil
               /\ RoundOf(lockQuorumCert'[n]) >= RoundOf(GrandParentOf(b))
    <3>1. /\ ParentOf(b) # SwitchBlock
          /\ GrandParentOf(b) = ParentOf(ParentOf(b))
          /\ RoundOf(GrandParentOf(b)) \in Nat
      BY <2>3, GrandParentProperties, RoundOfType
    <3>. QED BY <1>1, <1>2, <1>6, <1>7, <1>9, <1>10, <3>1
  <2>. QED BY <1>1, <2>1, <2>2, <2>3 DEF LocksFollowVotes
<1>14. VotesRespectLocks'
  <2>1. KnownBlocks \subseteq KnownBlocks'
    BY <1>1 DEF KnownBlocks
  <2>2. ASSUME NEW v \in votes, v.signer = n
        PROVE  /\ RoundOf(v.block) \in Nat
               /\ RoundOf(v.block) < RoundOf(b)
    <3>1. RoundOf(v.block) <= highestVotedRound[n]
      BY <2>2 DEF SafetyInv, VotesWellFormed
    <3>2. RoundOf(v.block) \in Nat
      BY <1>2, RoundOfType
    <3>. QED BY <1>1, <1>2, <1>3, <3>1, <3>2
  <2>3. ASSUME NEW v \in votes, v.signer = n, Number(v.block) >= 2
        PROVE  \E l \in KnownBlocks' : Justifies(l, v.block, b)'
    <3>1. /\ old # Nil
          /\ RoundOf(old) >= RoundOf(GrandParentOf(v.block))
      BY <2>3 DEF SafetyInv, LocksFollowVotes
    <3>2. RoundOf(GrandParentOf(v.block)) \in Nat
      BY <1>2, <2>3, GrandParentProperties, RoundOfType
    <3>3. /\ lock # Nil
          /\ Certified(lock)
          /\ RoundOf(lock) >= RoundOf(GrandParentOf(v.block))
      BY <1>6, <1>8, <1>9, <3>1, <3>2
    <3>4. /\ RoundOf(lock) < RoundOf(b)
          /\ RoundOf(ParentOf(b)) > RoundOf(lock) \/ IsExtendingFromAncestor(b, lock)
      BY <1>1, <1>3, <1>9, <3>3 DEF VotingRule
    <3>5. Justifies(lock, v.block, b)
      BY <3>3, <3>4 DEF Justifies
    <3>6. lock \in KnownBlocks'
      BY <2>1, <3>3, CertifiedIsKnown
    <3>7. ASSUME NEW l, Justifies(l, v.block, b)
          PROVE  Justifies(l, v.block, b)'
      BY <1>4, <3>7 DEF Justifies
    <3>. QED BY <3>5, <3>6, <3>7
  <2>4. ASSUME NEW v \in votes, NEW w \in votes, v.signer = w.signer
        PROVE  /\ RoundOf(v.block) = RoundOf(w.block) => v = w
               /\ RoundOf(v.block) < RoundOf(w.block) /\ Number(v.block) >= 2
                    => \E l \in KnownBlocks' : Justifies(l, v.block, w.block)'
    <3>1. ASSUME NEW l, Justifies(l, v.block, w.block)
          PROVE  Justifies(l, v.block, w.block)'
      BY <1>4, <3>1 DEF Justifies
    <3>. QED BY <2>1, <2>4, <3>1 DEF SafetyInv, VotesRespectLocks
  <2>. QED BY <1>1, <1>3, <2>2, <2>3, <2>4 DEF VotesRespectLocks
<1>. QED BY <1>11, <1>12, <1>13, <1>14 DEF SafetyInv
-----------------------------------------------------------------------------
\* Spec keeps the votes and locks well formed: in every reachable state the
\* type invariant holds, every vote has a certified parent, locks are certified
\* and cover what was voted for, and later votes are justified by a lock.
THEOREM SafetyInvariance == Spec => []SafetyInv
<1>1. Init => SafetyInv
  BY DEF Init, SafetyInv, TypeOK, VotesWellFormed, LocksFollowVotes, VotesRespectLocks
<1>2. SafetyInv /\ [Next]_vars => SafetyInv'
  <2>. SUFFICES ASSUME SafetyInv, [Next]_vars PROVE SafetyInv'
    OBVIOUS
  <2>1. ASSUME NEW n \in Honest, NEW b \in KnownBlocks, ProcessQC(n, b)
        PROVE  SafetyInv'
    BY <2>1, ProcessQCInv
  <2>2. ASSUME NEW n \in Honest, NEW parent \in KnownBlocks, NEW r \in Rounds,
               NEW body \in Bodies, NEW certify \in BOOLEAN,
               ProposedBlock(n, Child(parent, r, body), certify)
        PROVE  SafetyInv'
    <3>1. parent \in Block
      <4>1. SwitchBlock \in Block
        BY DEF SwitchBlock, Block
      <4>2. \A v \in votes : v.block \in Block
        BY DEF SafetyInv, TypeOK, Votes
      <4>. QED BY <4>1, <4>2 DEF KnownBlocks
    <3>2. Child(parent, r, body) \in Block /\ Child(parent, r, body) # SwitchBlock
      BY <3>1, ChildProperties
    <3>. QED BY <2>2, <3>2, ProposedBlockInv
  <2>3. CASE UNCHANGED vars
    <3>1. /\ votes' = votes
          /\ highestVotedRound' = highestVotedRound
          /\ lockQuorumCert' = lockQuorumCert
      BY <2>3 DEF vars
    <3>2. \A x : Certified(x)' <=> Certified(x)
      BY <3>1 DEF Certified, Voters
    <3>3. TypeOK' /\ VotesWellFormed'
      BY <3>1, <3>2 DEF SafetyInv, TypeOK, VotesWellFormed
    <3>4. LocksFollowVotes'
      BY <3>1 DEF SafetyInv, LocksFollowVotes, Certified, Voters
    <3>5. VotesRespectLocks'
      BY <3>1, <3>2 DEF SafetyInv, VotesRespectLocks, Justifies, KnownBlocks
    <3>. QED BY <3>3, <3>4, <3>5 DEF SafetyInv
  <2>. QED BY <2>1, <2>2, <2>3 DEF Next
<1>. QED BY <1>1, <1>2, PTL DEF Spec

\* TypeOK is a conjunct of the inductive invariant.
THEOREM TypeCorrect == Spec => []TypeOK
<1>1. SafetyInv => TypeOK
  BY DEF SafetyInv
<1>. QED BY <1>1, SafetyInvariance, PTL

\* A masternode that signed both certificates voted once in that round, so the
\* certificates are for one block.
LEMMA OneCertificate ==
  ASSUME SafetyInv, NEW b, NEW c, Certified(b), Certified(c), RoundOf(b) = RoundOf(c)
  PROVE  b = c
<1>. b \in Block /\ c \in Block
  BY ParentCertified
<1>1. CASE b = SwitchBlock \/ c = SwitchBlock
  <2>1. RoundOf(SwitchBlock) = 0
    BY DEF RoundOf
  <2>. QED BY <1>1, <2>1, RoundOfType
<1>2. CASE b # SwitchBlock /\ c # SwitchBlock
  <2>1. PICK m \in Honest : /\ [signer |-> m, block |-> b] \in votes
                            /\ [signer |-> m, block |-> c] \in votes
    BY <1>2, CommonVoter
  <2>. QED BY <2>1 DEF SafetyInv, VotesRespectLocks
<1>. QED BY <1>1, <1>2

\* A nonempty set of natural numbers has a least element.
LEMMA LeastNumber ==
  ASSUME NEW T \in SUBSET Nat, T # {}
  PROVE  \E x \in T : \A y \in T : x <= y
<1>1. \E x \in T : \A y \in T : <<y, x>> \notin OpToRel(<, Nat)
  BY NatLessThanWellFounded, WFMin, Zenon
<1>2. \A x, y \in Nat : y < x => <<y, x>> \in OpToRel(<, Nat)
  BY DEF OpToRel
<1>3. PICK x \in T : \A y \in T : ~(y < x)
  BY <1>1, <1>2, Zenon
<1>4. \A y \in T : x <= y
  BY <1>3
<1>. QED BY <1>4

\* The heart of the argument: with a certified three-chain on top of g, every
\* certified block of g's round or later extends g.  A counterexample of least
\* round has a voter in common with the tip of the three-chain; the lock that
\* justified that voter's later vote is itself a smaller counterexample, or the
\* parent of the block is.
LEMMA ThreeChainIsFinal ==
  ASSUME SafetyInv, NEW b, Certified(b), ThreeChain(b), NEW c, Certified(c),
         RoundOf(c) >= RoundOf(GrandParentOf(b))
  PROVE  IsExtendingFromAncestor(c, GrandParentOf(b))
<1>. DEFINE g == GrandParentOf(b)
            p == ParentOf(b)
            Bad == {x \in KnownBlocks : /\ Certified(x)
                                        /\ RoundOf(x) >= RoundOf(g)
                                        /\ ~IsExtendingFromAncestor(x, g)}
            BadRounds == {RoundOf(x) : x \in Bad}
<1>1. /\ b \in Block /\ p \in Block /\ g \in Block
      /\ b # SwitchBlock /\ p # SwitchBlock /\ g # SwitchBlock
      /\ g = ParentOf(p)
      /\ Number(b) >= 2
  <2>1. b \in Block
    BY ParentCertified
  <2>2. Number(b) \in Nat /\ Number(b) > 2
    BY <2>1 DEF ThreeChain, Block, Number
  <2>3. g # SwitchBlock
    BY <2>1, <2>2, GrandParentProperties DEF SwitchBlock, Number
  <2>. QED BY <2>1, <2>2, <2>3, GrandParentProperties, ParentProperties
<1>2. Certified(p) /\ Certified(g)
  BY <1>1, ParentCertified
<1>3. /\ RoundOf(g) \in Nat
      /\ RoundOf(p) = RoundOf(g) + 1
      /\ RoundOf(b) = RoundOf(g) + 2
  BY <1>1, RoundOfType DEF ThreeChain
<1>4. /\ IsExtendingFromAncestor(g, g)
      /\ IsExtendingFromAncestor(p, g)
      /\ IsExtendingFromAncestor(b, g)
  BY <1>1, ExtendsOrder
<1>. HIDE DEF g, p
<1>5. SUFFICES ASSUME Bad # {} PROVE FALSE
  BY CertifiedIsKnown DEF g
<1>6. BadRounds \in SUBSET Nat /\ BadRounds # {}
  BY <1>5, ParentCertified, RoundOfType
<1>7. PICK x \in Bad : \A y \in Bad : RoundOf(x) <= RoundOf(y)
  <2>1. PICK r \in BadRounds : \A s \in BadRounds : r <= s
    BY <1>6, LeastNumber, Zenon
  <2>. QED BY <2>1
<1>8. x \in Block /\ RoundOf(x) \in Nat /\ Certified(x) /\ RoundOf(x) >= RoundOf(g)
  BY ParentCertified, RoundOfType
<1>9. RoundOf(x) > RoundOf(b)
  <2>1. RoundOf(x) # RoundOf(g) /\ RoundOf(x) # RoundOf(p) /\ RoundOf(x) # RoundOf(b)
    BY <1>2, <1>4, <1>8, OneCertificate
  <2>. QED BY <1>3, <1>8, <2>1
<1>10. x # SwitchBlock
  BY <1>3, <1>8, <1>9 DEF RoundOf
<1>11. PICK m \in Honest : /\ [signer |-> m, block |-> b] \in votes
                           /\ [signer |-> m, block |-> x] \in votes
  BY <1>1, <1>8, <1>10, CommonVoter, Zenon
<1>12. PICK lock \in KnownBlocks : Justifies(lock, b, x)
  BY <1>1, <1>9, <1>11 DEF SafetyInv, VotesRespectLocks
<1>13. /\ lock \in Block
       /\ RoundOf(lock) \in Nat
       /\ Certified(lock)
       /\ RoundOf(lock) >= RoundOf(g)
       /\ RoundOf(lock) < RoundOf(x)
       /\ RoundOf(ParentOf(x)) > RoundOf(lock) \/ IsExtendingFromAncestor(x, lock)
  BY <1>12, ParentCertified, RoundOfType DEF Justifies, g
<1>14. IsExtendingFromAncestor(lock, g)
  BY <1>7, <1>8, <1>13
<1>15. CASE IsExtendingFromAncestor(x, lock)
  BY <1>1, <1>8, <1>13, <1>14, <1>15, ExtendsOrder
<1>16. CASE RoundOf(ParentOf(x)) > RoundOf(lock)
  <2>1. /\ ParentOf(x) \in Block
        /\ RoundOf(ParentOf(x)) \in Nat
        /\ Certified(ParentOf(x))
        /\ RoundOf(ParentOf(x)) < RoundOf(x)
    BY <1>8, <1>10, <1>11, ParentProperties, RoundOfType DEF SafetyInv, VotesWellFormed
  <2>2. RoundOf(ParentOf(x)) >= RoundOf(g)
    BY <1>3, <1>13, <1>16, <2>1
  <2>3. IsExtendingFromAncestor(ParentOf(x), g)
    BY <1>7, <1>8, <2>1, <2>2, CertifiedIsKnown
  <2>. QED BY <1>1, <1>8, <1>10, <2>1, <2>3, ExtendsOrder
<1>. QED BY <1>13, <1>15, <1>16

\* Per round at most one block gathers a certificate, whatever the masternodes
\* that do not follow the rules sign.
THEOREM OneCertificatePerRoundHolds == Spec => []OneCertificatePerRound
<1>1. SafetyInv => OneCertificatePerRound
  BY OneCertificate DEF OneCertificatePerRound
<1>. QED BY <1>1, SafetyInvariance, PTL

\* A block on which processQC can reach a commit at any masternode is an
\* ancestor of every block certified in its round or later.
THEOREM CommittedIsFinalHolds == Spec => []CommittedIsFinal
<1>1. SafetyInv => CommittedIsFinal
  BY ThreeChainIsFinal DEF CommittedIsFinal, Committable
<1>. QED BY <1>1, SafetyInvariance, PTL

\* No two masternodes commit blocks of different branches.
THEOREM AgreementHolds == Spec => []Agreement
<1>1. SafetyInv => Agreement
  <2>. SUFFICES ASSUME SafetyInv,
                       NEW b \in KnownBlocks, Certified(b), ThreeChain(b),
                       NEW c \in KnownBlocks, Certified(c), ThreeChain(c)
                PROVE  SameBranch(GrandParentOf(b), GrandParentOf(c))
    BY DEF Agreement, Committable
  <2>1. b \in Block /\ c \in Block
    BY ParentCertified
  <2>2. Number(b) \in Nat /\ Number(b) >= 2 /\ Number(c) \in Nat /\ Number(c) >= 2
    BY <2>1 DEF ThreeChain, Block, Number
  <2>3. /\ GrandParentOf(b) \in Block /\ Certified(GrandParentOf(b))
        /\ GrandParentOf(c) \in Block /\ Certified(GrandParentOf(c))
    BY <2>1, <2>2, ParentCertified, GrandParentProperties
  <2>4. RoundOf(GrandParentOf(b)) \in Nat /\ RoundOf(GrandParentOf(c)) \in Nat
    BY <2>3, RoundOfType
  <2>5. CASE RoundOf(GrandParentOf(b)) >= RoundOf(GrandParentOf(c))
    BY <2>3, <2>5, ThreeChainIsFinal DEF SameBranch
  <2>6. CASE RoundOf(GrandParentOf(c)) >= RoundOf(GrandParentOf(b))
    BY <2>3, <2>6, ThreeChainIsFinal DEF SameBranch
  <2>. QED BY <2>4, <2>5, <2>6
<1>. QED BY <1>1, SafetyInvariance, PTL
=============================================================================
