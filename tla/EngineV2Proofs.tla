--------------------------- MODULE EngineV2Proofs ---------------------------
(***************************************************************************)
(* EngineV2 implements ChainedBFT, for every list of masternodes, threshold *)
(* and set of rounds: whatever the order of proposals, votes, timeouts and  *)
(* sync infos and whoever restarts, the votes and locks of the masternodes  *)
(* that do not restart are those of the abstract protocol.                  *)
(***************************************************************************)
EXTENDS EngineV2, BlocksProofs, FiniteSetTheorems, TLAPS

-----------------------------------------------------------------------------
(* The inductive invariant.  V and T are the votes and timeouts broadcast.  *)

SignersOf(V, b) == {m \in Masternodes : [signer |-> m, block |-> b] \in V}
TimedOut(T, r) == {m \in Masternodes : [signer |-> m, round |-> r] \in T}

\* A quorum certificate for b exists.
Signed(V, b) == b = SwitchBlock \/ ThresholdReached(SignersOf(V, b))

\* A header that verifyHeader accepts: its certificate is for its parent.
WellFormed(V, b) ==
  b # SwitchBlock => /\ RoundOf(ParentOf(b)) < RoundOf(b)
                     /\ Signed(V, ParentOf(b))

VoteMessage == [signer : Masternodes, block : Block]
TimeoutMessage == [signer : Masternodes, round : Nat]
SyncInfoMessage == [qc : Block \cup {Nil}, tc : Nat]

NodeState ==
  [ headers : SUBSET Block, head : Block, proposed : SUBSET Block, works : SUBSET Block,
    lastParentBlockCommit : Block \cup {Nil}, currentRound : Nat,
    highestSelfMinedRound : Nat, highestVotedRound : Nat,
    highestQuorumCert : Block \cup {Nil}, lockQuorumCert : Block \cup {Nil},
    highestTimeoutCert : Nat, highestCommitBlock : Block \cup {Nil},
    votePool : SUBSET VoteMessage, timeoutPool : SUBSET TimeoutMessage, timeoutCount : Nat ]

\* Blocks the node has stored, prepared or has to hand to the engine.
BlocksInv(V, x) ==
  /\ x.head \in x.headers /\ x.proposed \subseteq x.headers
  /\ \A b \in x.headers \cup x.works :
       WellFormed(V, b) /\ (b # SwitchBlock => ParentOf(b) \in x.headers)
  /\ \A b \in x.works \cup x.proposed : b # SwitchBlock

\* The certificates the node has processed.
CertificatesInv(V, T, x) ==
  /\ x.highestQuorumCert # Nil =>
       x.highestQuorumCert \in x.headers /\ Signed(V, x.highestQuorumCert)
  /\ x.highestTimeoutCert > 0 => ThresholdReached(TimedOut(T, x.highestTimeoutCert))
  /\ x.lockQuorumCert # Nil => /\ x.lockQuorumCert \in x.headers
                               /\ RoundOf(x.lockQuorumCert) < QCRound(x.highestQuorumCert)
  /\ x.highestCommitBlock # Nil =>
       \E b \in x.headers : /\ Signed(V, b) /\ Abs!ThreeChain(b)
                            /\ x.highestCommitBlock = GrandParentOf(b)

PoolsInv(V, T, x) ==
  /\ x.votePool \subseteq V
  /\ x.timeoutPool \subseteq T
  /\ \A t \in x.timeoutPool : t.round = x.currentRound

\* The round after the last certificate.
RoundInv(x) ==
  x.currentRound =
    (IF QCRound(x.highestQuorumCert) > x.highestTimeoutCert
       THEN QCRound(x.highestQuorumCert) ELSE x.highestTimeoutCert) + 1

NodeInv(V, T, x) ==
  /\ x \in NodeState
  /\ BlocksInv(V, x)
  /\ CertificatesInv(V, T, x)
  /\ PoolsInv(V, T, x)

MessagesInv ==
  /\ votes \subseteq VoteMessage
  /\ timeouts \subseteq TimeoutMessage
  /\ blocks \subseteq Block \ {SwitchBlock} /\ \A b \in blocks : WellFormed(votes, b)
  /\ syncInfos \subseteq SyncInfoMessage
  /\ \A s \in syncInfos : /\ s.qc # Nil => Signed(votes, s.qc)
                          /\ s.tc > 0 => ThresholdReached(TimedOut(timeouts, s.tc))

EngineInv ==
  /\ MessagesInv
  /\ DOMAIN node = Masternodes /\ node = [n \in Masternodes |-> node[n]]
  /\ \A n \in Masternodes :
       /\ NodeInv(votes, timeouts, node[n]) /\ RoundInv(node[n])
       /\ node[n].highestQuorumCert = Nil => n \in Restarting

-----------------------------------------------------------------------------
(* Counting signatures *)

\* The masternode list is finite.
LEMMA MasternodesFinite ==
  ASSUME NEW S \in SUBSET Masternodes
  PROVE  /\ IsFiniteSet(S)
         /\ Cardinality(S) \in Nat
         /\ IsFiniteSet(Masternodes)
         /\ Cardinality(Masternodes) \in Nat
<1>1. /\ MasternodeList \in Seq(Masternodes)
      /\ Len(MasternodeList) \in Nat
      /\ MasternodeList \in [1..Len(MasternodeList) -> Masternodes]
  BY ParametersAssumption DEF ParametersAssumption
<1>2. MasternodeList \in Surjection(1..Len(MasternodeList), Masternodes)
  BY <1>1 DEF Surjection, Masternodes
<1>3. IsFiniteSet(Masternodes)
  BY <1>1, <1>2, FS_Interval, FS_Surjection
<1>. QED BY <1>3, FS_Subset, FS_CardinalityType

\* The threshold parameters are numbers.
LEMMA ThresholdType == CertNum \in Nat /\ CertDen \in Nat \ {0}
  BY ParametersAssumption DEF ParametersAssumption

\* A set with at least as many members reaches the threshold of voteHandler and
\* timeoutHandler too.
LEMMA ThresholdMonotone ==
  ASSUME NEW S, NEW T, Cardinality(S) \in Nat, Cardinality(T) \in Nat,
         Cardinality(S) <= Cardinality(T), ThresholdReached(S)
  PROVE  ThresholdReached(T)
<1>. DEFINE s == Cardinality(S)
            t == Cardinality(T)
            n == CertNum * Cardinality(Masternodes)
<1>1. n \in Nat
  BY MasternodesFinite, ThresholdType
<1>2. s * CertDen >= n
  BY DEF ThresholdReached
<1>3. s \in Nat /\ t \in Nat /\ s <= t
  OBVIOUS
<1>4. s * CertDen <= t * CertDen
  <2>. HIDE DEF s, t
  <2>. QED BY <1>3, ThresholdType
<1>5. t * CertDen >= n
  <2>. HIDE DEF s, t, n
  <2>. QED BY <1>1, <1>2, <1>3, <1>4, ThresholdType
<1>. QED BY <1>5 DEF ThresholdReached

\* A full pool of votes for one block is a certificate: the pool holds one vote
\* per signer.
LEMMA FullVotePool ==
  ASSUME NEW V \in SUBSET VoteMessage, NEW b,
         NEW P \in SUBSET V, \A v \in P : v.block = b, ThresholdReached(P)
  PROVE  Signed(V, b)
<1>. DEFINE S == SignersOf(V, b)
            f == [v \in P |-> v.signer]
<1>1. \A v \in P : v.signer \in Masternodes /\ v = [signer |-> v.signer, block |-> b]
  BY DEF VoteMessage
<1>2. f \in Injection(P, S)
  BY <1>1 DEF Injection, IsInjective, SignersOf
<1>3. S \in SUBSET Masternodes
  BY DEF SignersOf
<1>4. IsFiniteSet(S) /\ Cardinality(S) \in Nat
  BY <1>3, MasternodesFinite
<1>5. IsFiniteSet(P) /\ Cardinality(P) <= Cardinality(S)
  BY <1>2, <1>4, FS_Injection
<1>6. Cardinality(P) \in Nat
  BY <1>5, FS_CardinalityType
<1>. QED BY <1>4, <1>5, <1>6, ThresholdMonotone DEF Signed

\* The same of a full pool of timeouts of one round.
LEMMA FullTimeoutPool ==
  ASSUME NEW T \in SUBSET TimeoutMessage, NEW r,
         NEW P \in SUBSET T, \A t \in P : t.round = r, ThresholdReached(P)
  PROVE  ThresholdReached(TimedOut(T, r))
<1>. DEFINE S == TimedOut(T, r)
            f == [t \in P |-> t.signer]
<1>1. \A t \in P : t.signer \in Masternodes /\ t = [signer |-> t.signer, round |-> r]
  BY DEF TimeoutMessage
<1>2. f \in Injection(P, S)
  BY <1>1 DEF Injection, IsInjective, TimedOut
<1>3. S \in SUBSET Masternodes
  BY DEF TimedOut
<1>4. IsFiniteSet(S) /\ Cardinality(S) \in Nat
  BY <1>3, MasternodesFinite
<1>5. IsFiniteSet(P) /\ Cardinality(P) <= Cardinality(S)
  BY <1>2, <1>4, FS_Injection
<1>6. Cardinality(P) \in Nat
  BY <1>5, FS_CardinalityType
<1>. QED BY <1>4, <1>5, <1>6, ThresholdMonotone

\* Messages are never withdrawn, so certificates stay certificates.
LEMMA SignedStable ==
  ASSUME NEW V, NEW W, V \subseteq W
  PROVE  /\ \A b : Signed(V, b) => Signed(W, b)
         /\ \A b : WellFormed(V, b) => WellFormed(W, b)
         /\ \A r : ThresholdReached(TimedOut(V, r)) => ThresholdReached(TimedOut(W, r))
<1>1. ASSUME NEW S \in SUBSET Masternodes, NEW T \in SUBSET Masternodes, S \subseteq T,
             ThresholdReached(S)
      PROVE  ThresholdReached(T)
  <2>1. Cardinality(S) \in Nat /\ Cardinality(T) \in Nat /\ Cardinality(S) <= Cardinality(T)
    BY <1>1, MasternodesFinite, FS_Subset
  <2>. QED BY <1>1, <2>1, ThresholdMonotone
<1>2. \A b : SignersOf(V, b) \subseteq SignersOf(W, b) /\ SignersOf(W, b) \subseteq Masternodes
  BY DEF SignersOf
<1>3. \A r : TimedOut(V, r) \subseteq TimedOut(W, r) /\ TimedOut(W, r) \subseteq Masternodes
  BY DEF TimedOut
<1>4. \A b : Signed(V, b) => Signed(W, b)
  BY <1>1, <1>2 DEF Signed
<1>5. \A b : WellFormed(V, b) => WellFormed(W, b)
  BY <1>4 DEF WellFormed
<1>6. \A r : ThresholdReached(TimedOut(V, r)) => ThresholdReached(TimedOut(W, r))
  BY <1>1, <1>3
<1>. QED BY <1>4, <1>5, <1>6

\* The invariant of a node survives new votes and timeouts.
LEMMA NodeInvStable ==
  ASSUME NEW V, NEW W, V \subseteq W, NEW T, NEW U, T \subseteq U, NEW x, NodeInv(V, T, x)
  PROVE  NodeInv(W, U, x)
<1>1. BlocksInv(W, x)
  BY SignedStable DEF NodeInv, BlocksInv
<1>2. CertificatesInv(W, U, x)
  BY SignedStable DEF NodeInv, CertificatesInv
<1>3. PoolsInv(W, U, x)
  BY DEF NodeInv, PoolsInv
<1>. QED BY <1>1, <1>2, <1>3 DEF NodeInv

\* From x to y a node keeps its chain and certificates, gets no new work and at
\* most drops pooled messages.
Keeps(x, y) ==
  /\ y.headers = x.headers /\ y.head = x.head
  /\ y.proposed \subseteq x.proposed /\ y.works \subseteq x.works
  /\ y.currentRound = x.currentRound
  /\ y.votePool \subseteq x.votePool /\ y.timeoutPool \subseteq x.timeoutPool
  /\ y.highestQuorumCert = x.highestQuorumCert /\ y.lockQuorumCert = x.lockQuorumCert
  /\ y.highestTimeoutCert = x.highestTimeoutCert
  /\ y.highestCommitBlock = x.highestCommitBlock

\* Such a step keeps the invariant: Seal, the queue of proposals, the counters of
\* sendVote and OnCountdownTimeout, and the pool cleaning of periodicJob.
LEMMA KeepsInv ==
  ASSUME NEW V, NEW T, NEW x, NodeInv(V, T, x), RoundInv(x), NEW y \in NodeState, Keeps(x, y)
  PROVE  NodeInv(V, T, y) /\ RoundInv(y)
<1>1. BlocksInv(V, y)
  BY DEF NodeInv, BlocksInv, Keeps
<1>2. CertificatesInv(V, T, y)
  BY DEF NodeInv, CertificatesInv, Keeps
<1>3. PoolsInv(V, T, y)
  BY DEF NodeInv, PoolsInv, Keeps
<1>4. RoundInv(y)
  BY DEF RoundInv, Keeps
<1>. QED BY <1>1, <1>2, <1>3, <1>4, Zenon DEF NodeInv

-----------------------------------------------------------------------------
(* The handlers, as functions of the state of a node *)

\* The operators of the instance are those of Blocks.
LEMMA AbsOperators ==
  /\ Abs!SwitchBlock = SwitchBlock
  /\ \A b : /\ Abs!RoundOf(b) = RoundOf(b)
            /\ Abs!ParentOf(b) = ParentOf(b)
            /\ Abs!GrandParentOf(b) = GrandParentOf(b)
            /\ Abs!Number(b) = Number(b)
  /\ \A a, b : Abs!IsExtendingFromAncestor(a, b) = IsExtendingFromAncestor(a, b)
  /\ \A p, r, body : Abs!Child(p, r, body) = Child(p, r, body)
  BY DEF Abs!SwitchBlock, SwitchBlock, Abs!RoundOf, RoundOf, Abs!ParentOf, ParentOf,
         Abs!GrandParentOf, GrandParentOf, Abs!AncestorAt, AncestorAt, Abs!Number, Number,
         Abs!IsExtendingFromAncestor, IsExtendingFromAncestor, Abs!Child, Child

\* The rounds of certificates are natural numbers; the nil pointer is no block.
LEMMA QCRoundType ==
  ASSUME NEW qc \in Block \cup {Nil}
  PROVE  /\ QCRound(qc) \in Nat
         /\ qc # Nil => qc \in Block /\ QCRound(qc) = RoundOf(qc)
  BY RoundOfType DEF QCRound

\* updateHighestQC, updateLock, commitBlocks and setNewRound each write their own
\* fields.
LEMMA UpdateHighestQCFields ==
  ASSUME NEW x \in NodeState, NEW qc \in Block
  PROVE  /\ UpdateHighestQC(x, qc) \in NodeState
         /\ UpdateHighestQC(x, qc) =
              [x EXCEPT !.highestQuorumCert =
                 IF QCRound(qc) > QCRound(x.highestQuorumCert) THEN qc ELSE x.highestQuorumCert]
  BY DEF UpdateHighestQC, NodeState

\* The lock moves as NewLock says.
LEMMA UpdateLockFields ==
  ASSUME NEW x \in NodeState, NEW qc \in Block, qc # SwitchBlock
  PROVE  /\ UpdateLock(x, qc) \in NodeState
         /\ UpdateLock(x, qc) =
              [x EXCEPT !.lockQuorumCert = Abs!NewLock(x.lockQuorumCert, qc)]
<1>1. ParentOf(qc) \in Block
  BY ParentProperties
<1>. QED BY <1>1, AbsOperators DEF UpdateLock, NodeState, Abs!NewLock

\* A certificate for qc commits its grandparent in place of the block commit.
Commits(commit, qc) ==
  /\ Abs!ThreeChain(qc)
  /\ commit # Nil => /\ RoundOf(commit) < RoundOf(GrandParentOf(qc))
                     /\ Number(commit) <= Number(GrandParentOf(qc))

\* commitBlocks moves the committed block only forward.
LEMMA CommitBlocksFields ==
  ASSUME NEW x \in NodeState, NEW qc \in Block
  PROVE  /\ CommitBlocks(x, qc) \in NodeState
         /\ \/ CommitBlocks(x, qc) = x
            \/ /\ Commits(x.highestCommitBlock, qc)
               /\ CommitBlocks(x, qc) = [x EXCEPT !.highestCommitBlock = GrandParentOf(qc)]
<1>1. Number(qc) \in Nat
  BY DEF Block, Number
<1>2. Number(qc) > 2 => GrandParentOf(qc) \in Block
  BY <1>1, GrandParentProperties
<1>3. CASE CommitBlocks(x, qc) = x
  BY <1>3
<1>4. CASE CommitBlocks(x, qc) # x
  <2>1. /\ Number(qc) > 2
        /\ RoundOf(ParentOf(qc)) = RoundOf(qc) - 1
        /\ RoundOf(GrandParentOf(qc)) = RoundOf(qc) - 2
        /\ x.highestCommitBlock # Nil =>
             /\ RoundOf(x.highestCommitBlock) < RoundOf(GrandParentOf(qc))
             /\ Number(x.highestCommitBlock) <= Number(GrandParentOf(qc))
        /\ CommitBlocks(x, qc) = [x EXCEPT !.highestCommitBlock = GrandParentOf(qc)]
    BY <1>4 DEF CommitBlocks
  <2>2. CommitBlocks(x, qc) \in NodeState
    BY <1>2, <2>1 DEF NodeState
  <2>. QED BY <2>1, <2>2, AbsOperators, Zenon DEF Commits, Abs!ThreeChain
<1>. QED BY <1>3, <1>4

\* setNewRound leaves a node state.
LEMMA SetNewRoundFields ==
  ASSUME NEW x \in NodeState, NEW r \in Nat
  PROVE  SetNewRound(x, r) \in NodeState
  BY Zenon DEF SetNewRound, NodeState

\* What processQC does to a node that knows the certified block.
LEMMA ProcessQCFields ==
  ASSUME NEW x \in NodeState, NEW qc \in x.headers, NEW y, y = ProcessQC(x, qc)
  PROVE  /\ y \in NodeState
         /\ y.headers = x.headers /\ y.head = x.head
         /\ y.proposed = x.proposed /\ y.works = x.works
         /\ y.highestVotedRound = x.highestVotedRound
         /\ y.highestTimeoutCert = x.highestTimeoutCert
         /\ y.votePool = x.votePool
         /\ y.highestQuorumCert = IF QCRound(qc) > QCRound(x.highestQuorumCert)
                                    THEN qc ELSE x.highestQuorumCert
         /\ y.lockQuorumCert = Abs!NewLock(x.lockQuorumCert, qc)
         /\ \/ y.highestCommitBlock = x.highestCommitBlock
            \/ Commits(x.highestCommitBlock, qc) /\ y.highestCommitBlock = GrandParentOf(qc)
         /\ IF QCRound(qc) >= x.currentRound
              THEN y.currentRound = QCRound(qc) + 1 /\ y.timeoutPool = {}
              ELSE y.currentRound = x.currentRound /\ y.timeoutPool = x.timeoutPool
<1>. DEFINE u == UpdateHighestQC(x, qc)
            w == UpdateLock(u, qc)
            z == IF qc = SwitchBlock THEN u ELSE CommitBlocks(w, qc)
<1>1. qc \in Block /\ QCRound(qc) \in Nat
  BY QCRoundType DEF NodeState
<1>2. /\ u \in NodeState
      /\ u = [x EXCEPT !.highestQuorumCert =
                IF QCRound(qc) > QCRound(x.highestQuorumCert) THEN qc ELSE x.highestQuorumCert]
  BY <1>1, UpdateHighestQCFields
<1>3. qc = SwitchBlock => Abs!NewLock(x.lockQuorumCert, qc) = x.lockQuorumCert
  BY AbsOperators, ZenonT(30) DEF Abs!NewLock
<1>4. /\ z \in NodeState
      /\ z.headers = x.headers /\ z.head = x.head
      /\ z.proposed = x.proposed /\ z.works = x.works
      /\ z.highestVotedRound = x.highestVotedRound
      /\ z.highestTimeoutCert = x.highestTimeoutCert
      /\ z.votePool = x.votePool
      /\ z.currentRound = x.currentRound /\ z.timeoutPool = x.timeoutPool
      /\ z.highestQuorumCert = u.highestQuorumCert
      /\ z.lockQuorumCert = Abs!NewLock(x.lockQuorumCert, qc)
      /\ \/ z.highestCommitBlock = x.highestCommitBlock
         \/ Commits(x.highestCommitBlock, qc) /\ z.highestCommitBlock = GrandParentOf(qc)
  <2>1. CASE qc = SwitchBlock
    <3>. HIDE DEF u
    <3>. QED BY <1>2, <1>3, <2>1 DEF NodeState
  <2>2. CASE qc # SwitchBlock
    <3>1. /\ w \in NodeState
          /\ w = [u EXCEPT !.lockQuorumCert = Abs!NewLock(u.lockQuorumCert, qc)]
      BY <1>1, <1>2, <2>2, UpdateLockFields, Zenon
    <3>2. /\ z \in NodeState
          /\ \/ z = w
             \/ /\ Commits(w.highestCommitBlock, qc)
                /\ z = [w EXCEPT !.highestCommitBlock = GrandParentOf(qc)]
      BY <1>1, <2>2, <3>1, CommitBlocksFields, Zenon
    <3>. HIDE DEF u, w, z
    <3>3. /\ w.headers = x.headers /\ w.head = x.head
          /\ w.proposed = x.proposed /\ w.works = x.works
          /\ w.highestVotedRound = x.highestVotedRound
          /\ w.highestTimeoutCert = x.highestTimeoutCert
          /\ w.votePool = x.votePool
          /\ w.currentRound = x.currentRound /\ w.timeoutPool = x.timeoutPool
          /\ w.highestQuorumCert = u.highestQuorumCert
          /\ w.lockQuorumCert = Abs!NewLock(x.lockQuorumCert, qc)
          /\ w.highestCommitBlock = x.highestCommitBlock
      BY <1>2, <3>1 DEF NodeState
    <3>4. CASE z = w
      BY <3>2, <3>3, <3>4
    <3>5. CASE /\ Commits(w.highestCommitBlock, qc)
               /\ z = [w EXCEPT !.highestCommitBlock = GrandParentOf(qc)]
      BY <3>1, <3>2, <3>3, <3>5, Zenon DEF NodeState
    <3>. QED BY <3>2, <3>4, <3>5
  <2>. QED BY <2>1, <2>2, Zenon
<1>5. y = IF QCRound(qc) >= x.currentRound THEN SetNewRound(z, QCRound(qc) + 1) ELSE z
  BY ZenonT(30) DEF ProcessQC
<1>6. SetNewRound(z, QCRound(qc) + 1) \in NodeState
  BY <1>1, <1>4, SetNewRoundFields
<1>7. u.highestQuorumCert = IF QCRound(qc) > QCRound(x.highestQuorumCert)
                              THEN qc ELSE x.highestQuorumCert
  <2>. HIDE DEF u
  <2>. QED BY <1>2, Zenon DEF NodeState
<1>. HIDE DEF u, z
<1>. QED BY <1>4, <1>5, <1>6, <1>7 DEF SetNewRound, NodeState

\* A node that just started has processed no certificate.
Started(x) ==
  x.currentRound = 0 /\ x.highestQuorumCert = Nil /\ x.highestTimeoutCert = 0

\* processQC keeps the invariant of a node, and puts it into the round after its
\* certificates.
LEMMA ProcessQCInv ==
  ASSUME NEW V, NEW T, NEW x, NodeInv(V, T, x), RoundInv(x) \/ Started(x),
         NEW qc \in x.headers, Signed(V, qc), NEW y, y = ProcessQC(x, qc)
  PROVE  NodeInv(V, T, y) /\ RoundInv(y)
<1>1. x \in NodeState
  BY Zenon DEF NodeInv
<1>2. /\ y \in NodeState
      /\ y.headers = x.headers /\ y.head = x.head
      /\ y.proposed = x.proposed /\ y.works = x.works
      /\ y.highestTimeoutCert = x.highestTimeoutCert
      /\ y.votePool = x.votePool
      /\ y.highestQuorumCert = IF QCRound(qc) > QCRound(x.highestQuorumCert)
                                 THEN qc ELSE x.highestQuorumCert
      /\ y.lockQuorumCert = Abs!NewLock(x.lockQuorumCert, qc)
      /\ \/ y.highestCommitBlock = x.highestCommitBlock
         \/ Abs!ThreeChain(qc) /\ y.highestCommitBlock = GrandParentOf(qc)
      /\ IF QCRound(qc) >= x.currentRound
           THEN y.currentRound = QCRound(qc) + 1 /\ y.timeoutPool = {}
           ELSE y.currentRound = x.currentRound /\ y.timeoutPool = x.timeoutPool
  BY <1>1, ProcessQCFields DEF Commits
<1>3. /\ qc \in Block /\ QCRound(qc) = RoundOf(qc) /\ RoundOf(qc) \in Nat
      /\ QCRound(x.highestQuorumCert) \in Nat
      /\ x.highestTimeoutCert \in Nat /\ x.currentRound \in Nat
      /\ x.lockQuorumCert # Nil => RoundOf(x.lockQuorumCert) \in Nat
  BY <1>1, QCRoundType, RoundOfType, NilAssumption, ZenonT(30) DEF NodeState, NilAssumption
<1>4. BlocksInv(V, y)
  BY <1>2, Zenon DEF NodeInv, BlocksInv
<1>5. QCRound(y.highestQuorumCert) >= QCRound(x.highestQuorumCert)
      /\ QCRound(y.highestQuorumCert) >= RoundOf(qc)
  BY <1>2, <1>3
<1>6. CertificatesInv(V, T, y)
  <2>1. y.highestQuorumCert # Nil =>
          y.highestQuorumCert \in y.headers /\ Signed(V, y.highestQuorumCert)
    BY <1>2, Zenon DEF NodeInv, CertificatesInv
  <2>2. y.highestTimeoutCert > 0 => ThresholdReached(TimedOut(T, y.highestTimeoutCert))
    BY <1>2, Zenon DEF NodeInv, CertificatesInv
  <2>3. y.lockQuorumCert # Nil => /\ y.lockQuorumCert \in y.headers
                                  /\ RoundOf(y.lockQuorumCert) < QCRound(y.highestQuorumCert)
    <3>1. CASE y.lockQuorumCert = x.lockQuorumCert
      <4>1. x.lockQuorumCert # Nil => /\ x.lockQuorumCert \in x.headers
                                      /\ RoundOf(x.lockQuorumCert) < QCRound(x.highestQuorumCert)
        BY Zenon DEF NodeInv, CertificatesInv
      <4>2. QCRound(y.highestQuorumCert) \in Nat
        BY <1>2, QCRoundType, Zenon DEF NodeState
      <4>3. \A i, j, k \in Nat : i < j /\ k >= j => i < k
        OBVIOUS
      <4>. QED BY <1>2, <1>3, <1>5, <3>1, <4>1, <4>2, <4>3, Zenon
    <3>2. CASE y.lockQuorumCert # x.lockQuorumCert
      <4>1. qc # SwitchBlock /\ y.lockQuorumCert = ParentOf(qc)
        BY <1>2, <3>2, AbsOperators, ZenonT(30) DEF Abs!NewLock
      <4>2. ParentOf(qc) \in x.headers /\ RoundOf(ParentOf(qc)) < RoundOf(qc)
        BY <4>1 DEF NodeInv, BlocksInv, WellFormed
      <4>3. RoundOf(ParentOf(qc)) \in Nat /\ QCRound(y.highestQuorumCert) \in Nat
        BY <1>2, <4>1, <1>3, ParentProperties, RoundOfType, QCRoundType, Zenon DEF NodeState
      <4>. QED BY <1>2, <1>3, <1>5, <4>1, <4>2, <4>3
    <3>. QED BY <3>1, <3>2, Zenon
  <2>4. y.highestCommitBlock # Nil =>
          \E b \in y.headers : /\ Signed(V, b) /\ Abs!ThreeChain(b)
                               /\ y.highestCommitBlock = GrandParentOf(b)
    BY <1>2, Zenon DEF NodeInv, CertificatesInv
  <2>. QED BY <2>1, <2>2, <2>3, <2>4, Zenon DEF CertificatesInv
<1>7. PoolsInv(V, T, y)
  BY <1>2, Zenon DEF NodeInv, PoolsInv
<1>8. RoundInv(y)
  <2>1. QCRound(y.highestQuorumCert) = IF QCRound(qc) > QCRound(x.highestQuorumCert)
                                         THEN QCRound(qc) ELSE QCRound(x.highestQuorumCert)
    BY <1>2
  <2>2. Started(x) => QCRound(x.highestQuorumCert) = 0
    BY DEF Started, QCRound
  <2>. QED BY <1>2, <1>3, <2>1, <2>2 DEF RoundInv, Started
<1>. QED BY <1>2, <1>4, <1>6, <1>7, <1>8, Zenon DEF NodeInv

\* A node without certificates has none after processQC only if it had none.
LEMMA ProcessQCKeepsQC ==
  ASSUME NEW x \in NodeState, NEW qc \in x.headers, x.highestQuorumCert # Nil
  PROVE  ProcessQC(x, qc).highestQuorumCert # Nil
  BY ProcessQCFields, NilAssumption DEF NilAssumption, NodeState

\* voteHandler adds a vote and, when its pool is full, processes the certificate.
LEMMA VoteHandlerInv ==
  ASSUME NEW V \in SUBSET VoteMessage, NEW T, NEW x, NodeInv(V, T, x), RoundInv(x),
         NEW vote \in V, NEW y, y = VoteHandler(x, vote)
  PROVE  /\ NodeInv(V, T, y) /\ RoundInv(y)
         /\ x.highestQuorumCert # Nil => y.highestQuorumCert # Nil
         /\ y.highestVotedRound = x.highestVotedRound
         /\ \/ y.lockQuorumCert = x.lockQuorumCert
            \/ /\ vote.block \in x.headers /\ Signed(V, vote.block)
               /\ y.lockQuorumCert = Abs!NewLock(x.lockQuorumCert, vote.block)
<1>. DEFINE z == [x EXCEPT !.votePool = @ \cup {vote}]
            P == PooledVotes(z, vote.block)
<1>1. x \in NodeState /\ vote \in VoteMessage
  BY DEF NodeInv
<1>2. z \in NodeState /\ z.votePool = x.votePool \cup {vote}
  BY <1>1 DEF NodeState
<1>3. /\ z.headers = x.headers /\ z.head = x.head
      /\ z.proposed = x.proposed /\ z.works = x.works
      /\ z.currentRound = x.currentRound /\ z.timeoutPool = x.timeoutPool
      /\ z.highestQuorumCert = x.highestQuorumCert /\ z.lockQuorumCert = x.lockQuorumCert
      /\ z.highestTimeoutCert = x.highestTimeoutCert
      /\ z.highestVotedRound = x.highestVotedRound
      /\ z.highestCommitBlock = x.highestCommitBlock
  BY <1>1 DEF NodeState
<1>. HIDE DEF z
<1>4. NodeInv(V, T, z) /\ RoundInv(z)
  <2>1. BlocksInv(V, z)
    BY <1>3, Zenon DEF NodeInv, BlocksInv
  <2>2. CertificatesInv(V, T, z)
    BY <1>3, Zenon DEF NodeInv, CertificatesInv
  <2>3. PoolsInv(V, T, z)
    BY <1>2, <1>3, Zenon DEF NodeInv, PoolsInv
  <2>4. RoundInv(z)
    BY <1>3 DEF RoundInv
  <2>. QED BY <1>2, <2>1, <2>2, <2>3, <2>4, Zenon DEF NodeInv
<1>5. CASE vote.block \in x.headers /\ ThresholdReached(P)
  <2>1. y = ProcessQC(z, vote.block)
    BY <1>5 DEF VoteHandler, z
  <2>2. P \subseteq V /\ \A v \in P : v.block = vote.block
    BY <1>4, Zenon DEF PooledVotes, NodeInv, PoolsInv
  <2>3. Signed(V, vote.block)
    BY <1>5, <2>2, FullVotePool, Zenon
  <2>4. vote.block \in z.headers
    BY <1>3, <1>5
  <2>5. NodeInv(V, T, y) /\ RoundInv(y)
    BY <1>4, <2>1, <2>3, <2>4, ProcessQCInv, Zenon
  <2>6. /\ y.highestVotedRound = x.highestVotedRound
        /\ y.lockQuorumCert = Abs!NewLock(x.lockQuorumCert, vote.block)
    BY <1>2, <1>3, <2>1, <2>4, ProcessQCFields
  <2>7. x.highestQuorumCert # Nil => y.highestQuorumCert # Nil
    BY <1>2, <1>3, <2>1, <2>4, ProcessQCKeepsQC, Zenon
  <2>. QED BY <1>5, <2>3, <2>5, <2>6, <2>7, Zenon
<1>6. CASE ~(vote.block \in x.headers /\ ThresholdReached(P))
  <2>1. y = z
    BY <1>6, Zenon DEF VoteHandler, z
  <2>. QED BY <1>3, <1>4, <2>1, Zenon
<1>. QED BY <1>5, <1>6, Zenon

\* processTC raises the highest timeout certificate and the round.
LEMMA ProcessTCInv ==
  ASSUME NEW V, NEW T, NEW x, NodeInv(V, T, x), RoundInv(x),
         NEW r \in Nat, r > 0 => ThresholdReached(TimedOut(T, r)),
         NEW y, y = ProcessTC(x, r)
  PROVE  /\ NodeInv(V, T, y) /\ RoundInv(y)
         /\ y.highestQuorumCert = x.highestQuorumCert
         /\ y.highestVotedRound = x.highestVotedRound
         /\ y.lockQuorumCert = x.lockQuorumCert
         /\ y.timeoutCount \in Nat
<1>1. x \in NodeState
  BY DEF NodeInv
<1>2. /\ y \in NodeState
      /\ y.headers = x.headers /\ y.head = x.head
      /\ y.proposed = x.proposed /\ y.works = x.works
      /\ y.votePool = x.votePool
      /\ y.highestQuorumCert = x.highestQuorumCert /\ y.lockQuorumCert = x.lockQuorumCert
      /\ y.highestVotedRound = x.highestVotedRound
      /\ y.highestCommitBlock = x.highestCommitBlock
      /\ y.highestTimeoutCert = IF r > x.highestTimeoutCert THEN r ELSE x.highestTimeoutCert
      /\ IF r >= x.currentRound
           THEN y.currentRound = r + 1 /\ y.timeoutPool = {}
           ELSE y.currentRound = x.currentRound /\ y.timeoutPool = x.timeoutPool
  <2>. DEFINE z == IF r > x.highestTimeoutCert THEN [x EXCEPT !.highestTimeoutCert = r] ELSE x
  <2>1. /\ z \in NodeState
        /\ z.headers = x.headers /\ z.head = x.head
        /\ z.proposed = x.proposed /\ z.works = x.works
        /\ z.votePool = x.votePool
        /\ z.highestQuorumCert = x.highestQuorumCert /\ z.lockQuorumCert = x.lockQuorumCert
        /\ z.highestVotedRound = x.highestVotedRound
        /\ z.highestCommitBlock = x.highestCommitBlock
        /\ z.highestTimeoutCert = IF r > x.highestTimeoutCert THEN r ELSE x.highestTimeoutCert
        /\ z.currentRound = x.currentRound /\ z.timeoutPool = x.timeoutPool
    BY <1>1 DEF NodeState
  <2>2. y = IF r >= x.currentRound THEN SetNewRound(z, r + 1) ELSE z
    BY DEF ProcessTC
  <2>3. SetNewRound(z, r + 1) \in NodeState
    BY <2>1, SetNewRoundFields
  <2>. HIDE DEF z
  <2>. QED BY <2>1, <2>2, <2>3, Zenon DEF SetNewRound, NodeState
<1>3. /\ QCRound(x.highestQuorumCert) \in Nat
      /\ x.highestTimeoutCert \in Nat /\ x.currentRound \in Nat
  BY <1>1, QCRoundType, Zenon DEF NodeState
<1>4. BlocksInv(V, y)
  BY <1>2, Zenon DEF NodeInv, BlocksInv
<1>5. CertificatesInv(V, T, y)
  BY <1>2, Zenon DEF NodeInv, CertificatesInv
<1>6. PoolsInv(V, T, y)
  BY <1>2, Zenon DEF NodeInv, PoolsInv
<1>7. RoundInv(y)
  BY <1>2, <1>3 DEF RoundInv
<1>8. y.timeoutCount \in Nat
  BY <1>2 DEF NodeState
<1>. QED BY <1>2, <1>4, <1>5, <1>6, <1>7, <1>8, Zenon DEF NodeInv

\* timeoutHandler adds a timeout of the current round and, when the pool is full,
\* processes the timeout certificate.
LEMMA TimeoutHandlerInv ==
  ASSUME NEW V, NEW T \in SUBSET TimeoutMessage, NEW x, NodeInv(V, T, x), RoundInv(x),
         NEW timeout \in T, timeout.round = x.currentRound,
         NEW y, y = TimeoutHandler(x, timeout)
  PROVE  /\ NodeInv(V, T, y) /\ RoundInv(y)
         /\ y.highestQuorumCert = x.highestQuorumCert
         /\ y.highestVotedRound = x.highestVotedRound
         /\ y.lockQuorumCert = x.lockQuorumCert
<1>. DEFINE P == x.timeoutPool \cup {timeout}
            z == [x EXCEPT !.timeoutPool = @ \cup {timeout}]
<1>1. x \in NodeState /\ timeout \in TimeoutMessage /\ timeout.round \in Nat
  BY DEF NodeInv, TimeoutMessage
<1>2. z \in NodeState /\ z.timeoutPool = P
  BY <1>1 DEF NodeState
<1>3. /\ z.headers = x.headers /\ z.head = x.head
      /\ z.proposed = x.proposed /\ z.works = x.works
      /\ z.currentRound = x.currentRound /\ z.votePool = x.votePool
      /\ z.highestQuorumCert = x.highestQuorumCert /\ z.lockQuorumCert = x.lockQuorumCert
      /\ z.highestTimeoutCert = x.highestTimeoutCert
      /\ z.highestVotedRound = x.highestVotedRound
      /\ z.highestCommitBlock = x.highestCommitBlock
  BY <1>1 DEF NodeState
<1>. HIDE DEF z
<1>4. P \subseteq T /\ \A t \in P : t.round = x.currentRound
  BY DEF NodeInv, PoolsInv
<1>5. NodeInv(V, T, z) /\ RoundInv(z)
  <2>1. BlocksInv(V, z)
    BY <1>3, Zenon DEF NodeInv, BlocksInv
  <2>2. CertificatesInv(V, T, z)
    BY <1>3, Zenon DEF NodeInv, CertificatesInv
  <2>3. PoolsInv(V, T, z)
    BY <1>2, <1>3, <1>4, ZenonT(30) DEF NodeInv, PoolsInv
  <2>4. RoundInv(z)
    BY <1>3, Zenon DEF RoundInv
  <2>. QED BY <1>2, <2>1, <2>2, <2>3, <2>4, Zenon DEF NodeInv
<1>6. CASE FormsTC(x, timeout)
  <2>1. y = ProcessTC(z, timeout.round)
    BY <1>6, Zenon DEF TimeoutHandler, z
  <2>2. ThresholdReached(TimedOut(T, timeout.round))
    BY <1>4, <1>6, FullTimeoutPool, ZenonT(30) DEF FormsTC
  <2>. QED BY <1>1, <1>3, <1>5, <2>1, <2>2, ProcessTCInv
<1>7. CASE ~FormsTC(x, timeout)
  <2>1. y = z
    BY <1>7 DEF TimeoutHandler, z
  <2>. QED BY <1>3, <1>5, <2>1, Zenon
<1>. QED BY <1>6, <1>7, Zenon

\* The sync info of a node carries valid certificates.
LEMMA SyncInfoValid ==
  ASSUME NEW V, NEW T, NEW x, NodeInv(V, T, x), NEW s, s = GetSyncInfo(x)
  PROVE  /\ s \in SyncInfoMessage
         /\ s.qc # Nil => Signed(V, s.qc)
         /\ s.tc > 0 => ThresholdReached(TimedOut(T, s.tc))
  BY Zenon DEF NodeInv, CertificatesInv, GetSyncInfo, SyncInfoMessage, NodeState

\* The node after it has written b and, unless that failed, will hand it to the
\* engine.
Written(x, b) ==
  LET y == WriteBlock(x, b)
  IN  IF ReorgRefused(x, b) THEN y ELSE [y EXCEPT !.proposed = @ \cup {b}]

\* A node stores a well-formed block whose parent it has, and may have to hand it
\* to the engine.
LEMMA WriteBlockInv ==
  ASSUME NEW V, NEW T, NEW x, NodeInv(V, T, x), RoundInv(x),
         NEW b \in Block, b # SwitchBlock, WellFormed(V, b), ParentOf(b) \in x.headers,
         NEW y, y = Written(x, b)
  PROVE  /\ NodeInv(V, T, y) /\ RoundInv(y)
         /\ y.highestQuorumCert = x.highestQuorumCert
         /\ y.highestVotedRound = x.highestVotedRound
         /\ y.lockQuorumCert = x.lockQuorumCert
<1>1. x \in NodeState
  BY DEF NodeInv
<1>2. PICK h \in {x.head, b} : WriteBlock(x, b) = [x EXCEPT !.headers = @ \cup {b}, !.head = h]
  BY Zenon DEF WriteBlock
<1>3. /\ y \in NodeState
      /\ y.headers = x.headers \cup {b} /\ y.head \in {x.head, b}
      /\ y.proposed \in {x.proposed, x.proposed \cup {b}} /\ y.works = x.works
      /\ y.currentRound = x.currentRound /\ y.votePool = x.votePool
      /\ y.timeoutPool = x.timeoutPool
      /\ y.highestQuorumCert = x.highestQuorumCert /\ y.lockQuorumCert = x.lockQuorumCert
      /\ y.highestTimeoutCert = x.highestTimeoutCert
      /\ y.highestVotedRound = x.highestVotedRound
      /\ y.highestCommitBlock = x.highestCommitBlock
  <2>. DEFINE w == [x EXCEPT !.headers = @ \cup {b}, !.head = h]
  <2>1. w \in NodeState
    BY <1>1, Zenon DEF NodeState
  <2>2. /\ w.headers = x.headers \cup {b} /\ w.head = h
        /\ w.proposed = x.proposed /\ w.works = x.works
        /\ w.currentRound = x.currentRound /\ w.votePool = x.votePool
        /\ w.timeoutPool = x.timeoutPool
        /\ w.highestQuorumCert = x.highestQuorumCert /\ w.lockQuorumCert = x.lockQuorumCert
        /\ w.highestTimeoutCert = x.highestTimeoutCert
        /\ w.highestVotedRound = x.highestVotedRound
        /\ w.highestCommitBlock = x.highestCommitBlock
    BY <1>1 DEF NodeState
  <2>3. y = w \/ y = [w EXCEPT !.proposed = @ \cup {b}]
    BY <1>2, Zenon DEF Written
  <2>. HIDE DEF w
  <2>4. w.proposed \cup {b} \in SUBSET Block
    BY <2>1 DEF NodeState
  <2>5. CASE y = w
    BY <1>2, <2>1, <2>2, <2>5, Zenon
  <2>6. CASE y = [w EXCEPT !.proposed = @ \cup {b}]
    <3>1. y \in NodeState
      BY <2>1, <2>4, <2>6, Zenon DEF NodeState
    <3>. QED BY <1>2, <2>1, <2>2, <2>6, <3>1, ZenonT(30) DEF NodeState
  <2>. QED BY <2>3, <2>5, <2>6, Zenon
<1>4. BlocksInv(V, y)
  BY <1>3, Zenon DEF NodeInv, BlocksInv
<1>5. CertificatesInv(V, T, y)
  BY <1>3, Zenon DEF NodeInv, CertificatesInv
<1>6. PoolsInv(V, T, y)
  BY <1>3, Zenon DEF NodeInv, PoolsInv
<1>7. RoundInv(y)
  BY <1>3, Zenon DEF RoundInv
<1>. QED BY <1>3, <1>4, <1>5, <1>6, <1>7, Zenon DEF NodeInv

\* A node that starts from the headers and the head in its database, as New and
\* initial do, satisfies the invariant.
LEMMA InitialInv ==
  ASSUME NEW V, NEW T, NEW headers \in SUBSET Block, NEW head \in headers,
         \A b \in headers : WellFormed(V, b) /\ (b # SwitchBlock => ParentOf(b) \in headers),
         NEW y, y = Initial(New(headers, head))
  PROVE  /\ NodeInv(V, T, y) /\ RoundInv(y)
         /\ head = SwitchBlock => /\ y.highestQuorumCert # Nil
                                  /\ y.highestVotedRound = 0 /\ y.lockQuorumCert = Nil
<1>. DEFINE x == New(headers, head)
<1>1. x \in NodeState
  BY Zenon DEF New, NodeState
<1>2. /\ x.headers = headers /\ x.head = head /\ x.proposed = {} /\ x.works = {}
      /\ x.currentRound = 0 /\ x.highestQuorumCert = Nil /\ x.lockQuorumCert = Nil
      /\ x.highestTimeoutCert = 0 /\ x.highestCommitBlock = Nil
      /\ x.highestVotedRound = 0 /\ x.votePool = {} /\ x.timeoutPool = {}
  BY SMTT(30) DEF New
<1>. HIDE DEF x
<1>3. NodeInv(V, T, x) /\ Started(x)
  <2>1. BlocksInv(V, x)
    BY <1>2, Zenon DEF BlocksInv
  <2>2. CertificatesInv(V, T, x)
    BY <1>2 DEF CertificatesInv
  <2>3. PoolsInv(V, T, x)
    BY <1>2 DEF PoolsInv
  <2>4. Started(x)
    BY <1>2, Zenon DEF Started
  <2>. QED BY <1>1, <2>1, <2>2, <2>3, <2>4, Zenon DEF NodeInv
<1>4. CASE head = SwitchBlock
  <2>1. y = [x EXCEPT !.currentRound = 1, !.highestQuorumCert = SwitchBlock]
    BY <1>2, <1>4, Zenon DEF Initial, x
  <2>2. SwitchBlock \in Block /\ SwitchBlock # Nil /\ QCRound(SwitchBlock) = 0
    BY <1>4, NilAssumption DEF NilAssumption, QCRound, RoundOf
  <2>3. /\ y \in NodeState
        /\ y.headers = headers /\ y.head = head /\ y.proposed = {} /\ y.works = {}
        /\ y.currentRound = 1 /\ y.highestQuorumCert = SwitchBlock /\ y.lockQuorumCert = Nil
        /\ y.highestTimeoutCert = 0 /\ y.highestCommitBlock = Nil
        /\ y.highestVotedRound = 0 /\ y.votePool = {} /\ y.timeoutPool = {}
    <3>. DEFINE w == [x EXCEPT !.currentRound = 1]
    <3>1. w \in NodeState
      BY <1>1 DEF NodeState
    <3>2. [w EXCEPT !.highestQuorumCert = SwitchBlock] \in NodeState
      <4>. HIDE DEF w
      <4>. QED BY <2>2, <3>1 DEF NodeState
    <3>3. y \in NodeState
      BY <2>1, <3>2, ZenonT(30)
    <3>. QED BY <1>1, <1>2, <2>1, <3>3, Zenon DEF NodeState
  <2>4. NodeInv(V, T, y)
    BY <1>4, <2>3 DEF NodeInv, BlocksInv, CertificatesInv, PoolsInv, Signed
  <2>5. RoundInv(y)
    BY <2>2, <2>3 DEF RoundInv
  <2>. QED BY <2>2, <2>3, <2>4, <2>5, Zenon
<1>5. CASE head # SwitchBlock
  <2>1. y = ProcessQC(x, ParentOf(head))
    BY <1>2, <1>5, Zenon DEF Initial, x
  <2>2. ParentOf(head) \in x.headers /\ Signed(V, ParentOf(head))
    BY <1>2, <1>5, Zenon DEF WellFormed
  <2>. QED BY <1>3, <1>5, <2>1, <2>2, ProcessQCInv, Zenon
<1>. QED BY <1>4, <1>5, Zenon

-----------------------------------------------------------------------------
(* Steps of the abstract protocol *)

\* The votes of V signed by masternodes that do not restart.
Kept(V) == {v \in V : v.signer \in Following}

\* The instance counts as the engine does.
LEMMA AbsCardinality == \A S : Abs!Cardinality(S) = Cardinality(S)
  BY DEF Abs!Cardinality, Cardinality

\* A certificate has a signer that does not restart, and it is a certificate of
\* the abstract protocol, where every restarting masternode may have signed.
LEMMA SignedIsQuorum ==
  ASSUME NEW V, NEW b, b # SwitchBlock, Signed(V, b)
  PROVE  /\ \E m \in Following : [signer |-> m, block |-> b] \in Kept(V)
         /\ Abs!IsQuorum(Restarting \cup {m \in Following : [signer |-> m, block |-> b] \in Kept(V)})
<1>. DEFINE S == SignersOf(V, b)
            Q == Restarting \cup {m \in Following : [signer |-> m, block |-> b] \in Kept(V)}
            R == Cardinality(Restarting)
<1>1. ThresholdReached(S)
  BY DEF Signed
<1>2. Restarting \subseteq Masternodes
  BY ParametersAssumption, Zenon DEF ParametersAssumption
<1>3. S \subseteq Q /\ Q \subseteq Masternodes
  BY <1>2 DEF SignersOf, Kept, Following
<1>4. /\ IsFiniteSet(Q) /\ IsFiniteSet(Restarting)
      /\ Cardinality(S) \in Nat /\ Cardinality(Q) \in Nat /\ R \in Nat
  BY <1>2, <1>3, MasternodesFinite, Zenon
<1>5. Cardinality(S) <= Cardinality(Q)
  BY <1>3, <1>4, FS_Subset, Zenon
<1>6. ThresholdReached(Q)
  BY <1>1, <1>4, <1>5, ThresholdMonotone, Zenon
<1>7. ~ThresholdReached(Restarting)
  <2>. DEFINE n == CertNum * Cardinality(Masternodes)
  <2>1. n > CertDen * R
    BY RestartingAssumption DEF RestartingAssumption
  <2>2. n \in Nat /\ R * CertDen = CertDen * R /\ R * CertDen \in Nat
    BY <1>4, MasternodesFinite, ThresholdType
  <2>3. ~(R * CertDen >= n)
    <3>. HIDE DEF n, R
    <3>. QED BY <2>1, <2>2
  <2>. QED BY <2>3 DEF ThresholdReached
<1>8. ~(S \subseteq Restarting)
  <2>. SUFFICES ASSUME S \subseteq Restarting PROVE FALSE
    OBVIOUS
  <2>1. Cardinality(S) <= R
    BY <1>4, FS_Subset, Zenon
  <2>. QED BY <1>1, <1>4, <1>7, <2>1, ThresholdMonotone, Zenon
<1>9. \E m \in Following : [signer |-> m, block |-> b] \in Kept(V)
  BY <1>8 DEF SignersOf, Kept, Following
<1>10. Abs!IsQuorum(Q)
  BY <1>6, AbsCardinality, Zenon DEF ThresholdReached, Abs!IsQuorum
<1>. QED BY <1>9, <1>10, Zenon

\* So a block with a certificate is certified and known in the abstract protocol.
LEMMA SignedIsCertified ==
  ASSUME NEW b, Signed(votes, b)
  PROVE  Abs!Certified(b) /\ b \in Abs!KnownBlocks
<1>1. CASE b = SwitchBlock
  BY <1>1, AbsOperators, Zenon DEF Abs!Certified, Abs!KnownBlocks
<1>2. CASE b # SwitchBlock
  <2>1. PICK m \in Following : [signer |-> m, block |-> b] \in Kept(votes)
    BY <1>2, SignedIsQuorum, Zenon
  <2>2. b \in Abs!KnownBlocks
    <3>1. [signer |-> m, block |-> b].block = b
      OBVIOUS
    <3>. QED BY <2>1, <3>1, Zenon DEF Abs!KnownBlocks, Kept
  <2>3. Abs!IsQuorum(Restarting \cup {k \in Following : [signer |-> k, block |-> b] \in Kept(votes)})
    BY <1>2, SignedIsQuorum, Zenon
  <2>4. Abs!Certified(b)
    BY <2>3 DEF Abs!Certified, Abs!Voters, Abs!Honest, Following, Kept
  <2>. QED BY <2>2, <2>4
<1>. QED BY <1>1, <1>2, Zenon

\* The same in the next state.
LEMMA SignedIsCertifiedNext ==
  ASSUME NEW b, Signed(votes', b)
  PROVE  Abs!Certified(b)'
<1>1. CASE b = SwitchBlock
  BY <1>1, AbsOperators, Zenon DEF Abs!Certified
<1>2. CASE b # SwitchBlock
  <2>1. Abs!IsQuorum(Restarting \cup {k \in Following : [signer |-> k, block |-> b] \in Kept(votes')})
    BY <1>2, SignedIsQuorum, Zenon
  <2>. QED BY <2>1, Zenon DEF Abs!Certified, Abs!Voters, Abs!Honest, Following, Kept, Abs!IsQuorum
<1>. QED BY <1>1, <1>2, Zenon

\* A step of n that leaves its voting state alone changes nothing there.
LEMMA AbsStutter ==
  ASSUME EngineInv, NEW n \in Masternodes, NEW y, node' = [node EXCEPT ![n] = y],
         y.highestVotedRound = node[n].highestVotedRound,
         y.lockQuorumCert = node[n].lockQuorumCert,
         votes' = votes
  PROVE  UNCHANGED Abs!vars
<1>1. \A m \in Following : /\ node'[m].highestVotedRound = node[m].highestVotedRound
                           /\ node'[m].lockQuorumCert = node[m].lockQuorumCert
  BY DEF EngineInv, Following
<1>. QED BY <1>1, Zenon DEF Abs!vars

\* Neither does any step of a masternode that may restart.
LEMMA AbsStutterRestarting ==
  ASSUME EngineInv, NEW n \in Restarting, NEW y, node' = [node EXCEPT ![n] = y],
         NEW b, votes' = votes \/ votes' = votes \cup {[signer |-> n, block |-> b]}
  PROVE  UNCHANGED Abs!vars
<1>1. \A m \in Following : node'[m] = node[m]
  BY DEF EngineInv, Following
<1>2. Kept(votes') = Kept(votes)
  BY DEF Kept, Following
<1>. QED BY <1>1, <1>2 DEF Abs!vars, Kept

\* processQC of a masternode that does not restart is ProcessQC there.
LEMMA AbsProcessQC ==
  ASSUME EngineInv, NEW n \in Following, NEW y, node' = [node EXCEPT ![n] = y],
         NEW qc, Signed(votes, qc),
         y.highestVotedRound = node[n].highestVotedRound,
         y.lockQuorumCert = Abs!NewLock(node[n].lockQuorumCert, qc),
         votes' = votes
  PROVE  Abs!Next
<1>. DEFINE locks == [m \in Following |-> node[m].lockQuorumCert]
<1>1. n \in Masternodes /\ Following \subseteq Masternodes
  BY Zenon DEF Following
<1>2. node'[n] = y /\ \A m \in Following : m # n => node'[m] = node[m]
  BY <1>1, Zenon DEF EngineInv
<1>3. Abs!Certified(qc) /\ qc \in Abs!KnownBlocks
  BY SignedIsCertified
<1>4. [m \in Following |-> node'[m].lockQuorumCert]
        = [locks EXCEPT ![n] = Abs!NewLock(locks[n], qc)]
  <2>1. \A m \in Following :
          node'[m].lockQuorumCert =
            IF m = n THEN Abs!NewLock(node[n].lockQuorumCert, qc) ELSE node[m].lockQuorumCert
    BY <1>2
  <2>. QED BY <2>1, Zenon
<1>5. [m \in Following |-> node'[m].highestVotedRound]
        = [m \in Following |-> node[m].highestVotedRound]
  BY <1>2
<1>6. Abs!ProcessQC(n, qc)
  BY <1>3, <1>4, <1>5, Zenon DEF Abs!ProcessQC
<1>7. n \in Abs!Honest
  BY Zenon DEF Abs!Honest, Following
<1>. QED BY <1>3, <1>6, <1>7, Zenon DEF Abs!Next

\* A block is built on its parent.
LEMMA BlockIsChild ==
  ASSUME NEW b \in Block, b # SwitchBlock
  PROVE  \E r \in Rounds, body \in Bodies : b = Child(ParentOf(b), r, body)
<1>. DEFINE h == b[Number(b)]
            c == Append(ParentOf(b), h)
<1>1. /\ Number(b) \in Nat \ {0}
      /\ ParentOf(b) \in Block
      /\ Number(ParentOf(b)) = Number(b) - 1
      /\ \A i \in 1..(Number(b) - 1) : ParentOf(b)[i] = b[i]
  BY ParentProperties, Zenon
<1>2. h \in Headers
  BY <1>1, SequenceElement DEF Block, Number
<1>3. c \in Block /\ Number(c) = Number(b) /\ \A i \in 1..Number(b) : c[i] = b[i]
  <2>. HIDE DEF h
  <2>1. c \in Block /\ Number(c) = Number(b)
    BY <1>1, <1>2 DEF Block, Number
  <2>2. \A i \in 1..(Number(b) - 1) : c[i] = ParentOf(b)[i]
    BY <1>1, <1>2 DEF Block, Number
  <2>3. c[Number(b)] = h
    BY <1>1, <1>2 DEF Block, Number
  <2>4. h = b[Number(b)]
    BY DEF h
  <2>. HIDE DEF c
  <2>5. ASSUME NEW i \in 1..Number(b) PROVE c[i] = b[i]
    <3>1. CASE i = Number(b)
      BY <2>3, <2>4, <3>1, Zenon
    <3>2. CASE i # Number(b)
      <4>1. i \in 1..(Number(b) - 1)
        BY <1>1, <3>2
      <4>. QED BY <1>1, <2>2, <4>1, Zenon
    <3>. QED BY <3>1, <3>2
  <2>. QED BY <2>1, <2>5, Zenon
<1>4. c = b
  <2>. HIDE DEF c
  <2>. QED BY <1>3, SequencesEqual, Zenon DEF Block, Number
<1>5. h = [round |-> h.round, body |-> h.body] /\ h.round \in Rounds /\ h.body \in Bodies
  BY <1>2, Zenon DEF Headers
<1>. QED BY <1>4, <1>5, Zenon DEF Child

\* A vote of a masternode that does not restart is ProposedBlock there.
LEMMA AbsProposedBlock ==
  ASSUME EngineInv, NEW n \in Following, NEW y, node' = [node EXCEPT ![n] = y],
         NEW b \in Block, b # SwitchBlock, WellFormed(votes, b),
         NEW lock, lock = Abs!NewLock(node[n].lockQuorumCert, ParentOf(b)),
         RoundOf(b) > node[n].highestVotedRound, Abs!VotingRule(lock, b),
         votes' = votes \cup {[signer |-> n, block |-> b]},
         y.highestVotedRound = RoundOf(b),
         \/ y.lockQuorumCert = lock
         \/ Signed(votes', b) /\ y.lockQuorumCert = Abs!NewLock(lock, b)
  PROVE  Abs!Next
<1>. DEFINE locks == [m \in Following |-> node[m].lockQuorumCert]
            voted == [m \in Following |-> node[m].highestVotedRound]
<1>1. n \in Masternodes /\ Following \subseteq Masternodes /\ n \in Abs!Honest
  BY DEF Following, Abs!Honest
<1>2. node'[n] = y /\ \A m \in Following : m # n => node'[m] = node[m]
  BY <1>1, Zenon DEF EngineInv
<1>3. Abs!Certified(ParentOf(b)) /\ ParentOf(b) \in Abs!KnownBlocks
  BY SignedIsCertified DEF WellFormed
<1>4. PICK certify \in BOOLEAN :
        /\ certify => Signed(votes', b)
        /\ y.lockQuorumCert = IF certify THEN Abs!NewLock(lock, b) ELSE lock
  BY Zenon
<1>5. certify => Abs!Certified(b)'
  BY <1>4, SignedIsCertifiedNext
<1>6. [m \in Following |-> node'[m].lockQuorumCert]
        = [locks EXCEPT ![n] = IF certify THEN Abs!NewLock(lock, b) ELSE lock]
  <2>1. \A m \in Following : node'[m].lockQuorumCert =
          IF m = n THEN IF certify THEN Abs!NewLock(lock, b) ELSE lock
          ELSE node[m].lockQuorumCert
    BY <1>2, <1>4
  <2>. QED BY <2>1, Zenon
<1>7. [m \in Following |-> node'[m].highestVotedRound] = [voted EXCEPT ![n] = RoundOf(b)]
  <2>1. \A m \in Following :
          node'[m].highestVotedRound = IF m = n THEN RoundOf(b) ELSE node[m].highestVotedRound
    BY <1>2
  <2>. QED BY <2>1, Zenon
<1>8. Kept(votes') = Kept(votes) \cup {[signer |-> n, block |-> b]}
  BY DEF Kept
<1>9. Abs!ProposedBlock(n, b, certify)
  <2>1. RoundOf(b) > RoundOf(ParentOf(b))
    <3>1. RoundOf(ParentOf(b)) < RoundOf(b)
      BY DEF WellFormed
    <3>2. RoundOf(b) \in Nat /\ RoundOf(ParentOf(b)) \in Nat
      BY ParentProperties, RoundOfType, ZenonT(30)
    <3>. QED BY <3>1, <3>2, Zenon
  <2>2. locks[n] = node[n].lockQuorumCert /\ voted[n] = node[n].highestVotedRound
    OBVIOUS
  <2>. QED BY <1>3, <1>5, <1>6, <1>7, <1>8, <2>1, <2>2, AbsOperators, ZenonT(30)
       DEF Abs!ProposedBlock, Kept
<1>10. PICK r \in Rounds, body \in Bodies : b = Abs!Child(ParentOf(b), r, body)
  BY BlockIsChild, AbsOperators, Zenon
<1>. QED BY <1>1, <1>3, <1>9, <1>10, Zenon DEF Abs!Next

-----------------------------------------------------------------------------
(* The actions *)

\* An action of n keeps the invariant if it leaves n and the messages in order.
LEMMA StepInv ==
  ASSUME EngineInv, NEW n \in Masternodes, NEW y, node' = [node EXCEPT ![n] = y],
         votes \subseteq votes', timeouts \subseteq timeouts', MessagesInv',
         NodeInv(votes', timeouts', y), RoundInv(y),
         y.highestQuorumCert = Nil => n \in Restarting
  PROVE  EngineInv'
<1>1. /\ DOMAIN node' = Masternodes /\ node' = [m \in Masternodes |-> node'[m]]
      /\ node'[n] = y /\ \A m \in Masternodes : m # n => node'[m] = node[m]
  BY DEF EngineInv
<1>2. ASSUME NEW m \in Masternodes
      PROVE  /\ NodeInv(votes', timeouts', node'[m]) /\ RoundInv(node'[m])
             /\ node'[m].highestQuorumCert = Nil => m \in Restarting
  <2>1. CASE m = n
    BY <1>1, <2>1, Zenon
  <2>2. CASE m # n
    <3>1. /\ NodeInv(votes, timeouts, node[m]) /\ RoundInv(node[m])
          /\ node[m].highestQuorumCert = Nil => m \in Restarting
      BY DEF EngineInv
    <3>2. NodeInv(votes', timeouts', node[m])
      BY <3>1, NodeInvStable, Zenon
    <3>. QED BY <1>1, <2>2, <3>1, <3>2, Zenon
  <2>. QED BY <2>1, <2>2, Zenon
<1>. QED BY <1>1, <1>2, Zenon DEF EngineInv

\* Messages that stay valid.
LEMMA MessagesInvStable ==
  ASSUME MessagesInv, blocks' = blocks, votes' = votes, timeouts' = timeouts,
         syncInfos' = syncInfos
  PROVE  MessagesInv'
  BY DEF MessagesInv

\* What the invariant says of one node.
LEMMA NodeFacts ==
  ASSUME EngineInv, NEW n \in Masternodes
  PROVE  /\ MessagesInv
         /\ NodeInv(votes, timeouts, node[n]) /\ RoundInv(node[n]) /\ node[n] \in NodeState
         /\ node[n].highestQuorumCert = Nil => n \in Restarting
         /\ n \in Restarting \/ n \in Following
  BY DEF EngineInv, NodeInv, Following

\* commitNewWork prepares a well-formed block on the highest certified block.
LEMMA CommitNewWorkStep ==
  ASSUME EngineInv, NEW n \in Masternodes, NEW body \in Bodies, CommitNewWork(n, body)
  PROVE  EngineInv' /\ UNCHANGED Abs!vars
<1>. DEFINE x == node[n]
            b == Prepare(x, body)
            y == [x EXCEPT !.works = @ \cup {b},
                           !.lastParentBlockCommit = x.highestQuorumCert]
<1>1. /\ x.highestQuorumCert \in x.headers /\ x.currentRound \in Rounds
      /\ votes' = votes /\ blocks' = blocks /\ timeouts' = timeouts /\ syncInfos' = syncInfos
  BY DEF CommitNewWork, FindParentBlockToAssign
<1>2. node' = [node EXCEPT ![n] = y]
  BY ZenonT(30) DEF CommitNewWork, FindParentBlockToAssign, EngineInv
<1>3. /\ MessagesInv /\ NodeInv(votes, timeouts, x) /\ RoundInv(x) /\ x \in NodeState
      /\ x.highestQuorumCert = Nil => n \in Restarting
  BY NodeFacts, Zenon
<1>4. x.highestQuorumCert \in Block /\ x.highestQuorumCert # Nil
  BY <1>1, <1>3, NilAssumption, Zenon DEF NilAssumption, NodeState
<1>5. /\ b \in Block /\ b # SwitchBlock
      /\ ParentOf(b) = x.highestQuorumCert /\ RoundOf(b) = x.currentRound
  BY <1>1, <1>4, ChildProperties, ZenonT(30) DEF Prepare
<1>6. RoundOf(x.highestQuorumCert) < x.currentRound
  <2>1. /\ QCRound(x.highestQuorumCert) = RoundOf(x.highestQuorumCert)
        /\ RoundOf(x.highestQuorumCert) \in Nat /\ x.highestTimeoutCert \in Nat
    BY <1>3, <1>4, QCRoundType, RoundOfType, Zenon DEF NodeState
  <2>2. RoundInv(x)
    BY <1>3, Zenon
  <2>. HIDE DEF x, b, y
  <2>. QED BY <2>1, <2>2, SMTT(30) DEF RoundInv
<1>7. WellFormed(votes, b) /\ ParentOf(b) \in x.headers
  BY <1>1, <1>3, <1>4, <1>5, <1>6, Zenon DEF WellFormed, NodeInv, CertificatesInv
<1>8. /\ y \in NodeState
      /\ y.works = x.works \cup {b}
      /\ y.headers = x.headers /\ y.head = x.head /\ y.proposed = x.proposed
      /\ y.currentRound = x.currentRound /\ y.votePool = x.votePool
      /\ y.timeoutPool = x.timeoutPool
      /\ y.highestQuorumCert = x.highestQuorumCert /\ y.lockQuorumCert = x.lockQuorumCert
      /\ y.highestTimeoutCert = x.highestTimeoutCert
      /\ y.highestVotedRound = x.highestVotedRound
      /\ y.highestCommitBlock = x.highestCommitBlock
  <2>1. x.works \cup {b} \in SUBSET Block
    BY <1>3, <1>5, Zenon DEF NodeState
  <2>. HIDE DEF x, b
  <2>2. y \in NodeState
    BY <1>3, <1>4, <2>1, ZenonT(30) DEF NodeState
  <2>. QED BY <1>3, <2>2, Zenon DEF NodeState
<1>. HIDE DEF x, b, y
<1>9. NodeInv(votes, timeouts, y)
  <2>1. BlocksInv(votes, y)
    BY <1>3, <1>5, <1>7, <1>8, ZenonT(30) DEF NodeInv, BlocksInv
  <2>2. CertificatesInv(votes, timeouts, y)
    BY <1>3, <1>8, ZenonT(30) DEF NodeInv, CertificatesInv
  <2>3. PoolsInv(votes, timeouts, y)
    BY <1>3, <1>8, Zenon DEF NodeInv, PoolsInv
  <2>. QED BY <1>8, <2>1, <2>2, <2>3, Zenon DEF NodeInv
<1>10. RoundInv(y)
  BY <1>3, <1>8, Zenon DEF RoundInv
<1>11. EngineInv'
  BY <1>1, <1>2, <1>3, <1>8, <1>9, <1>10, MessagesInvStable, StepInv, Zenon
<1>12. UNCHANGED Abs!vars
  BY <1>1, <1>2, <1>8, AbsStutter, Zenon DEF x
<1>. QED BY <1>11, <1>12, Zenon

\* The worker writes and broadcasts a sealed block.
LEMMA WaitResultStep ==
  ASSUME EngineInv, NEW n \in Masternodes, NEW b, WaitResult(n, b)
  PROVE  EngineInv' /\ UNCHANGED Abs!vars
<1>. DEFINE x == Seal(node[n], b)
            y == Written(x, b)
<1>1. /\ MessagesInv /\ NodeInv(votes, timeouts, node[n]) /\ RoundInv(node[n])
      /\ node[n] \in NodeState /\ (node[n].highestQuorumCert = Nil => n \in Restarting)
  BY NodeFacts
<1>2. /\ b \in node[n].works
      /\ votes' = votes /\ timeouts' = timeouts /\ syncInfos' = syncInfos
      /\ blocks' = blocks \/ blocks' = blocks \cup {b}
  BY ZenonT(30) DEF WaitResult
<1>3. /\ b \in Block /\ b # SwitchBlock /\ WellFormed(votes, b)
      /\ ParentOf(b) \in node[n].headers
  BY <1>1, <1>2, Zenon DEF NodeInv, BlocksInv, NodeState
<1>4. /\ x \in NodeState
      /\ Keeps(node[n], x) /\ x.highestVotedRound = node[n].highestVotedRound
      /\ x.headers = node[n].headers
      /\ x.highestQuorumCert = node[n].highestQuorumCert
      /\ x.lockQuorumCert = node[n].lockQuorumCert
  <2>1. RoundOf(b) \in Nat
    BY <1>3, RoundOfType
  <2>2. x \in NodeState
    BY <1>1, <2>1, Zenon DEF Seal, NodeState
  <2>. QED BY <1>1, <2>2, Zenon DEF Seal, NodeState, Keeps
<1>5. node' = [node EXCEPT ![n] = y]
  BY DEF WaitResult, Written
<1>. HIDE DEF x
<1>6. NodeInv(votes, timeouts, x) /\ RoundInv(x)
  BY <1>1, <1>4, KeepsInv, ZenonT(30)
<1>7. /\ NodeInv(votes, timeouts, y) /\ RoundInv(y)
      /\ y.highestQuorumCert = x.highestQuorumCert
      /\ y.highestVotedRound = x.highestVotedRound
      /\ y.lockQuorumCert = x.lockQuorumCert
  <2>1. ParentOf(b) \in x.headers
    BY <1>3, <1>4, Zenon
  <2>2. y = Written(x, b) /\ b \in Block /\ b # SwitchBlock /\ WellFormed(votes, b)
    BY <1>3, ZenonT(30)
  <2>. HIDE DEF y
  <2>. QED BY <1>6, <2>1, <2>2, WriteBlockInv
<1>8. MessagesInv'
  BY <1>1, <1>2, <1>3, Zenon DEF MessagesInv
<1>. HIDE DEF y
<1>9. EngineInv'
  BY <1>1, <1>2, <1>4, <1>5, <1>7, <1>8, StepInv, Zenon
<1>10. UNCHANGED Abs!vars
  BY <1>2, <1>4, <1>5, <1>7, AbsStutter, Zenon
<1>. QED BY <1>9, <1>10, Zenon

\* The fetcher inserts a broadcast block whose parent the node has.
LEMMA InsertBlockStep ==
  ASSUME EngineInv, NEW n \in Masternodes, NEW b, InsertBlock(n, b)
  PROVE  EngineInv' /\ UNCHANGED Abs!vars
<1>. DEFINE x == node[n]
            y == Written(x, b)
<1>1. /\ MessagesInv /\ NodeInv(votes, timeouts, x) /\ RoundInv(x)
      /\ x \in NodeState /\ (x.highestQuorumCert = Nil => n \in Restarting)
  BY NodeFacts
<1>2. /\ b \in blocks /\ ParentOf(b) \in x.headers
      /\ votes' = votes /\ timeouts' = timeouts /\ syncInfos' = syncInfos /\ blocks' = blocks
  BY ZenonT(30) DEF InsertBlock, VerifyHeader
<1>3. b \in Block /\ b # SwitchBlock /\ WellFormed(votes, b)
  BY <1>1, <1>2, Zenon DEF MessagesInv
<1>4. node' = [node EXCEPT ![n] = y]
  BY ZenonT(30) DEF InsertBlock, Written
<1>5. /\ NodeInv(votes, timeouts, y) /\ RoundInv(y)
      /\ y.highestQuorumCert = x.highestQuorumCert
      /\ y.highestVotedRound = x.highestVotedRound
      /\ y.lockQuorumCert = x.lockQuorumCert
  <2>1. NodeInv(votes, timeouts, x) /\ RoundInv(x) /\ ParentOf(b) \in x.headers /\ y = Written(x, b)
    BY <1>1, <1>2, Zenon
  <2>. HIDE DEF x, y
  <2>. QED BY <1>3, <2>1, WriteBlockInv
<1>6. MessagesInv'
  BY <1>1, <1>2, MessagesInvStable, Zenon
<1>. HIDE DEF y
<1>7. EngineInv'
  BY <1>1, <1>2, <1>4, <1>5, <1>6, StepInv, Zenon
<1>8. UNCHANGED Abs!vars
  BY <1>2, <1>4, <1>5, AbsStutter, Zenon
<1>. QED BY <1>7, <1>8, Zenon

\* voteHandler for a vote of the network.
LEMMA ReceiveVoteStep ==
  ASSUME EngineInv, NEW n \in Masternodes, NEW vote \in votes, ReceiveVote(n, vote)
  PROVE  EngineInv' /\ [Abs!Next]_(Abs!vars)
<1>. DEFINE x == node[n]
            y == VoteHandler(x, vote)
<1>1. /\ MessagesInv /\ NodeInv(votes, timeouts, x) /\ RoundInv(x)
      /\ (x.highestQuorumCert = Nil => n \in Restarting)
      /\ n \in Restarting \/ n \in Following
  BY NodeFacts
<1>2. /\ node' = [node EXCEPT ![n] = y]
      /\ votes' = votes /\ timeouts' = timeouts /\ syncInfos' = syncInfos /\ blocks' = blocks
  BY ZenonT(30) DEF ReceiveVote
<1>3. votes \in SUBSET VoteMessage
  BY <1>1, Zenon DEF MessagesInv
<1>4. y = VoteHandler(x, vote)
  OBVIOUS
<1>. HIDE DEF y
<1>5. /\ NodeInv(votes, timeouts, y) /\ RoundInv(y)
      /\ x.highestQuorumCert # Nil => y.highestQuorumCert # Nil
      /\ y.highestVotedRound = x.highestVotedRound
      /\ \/ y.lockQuorumCert = x.lockQuorumCert
         \/ /\ Signed(votes, vote.block)
            /\ y.lockQuorumCert = Abs!NewLock(x.lockQuorumCert, vote.block)
  <2>. DEFINE Handled(u, w) ==
                /\ NodeInv(votes, timeouts, w) /\ RoundInv(w)
                /\ x.highestQuorumCert # Nil => w.highestQuorumCert # Nil
                /\ w.highestVotedRound = x.highestVotedRound
                /\ \/ w.lockQuorumCert = x.lockQuorumCert
                   \/ /\ u.block \in x.headers /\ Signed(votes, u.block)
                      /\ w.lockQuorumCert = Abs!NewLock(x.lockQuorumCert, u.block)
  <2>1. \A u \in votes : \A w : w = VoteHandler(x, u) => Handled(u, w)
    BY <1>1, <1>3, VoteHandlerInv
  <2>2. Handled(vote, y)
    <3>. HIDE DEF Handled
    <3>. QED BY <1>4, <2>1, Zenon
  <2>. QED BY <2>2, ZenonT(30)
<1>6. MessagesInv'
  BY <1>1, <1>2, MessagesInvStable, Zenon
<1>7. EngineInv'
  BY <1>1, <1>2, <1>5, <1>6, StepInv, Zenon
<1>8. CASE n \in Restarting
  BY <1>2, <1>7, <1>8, AbsStutterRestarting, Zenon
<1>9. CASE n \in Following
  BY <1>2, <1>5, <1>7, <1>9, AbsStutter, AbsProcessQC, Zenon
<1>. QED BY <1>1, <1>8, <1>9, ZenonT(30)

\* timeoutHandler for a timeout of the network.
LEMMA ReceiveTimeoutStep ==
  ASSUME EngineInv, NEW n \in Masternodes, NEW timeout \in timeouts, ReceiveTimeout(n, timeout)
  PROVE  EngineInv' /\ UNCHANGED Abs!vars
<1>. DEFINE x == node[n]
            y == TimeoutHandler(x, timeout)
            s == GetSyncInfo(y)
<1>1. /\ MessagesInv /\ NodeInv(votes, timeouts, x) /\ RoundInv(x)
      /\ (x.highestQuorumCert = Nil => n \in Restarting)
  BY NodeFacts
<1>2. /\ node' = [node EXCEPT ![n] = y] /\ timeout.round = x.currentRound
      /\ votes' = votes /\ timeouts' = timeouts /\ blocks' = blocks
      /\ syncInfos' \subseteq syncInfos \cup {s}
  BY ZenonT(30) DEF ReceiveTimeout, TimeoutAccepted
<1>3. timeouts \in SUBSET TimeoutMessage
  BY <1>1 DEF MessagesInv
<1>4. y = TimeoutHandler(x, timeout) /\ s = GetSyncInfo(y)
  BY ZenonT(30)
<1>. HIDE DEF y, s
<1>5. /\ NodeInv(votes, timeouts, y) /\ RoundInv(y)
      /\ y.highestQuorumCert = x.highestQuorumCert
      /\ y.highestVotedRound = x.highestVotedRound
      /\ y.lockQuorumCert = x.lockQuorumCert
  <2>1. /\ NodeInv(votes, timeouts, x) /\ RoundInv(x)
        /\ timeout \in timeouts /\ timeout.round = x.currentRound
    BY <1>1, <1>2, ZenonT(30)
  <2>. HIDE DEF x
  <2>. QED BY <1>3, <1>4, <2>1, TimeoutHandlerInv, SMTT(30)
<1>6. /\ s \in SyncInfoMessage
      /\ s.qc # Nil => Signed(votes, s.qc)
      /\ s.tc > 0 => ThresholdReached(TimedOut(timeouts, s.tc))
  BY <1>4, <1>5, SyncInfoValid, Zenon
<1>7. MessagesInv'
  BY <1>1, <1>2, <1>6, ZenonT(30) DEF MessagesInv
<1>8. EngineInv'
  BY <1>1, <1>2, <1>5, <1>7, StepInv, ZenonT(30)
<1>9. UNCHANGED Abs!vars
  BY <1>2, <1>5, AbsStutter, Zenon
<1>. QED BY <1>8, <1>9, Zenon

\* The countdown expires: the node signs and handles its own timeout.
LEMMA OnCountdownTimeoutStep ==
  ASSUME EngineInv, NEW n \in Masternodes, OnCountdownTimeout(n)
  PROVE  EngineInv' /\ UNCHANGED Abs!vars
<1>. DEFINE x == node[n]
            own == [signer |-> n, round |-> x.currentRound]
            y == TimeoutHandler(x, own)
            count == (y.timeoutCount + 1) % TimeoutSyncThreshold
            z == [y EXCEPT !.timeoutCount = count]
            s == GetSyncInfo(y)
<1>1. /\ MessagesInv /\ NodeInv(votes, timeouts, x) /\ RoundInv(x) /\ x \in NodeState
      /\ (x.highestQuorumCert = Nil => n \in Restarting)
  BY NodeFacts, Zenon
<1>2. /\ node' = [node EXCEPT ![n] = z]
      /\ votes' = votes /\ timeouts' = timeouts \cup {own} /\ blocks' = blocks
      /\ syncInfos' \subseteq syncInfos \cup {s}
  BY DEF OnCountdownTimeout
<1>3. /\ own \in TimeoutMessage /\ own.round = x.currentRound
      /\ timeouts' \in SUBSET TimeoutMessage /\ own \in timeouts' /\ timeouts \subseteq timeouts'
  BY <1>1, <1>2 DEF TimeoutMessage, NodeState, MessagesInv
<1>4. NodeInv(votes, timeouts', x)
  BY <1>1, <1>3, NodeInvStable, ZenonT(30)
<1>5. y = TimeoutHandler(x, own) /\ s = GetSyncInfo(y)
  OBVIOUS
<1>6. z = [y EXCEPT !.timeoutCount = count] /\ count = (y.timeoutCount + 1) % TimeoutSyncThreshold
  BY Zenon
<1>. HIDE DEF own, y, z, s, count
<1>7. /\ NodeInv(votes, timeouts', y) /\ RoundInv(y)
      /\ y.highestQuorumCert = x.highestQuorumCert
      /\ y.highestVotedRound = x.highestVotedRound
      /\ y.lockQuorumCert = x.lockQuorumCert
  <2>1. /\ NodeInv(votes, timeouts', x) /\ RoundInv(x) /\ timeouts' \in SUBSET TimeoutMessage
        /\ own \in timeouts' /\ own.round = x.currentRound
    BY <1>1, <1>3, <1>4, ZenonT(30)
  <2>. HIDE DEF x
  <2>. QED BY <1>5, <2>1, TimeoutHandlerInv, SMTT(30)
<1>8. /\ s \in SyncInfoMessage
      /\ s.qc # Nil => Signed(votes, s.qc)
      /\ s.tc > 0 => ThresholdReached(TimedOut(timeouts', s.tc))
  BY <1>5, <1>7, SyncInfoValid, Zenon
<1>9. /\ z \in NodeState
      /\ Keeps(y, z) /\ z.highestVotedRound = y.highestVotedRound
      /\ z.highestQuorumCert = y.highestQuorumCert /\ z.lockQuorumCert = y.lockQuorumCert
  <2>1. y \in NodeState
    BY <1>7, Zenon DEF NodeInv
  <2>2. y.timeoutCount \in Nat
    BY <2>1 DEF NodeState
  <2>3. TimeoutSyncThreshold \in Nat \ {0}
    BY ParametersAssumption DEF ParametersAssumption
  <2>4. count \in Nat
    BY <1>6, <2>2, <2>3
  <2>5. z \in NodeState
    BY <1>6, <2>1, <2>4, Zenon DEF NodeState
  <2>. QED BY <1>6, <2>1, <2>5, Zenon DEF NodeState, Keeps
<1>10. NodeInv(votes, timeouts', z) /\ RoundInv(z)
  BY <1>7, <1>9, KeepsInv, Zenon
<1>11. MessagesInv'
  <2>1. \A r : ThresholdReached(TimedOut(timeouts, r)) => ThresholdReached(TimedOut(timeouts', r))
    BY <1>3, SignedStable, Zenon
  <2>. QED BY <1>1, <1>2, <1>3, <1>8, <2>1, ZenonT(30) DEF MessagesInv
<1>12. EngineInv'
  BY <1>1, <1>2, <1>3, <1>7, <1>9, <1>10, <1>11, StepInv, ZenonT(30)
<1>13. UNCHANGED Abs!vars
  BY <1>2, <1>7, <1>9, AbsStutter, Zenon
<1>. QED BY <1>12, <1>13, ZenonT(30)

\* syncInfoHandler: the quorum certificate is processed, then the timeout one.
LEMMA SyncInfoHandlerStep ==
  ASSUME EngineInv, NEW n \in Masternodes, NEW s \in syncInfos, SyncInfoHandler(n, s)
  PROVE  EngineInv' /\ [Abs!Next]_(Abs!vars)
<1>. DEFINE x == node[n]
            y == ProcessQC(x, s.qc)
            z == ProcessTC(y, s.tc)
<1>1. /\ MessagesInv /\ NodeInv(votes, timeouts, x) /\ RoundInv(x) /\ x \in NodeState
      /\ (x.highestQuorumCert = Nil => n \in Restarting)
      /\ n \in Restarting \/ n \in Following
  BY NodeFacts, Zenon
<1>2. /\ s.qc \in x.headers
      /\ votes' = votes /\ timeouts' = timeouts /\ syncInfos' = syncInfos /\ blocks' = blocks
  BY Zenon DEF SyncInfoHandler, VerifySyncInfoMessage, VerifyQC
<1>3. s.qc \in Block /\ s.qc # Nil
  BY <1>1, <1>2, NilAssumption, ZenonT(30) DEF NodeState
<1>4. Signed(votes, s.qc) /\ s.tc \in Nat /\ (s.tc > 0 => ThresholdReached(TimedOut(timeouts, s.tc)))
  BY <1>1, <1>3, Zenon DEF MessagesInv, SyncInfoMessage
<1>5. y = ProcessQC(x, s.qc) /\ z = ProcessTC(y, s.tc)
  BY ZenonT(30)
<1>6. s.qc \in y.headers
  <2>1. x \in NodeState /\ s.qc \in x.headers
    BY <1>1, <1>2, ZenonT(30)
  <2>. HIDE DEF x, y, z
  <2>. QED BY <1>5, <2>1, ProcessQCFields
<1>7. node' = [node EXCEPT ![n] = z]
  BY <1>6, ZenonT(30) DEF SyncInfoHandler
<1>. HIDE DEF y, z
<1>8. /\ NodeInv(votes, timeouts, y) /\ RoundInv(y)
  BY <1>1, <1>2, <1>4, <1>5, ProcessQCInv, Zenon
<1>9. /\ y.highestVotedRound = x.highestVotedRound
      /\ y.lockQuorumCert = Abs!NewLock(x.lockQuorumCert, s.qc)
      /\ y.highestQuorumCert = Nil => x.highestQuorumCert = Nil
  BY <1>1, <1>2, <1>3, <1>5, ProcessQCFields, ProcessQCKeepsQC, ZenonT(30)
<1>10. /\ NodeInv(votes, timeouts, z) /\ RoundInv(z)
       /\ z.highestQuorumCert = y.highestQuorumCert
       /\ z.highestVotedRound = y.highestVotedRound
       /\ z.lockQuorumCert = y.lockQuorumCert
  BY <1>4, <1>5, <1>8, ProcessTCInv
<1>11. MessagesInv'
  BY <1>1, <1>2, MessagesInvStable, SMTT(30)
<1>12. EngineInv'
  BY <1>1, <1>2, <1>7, <1>9, <1>10, <1>11, StepInv, Zenon
<1>13. CASE n \in Restarting
  BY <1>2, <1>7, <1>12, <1>13, AbsStutterRestarting, Zenon
<1>14. CASE n \in Following
  BY <1>2, <1>4, <1>7, <1>9, <1>10, <1>12, <1>14, AbsProcessQC, Zenon
<1>. QED BY <1>1, <1>12, <1>13, <1>14, Zenon

\* periodicJob drops old votes and timeouts from the pools.
LEMMA HygieneStep ==
  ASSUME EngineInv, NEW n \in Masternodes, Hygiene(n)
  PROVE  EngineInv' /\ UNCHANGED Abs!vars
<1>. DEFINE x == node[n]
            y == [x EXCEPT !.votePool = HygieneVotePool(x), !.timeoutPool = HygieneTimeoutPool(x)]
<1>1. /\ MessagesInv /\ NodeInv(votes, timeouts, x) /\ RoundInv(x) /\ x \in NodeState
      /\ (x.highestQuorumCert = Nil => n \in Restarting)
  BY NodeFacts
<1>2. /\ votes' = votes /\ timeouts' = timeouts /\ syncInfos' = syncInfos /\ blocks' = blocks
      /\ node' = [node EXCEPT ![n].votePool = HygieneVotePool(x),
                              ![n].timeoutPool = HygieneTimeoutPool(x)]
  BY DEF Hygiene
<1>3. DOMAIN node = Masternodes /\ node = [m \in Masternodes |-> node[m]]
  BY DEF EngineInv
<1>4. node' = [node EXCEPT ![n] = y]
  BY <1>2, <1>3, Zenon
<1>5. HygieneVotePool(x) \subseteq x.votePool /\ HygieneTimeoutPool(x) \subseteq x.timeoutPool
  BY DEF HygieneVotePool, HygieneTimeoutPool
<1>6. y = [x EXCEPT !.votePool = HygieneVotePool(x), !.timeoutPool = HygieneTimeoutPool(x)]
  OBVIOUS
<1>. HIDE DEF x, y
<1>7. /\ y \in NodeState
      /\ Keeps(x, y) /\ y.highestVotedRound = x.highestVotedRound
      /\ y.highestQuorumCert = x.highestQuorumCert /\ y.lockQuorumCert = x.lockQuorumCert
  <2>1. /\ HygieneVotePool(x) \in SUBSET VoteMessage
        /\ HygieneTimeoutPool(x) \in SUBSET TimeoutMessage
    BY <1>1, <1>5, Zenon DEF NodeState
  <2>2. y \in NodeState
    BY <1>1, <1>6, <2>1, Zenon DEF NodeState
  <2>. QED BY <1>1, <1>5, <1>6, <2>2, Zenon DEF NodeState, Keeps
<1>8. NodeInv(votes, timeouts, y) /\ RoundInv(y)
  BY <1>1, <1>7, KeepsInv, Zenon
<1>9. MessagesInv'
  BY <1>1, <1>2, MessagesInvStable, Zenon
<1>10. EngineInv'
  BY <1>1, <1>2, <1>4, <1>7, <1>8, <1>9, StepInv, Zenon
<1>11. UNCHANGED Abs!vars
  BY <1>2, <1>4, <1>7, AbsStutter, Zenon DEF x
<1>. QED BY <1>10, <1>11, Zenon

\* A masternode comes back with what its database holds.
LEMMA RestartStep ==
  ASSUME EngineInv, NEW n \in Masternodes, Restart(n)
  PROVE  EngineInv' /\ UNCHANGED Abs!vars
<1>. DEFINE x == node[n]
            y == Initial(New(x.headers, x.head))
<1>1. MessagesInv /\ NodeInv(votes, timeouts, x)
  BY NodeFacts
<1>2. /\ n \in Restarting /\ node' = [node EXCEPT ![n] = y]
      /\ votes' = votes /\ timeouts' = timeouts /\ syncInfos' = syncInfos /\ blocks' = blocks
  BY ZenonT(30) DEF Restart
<1>3. /\ x.headers \in SUBSET Block /\ x.head \in x.headers
      /\ \A b \in x.headers :
           WellFormed(votes, b) /\ (b # SwitchBlock => ParentOf(b) \in x.headers)
  BY <1>1 DEF NodeInv, BlocksInv, NodeState
<1>4. y = Initial(New(x.headers, x.head))
  BY Zenon
<1>. HIDE DEF y
<1>5. NodeInv(votes, timeouts, y) /\ RoundInv(y)
  BY <1>3, <1>4, InitialInv, Zenon
<1>6. MessagesInv'
  BY <1>1, <1>2, MessagesInvStable, Zenon
<1>7. EngineInv'
  BY <1>2, <1>5, <1>6, StepInv, Zenon
<1>8. UNCHANGED Abs!vars
  BY <1>2, AbsStutterRestarting, Zenon
<1>. QED BY <1>7, <1>8, Zenon

\* All start at the switch block.
LEMMA InitStep ==
  ASSUME Init
  PROVE  EngineInv /\ Abs!Init
<1>. DEFINE y == Initial(New({SwitchBlock}, SwitchBlock))
<1>1. /\ node = [n \in Masternodes |-> y]
      /\ blocks = {} /\ votes = {} /\ timeouts = {} /\ syncInfos = {}
  BY DEF Init
<1>2. {SwitchBlock} \in SUBSET Block
  BY DEF SwitchBlock, Block
<1>3. \A b \in {SwitchBlock} :
        WellFormed({}, b) /\ (b # SwitchBlock => ParentOf(b) \in {SwitchBlock})
  BY DEF WellFormed
<1>4. y = Initial(New({SwitchBlock}, SwitchBlock))
  BY Zenon
<1>. HIDE DEF y
<1>5. /\ NodeInv({}, {}, y) /\ RoundInv(y)
      /\ y.highestQuorumCert # Nil
      /\ y.highestVotedRound = 0 /\ y.lockQuorumCert = Nil
  BY <1>2, <1>3, <1>4, InitialInv, ZenonT(30)
<1>6. EngineInv
  <2>1. MessagesInv
    BY <1>1, Zenon DEF MessagesInv
  <2>2. \A n \in Masternodes : node[n] = y
    BY <1>1, Zenon
  <2>. QED BY <1>1, <1>5, <2>1, <2>2, Zenon DEF EngineInv
<1>7. Abs!Init
  BY <1>1, <1>5, Zenon DEF Abs!Init, Abs!Honest, Following
<1>. QED BY <1>6, <1>7, Zenon

\* verifyVotingRule is the rule of ChainedBFT: the lock of a node is older than
\* its round.
LEMMA VotingRuleHolds ==
  ASSUME NEW V, NEW T, NEW y, NodeInv(V, T, y), RoundInv(y), NEW b \in Block,
         VerifyVotingRule(y, b)
  PROVE  /\ Abs!VotingRule(y.lockQuorumCert, b)
         /\ RoundOf(b) = y.currentRound /\ RoundOf(b) > y.highestVotedRound
<1>1. y \in NodeState
  BY DEF NodeInv
<1>2. RoundOf(b) = y.currentRound /\ RoundOf(b) > y.highestVotedRound
  BY DEF VerifyVotingRule
<1>3. ASSUME y.lockQuorumCert # Nil
      PROVE  RoundOf(b) > RoundOf(y.lockQuorumCert)
  <2>1. RoundOf(y.lockQuorumCert) < QCRound(y.highestQuorumCert)
    BY <1>3, Zenon DEF NodeInv, CertificatesInv
  <2>2. QCRound(y.highestQuorumCert) \in Nat /\ y.highestTimeoutCert \in Nat
    BY <1>1, QCRoundType, Zenon DEF NodeState
  <2>3. RoundOf(y.lockQuorumCert) \in Nat
    BY <1>1, <1>3, RoundOfType, Zenon DEF NodeState
  <2>4. y.currentRound > QCRound(y.highestQuorumCert)
    BY <2>2 DEF RoundInv
  <2>5. y.currentRound \in Nat
    BY <1>1, Zenon DEF NodeState
  <2>6. y.currentRound > RoundOf(y.lockQuorumCert)
    BY <2>1, <2>2, <2>3, <2>4, <2>5, SMTT(30)
  <2>. QED BY <1>2, <2>6, ZenonT(30)
<1>. QED BY <1>2, <1>3, AbsOperators, Zenon DEF VerifyVotingRule, Abs!VotingRule

\* A node takes a proposal from its queue.
LEMMA TakeProposal ==
  ASSUME NEW V, NEW T, NEW x, NodeInv(V, T, x), RoundInv(x), NEW b,
         NEW y, y = [x EXCEPT !.proposed = @ \ {b}]
  PROVE  /\ NodeInv(V, T, y) /\ RoundInv(y) /\ y \in NodeState
         /\ y.headers = x.headers
         /\ y.highestQuorumCert = x.highestQuorumCert
         /\ y.highestVotedRound = x.highestVotedRound
         /\ y.lockQuorumCert = x.lockQuorumCert
<1>1. x \in NodeState
  BY DEF NodeInv
<1>2. y \in NodeState
  BY <1>1, Zenon DEF NodeState
<1>3. Keeps(x, y) /\ y.highestVotedRound = x.highestVotedRound
  BY <1>1 DEF NodeState, Keeps
<1>. QED BY <1>2, <1>3, KeepsInv, Zenon DEF Keeps

\* sendVote notes the round of the vote.
LEMMA NoteVote ==
  ASSUME NEW V, NEW T, NEW x, NodeInv(V, T, x), RoundInv(x),
         NEW y, y = [x EXCEPT !.highestVotedRound = x.currentRound]
  PROVE  /\ NodeInv(V, T, y) /\ RoundInv(y)
         /\ y.highestQuorumCert = x.highestQuorumCert
         /\ y.highestVotedRound = x.currentRound
         /\ y.lockQuorumCert = x.lockQuorumCert
<1>1. x \in NodeState
  BY DEF NodeInv
<1>2. y \in NodeState
  BY <1>1 DEF NodeState
<1>3. Keeps(x, y) /\ y.highestVotedRound = x.currentRound
  BY <1>1, Zenon DEF NodeState, Keeps
<1>. QED BY <1>2, <1>3, KeepsInv, Zenon DEF Keeps

\* ProposedBlockHandler: the certificate of the header is processed, and if the
\* voting rule allows the node votes.
LEMMA ProposedBlockHandlerStep ==
  ASSUME EngineInv, NEW n \in Masternodes, NEW b, ProposedBlockHandler(n, b)
  PROVE  EngineInv' /\ [Abs!Next]_(Abs!vars)
<1>. DEFINE x == [node[n] EXCEPT !.proposed = @ \ {b}]
            y == ProcessQC(x, ParentOf(b))
            vote == [signer |-> n, block |-> b]
            w == [y EXCEPT !.highestVotedRound = y.currentRound]
            z == VoteHandler(w, vote)
<1>1. /\ MessagesInv /\ NodeInv(votes, timeouts, node[n]) /\ RoundInv(node[n])
      /\ (node[n].highestQuorumCert = Nil => n \in Restarting)
      /\ n \in Restarting \/ n \in Following
  BY NodeFacts
<1>2. /\ b \in node[n].proposed
      /\ timeouts' = timeouts /\ syncInfos' = syncInfos /\ blocks' = blocks
      /\ \/ VerifyVotingRule(y, b) /\ node' = [node EXCEPT ![n] = z] /\ votes' = votes \cup {vote}
         \/ node' = [node EXCEPT ![n] = y] /\ votes' = votes
  BY DEF ProposedBlockHandler, SendVote
<1>3. /\ b \in Block /\ b # SwitchBlock /\ WellFormed(votes, b)
      /\ ParentOf(b) \in node[n].headers /\ Signed(votes, ParentOf(b))
  BY <1>1, <1>2, ZenonT(30) DEF NodeInv, BlocksInv, NodeState, WellFormed
<1>4. /\ x = [node[n] EXCEPT !.proposed = @ \ {b}]
      /\ y = ProcessQC(x, ParentOf(b))
      /\ w = [y EXCEPT !.highestVotedRound = y.currentRound]
      /\ z = VoteHandler(w, vote)
      /\ vote = [signer |-> n, block |-> b]
  OBVIOUS
<1>. HIDE DEF x, y, w, z, vote
<1>5. /\ NodeInv(votes, timeouts, x) /\ RoundInv(x) /\ x \in NodeState
      /\ x.headers = node[n].headers
      /\ x.highestQuorumCert = node[n].highestQuorumCert
      /\ x.highestVotedRound = node[n].highestVotedRound
      /\ x.lockQuorumCert = node[n].lockQuorumCert
  <2>1. NodeInv(votes, timeouts, node[n]) /\ RoundInv(node[n])
    BY <1>1, Zenon
  <2>2. x = [node[n] EXCEPT !.proposed = @ \ {b}]
    BY <1>4, Zenon
  <2>. QED BY <2>1, <2>2, TakeProposal
<1>6. ParentOf(b) \in x.headers
  BY <1>3, <1>5, ZenonT(30)
<1>7. NodeInv(votes, timeouts, y) /\ RoundInv(y)
  BY <1>3, <1>4, <1>5, <1>6, ProcessQCInv, ZenonT(30)
<1>8. /\ y.highestVotedRound = node[n].highestVotedRound
      /\ y.lockQuorumCert = Abs!NewLock(node[n].lockQuorumCert, ParentOf(b))
      /\ y.highestQuorumCert = Nil => node[n].highestQuorumCert = Nil
  <2>. DEFINE Processed(qc, k) == /\ k.highestVotedRound = x.highestVotedRound
                                  /\ k.lockQuorumCert = Abs!NewLock(x.lockQuorumCert, qc)
  <2>1. Processed(ParentOf(b), y)
    <3>1. \A qc \in x.headers : \A k : k = ProcessQC(x, qc) => Processed(qc, k)
      BY <1>5, ProcessQCFields
    <3>. HIDE DEF Processed
    <3>. QED BY <1>4, <1>6, <3>1, ZenonT(30)
  <2>2. x.highestQuorumCert # Nil => y.highestQuorumCert # Nil
    BY <1>4, <1>5, <1>6, ProcessQCKeepsQC, ZenonT(30)
  <2>. QED BY <1>5, <2>1, <2>2, Zenon
<1>9. CASE node' = [node EXCEPT ![n] = y] /\ votes' = votes
  <2>1. MessagesInv'
    BY <1>1, <1>2, <1>9, MessagesInvStable, Zenon
  <2>2. EngineInv'
    BY <1>1, <1>2, <1>7, <1>8, <1>9, <2>1, StepInv, Zenon
  <2>3. CASE n \in Restarting
    BY <1>9, <2>2, <2>3, AbsStutterRestarting, Zenon
  <2>4. CASE n \in Following
    BY <1>3, <1>8, <1>9, <2>2, <2>4, AbsProcessQC, Zenon
  <2>. QED BY <1>1, <2>3, <2>4, Zenon
<1>10. CASE VerifyVotingRule(y, b) /\ node' = [node EXCEPT ![n] = z] /\ votes' = votes \cup {vote}
  <2>1. /\ vote \in VoteMessage /\ votes' \in SUBSET VoteMessage
        /\ vote \in votes' /\ votes \subseteq votes' /\ vote.block = b
    BY <1>1, <1>3, <1>4, <1>10 DEF VoteMessage, MessagesInv
  <2>2. NodeInv(votes', timeouts, y)
    BY <1>7, <2>1, NodeInvStable, Zenon
  <2>3. /\ NodeInv(votes', timeouts, w) /\ RoundInv(w)
        /\ w.highestQuorumCert = y.highestQuorumCert
        /\ w.highestVotedRound = y.currentRound
        /\ w.lockQuorumCert = y.lockQuorumCert
    <3>. DEFINE Noted(k) == /\ NodeInv(votes', timeouts, k) /\ RoundInv(k)
                            /\ k.highestQuorumCert = y.highestQuorumCert
                            /\ k.highestVotedRound = y.currentRound
                            /\ k.lockQuorumCert = y.lockQuorumCert
    <3>1. \A k : k = [y EXCEPT !.highestVotedRound = y.currentRound] => Noted(k)
      BY <1>7, <2>2, NoteVote
    <3>2. Noted(w)
      <4>. HIDE DEF Noted
      <4>. QED BY <1>4, <3>1, Zenon
    <3>. QED BY <3>2, Zenon
  <2>4. /\ NodeInv(votes', timeouts, z) /\ RoundInv(z)
        /\ w.highestQuorumCert # Nil => z.highestQuorumCert # Nil
        /\ z.highestVotedRound = w.highestVotedRound
        /\ \/ z.lockQuorumCert = w.lockQuorumCert
           \/ Signed(votes', b) /\ z.lockQuorumCert = Abs!NewLock(w.lockQuorumCert, b)
    <3>. DEFINE Handled(u, k) ==
                  /\ NodeInv(votes', timeouts, k) /\ RoundInv(k)
                  /\ w.highestQuorumCert # Nil => k.highestQuorumCert # Nil
                  /\ k.highestVotedRound = w.highestVotedRound
                  /\ \/ k.lockQuorumCert = w.lockQuorumCert
                     \/ /\ u.block \in w.headers /\ Signed(votes', u.block)
                        /\ k.lockQuorumCert = Abs!NewLock(w.lockQuorumCert, u.block)
    <3>1. \A u \in votes' : \A k : k = VoteHandler(w, u) => Handled(u, k)
      BY <2>1, <2>3, VoteHandlerInv
    <3>2. Handled(vote, z)
      <4>. HIDE DEF Handled
      <4>. QED BY <1>4, <2>1, <3>1, Zenon
    <3>. QED BY <2>1, <3>2, ZenonT(30)
  <2>5. MessagesInv'
    <3>1. /\ \A c : Signed(votes, c) => Signed(votes', c)
          /\ \A c : WellFormed(votes, c) => WellFormed(votes', c)
      BY <2>1, SignedStable, Zenon
    <3>. QED BY <1>1, <1>2, <2>1, <3>1, Zenon DEF MessagesInv
  <2>6. EngineInv'
    BY <1>1, <1>2, <1>8, <1>10, <2>1, <2>3, <2>4, <2>5, StepInv, Zenon
  <2>7. CASE n \in Restarting
    BY <1>4, <1>10, <2>6, <2>7, AbsStutterRestarting, ZenonT(30)
  <2>8. CASE n \in Following
    <3>1. /\ Abs!VotingRule(y.lockQuorumCert, b)
          /\ RoundOf(b) = y.currentRound /\ RoundOf(b) > y.highestVotedRound
      BY <1>3, <1>7, <1>10, VotingRuleHolds, Zenon
    <3>2. /\ RoundOf(b) > node[n].highestVotedRound
          /\ z.highestVotedRound = RoundOf(b)
          /\ votes' = votes \cup {[signer |-> n, block |-> b]}
          /\ \/ z.lockQuorumCert = y.lockQuorumCert
             \/ Signed(votes', b) /\ z.lockQuorumCert = Abs!NewLock(y.lockQuorumCert, b)
      BY <1>4, <1>8, <1>10, <2>3, <2>4, <3>1, Zenon
    <3>3. node' = [node EXCEPT ![n] = z]
      BY <1>10, Zenon
    <3>4. y.lockQuorumCert = Abs!NewLock(node[n].lockQuorumCert, ParentOf(b))
      BY <1>8, Zenon
    <3>5. Abs!VotingRule(y.lockQuorumCert, b)
      BY <3>1, Zenon
    <3>6. Abs!Next
      BY <1>3, <2>8, <3>2, <3>3, <3>4, <3>5, AbsProposedBlock, Zenon
    <3>. QED BY <2>6, <3>6, ZenonT(30)
  <2>. QED BY <1>1, <2>7, <2>8, Zenon
<1>. QED BY <1>2, <1>9, <1>10, ZenonT(30)

-----------------------------------------------------------------------------
(* The theorems *)

\* Every step of every masternode keeps the invariant and is a step of
\* ChainedBFT or changes nothing there.
LEMMA NextStep ==
  ASSUME EngineInv, [Next]_vars
  PROVE  EngineInv' /\ [Abs!Next]_(Abs!vars)
<1>1. CASE UNCHANGED vars
  <2>1. /\ node' = node /\ blocks' = blocks /\ votes' = votes
        /\ timeouts' = timeouts /\ syncInfos' = syncInfos
    BY <1>1, Zenon DEF vars
  <2>2. EngineInv'
    BY <2>1, Zenon DEF EngineInv, MessagesInv
  <2>. QED BY <2>1, <2>2, Zenon DEF Abs!vars
<1>2. CASE Next
  <2>1. PICK n \in Masternodes :
          \/ \E body \in Bodies : CommitNewWork(n, body)
          \/ \E b \in node[n].works : WaitResult(n, b)
          \/ \E b \in blocks : InsertBlock(n, b)
          \/ \E b \in node[n].proposed : ProposedBlockHandler(n, b)
          \/ \E v \in votes : ReceiveVote(n, v)
          \/ \E t \in timeouts : ReceiveTimeout(n, t)
          \/ OnCountdownTimeout(n)
          \/ \E s \in syncInfos : SyncInfoHandler(n, s)
          \/ Hygiene(n)
          \/ Restart(n)
    BY <1>2, Zenon DEF Next
  <2>2. CASE \E body \in Bodies : CommitNewWork(n, body)
    BY <2>2, CommitNewWorkStep, Zenon
  <2>3. CASE \E b \in node[n].works : WaitResult(n, b)
    BY <2>3, WaitResultStep, Zenon
  <2>4. CASE \E b \in blocks : InsertBlock(n, b)
    BY <2>4, InsertBlockStep, Zenon
  <2>5. CASE \E b \in node[n].proposed : ProposedBlockHandler(n, b)
    BY <2>5, ProposedBlockHandlerStep, Zenon
  <2>6. CASE \E v \in votes : ReceiveVote(n, v)
    BY <2>6, ReceiveVoteStep, Zenon
  <2>7. CASE \E t \in timeouts : ReceiveTimeout(n, t)
    BY <2>7, ReceiveTimeoutStep, Zenon
  <2>8. CASE OnCountdownTimeout(n)
    BY <2>8, OnCountdownTimeoutStep, Zenon
  <2>9. CASE \E s \in syncInfos : SyncInfoHandler(n, s)
    BY <2>9, SyncInfoHandlerStep, Zenon
  <2>10. CASE Hygiene(n)
    BY <2>10, HygieneStep, Zenon
  <2>11. CASE Restart(n)
    BY <2>11, RestartStep
  <2>. QED BY <2>1, <2>2, <2>3, <2>4, <2>5, <2>6, <2>7, <2>8, <2>9, <2>10, <2>11, ZenonT(30)
<1>. QED BY <1>1, <1>2, Zenon

\* The certificates, pools, rounds and blocks of every masternode agree with the
\* votes and timeouts signed so far, in every reachable state of the engine.
THEOREM EngineInvariance == Spec => []EngineInv
<1>1. Init => EngineInv
  BY InitStep
<1>2. EngineInv /\ [Next]_vars => EngineInv'
  BY NextStep
<1>. QED BY <1>1, <1>2, PTL DEF Spec

\* The handlers of the engine vote and lock by the rules of ChainedBFT.
THEOREM EngineRefinesChainedBFT == Spec => ImplementsChainedBFT
<1>1. Init => Abs!Init
  BY InitStep
<1>2. EngineInv /\ [Next]_vars => [Abs!Next]_(Abs!vars)
  BY NextStep
<1>. QED BY <1>1, <1>2, EngineInvariance, PTL DEF Spec, ImplementsChainedBFT, Abs!Spec

\* The steps alone, from any state that satisfies the invariant: a masternode that
\* processQC has locked refuses the proposal of a leader that missed the certificates
\* also in the runs that begin in the middle of a behaviour.
THEOREM StepsRefineChainedBFT == EngineInv /\ [][Next]_vars => StepsImplementChainedBFT
<1>1. EngineInv /\ [Next]_vars => EngineInv'
  BY NextStep
<1>2. EngineInv /\ [Next]_vars => [Abs!Next]_(Abs!vars)
  BY NextStep
<1>. QED BY <1>1, <1>2, PTL DEF StepsImplementChainedBFT

\* setNewRound leaves every masternode in the round after its last certificate.
THEOREM RoundFollowsCertificatesHolds == Spec => []RoundFollowsCertificates
<1>1. EngineInv => RoundFollowsCertificates
  BY Zenon DEF EngineInv, RoundInv, RoundFollowsCertificates
<1>. QED BY <1>1, EngineInvariance, PTL

\* A certificate a masternode acts on was signed by a threshold of masternodes.
THEOREM CertificatesAreSignedHolds == Spec => []CertificatesAreSigned
<1>. DEFINE Signers(M) == {m.signer : m \in M}
<1>1. EngineInv => CertificatesAreSigned
  <2>. SUFFICES ASSUME EngineInv, NEW n \in Masternodes
                PROVE  /\ QCRound(node[n].highestQuorumCert) > 0 =>
                            ThresholdReached(Signers({v \in votes : v.block = node[n].highestQuorumCert}))
                       /\ node[n].highestTimeoutCert > 0 =>
                            ThresholdReached(Signers({t \in timeouts : t.round = node[n].highestTimeoutCert}))
    BY ZenonT(30) DEF CertificatesAreSigned
  <2>1. MessagesInv /\ NodeInv(votes, timeouts, node[n])
    BY NodeFacts, Zenon
  <2>2. \A b : Signers({v \in votes : v.block = b}) = SignersOf(votes, b)
    BY <2>1 DEF MessagesInv, VoteMessage, SignersOf
  <2>3. \A r : Signers({t \in timeouts : t.round = r}) = TimedOut(timeouts, r)
    <3>1. timeouts \in SUBSET TimeoutMessage
      BY <2>1, Zenon DEF MessagesInv
    <3>. QED BY <3>1, SMTT(30) DEF TimeoutMessage, TimedOut
  <2>. HIDE DEF Signers
  <2>4. ASSUME QCRound(node[n].highestQuorumCert) > 0
        PROVE  ThresholdReached(SignersOf(votes, node[n].highestQuorumCert))
    <3>1. node[n].highestQuorumCert # Nil /\ node[n].highestQuorumCert # SwitchBlock
      BY <2>4, SMTT(30) DEF QCRound, RoundOf
    <3>. QED BY <2>1, <3>1, Zenon DEF NodeInv, CertificatesInv, Signed
  <2>5. ASSUME node[n].highestTimeoutCert > 0
        PROVE  ThresholdReached(TimedOut(timeouts, node[n].highestTimeoutCert))
    BY <2>1, <2>5, ZenonT(30) DEF NodeInv, CertificatesInv
  <2>. QED BY <2>2, <2>3, <2>4, <2>5, Zenon
<1>. QED BY <1>1, EngineInvariance, PTL

\* The worker finds the block of its highest certificate; the lock is below it.
THEOREM HighestQCIsKnownHolds == Spec => []HighestQCIsKnown
<1>1. EngineInv => HighestQCIsKnown
  BY Zenon DEF EngineInv, NodeInv, CertificatesInv, HighestQCIsKnown
<1>. QED BY <1>1, EngineInvariance, PTL

\* A timeout pool holds timeouts of the current round only.
THEOREM TimeoutPoolIsCurrentHolds == Spec => []TimeoutPoolIsCurrent
<1>1. EngineInv => TimeoutPoolIsCurrent
  BY Zenon DEF EngineInv, NodeInv, PoolsInv, TimeoutPoolIsCurrent
<1>. QED BY <1>1, EngineInvariance, PTL

\* What a masternode commits is committable by the votes that do not depend on
\* the masternodes that restart.
THEOREM CommitsAreCommittableHolds == Spec => []CommitsAreCommittable
<1>1. EngineInv => CommitsAreCommittable
  <2>. SUFFICES ASSUME EngineInv, NEW n \in Masternodes, node[n].highestCommitBlock # Nil
                PROVE  node[n].highestCommitBlock \in Abs!Committable
    BY Zenon DEF CommitsAreCommittable
  <2>1. PICK b \in node[n].headers : /\ Signed(votes, b) /\ Abs!ThreeChain(b)
                                     /\ node[n].highestCommitBlock = GrandParentOf(b)
    BY NodeFacts, Zenon DEF NodeInv, CertificatesInv
  <2>2. Abs!Certified(b) /\ b \in Abs!KnownBlocks
    BY <2>1, SignedIsCertified
  <2>. QED BY <2>1, <2>2, AbsOperators, Zenon DEF Abs!Committable
<1>. QED BY <1>1, EngineInvariance, PTL
=============================================================================
