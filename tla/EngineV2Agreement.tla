-------------------------- MODULE EngineV2Agreement --------------------------
(***************************************************************************)
(* What the engine inherits from ChainedBFT when two certificates share     *)
(* more signers than masternodes restart: all masternodes commit on one     *)
(* branch, and one that does not restart never goes back.  The same of the  *)
(* engines behind Gossip, which hands each of them a message at most once.  *)
(***************************************************************************)
EXTENDS EngineV2Proofs, Gossip

\* Two certificates share more signers than masternodes restart.
QuorumsIntersect ==
  2 * (CertNum * Cardinality(Masternodes))
    > CertDen * Cardinality(Masternodes) + CertDen * Cardinality(Restarting)

-----------------------------------------------------------------------------
(* No handler takes a node back *)

\* d is the committed block of a node whose committed block was c.
CommitAhead(c, d) ==
  \/ d = c
  \/ /\ d # Nil
     /\ c # Nil => RoundOf(c) < RoundOf(d) /\ Number(c) <= Number(d)

Ahead(x, y) ==
  /\ y.currentRound >= x.currentRound
  /\ y.highestVotedRound >= x.highestVotedRound
  /\ QCRound(y.highestQuorumCert) >= QCRound(x.highestQuorumCert)
  /\ QCRound(y.lockQuorumCert) >= QCRound(x.lockQuorumCert)
  /\ y.highestTimeoutCert >= x.highestTimeoutCert
  /\ CommitAhead(x.highestCommitBlock, y.highestCommitBlock)

\* The fields that Ahead compares are ordered by numbers.
LEMMA NodeNumbers ==
  ASSUME NEW x \in NodeState
  PROVE  /\ x.currentRound \in Nat /\ x.highestVotedRound \in Nat
         /\ QCRound(x.highestQuorumCert) \in Nat /\ QCRound(x.lockQuorumCert) \in Nat
         /\ x.highestTimeoutCert \in Nat
         /\ x.highestCommitBlock # Nil =>
              RoundOf(x.highestCommitBlock) \in Nat /\ Number(x.highestCommitBlock) \in Nat
<1>1. /\ x.currentRound \in Nat /\ x.highestVotedRound \in Nat
      /\ x.highestQuorumCert \in Block \cup {Nil} /\ x.lockQuorumCert \in Block \cup {Nil}
      /\ x.highestTimeoutCert \in Nat /\ x.highestCommitBlock \in Block \cup {Nil}
  BY DEF NodeState
<1>2. \A b \in Block : RoundOf(b) \in Nat /\ Number(b) \in Nat
  BY RoundOfType DEF Block, Number
<1>. QED BY <1>1, <1>2, QCRoundType, Zenon

\* A handler that leaves these fields alone takes a node nowhere.
LEMMA AheadSame ==
  ASSUME NEW x \in NodeState, NEW y,
         y.currentRound = x.currentRound, y.highestVotedRound = x.highestVotedRound,
         y.highestQuorumCert = x.highestQuorumCert, y.lockQuorumCert = x.lockQuorumCert,
         y.highestTimeoutCert = x.highestTimeoutCert,
         y.highestCommitBlock = x.highestCommitBlock
  PROVE  Ahead(x, y)
  BY NodeNumbers DEF Ahead, CommitAhead

\* Handlers that call each other.
LEMMA AheadTransitive ==
  ASSUME NEW x \in NodeState, NEW y \in NodeState, NEW z \in NodeState, Ahead(x, y), Ahead(y, z)
  PROVE  Ahead(x, z)
<1>1. CommitAhead(x.highestCommitBlock, z.highestCommitBlock)
  <2>. DEFINE c == x.highestCommitBlock
              d == y.highestCommitBlock
              e == z.highestCommitBlock
  <2>1. /\ c # Nil => RoundOf(c) \in Nat /\ Number(c) \in Nat
        /\ d # Nil => RoundOf(d) \in Nat /\ Number(d) \in Nat
        /\ e # Nil => RoundOf(e) \in Nat /\ Number(e) \in Nat
    BY NodeNumbers
  <2>2. CommitAhead(c, d) /\ CommitAhead(d, e)
    BY DEF Ahead
  <2>. HIDE DEF c, d, e
  <2>3. CommitAhead(c, e)
    BY <2>1, <2>2, SMTT(30) DEF CommitAhead
  <2>. QED BY <2>3 DEF c, e
<1>2. /\ z.currentRound >= x.currentRound
      /\ z.highestVotedRound >= x.highestVotedRound
      /\ QCRound(z.highestQuorumCert) >= QCRound(x.highestQuorumCert)
      /\ QCRound(z.lockQuorumCert) >= QCRound(x.lockQuorumCert)
      /\ z.highestTimeoutCert >= x.highestTimeoutCert
  BY NodeNumbers DEF Ahead
<1>. QED BY <1>1, <1>2, Zenon DEF Ahead

\* processQC only raises: each of updateHighestQC, updateLock, commitBlocks and
\* setNewRound compares before it writes.
LEMMA ProcessQCAhead ==
  ASSUME NEW x \in NodeState, NEW qc \in x.headers, NEW y, y = ProcessQC(x, qc)
  PROVE  Ahead(x, y) /\ y \in NodeState
<1>1. /\ y \in NodeState
      /\ y.highestVotedRound = x.highestVotedRound
      /\ y.highestTimeoutCert = x.highestTimeoutCert
      /\ y.highestQuorumCert = IF QCRound(qc) > QCRound(x.highestQuorumCert)
                                 THEN qc ELSE x.highestQuorumCert
      /\ y.lockQuorumCert = Abs!NewLock(x.lockQuorumCert, qc)
      /\ \/ y.highestCommitBlock = x.highestCommitBlock
         \/ Commits(x.highestCommitBlock, qc) /\ y.highestCommitBlock = GrandParentOf(qc)
      /\ IF QCRound(qc) >= x.currentRound
           THEN y.currentRound = QCRound(qc) + 1
           ELSE y.currentRound = x.currentRound
  BY ProcessQCFields
<1>2. qc \in Block /\ QCRound(qc) \in Nat
  BY QCRoundType, Zenon DEF NodeState
<1>3. y.currentRound >= x.currentRound /\ QCRound(y.highestQuorumCert) >= QCRound(x.highestQuorumCert)
  BY <1>1, <1>2, NodeNumbers, SMTT(30)
<1>4. QCRound(y.lockQuorumCert) >= QCRound(x.lockQuorumCert)
  <2>1. CASE y.lockQuorumCert = x.lockQuorumCert
    BY <2>1, NodeNumbers, SMTT(30)
  <2>2. CASE y.lockQuorumCert # x.lockQuorumCert
    <3>1. /\ qc # SwitchBlock /\ y.lockQuorumCert = ParentOf(qc)
          /\ x.lockQuorumCert = Nil \/ RoundOf(ParentOf(qc)) > RoundOf(x.lockQuorumCert)
      BY <1>1, <2>2, AbsOperators, Zenon DEF Abs!NewLock
    <3>2. ParentOf(qc) \in Block /\ RoundOf(ParentOf(qc)) \in Nat
      BY <1>2, <3>1, ParentProperties, RoundOfType, Zenon
    <3>3. QCRound(y.lockQuorumCert) = RoundOf(ParentOf(qc))
      BY <3>1, <3>2, NilAssumption, ZenonT(30) DEF QCRound
    <3>. QED BY <3>1, <3>2, <3>3, NodeNumbers, SMTT(30) DEF QCRound
  <2>. QED BY <2>1, <2>2, Zenon
<1>5. CommitAhead(x.highestCommitBlock, y.highestCommitBlock)
  <2>1. CASE y.highestCommitBlock = x.highestCommitBlock
    BY <2>1 DEF CommitAhead
  <2>2. CASE Commits(x.highestCommitBlock, qc) /\ y.highestCommitBlock = GrandParentOf(qc)
    <3>1. Number(qc) > 2 /\ Number(qc) \in Nat
      BY <1>2, <2>2, AbsOperators, SMTT(30) DEF Commits, Abs!ThreeChain, Block, Number
    <3>2. GrandParentOf(qc) # Nil
      BY <1>2, <3>1, GrandParentProperties, NilAssumption, SMTT(30)
    <3>. QED BY <2>2, <3>2, Zenon DEF Commits, CommitAhead
  <2>. QED BY <1>1, <2>1, <2>2, Zenon
<1>. QED BY <1>1, <1>3, <1>4, <1>5, NodeNumbers DEF Ahead

\* processTC raises the round and the timeout certificate.
LEMMA ProcessTCAhead ==
  ASSUME NEW x \in NodeState, NEW r \in Nat, NEW y, y = ProcessTC(x, r)
  PROVE  Ahead(x, y) /\ y \in NodeState
<1>. DEFINE u == IF r > x.highestTimeoutCert THEN [x EXCEPT !.highestTimeoutCert = r] ELSE x
<1>1. u \in NodeState
  BY DEF NodeState
<1>2. /\ u.currentRound = x.currentRound /\ u.highestVotedRound = x.highestVotedRound
      /\ u.highestQuorumCert = x.highestQuorumCert /\ u.lockQuorumCert = x.lockQuorumCert
      /\ u.highestCommitBlock = x.highestCommitBlock
      /\ u.highestTimeoutCert >= x.highestTimeoutCert
  BY DEF NodeState
<1>3. y = IF r >= x.currentRound THEN SetNewRound(u, r + 1) ELSE u
  BY DEF ProcessTC
<1>. HIDE DEF u
<1>4. y \in NodeState
  BY <1>1, <1>3, SetNewRoundFields, SMTT(30)
<1>5. /\ y.currentRound >= x.currentRound /\ y.highestVotedRound = x.highestVotedRound
      /\ y.highestQuorumCert = x.highestQuorumCert /\ y.lockQuorumCert = x.lockQuorumCert
      /\ y.highestCommitBlock = x.highestCommitBlock
      /\ y.highestTimeoutCert >= x.highestTimeoutCert
  <2>1. CASE r >= x.currentRound
    BY <1>1, <1>2, <1>3, <2>1, NodeNumbers, SMTT(30) DEF SetNewRound, NodeState
  <2>2. CASE ~(r >= x.currentRound)
    BY <1>2, <1>3, <2>2, NodeNumbers, SMTT(30)
  <2>. QED BY <2>1, <2>2, Zenon
<1>. QED BY <1>4, <1>5, NodeNumbers, SMTT(30) DEF Ahead, CommitAhead

\* voteHandler pools the vote and may process a certificate.
LEMMA VoteHandlerAhead ==
  ASSUME NEW x \in NodeState, NEW vote \in VoteMessage, NEW y, y = VoteHandler(x, vote)
  PROVE  Ahead(x, y) /\ y \in NodeState
<1>. DEFINE u == [x EXCEPT !.votePool = @ \cup {vote}]
<1>1. u \in NodeState
  BY DEF NodeState
<1>2. Ahead(x, u) /\ u.headers = x.headers
  <2>1. /\ u.currentRound = x.currentRound /\ u.highestVotedRound = x.highestVotedRound
        /\ u.highestQuorumCert = x.highestQuorumCert /\ u.lockQuorumCert = x.lockQuorumCert
        /\ u.highestTimeoutCert = x.highestTimeoutCert
        /\ u.highestCommitBlock = x.highestCommitBlock /\ u.headers = x.headers
    BY DEF NodeState
  <2>. HIDE DEF u
  <2>. QED BY <2>1, AheadSame, Zenon
<1>3. y = u \/ (vote.block \in x.headers /\ y = ProcessQC(u, vote.block))
  BY DEF VoteHandler
<1>. HIDE DEF u
<1>4. CASE y = u
  BY <1>1, <1>2, <1>4, Zenon
<1>5. CASE vote.block \in x.headers /\ y = ProcessQC(u, vote.block)
  <2>1. Ahead(u, y) /\ y \in NodeState
    BY <1>1, <1>2, <1>5, ProcessQCAhead, Zenon
  <2>. QED BY <1>1, <1>2, <2>1, AheadTransitive, Zenon
<1>. QED BY <1>3, <1>4, <1>5, Zenon

\* timeoutHandler pools the timeout and may process a timeout certificate.
LEMMA TimeoutHandlerAhead ==
  ASSUME NEW x \in NodeState, NEW timeout \in TimeoutMessage, NEW y, y = TimeoutHandler(x, timeout)
  PROVE  Ahead(x, y) /\ y \in NodeState
<1>. DEFINE u == [x EXCEPT !.timeoutPool = @ \cup {timeout}]
<1>1. u \in NodeState
  BY DEF NodeState
<1>2. Ahead(x, u)
  <2>1. /\ u.currentRound = x.currentRound /\ u.highestVotedRound = x.highestVotedRound
        /\ u.highestQuorumCert = x.highestQuorumCert /\ u.lockQuorumCert = x.lockQuorumCert
        /\ u.highestTimeoutCert = x.highestTimeoutCert
        /\ u.highestCommitBlock = x.highestCommitBlock
    BY DEF NodeState
  <2>. HIDE DEF u
  <2>. QED BY <2>1, AheadSame, Zenon
<1>3. y = u \/ y = ProcessTC(u, timeout.round)
  BY DEF TimeoutHandler
<1>4. timeout.round \in Nat
  BY DEF TimeoutMessage
<1>. HIDE DEF u
<1>5. CASE y = u
  BY <1>1, <1>2, <1>5, Zenon
<1>6. CASE y = ProcessTC(u, timeout.round)
  <2>1. Ahead(u, y) /\ y \in NodeState
    BY <1>1, <1>4, <1>6, ProcessTCAhead, Zenon
  <2>. QED BY <1>1, <1>2, <2>1, AheadTransitive, Zenon
<1>. QED BY <1>3, <1>5, <1>6, Zenon

\* A step of n that takes n forward, unless it is a restart.
Forward(n) ==
  \E y : node' = [node EXCEPT ![n] = y] /\ (n \in Following => Ahead(node[n], y))

\* The other masternodes are left alone.
LEMMA ForwardAll ==
  ASSUME EngineInv, NEW n \in Masternodes, Forward(n), NEW m \in Following
  PROVE  Ahead(node[m], node'[m])
<1>1. PICK y : node' = [node EXCEPT ![n] = y] /\ (n \in Following => Ahead(node[n], y))
  BY ZenonT(30) DEF Forward
<1>2. m \in Masternodes /\ node[m] \in NodeState
  BY NodeFacts, Zenon DEF Following
<1>3. CASE m = n
  BY <1>1, <1>3, ZenonT(30) DEF EngineInv
<1>4. CASE m # n
  <2>1. node'[m] = node[m]
    BY <1>1, <1>2, <1>4, Zenon DEF EngineInv
  <2>. QED BY <1>2, <2>1, AheadSame, Zenon
<1>. QED BY <1>3, <1>4, Zenon

\* The worker's steps leave the engine's fields alone.
LEMMA CommitNewWorkForward ==
  ASSUME EngineInv, NEW n \in Masternodes, NEW body, CommitNewWork(n, body)
  PROVE  Forward(n)
<1>. DEFINE x == node[n]
            y == [x EXCEPT !.works = @ \cup {Prepare(x, body)},
                           !.lastParentBlockCommit = x.highestQuorumCert]
<1>1. node' = [node EXCEPT ![n] = y]
  BY ZenonT(30) DEF CommitNewWork, FindParentBlockToAssign, EngineInv
<1>2. x \in NodeState
  BY NodeFacts, Zenon
<1>3. Ahead(x, y)
  <2>1. /\ y.currentRound = x.currentRound /\ y.highestVotedRound = x.highestVotedRound
        /\ y.highestQuorumCert = x.highestQuorumCert /\ y.lockQuorumCert = x.lockQuorumCert
        /\ y.highestTimeoutCert = x.highestTimeoutCert
        /\ y.highestCommitBlock = x.highestCommitBlock
    BY <1>2, Zenon DEF NodeState
  <2>. HIDE DEF x, y
  <2>. QED BY <1>2, <2>1, AheadSame, Zenon
<1>. HIDE DEF y
<1>. QED BY <1>1, <1>3, ZenonT(30) DEF Forward

\* Neither does writing a block touch them.
LEMMA WrittenAhead ==
  ASSUME NEW x \in NodeState, NEW b, NEW y, y = Written(x, b)
  PROVE  Ahead(x, y)
<1>. DEFINE u == WriteBlock(x, b)
<1>1. PICK h : u = [x EXCEPT !.headers = @ \cup {b}, !.head = h]
  BY Zenon DEF WriteBlock
<1>2. y = u \/ y = [u EXCEPT !.proposed = @ \cup {b}]
  BY DEF Written
<1>3. /\ y.currentRound = x.currentRound /\ y.highestVotedRound = x.highestVotedRound
      /\ y.highestQuorumCert = x.highestQuorumCert /\ y.lockQuorumCert = x.lockQuorumCert
      /\ y.highestTimeoutCert = x.highestTimeoutCert
      /\ y.highestCommitBlock = x.highestCommitBlock
  <2>. HIDE DEF u
  <2>. QED BY <1>1, <1>2, Zenon DEF NodeState
<1>. QED BY <1>3, AheadSame, Zenon

\* Writing a sealed block does not touch them.
LEMMA WaitResultForward ==
  ASSUME EngineInv, NEW n \in Masternodes, NEW b, WaitResult(n, b)
  PROVE  Forward(n)
<1>. DEFINE x == Seal(node[n], b)
            y == Written(x, b)
<1>1. node' = [node EXCEPT ![n] = y] /\ b \in node[n].works
  BY DEF WaitResult, Written
<1>2. node[n] \in NodeState
  BY NodeFacts
<1>3. RoundOf(b) \in Nat
  BY <1>1, <1>2, RoundOfType, Zenon DEF NodeState
<1>4. x \in NodeState
  BY <1>2, <1>3, ZenonT(30) DEF Seal, NodeState
<1>5. Ahead(x, y)
  BY <1>4, WrittenAhead, Zenon
<1>6. /\ x.currentRound = node[n].currentRound
      /\ x.highestVotedRound = node[n].highestVotedRound
      /\ x.highestQuorumCert = node[n].highestQuorumCert
      /\ x.lockQuorumCert = node[n].lockQuorumCert
      /\ x.highestTimeoutCert = node[n].highestTimeoutCert
      /\ x.highestCommitBlock = node[n].highestCommitBlock
  BY <1>2 DEF Seal, NodeState
<1>. HIDE DEF x, y
<1>7. Ahead(node[n], y)
  BY <1>5, <1>6, Zenon DEF Ahead
<1>. QED BY <1>1, <1>7, ZenonT(30) DEF Forward

\* Nor does importing a proposal.
LEMMA InsertBlockForward ==
  ASSUME EngineInv, NEW n \in Masternodes, NEW b, InsertBlock(n, b)
  PROVE  Forward(n)
<1>. DEFINE y == Written(node[n], b)
<1>1. node' = [node EXCEPT ![n] = y]
  BY DEF InsertBlock, Written
<1>2. Ahead(node[n], y)
  BY NodeFacts, WrittenAhead, Zenon
<1>. HIDE DEF y
<1>. QED BY <1>1, <1>2, ZenonT(30) DEF Forward

\* voteHandler takes a node forward only.
LEMMA ReceiveVoteForward ==
  ASSUME EngineInv, NEW n \in Masternodes, NEW vote \in votes, ReceiveVote(n, vote)
  PROVE  Forward(n)
<1>. DEFINE y == VoteHandler(node[n], vote)
<1>1. node' = [node EXCEPT ![n] = y]
  BY DEF ReceiveVote
<1>2. node[n] \in NodeState /\ vote \in VoteMessage
  BY NodeFacts, Zenon DEF MessagesInv
<1>3. Ahead(node[n], y)
  BY <1>2, VoteHandlerAhead, Zenon
<1>. HIDE DEF y
<1>. QED BY <1>1, <1>3, ZenonT(30) DEF Forward

\* timeoutHandler takes a node forward only.
LEMMA ReceiveTimeoutForward ==
  ASSUME EngineInv, NEW n \in Masternodes, NEW timeout \in timeouts, ReceiveTimeout(n, timeout)
  PROVE  Forward(n)
<1>. DEFINE y == TimeoutHandler(node[n], timeout)
<1>1. node' = [node EXCEPT ![n] = y]
  BY DEF ReceiveTimeout
<1>2. node[n] \in NodeState /\ timeout \in TimeoutMessage
  BY NodeFacts, Zenon DEF MessagesInv
<1>3. Ahead(node[n], y)
  BY <1>2, TimeoutHandlerAhead, Zenon
<1>. HIDE DEF y
<1>. QED BY <1>1, <1>3, Zenon DEF Forward

\* So does OnCountdownTimeout, whose own timeout may complete a certificate.
LEMMA OnCountdownTimeoutForward ==
  ASSUME EngineInv, NEW n \in Masternodes, OnCountdownTimeout(n)
  PROVE  Forward(n)
<1>. DEFINE x == node[n]
            own == [signer |-> n, round |-> x.currentRound]
            y == TimeoutHandler(x, own)
            z == [y EXCEPT !.timeoutCount = (y.timeoutCount + 1) % TimeoutSyncThreshold]
<1>1. node' = [node EXCEPT ![n] = z]
  BY DEF OnCountdownTimeout
<1>2. x \in NodeState
  BY NodeFacts, Zenon
<1>3. own \in TimeoutMessage
  BY <1>2 DEF TimeoutMessage, NodeState
<1>4. Ahead(x, y) /\ y \in NodeState
  <2>. HIDE DEF x, own
  <2>. QED BY <1>2, <1>3, TimeoutHandlerAhead, ZenonT(30)
<1>5. Ahead(x, z)
  <2>. HIDE DEF x, y
  <2>1. /\ z.currentRound = y.currentRound /\ z.highestVotedRound = y.highestVotedRound
        /\ z.highestQuorumCert = y.highestQuorumCert /\ z.lockQuorumCert = y.lockQuorumCert
        /\ z.highestTimeoutCert = y.highestTimeoutCert
        /\ z.highestCommitBlock = y.highestCommitBlock
    BY <1>4, Zenon DEF NodeState
  <2>. HIDE DEF z
  <2>. QED BY <1>4, <2>1, ZenonT(30) DEF Ahead
<1>. HIDE DEF y, z
<1>. QED BY <1>1, <1>5, Zenon DEF Forward

\* Two stale certificates of a sync info take a node nowhere.
LEMMA SyncInfoHandlerForward ==
  ASSUME EngineInv, NEW n \in Masternodes, NEW s \in syncInfos, SyncInfoHandler(n, s)
  PROVE  Forward(n)
<1>. DEFINE x == node[n]
            y == ProcessQC(x, s.qc)
            z == ProcessTC(y, s.tc)
<1>1. x \in NodeState /\ s \in SyncInfoMessage /\ s.tc \in Nat
  BY NodeFacts, Zenon DEF MessagesInv, SyncInfoMessage
<1>2. s.qc \in x.headers
  BY DEF SyncInfoHandler, VerifySyncInfoMessage, VerifyQC
<1>3. PICK w \in {y, z} : node' = [node EXCEPT ![n] = w]
  BY Zenon DEF SyncInfoHandler
<1>4. Ahead(x, y) /\ y \in NodeState
  <2>. HIDE DEF x
  <2>. QED BY <1>1, <1>2, ProcessQCAhead, Zenon
<1>5. Ahead(y, z) /\ z \in NodeState
  <2>. HIDE DEF y
  <2>. QED BY <1>1, <1>4, ProcessTCAhead, Zenon
<1>. HIDE DEF y, z
<1>6. Ahead(x, w)
  BY <1>1, <1>3, <1>4, <1>5, AheadTransitive, Zenon
<1>. QED BY <1>3, <1>6, ZenonT(30) DEF Forward

\* hygieneVotePool and hygieneTimeoutPool touch the pools only.
LEMMA HygieneForward ==
  ASSUME EngineInv, NEW n \in Masternodes, Hygiene(n)
  PROVE  Forward(n)
<1>. DEFINE x == node[n]
            y == [x EXCEPT !.votePool = HygieneVotePool(x), !.timeoutPool = HygieneTimeoutPool(x)]
<1>1. node' = [node EXCEPT ![n] = y]
  BY Zenon DEF Hygiene, EngineInv
<1>2. x \in NodeState
  BY NodeFacts
<1>3. Ahead(x, y)
  <2>1. /\ y.currentRound = x.currentRound /\ y.highestVotedRound = x.highestVotedRound
        /\ y.highestQuorumCert = x.highestQuorumCert /\ y.lockQuorumCert = x.lockQuorumCert
        /\ y.highestTimeoutCert = x.highestTimeoutCert
        /\ y.highestCommitBlock = x.highestCommitBlock
    BY <1>2 DEF NodeState
  <2>. HIDE DEF x, y
  <2>. QED BY <1>2, <2>1, AheadSame, Zenon
<1>. HIDE DEF y
<1>. QED BY <1>1, <1>3, Zenon DEF Forward

\* ProposedBlockHandler votes only in a round later than every round it voted in.
LEMMA ProposedBlockHandlerForward ==
  ASSUME EngineInv, NEW n \in Masternodes, NEW b, ProposedBlockHandler(n, b)
  PROVE  Forward(n)
<1>. DEFINE x == [node[n] EXCEPT !.proposed = @ \ {b}]
            y == ProcessQC(x, ParentOf(b))
            vote == [signer |-> n, block |-> b]
            w == [y EXCEPT !.highestVotedRound = y.currentRound]
            z == VoteHandler(w, vote)
<1>1. /\ b \in node[n].proposed
      /\ \/ VerifyVotingRule(y, b) /\ node' = [node EXCEPT ![n] = z]
         \/ node' = [node EXCEPT ![n] = y]
  BY Zenon DEF ProposedBlockHandler, SendVote
<1>2. NodeInv(votes, timeouts, node[n]) /\ node[n] \in NodeState
  BY NodeFacts, Zenon
<1>3. b \in Block /\ ParentOf(b) \in node[n].headers
  BY <1>1, <1>2, Zenon DEF NodeInv, BlocksInv, NodeState
<1>4. x \in NodeState /\ x.headers = node[n].headers
  BY <1>2, Zenon DEF NodeState
<1>5. Ahead(node[n], x)
  <2>1. /\ x.currentRound = node[n].currentRound
        /\ x.highestVotedRound = node[n].highestVotedRound
        /\ x.highestQuorumCert = node[n].highestQuorumCert
        /\ x.lockQuorumCert = node[n].lockQuorumCert
        /\ x.highestTimeoutCert = node[n].highestTimeoutCert
        /\ x.highestCommitBlock = node[n].highestCommitBlock
    BY <1>2, Zenon DEF NodeState
  <2>. HIDE DEF x
  <2>. QED BY <1>2, <2>1, AheadSame, Zenon
<1>6. Ahead(x, y) /\ y \in NodeState
  <2>. HIDE DEF x
  <2>. QED BY <1>3, <1>4, ProcessQCAhead, Zenon
<1>7. Ahead(node[n], y)
  <2>. HIDE DEF x, y
  <2>. QED BY <1>2, <1>4, <1>5, <1>6, AheadTransitive, Zenon
<1>8. CASE node' = [node EXCEPT ![n] = y]
  <2>. HIDE DEF y
  <2>. QED BY <1>7, <1>8, Zenon DEF Forward
<1>9. CASE VerifyVotingRule(y, b) /\ node' = [node EXCEPT ![n] = z]
  <2>. HIDE DEF y
  <2>1. w \in NodeState
    BY <1>6, ZenonT(30) DEF NodeState
  <2>2. Ahead(y, w)
    <3>1. /\ w.currentRound = y.currentRound /\ w.highestVotedRound = y.currentRound
          /\ w.highestQuorumCert = y.highestQuorumCert /\ w.lockQuorumCert = y.lockQuorumCert
          /\ w.highestTimeoutCert = y.highestTimeoutCert
          /\ w.highestCommitBlock = y.highestCommitBlock
      BY <1>6, Zenon DEF NodeState
    <3>2. y.currentRound > y.highestVotedRound
      BY <1>9, Zenon DEF VerifyVotingRule
    <3>. HIDE DEF w
    <3>. QED BY <1>6, <3>1, <3>2, NodeNumbers, SMTT(30) DEF Ahead, CommitAhead
  <2>3. vote \in VoteMessage
    BY <1>3, Zenon DEF VoteMessage
  <2>. HIDE DEF w, vote
  <2>4. Ahead(w, z) /\ z \in NodeState
    BY <2>1, <2>3, VoteHandlerAhead, Zenon
  <2>. HIDE DEF z
  <2>5. Ahead(node[n], w)
    BY <1>2, <1>6, <1>7, <2>1, <2>2, AheadTransitive, Zenon
  <2>6. Ahead(node[n], z)
    BY <1>2, <2>1, <2>4, <2>5, AheadTransitive, Zenon
  <2>. QED BY <1>9, <2>6, Zenon DEF Forward
<1>. QED BY <1>1, <1>8, <1>9, Zenon

\* No step takes a masternode back that does not restart.
LEMMA NextAhead ==
  ASSUME EngineInv, [Next]_vars, NEW m \in Following
  PROVE  Ahead(node[m], node'[m])
<1>1. CASE UNCHANGED vars
  BY <1>1, NodeFacts, AheadSame, Zenon DEF vars, Following
<1>2. CASE Next
  <2>1. PICK n \in Masternodes :
          \/ \E body \in Bodies : CommitNewWork(n, body)
          \/ \E b \in node[n].works : WaitResult(n, b)
          \/ \E b \in blocks : InsertBlock(n, b)
          \/ \E b \in node[n].proposed : ProposedBlockHandler(n, b)
          \/ \E v \in votes : ReceiveVote(n, v)
          \/ \E t \in timeouts : ReceiveTimeout(n, t)
          \/ OnCountdownTimeout(n)
          \/ \E s \in syncInfos : SyncInfoHandler(n, s)
          \/ Hygiene(n)
          \/ Restart(n)
    BY <1>2, Zenon DEF Next
  <2>2. Restart(n) => Forward(n)
    BY ZenonT(30) DEF Restart, Forward, Following
  <2>3. Forward(n)
    BY <2>1, <2>2, CommitNewWorkForward, WaitResultForward, InsertBlockForward,
       ProposedBlockHandlerForward, ReceiveVoteForward, ReceiveTimeoutForward,
       OnCountdownTimeoutForward, SyncInfoHandlerForward, HygieneForward, Zenon
  <2>. QED BY <2>3, ForwardAll, Zenon
<1>. QED BY <1>1, <1>2, Zenon

-----------------------------------------------------------------------------
(* One vote per round *)

\* A masternode that does not restart has voted in no round after the one it
\* remembers, and at most once in each.
VotesOnce ==
  /\ \A v \in votes : v.signer \in Following =>
       RoundOf(v.block) <= node[v.signer].highestVotedRound
  /\ \A v, w \in votes :
       /\ v.signer \in Following /\ v.signer = w.signer
       /\ RoundOf(v.block) = RoundOf(w.block)
       => v = w

\* A new vote is for a round later than the last one, and that round is noted.
LEMMA NewVotes ==
  ASSUME EngineInv, [Next]_vars, votes' # votes
  PROVE  \E n \in Masternodes, b \in Block :
           /\ votes' = votes \cup {[signer |-> n, block |-> b]}
           /\ RoundOf(b) > node[n].highestVotedRound
           /\ RoundOf(b) = node'[n].highestVotedRound
<1>0. PICK n \in Masternodes : \E b \in node[n].proposed : ProposedBlockHandler(n, b)
  BY ZenonT(30) DEF Next, vars, CommitNewWork, WaitResult, InsertBlock, ReceiveVote, ReceiveTimeout,
         OnCountdownTimeout, SyncInfoHandler, Hygiene, Restart
<1>1. PICK b \in node[n].proposed : ProposedBlockHandler(n, b)
  BY <1>0, ZenonT(30)
<1>. DEFINE x == [node[n] EXCEPT !.proposed = @ \ {b}]
            y == ProcessQC(x, ParentOf(b))
            vote == [signer |-> n, block |-> b]
            w == [y EXCEPT !.highestVotedRound = y.currentRound]
            z == VoteHandler(w, vote)
<1>2. /\ VerifyVotingRule(y, b) /\ node' = [node EXCEPT ![n] = z] /\ votes' = votes \cup {vote}
  BY <1>1, Zenon DEF ProposedBlockHandler, SendVote
<1>3. NodeInv(votes, timeouts, node[n]) /\ node[n] \in NodeState /\ node'[n] = z
  BY <1>2, NodeFacts, Zenon DEF EngineInv
<1>4. b \in Block /\ ParentOf(b) \in node[n].headers
  BY <1>1, <1>3, ZenonT(30) DEF NodeInv, BlocksInv, NodeState
<1>5. /\ x \in NodeState /\ x.headers = node[n].headers
      /\ x.highestVotedRound = node[n].highestVotedRound
  BY <1>3, ZenonT(30) DEF NodeState
<1>6. y \in NodeState /\ y.highestVotedRound = x.highestVotedRound
  <2>. HIDE DEF x
  <2>. QED BY <1>4, <1>5, ProcessQCFields
<1>7. RoundOf(b) = y.currentRound /\ RoundOf(b) > node[n].highestVotedRound
  <2>. HIDE DEF x, y
  <2>. QED BY <1>2, <1>5, <1>6, Zenon DEF VerifyVotingRule
<1>8. w \in NodeState /\ w.highestVotedRound = y.currentRound
  <2>. HIDE DEF x, y
  <2>. QED BY <1>6, Zenon DEF NodeState
<1>9. vote \in VoteMessage
  BY <1>4, Zenon DEF VoteMessage
<1>10. z.highestVotedRound = w.highestVotedRound
  <2>. HIDE DEF w
  <2>. DEFINE u == [w EXCEPT !.votePool = @ \cup {vote}]
  <2>1. /\ u \in NodeState /\ u.headers = w.headers
        /\ u.highestVotedRound = w.highestVotedRound
    BY <1>8, <1>9, Zenon DEF NodeState
  <2>2. z = u \/ (vote.block \in w.headers /\ z = ProcessQC(u, vote.block))
    BY DEF VoteHandler
  <2>. HIDE DEF u, z, vote
  <2>. QED BY <2>1, <2>2, ProcessQCFields
<1>. QED BY <1>2, <1>3, <1>4, <1>7, <1>8, <1>10, Zenon

\* verifyVotingRule and the note of sendVote keep a masternode that does not
\* restart from voting twice in a round.
THEOREM OneVotePerRound == Spec => []VotesOnce
<1>1. Init => VotesOnce
  BY DEF Init, VotesOnce
<1>2. ASSUME EngineInv, VotesOnce, [Next]_vars
      PROVE  VotesOnce'
  <2>1. \A v \in votes : v.signer \in Masternodes /\ v.block \in Block /\ RoundOf(v.block) \in Nat
                         /\ v = [signer |-> v.signer, block |-> v.block]
    BY <1>2, RoundOfType, SMTT(30) DEF EngineInv, MessagesInv, VoteMessage
  <2>2. \A m \in Following : /\ node'[m].highestVotedRound >= node[m].highestVotedRound
                             /\ node[m].highestVotedRound \in Nat
    BY <1>2, NextAhead, NodeFacts, NodeNumbers, Zenon DEF Ahead, Following
  <2>3. \A m \in Following : node'[m].highestVotedRound \in Nat
    BY <1>2, NextStep, NodeNumbers, Zenon DEF EngineInv, NodeInv, Following
  <2>a. \A i, j, k \in Nat : i <= j /\ k >= j => i <= k
    OBVIOUS
  <2>b. \A i, j, k \in Nat : i <= j /\ k > j => i < k
    OBVIOUS
  <2>c. \A i \in Nat : i <= i /\ ~(i < i)
    OBVIOUS
  <2>d. \A v \in votes : v.signer \in Following => RoundOf(v.block) <= node'[v.signer].highestVotedRound
    BY <1>2, <2>1, <2>2, <2>3, <2>a, Zenon DEF VotesOnce
  <2>4. CASE votes' = votes
    BY <1>2, <2>4, <2>d, Zenon DEF VotesOnce
  <2>5. CASE votes' # votes
    <3>1. PICK n \in Masternodes, b \in Block :
            /\ votes' = votes \cup {[signer |-> n, block |-> b]}
            /\ RoundOf(b) > node[n].highestVotedRound
            /\ RoundOf(b) = node'[n].highestVotedRound
      BY <1>2, <2>5, NewVotes, Zenon
    <3>. DEFINE new == [signer |-> n, block |-> b]
    <3>2. RoundOf(b) \in Nat /\ new.signer = n /\ new.block = b
      BY RoundOfType, Zenon
    <3>. HIDE DEF new
    <3>3. \A v \in votes : v.signer = n /\ n \in Following => RoundOf(v.block) < RoundOf(b)
      BY <1>2, <2>1, <2>2, <2>b, <3>1, <3>2, Zenon DEF VotesOnce
    <3>4. \A v \in votes' : v \in votes \/ v = new
      BY <3>1, Zenon DEF new
    <3>5. ASSUME NEW v \in votes', v.signer \in Following
          PROVE  RoundOf(v.block) <= node'[v.signer].highestVotedRound
      BY <2>c, <2>d, <3>1, <3>2, <3>4, <3>5, Zenon
    <3>6. ASSUME NEW v \in votes', NEW w \in votes', v.signer \in Following, v.signer = w.signer,
                 RoundOf(v.block) = RoundOf(w.block)
          PROVE  v = w
      <4>1. CASE v \in votes /\ w \in votes
        BY <1>2, <3>6, <4>1, Zenon DEF VotesOnce
      <4>2. CASE v = new \/ w = new
        BY <2>c, <3>2, <3>3, <3>4, <3>6, <4>2, Zenon
      <4>. QED BY <3>4, <4>1, <4>2, Zenon
    <3>. QED BY <3>5, <3>6, Zenon DEF VotesOnce
  <2>. QED BY <2>4, <2>5, Zenon
<1>. QED BY <1>1, <1>2, EngineInvariance, PTL DEF Spec

-----------------------------------------------------------------------------
(* Agreement *)

\* ChainedBFT with its theorems, on the votes of the masternodes that never restart.
Safe == INSTANCE ChainedBFTProofs WITH
          Faulty <- Restarting,
          votes <- {v \in votes : v.signer \in Following},
          highestVotedRound <- [n \in Following |-> node[n].highestVotedRound],
          lockQuorumCert <- [n \in Following |-> node[n].lockQuorumCert]

\* The two instances of ChainedBFT have the same steps.
LEMMA SameProtocol ==
  /\ Abs!Init => Safe!Init
  /\ [Abs!Next]_(Abs!vars) => [Safe!Next]_(Safe!vars)
<1>1. Abs!Init => Safe!Init
  BY ZenonT(30) DEF Abs!Init, Safe!Init, Abs!Honest, Safe!Honest
<1>2. [Abs!Next]_(Abs!vars) => [Safe!Next]_(Safe!vars)
  BY ZenonT(30) DEF Abs!Next, Safe!Next, Abs!Honest, Safe!Honest, Abs!ProcessQC, Safe!ProcessQC,
         Abs!ProposedBlock, Safe!ProposedBlock, Abs!vars, Safe!vars,
         Abs!Certified, Safe!Certified, Abs!KnownBlocks, Safe!KnownBlocks,
         Abs!SwitchBlock, Safe!SwitchBlock, Abs!Child, Safe!Child,
         Abs!NewLock, Safe!NewLock, Abs!VotingRule, Safe!VotingRule,
         Abs!IsQuorum, Safe!IsQuorum, Abs!Voters, Safe!Voters, Abs!RoundOf, Safe!RoundOf,
         Abs!ParentOf, Safe!ParentOf, Abs!AncestorAt, Safe!AncestorAt,
         Abs!Number, Safe!Number, Abs!Cardinality, Safe!Cardinality,
         Abs!IsExtendingFromAncestor, Safe!IsExtendingFromAncestor
<1>. QED BY <1>1, <1>2, ZenonT(30)

\* ChainedBFTProofs speaks about the engine if its assumptions hold.
LEMMA SafeAgreement ==
  ASSUME QuorumsIntersect
  PROVE  Safe!Spec => []Safe!Agreement
<1>1. Nil \notin Safe!Block
  BY NilAssumption, ZenonT(30) DEF Safe!Block, Block, Safe!Headers, Headers
<1>2. /\ CertNum \in Nat
      /\ CertDen \in Nat \ {0}
      /\ 2 * (CertNum * Safe!Cardinality(Masternodes))
           > CertDen * Safe!Cardinality(Masternodes) + CertDen * Safe!Cardinality(Restarting)
  <2>1. \A S : Safe!Cardinality(S) = Cardinality(S)
    BY ZenonT(30) DEF Safe!Cardinality, Cardinality
  <2>. QED BY <2>1, ThresholdType, ZenonT(30) DEF QuorumsIntersect
<1>3. Safe!IsFiniteSet(Masternodes) /\ Restarting \subseteq Masternodes
  BY ParametersAssumption, MasternodesFinite, Zenon
     DEF Safe!IsFiniteSet, IsFiniteSet, ParametersAssumption
<1>4. Rounds \subseteq Nat \ {0}
  BY RoundsAssumption, ZenonT(30)
<1>. QED BY <1>1, <1>2, <1>3, <1>4, Safe!AgreementHolds, PTL

\* The blocks that signed certificates commit lie on one branch.
SignedOneBranch ==
  \A b, c \in Block :
    Signed(votes, b) /\ Abs!ThreeChain(b) /\ Signed(votes, c) /\ Abs!ThreeChain(c)
      => SameBranch(GrandParentOf(b), GrandParentOf(c))

\* The blocks any two masternodes have committed lie on one branch.
CommitsOnOneBranch ==
  \A m, n \in Masternodes :
    node[m].highestCommitBlock # Nil /\ node[n].highestCommitBlock # Nil
      => SameBranch(node[m].highestCommitBlock, node[n].highestCommitBlock)

\* The certificates that processQC sees are among those ChainedBFT speaks about.
LEMMA SignedAgree ==
  ASSUME QuorumsIntersect
  PROVE  Spec => []SignedOneBranch
<1>1. Safe!Agreement => SignedOneBranch
  <2>. SUFFICES ASSUME Safe!Agreement, NEW b \in Block, NEW c \in Block,
                       Signed(votes, b), Abs!ThreeChain(b), Signed(votes, c), Abs!ThreeChain(c)
                PROVE  SameBranch(GrandParentOf(b), GrandParentOf(c))
    BY Zenon DEF SignedOneBranch
  <2>1. GrandParentOf(b) \in Abs!Committable /\ GrandParentOf(c) \in Abs!Committable
    BY SignedIsCertified, AbsOperators, Zenon DEF Abs!Committable
  <2>2. Abs!Committable = Safe!Committable
    BY ZenonT(30) DEF Abs!Committable, Safe!Committable, Abs!KnownBlocks, Safe!KnownBlocks,
           Abs!Certified, Safe!Certified, Abs!ThreeChain, Safe!ThreeChain,
           Abs!GrandParentOf, Safe!GrandParentOf, Abs!ParentOf, Safe!ParentOf,
           Abs!AncestorAt, Safe!AncestorAt, Abs!Number, Safe!Number, Abs!RoundOf, Safe!RoundOf,
           Abs!SwitchBlock, Safe!SwitchBlock, Abs!IsQuorum, Safe!IsQuorum,
           Abs!Voters, Safe!Voters, Abs!Honest, Safe!Honest, Abs!Cardinality, Safe!Cardinality
  <2>3. Safe!SameBranch(GrandParentOf(b), GrandParentOf(c))
    BY <2>1, <2>2, Zenon DEF Safe!Agreement
  <2>. QED BY <2>3, ZenonT(30) DEF Safe!SameBranch, SameBranch, Safe!IsExtendingFromAncestor,
              IsExtendingFromAncestor, Safe!Number, Number, Safe!AncestorAt, AncestorAt
<1>. QED BY <1>1, SameProtocol, SafeAgreement, EngineRefinesChainedBFT, PTL
         DEF ImplementsChainedBFT, Abs!Spec, Safe!Spec

\* No two masternodes, restarting ones included, commit blocks of different
\* branches: commitBlocks acts on certificates that enough of the others signed.
THEOREM EngineAgreement ==
  ASSUME QuorumsIntersect
  PROVE  Spec => []CommitsOnOneBranch
<1>1. EngineInv /\ SignedOneBranch => CommitsOnOneBranch
  <2>. SUFFICES ASSUME EngineInv, SignedOneBranch, NEW m \in Masternodes, NEW n \in Masternodes,
                       node[m].highestCommitBlock # Nil, node[n].highestCommitBlock # Nil
                PROVE  SameBranch(node[m].highestCommitBlock, node[n].highestCommitBlock)
    BY Zenon DEF CommitsOnOneBranch
  <2>1. \A k \in Masternodes : node[k].highestCommitBlock # Nil =>
          \E b \in Block : /\ Signed(votes, b) /\ Abs!ThreeChain(b)
                           /\ node[k].highestCommitBlock = GrandParentOf(b)
    BY NodeFacts, ZenonT(30) DEF NodeInv, CertificatesInv, NodeState
  <2>. QED BY <2>1, Zenon DEF SignedOneBranch
<1>. QED BY <1>1, EngineInvariance, SignedAgree, PTL

\* A masternode that does not restart never goes back, and from a committed block
\* it goes on only to blocks that extend it: rounds and heights that commitBlocks
\* compares decide it because all committed blocks are on one branch.
THEOREM NeverGoesBackHolds ==
  ASSUME QuorumsIntersect
  PROVE  Spec => NeverGoesBack
<1>. DEFINE Back(n) ==
              LET x == node[n]
                  y == node'[n]
              IN  /\ y.currentRound >= x.currentRound
                  /\ y.highestVotedRound >= x.highestVotedRound
                  /\ QCRound(y.highestQuorumCert) >= QCRound(x.highestQuorumCert)
                  /\ QCRound(y.lockQuorumCert) >= QCRound(x.lockQuorumCert)
                  /\ y.highestTimeoutCert >= x.highestTimeoutCert
                  /\ x.highestCommitBlock # Nil =>
                       IsExtendingFromAncestor(y.highestCommitBlock, x.highestCommitBlock)
<1>1. ASSUME EngineInv, EngineInv', SignedOneBranch', [Next]_vars, NEW n \in Following
      PROVE  Back(n)
  <2>. DEFINE c == node[n].highestCommitBlock
              d == node'[n].highestCommitBlock
  <2>1. n \in Masternodes
    BY ZenonT(30) DEF Following
  <2>2. Ahead(node[n], node'[n])
    BY <1>1, NextAhead, Zenon
  <2>3. node[n] \in NodeState /\ node'[n] \in NodeState
    BY <1>1, <2>1, Zenon DEF EngineInv, NodeInv
  <2>4. votes \subseteq votes'
    BY <1>1, ZenonT(30) DEF Next, vars, CommitNewWork, WaitResult, InsertBlock, ProposedBlockHandler,
                ReceiveVote, ReceiveTimeout, OnCountdownTimeout, SyncInfoHandler, Hygiene, Restart
  <2>5. ASSUME c # Nil
        PROVE  IsExtendingFromAncestor(d, c)
    <3>1. CommitAhead(c, d)
      BY <2>2, ZenonT(30) DEF Ahead
    <3>2. c \in Block /\ (d # Nil => d \in Block)
      BY <2>3, <2>5, ZenonT(30) DEF NodeState
    <3>3. CASE d = c
      BY <3>2, <3>3, ExtendsOrder, ZenonT(30)
    <3>4. CASE d # c
      <4>1. d # Nil /\ d \in Block /\ Number(c) <= Number(d)
        BY <2>5, <3>1, <3>2, <3>4, ZenonT(30) DEF CommitAhead
      <4>2. PICK b \in Block : Signed(votes, b) /\ Abs!ThreeChain(b) /\ c = GrandParentOf(b)
        BY <1>1, <2>1, <2>3, <2>5, ZenonT(30) DEF EngineInv, NodeInv, CertificatesInv, NodeState
      <4>3. PICK e \in Block : Signed(votes', e) /\ Abs!ThreeChain(e) /\ d = GrandParentOf(e)
        BY <1>1, <2>1, <2>3, <4>1, ZenonT(30) DEF EngineInv, NodeInv, CertificatesInv, NodeState
      <4>4. Signed(votes', b)
        BY <2>4, <4>2, SignedStable, ZenonT(30)
      <4>5. SameBranch(c, d)
        BY <1>1, <4>2, <4>3, <4>4, ZenonT(30) DEF SignedOneBranch
      <4>. QED BY <3>2, <4>1, <4>5, ExtendsHigher, ZenonT(30)
    <3>. QED BY <3>3, <3>4, ZenonT(30)
  <2>. QED BY <2>2, <2>5, Zenon DEF Ahead
<1>2. EngineInv /\ EngineInv' /\ SignedOneBranch' /\ [Next]_vars => [\A n \in Following : Back(n)]_vars
  BY <1>1, Zenon
<1>. HIDE DEF Back
<1>3. Spec => [][\A n \in Following : Back(n)]_vars
  BY <1>2, EngineInvariance, SignedAgree, PTL DEF Spec
<1>. QED BY <1>3, ZenonT(30) DEF NeverGoesBack, Back

-----------------------------------------------------------------------------
(* The engines behind Gossip *)

\* A message that HandleMsg discards, or that the engine refuses once it is marked
\* as known, changes no engine; every other delivery is the engine's own handler.
LEMMA DeliveryIsAStep ==
  ASSUME NEW n \in Masternodes, Deliver(n)
  PROVE  Next \/ UNCHANGED vars
<1>1. CASE \E v \in votes : OnVote(n, v)
  BY <1>1, ZenonT(30) DEF OnVote, Next
<1>2. CASE \E t \in timeouts : OnTimeout(n, t)
  BY <1>2, ZenonT(30) DEF OnTimeout, Next
<1>3. CASE \E s \in syncInfos : OnSyncInfo(n, s)
  BY <1>3, ZenonT(30) DEF OnSyncInfo, Next
<1>. QED BY <1>1, <1>2, <1>3, ZenonT(30) DEF Deliver

\* Marking messages as known in the peer layer only removes behaviours: the engines
\* of Gossip are engines of EngineV2, where any message sent may be handled at any
\* time, again and again.
THEOREM GossipImplementsEngine == GossipSpec => Spec
<1>1. GossipInit => Init
  BY Zenon DEF GossipInit
<1>2. [GossipNext]_gossipVars => [Next]_vars
  <2>1. ASSUME NEW n \in Masternodes, Local(n) \/ Countdown(n)
        PROVE  Next
    BY <2>1, Zenon DEF Local, Countdown, Next
  <2>2. ASSUME UNCHANGED gossipVars
        PROVE  UNCHANGED vars
    BY <2>2, ZenonT(30) DEF gossipVars
  <2>. QED BY <2>1, <2>2, DeliveryIsAStep, ZenonT(30) DEF GossipNext
<1>. QED BY <1>1, <1>2, PTL DEF GossipSpec, Spec

\* However the peer layer loses what arrives too early or too late, the committed
\* blocks of all masternodes are on one branch.
THEOREM GossipAgreement ==
  ASSUME QuorumsIntersect
  PROVE  GossipSpec => []CommitsOnOneBranch /\ NeverGoesBack
<1>1. Spec => []CommitsOnOneBranch
  BY EngineAgreement, Zenon
<1>2. Spec => NeverGoesBack
  BY NeverGoesBackHolds, Zenon
<1>. QED BY <1>1, <1>2, GossipImplementsEngine, PTL
=============================================================================
