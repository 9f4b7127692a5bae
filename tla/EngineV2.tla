------------------------------ MODULE EngineV2 ------------------------------
(***************************************************************************)
(* The BRDPoS v2 engine of one epoch: a fixed list of masternodes, each     *)
(* running the engine, the miner's worker and the chain store, exchanging   *)
(* proposals, votes, timeouts and sync infos.                               *)
(*                                                                          *)
(* The engine's handlers run under x.lock, so each is one atomic function   *)
(* from the state x of a node to its next state.  What the code does without*)
(* the lock in several steps is several actions here: a block is inserted   *)
(* first and handed to ProposedBlockHandler later; it is prepared first and *)
(* sealed later.                                                            *)
(*                                                                          *)
(* A quorum certificate is represented by the block it certifies and a      *)
(* timeout certificate by its round.  Messages are never removed: a message *)
(* may be delivered late, in any order, again, or never.                    *)
(***************************************************************************)
EXTENDS Blocks, FiniteSets

CONSTANTS
  MasternodeList,        \* the masternodes of the epoch, in order
  Restarting,            \* the masternodes that may crash and restart
  CertNum, CertDen,      \* CertThreshold is the fraction CertNum / CertDen
  Epoch,                 \* rounds per epoch
  TimeoutSyncThreshold,  \* timeouts between two sync infos
  PoolHygieneRound,      \* age in rounds after which pooled votes are dropped
  TimeoutRounds,         \* bound: the rounds in which countdowns may expire
  Nil

Masternodes == {MasternodeList[i] : i \in 1..Len(MasternodeList)}

ASSUME ParametersAssumption ==
  /\ MasternodeList \in Seq(Masternodes) /\ MasternodeList # << >>
  /\ Restarting \subseteq Masternodes
  /\ {CertNum, CertDen, Epoch, TimeoutSyncThreshold} \subseteq Nat \ {0}
  /\ PoolHygieneRound \in Nat
  /\ TimeoutRounds \subseteq Nat

\* A certificate has a signer that does not restart.
ASSUME RestartingAssumption ==
  CertNum * Cardinality(Masternodes) > CertDen * Cardinality(Restarting)

ASSUME NilAssumption == Nil \notin Block

VARIABLES
  node,        \* the state of each masternode: the fields of the engine by their names in
               \* the code (a certificate is the block it certifies, or Nil; a timeout
               \* certificate is its round; timeoutCount is modulo the threshold), the
               \* worker's lastParentBlockCommit, and the headers and head of the chain,
               \* what is proposed (inserted, not yet handed to the engine) and works
               \* (prepared, not yet sealed)
  blocks,      \* blocks broadcast by their proposer
  votes,       \* votes broadcast
  timeouts,    \* timeout messages broadcast
  syncInfos    \* sync infos broadcast

vars == << node, blocks, votes, timeouts, syncInfos >>

-----------------------------------------------------------------------------
\* float64(number) >= float64(MasternodesLen) * certThreshold
ThresholdReached(S) == Cardinality(S) * CertDen >= CertNum * Cardinality(Masternodes)

Leader(round) == MasternodeList[((round % Epoch) % Len(MasternodeList)) + 1]

QCRound(qc) == IF qc = Nil THEN 0 ELSE RoundOf(qc)

\* Mutant of SetNewRound: the timeout pool is kept like the vote pool.
SetNewRoundKeepsTimeouts(x, round) == [x EXCEPT !.currentRound = round, !.timeoutCount = 0]

\* The round changes: the timeout pool is emptied, the vote pool is kept.
SetNewRound(x, round) ==
  [x EXCEPT !.currentRound = round, !.timeoutCount = 0, !.timeoutPool = {}]

\* Mutant of CommitBlocks: the round of the parent is not looked at.
CommitBlocksAnyParent(x, b) ==
  LET grandParent == GrandParentOf(b)
      commit      == x.highestCommitBlock
  IN  IF /\ Number(b) > 2
         /\ commit # Nil => /\ RoundOf(commit) < RoundOf(grandParent)
                            /\ Number(commit) <= Number(grandParent)
        THEN [x EXCEPT !.highestCommitBlock = grandParent]
        ELSE x

\* Three blocks of consecutive rounds on top of each other commit the lowest,
\* unless the node has committed a later or a higher one.
CommitBlocks(x, b) ==
  LET grandParent == GrandParentOf(b)
      commit      == x.highestCommitBlock
  IN  IF /\ Number(b) > 2
         /\ RoundOf(ParentOf(b)) = RoundOf(b) - 1
         /\ RoundOf(grandParent) = RoundOf(b) - 2
         /\ commit # Nil => /\ RoundOf(commit) < RoundOf(grandParent)
                            /\ Number(commit) <= Number(grandParent)
        THEN [x EXCEPT !.highestCommitBlock = grandParent]
        ELSE x

\* Mutant of UpdateLock: the last certificate wins, not the highest.
UpdateLockAlways(x, b) == [x EXCEPT !.lockQuorumCert = ParentOf(b)]

\* The certificate carried by the header of b is for its parent.
UpdateLock(x, b) ==
  IF x.lockQuorumCert = Nil \/ RoundOf(ParentOf(b)) > RoundOf(x.lockQuorumCert)
    THEN [x EXCEPT !.lockQuorumCert = ParentOf(b)]
    ELSE x

UpdateHighestQC(x, qc) ==
  IF QCRound(qc) > QCRound(x.highestQuorumCert)
    THEN [x EXCEPT !.highestQuorumCert = qc]
    ELSE x

\* An unknown block is an error, found only after highestQuorumCert was updated.
ProcessQC(x, qc) ==
  LET y == UpdateHighestQC(x, qc)
      z == IF qc = SwitchBlock THEN y ELSE CommitBlocks(UpdateLock(y, qc), qc)
  IN  IF qc \notin x.headers THEN y
      ELSE IF QCRound(qc) >= x.currentRound THEN SetNewRound(z, QCRound(qc) + 1)
      ELSE z

ProcessTC(x, round) ==
  LET y == IF round > x.highestTimeoutCert
             THEN [x EXCEPT !.highestTimeoutCert = round]
             ELSE x
  IN  IF round >= x.currentRound THEN SetNewRound(y, round + 1) ELSE y

\* Mutant of PooledVotes: votes are pooled by round alone.
PooledVotesOfRound(x, b) == {v \in x.votePool : RoundOf(v.block) = RoundOf(b)}

PooledVotes(x, b) == {v \in x.votePool : v.block = b}

\* Votes of other rounds than these are refused.
VoteAccepted(x, vote) == RoundOf(vote.block) \in {x.currentRound, x.currentRound + 1}

\* Mutant of VoteHandler: the block of a full pool is not looked up.
VoteHandlerAnyBlock(x, vote) ==
  LET y == [x EXCEPT !.votePool = @ \cup {vote}]
  IN  IF ThresholdReached(PooledVotes(y, vote.block)) THEN ProcessQC(y, vote.block) ELSE y

\* voteHandler for an accepted vote.  One for an unknown block stays in the
\* pool and waits for the next vote.
VoteHandler(x, vote) ==
  LET y == [x EXCEPT !.votePool = @ \cup {vote}]
  IN  IF vote.block \in x.headers /\ ThresholdReached(PooledVotes(y, vote.block))
        THEN ProcessQC(y, vote.block)
        ELSE y

\* Mutant of VerifyVotingRule: the highest voted round is not looked at.
VerifyVotingRuleTwice(x, b) ==
  /\ RoundOf(b) = x.currentRound
  /\ x.lockQuorumCert # Nil =>
       \/ RoundOf(ParentOf(b)) > RoundOf(x.lockQuorumCert)
       \/ IsExtendingFromAncestor(b, x.lockQuorumCert)

\* Mutant of VerifyVotingRule: the lock is not looked at.
VerifyVotingRuleUnlocked(x, b) ==
  /\ x.currentRound > x.highestVotedRound
  /\ RoundOf(b) = x.currentRound

VerifyVotingRule(x, b) ==
  /\ x.currentRound > x.highestVotedRound
  /\ RoundOf(b) = x.currentRound
  /\ x.lockQuorumCert # Nil =>
       \/ RoundOf(ParentOf(b)) > RoundOf(x.lockQuorumCert)
       \/ IsExtendingFromAncestor(b, x.lockQuorumCert)

SendVote(x, n, b) ==
  VoteHandler([x EXCEPT !.highestVotedRound = x.currentRound], [signer |-> n, block |-> b])

\* Timeouts of other rounds than the current one are refused.
TimeoutAccepted(x, timeout) == timeout.round = x.currentRound

FormsTC(x, timeout) == ThresholdReached(x.timeoutPool \cup {timeout})

\* timeoutHandler for an accepted timeout: a full pool is a timeout certificate.
TimeoutHandler(x, timeout) ==
  LET y == [x EXCEPT !.timeoutPool = @ \cup {timeout}]
  IN  IF FormsTC(x, timeout) THEN ProcessTC(y, timeout.round) ELSE y

GetSyncInfo(x) == [qc |-> x.highestQuorumCert, tc |-> x.highestTimeoutCert]

\* A timeout certificate is verified against a threshold of signatures; the empty
\* one that New creates has round 0 and none.
VerifyTC(round) == round # 0

\* The block of the certificate must be known.
VerifyQC(x, qc) == qc \in x.headers

\* What VerifySyncInfoMessage established still holds when the handler runs: both
\* certificates are valid.  Its test that one of them is newer was made without
\* the lock, so it may no longer hold and is not a guard here.
VerifySyncInfoMessage(x, s) == VerifyQC(x, s.qc) /\ VerifyTC(s.tc)

\* Pool entries more than PoolHygieneRound rounds old are dropped.
HygieneVotePool(x) == {v \in x.votePool : RoundOf(v.block) >= x.currentRound - PoolHygieneRound}

HygieneTimeoutPool(x) == {t \in x.timeoutPool : t.round >= x.currentRound - PoolHygieneRound}

-----------------------------------------------------------------------------
FindParentBlockToAssign(x) == x.highestQuorumCert

\* It is the turn of n in a round it has not mined in.
YourTurn(x, n) ==
  /\ x.currentRound > x.highestSelfMinedRound
  /\ Leader(x.currentRound) = n

\* The header carries the highest certificate and the current round.
Prepare(x, body) == Child(x.highestQuorumCert, x.currentRound, body)

\* A prepared block is signed and its round noted, without the engine's lock.
Seal(x, b) == [x EXCEPT !.works = @ \ {b}, !.highestSelfMinedRound = RoundOf(b)]

VerifyHeader(x, b) == ParentOf(b) \in x.headers /\ RoundOf(b) > RoundOf(ParentOf(b))

\* Every block is stored; the head moves to a higher block unless that drops a
\* committed block from the canonical chain.
ReorgRefused(x, b) ==
  /\ Number(b) > Number(x.head)
  /\ x.highestCommitBlock # Nil
  /\ IsExtendingFromAncestor(x.head, x.highestCommitBlock)
  /\ ~IsExtendingFromAncestor(b, x.highestCommitBlock)

WriteBlock(x, b) ==
  [x EXCEPT !.headers = @ \cup {b},
            !.head = IF Number(b) > Number(@) /\ ~ReorgRefused(x, b) THEN b ELSE @]

\* The state after New.
New(headers, head) ==
  [ headers |-> headers, head |-> head, proposed |-> {}, works |-> {},
    lastParentBlockCommit |-> Nil, currentRound |-> 0, highestSelfMinedRound |-> 0,
    highestVotedRound |-> 0, highestQuorumCert |-> Nil, lockQuorumCert |-> Nil,
    highestTimeoutCert |-> 0, highestCommitBlock |-> Nil, votePool |-> {},
    timeoutPool |-> {}, timeoutCount |-> 0 ]

\* Mutant of Initial: the certificate of the head sets no round.
InitialAtFirstRound(x) ==
  IF x.head = SwitchBlock
    THEN [x EXCEPT !.currentRound = 1, !.highestQuorumCert = SwitchBlock]
    ELSE [UpdateHighestQC(x, ParentOf(x.head)) EXCEPT !.currentRound = 1]

\* initial: start from the canonical head.
Initial(x) ==
  IF x.head = SwitchBlock
    THEN [x EXCEPT !.currentRound = 1, !.highestQuorumCert = SwitchBlock]
    ELSE ProcessQC(x, ParentOf(x.head))

-----------------------------------------------------------------------------
Init ==
  /\ node = [n \in Masternodes |-> Initial(New({SwitchBlock}, SwitchBlock))]
  /\ blocks = {} /\ votes = {} /\ timeouts = {} /\ syncInfos = {}

\* commitNewWork: prepare a block on the highest certified block, once per parent.
\* If that block is not in the database the worker falls back to the canonical
\* head, which Prepare then refuses.
CommitNewWork(n, body) ==
  LET x == node[n]
      parent == FindParentBlockToAssign(x)
  IN  /\ parent \in x.headers
      /\ parent # x.lastParentBlockCommit
      /\ x.currentRound \in Rounds
      /\ YourTurn(x, n)
      /\ node' = [node EXCEPT ![n].works = @ \cup {Prepare(x, body)},
                              ![n].lastParentBlockCommit = parent]
      /\ UNCHANGED << blocks, votes, timeouts, syncInfos >>

\* The sealed block comes back to the worker, which writes it and, unless that
\* failed, broadcasts it and will hand it to the engine.
WaitResult(n, b) ==
  LET x == Seal(node[n], b)
      failed == ReorgRefused(x, b)
      y == WriteBlock(x, b)
  IN  /\ b \in node[n].works
      /\ node' = [node EXCEPT ![n] = IF failed THEN y ELSE [y EXCEPT !.proposed = @ \cup {b}]]
      /\ blocks' = IF failed THEN blocks ELSE blocks \cup {b}
      /\ UNCHANGED << votes, timeouts, syncInfos >>

\* The fetcher verifies and imports a proposal, and unless that failed will hand
\* it to the engine.
InsertBlock(n, b) ==
  LET x == node[n]
      y == WriteBlock(x, b)
  IN  /\ b \in blocks \ x.headers
      /\ VerifyHeader(x, b)
      /\ node' = [node EXCEPT ![n] = IF ReorgRefused(x, b) THEN y
                                     ELSE [y EXCEPT !.proposed = @ \cup {b}]]
      /\ UNCHANGED << blocks, votes, timeouts, syncInfos >>

\* ProposedBlockHandler: process the certificate of the header, then vote.
ProposedBlockHandler(n, b) ==
  LET x == [node[n] EXCEPT !.proposed = @ \ {b}]
      y == ProcessQC(x, ParentOf(b))
  IN  /\ b \in node[n].proposed
      /\ \/ /\ VerifyVotingRule(y, b)
            /\ node' = [node EXCEPT ![n] = SendVote(y, n, b)]
            /\ votes' = votes \cup {[signer |-> n, block |-> b]}
         \/ /\ ~VerifyVotingRule(y, b)
            /\ node' = [node EXCEPT ![n] = y]
            /\ UNCHANGED votes
      /\ UNCHANGED << blocks, timeouts, syncInfos >>

ReceiveVote(n, vote) ==
  /\ VoteAccepted(node[n], vote)
  /\ node' = [node EXCEPT ![n] = VoteHandler(@, vote)]
  /\ UNCHANGED << blocks, votes, timeouts, syncInfos >>

\* A node that completes a timeout certificate broadcasts a sync info.
ReceiveTimeout(n, timeout) ==
  LET y == TimeoutHandler(node[n], timeout)
  IN  /\ TimeoutAccepted(node[n], timeout)
      /\ node' = [node EXCEPT ![n] = y]
      /\ syncInfos' = IF FormsTC(node[n], timeout)
                        THEN syncInfos \cup {GetSyncInfo(y)}
                        ELSE syncInfos
      /\ UNCHANGED << blocks, votes, timeouts >>

\* The countdown expires.  The count is raised after the node's own timeout was
\* handled, which may already have started a new round and reset it.
OnCountdownTimeout(n) ==
  LET x == node[n]
      own == [signer |-> n, round |-> x.currentRound]
      y == TimeoutHandler(x, own)
      count == (y.timeoutCount + 1) % TimeoutSyncThreshold
  IN  /\ x.currentRound \in TimeoutRounds
      /\ node' = [node EXCEPT ![n] = [y EXCEPT !.timeoutCount = count]]
      /\ timeouts' = timeouts \cup {own}
      /\ syncInfos' = IF FormsTC(x, own) \/ count = 0
                        THEN syncInfos \cup {GetSyncInfo(y)}
                        ELSE syncInfos
      /\ UNCHANGED << blocks, votes >>

\* The handler returns early if the certificate's block is unknown.
SyncInfoHandler(n, s) ==
  LET y == ProcessQC(node[n], s.qc)
  IN  /\ VerifySyncInfoMessage(node[n], s)
      /\ node' = [node EXCEPT ![n] = IF s.qc \in y.headers THEN ProcessTC(y, s.tc) ELSE y]
      /\ UNCHANGED << blocks, votes, timeouts, syncInfos >>

\* The pool cleaning of periodicJob.
Hygiene(n) ==
  LET x == node[n]
      votePool == HygieneVotePool(x)
      timeoutPool == HygieneTimeoutPool(x)
  IN  /\ << votePool, timeoutPool >> # << x.votePool, x.timeoutPool >>
      /\ node' = [node EXCEPT ![n].votePool = votePool, ![n].timeoutPool = timeoutPool]
      /\ UNCHANGED << blocks, votes, timeouts, syncInfos >>

\* A stop loses everything but the database.  loadLastState starts the engine
\* from the head header (which repair does not rewind), so no round, vote, timeout
\* or lock of the previous run is remembered.
Restart(n) ==
  /\ n \in Restarting
  /\ node' = [node EXCEPT ![n] = Initial(New(@.headers, @.head))]
  /\ UNCHANGED << blocks, votes, timeouts, syncInfos >>

Next ==
  \E n \in Masternodes :
    \/ \E body \in Bodies : CommitNewWork(n, body)
    \/ \E b \in node[n].works : WaitResult(n, b)
    \/ \E b \in blocks : InsertBlock(n, b)
    \/ \E b \in node[n].proposed : ProposedBlockHandler(n, b)
    \/ \E v \in votes : ReceiveVote(n, v)
    \/ \E t \in timeouts : ReceiveTimeout(n, t)
    \/ OnCountdownTimeout(n)
    \/ \E s \in syncInfos : SyncInfoHandler(n, s)
    \/ Hygiene(n)
    \/ Restart(n)

Spec == Init /\ [][Next]_vars

-----------------------------------------------------------------------------
\* The masternodes that never restart keep their voting state.
Following == Masternodes \ Restarting

Abs == INSTANCE ChainedBFT WITH
         Faulty <- Restarting,
         votes <- {v \in votes : v.signer \in Following},
         highestVotedRound <- [n \in Following |-> node[n].highestVotedRound],
         lockQuorumCert <- [n \in Following |-> node[n].lockQuorumCert]

\* The votes and locks of the masternodes that never restart are a behaviour of
\* ChainedBFT: every handler, in every interleaving, votes and locks by its rules.
ImplementsChainedBFT == Abs!Spec

\* The same of the steps alone, for runs that begin in the middle of a behaviour.
\* A node that processQC has locked refuses the proposal of a leader that missed
\* the certificates and builds on an older block.
StepsImplementChainedBFT == [][Abs!Next]_(Abs!vars)

\* commitBlocks commits only what ChainedBFT allows, so Agreement there speaks
\* about highestCommitBlock here.
CommitsAreCommittable ==
  \A n \in Masternodes :
    node[n].highestCommitBlock # Nil => node[n].highestCommitBlock \in Abs!Committable

\* A node is in the round after the last certificate it knows: no sequence of
\* late, repeated or stale certificates makes setNewRound skip a round or stay
\* behind, and a restarted node falls back to the round after its certificate.
RoundFollowsCertificates ==
  \A n \in Masternodes :
    LET x == node[n]
        qc == QCRound(x.highestQuorumCert)
    IN  x.currentRound = (IF qc > x.highestTimeoutCert THEN qc ELSE x.highestTimeoutCert) + 1

\* The certificates a node acts on were signed by a threshold of masternodes.
CertificatesAreSigned ==
  \A n \in Masternodes :
    LET x == node[n]
        Signers(M) == {m.signer : m \in M}
    IN  /\ QCRound(x.highestQuorumCert) > 0 =>
             ThresholdReached(Signers({v \in votes : v.block = x.highestQuorumCert}))
        /\ x.highestTimeoutCert > 0 =>
             ThresholdReached(Signers({t \in timeouts : t.round = x.highestTimeoutCert}))

\* processQC stores a certificate before it looks its block up, yet the worker
\* always finds the block it has to build on, and the lock stays below it.
HighestQCIsKnown ==
  \A n \in Masternodes :
    LET x == node[n]
    IN  /\ x.highestQuorumCert \in x.headers \/ (x.highestQuorumCert = Nil /\ n \in Restarting)
        /\ x.lockQuorumCert # Nil =>
             /\ x.lockQuorumCert \in x.headers
             /\ RoundOf(x.lockQuorumCert) < QCRound(x.highestQuorumCert)

\* Every timeout certificate is made of timeouts of one round: the pool never
\* mixes rounds although timeouts and round changes interleave freely.
TimeoutPoolIsCurrent ==
  \A n \in Masternodes : \A t \in node[n].timeoutPool : t.round = node[n].currentRound

\* Unless it restarts, a node never goes back: not to an earlier round, vote,
\* certificate or lock, and from a committed block only to one that extends it.
NeverGoesBack ==
  [][\A n \in Following :
       LET x == node[n]
           y == node'[n]
       IN  /\ y.currentRound >= x.currentRound
           /\ y.highestVotedRound >= x.highestVotedRound
           /\ QCRound(y.highestQuorumCert) >= QCRound(x.highestQuorumCert)
           /\ QCRound(y.lockQuorumCert) >= QCRound(x.lockQuorumCert)
           /\ y.highestTimeoutCert >= x.highestTimeoutCert
           /\ x.highestCommitBlock # Nil =>
                IsExtendingFromAncestor(y.highestCommitBlock, x.highestCommitBlock)]_vars

\* A masternode votes at most once per round.
VotesOncePerRound ==
  \A v, w \in votes : v.signer = w.signer /\ RoundOf(v.block) = RoundOf(w.block) => v = w
=============================================================================
