----------------------------- MODULE MCEngineV2 -----------------------------
(***************************************************************************)
(* Instances of EngineV2 for TLC.  Votes of rounds that a node has left are *)
(* never read again, so they are left out of the fingerprint.               *)
(***************************************************************************)
EXTENDS EngineV2, TLC

CONSTANTS m1, m2, m3

TwoMasternodes == << m1, m2 >>

LiveView ==
  << [n \in Masternodes |->
       [node[n] EXCEPT !.votePool = {v \in @ : RoundOf(v.block) >= node[n].currentRound}]],
     blocks, votes, timeouts, syncInfos >>

\* Bound: where a countdown expires, there are two rounds and blocks of one body.
FewBlocks ==
  timeouts = {} \/ \A b \in blocks : b \in Seq([round : {1, 2}, body : {1}])

-----------------------------------------------------------------------------
(***************************************************************************)
(* A leader that is behind.  m1 and m2 have proposed, voted for and certified*)
(* the blocks of rounds 1 and 2 and are in round 3, locked on the first      *)
(* block.  In each of the two rounds the countdown of m1 expired once before *)
(* the certificate.  m3, the leader of round 3, has received only the first  *)
(* of these timeouts; with its own it has left round 1.  The states are      *)
(* computed with the engine's handlers.                                      *)
(***************************************************************************)
LeaderBehindList == << m3, m1, m2 >>

Block1 == Child(SwitchBlock, 1, 1)
Block2 == Child(Block1, 2, 1)

\* n stores b, handles the proposal, votes, and receives the vote of the other.
Certifies(x, n, other, b) ==
  VoteHandler(SendVote(ProcessQC(WriteBlock(x, b), ParentOf(b)), n, b),
              [signer |-> other, block |-> b])

Fresh == Initial(New({SwitchBlock}, SwitchBlock))

\* The state of n, which mined mined.
Ahead(n, other, mined) ==
  [Certifies(Certifies(Fresh, n, other, Block1), n, other, Block2) EXCEPT
     !.highestSelfMinedRound = RoundOf(mined),
     !.lastParentBlockCommit = ParentOf(mined)]

Behind ==
  TimeoutHandler(TimeoutHandler(Fresh, [signer |-> m3, round |-> 1]), [signer |-> m1, round |-> 1])

\* Every expired countdown sends a sync info, and so does a timeout certificate.
LeaderBehindInit ==
  /\ node = m1 :> Ahead(m1, m2, Block1) @@ m2 :> Ahead(m2, m1, Block2) @@ m3 :> Behind
  /\ blocks = {Block1, Block2}
  /\ votes = [signer : {m1, m2}, block : blocks]
  /\ timeouts = [signer : {m1}, round : {1, 2}] \cup [signer : {m3}, round : {1}]
  /\ syncInfos = {GetSyncInfo(x) : x \in {Fresh, Certifies(Fresh, m1, m2, Block1), Behind}}

LeaderBehindSpec == LeaderBehindInit /\ [][Next]_vars
=============================================================================
