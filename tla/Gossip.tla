------------------------------- MODULE Gossip -------------------------------
(***************************************************************************)
(* How votes, timeouts and sync infos reach the engines (eth/handler.go,    *)
(* eth/peer.go, eth/bft): a message is sent once to each peer and marked    *)
(* known by the receiver before it is handled, so that one the engine       *)
(* refuses for its round, or because a block is missing, is never handled   *)
(* again.  Messages are told apart by what they say; sync infos of the same *)
(* certificates count as one message.                                       *)
(***************************************************************************)
EXTENDS EngineV2

VARIABLE known   \* the messages each node has marked as known

gossipVars == << vars, known >>

GossipInit == Init /\ known = [n \in Masternodes |-> {}]

\* HandleMsg: a known message is discarded, a new one is marked and handled.
MarkKnown(n, msg) ==
  /\ msg \notin known[n]
  /\ known' = [known EXCEPT ![n] = @ \cup {msg}]

\* Mutant of OnVote: a vote for a block that has not arrived is refused.
OnVoteForKnownBlock(n, vote) ==
  /\ vote.signer # n /\ MarkKnown(n, vote)
  /\ IF VoteAccepted(node[n], vote) /\ vote.block \in node[n].headers
       THEN ReceiveVote(n, vote)
       ELSE UNCHANGED vars

OnVote(n, vote) ==
  /\ vote.signer # n /\ MarkKnown(n, vote)
  /\ IF VoteAccepted(node[n], vote) THEN ReceiveVote(n, vote) ELSE UNCHANGED vars

OnTimeout(n, timeout) ==
  /\ timeout.signer # n /\ MarkKnown(n, timeout)
  /\ IF TimeoutAccepted(node[n], timeout) THEN ReceiveTimeout(n, timeout) ELSE UNCHANGED vars

OnSyncInfo(n, s) ==
  /\ MarkKnown(n, s)
  /\ IF VerifySyncInfoMessage(node[n], s) THEN SyncInfoHandler(n, s) ELSE UNCHANGED vars

\* The steps a node takes without a message.
Local(n) ==
  /\ \/ \E body \in Bodies : CommitNewWork(n, body)
     \/ \E b \in node[n].works : WaitResult(n, b)
     \/ \E b \in blocks : InsertBlock(n, b)
     \/ \E b \in node[n].proposed : ProposedBlockHandler(n, b)
  /\ UNCHANGED known

Countdown(n) == OnCountdownTimeout(n) /\ UNCHANGED known

Deliver(n) ==
  \/ \E v \in votes : OnVote(n, v)
  \/ \E t \in timeouts : OnTimeout(n, t)
  \/ \E s \in syncInfos : OnSyncInfo(n, s)

GossipNext == \E n \in Masternodes : Local(n) \/ Deliver(n) \/ Countdown(n)

\* The goroutines of a node run, peers stay connected, and the countdown of a round
\* that does not end expires again and again.
GossipFairness ==
  \A n \in Masternodes :
    WF_gossipVars(Local(n)) /\ WF_gossipVars(Deliver(n)) /\ WF_gossipVars(Countdown(n))

GossipSpec == GossipInit /\ [][GossipNext]_gossipVars /\ GossipFairness

-----------------------------------------------------------------------------
\* Every round ends at some node although messages that arrive too early or too
\* late are lost for good: the voters of a certificate all learn it, and the first
\* node in a round receives the timeouts of all that follow.
RoundsEnd ==
  \A r \in TimeoutRounds :
    (\E n \in Masternodes : node[n].currentRound = r)
      ~> (\E n \in Masternodes : node[n].currentRound > r)
=============================================================================
