------------------------------- MODULE Staking -------------------------------
(***************************************************************************)
(* Starting and stopping the production of blocks.  Three kinds of          *)
(* goroutines do it: the checkpoint loop of cmd/BRC/main.go, which follows  *)
(* the node's masternode status at every epoch switch; the update loop of   *)
(* miner/miner.go, which suspends mining while the downloader syncs; and    *)
(* the goroutines in which Ethereum.StartStaking calls Miner.Start.  They   *)
(* meet in the flags of Miner, in the mutex of the worker and in the CPU    *)
(* agent, whose own update goroutines are told to end through a channel     *)
(* that holds one message.                                                  *)
(***************************************************************************)
EXTENDS Integers, FiniteSets

CONSTANTS
  Loop,          \* the goroutine of Miner.update
  Checkpoint,    \* the goroutine of the checkpoint loop
  Starters,      \* names for the goroutines running Miner.Start
  NoThread,
  MaxEpochs,     \* epoch switches that change the node's status
  MaxSyncs       \* runs of the downloader

VARIABLES
  authorised,    \* whether the node is a masternode of the epoch
  epochs,
  checkpoint,    \* a message is being sent on CheckpointCh
  started,       \* the variable of the checkpoint loop
  event,         \* the downloader event being posted, or "none"
  syncing,
  syncs,
  canStart, shouldStart, mining,    \* the flags of Miner
  wmining,       \* worker.mining
  mu,            \* the holder of worker.mu
  isMining,      \* CpuAgent.isMining
  stopCh,        \* messages in CpuAgent.stop
  updaters,      \* running CpuAgent.update goroutines
  pc

vars == << authorised, epochs, checkpoint, started, event, syncing, syncs, canStart,
           shouldStart, mining, wmining, mu, isMining, stopCh, updaters, pc >>
environment == << authorised, epochs, event, syncing, syncs >>
agent == << isMining, stopCh, updaters >>
flags == << canStart, shouldStart, mining >>

Threads == {Loop, Checkpoint} \cup Starters

Init ==
  /\ authorised = FALSE /\ epochs = 0 /\ checkpoint = FALSE /\ started = FALSE
  /\ event = "none" /\ syncing = FALSE /\ syncs = 0
  /\ canStart = TRUE /\ shouldStart = FALSE /\ mining = FALSE
  /\ wmining = FALSE /\ mu = NoThread
  /\ isMining = FALSE /\ stopCh = 0 /\ updaters = 0
  /\ pc = [t \in Threads |-> "idle"]

-----------------------------------------------------------------------------
(* Miner.Start, by any goroutine *)

Goto(t, label) == pc' = [pc EXCEPT ![t] = label]

StartWanted(t) ==
  /\ pc[t] = "start"
  /\ shouldStart' = TRUE
  /\ Goto(t, "can start")
  /\ UNCHANGED << environment, checkpoint, started, canStart, mining, wmining, mu, agent >>

StartAllowed(t) ==
  /\ pc[t] = "can start"
  /\ Goto(t, IF canStart THEN "allowed" ELSE "idle")
  /\ UNCHANGED << environment, checkpoint, started, flags, wmining, mu, agent >>

StartMining(t) ==
  /\ pc[t] = "allowed"
  /\ mining' = TRUE
  /\ Goto(t, "start worker")
  /\ UNCHANGED << environment, checkpoint, started, canStart, shouldStart, wmining, mu, agent >>

\* CpuAgent.Start
AgentStart ==
  /\ isMining' = TRUE
  /\ updaters' = IF isMining THEN updaters ELSE updaters + 1

\* worker.start, under worker.mu
StartWorker(t) ==
  /\ pc[t] = "start worker" /\ mu = NoThread
  /\ wmining' = TRUE
  /\ AgentStart
  /\ Goto(t, "idle")
  /\ UNCHANGED << environment, checkpoint, started, flags, mu, stopCh >>

-----------------------------------------------------------------------------
(* Miner.Stop, by the loop or at a checkpoint *)

\* Mutant of StopWorker: the agent is told to stop whether it runs or not.
StopWorkerAnyway(t) ==
  /\ pc[t] = "stop" /\ mu = NoThread
  /\ mu' = t /\ isMining' = FALSE
  /\ Goto(t, "send stop")
  /\ UNCHANGED << environment, checkpoint, started, flags, wmining, stopCh, updaters >>

\* worker.stop takes worker.mu; CpuAgent.Stop sends only if the agent ran.
StopWorker(t) ==
  /\ pc[t] = "stop" /\ mu = NoThread
  /\ IF wmining /\ isMining
     THEN /\ mu' = t /\ isMining' = FALSE
          /\ Goto(t, "send stop")
          /\ UNCHANGED wmining
     ELSE /\ wmining' = FALSE
          /\ Goto(t, "stopped")
          /\ UNCHANGED << mu, isMining >>
  /\ UNCHANGED << environment, checkpoint, started, flags, stopCh, updaters >>

\* The channel holds one message; the sender waits with worker.mu held.
SendStop(t) ==
  /\ pc[t] = "send stop" /\ stopCh = 0
  /\ stopCh' = 1
  /\ wmining' = FALSE /\ mu' = NoThread
  /\ Goto(t, "stopped")
  /\ UNCHANGED << environment, checkpoint, started, flags, isMining, updaters >>

StopMining(t) ==
  /\ pc[t] = "stopped"
  /\ mining' = FALSE
  /\ Goto(t, "clear")
  /\ UNCHANGED << environment, checkpoint, started, canStart, shouldStart, wmining, mu, agent >>

StopWanted(t) ==
  /\ pc[t] = "clear"
  /\ shouldStart' = FALSE
  /\ Goto(t, IF t = Loop THEN "aborted" ELSE "idle")
  /\ UNCHANGED << environment, checkpoint, started, canStart, mining, wmining, mu, agent >>

\* An update goroutine of the agent takes the message and ends.
AgentStops ==
  /\ updaters > 0 /\ stopCh = 1
  /\ updaters' = updaters - 1 /\ stopCh' = 0
  /\ UNCHANGED << environment, checkpoint, started, flags, wmining, mu, isMining, pc >>

-----------------------------------------------------------------------------
(* Miner.update *)

OnStartEvent ==
  /\ event = "start" /\ pc[Loop] = "idle"
  /\ event' = "none"
  /\ canStart' = FALSE
  /\ Goto(Loop, IF mining THEN "stop" ELSE "idle")
  /\ UNCHANGED << authorised, epochs, syncing, syncs, checkpoint, started, shouldStart, mining, wmining, mu, agent >>

StartAfterSync ==
  /\ pc[Loop] = "aborted"
  /\ shouldStart' = TRUE
  /\ Goto(Loop, "idle")
  /\ UNCHANGED << environment, checkpoint, started, canStart, mining, wmining, mu, agent >>

\* DoneEvent and FailedEvent: shouldStart is read first, cleared later.
OnDoneEvent ==
  /\ event = "done" /\ pc[Loop] = "idle"
  /\ event' = "none"
  /\ Goto(Loop, IF shouldStart THEN "done, start" ELSE "done")
  /\ UNCHANGED << authorised, epochs, syncing, syncs, checkpoint, started, flags, wmining, mu, agent >>

\* Mutant of ClearShouldStart: the flag that was read is not acted upon.
ClearAndForget ==
  /\ pc[Loop] \in {"done", "done, start"}
  /\ canStart' = TRUE /\ shouldStart' = FALSE
  /\ Goto(Loop, "idle")
  /\ UNCHANGED << environment, checkpoint, started, mining, wmining, mu, agent >>

ClearShouldStart ==
  /\ pc[Loop] \in {"done", "done, start"}
  /\ canStart' = TRUE /\ shouldStart' = FALSE
  /\ Goto(Loop, IF pc[Loop] = "done, start" THEN "start" ELSE "idle")
  /\ UNCHANGED << environment, checkpoint, started, mining, wmining, mu, agent >>

-----------------------------------------------------------------------------
(* The checkpoint loop *)

\* StartStaking runs Miner.Start in a goroutine of its own.
OnCheckpoint ==
  /\ checkpoint /\ pc[Checkpoint] = "idle"
  /\ checkpoint' = FALSE
  /\ started' = authorised
  /\ \/ /\ ~authorised /\ started
        /\ Goto(Checkpoint, "stop")
     \/ /\ authorised /\ ~started
        /\ \E s \in Starters : pc[s] = "idle" /\ Goto(s, "start")
     \/ /\ authorised = started
        /\ UNCHANGED pc
  /\ UNCHANGED << environment, flags, wmining, mu, agent >>

-----------------------------------------------------------------------------
(* The environment: epoch switches and runs of the downloader *)

EpochSwitch ==
  /\ epochs < MaxEpochs /\ ~checkpoint
  /\ epochs' = epochs + 1
  /\ authorised' \in BOOLEAN
  /\ checkpoint' = TRUE
  /\ UNCHANGED << event, syncing, syncs, started, flags, wmining, mu, agent, pc >>

PostStart ==
  /\ event = "none" /\ ~syncing /\ syncs < MaxSyncs
  /\ event' = "start" /\ syncing' = TRUE /\ syncs' = syncs + 1
  /\ UNCHANGED << authorised, epochs, checkpoint, started, flags, wmining, mu, agent, pc >>

PostDone ==
  /\ event = "none" /\ syncing
  /\ event' = "done" /\ syncing' = FALSE
  /\ UNCHANGED << authorised, epochs, syncs, checkpoint, started, flags, wmining, mu, agent, pc >>

-----------------------------------------------------------------------------
Step(t) ==
  \/ StartWanted(t) \/ StartAllowed(t) \/ StartMining(t) \/ StartWorker(t)
  \/ StopWorker(t) \/ SendStop(t) \/ StopMining(t) \/ StopWanted(t)

LoopStep == Step(Loop) \/ OnStartEvent \/ StartAfterSync \/ OnDoneEvent \/ ClearShouldStart
CheckpointStep == Step(Checkpoint) \/ OnCheckpoint

Next ==
  \/ \E s \in Starters : Step(s)
  \/ LoopStep \/ CheckpointStep \/ AgentStops
  \/ EpochSwitch \/ PostStart \/ PostDone

\* The goroutines are scheduled, and a run of the downloader ends.
Spec ==
  /\ Init /\ [][Next]_vars
  /\ WF_vars(LoopStep) /\ WF_vars(CheckpointStep) /\ WF_vars(AgentStops) /\ WF_vars(PostDone)
  /\ \A s \in Starters : WF_vars(Step(s))
-----------------------------------------------------------------------------
(* Properties *)

\* A node that stays a masternode ends up with its worker running, whatever syncs came in
\* between.  (miner.go, of shouldStart: "should start indicates whether we should start after
\* sync"; Miner.Start: "Network syncing, will start miner afterwards".)
MasternodeMines == <>[]authorised => <>[]wmining

\* A start that set shouldStart after the update loop has read it, and that finds canStart
\* closed: the loop clears the flag next.
StartForgotten == pc[Loop] = "done" /\ \E s \in Starters : pc[s] = "can start"

\* MasternodeMines, unless a start was forgotten in this way: no other order of the starts and
\* stops of Miner.update, of the checkpoint loop and of the goroutines of StartStaking
\* leaves a node that stays a masternode without a running worker.
MasternodeMinesOrForgotten == <>[]authorised => <>[]wmining \/ <>StartForgotten

\* Stopping never waits for ever on the agent's channel with the worker's
\* mutex in its hands.
StopEnds == \A t \in Threads : pc[t] = "send stop" ~> mu # t
=============================================================================
