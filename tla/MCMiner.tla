------------------------------- MODULE MCMiner -------------------------------
(***************************************************************************)
(* What drives a masternode, for TLC: the countdown of a round and its       *)
(* length, the loop of the worker, and the start and stop of staking.  The   *)
(* four share no variable: the initial state says which of them runs.        *)
(***************************************************************************)
EXTENDS ExpDuration

CONSTANTS
  Components,    \* those of which one runs
  boot, verifyHeader, yourTurn, h1, h2, c1, c2, s1, s2, g1, g2, free,
  loop, checkpoint

Params(duration, base, maxExponent) ==
  [duration |-> duration, base |-> base, maxExponent |-> maxExponent]

\* Of the configurations asked for, 3^7 reaches the limit of the power and 32 that of the exponent.
MCInitial == Params(10, 2, 5)
MCConfigurations == {Params(20, 3, 4), Params(30, 3, 7), Params(40, 2, 32)}

VARIABLES
  running,
  initilised, ready, known, lock, round, threadPc, info, timer, timedOut,
  engineRound, newRoundCh, heads, workerLoop, worked, resetCh, c, keeper, timeout,
  authorised, epochs, atCheckpoint, started, event, syncing, syncs, canStart, shouldStart,
  mining, wmining, mu, isMining, stopCh, updaters, threads

\* The countdown of a masternode that starts.
Countdown ==
  INSTANCE Countdown WITH
    Boot <- {boot}, Initialisers <- {verifyHeader}, Readers <- {yourTurn}, Handlers <- {h1, h2},
    Callbacks <- {c1, c2}, Timers <- {g1, g2}, MaxRound <- 3,
    Masternode <- TRUE, Free <- free, pc <- threadPc

Worker ==
  INSTANCE MinerLoop WITH
    MaxRound <- 3, MaxHeads <- 2, round <- engineRound, loop <- workerLoop

Staking ==
  INSTANCE Staking WITH
    Loop <- loop, Checkpoint <- checkpoint, Starters <- {s1, s2}, NoThread <- free,
    MaxEpochs <- 3, MaxSyncs <- 2, checkpoint <- atCheckpoint, pc <- threads

countdownVars == << initilised, ready, known, lock, round, threadPc, info, timer, timedOut >>
workerVars == << engineRound, newRoundCh, heads, workerLoop, worked, resetCh, c, keeper, timeout >>
stakingVars == << authorised, epochs, atCheckpoint, started, event, syncing, syncs, canStart,
                  shouldStart, mining, wmining, mu, isMining, stopCh, updaters, threads >>
allVars == << running, countdownVars, durationVars, workerVars, stakingVars >>

MCInit ==
  /\ running \in Components
  /\ Countdown!Init /\ DurationInit /\ Worker!Init /\ Staking!Init

MCNext ==
  \/ /\ running = "countdown" /\ Countdown!Next
     /\ UNCHANGED << running, durationVars, workerVars, stakingVars >>
  \/ /\ running = "duration" /\ DurationNext
     /\ UNCHANGED << running, countdownVars, workerVars, stakingVars >>
  \/ /\ running = "worker" /\ Worker!Next
     /\ UNCHANGED << running, countdownVars, durationVars, stakingVars >>
  \/ /\ running = "staking" /\ Staking!Next
     /\ UNCHANGED << running, countdownVars, durationVars, workerVars >>

\* The fairness of the components, of the one that runs.
Fairness ==
  /\ \A t \in Countdown!Threads : WF_countdownVars(running = "countdown" /\ Countdown!ThreadStep(t))
  /\ \A i \in {g1, g2} : WF_countdownVars(running = "countdown" /\ Countdown!TimerStep(i))
  /\ WF_countdownVars(running = "countdown" /\ Countdown!Callback)
  /\ WF_workerVars(running = "worker" /\ Worker!Loop)
  /\ SF_workerVars(running = "worker" /\ Worker!OnNewRound)
  /\ SF_workerVars(running = "worker" /\ Worker!OnTick)
  /\ WF_workerVars(running = "worker" /\ Worker!Keeper)
  /\ SF_workerVars(running = "worker" /\ Worker!KeeperReset)
  /\ WF_workerVars(running = "worker" /\ Worker!Expire)
  /\ WF_stakingVars(running = "staking" /\ Staking!LoopStep)
  /\ WF_stakingVars(running = "staking" /\ Staking!CheckpointStep)
  /\ WF_stakingVars(running = "staking" /\ Staking!AgentStops)
  /\ WF_stakingVars(running = "staking" /\ Staking!PostDone)
  /\ \A s \in {s1, s2} : WF_stakingVars(running = "staking" /\ Staking!Step(s))

MCSpec == MCInit /\ [][MCNext]_allVars /\ Fairness

-----------------------------------------------------------------------------
\* Reset always returns.
ResetReturns == Countdown!ResetReturns
RoundsTimeOut == Countdown!RoundsTimeOut

\* Every round that lasts is seen by the miner: the loop never stops.
NewRoundSeen == running = "worker" => Worker!NewRoundSeen

\* Every round that lasts is seen by the miner, or its two goroutines wait for each other.
NewRoundSeenOrStuck == running = "worker" => Worker!NewRoundSeenOrStuck

\* A node that stays a masternode ends up with its worker running.
MasternodeMines == Staking!MasternodeMines

\* The same, unless a start was forgotten at the end of a sync.
MasternodeMinesOrForgotten == Staking!MasternodeMinesOrForgotten

\* Stopping never waits for ever.
StopEnds == Staking!StopEnds
=============================================================================
