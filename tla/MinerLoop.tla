------------------------------ MODULE MinerLoop ------------------------------
(***************************************************************************)
(* The miner's event loop (miner/worker.go: update) and the goroutine that  *)
(* keeps its timer.  The loop asks for a new timer by resetCh, the goroutine*)
(* reports an expiry by c; both channels have room for one.  The engine     *)
(* signals a new round by NewRoundCh, without waiting when it is full.  The *)
(* node mines: commitNewWork looks at the round of the engine.  Both loops  *)
(* select among what is ready, in any order.                                *)
(***************************************************************************)
EXTENDS Naturals

CONSTANTS
  MaxRound,    \* bound: rounds
  MaxHeads     \* bound: chain head and mine period events that wait

VARIABLES
  round,       \* currentRound of the engine
  newRoundCh,  \* the round in NewRoundCh, 0 if empty
  heads,       \* waiting events that make the loop reset its timer
  loop,        \* the loop: "select", or "reset" before its send to resetCh
  worked,      \* the round the last commitNewWork has seen
  resetCh, c,  \* the channels: full or not
  keeper,      \* the goroutine: "select", or "tick" before its send to c
  timeout      \* the timer

vars == << round, newRoundCh, heads, loop, worked, resetCh, c, keeper, timeout >>

Init ==
  /\ round = 0 /\ newRoundCh = 0 /\ heads = 0
  /\ loop = "select" /\ worked = 0
  /\ resetCh = FALSE /\ c = FALSE
  /\ keeper = "select" /\ timeout = "running"

\* setNewRound of the engine.
SetNewRound ==
  /\ round < MaxRound
  /\ round' = round + 1
  /\ newRoundCh' = IF newRoundCh = 0 THEN round' ELSE newRoundCh
  /\ UNCHANGED << heads, loop, worked, resetCh, c, keeper, timeout >>

Event ==
  /\ heads < MaxHeads
  /\ heads' = heads + 1
  /\ UNCHANGED << round, newRoundCh, loop, worked, resetCh, c, keeper, timeout >>

OnNewRound ==
  /\ loop = "select" /\ newRoundCh # 0
  /\ newRoundCh' = 0
  /\ worked' = round
  /\ loop' = "reset"
  /\ UNCHANGED << round, heads, resetCh, c, keeper, timeout >>

\* A chain head makes the loop commit new work; a mine period only resets the timer.
OnEvent(head) ==
  /\ loop = "select" /\ heads > 0
  /\ heads' = heads - 1
  /\ worked' = IF head THEN round ELSE worked
  /\ loop' = "reset"
  /\ UNCHANGED << round, newRoundCh, resetCh, c, keeper, timeout >>

OnTick ==
  /\ loop = "select" /\ c
  /\ c' = FALSE
  /\ worked' = round
  /\ loop' = "reset"
  /\ UNCHANGED << round, newRoundCh, heads, resetCh, keeper, timeout >>

RequestReset ==
  /\ loop = "reset" /\ ~resetCh
  /\ resetCh' = TRUE
  /\ loop' = "select"
  /\ UNCHANGED << round, newRoundCh, heads, worked, c, keeper, timeout >>

-----------------------------------------------------------------------------
Expire ==
  /\ timeout = "running"
  /\ timeout' = "expired"
  /\ UNCHANGED << round, newRoundCh, heads, loop, worked, resetCh, c, keeper >>

\* Mutant of KeeperReset: draining a timer whose expiry was already taken waits for ever.
KeeperResetDrains ==
  /\ keeper = "select" /\ resetCh
  /\ resetCh' = FALSE
  /\ keeper' = IF timeout = "stopped" THEN "drain" ELSE keeper
  /\ timeout' = IF timeout = "stopped" THEN timeout ELSE "running"
  /\ UNCHANGED << round, newRoundCh, heads, loop, worked, c >>

\* The goroutine stops the timer, drains it and starts it again.
KeeperReset ==
  /\ keeper = "select" /\ resetCh
  /\ resetCh' = FALSE
  /\ timeout' = "running"
  /\ UNCHANGED << round, newRoundCh, heads, loop, worked, c, keeper >>

KeeperExpired ==
  /\ keeper = "select" /\ timeout = "expired"
  /\ timeout' = "stopped"
  /\ keeper' = "tick"
  /\ UNCHANGED << round, newRoundCh, heads, loop, worked, resetCh, c >>

KeeperTick ==
  /\ keeper = "tick" /\ ~c
  /\ c' = TRUE
  /\ keeper' = "select"
  /\ UNCHANGED << round, newRoundCh, heads, loop, worked, resetCh, timeout >>

Loop == OnNewRound \/ (\E head \in BOOLEAN : OnEvent(head)) \/ OnTick \/ RequestReset

Keeper == KeeperReset \/ KeeperExpired \/ KeeperTick

Next == SetNewRound \/ Event \/ Loop \/ Expire \/ Keeper

\* Both goroutines run; a select chooses at random, so it does not ignore a case
\* that is ready again and again; time passes.
Fairness ==
  /\ WF_vars(Loop) /\ SF_vars(OnNewRound) /\ SF_vars(OnTick)
  /\ WF_vars(Keeper) /\ SF_vars(KeeperReset)
  /\ WF_vars(Expire)

Spec == Init /\ [][Next]_vars /\ Fairness

-----------------------------------------------------------------------------
\* Every round that lasts is seen by the miner.  (BRDPoS.go, of NewRoundCh: "Miner use this
\* channel to trigger worker to commitNewWork".)
NewRoundSeen == \A r \in 1..MaxRound : round = r ~> round # r \/ worked = r

\* The loop and the goroutine of its timer wait for each other: each is about to send on a
\* channel that is full, and only the other one receives from it.
Stuck == loop = "reset" /\ resetCh /\ keeper = "tick" /\ c

\* Every round that lasts is seen by the miner, though the engine drops the signal of a round
\* while that of an earlier one waits, unless the two goroutines wait for each other: a
\* lost signal, an expiry that was drained or a full channel stops the loop in no other way.
NewRoundSeenOrStuck == \A r \in 1..MaxRound : round = r ~> round # r \/ worked = r \/ Stuck
=============================================================================
