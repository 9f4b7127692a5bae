----------------------------- MODULE Countdown -----------------------------
(***************************************************************************)
(* The countdown of a round (common/countdown/countdown.go) and the engine's*)
(* goroutines that use it.  A timer goroutine waits for its timer to expire *)
(* or for a reset (StopTimer, which makes it quit, is called by tests only).*)
(* setNewRound calls Reset with the lock of the engine held; initial calls  *)
(* it without (verifyHeader) or with a read lock (YourTurn).  The callback  *)
(* of an expired countdown is a goroutine of its own that has to wait for   *)
(* the lock.                                                                *)
(***************************************************************************)
EXTENDS Naturals, FiniteSets

CONSTANTS
  Boot,           \* calls of initial made before the node handles messages
  Initialisers,   \* later calls of initial without the lock: verifyHeader
  Readers,        \* later calls of initial with the read lock: YourTurn
  Handlers,       \* goroutines that handle messages under the lock
  Callbacks,      \* bound: callbacks at a time
  Masternode,     \* the node is one: it may send timeouts
  Timers,         \* bound: timer goroutines ever started
  MaxRound,       \* bound: rounds
  Free            \* nobody holds the lock

Calls == Boot \cup Initialisers \cup Readers
Threads == Calls \cup Handlers \cup Callbacks

VARIABLES
  initilised,   \* CountdownTimer.initilised
  ready,        \* BRDPoS_v2.isInitilised
  known,        \* the engine has a highest quorum certificate
  lock,         \* writer that holds the engine's lock
  round,        \* currentRound of the engine
  pc,           \* next statement of each thread
  info,         \* the round each thread passes to Reset
  timer,        \* the timer goroutines
  timedOut      \* rounds for which a timeout was sent

vars == << initilised, ready, known, lock, round, pc, info, timer, timedOut >>

Goroutine ==
  [ pc : {"unborn", "select", "drain"},
    clock : {"stopped", "running", "expired"},   \* the time.Timer
    round : Nat ]                                \* currentRound of startTimer

Init ==
  /\ initilised = FALSE /\ ready = FALSE /\ known = FALSE
  /\ lock = Free
  /\ round = 0
  /\ pc = [t \in Threads |-> "idle"]
  /\ info = [t \in Threads |-> 0]
  /\ timer = [i \in Timers |-> [pc |-> "unborn", clock |-> "stopped", round |-> 0]]
  /\ timedOut = {}

Booted == \A t \in Boot : pc[t] = "done"

\* No writer gets the lock while a reader holds it.
ReadLocked == \E t \in Readers : pc[t] \notin {"idle", "done"}
CanLock == lock = Free /\ ~ReadLocked

-----------------------------------------------------------------------------
\* initial is called unless the engine is initialised, and has nothing to do if a
\* handler has already set a certificate.
InitialCheck(t) ==
  /\ t \in Calls /\ pc[t] = "idle"
  /\ t \in Boot \/ Booted
  /\ t \in Readers => lock = Free
  /\ pc' = [pc EXCEPT ![t] = IF ready \/ known THEN "done" ELSE "assign"]
  /\ ready' = (ready \/ known)
  /\ UNCHANGED << initilised, known, lock, round, timer, timedOut, info >>

\* The header is the switch block: only YourTurn is called with it.
InitialAssign(t) ==
  /\ pc[t] = "assign" /\ t \in Readers
  /\ known' = TRUE
  /\ round' = 1
  /\ pc' = [pc EXCEPT ![t] = "reset"]
  /\ UNCHANGED << initilised, ready, lock, timer, timedOut, info >>

\* The header is a later one: processQC with its certificate, of round qc.  That
\* of the switch block, of round 0, does not become the highest.
InitialProcessQC(t, qc) ==
  /\ pc[t] = "assign"
  /\ known' = (known \/ qc > 0)
  /\ round' = IF qc >= round THEN qc + 1 ELSE round
  /\ pc' = [pc EXCEPT ![t] = IF qc >= round THEN "resetQC" ELSE "reset"]
  /\ UNCHANGED << initilised, ready, lock, timer, timedOut, info >>

\* A handler takes the lock and has a certificate: setNewRound.  Only a quorum
\* certificate becomes the highest one.
SetNewRound(t, quorum) ==
  /\ pc[t] = "idle" /\ Booted
  /\ CanLock /\ round < MaxRound
  /\ lock' = t
  /\ round' = round + 1
  /\ known' = (known \/ quorum)
  /\ pc' = [pc EXCEPT ![t] = "resetQC"]
  /\ UNCHANGED << initilised, ready, timer, timedOut, info >>

\* OnCountdownTimeout with the lock.  A masternode sends a timeout for the current
\* round, which may be the one that completes a timeout certificate.
OnCountdownTimeout(t, certificate) ==
  /\ pc[t] = "callback"
  /\ CanLock
  /\ lock' = t
  /\ certificate => Masternode /\ round < MaxRound
  /\ timedOut' = IF Masternode THEN timedOut \cup {round} ELSE timedOut
  /\ round' = IF certificate THEN round + 1 ELSE round
  /\ pc' = [pc EXCEPT ![t] = IF certificate THEN "resetQC" ELSE "return"]
  /\ UNCHANGED << initilised, ready, known, timer, info >>

-----------------------------------------------------------------------------
\* Reset: test, set and start are separate critical sections of t.lock.  initial
\* passes round 0, setNewRound the new one.
IsInitilised(t) ==
  /\ pc[t] \in {"reset", "resetQC"}
  /\ info' = [info EXCEPT ![t] = IF pc[t] = "reset" THEN 0 ELSE round]
  /\ pc' = [pc EXCEPT ![t] = IF initilised THEN "send" ELSE "set"]
  /\ UNCHANGED << initilised, ready, known, lock, round, timer, timedOut >>

SetInitilised(t) ==
  /\ pc[t] = "set"
  /\ initilised' = TRUE
  /\ pc' = [pc EXCEPT ![t] = "start"]
  /\ UNCHANGED << ready, known, lock, round, timer, timedOut, info >>

\* What follows Reset: in initial, the second Reset after that of setNewRound.
AfterReset(t) == IF t \in Calls /\ info[t] > 0 THEN "reset" ELSE "return"

StartTimer(t, i) ==
  /\ pc[t] = "start"
  /\ timer[i].pc = "unborn"
  /\ timer' = [timer EXCEPT ![i] = [pc |-> "select", clock |-> "running", round |-> info[t]]]
  /\ pc' = [pc EXCEPT ![t] = AfterReset(t)]
  /\ UNCHANGED << initilised, ready, known, lock, round, timedOut, info >>

\* Mutant of Restarted: the timer is stopped but not started again.
RestartedNever(g, r) == [g EXCEPT !.round = r, !.clock = "stopped"]

\* Stop fails only for a timer that is not running and whose expiry was received;
\* then the goroutine waits for an expiry that never comes.
Restarted(g, r) ==
  IF g.clock = "stopped"
    THEN [g EXCEPT !.round = r, !.pc = "drain"]
    ELSE [g EXCEPT !.round = r, !.clock = "running"]

\* A thread in Reset meets a timer goroutine on the unbuffered channel resetc.
Send(t, i) ==
  /\ pc[t] = "send"
  /\ timer[i].pc = "select"
  /\ timer' = [timer EXCEPT ![i] = Restarted(@, info[t])]
  /\ pc' = [pc EXCEPT ![t] = AfterReset(t)]
  /\ UNCHANGED << initilised, ready, known, lock, round, timedOut, info >>

Return(t) ==
  /\ pc[t] = "return"
  /\ ready' = (ready \/ t \in Calls)
  /\ lock' = IF lock = t THEN Free ELSE lock
  /\ pc' = [pc EXCEPT ![t] = IF t \in Calls THEN "done" ELSE "idle"]
  /\ UNCHANGED << initilised, known, round, timer, timedOut, info >>

-----------------------------------------------------------------------------
Expire(i) ==
  /\ timer[i].clock = "running" /\ timer[i].pc = "select"
  /\ timer' = [timer EXCEPT ![i].clock = "expired"]
  /\ UNCHANGED << initilised, ready, known, lock, round, pc, timedOut, info >>

\* Mutant of Fire: the timer is not started again.
FireOnce(i, c) ==
  /\ timer[i].clock = "expired" /\ timer[i].pc = "select"
  /\ pc[c] = "idle"
  /\ pc' = [pc EXCEPT ![c] = "callback"]
  /\ timer' = [timer EXCEPT ![i].clock = "stopped"]
  /\ UNCHANGED << initilised, ready, known, lock, round, timedOut, info >>

\* The goroutine receives the expiry, starts a callback and the timer again.
Fire(i, c) ==
  /\ timer[i].clock = "expired" /\ timer[i].pc = "select"
  /\ pc[c] = "idle"
  /\ pc' = [pc EXCEPT ![c] = "callback"]
  /\ timer' = [timer EXCEPT ![i].clock = "running"]
  /\ UNCHANGED << initilised, ready, known, lock, round, timedOut, info >>

ThreadStep(t) ==
  \/ InitialCheck(t)
  \/ InitialAssign(t)
  \/ \E qc \in 0..(MaxRound - 1) : InitialProcessQC(t, qc)
  \/ IsInitilised(t)
  \/ SetInitilised(t)
  \/ \E i \in Timers : StartTimer(t, i) \/ Send(t, i)
  \/ Return(t)

TimerStep(i) ==
  \/ Expire(i)
  \/ \E c \in Callbacks : Fire(i, c)

Callback == \E c \in Callbacks, certificate \in BOOLEAN : OnCountdownTimeout(c, certificate)

Next ==
  \/ \E t \in Threads : ThreadStep(t)
  \/ \E t \in Handlers, quorum \in BOOLEAN : SetNewRound(t, quorum)
  \/ Callback
  \/ \E i \in Timers : TimerStep(i)

\* Goroutines that can run do run, and one of the waiting callbacks gets a lock that
\* stays free.  Messages may or may not come.
Fairness ==
  /\ \A t \in Threads : WF_vars(ThreadStep(t))
  /\ \A i \in Timers : WF_vars(TimerStep(i))
  /\ WF_vars(Callback)

Spec == Init /\ [][Next]_vars /\ Fairness

-----------------------------------------------------------------------------
\* Reset always returns: the goroutine that holds the engine's lock never waits
\* forever for the timer goroutine, which never waits for the engine's lock.
ResetReturns == \A t \in Threads : pc[t] = "send" ~> pc[t] # "send"

\* A round that does not end is timed out, if the node is a masternode.
RoundsTimeOut ==
  Masternode => \A r \in 1..MaxRound : initilised /\ round = r ~> round # r \/ r \in timedOut
=============================================================================
