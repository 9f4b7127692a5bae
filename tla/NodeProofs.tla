----------------------------- MODULE NodeProofs ------------------------------
(***************************************************************************)
(* Two counts of the node.  The queue of the fetcher, for any number of     *)
(* peers and blocks and any limits: a block is counted for the peer that    *)
(* sent it exactly as long as it waits in the queue or an importer has it.  *)
(* And the exponent of the countdown, for any width: it is the number of    *)
(* rounds without a certificate, capped.                                    *)
(***************************************************************************)
EXTENDS Fetcher, ExpDuration, FiniteSetTheorems, TLAPS

\* What the proofs ask of the constants.
Constants == IsFiniteSet(Blocks) /\ None \notin Peers /\ BlockLimit \in Nat

Fields == {"announces", "announced", "fetching", "fetched", "completing", "queue",
           "queues", "queued", "knowns", "fetchTimer", "completeTimer"}

\* The counts of a record of maps are exact and within the limit.
Exact(g) ==
  /\ DOMAIN g = Fields
  /\ g.queue \subseteq Blocks
  /\ g.queues \in [Peers -> Nat]
  /\ g.queued \in [Blocks -> Peers \cup {None}]
  /\ \A p \in Peers : g.queues[p] = Cardinality(QueuedFor(g, p)) /\ g.queues[p] <= BlockLimit

\* A counted block waits in the queue or is with an importer, not both.
Waiting(g, imports) ==
  /\ imports \in [Blocks -> {"none", "run", "done"}]
  /\ \A b \in Blocks : /\ g.queued[b] # None <=> b \in g.queue \/ imports[b] # "none"
                       /\ b \in g.queue => imports[b] = "none"

QueueInv == Exact(f) /\ Waiting(f, importing)

\* The maps that the queue invariant reads.
SameQueue(g, h) ==
  DOMAIN h = Fields /\ h.queue = g.queue /\ h.queues = g.queues /\ h.queued = g.queued

-----------------------------------------------------------------------------
(* Pieces of the loop *)

\* What does not touch the queue keeps it exact, like notify and the timers.
LEMMA SameQueueExact ==
  ASSUME NEW g, NEW h, NEW imports, Exact(g), Waiting(g, imports), SameQueue(g, h)
  PROVE  Exact(h) /\ Waiting(h, imports)
  BY DEF Exact, Waiting, SameQueue, QueuedFor

\* forgetHash does not touch the queue.
LEMMA ForgetHashesQueue ==
  ASSUME NEW g, DOMAIN g = Fields, NEW bs
  PROVE  SameQueue(g, ForgetHashes(g, bs))
  BY DEF ForgetHashes, SameQueue, Fields

\* The blocks that count for a peer are finitely many.
LEMMA QueuedForFinite ==
  ASSUME Constants, NEW g, NEW p
  PROVE  IsFiniteSet(QueuedFor(g, p)) /\ Cardinality(QueuedFor(g, p)) \in Nat
  BY FS_Subset, FS_CardinalityType DEF Constants, QueuedFor

\* forgetBlock gives back what the forgotten blocks counted.
LEMMA ForgetBlocksExact ==
  ASSUME Constants, NEW g, NEW bs \in SUBSET Blocks, Exact(g)
  PROVE  /\ Exact(ForgetBlocks(g, bs))
         /\ ForgetBlocks(g, bs).queue = g.queue
         /\ \A b \in Blocks : ForgetBlocks(g, bs).queued[b] = IF b \in bs THEN None ELSE g.queued[b]
<1>. DEFINE h == ForgetBlocks(g, bs)
<1>1. /\ DOMAIN h = Fields
      /\ h.queue = g.queue
      /\ h.queues = [p \in Peers |-> g.queues[p] - Cardinality(QueuedFor(g, p) \cap bs)]
      /\ h.queued = [b \in Blocks |-> IF b \in bs THEN None ELSE g.queued[b]]
  BY DEF Exact, ForgetBlocks, Fields
<1>. HIDE DEF h
<1>2. h.queued \in [Blocks -> Peers \cup {None}]
  BY <1>1 DEF Exact
<1>3. ASSUME NEW p \in Peers
      PROVE  /\ h.queues[p] \in Nat
             /\ h.queues[p] = Cardinality(QueuedFor(h, p))
             /\ h.queues[p] <= BlockLimit
  <2>1. QueuedFor(h, p) = QueuedFor(g, p) \ (QueuedFor(g, p) \cap bs)
    BY <1>1 DEF QueuedFor, Constants
  <2>2. /\ IsFiniteSet(QueuedFor(g, p))
        /\ Cardinality(QueuedFor(g, p)) \in Nat
    BY QueuedForFinite
  <2>3. /\ IsFiniteSet(QueuedFor(g, p) \cap bs)
        /\ Cardinality(QueuedFor(g, p) \cap bs) \in Nat
        /\ Cardinality(QueuedFor(g, p) \cap bs) <= Cardinality(QueuedFor(g, p))
    BY <2>2, FS_Subset, FS_CardinalityType, Zenon
  <2>4. QueuedFor(g, p) \cap (QueuedFor(g, p) \cap bs) = QueuedFor(g, p) \cap bs
    OBVIOUS
  <2>5. Cardinality(QueuedFor(h, p)) = Cardinality(QueuedFor(g, p)) - Cardinality(QueuedFor(g, p) \cap bs)
    BY <2>1, <2>2, <2>4, FS_Difference, Zenon
  <2>6. h.queues[p] = g.queues[p] - Cardinality(QueuedFor(g, p) \cap bs)
    BY <1>1
  <2>7. g.queues[p] = Cardinality(QueuedFor(g, p)) /\ g.queues[p] <= BlockLimit
    BY DEF Exact
  <2>. QED BY <2>2, <2>3, <2>5, <2>6, <2>7 DEF Constants
<1>4. h.queues \in [Peers -> Nat]
  BY <1>1, <1>3
<1>5. Exact(h)
  BY <1>1, <1>2, <1>3, <1>4, Zenon DEF Exact
<1>. QED BY <1>1, <1>5 DEF h

\* enqueue counts a block once, and not above blockLimit.
LEMMA EnqueueExact ==
  ASSUME Constants, NEW g, NEW imports, Exact(g), Waiting(g, imports), NEW p \in Peers, NEW b \in Blocks
  PROVE  Exact(Enqueue(g, p, b)) /\ Waiting(Enqueue(g, p, b), imports)
<1>1. CASE b \in g.knowns
  BY <1>1 DEF Enqueue
<1>2. CASE b \notin g.knowns /\ (g.queues[p] + 1 > BlockLimit \/ Distant(b))
  <2>1. Enqueue(g, p, b) = ForgetHashes(g, {b})
    BY <1>2 DEF Enqueue, ForgetHash
  <2>2. DOMAIN g = Fields
    BY DEF Exact
  <2>. QED BY <2>1, <2>2, ForgetHashesQueue, SameQueueExact, Zenon
<1>3. CASE b \notin g.knowns /\ ~(g.queues[p] + 1 > BlockLimit \/ Distant(b)) /\ g.queued[b] # None
  BY <1>3 DEF Enqueue
<1>4. CASE b \notin g.knowns /\ ~(g.queues[p] + 1 > BlockLimit \/ Distant(b)) /\ g.queued[b] = None
  <2>. DEFINE h == Enqueue(g, p, b)
  <2>1. h = [g EXCEPT !.queues[p] = @ + 1, !.queued[b] = p, !.knowns = @ \cup {b}, !.queue = @ \cup {b}]
    BY <1>4 DEF Enqueue
  <2>2. /\ DOMAIN h = Fields
        /\ h.queue = g.queue \cup {b}
        /\ h.queues = [g.queues EXCEPT ![p] = @ + 1]
        /\ h.queued = [g.queued EXCEPT ![b] = p]
    BY <2>1 DEF Exact, Fields
  <2>. HIDE DEF h
  <2>3. h.queued \in [Blocks -> Peers \cup {None}]
    BY <2>2 DEF Exact
  <2>4. ASSUME NEW r \in Peers
        PROVE  /\ h.queues[r] \in Nat
               /\ h.queues[r] = Cardinality(QueuedFor(h, r))
               /\ h.queues[r] <= BlockLimit
    <3>1. g.queues[r] \in Nat /\ g.queues[r] = Cardinality(QueuedFor(g, r)) /\ g.queues[r] <= BlockLimit
      BY DEF Exact
    <3>2. CASE r # p
      <4>1. QueuedFor(h, r) = QueuedFor(g, r)
        BY <1>4, <2>2, <3>2, Zenon DEF QueuedFor, Exact, Constants
      <4>2. h.queues[r] = g.queues[r]
        BY <2>2, <3>2 DEF Exact
      <4>. QED BY <3>1, <4>1, <4>2, Zenon
    <3>3. CASE r = p
      <4>1. QueuedFor(h, r) = QueuedFor(g, r) \cup {b}
        BY <2>2, <3>3 DEF QueuedFor, Exact
      <4>2. b \notin QueuedFor(g, r)
        BY <1>4 DEF QueuedFor, Constants
      <4>3. Cardinality(QueuedFor(h, r)) = Cardinality(QueuedFor(g, r)) + 1
        BY <4>1, <4>2, QueuedForFinite, FS_AddElement, Zenon
      <4>4. h.queues[r] = g.queues[r] + 1
        BY <2>2, <3>3, Zenon DEF Exact
      <4>5. g.queues[r] + 1 <= BlockLimit
        BY <1>4, <3>1, <3>3 DEF Constants
      <4>. QED BY <3>1, <4>3, <4>4, <4>5
    <3>. QED BY <3>2, <3>3, Zenon
  <2>5. h.queues \in [Peers -> Nat]
    BY <2>2 DEF Exact
  <2>6. Exact(h)
    BY <2>2, <2>3, <2>4, <2>5, Zenon DEF Exact
  <2>7. Waiting(h, imports)
    BY <1>4, <2>2, Zenon DEF Waiting, Exact, Constants
  <2>. QED BY <2>6, <2>7 DEF h
<1>. QED BY <1>1, <1>2, <1>3, <1>4, Zenon
\* The top of the loop: a block that leaves the queue is dropped with its count
\* or handed to an importer with it.
LEMMA TopKeeps ==
  ASSUME Constants, NEW g, NEW imports, Exact(g), Waiting(g, imports), Top(g, imports)
  PROVE  QueueInv'
<1>1. PICK expired \in SUBSET Fetching(g) :
        LET h == ForgetHashes(g, expired)
        IN  /\ f' = [ForgetBlocks(h, Late(h)) EXCEPT !.queue = @ \ Fits(h)]
            /\ importing' = [b \in Blocks |-> IF b \in Fits(h) \ Late(h) THEN "run" ELSE imports[b]]
  BY DEF Top
<1>. DEFINE h == ForgetHashes(g, expired)
            k == ForgetBlocks(h, Late(h))
<1>2. Exact(h) /\ Waiting(h, imports)
  <2>1. DOMAIN g = Fields
    BY DEF Exact
  <2>. QED BY <2>1, ForgetHashesQueue, SameQueueExact, Zenon
<1>3. /\ f' = [k EXCEPT !.queue = @ \ Fits(h)]
      /\ importing' = [b \in Blocks |-> IF b \in Fits(h) \ Late(h) THEN "run" ELSE imports[b]]
  BY <1>1
<1>. HIDE DEF h
<1>4. Late(h) \subseteq Fits(h) /\ Fits(h) \subseteq h.queue /\ h.queue \subseteq Blocks
  BY <1>2 DEF Late, Fits, Exact
<1>. DEFINE late == Late(h)
            fits == Fits(h)
<1>5. /\ Exact(k)
      /\ k.queue = h.queue
      /\ \A b \in Blocks : k.queued[b] = IF b \in late THEN None ELSE h.queued[b]
  BY <1>2, <1>4, ForgetBlocksExact
<1>. HIDE DEF k, late, fits
<1>6. /\ DOMAIN f' = Fields
      /\ f'.queue = h.queue \ fits
      /\ f'.queues = k.queues /\ f'.queued = k.queued
  BY <1>3, <1>5 DEF Exact, Fields, fits
<1>7. Exact(f')
  <2>1. \A p : QueuedFor(f', p) = QueuedFor(k, p)
    BY <1>6 DEF QueuedFor
  <2>. QED BY <1>4, <1>5, <1>6, <2>1, Zenon DEF Exact
<1>8. importing' = [b \in Blocks |-> IF b \in fits \ late THEN "run" ELSE imports[b]]
  BY <1>3 DEF fits, late
<1>9. Waiting(f', importing')
  <2>1. importing' \in [Blocks -> {"none", "run", "done"}]
    BY <1>2, <1>8, Zenon DEF Waiting
  <2>2. ASSUME NEW b \in Blocks
        PROVE  /\ f'.queued[b] # None <=> b \in f'.queue \/ importing'[b] # "none"
               /\ b \in f'.queue => importing'[b] = "none"
    <3>1. /\ h.queued[b] # None <=> b \in h.queue \/ imports[b] # "none"
          /\ b \in h.queue => imports[b] = "none"
      BY <1>2 DEF Waiting
    <3>2. b \in late => b \in fits
      BY <1>4 DEF late, fits
    <3>3. b \in fits => b \in h.queue
      BY <1>4 DEF fits
    <3>4. importing'[b] = IF b \in fits \ late THEN "run" ELSE imports[b]
      BY <1>8
    <3>5. f'.queued[b] = IF b \in late THEN None ELSE h.queued[b]
      BY <1>5, <1>6, Zenon
    <3>. QED BY <1>6, <3>1, <3>2, <3>3, <3>4, <3>5, Zenon
  <2>. QED BY <2>1, <2>2, Zenon DEF Waiting
<1>10. (Exact(f) /\ Waiting(f, importing))' <=> Exact(f') /\ Waiting(f', importing')
  BY DEF Exact, Waiting, QueuedFor
<1>. QED BY <1>7, <1>9, <1>10, Zenon DEF QueueInv

\* The same after an event that left the queue alone.
LEMMA LoopKeeps ==
  ASSUME Constants, QueueInv, NEW g, SameQueue(f, g), Loop(g)
  PROVE  QueueInv'
<1>1. Exact(g) /\ Waiting(g, importing)
  BY SameQueueExact DEF QueueInv
<1>. QED BY <1>1, TopKeeps DEF Loop

-----------------------------------------------------------------------------
(* Steps *)

\* An announcement does not touch the queue.
LEMMA NotifyKeeps ==
  ASSUME Constants, QueueInv, NEW p \in Peers, NEW b \in Blocks, Notify(p, b)
  PROVE  QueueInv'
<1>0. DOMAIN f = Fields
  BY DEF QueueInv, Exact
<1>1. CASE Loop(f)
  <2>1. SameQueue(f, f)
    BY <1>0 DEF SameQueue
  <2>. QED BY <1>1, <2>1, LoopKeeps, Zenon
<1>2. ASSUME NEW g, g = [f EXCEPT !.announces[p] = @ + 1, !.announced[b] = Append(@, p)],
             NEW t, Loop([g EXCEPT !.fetchTimer = t])
      PROVE  QueueInv'
  <2>1. SameQueue(f, [g EXCEPT !.fetchTimer = t])
    BY <1>0, <1>2 DEF SameQueue, Fields
  <2>. QED BY <1>2, <2>1, LoopKeeps, Zenon
<1>. QED BY <1>1, <1>2, Zenon DEF Notify

\* The hashes that are asked for leave the announced map, not the queue.
LEMMA FetchTimerKeeps ==
  ASSUME Constants, QueueInv, NEW due, NEW from, FetchTimer(due, from)
  PROVE  QueueInv'
<1>0. DOMAIN f = Fields
  BY DEF QueueInv, Exact
<1>. DEFINE g == ForgetHashes(f, due)
            h == [g EXCEPT !.fetching = [b \in Blocks |-> IF b \in due \ imported THEN from[b] ELSE @[b]],
                           !.fetchTimer = \E b \in Blocks : g.announced[b] # << >>]
<1>1. Loop(h)
  BY DEF FetchTimer
<1>2. SameQueue(f, g)
  BY <1>0, ForgetHashesQueue, Zenon
<1>3. SameQueue(f, h)
  <2>. HIDE DEF g
  <2>. QED BY <1>2 DEF SameQueue, Fields
<1>. QED BY <1>1, <1>3, LoopKeeps, Zenon

\* Nor do the bodies that are asked for.
LEMMA CompleteTimerKeeps ==
  ASSUME Constants, QueueInv, NEW from, CompleteTimer(from)
  PROVE  QueueInv'
<1>0. DOMAIN f = Fields
  BY DEF QueueInv, Exact
<1>. DEFINE fetched == {b \in Blocks : f.fetched[b] # << >>}
            g == ForgetHashes(f, fetched)
            h == [g EXCEPT !.completing = [b \in Blocks |-> IF b \in fetched \ imported THEN from[b] ELSE @[b]],
                           !.completeTimer = FALSE]
<1>1. Loop(h)
  BY DEF CompleteTimer
<1>2. SameQueue(f, g)
  BY <1>0, ForgetHashesQueue, Zenon
<1>3. SameQueue(f, h)
  <2>. HIDE DEF g
  <2>. QED BY <1>2 DEF SameQueue, Fields
<1>. QED BY <1>1, <1>3, LoopKeeps, Zenon
\* A propagated block, and a body that completes a block, is queued.
LEMMA InjectKeeps ==
  ASSUME Constants, QueueInv, NEW p \in Peers, NEW b \in Blocks, Inject(p, b) \/ Body(p, b)
  PROVE  QueueInv'
<1>1. CASE Loop(Enqueue(f, p, b))
  BY <1>1, EnqueueExact, TopKeeps, Zenon DEF QueueInv, Loop
<1>2. CASE Loop(ForgetHash(f, b))
  BY <1>2, ForgetHashesQueue, LoopKeeps DEF ForgetHash, QueueInv, Exact
<1>. QED BY <1>1, <1>2 DEF Inject, Body

\* A header without a body to ask for completes its block too.
LEMMA HeaderKeeps ==
  ASSUME Constants, QueueInv, NEW p \in Peers, NEW b \in Blocks, NEW right, Header(p, b, right)
  PROVE  QueueInv'
<1>0. DOMAIN f = Fields
  BY DEF QueueInv, Exact
<1>1. CASE Loop(ForgetHash(f, b))
  BY <1>0, <1>1, ForgetHashesQueue, LoopKeeps, Zenon DEF ForgetHash
<1>2. CASE Loop(Enqueue([f EXCEPT !.completing[b] = p], p, b))
  <2>. DEFINE g == [f EXCEPT !.completing[b] = p]
  <2>1. SameQueue(f, g)
    BY <1>0 DEF SameQueue, Fields
  <2>2. Exact(g) /\ Waiting(g, importing)
    BY <2>1, SameQueueExact DEF QueueInv
  <2>. HIDE DEF g
  <2>3. Exact(Enqueue(g, p, b)) /\ Waiting(Enqueue(g, p, b), importing)
    BY <2>2, EnqueueExact
  <2>4. Loop(Enqueue(g, p, b))
    BY <1>2 DEF g
  <2>. QED BY <2>3, <2>4, TopKeeps, Zenon DEF Loop
<1>3. ASSUME NEW g, g = [f EXCEPT !.fetched[b] = Append(@, p)],
             NEW t, Loop([g EXCEPT !.completeTimer = t])
      PROVE  QueueInv'
  <2>1. SameQueue(f, [g EXCEPT !.completeTimer = t])
    BY <1>0, <1>3 DEF SameQueue, Fields
  <2>. QED BY <1>3, <2>1, LoopKeeps, Zenon
<1>. QED BY <1>1, <1>2, <1>3, Zenon DEF Header

\* An importer that reports its end gives the count of its block back.
LEMMA DoneKeeps ==
  ASSUME Constants, QueueInv, NEW b \in Blocks, ImportDone(b)
  PROVE  QueueInv'
<1>. DEFINE g == ForgetHashes(f, {b})
            h == ForgetBlocks(g, {b})
            imports == [importing EXCEPT ![b] = "none"]
<1>1. Exact(g) /\ Waiting(g, importing)
  <2>1. DOMAIN f = Fields
    BY DEF QueueInv, Exact
  <2>. QED BY <2>1, ForgetHashesQueue, SameQueueExact, Zenon DEF QueueInv
<1>2. Top(h, imports) /\ importing[b] = "done"
  BY DEF ImportDone, ForgetBlock, ForgetHash
<1>. HIDE DEF g
<1>3. /\ Exact(h)
      /\ h.queue = g.queue
      /\ \A c \in Blocks : h.queued[c] = IF c \in {b} THEN None ELSE g.queued[c]
  BY <1>1, ForgetBlocksExact
<1>. HIDE DEF h
<1>4. Waiting(h, imports)
  BY <1>1, <1>2, <1>3, Zenon DEF Waiting
<1>. HIDE DEF imports
<1>. QED BY <1>2, <1>3, <1>4, TopKeeps, Zenon

\* What happens outside the loop leaves the maps of the queue alone.
LEMMA OutsideKeeps ==
  ASSUME Constants, QueueInv, NEW b \in Blocks, NEW ok,
         Import(b, ok) \/ ImportElsewhere(b) \/ Evict(b)
  PROVE  QueueInv'
<1>1. CASE Import(b, ok)
  <2>1. f' = f /\ importing[b] = "run" /\ importing' = [importing EXCEPT ![b] = "done"]
    BY <1>1 DEF Import
  <2>2. Exact(f) /\ Waiting(f, importing)
    BY DEF QueueInv
  <2>3. Exact(f)'
    BY <2>1, <2>2, Zenon DEF Exact, QueuedFor
  <2>4. Waiting(f, importing)'
    BY <2>1, <2>2, Zenon DEF Waiting
  <2>. QED BY <2>3, <2>4, Zenon DEF QueueInv
<1>2. CASE Evict(b)
  <2>1. f' = [f EXCEPT !.knowns = @ \ {b}] /\ importing' = importing
    BY <1>2 DEF Evict
  <2>2. Exact(f) /\ Waiting(f, importing)
    BY DEF QueueInv
  <2>3. SameQueue(f, f')
    BY <2>1, <2>2 DEF SameQueue, Exact, Fields
  <2>4. Exact(f') /\ Waiting(f', importing')
    BY <2>1, <2>2, <2>3, SameQueueExact, Zenon
  <2>. QED BY <2>4 DEF QueueInv, Exact, Waiting, QueuedFor
<1>3. CASE ImportElsewhere(b)
  <2>1. f' = f /\ importing' = importing
    BY <1>3 DEF ImportElsewhere
  <2>. QED BY <2>1 DEF QueueInv, Exact, Waiting, QueuedFor
<1>. QED BY <1>1, <1>2, <1>3, Zenon

\* Every queued block counts for its peer until it was dropped or its import has
\* ended, and none is handed to a second importer meanwhile.
THEOREM QueueInvariance ==
  ASSUME Constants
  PROVE  FetcherSpec => []QueueInv
<1>1. FetcherInit => QueueInv
  <2>. SUFFICES ASSUME FetcherInit PROVE QueueInv
    OBVIOUS
  <2>1. \A p \in Peers : QueuedFor(f, p) = {}
    BY DEF FetcherInit, QueuedFor, Constants
  <2>2. Exact(f)
    <3>1. DOMAIN f = Fields
      BY DEF FetcherInit, Fields
    <3>2. f.queue = {} /\ f.queues = [p \in Peers |-> 0] /\ f.queued = [b \in Blocks |-> None]
      BY DEF FetcherInit
    <3>3. f.queues \in [Peers -> Nat] /\ f.queued \in [Blocks -> Peers \cup {None}]
      BY <3>2
    <3>4. \A p \in Peers : f.queues[p] = Cardinality(QueuedFor(f, p)) /\ f.queues[p] = 0
      BY <2>1, <3>2, FS_EmptySet, Zenon
    <3>5. 0 <= BlockLimit
      BY DEF Constants
    <3>. QED BY <3>1, <3>2, <3>3, <3>4, <3>5, Zenon DEF Exact
  <2>3. Waiting(f, importing)
    BY DEF FetcherInit, Waiting
  <2>. QED BY <2>2, <2>3 DEF QueueInv
<1>2. QueueInv /\ [FetcherNext]_fetcherVars => QueueInv'
  <2>. SUFFICES ASSUME QueueInv, [FetcherNext]_fetcherVars PROVE QueueInv'
    OBVIOUS
  <2>1. ASSUME NEW p \in Peers, NEW b \in Blocks, NEW right,
               Notify(p, b) \/ Inject(p, b) \/ Header(p, b, right) \/ Body(p, b)
        PROVE  QueueInv'
    BY <2>1, NotifyKeeps, InjectKeeps, HeaderKeeps, Zenon
  <2>2. CASE FetchTimerFires
    BY <2>2, FetchTimerKeeps, Zenon DEF FetchTimerFires
  <2>3. CASE CompleteTimerFires
    BY <2>3, CompleteTimerKeeps, Zenon DEF CompleteTimerFires
  <2>4. ASSUME NEW b \in Blocks, ImportDone(b) \/ Imports(b) \/ ImportElsewhere(b) \/ Evict(b)
        PROVE  QueueInv'
    BY <2>4, DoneKeeps, OutsideKeeps, Zenon DEF Imports
  <2>5. CASE StopFetcher \/ UNCHANGED fetcherVars
    <3>1. f' = f /\ importing' = importing
      BY <2>5 DEF StopFetcher, fetcherVars
    <3>. QED BY <3>1 DEF QueueInv, Exact, Waiting, QueuedFor
  <2>. QED BY <2>1, <2>2, <2>3, <2>4, <2>5, Zenon DEF FetcherNext
<1>. QED BY <1>1, <1>2, PTL DEF FetcherSpec

\* The count of queued blocks of a peer, which enqueue compares with blockLimit,
\* is exact.
THEOREM QueueCountsExactHolds ==
  ASSUME Constants
  PROVE  FetcherSpec => []QueueCountsExact
<1>1. QueueInv => QueueCountsExact
  BY DEF QueueInv, Exact, QueueCountsExact
<1>. QED BY <1>1, QueueInvariance, PTL

-----------------------------------------------------------------------------
(* The length of the countdown of a round, for any width of the exponent,  *)
(* any parameters and any interleaving of SetParams with                   *)
(* GetTimeoutDuration.                                                      *)

Parameters == [duration : Nat, base : Nat, maxExponent : Nat]

\* SetParams statement by statement: which fields are still the previous ones, and what
\* is left to restore.
SetterInv ==
  /\ d \in Parameters /\ prev \in Parameters /\ args \in Parameters
  /\ args \in Configurations \cup {Initial} /\ prev \in Accepted
  /\ setter \in {"idle", "duration", "base", "exponent", "restore duration", "restore base", "restore exponent"}
  /\ setter = "idle" => d \in Accepted
  /\ setter = "exponent" => d.duration = args.duration /\ d.base = args.base
  /\ setter = "base" => d.duration = args.duration
  /\ setter = "restore base" => d.duration = prev.duration
  /\ setter = "restore exponent" => d.duration = prev.duration /\ d.base = prev.base

\* GetTimeoutDuration statement by statement, unless SetParams overlaps with it: what it has
\* read is of the present fields, which do not change meanwhile.
ReaderInv ==
  /\ used = [duration |-> used.duration, base |-> used.base, exp |-> used.exp]
  /\ rounds \in Nat
  /\ reader \in {"idle", "cap", "power", "duration"}
  /\ ~overlapped =>
       /\ reader # "idle" => setter = "idle"
       /\ reader = "cap" => RoundCount(rounds) > d.maxExponent
       /\ reader \in {"power", "duration"} => used.exp = Least(RoundCount(rounds), d.maxExponent)
       /\ reader = "duration" => used.base = d.base
       /\ reader = "idle" => LengthOfOne(RoundCount(rounds))

\* SetParams leaves parameters that pass the check, the new ones or the previous ones.
LEMMA SetterStep ==
  ASSUME Configurations \cup {Initial} \subseteq Parameters, SetterInv, [DurationNext]_durationVars
  PROVE  SetterInv'
<1>1. CASE GetTimeoutDuration \/ Cap \/ Power \/ Duration
  BY <1>1, Zenon DEF GetTimeoutDuration, Cap, Power, Duration, SetterInv
<1>2. ASSUME NEW p \in Configurations, SetParams(p) PROVE SetterInv'
  BY <1>2 DEF SetParams, SetterInv
<1>3. CASE SetDuration
  BY <1>3 DEF SetDuration, SetterInv, Parameters
<1>4. CASE SetBase
  BY <1>4 DEF SetBase, SetterInv, Parameters
<1>5. CASE SetExponent
  <2>1. d' = args
    BY <1>5 DEF SetExponent, SetterInv, Parameters
  <2>2. setter' = "idle" => args \in Accepted
    BY <1>5, Zenon DEF SetExponent, SetterInv, Accepted
  <2>. QED BY <1>5, <2>1, <2>2 DEF SetExponent, SetterInv
<1>6. CASE RestoreDuration
  BY <1>6 DEF RestoreDuration, SetterInv, Parameters
<1>7. CASE RestoreBase
  BY <1>7 DEF RestoreBase, SetterInv, Parameters
<1>8. CASE RestoreExponent
  <2>1. d' = prev
    BY <1>8 DEF RestoreExponent, SetterInv, Parameters
  <2>. QED BY <1>8, <2>1 DEF RestoreExponent, SetterInv
<1>9. CASE UNCHANGED durationVars
  BY <1>9, Zenon DEF durationVars, SetterInv
<1>. QED BY <1>1, <1>2, <1>3, <1>4, <1>5, <1>6, <1>7, <1>8, <1>9, Zenon DEF DurationNext

\* GetTimeoutDuration, if it is not overlapped, ends with the fields it began with.
LEMMA ReaderStep ==
  ASSUME Configurations \cup {Initial} \subseteq Parameters, SetterInv, ReaderInv, [DurationNext]_durationVars,
         \A n \in Nat : RoundCount(n) \in Nat
  PROVE  ReaderInv'
<1>1. CASE GetTimeoutDuration
  <2>1. /\ rounds' \in Nat /\ used' = [used EXCEPT !.exp = RoundCount(rounds')]
        /\ overlapped' = (setter # "idle") /\ setter' = setter /\ d' = d
        /\ reader' = IF RoundCount(rounds') > d.maxExponent THEN "cap" ELSE "power"
    BY <1>1 DEF GetTimeoutDuration, ReaderInv
  <2>2. RoundCount(rounds') \in Nat /\ d.maxExponent \in Nat
    BY <2>1 DEF SetterInv, Parameters
  <2>. DEFINE n == RoundCount(rounds')
  <2>. HIDE DEF n
  <2>3. n \in Nat /\ used' = [used EXCEPT !.exp = n] /\ reader' = IF n > d.maxExponent THEN "cap" ELSE "power"
    BY <2>1, <2>2, Zenon DEF n
  <2>4. /\ used' = [duration |-> used'.duration, base |-> used'.base, exp |-> used'.exp]
        /\ used'.exp = n /\ reader' \in {"cap", "power"}
        /\ reader' = "cap" => n > d.maxExponent
        /\ reader' = "power" => n = Least(n, d.maxExponent)
    BY <2>3 DEF ReaderInv, Least
  <2>. QED BY <2>1, <2>4, Zenon DEF ReaderInv, n
<1>2. CASE Cap
  <2>1. /\ used' = [used EXCEPT !.exp = d.maxExponent] /\ reader = "cap" /\ reader' = "power"
        /\ UNCHANGED << d, setter, rounds, overlapped >>
    BY <1>2 DEF Cap
  <2>2. /\ used' = [duration |-> used'.duration, base |-> used'.base, exp |-> used'.exp]
        /\ used'.exp = d.maxExponent
    BY <2>1 DEF ReaderInv
  <2>3. ~overlapped => d.maxExponent = Least(RoundCount(rounds), d.maxExponent)
    BY <2>1, Zenon DEF ReaderInv, Least
  <2>. QED BY <2>1, <2>2, <2>3 DEF ReaderInv
<1>3. CASE Power
  BY <1>3 DEF Power, ReaderInv
<1>4. CASE Duration
  <2>1. /\ used' = [used EXCEPT !.duration = d.duration] /\ reader = "duration" /\ reader' = "idle"
        /\ UNCHANGED << d, setter, rounds, overlapped >>
    BY <1>4 DEF Duration
  <2>2. used' = [duration |-> d.duration, base |-> used.base, exp |-> used.exp]
    BY <2>1 DEF ReaderInv
  <2>3. ASSUME ~overlapped PROVE LengthOfOne(RoundCount(rounds))'
    <3>1. d \in Accepted /\ used.base = d.base /\ used.exp = Least(RoundCount(rounds), d.maxExponent)
      BY <2>1, <2>3, Zenon DEF SetterInv, ReaderInv
    <3>. QED BY <2>1, <2>2, <3>1, Zenon DEF LengthOfOne
  <2>. QED BY <2>1, <2>2, <2>3 DEF ReaderInv
<1>5. ASSUME NEW p \in Configurations, SetParams(p) PROVE ReaderInv'
  BY <1>5, Zenon DEF SetParams, ReaderInv, LengthOfOne
<1>6. CASE SetDuration \/ SetBase \/ SetExponent \/ RestoreDuration \/ RestoreBase \/ RestoreExponent
  <2>1. setter # "idle" /\ UNCHANGED << reader, rounds, used, overlapped >>
    BY <1>6 DEF SetDuration, SetBase, SetExponent, RestoreDuration, RestoreBase, RestoreExponent
  <2>. QED BY <2>1, Zenon DEF ReaderInv, LengthOfOne
<1>7. CASE UNCHANGED durationVars
  BY <1>7, Zenon DEF durationVars, ReaderInv, LengthOfOne
<1>. QED BY <1>1, <1>2, <1>3, <1>4, <1>5, <1>6, <1>7, Zenon DEF DurationNext

\* GetTimeoutDuration and SetParams take no lock: still, a countdown that no SetParams overlaps has
\* its length from one configuration that sanityCheck accepted, whatever was asked for and rejected
\* before.
THEOREM AcceptedParamsHold ==
  ASSUME 2^Bits \in Nat \ {0}, Configurations \cup {Initial} \subseteq Parameters
  PROVE  DurationSpec => []AcceptedParams
<1>. DEFINE W == 2^Bits
<1>0. W \in Nat \ {0}
  OBVIOUS
<1>1. (\A n \in Nat : RoundCount(n) \in Nat) /\ RoundCount(1) = 0
  <2>. HIDE DEF W
  <2>1. \A n \in Nat : n % W \in 0 .. W - 1
    BY <1>0
  <2>2. \A n \in Int : n % W \in Nat
    BY <1>0
  <2>3. W = 1 => (0 - 1) % W = 0
    BY <1>0
  <2>4. W > 1 => 1 % W = 1 /\ 0 % W = 0
    BY <1>0
  <2>5. 1 % 1 = 0
    OBVIOUS
  <2>6. \A n \in Nat : (n % W) - 1 \in Int
    BY <1>0, <2>1
  <2>7. ((1 % W) - 1) % W = 0
    BY <1>0, <2>3, <2>4, <2>5
  <2>. QED BY <2>2, <2>6, <2>7 DEF RoundCount, W
<1>. HIDE DEF W
<1>2. DurationInit => SetterInv /\ ReaderInv
  <2>. SUFFICES ASSUME DurationInit PROVE SetterInv /\ ReaderInv
    OBVIOUS
  <2>1. Initial \in Accepted /\ Initial \in Parameters
    BY InitialAssumption, Zenon DEF InitialAssumption, Accepted
  <2>2. SetterInv
    BY <2>1 DEF DurationInit, SetterInv
  <2>3. 0 = Least(0, Initial.maxExponent)
    BY <2>1 DEF Parameters, Least
  <2>4. /\ used = [duration |-> Initial.duration, base |-> Initial.base, exp |-> Least(RoundCount(rounds), Initial.maxExponent)]
        /\ rounds = 1 /\ reader = "idle"
    BY <1>1, <2>3, Zenon DEF DurationInit
  <2>5. LengthOfOne(RoundCount(rounds))
    BY <2>1, <2>4, Zenon DEF LengthOfOne
  <2>. QED BY <2>2, <2>4, <2>5 DEF ReaderInv
<1>3. SetterInv /\ ReaderInv /\ [DurationNext]_durationVars => SetterInv' /\ ReaderInv'
  BY <1>1, SetterStep, ReaderStep, Zenon
<1>4. ReaderInv => AcceptedParams
  BY Zenon DEF ReaderInv, AcceptedParams
<1>. QED BY <1>2, <1>3, <1>4, PTL DEF DurationSpec
=============================================================================
