------------------------------- MODULE Fetcher -------------------------------
(***************************************************************************)
(* The block fetcher (eth/fetcher/fetcher.go): announcements of block       *)
(* hashes are gathered, a header and then a body is asked of one announcer, *)
(* whole blocks wait in a queue until they fit on the chain, and each is    *)
(* imported by a goroutine of its own that reports back to the loop.        *)
(*                                                                          *)
(* f holds the maps of the fetcher, which only the loop touches.  Every     *)
(* event of the loop is followed by its next pass over the top: expired     *)
(* requests are forgotten and the blocks that fit are handed to importers.  *)
(* Which requests have expired is left open.  The v1 path, where a second   *)
(* masternode signs before the import, ends like a refused import.          *)
(***************************************************************************)
EXTENDS Integers, FiniteSets, Sequences, SequencesExt, FiniteSetsExt

CONSTANTS
  Peers, None,
  Blocks,         \* the blocks of the network, without the one all have
  Root,
  ParentHash,     \* the parent of each block
  Empty,          \* the blocks without a body to ask for
  HashLimit,      \* hashLimit
  BlockLimit,     \* blockLimit
  MaxUncleDist,
  MaxQueueDist,
  MaxNotices      \* bound on announcements and propagated blocks

VARIABLES
  f,           \* the maps of the fetcher
  importing,   \* the stage of the import of each block: none, run or done
  imported,    \* the blocks the node has
  fetcherRuns, \* quit is not closed
  notices      \* how many messages came in

fetcherVars == << f, importing, imported, fetcherRuns, notices >>

NumberOf[b \in Blocks \cup {Root}] == IF b = Root THEN 0 ELSE NumberOf[ParentHash[b]] + 1
Height == Max({NumberOf[b] : b \in imported})
Distant(b) == NumberOf[b] - Height < -MaxUncleDist \/ NumberOf[b] - Height > MaxQueueDist

\* How often a peer occurs in a list of announcers.
Count(list, p) == Cardinality({i \in 1 .. Len(list) : list[i] = p})
One(peer, p) == IF peer = p THEN 1 ELSE 0

-----------------------------------------------------------------------------
(* Forgetting *)

\* What the entries of a block counted for a peer, and those of several blocks.
Counted(g, b, p) ==
  Count(g.announced[b], p) + One(g.fetching[b], p) + Count(g.fetched[b], p) + One(g.completing[b], p)
CountedFor(g, bs, p) == MapThenSumSet(LAMBDA b : Counted(g, b, p), bs)

\* forgetHash of some blocks: each list gives back what its entries counted.
ForgetHashes(g, bs) ==
  [g EXCEPT !.announces = [p \in Peers |-> @[p] - CountedFor(g, bs, p)],
            !.announced = [b \in Blocks |-> IF b \in bs THEN << >> ELSE @[b]],
            !.fetching = [b \in Blocks |-> IF b \in bs THEN None ELSE @[b]],
            !.fetched = [b \in Blocks |-> IF b \in bs THEN << >> ELSE @[b]],
            !.completing = [b \in Blocks |-> IF b \in bs THEN None ELSE @[b]]]

ForgetHash(g, b) == ForgetHashes(g, {b})

\* Mutant of ForgetBlocks: the blocks leave without their count.
ForgetBlocksOnly(g, bs) ==
  [g EXCEPT !.queued = [b \in Blocks |-> IF b \in bs THEN None ELSE @[b]]]

\* The blocks that count for a peer.
QueuedFor(g, p) == {b \in Blocks : g.queued[b] = p}

\* forgetBlock of some blocks.
ForgetBlocks(g, bs) ==
  [g EXCEPT !.queues = [p \in Peers |-> @[p] - Cardinality(QueuedFor(g, p) \cap bs)],
            !.queued = [b \in Blocks |-> IF b \in bs THEN None ELSE @[b]]]

ForgetBlock(g, b) == ForgetBlocks(g, {b})

-----------------------------------------------------------------------------
(* Queueing and the top of the loop *)

\* enqueue
Enqueue(g, p, b) ==
  IF b \in g.knowns THEN g
  ELSE IF g.queues[p] + 1 > BlockLimit \/ Distant(b) THEN ForgetHash(g, b)
  ELSE IF g.queued[b] # None THEN g
  ELSE [g EXCEPT !.queues[p] = @ + 1, !.queued[b] = p, !.knowns = @ \cup {b}, !.queue = @ \cup {b}]

\* The blocks the loop takes from the queue, and the ones it drops of them.
Fits(g) == {b \in g.queue : NumberOf[b] <= Height + 1}
Late(g) == {b \in Fits(g) : NumberOf[b] + MaxUncleDist < Height \/ b \in imported}

Fetching(g) == {b \in Blocks : g.fetching[b] # None}

\* The top of the loop after an event left the maps at g and the importers
\* at imports.
Top(g, imports) ==
  \E expired \in SUBSET Fetching(g) :
    LET h == ForgetHashes(g, expired)
    IN  /\ f' = [ForgetBlocks(h, Late(h)) EXCEPT !.queue = @ \ Fits(h)]
        /\ importing' = [b \in Blocks |-> IF b \in Fits(h) \ Late(h) THEN "run" ELSE imports[b]]

Loop(g) == Top(g, importing)

-----------------------------------------------------------------------------
(* Events of the loop *)

Arrives == fetcherRuns /\ notices < MaxNotices /\ notices' = notices + 1 /\ UNCHANGED << imported, fetcherRuns >>
Inside == fetcherRuns /\ UNCHANGED << imported, fetcherRuns, notices >>

\* A hash is announced; the timer is set for the first hash.
Notify(p, b) ==
  /\ Arrives
  /\ IF \/ f.announces[p] + 1 > HashLimit
        \/ Distant(b)
        \/ f.fetching[b] # None
        \/ f.completing[b] # None
     THEN Loop(f)
     ELSE LET g == [f EXCEPT !.announces[p] = @ + 1, !.announced[b] = Append(@, p)]
          IN  Loop([g EXCEPT !.fetchTimer = @ \/ Cardinality({c \in Blocks : g.announced[c] # << >>}) = 1])

\* A whole block is propagated.
Inject(p, b) ==
  /\ Arrives
  /\ Loop(Enqueue(f, p, b))

\* The hashes that waited long enough are asked of one announcer each.
FetchTimer(due, from) ==
  /\ Inside /\ f.fetchTimer
  /\ due \subseteq {b \in Blocks : f.announced[b] # << >>}
  /\ from \in [due -> Peers] /\ \A b \in due : from[b] \in ToSet(f.announced[b])
  /\ LET g == ForgetHashes(f, due)
     IN  Loop([g EXCEPT !.fetching = [b \in Blocks |-> IF b \in due \ imported THEN from[b] ELSE @[b]],
                        !.fetchTimer = \E b \in Blocks : g.announced[b] # << >>])

\* The bodies of all fetched headers are asked of one peer each.
CompleteTimer(from) ==
  LET fetched == {b \in Blocks : f.fetched[b] # << >>}
  IN  /\ Inside /\ f.completeTimer
      /\ from \in [fetched -> Peers] /\ \A b \in fetched : from[b] \in ToSet(f.fetched[b])
      /\ Loop([ForgetHashes(f, fetched) EXCEPT
                 !.completing = [b \in Blocks |-> IF b \in fetched \ imported THEN from[b] ELSE @[b]],
                 !.completeTimer = FALSE])

\* A header arrives; right tells whether its number is the announced one.
Header(p, b, right) ==
  /\ Inside
  /\ f.fetching[b] = p /\ f.fetched[b] = << >> /\ f.completing[b] = None /\ f.queued[b] = None
  /\ IF ~right \/ b \in imported THEN Loop(ForgetHash(f, b))
     ELSE IF b \in Empty THEN Loop(Enqueue([f EXCEPT !.completing[b] = p], p, b))
     ELSE LET g == [f EXCEPT !.fetched[b] = Append(@, p)]
          IN  Loop([g EXCEPT !.completeTimer = @ \/ Cardinality({c \in Blocks : g.fetched[c] # << >>}) = 1])

\* A body arrives.
Body(p, b) ==
  /\ Inside
  /\ f.completing[b] = p /\ f.queued[b] = None
  /\ IF b \in imported THEN Loop(ForgetHash(f, b)) ELSE Loop(Enqueue(f, p, b))

\* An importer reports its end: the loop receives it only while it runs.
ImportDone(b) ==
  /\ fetcherRuns /\ importing[b] = "done"
  /\ Top(ForgetBlock(ForgetHash(f, b), b), [importing EXCEPT ![b] = "none"])
  /\ UNCHANGED << imported, fetcherRuns, notices >>

\* Stop closes quit: the loop ends.
StopFetcher ==
  /\ fetcherRuns
  /\ fetcherRuns' = FALSE
  /\ UNCHANGED << f, importing, imported, notices >>

-----------------------------------------------------------------------------
(* Outside the loop *)

\* The goroutine of insert: the parent is looked up, the header verified and
\* the block inserted, or one of these fails.
Import(b, ok) ==
  /\ importing[b] = "run"
  /\ ok => ParentHash[b] \in imported
  /\ imported' = IF ok THEN imported \cup {b} ELSE imported
  /\ importing' = [importing EXCEPT ![b] = "done"]
  /\ UNCHANGED << f, fetcherRuns, notices >>

\* A block is imported by the downloader or the miner.
ImportElsewhere(b) ==
  /\ b \notin imported /\ ParentHash[b] \in imported
  /\ imported' = imported \cup {b}
  /\ UNCHANGED << f, importing, fetcherRuns, notices >>

\* The least recently used entry leaves the known blocks.
Evict(b) ==
  /\ b \in f.knowns
  /\ f' = [f EXCEPT !.knowns = @ \ {b}]
  /\ UNCHANGED << importing, imported, fetcherRuns, notices >>

-----------------------------------------------------------------------------
FetcherInit ==
  /\ f = [announces |-> [p \in Peers |-> 0], announced |-> [b \in Blocks |-> << >>],
          fetching |-> [b \in Blocks |-> None], fetched |-> [b \in Blocks |-> << >>],
          completing |-> [b \in Blocks |-> None], queue |-> {},
          queues |-> [p \in Peers |-> 0], queued |-> [b \in Blocks |-> None], knowns |-> {},
          fetchTimer |-> TRUE, completeTimer |-> TRUE]
  /\ importing = [b \in Blocks |-> "none"]
  /\ imported = {Root}
  /\ fetcherRuns = TRUE
  /\ notices = 0

FetchTimerFires == \E due \in SUBSET Blocks : \E from \in [due -> Peers] : FetchTimer(due, from)
CompleteTimerFires == \E due \in SUBSET Blocks : \E from \in [due -> Peers] : CompleteTimer(from)
Imports(b) == \E ok \in BOOLEAN : Import(b, ok)

FetcherNext ==
  \/ \E p \in Peers, b \in Blocks :
       \/ Notify(p, b)
       \/ Inject(p, b)
       \/ \E right \in BOOLEAN : Header(p, b, right)
       \/ Body(p, b)
  \/ FetchTimerFires
  \/ CompleteTimerFires
  \/ \E b \in Blocks : ImportDone(b) \/ Imports(b) \/ ImportElsewhere(b) \/ Evict(b)
  \/ StopFetcher

FetcherSpec == FetcherInit /\ [][FetcherNext]_fetcherVars

-----------------------------------------------------------------------------
(* Properties *)

\* The count of queued blocks of a peer is exact and within blockLimit, through
\* duplicates, late blocks and failed imports: no peer is shut out for good by
\* a count that was not given back.
QueueCountsExact ==
  \A p \in Peers :
    /\ f.queues[p] = Cardinality(QueuedFor(f, p))
    /\ f.queues[p] <= BlockLimit

=============================================================================
