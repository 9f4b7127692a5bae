------------------------------- MODULE TxPool -------------------------------
(***************************************************************************)
(* The transaction pool (core/txpool: txpool.go, list.go, noncer.go).      *)
(* Threads add transactions, the loop of the pool hands it new chain heads *)
(* and evicts, and scheduleReorgLoop runs one runReorg at a time.  Every   *)
(* section under pool.mu is one step; between a section and the request it *)
(* leads to, and between the launch of a run and its lock, others step.    *)
(*                                                                         *)
(* A transaction is a record of sender, nonce, price and whether it is     *)
(* special (sent to the signing or randomize contract); its price stands   *)
(* for fee cap, tip and cost.  A list of an account is the set of its      *)
(* transactions, at most one of a nonce; an empty list is an absent one.   *)
(* A head is the sequence of the blocks that lead to it.  The times of the *)
(* heartbeats are left out, so accounts age in any order.  The price heaps *)
(* are left out too: what they discard is some of the remote transactions. *)
(***************************************************************************)
EXTENDS Integers, Sequences, FiniteSets, SequencesExt, FiniteSetsExt

CONSTANTS Accounts,
          Signers,       \* accounts IsSigner accepts
          Genesis,       \* the balance in the first state
          PriceBump,     \* percent
          NonceAhead,    \* LimitThresholdNonceInQueue
          ReorgLimit,    \* 64 in the code
          MaxWaiting,    \* bound: heads not yet read by the loop
          Environments   \* the surroundings of the pool, one of which is met

NoReset == [old |-> <<>>, new |-> <<>>, set |-> FALSE]

VARIABLES env,       \* what surrounds the pool, and its configuration
          p,         \* the pool, what pool.mu guards
          chain,     \* the head of the chain
          headCh,    \* heads posted to chainHeadCh
          head,      \* the head the loop saw last
          asked,     \* requestPromoteExecutables calls not yet received
          next,      \* scheduleReorgLoop: reset, dirtyAccounts, launchNextRun
          running    \* the arguments of the active runReorg

vars == <<env, p, chain, headCh, head, asked, next, running>>

Txs == env.txs           \* transactions that are sent
Heads == env.heads       \* chains the node may switch to
Losses == env.losses     \* whether old blocks and states may be missing
Prices == env.prices     \* the prices SetGasPrice is called with
Callers == env.callers   \* TRUE: a local caller, FALSE: the network
Quiet == env.quiet       \* accounts that may be silent for Lifetime
GlobalSlots == env.globalSlots
GlobalQueue == env.globalQueue
AccountSlots == env.accountSlots
AccountQueue == env.accountQueue

----------------------------------------------------------------------------
(* Lists of an account *)

At(list, n) == {t \in list : t.nonce = n}

NoncesOf(list) == {t.nonce : t \in list}

\* What Add lets through: the old transaction of the nonce is not special, and
\* the new price is above it and reaches the bump, in integer division.
Accepts(list, tx) ==
    \A old \in At(list, tx.nonce) :
        /\ ~old.special
        /\ tx.price > old.price
        /\ tx.price >= (old.price * (100 + PriceBump)) \div 100

Put(list, tx) == (list \ At(list, tx.nonce)) \union {tx}

\* The run of consecutive nonces from the lowest, if that is not above start.
Ready(list, start) ==
    IF list = {} \/ Min(NoncesOf(list)) > start THEN {}
    ELSE {t \in list : \A n \in Min(NoncesOf(list))..t.nonce : At(list, n) # {}}

\* The transactions above the limit, highest nonces first.
Cap(list, limit) ==
    {t \in list : Cardinality({u \in list : u.nonce < t.nonce}) >= limit}

Costly(list, balance) == {t \in list : t.price > balance}

----------------------------------------------------------------------------
(* Heads *)

Included(h) == UNION {h[i].txs : i \in DOMAIN h}

StateAt(h) ==
    [nonce   |-> [a \in Accounts |-> Cardinality({t \in Included(h) : t.from = a})],
     balance |-> IF h = <<>> THEN Genesis ELSE Last(h).balance]

\* Transactions of the blocks from the head down, in the order of the walk.
Walk(h, S) == SetToSortSeq(S, LAMBDA t, u :
    (CHOOSE i \in DOMAIN h : t \in h[i].txs) > (CHOOSE i \in DOMAIN h : u \in h[i].txs))

----------------------------------------------------------------------------
(* Pieces of the pool *)

All(q) == q.localTxs \union q.remoteTxs

AllRemove(q, S) == [q EXCEPT !.localTxs = @ \ S, !.remoteTxs = @ \ S]

AllAdd(q, tx, local) ==
    IF local THEN [q EXCEPT !.localTxs = @ \union {tx}]
             ELSE [q EXCEPT !.remoteTxs = @ \union {tx}]

Init ==
    /\ env \in Environments
    /\ p = [pending |-> [a \in Accounts |-> {}], queue |-> [a \in Accounts |-> {}],
            beats |-> {}, locals |-> {}, localTxs |-> {}, remoteTxs |-> {},
            nonces |-> StateAt(<<>>).nonce, state |-> StateAt(<<>>),
            gasPrice |-> Min(Prices), changes |-> 0]
    /\ chain = <<>> /\ headCh = <<>> /\ head = <<>>
    /\ asked = {}
    /\ next = [reset |-> NoReset, dirty |-> {}, launch |-> FALSE]
    /\ running = {}

----------------------------------------------------------------------------
(* enqueueTx, promoteTx, promoteSpecialTx, removeTx *)

\* Mutant: the replaced transaction stays in the lookup set.
EnqueueLeaks(q, tx, local, addAll) ==
    LET a  == tx.from
        q1 == [q EXCEPT !.queue[a] = Put(@, tx), !.beats = @ \union {a}]
    IN  IF ~Accepts(q.queue[a], tx) THEN q
        ELSE IF addAll THEN AllAdd(q1, tx, local) ELSE q1

Enqueue(q, tx, local, addAll) ==
    LET a  == tx.from
        q1 == [AllRemove(q, At(q.queue[a], tx.nonce)) EXCEPT
                 !.queue[a] = Put(@, tx), !.beats = @ \union {a}]
    IN  IF ~Accepts(q.queue[a], tx) THEN q
        ELSE IF addAll THEN AllAdd(q1, tx, local) ELSE q1

EnqueueAll(q, S) == FoldSet(LAMBDA tx, r : Enqueue(r, tx, FALSE, FALSE), q, S)

PromoteTx(q, tx) ==
    LET a == tx.from
    IN  IF ~Accepts(q.pending[a], tx) THEN AllRemove(q, {tx})
        ELSE [AllRemove(q, At(q.pending[a], tx.nonce)) EXCEPT
                !.pending[a] = Put(@, tx),
                !.nonces[a] = tx.nonce + 1,
                !.beats = @ \union {a}]

PromoteSpecial(q, tx, local) ==
    LET a   == tx.from
        old == At(q.pending[a], tx.nonce)
        q1  == [AllRemove(q, old) EXCEPT
                  !.pending[a] = Put(@, tx),
                  !.beats = @ \union {a},
                  !.nonces[a] = tx.nonce + 1]
    IN  IF \E t \in old : t.special THEN q
        ELSE IF tx \in All(q1) THEN q1 ELSE AllAdd(q1, tx, local)

SetIfLower(q, a, n) == [q EXCEPT !.nonces[a] = IF @ <= n THEN @ ELSE n]

\* The lists are searched by nonce, the pending one first.
RemoveTx(q, tx) ==
    LET a  == tx.from
        q1 == AllRemove(q, {tx})
        invalids == {t \in q.pending[a] : t.nonce > tx.nonce}
        q2 == EnqueueAll([q1 EXCEPT !.pending[a] = {t \in @ : t.nonce < tx.nonce}], invalids)
        future == q.queue[a] \ At(q.queue[a], tx.nonce)
    IN  IF tx \notin All(q) THEN q
        ELSE IF At(q.pending[a], tx.nonce) # {} THEN SetIfLower(q2, a, tx.nonce)
        ELSE IF q.queue[a] = {} THEN q1
        ELSE [q1 EXCEPT !.queue[a] = future,
                        !.beats = IF future = {} THEN @ \ {a} ELSE @]

RemoveAll(q, S) == FoldSet(LAMBDA tx, r : RemoveTx(r, tx), q, S)

----------------------------------------------------------------------------
(* add: every outcome, a pool and whether the sender became dirty *)

Valid(q, tx, local) ==
    /\ ~local /\ tx.price < q.gasPrice => tx.special /\ tx.from \in Signers
    /\ q.state.nonce[tx.from] <= tx.nonce
    /\ tx.nonce <= q.nonces[tx.from] + NonceAhead
    /\ tx.price <= q.state.balance

Full(q) == Cardinality(All(q)) + 1 > GlobalSlots + GlobalQueue

\* The transactions in the two heaps: the remote ones, without some of the special
\* ones, which enter the heaps only when these are rebuilt.
Priced(q) == {C \in SUBSET q.remoteTxs : \A t \in q.remoteTxs \ C : t.special}

Underpriced(C, tx) == C # {} /\ \A t \in C : t.price >= tx.price

\* What Discard may take to make the given number of slots free.
Discards(C, need, local) ==
    IF Cardinality(C) >= need THEN {S \in SUBSET C : S # {} /\ Cardinality(S) <= need}
    ELSE IF local THEN {C} ELSE {}

\* The pools with room for tx; there is none when it is refused.
Rooms(q, C, tx, local) ==
    LET need == Cardinality(All(q)) - (GlobalSlots + GlobalQueue) + 1
    IN  IF ~Full(q) THEN {q}
        ELSE IF \/ ~local /\ Underpriced(C, tx)
                \/ q.changes > GlobalSlots \div 4 THEN {}
        ELSE {[RemoveAll(q, S) EXCEPT !.changes = @ + Cardinality(S)] :
                 S \in Discards(C, need, local)}

ReplacePending(q, tx, local) ==
    LET a == tx.from
    IN  [AllAdd(AllRemove(q, At(q.pending[a], tx.nonce)), tx, local) EXCEPT
           !.pending[a] = Put(@, tx), !.beats = @ \union {a}]

MarkLocal(q, a) ==
    LET mine == {t \in q.remoteTxs : t.from = a}
    IN  [q EXCEPT !.locals = @ \union {a},
                  !.localTxs = @ \union mine, !.remoteTxs = @ \ mine]

\* From the check of the pending list on, local being what the caller said.
Insert(q, tx, local, isLocal) ==
    LET a  == tx.from
        q1 == Enqueue(q, tx, isLocal, TRUE)
    IN  IF At(q.pending[a], tx.nonce) # {}
        THEN [pool |-> IF Accepts(q.pending[a], tx) THEN ReplacePending(q, tx, isLocal) ELSE q,
              dirty |-> {}]
        ELSE IF ~Accepts(q.queue[a], tx) THEN [pool |-> q, dirty |-> {}]
        ELSE [pool |-> IF local THEN MarkLocal(q1, a) ELSE q1,
              dirty |-> IF At(q.queue[a], tx.nonce) = {} THEN {a} ELSE {}]

AddTx(q, tx, local) ==
    LET isLocal == local \/ tx.from \in q.locals
    IN  IF tx \in All(q) \/ ~Valid(q, tx, isLocal) THEN {[pool |-> q, dirty |-> {}]}
        ELSE IF tx.special /\ tx.from \in Signers /\ q.nonces[tx.from] = tx.nonce
        THEN {[pool |-> PromoteSpecial(q, tx, isLocal), dirty |-> {}]}
        ELSE UNION {LET R == Rooms(q, C, tx, isLocal)
                    IN  IF R = {} THEN {[pool |-> q, dirty |-> {}]}
                        ELSE {Insert(r, tx, local, isLocal) : r \in R} : C \in Priced(q)}

\* addTxsLocked of the transactions of a reorg; the dirty accounts are dropped.
Reinject(Q, txs) ==
    FoldLeft(LAMBDA S, tx : UNION {{o.pool : o \in AddTx(q, tx, FALSE)} : q \in S}, Q, txs)

----------------------------------------------------------------------------
(* reset *)

Distance(m, n) == IF m > n THEN m - n ELSE n - m

\* Mutant: the difference taken the other way round.
ToReinjectNew(old, new) ==
    IF Distance(Len(old), Len(new)) > ReorgLimit THEN <<>>
    ELSE Walk(new, Included(new) \ Included(old))

ToReinject(old, new) ==
    IF Distance(Len(old), Len(new)) > ReorgLimit THEN <<>>
    ELSE Walk(old, Included(old) \ Included(new))

SetState(q, h) == [q EXCEPT !.state = StateAt(h), !.nonces = StateAt(h).nonce]

Reset(q, r) ==
    Reinject({SetState(q, r.new)}, ToReinject(r.old, r.new))
    \union (IF ~Losses THEN {}
            ELSE IF Len(r.new) >= Len(r.old) THEN {q}
            ELSE {q, SetState(q, r.new)})

----------------------------------------------------------------------------
(* promoteExecutables and demoteUnexecutables, one account at a time *)

PromoteAccount(q, a) ==
    LET forwards == {t \in q.queue[a] : t.nonce < q.state.nonce[a]}
        drops    == Costly(q.queue[a] \ forwards, q.state.balance)
        left     == q.queue[a] \ (forwards \union drops)
        readies  == Ready(left, q.nonces[a])
        caps     == IF a \in q.locals THEN {} ELSE Cap(left \ readies, AccountQueue)
        kept     == left \ (readies \union caps)
        promoted == FoldLeft(PromoteTx, AllRemove(q, forwards \union drops),
                             SetToSortSeq(readies, LAMBDA t, u : t.nonce < u.nonce))
    IN  IF q.queue[a] = {} THEN q
        ELSE [AllRemove(promoted, caps) EXCEPT
                !.queue[a] = kept,
                !.beats = IF kept = {} THEN @ \ {a} ELSE @]

\* Mutant: what follows an unaffordable transaction stays pending.
DemoteLeavesGap(q, a) ==
    LET olds   == {t \in q.pending[a] : t.nonce < q.state.nonce[a]}
        drops  == Costly(q.pending[a] \ olds, q.state.balance)
        left   == q.pending[a] \ (olds \union drops)
        gapped == IF At(left, q.state.nonce[a]) = {} THEN left ELSE {}
    IN  EnqueueAll([AllRemove(q, olds \union drops) EXCEPT !.pending[a] = left \ gapped],
                   gapped)

DemoteAccount(q, a) ==
    LET olds     == {t \in q.pending[a] : t.nonce < q.state.nonce[a]}
        drops    == Costly(q.pending[a] \ olds, q.state.balance)
        payable  == q.pending[a] \ (olds \union drops)
        invalids == {t \in payable : \E d \in drops : d.nonce < t.nonce}
        left     == payable \ invalids
        gapped   == IF At(left, q.state.nonce[a]) = {} THEN left ELSE {}
    IN  EnqueueAll([AllRemove(q, olds \union drops) EXCEPT !.pending[a] = left \ gapped],
                   invalids \union gapped)

OverAccounts(Op(_, _), q, A) == FoldSet(LAMBDA a, r : Op(r, a), q, A)

HighestNonces(q) ==
    [q EXCEPT !.nonces = [a \in Accounts |->
        IF q.pending[a] = {} THEN q.state.nonce[a] ELSE Max(NoncesOf(q.pending[a])) + 1]]

----------------------------------------------------------------------------
(* truncatePending and truncateQueue *)

Total(lists) == FoldSet(LAMBDA a, n : n + Cardinality(lists[a]), 0, Accounts)

CeilDiv(m, n) == (m + n - 1) \div n

\* The offenders so far and the lengths that are left: the next offender brings
\* the earlier ones down to its own length, all of them by one in each round.
NextOffender(acc, a) ==
    LET others == DOMAIN acc.offenders
        over   == acc.total - GlobalSlots
        rounds == IF acc.offenders = <<>> THEN 0
                  ELSE Min({acc.len[Last(acc.offenders)] - acc.len[a],
                            CeilDiv(over, Len(acc.offenders))})
    IN  IF over <= 0 THEN acc
        ELSE [offenders |-> Append(acc.offenders, a),
              len   |-> [b \in Accounts |-> IF b \in Range(acc.offenders)
                                            THEN acc.len[b] - rounds ELSE acc.len[b]],
              total |-> acc.total - rounds * Cardinality(others)]

\* Mutant: the offenders keep one slot more.
EqualiseShort(acc) ==
    LET over   == acc.total - GlobalSlots
        rounds == IF over <= 0 \/ acc.offenders = <<>> THEN 0
                  ELSE Min({acc.len[Last(acc.offenders)] - AccountSlots - 1,
                            CeilDiv(over, Len(acc.offenders))})
    IN  [b \in Accounts |-> IF b \in Range(acc.offenders)
                            THEN acc.len[b] - rounds ELSE acc.len[b]]

\* What is left is taken from all offenders down to AccountSlots.
Equalise(acc) ==
    LET over   == acc.total - GlobalSlots
        rounds == IF over <= 0 \/ acc.offenders = <<>> THEN 0
                  ELSE Min({acc.len[Last(acc.offenders)] - AccountSlots,
                            CeilDiv(over, Len(acc.offenders))})
    IN  [b \in Accounts |-> IF b \in Range(acc.offenders)
                            THEN acc.len[b] - rounds ELSE acc.len[b]]

CapPending(q, a, len) ==
    LET caps == Cap(q.pending[a], len)
    IN  IF caps = {} THEN q
        ELSE SetIfLower([AllRemove(q, caps) EXCEPT !.pending[a] = @ \ caps],
                        a, Min(NoncesOf(caps)))

TruncatePending(q) ==
    LET len == [a \in Accounts |-> Cardinality(q.pending[a])]
        spammers == {a \in Accounts \ q.locals : len[a] > AccountSlots}
        largestFirst == {s \in SetToSeqs(spammers) :
                           \A i, j \in DOMAIN s : i < j => len[s[i]] >= len[s[j]]}
        Left(s) == Equalise(FoldLeft(NextOffender,
                        [offenders |-> <<>>, len |-> len, total |-> Total(q.pending)], s))
    IN  IF Total(q.pending) <= GlobalSlots THEN {q}
        ELSE {FoldSet(LAMBDA a, r : CapPending(r, a, Left(s)[a]), q, spammers) :
                 s \in largestFirst}

\* acc.drop transactions are still to go; the account loses all or its highest.
DropQueued(acc, a) ==
    LET size == Cardinality(acc.pool.queue[a])
        gone == Cap(acc.pool.queue[a], Max({0, size - acc.drop}))
    IN  [pool |-> RemoveAll(acc.pool, gone), drop |-> acc.drop - Cardinality(gone)]

TruncateQueue(q) ==
    LET drop == Total(q.queue) - GlobalQueue
        addresses == {a \in Accounts \ q.locals : q.queue[a] # {}}
    IN  IF drop <= 0 THEN {q}
        ELSE {FoldLeft(DropQueued, [pool |-> q, drop |-> drop], s).pool : s \in SetToSeqs(addresses)}

----------------------------------------------------------------------------
(* runReorg *)

Settle(q, r) ==
    LET q1 == OverAccounts(PromoteAccount, q,
                  IF r.reset.set THEN {a \in Accounts : q.queue[a] # {}} ELSE r.dirty)
        q2 == IF r.reset.set THEN HighestNonces(OverAccounts(DemoteAccount, q1, Accounts))
              ELSE q1
    IN  {[q4 EXCEPT !.changes = 0] :
            q4 \in UNION {TruncateQueue(q3) : q3 \in TruncatePending(q2)}}

RunReorg(q, r) ==
    UNION {Settle(q1, r) : q1 \in IF r.reset.set THEN Reset(q, r.reset) ELSE {q}}

----------------------------------------------------------------------------
(* Steps *)

\* AddLocals and AddRemotes of one transaction; the request follows the unlock.
Add(tx, local) ==
    /\ tx \notin All(p)
    /\ \E o \in AddTx(p, tx, local) :
         /\ p' = o.pool
         /\ asked' = asked \union {o.dirty}
    /\ UNCHANGED <<env, chain, headCh, head, next, running>>

NewHead(h) ==
    /\ h # chain
    /\ Len(h) >= Len(chain) \/ Losses
    /\ Len(headCh) < MaxWaiting
    /\ chain' = h
    /\ headCh' = Append(headCh, h)
    /\ UNCHANGED <<env, p, head, asked, next, running>>

\* The loop reads a head and requestReset is received.
RequestReset ==
    /\ headCh # <<>>
    /\ head' = Head(headCh)
    /\ headCh' = Tail(headCh)
    /\ next' = [next EXCEPT !.launch = TRUE,
                  !.reset = IF @.set THEN [@ EXCEPT !.new = Head(headCh)]
                            ELSE [old |-> head, new |-> Head(headCh), set |-> TRUE]]
    /\ UNCHANGED <<env, p, chain, asked, running>>

ReceivePromote(accounts) ==
    /\ asked' = asked \ {accounts}
    /\ next' = [next EXCEPT !.launch = TRUE, !.dirty = @ \union accounts]
    /\ UNCHANGED <<env, p, chain, headCh, head, running>>

Launch ==
    /\ next.launch /\ running = {}
    /\ running' = {[reset |-> next.reset, dirty |-> next.dirty]}
    /\ next' = [reset |-> NoReset, dirty |-> {}, launch |-> FALSE]
    /\ UNCHANGED <<env, p, chain, headCh, head, asked>>

Run ==
    /\ \E r \in running : p' \in RunReorg(p, r)
    /\ running' = {}
    /\ UNCHANGED <<env, chain, headCh, head, asked, next>>

SetGasPrice(price) ==
    /\ price # p.gasPrice
    /\ LET drop == {t \in p.remoteTxs : t.price < price}
           q == [p EXCEPT !.gasPrice = price]
       IN  p' = IF price > p.gasPrice THEN RemoveAll(q, drop) ELSE q
    /\ UNCHANGED <<env, chain, headCh, head, asked, next, running>>

\* The eviction tick, on the accounts whose heartbeat is older than Lifetime;
\* an account without a heartbeat always is.
Evict(old) ==
    /\ {a \in Accounts : p.queue[a] # {}} \ p.beats \subseteq old
    /\ LET gone == UNION {p.queue[a] : a \in old \ p.locals}
       IN  gone # {} /\ p' = RemoveAll(p, gone)
    /\ UNCHANGED <<env, chain, headCh, head, asked, next, running>>

Next ==
    \/ \E tx \in Txs, local \in Callers : Add(tx, local)
    \/ \E h \in Heads : NewHead(h)
    \/ RequestReset
    \/ \E accounts \in asked : ReceivePromote(accounts)
    \/ Launch
    \/ Run
    \/ \E price \in Prices : SetGasPrice(price)
    \/ \E old \in SUBSET Quiet : Evict(old)

Spec == Init /\ [][Next]_vars

----------------------------------------------------------------------------
(* Properties *)

\* The lookup set and the two lists of each account hold the same transactions,
\* and no nonce is both pending and queued, if special transactions have nonces of their
\* own: one over a queued nonce enters the pending list past the queue.
LookupMatchesLists ==
    /\ All(p) = UNION {p.pending[a] \union p.queue[a] : a \in Accounts}
    /\ \A a \in Accounts : NoncesOf(p.pending[a]) \intersect NoncesOf(p.queue[a]) = {}

\* The pending transactions of an account are exactly those from its nonce in the
\* state of the pool up to the nonce the pool hands out: what the miner takes has
\* no gap, whatever was dropped, demoted, truncated or brought back by a reorg.
PendingIsExecutable ==
    \A a \in Accounts :
        NoncesOf(p.pending[a]) = p.state.nonce[a]..(p.nonces[a] - 1)

\* Once a run is over the pool is back in its limits: above GlobalSlots only if no
\* remote account exceeds AccountSlots, above GlobalQueue only with local accounts.
RunRestoresLimits ==
    [][running # {} /\ running' = {} =>
        /\ \/ Total(p'.pending) <= GlobalSlots
           \/ \A a \in Accounts \ p'.locals : Cardinality(p'.pending[a]) <= AccountSlots
        /\ \/ Total(p'.queue) <= GlobalQueue
           \/ \A a \in Accounts \ p'.locals : p'.queue[a] = {}]_vars

\* After a reset with all blocks at hand a transaction of a dropped block that is
\* still valid is in the pool again, or another one has its nonce.
DiscardedReturn ==
    [][\A r \in running : ~Losses /\ running' = {} /\ r.reset.set =>
        \A t \in Included(r.reset.old) \ Included(r.reset.new) :
            /\ Distance(Len(r.reset.old), Len(r.reset.new)) <= ReorgLimit
            /\ Valid(SetState(p, r.reset.new), t, FALSE)
            => \E u \in All(p') : u.from = t.from /\ u.nonce = t.nonce]_vars
=============================================================================
