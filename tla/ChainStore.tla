------------------------------ MODULE ChainStore -----------------------------
(***************************************************************************)
(* The block store of one node (core/blockchain.go, core/headerchain.go):   *)
(* blocks and their states are written, the heaviest chain is made          *)
(* canonical, forks are switched, the chain is rewound, and the process may *)
(* crash between any two batches that reach the database.                   *)
(*                                                                          *)
(* disk is what a crash leaves: the stored blocks (header, body, receipts   *)
(* and total difficulty are one batch), the canonical block of each number, *)
(* the head markers and the state tries that were committed.  chain is what *)
(* a crash loses: the current block and header, the tries that are only in  *)
(* memory, the number of the last trie written, and the latest block the    *)
(* consensus engine committed.                                              *)
(*                                                                          *)
(* The chain mutex is held by InsertChain and SetHead from their first step *)
(* to their last.  InsertBlock, the entry of the block fetcher, takes it    *)
(* only for its last block: getResultBlock imports pruned ancestors before. *)
(***************************************************************************)
EXTENDS Integers, Sequences, FiniteSets

CONSTANTS
  Block,          \* the blocks of the tree
  Genesis,
  Parent,         \* the parent of each block but the genesis block
  Number,         \* the number of each block
  Td,             \* the total difficulty of each block
  NoBlock,
  Importers,      \* goroutines that call InsertChain
  Fetchers,       \* goroutines that call InsertBlock
  Rewinder,       \* the goroutine that calls SetHead
  NoThread,
  Environments    \* the circumstances under which the store runs

Threads == Importers \cup Fetchers \cup {Rewinder}

Environment ==
  [ threads : SUBSET Threads,                  \* those that are active
    final : SUBSET Block,                      \* what the consensus engine may commit
    triesInMemory : Nat \ {0},                 \* how many recent states stay in memory
    archive : BOOLEAN,                         \* cacheConfig.Disabled: states go to disk
    crashes : Nat,                             \* bound: faults with a crash as the last
    rewinds : Nat ]                            \* bound: faults with SetHead as the last

ASSUME TreeAssumption ==
  /\ Genesis \in Block /\ NoBlock \notin Block
  /\ Parent \in [Block \ {Genesis} -> Block]
  /\ Number \in [Block -> Nat] /\ Number[Genesis] = 0
  /\ Td \in [Block -> Nat]
  /\ \A b \in Block \ {Genesis} : Number[b] = Number[Parent[b]] + 1 /\ Td[b] >= Td[Parent[b]]
  /\ Environments \subseteq Environment

ASSUME ThreadsAssumption ==
  /\ NoThread \notin Threads
  /\ Importers \cap Fetchers = {} /\ Rewinder \notin Importers \cup Fetchers

VARIABLES
  disk,      \* the database
  chain,     \* the fields of the running BlockChain, lost in a crash
  lock,      \* the holder of chainmu, or NoThread
  pc,        \* what each goroutine is doing
  faults,    \* crashes and rewinds so far
  env        \* the environment, which does not change

vars == << disk, chain, lock, pc, faults, env >>

\* The blocks from b down to the genesis block.
Ancestors ==
  [b \in Block |-> {a \in Block : \A S \in SUBSET Block :
                      b \in S /\ (\A c \in S \ {Genesis} : Parent[c] \in S) => a \in S}]
AncestorAt(b, n) == CHOOSE a \in Ancestors[b] : Number[a] = n

Highest(S) == CHOOSE a \in S : \A c \in S : Number[c] <= Number[a]

\* The blocks above an ancestor a of b up to b itself, the lowest first.
Above(a, b) == [i \in 1 .. Number[b] - Number[a] |-> AncestorAt(b, Number[a] + i)]

Heights == {Number[b] : b \in Block}
\* latest is the local variable latestCommittedBlock of reorg.
Idle == [stage |-> "idle", todo |-> << >>, new |-> << >>, td |-> 0, latest |-> NoBlock]

HasState(b) == b \in disk.states \cup chain.tries
HasBlockAndFullState(b) == b \in disk.blocks /\ HasState(b)

-----------------------------------------------------------------------------
(* Opening the chain *)

\* Mutant of Repair: the head is taken as it is.
RepairNothing(b, states) == b

\* repair rolls the current block back to one whose state is on disk.
Repair(b, states) == Highest(Ancestors[b] \cap states)

\* loadLastState of a database with these markers; the tries in memory are
\* those of a chain that is already running (SetHead) or none (a restart).
LoadLastState(d, tries, committed, lastWrite) ==
  [running |-> TRUE, current |-> Repair(d.head, d.states \cup tries),
   header |-> d.header, tries |-> tries, committed |-> committed,
   lastWrite |-> lastWrite]

Stopped == [running |-> FALSE, current |-> NoBlock, header |-> NoBlock,
            tries |-> {}, committed |-> NoBlock, lastWrite |-> 0]

EmptyDatabase ==
  [blocks |-> {Genesis}, canon |-> [n \in Heights |-> IF n = 0 THEN Genesis ELSE NoBlock],
   head |-> Genesis, header |-> Genesis, states |-> {Genesis}]

Init ==
  /\ disk = EmptyDatabase
  /\ chain = LoadLastState(EmptyDatabase, {}, NoBlock, 0)
  /\ lock = NoThread
  /\ pc = [t \in Threads |-> Idle]
  /\ faults = 0
  /\ env \in Environments
-----------------------------------------------------------------------------
(* ValidateBody of a block whose header was accepted *)

Linkable(b) == b # Genesis /\ Parent[b] \in disk.blocks
Ignored(b) == HasBlockAndFullState(b) /\ Number[chain.current] >= Number[b]
Pruned(b) == ~HasBlockAndFullState(b) /\ ~HasState(Parent[b])
Loses(b) == Td[chain.current] > Td[b]

\* The stateless ancestors of b, oldest first: the blocks to execute again.
Winner(b) == Above(Repair(Parent[b], disk.states \cup chain.tries), Parent[b])

\* A block still to import; one that was validated is not validated again.
Unchecked(s) == [i \in 1 .. Len(s) |-> [block |-> s[i], checked |-> FALSE]]
Checked(b) == << [block |-> b, checked |-> TRUE] >>

Block1(t) == Head(pc[t].todo).block
Holds(t) == lock = t

Goto(t, stage) == pc' = [pc EXCEPT ![t].stage = stage]

\* The importing loop is done with its first block.
Done(t) ==
  IF Len(pc[t].todo) = 1
  THEN /\ pc' = [pc EXCEPT ![t] = Idle]
       /\ lock' = IF Holds(t) THEN NoThread ELSE lock
  ELSE /\ pc' = [pc EXCEPT ![t] = [Idle EXCEPT !.stage = "run", !.todo = Tail(pc[t].todo)]]
       /\ UNCHANGED lock

\* An error ends the whole call.
Return(t) ==
  /\ pc' = [pc EXCEPT ![t] = Idle]
  /\ lock' = IF Holds(t) THEN NoThread ELSE lock

-----------------------------------------------------------------------------
(* Importing *)

\* InsertChain of one block.
InsertChain(t, b) ==
  /\ t \in env.threads /\ chain.running /\ lock = NoThread
  /\ pc[t] = Idle /\ Linkable(b)
  /\ lock' = t
  /\ pc' = [pc EXCEPT ![t].stage = "run", ![t].todo = Unchecked(<< b >>)]
  /\ UNCHANGED << disk, chain, faults, env >>

\* InsertBlock: getResultBlock validates without the mutex, and a block that
\* would not win is refused instead of stored.
InsertBlock(t, b) ==
  /\ t \in env.threads /\ chain.running
  /\ pc[t] = Idle /\ Linkable(b)
  /\ ~Ignored(b)
  /\ Pruned(b) => ~Loses(b)
  /\ pc' = [pc EXCEPT ![t].stage = "run",
                      ![t].todo = (IF Pruned(b) THEN Unchecked(Winner(b)) ELSE << >>) \o Checked(b)]
  /\ UNCHANGED << disk, chain, lock, faults, env >>

\* The first block is known, loses, or needs ancestors to be executed again.
Validate(t) ==
  /\ pc[t].stage = "run" /\ ~Head(pc[t].todo).checked
  /\ LET b == Block1(t) IN
     \/ /\ Ignored(b)
        /\ Done(t)
        /\ UNCHANGED disk
     \/ /\ Pruned(b) /\ Loses(b)                      \* writeBlockWithoutState
        /\ disk' = [disk EXCEPT !.blocks = @ \cup {b}]
        /\ Done(t)
     \/ /\ Pruned(b) /\ ~Loses(b)
        /\ pc' = [pc EXCEPT ![t].todo = Unchecked(Winner(b)) \o Checked(b) \o Tail(@)]
        /\ UNCHANGED << disk, lock >>
     \/ /\ ~Ignored(b) /\ ~Pruned(b)
        /\ pc' = [pc EXCEPT ![t].todo = Checked(b) \o Tail(@)]
        /\ UNCHANGED << disk, lock >>
  /\ UNCHANGED << chain, faults, env >>

\* A fetched block is executed before the mutex is taken for writing it.
GetResult(t) ==
  /\ t \in Fetchers /\ pc[t].stage = "run" /\ Len(pc[t].todo) = 1
  /\ IF HasState(Parent[Block1(t)])
     THEN Goto(t, "result") /\ UNCHANGED lock
     ELSE Return(t)
  /\ UNCHANGED << disk, chain, faults, env >>

\* writeBlockWithState as far as the batch with the block.
WriteBlock(t) ==
  LET b == Block1(t) IN
  /\ IF HasState(Parent[b])
     THEN /\ disk' = [disk EXCEPT !.blocks = @ \cup {b}]
          /\ pc' = [pc EXCEPT ![t].stage = "written", ![t].td = Td[chain.current]]
          /\ UNCHANGED lock
     ELSE Return(t) /\ UNCHANGED disk
  /\ UNCHANGED << chain, faults, env >>

ExecuteAndWrite(t) ==
  /\ pc[t].stage = "run" /\ Head(pc[t].todo).checked
  /\ t \in Importers \/ Len(pc[t].todo) > 1
  /\ WriteBlock(t)

WriteResult(t) ==
  /\ pc[t].stage = "result" /\ lock = NoThread
  /\ LET b == Block1(t) IN
     IF HasBlockAndFullState(b)
     THEN pc' = [pc EXCEPT ![t] = Idle] /\ UNCHANGED << disk, lock >>
     ELSE /\ lock' = t
          /\ disk' = [disk EXCEPT !.blocks = @ \cup {b}]
          /\ pc' = [pc EXCEPT ![t].stage = "written", ![t].td = Td[chain.current]]
  /\ UNCHANGED << chain, faults, env >>

\* The tries that stay in memory once block b was written: those of the last
\* env.triesInMemory numbers; the others are dereferenced.
Collected(b) == {x \in chain.tries \cup {b} : Number[x] > Number[b] - env.triesInMemory}
ChosenTrie(b) == disk.canon[Number[b] - env.triesInMemory]

\* The state of b: committed on an archive node; otherwise referenced, with
\* the trie of the canonical block env.triesInMemory below committed when the
\* time allowance is used up (slow) or enough blocks have passed.
CommitState(b, slow) ==
  LET chosen == Number[b] - env.triesInMemory
      flush == chosen > 0 /\ (slow \/ chosen > chain.lastWrite + env.triesInMemory) /\ ChosenTrie(b) # NoBlock
  IN IF env.archive
     THEN /\ disk' = [disk EXCEPT !.states = @ \cup {b}]
          /\ UNCHANGED chain
     ELSE /\ disk' = [disk EXCEPT !.states = @ \cup (IF flush THEN {ChosenTrie(b)} \cap chain.tries ELSE {})]
          /\ chain' = [chain EXCEPT !.tries = IF chosen > 0 THEN Collected(b) ELSE @ \cup {b},
                                    !.lastWrite = IF flush THEN chosen ELSE @]

Wins(t, b) == Td[b] > pc[t].td \/ (Td[b] = pc[t].td /\ Number[b] > Number[chain.current])

CommonAncestor(old, new) == Highest(Ancestors[old] \cap Ancestors[new])

\* Mutant of NewChain: the new blocks are applied from the head down.
NewChainDownwards(old, new) ==
  LET up == Above(CommonAncestor(old, new), new)
  IN  [i \in DOMAIN up |-> up[Len(up) + 1 - i]]

\* The two sides of reorg above the common ancestor.
NewChain(old, new) == Above(CommonAncestor(old, new), new)
OldChain(old, new) == Ancestors[old] \ Ancestors[new]

\* A header on the way to the common ancestor is missing: SetHead deleted it.
InvalidChain(old, new) ==
  \E a \in Ancestors[old] \cup Ancestors[new] :
    Number[a] >= Number[CommonAncestor(old, new)] /\ a \notin disk.blocks

\* Mutant of RefuseReorg: only the old head is compared.
RefuseReorgOfHead(old, new) == chain.committed = old

\* Ensure BRDPoS engine committed block will be not reverted
RefuseReorg(old, new) == chain.committed \in OldChain(old, new)

\* The rest of writeBlockWithState up to the choice of the canonical chain.
Choose(t, slow) ==
  /\ pc[t].stage = "written"
  /\ LET b == Block1(t) IN
     /\ CommitState(b, slow)
     /\ \/ ~Wins(t, b) /\ Done(t)
        \/ /\ Wins(t, b) /\ Parent[b] = chain.current
           /\ Goto(t, "head")
           /\ UNCHANGED lock
        \/ /\ Wins(t, b) /\ Parent[b] # chain.current
           /\ IF InvalidChain(chain.current, b) \/ RefuseReorg(chain.current, b)
              THEN Return(t)
              ELSE /\ pc' = [pc EXCEPT ![t].stage = "reorg", ![t].new = NewChain(chain.current, b),
                                      ![t].latest = chain.committed]
                   /\ UNCHANGED lock
  /\ UNCHANGED << faults, env >>

\* One batch, then the markers in memory.
WriteHeadBlock(b, writeBlock) ==
  /\ disk' = [disk EXCEPT !.canon[Number[b]] = b, !.head = b, !.header = b,
                          !.blocks = IF writeBlock THEN @ \cup {b} ELSE @]
  /\ chain' = [chain EXCEPT !.current = b, !.header = b]

Reorg(t) ==
  /\ pc[t].stage = "reorg"
  /\ IF pc[t].new # << >>
     THEN /\ WriteHeadBlock(Head(pc[t].new), TRUE)
          /\ pc' = [pc EXCEPT ![t].new = Tail(@)]
     ELSE /\ disk' = [disk EXCEPT !.canon = [n \in Heights |->
                IF n > Number[Block1(t)] /\ \A m \in Number[Block1(t)] + 1 .. n : disk.canon[m] # NoBlock
                THEN NoBlock ELSE @[n]]]
          /\ Goto(t, "head")
          /\ UNCHANGED chain
  /\ UNCHANGED << lock, faults, env >>

SetNewHead(t) ==
  /\ pc[t].stage = "head"
  /\ WriteHeadBlock(Block1(t), FALSE)
  /\ Done(t)
  /\ UNCHANGED << faults, env >>

\* The consensus engine reports a block that it committed: it saw the block's
\* child and grandchild, and commits in the order of rounds.
Commit(b) ==
  /\ chain.running /\ b \in disk.blocks
  /\ \E c \in disk.blocks : Number[c] = Number[b] + 2 /\ b \in Ancestors[c]
  /\ chain.committed # NoBlock => Number[b] > Number[chain.committed]
  /\ chain' = [chain EXCEPT !.committed = b]
  /\ UNCHANGED << disk, lock, pc, faults, env >>

-----------------------------------------------------------------------------
(* Rewinding *)

SetHead(n) ==
  /\ chain.running /\ lock = NoThread
  /\ faults < env.rewinds
  /\ lock' = Rewinder
  /\ pc' = [pc EXCEPT ![Rewinder].stage = "rewind", ![Rewinder].td = n]
  /\ faults' = faults + 1
  /\ UNCHANGED << disk, chain, env >>

\* The block that updateFn makes the head when the header goes down to p.
RewoundHead(p) == IF HasBlockAndFullState(p) THEN p ELSE Genesis

\* One turn of the loop of HeaderChain.SetHead, with BlockChain's updateFn:
\* the markers go down before anything is deleted.
Rewind ==
  LET h == chain.header
      p == Parent[h]
      head == RewoundHead(p)
      lower == Number[p] < Number[chain.current]
  IN
  /\ pc[Rewinder].stage = "rewind"
  /\ Number[h] > pc[Rewinder].td
  /\ disk' = [disk EXCEPT !.header = p, !.head = IF lower THEN head ELSE @]
  /\ chain' = [chain EXCEPT !.header = p, !.current = IF lower THEN head ELSE @]
  /\ pc' = [pc EXCEPT ![Rewinder].new = Append(@, h)]
  /\ UNCHANGED << lock, faults, env >>

\* The batch of deletions.
Delete ==
  /\ pc[Rewinder].stage = "rewind"
  /\ Number[chain.header] <= pc[Rewinder].td
  /\ LET gone == {pc[Rewinder].new[i] : i \in DOMAIN pc[Rewinder].new} IN
     disk' = [disk EXCEPT !.blocks = @ \ gone,
                          !.canon = [n \in Heights |-> IF \E b \in gone : Number[b] = n THEN NoBlock ELSE @[n]]]
  /\ Goto(Rewinder, "load")
  /\ UNCHANGED << chain, lock, faults, env >>

\* SetHead ends with loadLastState.  If the head block is missing that calls
\* Reset, whose SetHead waits for the mutex this goroutine holds: no step.
Reload ==
  /\ pc[Rewinder].stage = "load"
  /\ disk.head \in disk.blocks
  /\ chain' = LoadLastState(disk, chain.tries, chain.committed, chain.lastWrite)
  /\ Return(Rewinder)
  /\ UNCHANGED << disk, faults, env >>

-----------------------------------------------------------------------------
(* The end of the process, and its restart *)

Crash ==
  /\ chain.running /\ faults < env.crashes
  /\ chain' = Stopped
  /\ lock' = NoThread
  /\ pc' = [t \in Threads |-> Idle]
  /\ faults' = faults + 1
  /\ UNCHANGED << disk, env >>

\* The states saveData commits: of the head, its parent and the oldest one
\* still in memory.
Saved ==
  {disk.canon[Number[chain.current] - offset] :
     offset \in {o \in {0, 1, env.triesInMemory - 1} : Number[chain.current] > o}} \cap chain.tries

Stop ==
  /\ chain.running /\ lock = NoThread
  /\ \A t \in Threads : pc[t] = Idle
  /\ disk' = IF env.archive THEN disk ELSE [disk EXCEPT !.states = @ \cup Saved]
  /\ chain' = Stopped
  /\ UNCHANGED << lock, pc, faults, env >>

Restart ==
  /\ ~chain.running
  /\ chain' = LoadLastState(disk, {}, NoBlock, 0)
  /\ UNCHANGED << disk, lock, pc, faults, env >>

Next ==
  \/ \E t \in Importers, b \in Block : InsertChain(t, b)
  \/ \E t \in Fetchers, b \in Block : InsertBlock(t, b)
  \/ \E t \in Threads :
       \/ Validate(t) \/ GetResult(t) \/ ExecuteAndWrite(t) \/ WriteResult(t)
       \/ \E slow \in BOOLEAN : Choose(t, slow)
       \/ Reorg(t) \/ SetNewHead(t)
  \/ \E b \in env.final : Commit(b)
  \/ \E n \in Heights : SetHead(n)
  \/ Rewind \/ Delete \/ Reload
  \/ Crash \/ Stop \/ Restart

Spec == Init /\ [][Next]_vars

-----------------------------------------------------------------------------
(* Properties *)

\* The head is stored and up to it the canonical numbers are its own ancestors, in
\* every state a crash could leave, in the middle of a reorganisation too.  Not so when
\* InsertBlock, which takes no mutex for pruned ancestors, runs beside InsertChain, nor
\* when SetHead follows a crash repair.
CanonicalChain ==
  disk.head \in disk.blocks /\ \A n \in 0 .. Number[disk.head] : disk.canon[n] = AncestorAt(disk.head, n)

\* While nobody is writing, the current block has its state, so that the next
\* block can be executed, the pool can read balances and calls can be served.
HeadHasState == chain.running /\ lock = NoThread => HasBlockAndFullState(chain.current)

\* reorg: "Ensure BRDPoS engine committed block will be not reverted".  A block
\* that the engine committed and that is canonical stays canonical.
CommittedStays ==
  [][\A b \in env.final :
       chain.committed = b /\ disk.canon[Number[b]] = b => disk'.canon[Number[b]] = b]_vars

\* The same, but for a block that the engine commits while a reorganisation that has already
\* asked for the latest committed block is writing: the engine does not take the chain's mutex.
\* No other step takes a committed block off the canonical chain, neither the head write of a block
\* that extends the chain nor a later reorganisation from or to any branch.
CheckedCommittedStays ==
  [][\A b \in env.final :
       /\ chain.committed = b /\ disk.canon[Number[b]] = b
       /\ \A t \in Threads : pc[t].stage = "reorg" => pc[t].latest = b
       => disk'.canon[Number[b]] = b]_vars

=============================================================================
