----------------------------- MODULE Masternodes -----------------------------
(***************************************************************************)
(* Where the masternodes of an epoch come from.  When a gap block (Gap      *)
(* blocks before a multiple of Epoch) becomes canonical, the node stores a  *)
(* snapshot of the candidates in its state (UpdateM1).  The first block of  *)
(* an epoch carries the list its proposer computed from the snapshot of an  *)
(* earlier gap block, and every node computes the list again to verify it.  *)
(* Both look the gap block up by its number in their own canonical chain,   *)
(* which need not be the branch the new block extends.                      *)
(*                                                                          *)
(* A list of candidates is named by the gap block it was read from.  The    *)
(* first one is that of the last v1 block.  Penalties are a function of the *)
(* branch and the candidates and are left out.                              *)
(***************************************************************************)
EXTENDS Blocks, FiniteSets

CONSTANTS
  Nodes, Nil,
  Epoch, Gap,    \* the engine's configuration
  Depth,         \* how many blocks a branch may take from the canonical chain
  Environments   \* the nodes that run, with bounds on rounds, proposals and crashes

ASSUME ConfigAssumption ==
  /\ Epoch \in Nat \ {0}
  /\ Gap \in 1 .. Epoch
  /\ Depth \in Nat
  /\ \A e \in Environments :
       e.nodes \subseteq Nodes /\ e.rounds \subseteq Rounds /\ e.perRound \in Nat /\ e.crashes \in Nat

ASSUME NilAssumption == Nil \notin Block

VARIABLES
  validators,  \* the list in the header of each proposed block, or Nil
  stored,      \* the blocks in each node's database
  states,      \* the blocks whose state the node has
  head,        \* CurrentBlock and CurrentHeader
  canon,       \* the canonical block of each number
  todo,        \* the blocks an import still has to make the head
  updating,    \* the head was written and UpdateM1 has not run yet
  snapshots,   \* the gap blocks with a stored snapshot
  standby,     \* cached epoch switch infos: the gap block of each switch block
  crashes,     \* crashes so far
  env          \* the nodes that run, the rounds in which blocks are proposed, how many
               \* in each, and the bound on crashes

vars == << validators, stored, states, head, canon, todo, updating, snapshots, standby, crashes, env >>

Proposed == DOMAIN validators

\* A map with one more entry.
With(f, k, v) == [x \in DOMAIN f \cup {k} |-> IF x = k THEN v ELSE f[x]]

\* The largest number of a set.
Largest(S) == CHOOSE k \in S : \A j \in S : k >= j

\* A block and its ancestors, and the number of the last one it shares with another.
Branch(b) == {AncestorAt(b, k) : k \in 0 .. Number(b)}
CommonNumber(a, b) == Largest({k \in 0 .. Number(a) : k <= Number(b) /\ AncestorAt(a, k) = AncestorAt(b, k)})

-----------------------------------------------------------------------------
(* Epoch switches and snapshots *)

EpochStartRound(round) == round - (round % Epoch)

\* isEpochSwitchAtRound, asked by the miner of a round and a parent.
IsEpochSwitchAtRound(round, p) ==
  p = SwitchBlock \/ (round > RoundOf(p) /\ RoundOf(p) < EpochStartRound(round))

\* IsEpochSwitch of a block.
IsEpochSwitch(b) ==
  \/ b = SwitchBlock \/ ParentOf(b) = SwitchBlock
  \/ RoundOf(ParentOf(b)) < EpochStartRound(RoundOf(b))

\* Mutant of GapNumber: the snapshot of the last gap block below the number.
LatestGapNumber(number) ==
  LET gaps == {k \in 1 .. number - 1 : k % Epoch = Epoch - Gap}
  IN  IF gaps = {} THEN 0 ELSE Largest(gaps)

\* The number of the gap block getSnapshot uses for a block number.
GapNumber(number) ==
  LET first == number - (number % Epoch)
  IN  IF first < Gap THEN 0 ELSE first - Gap

IsGapBlock(b) == Number(b) % Epoch = Epoch - Gap

\* getSnapshot: the gap block in the node's canonical chain, when its
\* snapshot is stored.
Snapshot(n, number) ==
  LET k == GapNumber(number)
  IN  IF k \in DOMAIN canon[n] /\ canon[n][k] \in snapshots[n] THEN canon[n][k] ELSE Nil

\* The gap block in the block's own branch.
GapOf(b) == AncestorAt(b, GapNumber(Number(b)))

-----------------------------------------------------------------------------
(* Importing *)

Idle(n) == todo[n] = << >> /\ ~updating[n]

\* The head of a node once its import is over.
Target(n) == IF todo[n] = << >> THEN head[n] ELSE todo[n][Len(todo[n])]

\* The head writes of an import: the new branch from the common ancestor and
\* the block again after a reorganisation, the block alone otherwise.
HeadWrites(n, b, p) ==
  LET common == CommonNumber(p, head[n])
      new == [i \in 1 .. Number(p) - common |-> AncestorAt(p, common + i)]
  IN  IF p = head[n] THEN << b >> ELSE new \o << b, b >>

\* WriteBlockWithState: the block is stored; the longer chain becomes canonical.
Write(n, b, p) ==
  /\ stored' = [stored EXCEPT ![n] = @ \cup {b}]
  /\ states' = [states EXCEPT ![n] = @ \cup {b}]
  /\ todo' = [todo EXCEPT ![n] = IF Number(b) > Number(head[n]) THEN HeadWrites(n, b, p) ELSE << >>]
  /\ UNCHANGED << head, canon, updating, snapshots, crashes, env >>

\* Blocks are built and certified close to every canonical chain.
Shallow(p) == \A n \in env.nodes : Number(Target(n)) - Depth <= CommonNumber(p, Target(n))

\* Prepare and the miner's own import: the parent is the block of the highest
\* certificate, which the node has but need not be its head.
Propose(n, p, round, body) ==
  LET b == Child(p, round, body)
      switch == IsEpochSwitchAtRound(round, p)
      snapshot == Snapshot(n, Number(p) + 1)
  IN  /\ Idle(n)
      /\ b \notin Proposed /\ round > RoundOf(p) /\ Shallow(p)
      /\ Cardinality({c \in Proposed : RoundOf(c) = round}) < env.perRound
      /\ switch => snapshot # Nil
      /\ validators' = With(validators, b, IF switch THEN snapshot ELSE Nil)
      /\ Write(n, b, p)
      /\ UNCHANGED standby

\* verifyHeader, as far as the masternode list goes.
Verified(n, b) ==
  IF IsEpochSwitch(b)
  THEN Snapshot(n, Number(b)) # Nil /\ validators[b] = Snapshot(n, Number(b))
  ELSE validators[b] = Nil

\* InsertChain of a block: one the node does not have, or has without state.
Import(n, b) ==
  /\ Idle(n)
  /\ ParentOf(b) \in states[n]
  /\ b \notin stored[n] \/ Number(b) > Number(head[n])
  /\ Verified(n, b)
  /\ Write(n, b, ParentOf(b))
  /\ UNCHANGED << validators, standby >>

\* Mutant of WriteHead: only the last block of an import updates the snapshot.
WriteHeadOfLast(n) ==
  /\ todo[n] # << >> /\ ~updating[n]
  /\ LET b == Head(todo[n])
     IN  /\ head' = [head EXCEPT ![n] = b]
         /\ canon' = [canon EXCEPT ![n] = With(@, Number(b), b)]
         /\ updating' = [updating EXCEPT ![n] = IsGapBlock(b) /\ Len(todo[n]) = 1]
  /\ todo' = [todo EXCEPT ![n] = Tail(@)]
  /\ UNCHANGED << validators, stored, states, snapshots, standby, crashes, env >>

\* writeHeadBlock: one batch, then the snapshot of a gap block is due.
WriteHead(n) ==
  /\ todo[n] # << >> /\ ~updating[n]
  /\ LET b == Head(todo[n])
     IN  /\ head' = [head EXCEPT ![n] = b]
         /\ canon' = [canon EXCEPT ![n] = With(@, Number(b), b)]
         /\ updating' = [updating EXCEPT ![n] = IsGapBlock(b)]
  /\ todo' = [todo EXCEPT ![n] = Tail(@)]
  /\ UNCHANGED << validators, stored, states, snapshots, standby, crashes, env >>

\* UpdateM1 and UpdateMasternodes: the snapshot is stored under the hash of
\* the current header.
UpdateM1(n) ==
  /\ updating[n]
  /\ snapshots' = [snapshots EXCEPT ![n] = @ \cup {head[n]}]
  /\ updating' = [updating EXCEPT ![n] = FALSE]
  /\ UNCHANGED << validators, stored, states, head, canon, todo, standby, crashes, env >>

-----------------------------------------------------------------------------
(* Reading and restarting *)

\* The last epoch switch block of a branch.
SwitchBlockOf(b) ==
  AncestorAt(b, Largest({k \in 0 .. Number(b) : IsEpochSwitch(AncestorAt(b, k))}))

\* getEpochSwitchInfo of any block the node has, in the API, the vote or the
\* timeout handlers: an info is computed once and kept.
GetEpochSwitchInfo(n, b) ==
  LET s == SwitchBlockOf(b)
  IN  /\ s # SwitchBlock /\ s \notin DOMAIN standby[n]
      /\ Snapshot(n, Number(s)) # Nil
      /\ standby' = [standby EXCEPT ![n] = With(@, s, Snapshot(n, Number(s)))]
      /\ UNCHANGED << validators, stored, states, head, canon, todo, updating, snapshots, crashes, env >>

\* The process ends between two writes and starts again: repair goes back to an
\* earlier block, because the newest states were only in memory.
Crash(n) ==
  /\ crashes < env.crashes
  /\ crashes' = crashes + 1
  /\ \E a \in Branch(head[n]) :
       /\ a = head[n] => a = SwitchBlock
       /\ head' = [head EXCEPT ![n] = a]
       /\ states' = [states EXCEPT ![n] = Branch(a)]
  /\ todo' = [todo EXCEPT ![n] = << >>]
  /\ updating' = [updating EXCEPT ![n] = FALSE]
  /\ standby' = [standby EXCEPT ![n] = << >>]
  /\ UNCHANGED << validators, stored, canon, snapshots, env >>

-----------------------------------------------------------------------------
Init ==
  /\ env \in Environments
  /\ validators = << >>
  /\ stored = [n \in env.nodes |-> {SwitchBlock}]
  /\ states = [n \in env.nodes |-> {SwitchBlock}]
  /\ head = [n \in env.nodes |-> SwitchBlock]
  /\ canon = [n \in env.nodes |-> [k \in {0} |-> SwitchBlock]]
  /\ todo = [n \in env.nodes |-> << >>]
  /\ updating = [n \in env.nodes |-> FALSE]
  /\ snapshots = [n \in env.nodes |-> {SwitchBlock}]
  /\ standby = [n \in env.nodes |-> << >>]
  /\ crashes = 0

Next ==
  \E n \in env.nodes :
    \/ \E p \in states[n], round \in env.rounds, body \in Bodies : Propose(n, p, round, body)
    \/ \E b \in Proposed : Import(n, b)
    \/ WriteHead(n)
    \/ UpdateM1(n)
    \/ \E b \in stored[n] : GetEpochSwitchInfo(n, b)
    \/ Crash(n)

Spec == Init /\ [][Next]_vars

-----------------------------------------------------------------------------
(* Properties *)

\* Nor does a node refuse the block of another for its masternode list: whatever
\* branch its own canonical chain is on, a block whose parent it has passes.
NoneRefused ==
  crashes = 0 =>
    \A n \in env.nodes, b \in Proposed : Idle(n) /\ ParentOf(b) \in states[n] => Verified(n, b)

\* When no import is under way, every gap block of the canonical chain has its
\* snapshot, also the ones that a reorganisation made canonical.  An archive node,
\* which writes every state at once and is not modelled here, can miss one after a crash.
GapBlocksHaveSnapshots ==
  \A n \in env.nodes : Idle(n) =>
    \A b \in Branch(head[n]) : IsGapBlock(b) => b \in snapshots[n]

\* And a cached epoch switch info stays right: its standby nodes come from the gap
\* block in the branch of the switch block, whatever was canonical when it
\* was computed.
CachedInfoRight ==
  crashes = 0 => \A n \in env.nodes : \A s \in DOMAIN standby[n] : standby[n][s] = GapOf(s)
=============================================================================
