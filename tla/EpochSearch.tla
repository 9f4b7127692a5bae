----------------------------- MODULE EpochSearch -----------------------------
(***************************************************************************)
(* Finding the block that opens an epoch (engine_v2/epochSwitch.go and      *)
(* GetBlockByEpochNumber in engine_v2/utils.go).  An epoch is a range of    *)
(* Epoch rounds; its switch block is the first block of a branch with a     *)
(* round in the range, and rounds that time out leave no block behind.      *)
(*                                                                          *)
(* A block is named by its round, so at most one block has each round;     *)
(* round 0 is the last v1 block.  The cache round2epochBlockInfo is then    *)
(* the set of the rounds it holds.  The cache of epoch switch infos holds   *)
(* what the walk over the parents returns, so a hit only shortens the walk: *)
(* whether one happens is left open.                                        *)
(***************************************************************************)
EXTENDS Integers, FiniteSets, FiniteSetsExt, Sequences, SequencesExt, TLC

CONSTANTS
  Epoch,         \* rounds per epoch
  SwitchBlock,   \* number of the last v1 block
  MaxRound,      \* bound on the rounds
  Forks,         \* TRUE when a block need not extend the head
  Width          \* bits of a block number (64 in the code)

VARIABLES
  parent,                \* the parent of each imported v2 block
  head,                  \* the current header
  round2epochBlockInfo   \* the cached epoch switch blocks

vars == << parent, head, round2epochBlockInfo >>

None == -1
SwitchEpoch == SwitchBlock \div Epoch
Blocks == {0} \cup DOMAIN parent

-----------------------------------------------------------------------------
(* Headers *)

\* The blocks from b down to the last v1 block, b first.
Branch(b) ==
  LET down[a \in Blocks] == IF a = 0 THEN << 0 >> ELSE << a >> \o down[parent[a]]
  IN  down[b]

Number(b) == SwitchBlock + Len(Branch(b)) - 1

\* GetHeaderByNumber: the block of the canonical chain with a number.
HeaderByNumber(n) == Branch(head)[Number(head) - n + 1]
Canonical == ToSet(Branch(head))

EpochNum(b) == SwitchEpoch + b \div Epoch
EpochStartRound(b) == b - (b % Epoch)

\* IsEpochSwitch; the last v1 block and the first v2 block always are.
IsEpochSwitch(b) == b = 0 \/ parent[b] = 0 \/ parent[b] < EpochStartRound(b)

\* What IsEpochSwitch adds to the cache.
Caches(b) == IF b # 0 /\ parent[b] # 0 /\ parent[b] < EpochStartRound(b) THEN {b} ELSE {}

\* getEpochSwitchInfo: the epoch switch block of the epoch of b.
EpochSwitchBlock(b) ==
  LET branch == Branch(b)
  IN  branch[Min({i \in 1 .. Len(branch) : IsEpochSwitch(branch[i])})]

-----------------------------------------------------------------------------
(* GetEpochSwitchInfoBetween *)

\* The loop from end back to begin.  Info of the last v1 block has no parent:
\* the loop breaks there without adding it.
SwitchesBetween(begin, end) ==
  LET back[b \in Blocks] ==
        LET s == EpochSwitchBlock(b)
        IN  IF s = 0 THEN << >>
            ELSE (IF Number(s) > Number(begin) THEN back[parent[s]] ELSE << >>)
                 \o (IF Number(s) >= Number(begin) THEN << s >> ELSE << >>)
  IN  IF Number(end) > Number(begin) THEN back[end] ELSE << >>

-----------------------------------------------------------------------------
(* GetBlockByEpochNumber *)

\* getBlockByEpochNumberInCache: a single hit is returned as it is, several
\* are told apart by the canonical chain.
InCache(estRound) ==
  LET hits == round2epochBlockInfo \cap estRound .. estRound + Epoch - 1
  IN  IF Cardinality(hits) = 1 THEN CHOOSE b \in hits : TRUE
      ELSE IF hits \cap Canonical = {} THEN None ELSE Min(hits \cap Canonical)

\* Mutant: the upper end is moved as if it were still a candidate.
BinarySearchInclusive(target, first, last) ==
  LET step[start \in Nat, end \in Nat] ==
        IF start >= end THEN [block |-> None, seen |-> {}]
        ELSE LET mid == (start + end) \div 2
                 b == HeaderByNumber(mid)
                 estStart == (mid - (b % Epoch)) % 2^Width
                 rest == IF EpochNum(b) = target /\ IsEpochSwitch(b) THEN [block |-> b, seen |-> {}]
                         ELSE IF EpochNum(b) = target THEN step[Max({start, estStart}), mid]
                         ELSE IF EpochNum(b) > target THEN step[start, mid - 1]
                         ELSE IF mid = start THEN [block |-> None, seen |-> {}]
                         ELSE step[mid, end]
             IN  [rest EXCEPT !.seen = @ \cup {b}]
  IN  step[first, last]

\* binarySearchBlockByEpochNumber over the canonical numbers [start, end);
\* result is the block found and the blocks IsEpochSwitch was asked about.
\* A number is Width bits wide: the estimate wraps below zero.
BinarySearch(target, first, last) ==
  LET step[start \in Nat, end \in Nat] ==
        IF start >= end THEN [block |-> None, seen |-> {}]
        ELSE LET mid == (start + end) \div 2
                 b == HeaderByNumber(mid)
                 estStart == (mid - (b % Epoch)) % 2^Width
                 rest == IF EpochNum(b) = target /\ IsEpochSwitch(b) THEN [block |-> b, seen |-> {}]
                         ELSE IF EpochNum(b) = target THEN step[Max({start, estStart}), mid]
                         ELSE IF EpochNum(b) > target THEN step[start, mid]
                         ELSE IF mid = start THEN [block |-> None, seen |-> {}]
                         ELSE step[mid, end]
             IN  [rest EXCEPT !.seen = @ \cup {b}]
  IN  step[first, last]

CloseEpochNum == 2

\* GetBlockByEpochNumber: the block, and the blocks IsEpochSwitch was asked
\* about on the way when no info was cached.
BlockByEpochNumber(target) ==
  LET current == EpochSwitchBlock(head)
      diff == EpochNum(current) - target
      walked == ToSet(Branch(head))
      cached == InCache((target - SwitchEpoch) * Epoch)
      est == Max({Number(current) - Epoch * diff, SwitchBlock})
      near == {s \in ToSet(SwitchesBetween(HeaderByNumber(est), head)) : EpochNum(s) = target}
  IN  IF diff = 0 THEN [block |-> current, seen |-> walked]
      ELSE IF cached # None THEN [block |-> cached, seen |-> walked]
      ELSE IF diff <= CloseEpochNum /\ near # {} THEN [block |-> Min(near), seen |-> walked]
      ELSE BinarySearch(target, est, Number(current))

Targets == SwitchEpoch .. EpochNum(EpochSwitchBlock(head))

-----------------------------------------------------------------------------
(* The node *)

Init ==
  /\ parent = << >>
  /\ head = 0
  /\ round2epochBlockInfo = {}

\* A header is verified (IsEpochSwitch), stored, and becomes the head when
\* its chain is the longer one: every v2 block has difficulty 1.
Import(b, p) ==
  /\ b \notin Blocks /\ p \in Blocks /\ b > p
  /\ Forks \/ p = head
  /\ parent' = (b :> p) @@ parent
  /\ head' = IF Number(p) + 1 > Number(head) THEN b ELSE head
  /\ round2epochBlockInfo' = round2epochBlockInfo
       \cup (IF p # 0 /\ p < EpochStartRound(b) THEN {b} ELSE {})

\* A search for an epoch fills the cache with some of the blocks it looked
\* at: all of them when no epoch switch info is cached.
Search(target) ==
  /\ \E found \in SUBSET UNION {Caches(b) : b \in BlockByEpochNumber(target).seen} :
       round2epochBlockInfo' = round2epochBlockInfo \cup found
  /\ UNCHANGED << parent, head >>

\* The least recently used entry leaves the cache, or the node restarts.
Evict(b) ==
  /\ round2epochBlockInfo' = round2epochBlockInfo \ {b}
  /\ UNCHANGED << parent, head >>

Next ==
  \/ \E b \in 1 .. MaxRound, p \in Blocks : Import(b, p)
  \/ \E target \in Targets : Search(target)
  \/ \E b \in round2epochBlockInfo : Evict(b)

Spec == Init /\ [][Next]_vars

-----------------------------------------------------------------------------
(* Properties *)

OpensEpoch(b, target) == b # 0 /\ IsEpochSwitch(b) /\ EpochNum(b) = target

\* GetBlockByEpochNumber answers with the canonical block that opened the
\* epoch whenever there is one, whatever the cache holds and whichever of the
\* early answer, the walk and the binary search gives it.  Needs SwitchBlock >= Epoch:
\* below it the lower bound of the search wraps.  Needs a chain without Forks: the
\* cache keeps the switch block of a branch that lost.
SearchFinds ==
  \A target \in Targets : \A b \in Canonical :
    OpensEpoch(b, target) => BlockByEpochNumber(target).block = b

=============================================================================
