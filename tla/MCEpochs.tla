------------------------------ MODULE MCEpochs ------------------------------
(***************************************************************************)
(* Masternodes and EpochSearch for TLC.  The two share no variable: the     *)
(* initial state says which of them runs.                                   *)
(***************************************************************************)
EXTENDS Masternodes, TLC

CONSTANTS n1, n2, body

Pair == [nodes |-> {n1, n2}, rounds |-> {1, 2, 4, 6}, perRound |-> 1, crashes |-> 0]
Forking == [nodes |-> {n1}, rounds |-> {1, 2, 4, 5, 6}, perRound |-> 1, crashes |-> 0]
Crashing == [nodes |-> {n1}, rounds |-> {1, 2, 4, 6}, perRound |-> 1, crashes |-> 2]
MCEnvironments == {Pair, Forking, Crashing}

NodeSymmetry == Permutations(Nodes)

VARIABLES
  running,                               \* "masternodes" or "search"
  parent, current, round2epochBlockInfo  \* the variables of EpochSearch

searchVars == << parent, current, round2epochBlockInfo >>

Search ==
  INSTANCE EpochSearch WITH
    Epoch <- 4, SwitchBlock <- 4, MaxRound <- 12, Forks <- FALSE, Width <- 16, head <- current

MCInit ==
  /\ Init /\ Search!Init
  /\ \/ running = "masternodes"
     \/ running = "search" /\ env = Pair

MCNext ==
  \/ running = "masternodes" /\ Next /\ UNCHANGED << running, searchVars >>
  \/ running = "search" /\ Search!Next /\ UNCHANGED << running, vars >>

MCSpec == MCInit /\ [][MCNext]_<< running, vars, searchVars >>

-----------------------------------------------------------------------------
\* GetBlockByEpochNumber finds the canonical block that opened an epoch.
SearchFinds == running = "search" => Search!SearchFinds

=============================================================================
