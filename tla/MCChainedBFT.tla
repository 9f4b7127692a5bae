---------------------------- MODULE MCChainedBFT ----------------------------
\* Small instances of ChainedBFT.
EXTENDS ChainedBFT, TLC

\* The rule-following masternodes are interchangeable: nothing in ChainedBFT
\* depends on who proposes.
HonestSymmetry == Permutations(Honest)
=============================================================================
