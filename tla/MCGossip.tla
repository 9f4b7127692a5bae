------------------------------ MODULE MCGossip ------------------------------
(***************************************************************************)
(* Instances of Gossip for TLC.                                             *)
(***************************************************************************)
EXTENDS Gossip

CONSTANTS m1, m2

TwoMasternodes == << m1, m2 >>
=============================================================================
