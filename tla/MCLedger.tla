------------------------------ MODULE MCLedger ------------------------------
(***************************************************************************)
(* Instances of Ledger for TLC.                                            *)
(***************************************************************************)
EXTENDS Ledger, TLC

Symmetric == Permutations(Tun) \cup Permutations(Slot)
=============================================================================
