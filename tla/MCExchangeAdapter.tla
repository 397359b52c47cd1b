-------------------------- MODULE MCExchangeAdapter --------------------------
(***************************************************************************)
(* An account of two coins, so that two orders can be open at once.        *)
(***************************************************************************)
EXTENDS ExchangeAdapter, TLC

CONSTANTS o1, o2

Interchangeable == Permutations(Orders)
=============================================================================
