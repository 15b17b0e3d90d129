----------------------------- MODULE MCBuyerView -----------------------------
(***************************************************************************)
(* Small instances of BuyerView for TLC.  Every actor kind has one or two  *)
(* members, which are interchangeable.                                     *)
(***************************************************************************)
EXTENDS BuyerView, TLC

Interchangeable == Permutations(Crons) \cup Permutations(Workers)
=============================================================================
