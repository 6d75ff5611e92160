--------------------------- MODULE MCTokenWatcher ---------------------------
(***************************************************************************)
(* Finite instances of TokenWatcher for TLC: one driver for two tokens.    *)
(***************************************************************************)
EXTENDS TokenWatcher, TLC

CONSTANTS l1

MCSupports == (l1 :> Tokens)
MCRank == (l1 :> 1)
=============================================================================
