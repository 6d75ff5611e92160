---------------------------- MODULE MCTokenCache ----------------------------
(***************************************************************************)
(* Finite instances of TokenCache for TLC: two drivers that recognise      *)
(* different tokens, the first of them listed first.                       *)
(***************************************************************************)
EXTENDS TokenCache, TLC

CONSTANTS t1, t2, l1, l2

MCSupports == (l1 :> {t1}) @@ (l2 :> {t1, t2})
MCRank == (l1 :> 1) @@ (l2 :> 2)
=============================================================================
