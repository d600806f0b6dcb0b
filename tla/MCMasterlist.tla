---------------------------- MODULE MCMasterlist ----------------------------
(***************************************************************************)
(* Model-checking instance of Masterlist: history c0 <- c1 <- c2 with a    *)
(* fork c1 <- c3, and an unrelated root x0.  c0 and c3 parse; c1, c2 and   *)
(* x0 make Load throw.                                                     *)
(***************************************************************************)
EXTENDS Masterlist, TLC

CONSTANTS c0, c1, c2, c3, x0

MCCommits == {c0, c1, c2, c3, x0}
MCParent == c0 :> NoCommit @@ c1 :> c0 @@ c2 :> c1 @@ c3 :> c1 @@ x0 :> NoCommit
MCParses == {c0, c3}

=============================================================================
