------------------------------ MODULE MCLauncher ----------------------------
(***************************************************************************)
(* A small instance of Launcher for TLC: an upgrade while a proxy of the   *)
(* old version is about.                                                   *)
(***************************************************************************)
EXTENDS Launcher

CONSTANTS l1, l2, l3

Upgraded == [l \in Launchers |-> IF l = l3 THEN "new" ELSE "old"]
=============================================================================
