------------------------------- MODULE MCMenus -------------------------------
(* Instances of Menus for TLC: one menu of one script. *)
EXTENDS Menus, TLC

CONSTANTS m1, p1

OneScript == m1 :> p1
=============================================================================
