------------------------------- MODULE MCMenus -------------------------------
(* Menus for TLC: two units, one of them configured under a second name as     *)
(* well.  The messages of the chat are interchangeable.                        *)
EXTENDS Menus, TLC

MCUnitOf == <<1, 2, 1>>

Symmetry == Permutations(Messages)
=============================================================================
