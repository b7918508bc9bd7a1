--------------------------- MODULE MCInventoryPage ---------------------------
(***************************************************************************)
(* Finite instances of InventoryPage.                                      *)
(***************************************************************************)
EXTENDS InventoryPage, TLC
CONSTANTS o1
=============================================================================
