------------------------ MODULE InventoryRefinement ------------------------
(***************************************************************************)
(* The transactions of Inventory implement the atomic contract of          *)
(* StockLedger: a commit is one recorded entry or one change of a master,  *)
(* and every other statement is invisible.                                 *)
(***************************************************************************)
EXTENDS Inventory

CONSTANT NoKey  \* what an entry that is no reversal reverses
ASSUME NoKeyAssumption == NoKey \notin Keys

EntryOf(op) ==
    [key |-> op.key, item |-> op.item, delta |-> op.delta,
     reverses |-> IF op.kind = "REVERSAL" THEN ledger[op.target].key ELSE NoKey]

Contract == INSTANCE StockLedger WITH
    stock <- [i \in Items |-> [l \in Locations |-> OnHand(i, l)]],
    entries <- {EntryOf(ledger[n]) : n \in DOMAIN ledger},
    item <- [i \in Items |-> [status |-> items[i].status, uom |-> items[i].uom]],
    location <- [l \in Locations |-> locations[l].status]

(* However the transactions interleave, fail or are lost, the users of the *)
(* inventory see a ledger that obeys the contract.                         *)
ImplementsStockLedger == Contract!Spec
=============================================================================
