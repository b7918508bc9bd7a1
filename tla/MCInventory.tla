---------------------------- MODULE MCInventory ----------------------------
(***************************************************************************)
(* Finite instances of Inventory: which bodies each request may carry.     *)
(***************************************************************************)
EXTENDS InventoryRefinement, TLC

CONSTANTS i1, i2, k1, k2, k3, k4, ann, bob, ea, kg, r1, r2, r3, r4

Filler == [kind |-> "STOCK_RECEIPT", actor |-> ann, key |-> k1, item |-> i1,
           loc |-> 1, dest |-> 1, qty |-> 0, unit |-> NoUnit, target |-> 0, seen |-> 0]

Post(kind, key, loc, qty) ==
    [Filler EXCEPT !.kind = kind, !.key = key, !.loc = loc, !.qty = qty]
Transfer(key, from, to, qty) ==
    [Post("TRANSFER", key, from, qty) EXCEPT !.dest = to]
Reverse(key, n) == [Filler EXCEPT !.kind = "REVERSAL", !.key = key, !.target = n]
OnItem(kind, unit, seen) ==
    [Filler EXCEPT !.kind = kind, !.unit = unit, !.seen = seen]
OnLocation(kind, loc, seen) ==
    [Filler EXCEPT !.kind = kind, !.loc = loc, !.seen = seen]
By(actor, m) == [m EXCEPT !.actor = actor]

(* All combinations of one body per request.                               *)
Four(A, B, C, D) ==
    {(r1 :> a) @@ (r2 :> b) @@ (r3 :> c) @@ (r4 :> d) : a \in A, b \in B, c \in C, d \in D}

(* Stock races: outbound writers, transfers in both directions and two     *)
(* reversals compete for what one opening balance brought in.              *)
Opening == {Post("OPENING_BALANCE", k1, 1, 2)}
StockRaces ==
         Four(Opening,
              {Post("STOCK_ISSUE", k2, 1, 2), Transfer(k2, 1, 2, 2)},
              {Post("ADJUSTMENT_OUT", k3, 1, 1), Transfer(k3, 2, 1, 1),
               Post("OPENING_BALANCE", k3, 1, 1)},
              {Reverse(k4, 1), Reverse(k4, 2), Post("ADJUSTMENT_IN", k4, 2, 1)})
    \cup Four(Opening, {Transfer(k2, 1, 2, 1)}, {Reverse(k3, 1), Reverse(k3, 2)},
              {Reverse(k4, 2), Reverse(k4, 3)})
    \cup Four(Opening, {Transfer(k2, 1, 1, 1)}, {Post("STOCK_RECEIPT", k3, 1, 0)},
              {Reverse(k4, 3)})

(* Lock order: transfers of two items in opposite directions over the same *)
(* two locations, with a retry, a reversal or an archive in between, or    *)
(* while the locations themselves are being created.                       *)
Of(item, m) == [m EXCEPT !.item = item]
LockOrder ==
         Four({Post("OPENING_BALANCE", k1, 1, 1)},
              {Transfer(k2, 1, 2, 1)},
              {Of(i2, Transfer(k3, 2, 1, 1))},
              {Transfer(k2, 1, 2, 1), Reverse(k4, 1), Reverse(k4, 2),
               OnLocation("ARCHIVE_LOCATION", 2, 1), OnItem("ARCHIVE_ITEM", NoUnit, 1)})
    \cup Four({OnLocation("CREATE_LOCATION", 1, 0)},
              {Transfer(k2, 1, 2, 1)},
              {Of(i2, Transfer(k3, 2, 1, 1))},
              {Post("STOCK_RECEIPT", k4, 2, 1), OnLocation("CREATE_LOCATION", 2, 0)})

(* Retries: one key is sent again with the same intent, another intent or  *)
(* by another actor, for a posting and for a reversal.                     *)
Retries ==
    Four({Post("STOCK_RECEIPT", k1, 1, 1)},
         {Post("STOCK_RECEIPT", k1, 1, 1), By(bob, Post("STOCK_RECEIPT", k1, 1, 1)),
          Post("STOCK_RECEIPT", k1, 1, 2), Transfer(k1, 1, 2, 1)},
         {Reverse(k2, 1), Reverse(k1, 1)},
         {Reverse(k2, 1), Reverse(k3, 1), By(bob, Reverse(k2, 1)),
          Post("STOCK_RECEIPT", k1, 1, 1)})

Stock == StockRaces \cup Retries \cup LockOrder

(* Master data races: units, archives and restores against first movements *)
(* and against stock that leaves and returns.                              *)
MasterRaces ==
         Four({Post("STOCK_RECEIPT", k1, 1, 1)},
              {Post("STOCK_ISSUE", k2, 1, 1), Transfer(k2, 1, 2, 1), Reverse(k2, 1)},
              {OnItem("UPDATE_ITEM", u, 1) : u \in {kg, NoUnit}}
              \cup {OnItem("ARCHIVE_ITEM", NoUnit, 1)},
              {OnItem("ARCHIVE_ITEM", NoUnit, 1), OnItem("RESTORE_ITEM", NoUnit, 2)}
              \cup {OnLocation("ARCHIVE_LOCATION", l, 1) : l \in 1..2})
    \cup Four({Post("STOCK_RECEIPT", k1, 1, 1)},
              {OnItem("UPDATE_ITEM", ea, 1), OnItem("CREATE_ITEM", ea, 0)},
              {OnLocation("CREATE_LOCATION", 1, 0), OnLocation("ARCHIVE_LOCATION", 1, 1)},
              {OnLocation("RESTORE_LOCATION", 1, 2), OnLocation("UPDATE_LOCATION", 1, 1),
               OnItem("DESCRIBE_ITEM", NoUnit, 1)})

Active == {CreatedItem(ea)}
AnyItem == {AbsentItem, CreatedItem(ea), CreatedItem(NoUnit)}
AnyLocation == {AbsentLocation, CreatedLocation}
=============================================================================
