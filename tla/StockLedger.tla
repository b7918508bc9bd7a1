---------------------------- MODULE StockLedger ----------------------------
(***************************************************************************)
(* What the inventory promises its users, without transactions, locks or   *)
(* statements: stock per item and location that changes only by recorded   *)
(* entries, each entry whole, under a key of its own.  Inventory           *)
(* implements it, every commit being one step (InventoryRefinement).       *)
(* docs/inventory-ledger.md describes this contract; the conditions below  *)
(* are those of the service.                                               *)
(***************************************************************************)
EXTENDS Integers

CONSTANTS Items, Locations, NoUnit, NoKey

VARIABLES
    stock,      \* on-hand of every item at every location
    entries,    \* what has been recorded, never changed or removed
    item,       \* status and base unit of every item
    location    \* status of every location

svars == <<stock, entries, item, location>>

Touched(e) == {l \in Locations : e.delta[l] # 0}

Moved(i) == \E e \in entries : e.item = i

Init ==
    /\ stock = [i \in Items |-> [l \in Locations |-> 0]]
    /\ entries = {}
    /\ \A i \in Items : item[i].status \in {"ABSENT", "ACTIVE"}
    /\ \A l \in Locations : location[l] \in {"ABSENT", "ACTIVE"}

(* Recording an entry changes the stock by exactly its movements, leaves   *)
(* no shortage, and happens only under a new key and on active masters.    *)
Records(e) ==
    /\ entries' = entries \cup {e}
    /\ \A f \in entries : f.key # e.key
    /\ item[e.item].status = "ACTIVE"
    /\ \A l \in Touched(e) : location[l] = "ACTIVE"
    /\ Touched(e) # {}
    /\ stock' = [stock EXCEPT ![e.item] = [l \in Locations |-> @[l] + e.delta[l]]]
    /\ \A l \in Touched(e) : stock'[e.item][l] >= 0
    /\ UNCHANGED <<item, location>>

(* A posting moves one location, or two by opposite amounts.               *)
PostingShape(e) ==
    \/ \E l \in Locations : Touched(e) = {l}
    \/ \E a, b \in Locations : a # b /\ Touched(e) = {a, b} /\ e.delta[a] = -e.delta[b]

Post ==
    \E e \in entries' \ entries :
        /\ Records(e)
        /\ e.reverses = NoKey
        /\ PostingShape(e)
        /\ item[e.item].uom # NoUnit

(* A reversal cancels one posting that nothing has cancelled before.       *)
Reverse ==
    \E e \in entries' \ entries, o \in entries :
        /\ Records(e)
        /\ e.reverses = o.key /\ o.reverses = NoKey
        /\ \A f \in entries : f.reverses # o.key
        /\ e.item = o.item
        /\ \A l \in Locations : e.delta[l] = -o.delta[l]

(* Masters come into being, are archived when empty, restored at any time; *)
(* an item's unit changes only before its first movement.                  *)
ChangeItem ==
    \E i \in Items :
        /\ item' = [item EXCEPT ![i] = item'[i]]
        /\ item'[i].status # "ABSENT"
        /\ item'[i].status = "ARCHIVED" => \A l \in Locations : stock[i][l] = 0
        /\ item'[i].uom # item[i].uom => ~Moved(i)
        /\ UNCHANGED <<stock, entries, location>>

ChangeLocation ==
    \E l \in Locations :
        /\ location' = [location EXCEPT ![l] = location'[l]]
        /\ location'[l] # "ABSENT"
        /\ location'[l] = "ARCHIVED" => \A i \in Items : stock[i][l] = 0
        /\ UNCHANGED <<stock, entries, item>>

Next == Post \/ Reverse \/ ChangeItem \/ ChangeLocation

Spec == Init /\ [][Next]_svars
=============================================================================
