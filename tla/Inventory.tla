----------------------------- MODULE Inventory -----------------------------
(***************************************************************************)
(* The inventory ledger of one organization: the service class Inventory   *)
(* (src/src/reconcile/persistence/inventory.py) running on the tables and  *)
(* triggers of migration 0007.  Every HTTP write is one database           *)
(* transaction; a step of this module is one SQL statement of one          *)
(* transaction, executed at PostgreSQL's READ COMMITTED level, so the      *)
(* statements of different transactions interleave freely and only the     *)
(* locks the code takes keep them apart.                                   *)
(*                                                                         *)
(* Abstracted: names, descriptions, notes, references, and the clock (the  *)
(* 422 for an operation dated in the future).  A location id is a natural  *)
(* number, because the code locks locations in the order of their ids; an  *)
(* operation's id is its position in the ledger.  The authorization that   *)
(* opens every transaction is not repeated here: it reads the membership   *)
(* once, before the first lock, and never again.                           *)
(***************************************************************************)
EXTENDS Integers, Sequences, FiniteSets, FiniteSetsExt

CONSTANTS
    Items,      \* item ids
    Locations,  \* location ids
    Keys,       \* idempotency keys the clients generate
    Actors,     \* users with POST_INVENTORY and MANAGE_INVENTORY_MASTER
    Units,      \* normalized base units
    NoUnit,     \* base_uom IS NULL
    Requests,   \* HTTP requests, each handled once by one server thread
    Loads,      \* the combinations of bodies the requests may carry
    StartItems,     \* items rows an earlier create request may have left
    StartLocations  \* inventory_locations rows, likewise

Inbound  == {"OPENING_BALANCE", "STOCK_RECEIPT", "ADJUSTMENT_IN"}
Outbound == {"STOCK_ISSUE", "ADJUSTMENT_OUT"}
Posting  == Inbound \cup Outbound \cup {"TRANSFER"}
ItemMaster     == {"DESCRIBE_ITEM", "UPDATE_ITEM", "ARCHIVE_ITEM", "RESTORE_ITEM"}
LocationMaster == {"UPDATE_LOCATION", "ARCHIVE_LOCATION", "RESTORE_LOCATION"}
Creation       == {"CREATE_ITEM", "CREATE_LOCATION"}
Kind == Posting \cup {"REVERSAL"} \cup ItemMaster \cup LocationMaster \cup Creation

(* PATCH of an item is UPDATE_ITEM when its body names base_uom, and       *)
(* DESCRIBE_ITEM when it does not.                                         *)
(* One uniform record for every body; the fields a kind does not carry     *)
(* hold a fixed filler.  seen is the expected_version of a master change,  *)
(* target the operation a reversal names.                                  *)
Request == [kind: Kind, actor: Actors, key: Keys, item: Items,
            loc: Locations, dest: Locations, qty: Int,
            unit: Units \cup {NoUnit}, target: Nat, seen: Nat]

(* The masters of one organization are finitely many rows.                 *)
ASSUME MastersAreFinite == IsFiniteSet(Items) /\ IsFiniteSet(Locations)
ASSUME LocationsAreOrdered == Locations \subseteq Nat
ASSUME UnitAssumption == NoUnit \notin Units
ASSUME LoadAssumption == Loads \subseteq [Requests -> Request]

VARIABLES
    items,      \* the items rows:     status, base_uom, version
    locations,  \* the inventory_locations rows: status, version
    ledger,     \* committed inventory_operations with their stock_movements
    request,    \* the body each request carries
    phase,      \* the next statement of each request's transaction
    locks,      \* the row and advisory locks each transaction holds
    found,      \* the locations its SELECT ... FOR UPDATE is to lock
    reply       \* the answer each finished request received

vars == <<items, locations, ledger, request, phase, locks, found, reply>>
masters == <<items, locations>>

Status == {"ABSENT", "ACTIVE", "ARCHIVED"}
ItemRow == [status: Status, uom: Units \cup {NoUnit}, version: Nat]
LocationRow == [status: Status, version: Nat]
(* What create_item and create_location leave, or nothing yet.             *)
AbsentItem == [status |-> "ABSENT", uom |-> NoUnit, version |-> 0]
CreatedItem(u) == [status |-> "ACTIVE", uom |-> u, version |-> 1]
AbsentLocation == [status |-> "ABSENT", version |-> 0]
CreatedLocation == [status |-> "ACTIVE", version |-> 1]
ASSUME StartAssumption ==
    /\ StartItems \subseteq {AbsentItem} \cup {CreatedItem(u) : u \in Units \cup {NoUnit}}
    /\ StartLocations \subseteq {AbsentLocation, CreatedLocation}

Movements == [Locations -> Int]
Operation == [kind: Posting \cup {"REVERSAL"}, key: Keys, by: Actors,
              intent: Request, item: Items, delta: Movements, target: Nat]
Phase == {"new", "key", "lookup", "original", "item", "locations", "checks",
          "insert", "commit", "apply", "done"}
Reply == {"none", "ok", "replayed", "rejected", "error", "lost"}
Lock == ({"key"} \X Keys) \cup ({"item"} \X Items) \cup ({"location"} \X Locations)

TypeOK ==
    /\ items \in [Items -> ItemRow]
    /\ locations \in [Locations -> LocationRow]
    /\ ledger \in Seq(Operation)
    /\ request \in [Requests -> Request]
    /\ phase \in [Requests -> Phase]
    /\ locks \in [Requests -> SUBSET Lock]
    /\ found \in [Requests -> SUBSET Locations]
    /\ reply \in [Requests -> Reply]

-----------------------------------------------------------------------------
(* Derived balances: every one is a SUM over committed movement rows.      *)

Effect(op, i, l) == IF op.item = i THEN op.delta[l] ELSE 0

(* SELECT COALESCE(SUM(quantity_delta), 0) for one item and location.      *)
OnHandIn(led, i, l) ==
    LET sum[n \in 0..Len(led)] ==
            IF n = 0 THEN 0 ELSE sum[n - 1] + Effect(led[n], i, l)
    IN  sum[Len(led)]

OnHand(i, l) == OnHandIn(ledger, i, l)
ItemBalance(i) == MapThenSumSet(LAMBDA l : OnHand(i, l), Locations)
LocationBalance(l) == MapThenSumSet(LAMBDA i : OnHand(i, l), Items)

(* Broken variant: history taken for what is left of it.                   *)
HasMovement_IfStockLeft(i, l) == OnHand(i, l) # 0

HasMovement(i, l) ==
    \E n \in DOMAIN ledger : ledger[n].item = i /\ ledger[n].delta[l] # 0
ItemHasMovements(i) == \E l \in Locations : HasMovement(i, l)

-----------------------------------------------------------------------------
(* What a request asks for.                                                *)

(* The movement lines of a posting: the server owns the sign.              *)
PostedDelta(m) ==
    [l \in Locations |->
        (IF \/ m.kind \in Inbound /\ l = m.loc
            \/ m.kind = "TRANSFER" /\ l = m.dest THEN m.qty ELSE 0)
      - (IF m.kind \in Outbound \cup {"TRANSFER"} /\ l = m.loc THEN m.qty ELSE 0)]

(* The movement lines of a reversal: the exact inverse of the original.    *)
InverseDelta(op) == [l \in Locations |-> -op.delta[l]]

IsReversal(r) == request[r].kind = "REVERSAL"
Original(r) == ledger[request[r].target]

ItemOf(r) == IF IsReversal(r) THEN Original(r).item ELSE request[r].item
DeltaOf(r) == IF IsReversal(r) THEN InverseDelta(Original(r))
                               ELSE PostedDelta(request[r])

(* location_ids: what the transaction locks, in the order of their ids.    *)
LocationsOf(r) ==
    IF IsReversal(r) THEN {l \in Locations : Original(r).delta[l] # 0}
    ELSE IF request[r].kind = "TRANSFER" THEN {request[r].loc, request[r].dest}
    ELSE {request[r].loc}

(* The rows a request asks for that exist.                                 *)
LockableLocations(r) == {l \in LocationsOf(r) : locations[l].status # "ABSENT"}

(* The canonical intent whose hash is request_fingerprint: everything but  *)
(* the key and the actor, which are compared separately.                   *)
SameIntent(m, n) ==
    m.kind = n.kind /\ m.item = n.item /\ m.loc = n.loc /\ m.dest = n.dest
    /\ m.qty = n.qty /\ m.target = n.target

(* Broken variant: an idempotency key belongs to the user who sent it.     *)
SameKey_PerActor(op, m) == op.key = m.key /\ op.by = m.actor

(* An idempotency key belongs to the organization, whoever sends it.       *)
SameKey(op, m) == op.key = m.key

OperationOf(r) ==
    [kind |-> request[r].kind, key |-> request[r].key, by |-> request[r].actor,
     intent |-> request[r], item |-> ItemOf(r), delta |-> DeltaOf(r),
     target |-> IF IsReversal(r) THEN request[r].target ELSE 0]

-----------------------------------------------------------------------------
(* Locks.  A transaction keeps every lock until it commits or rolls back.  *)

KeyLock(k) == <<"key", k>>
ItemLock(i) == <<"item", i>>
LocationLock(l) == <<"location", l>>

(* Broken variants: the FOR UPDATE of the locations, of the item, or of    *)
(* every row, is left out.                                                 *)
Free_LocationsUnlocked(x, r) ==
    x[1] # "location" => \A q \in Requests \ {r} : x \notin locks[q]
Free_ItemsUnlocked(x, r) ==
    x[1] # "item" => \A q \in Requests \ {r} : x \notin locks[q]

Free_RowsUnlocked(x, r) ==
    x[1] = "key" => \A q \in Requests \ {r} : x \notin locks[q]

Free(x, r) == \A q \in Requests \ {r} : x \notin locks[q]

(* The next statement of a transaction begins.  The rows that the SELECT   *)
(* of the locations is to lock are those that exist when it begins: while  *)
(* it waits for one of them it does not notice another that is created.    *)
Goto(r, p) ==
    /\ phase' = [phase EXCEPT ![r] = p]
    /\ found' = [found EXCEPT ![r] = IF p = "locations" THEN LockableLocations(r) ELSE {}]
    /\ UNCHANGED reply

Acquire(r, x) ==
    /\ Free(x, r)
    /\ locks' = [locks EXCEPT ![r] = @ \cup {x}]

(* Broken variant: the connection goes back to the pool inside its         *)
(* transaction.                                                            *)
Finish_KeepsLocks(r, answer) ==
    /\ phase' = [phase EXCEPT ![r] = "done"]
    /\ reply' = [reply EXCEPT ![r] = answer]
    /\ found' = [found EXCEPT ![r] = {}]
    /\ UNCHANGED locks

(* End of transaction, by COMMIT or ROLLBACK, and the answer the server    *)
(* gives; whether it reaches the client makes no difference here, since a  *)
(* client that sends its request again is another request.                 *)
Finish(r, answer) ==
    /\ phase' = [phase EXCEPT ![r] = "done"]
    /\ reply' = [reply EXCEPT ![r] = answer]
    /\ locks' = [locks EXCEPT ![r] = {}]
    /\ found' = [found EXCEPT ![r] = {}]

Refuse(r) == Finish(r, "rejected") /\ UNCHANGED <<items, locations, ledger>>

-----------------------------------------------------------------------------
(* No stock history yet, and master data as earlier create requests left   *)
(* it: absent, or at version 1 with or without a unit.                     *)
Init ==
    /\ items \in [Items -> StartItems]
    /\ locations \in [Locations -> StartLocations]
    /\ ledger = <<>>
    /\ request \in Loads
    /\ phase = [r \in Requests |-> "new"]
    /\ locks = [r \in Requests |-> {}]
    /\ found = [r \in Requests |-> {}]
    /\ reply = [r \in Requests |-> "none"]

(* The checks made before a transaction opens: a positive quantity, and    *)
(* two different locations for a transfer.                                 *)
ValidBody(m) ==
    /\ m.kind \in Posting => m.qty > 0
    /\ m.kind = "TRANSFER" => m.loc # m.dest

Arrive(r) ==
    /\ phase[r] = "new"
    /\ IF ~ValidBody(request[r]) THEN Refuse(r)
       ELSE /\ Goto(r, CASE request[r].kind \in Posting \cup {"REVERSAL"} -> "key"
                         [] request[r].kind \in ItemMaster -> "item"
                         [] request[r].kind \in LocationMaster -> "locations"
                         [] request[r].kind \in Creation -> "apply")
            /\ UNCHANGED <<items, locations, ledger, locks>>
    /\ UNCHANGED request

(* pg_advisory_xact_lock on the organization and the idempotency key.      *)
LockKey(r) ==
    /\ phase[r] = "key"
    /\ Acquire(r, KeyLock(request[r].key))
    /\ Goto(r, "lookup")
    /\ UNCHANGED <<masters, ledger, request>>

(* Broken variant: a used key replays whatever was recorded under it.      *)
Lookup_IntentIgnored(r) ==
    LET used == {n \in DOMAIN ledger : SameKey(ledger[n], request[r])}
    IN  /\ phase[r] = "lookup"
        /\ \/ /\ used = {}
              /\ Goto(r, IF IsReversal(r) THEN "original" ELSE "item")
              /\ UNCHANGED <<masters, ledger, locks>>
           \/ used # {} /\ Finish(r, "replayed") /\ UNCHANGED <<masters, ledger>>
        /\ UNCHANGED request

(* Is the key already used?  Then answer with the recorded operation, or   *)
(* 409 when the actor or the intent differs.                               *)
Lookup(r) ==
    LET m == request[r]
        used == {n \in DOMAIN ledger : SameKey(ledger[n], m)}
        mine == {n \in used : ledger[n].by = m.actor /\ SameIntent(ledger[n].intent, m)}
    IN  /\ phase[r] = "lookup"
        /\ \/ /\ used = {}
              /\ Goto(r, IF IsReversal(r) THEN "original" ELSE "item")
              /\ UNCHANGED <<masters, ledger, locks>>
           \/ /\ used # {} /\ mine # {}
              /\ Finish(r, "replayed") /\ UNCHANGED <<masters, ledger>>
           \/ used # {} /\ mine = {} /\ Refuse(r)
        /\ UNCHANGED request

(* Broken variant: a reversal may be reversed in turn.                     *)
ReadOriginal_AnyKind(r) ==
    /\ phase[r] = "original"
    /\ IF request[r].target \in DOMAIN ledger
       THEN Goto(r, "item") /\ UNCHANGED <<masters, ledger, locks>>
       ELSE Refuse(r)
    /\ UNCHANGED request

(* A reversal reads its original and the original's movement lines.        *)
ReadOriginal(r) ==
    /\ phase[r] = "original"
    /\ IF request[r].target \in DOMAIN ledger /\ Original(r).kind # "REVERSAL"
       THEN Goto(r, "item") /\ UNCHANGED <<masters, ledger, locks>>
       ELSE Refuse(r)
    /\ UNCHANGED request

(* Broken variant: expected_version is not compared.                       *)
ItemFits_AnyVersion(r) ==
    LET row == items[ItemOf(r)] IN
    CASE request[r].kind \in Posting -> row.status = "ACTIVE" /\ row.uom # NoUnit
      [] IsReversal(r) -> row.status = "ACTIVE"
      [] OTHER -> row.status # "ABSENT"

(* The row a transaction has just locked is fit for what it is about to    *)
(* do: it exists, it is ACTIVE (and has a unit) for stock, and it has the  *)
(* expected version for a master change.                                   *)
ItemFits(r) ==
    LET row == items[ItemOf(r)] IN
    CASE request[r].kind \in Posting -> row.status = "ACTIVE" /\ row.uom # NoUnit
      [] IsReversal(r) -> row.status = "ACTIVE"
      [] OTHER -> row.status # "ABSENT" /\ row.version = request[r].seen

(* SELECT ... FROM items ... FOR UPDATE                                    *)
LockItem(r) ==
    /\ phase[r] = "item"
    /\ Free(ItemLock(ItemOf(r)), r)
    /\ IF ~ItemFits(r) THEN Refuse(r)
       ELSE /\ Acquire(r, ItemLock(ItemOf(r)))
            /\ Goto(r, IF request[r].kind \in ItemMaster THEN "checks" ELSE "locations")
            /\ UNCHANGED <<masters, ledger>>
    /\ UNCHANGED request

LocationsToLock(r) == {l \in found[r] : LocationLock(l) \notin locks[r]}

(* Broken variant: the source of a transfer first, then its destination.   *)
NextLocation_AsRequested(r) ==
    IF request[r].loc \in LocationsToLock(r) THEN request[r].loc ELSE Min(LocationsToLock(r))

(* SELECT ... FROM inventory_locations ... ORDER BY id FOR UPDATE locks    *)
(* the rows one after the other.                                           *)
NextLocation(r) == Min(LocationsToLock(r))

LockLocation(r) ==
    /\ phase[r] = "locations"
    /\ LocationsToLock(r) # {}
    /\ Acquire(r, LocationLock(NextLocation(r)))
    /\ UNCHANGED <<masters, ledger, request, phase, found, reply>>

(* Every location asked for was found, and, read again under its lock,     *)
(* fits what is to be done.                                                *)
LocationsFit(r) ==
    /\ found[r] = LocationsOf(r)
    /\ \A l \in LocationsOf(r) :
        IF request[r].kind \in LocationMaster
        THEN locations[l].status # "ABSENT" /\ locations[l].version = request[r].seen
        ELSE locations[l].status = "ACTIVE"

LocationsLocked(r) ==
    /\ phase[r] = "locations"
    /\ LocationsToLock(r) = {}
    /\ IF LocationsFit(r)
       THEN Goto(r, "checks") /\ UNCHANGED <<masters, ledger, locks>>
       ELSE Refuse(r)
    /\ UNCHANGED request

-----------------------------------------------------------------------------
(* The service's own checks, made under the locks.                         *)

AlreadyReversed(n) ==
    \E k \in DOMAIN ledger : ledger[k].kind = "REVERSAL" /\ ledger[k].target = n

Enough(r) ==
    IF IsReversal(r)
    THEN \A l \in LocationsOf(r) : OnHand(ItemOf(r), l) - Original(r).delta[l] >= 0
    ELSE request[r].kind \in Outbound \cup {"TRANSFER"}
         => OnHand(request[r].item, request[r].loc) >= request[r].qty

(* Broken variant: the service archives without looking at the stock.      *)
ServiceAllows_ArchiveAnyStock(r) ==
    LET m == request[r] IN
    CASE m.kind = "OPENING_BALANCE" -> ~HasMovement(m.item, m.loc)
      [] m.kind = "REVERSAL" -> ~AlreadyReversed(m.target) /\ Enough(r)
      [] m.kind = "UPDATE_ITEM" ->
            items[m.item].uom # m.unit => ~ItemHasMovements(m.item)
      [] OTHER -> Enough(r)

ServiceAllows(r) ==
    LET m == request[r] IN
    CASE m.kind = "OPENING_BALANCE" -> ~HasMovement(m.item, m.loc)
      [] m.kind = "REVERSAL" -> ~AlreadyReversed(m.target) /\ Enough(r)
      [] m.kind = "UPDATE_ITEM" ->
            items[m.item].uom # m.unit => ~ItemHasMovements(m.item)
      [] m.kind = "ARCHIVE_ITEM" -> ItemBalance(m.item) = 0
      [] m.kind = "ARCHIVE_LOCATION" -> LocationBalance(m.loc) = 0
      [] OTHER -> Enough(r)

Check(r) ==
    /\ phase[r] = "checks"
    /\ IF ServiceAllows(r)
       THEN /\ Goto(r, IF request[r].kind \in Posting \cup {"REVERSAL"}
                       THEN "insert" ELSE "apply")
            /\ UNCHANGED <<masters, ledger, locks>>
       ELSE Refuse(r)
    /\ UNCHANGED request

-----------------------------------------------------------------------------
(* The database's checks, made by constraints and triggers.                *)

(* The unique indexes on (organization, idempotency_key) and on            *)
(* (organization, reverses_operation_id), over committed rows.             *)
UniqueIndexesAccept(r) ==
    \A n \in DOMAIN ledger :
        /\ ~SameKey(ledger[n], request[r])
        /\ IsReversal(r) => ledger[n].target # request[r].target

(* An insert waits for the transaction whose uncommitted row collides.     *)
Collides(r, q) ==
    \/ request[q].key = request[r].key
    \/ IsReversal(r) /\ IsReversal(q) /\ request[q].target = request[r].target

(* validate_stock_movement, for each movement line.                        *)
MovementTriggerAccepts(r) ==
    LET i == ItemOf(r) IN
    /\ items[i].status = "ACTIVE" /\ items[i].uom # NoUnit
    /\ \A l \in LocationsOf(r) :
        /\ locations[l].status = "ACTIVE"
        /\ request[r].kind = "OPENING_BALANCE" => ~HasMovement(i, l)
        /\ OnHand(i, l) + DeltaOf(r)[l] >= 0

(* INSERT of the operation and its movement lines.  The rows stay private  *)
(* to the transaction (phase "commit") until it commits.  A failed check   *)
(* is an exception the service does not translate: the client gets a 500.  *)
Insert(r) ==
    /\ phase[r] = "insert"
    /\ \A q \in Requests \ {r} : phase[q] = "commit" => ~Collides(r, q)
    /\ \A l \in LocationsOf(r) : Free(LocationLock(l), r)
    /\ IF UniqueIndexesAccept(r) /\ MovementTriggerAccepts(r)
       THEN /\ Goto(r, "commit")
            /\ locks' = [locks EXCEPT ![r] =
                            @ \cup {LocationLock(l) : l \in LocationsOf(r)}]
            /\ UNCHANGED <<masters, ledger>>
       ELSE Finish(r, "error") /\ UNCHANGED <<masters, ledger>>
    /\ UNCHANGED request

(* validate_inventory_operation, deferred to the commit.                   *)
ShapeTriggerAccepts(op) ==
    LET lines == {l \in Locations : op.delta[l] # 0} IN
    CASE op.kind = "TRANSFER" ->
            \E a, b \in Locations : a # b /\ lines = {a, b} /\ op.delta[a] = -op.delta[b]
      [] op.kind = "REVERSAL" ->
            lines # {} /\ \A l \in Locations : op.delta[l] = -ledger[op.target].delta[l]
      [] OTHER -> Cardinality(lines) = 1

Commit(r) ==
    /\ phase[r] = "commit"
    /\ IF ShapeTriggerAccepts(OperationOf(r))
       THEN ledger' = Append(ledger, OperationOf(r)) /\ Finish(r, "ok")
       ELSE Finish(r, "error") /\ UNCHANGED ledger
    /\ UNCHANGED <<masters, request>>

(* protect_inventory_master, before the UPDATE of a master row.            *)
MasterTriggerAccepts(m) ==
    CASE m.kind = "UPDATE_ITEM" ->
            items[m.item].uom # m.unit => ~ItemHasMovements(m.item)
      [] m.kind = "ARCHIVE_ITEM" ->
            items[m.item].status = "ARCHIVED" \/ ItemBalance(m.item) = 0
      [] m.kind = "ARCHIVE_LOCATION" ->
            locations[m.loc].status = "ARCHIVED" \/ LocationBalance(m.loc) = 0
      [] OTHER -> TRUE

(* Every change of a master row raises its version by one.                 *)
Bumped(row) == [row EXCEPT !.version = @ + 1]

UpdatedItem(m, row) ==
    CASE m.kind = "DESCRIBE_ITEM" -> Bumped(row)
      [] m.kind = "UPDATE_ITEM"  -> [Bumped(row) EXCEPT !.uom = m.unit]
      [] m.kind = "ARCHIVE_ITEM" -> [Bumped(row) EXCEPT !.status = "ARCHIVED"]
      [] m.kind = "RESTORE_ITEM" -> [Bumped(row) EXCEPT !.status = "ACTIVE"]

UpdatedLocation(m, row) ==
    CASE m.kind = "UPDATE_LOCATION"  -> Bumped(row)
      [] m.kind = "ARCHIVE_LOCATION" -> [Bumped(row) EXCEPT !.status = "ARCHIVED"]
      [] m.kind = "RESTORE_LOCATION" -> [Bumped(row) EXCEPT !.status = "ACTIVE"]

(* UPDATE of the locked master row, and COMMIT.                            *)
ApplyMaster(r) ==
    LET m == request[r] IN
    /\ phase[r] = "apply"
    /\ m.kind \in ItemMaster \cup LocationMaster
    /\ IF ~MasterTriggerAccepts(m)
       THEN Finish(r, "error") /\ UNCHANGED masters
       ELSE /\ Finish(r, "ok")
            /\ \/ /\ m.kind \in ItemMaster
                  /\ items' = [items EXCEPT ![m.item] = UpdatedItem(m, @)]
                  /\ UNCHANGED locations
               \/ /\ m.kind \in LocationMaster
                  /\ locations' = [locations EXCEPT ![m.loc] = UpdatedLocation(m, @)]
                  /\ UNCHANGED items
    /\ UNCHANGED <<ledger, request>>

(* INSERT of a master row; the unique code answers 409 the second time.    *)
Create(r) ==
    LET m == request[r] IN
    /\ phase[r] = "apply"
    /\ \/ /\ m.kind = "CREATE_ITEM"
          /\ IF items[m.item].status # "ABSENT" THEN Refuse(r)
             ELSE /\ items' = [items EXCEPT ![m.item] = CreatedItem(m.unit)]
                  /\ Finish(r, "ok") /\ UNCHANGED <<locations, ledger>>
       \/ /\ m.kind = "CREATE_LOCATION"
          /\ IF locations[m.loc].status # "ABSENT" THEN Refuse(r)
             ELSE /\ locations' = [locations EXCEPT ![m.loc] = CreatedLocation]
                  /\ Finish(r, "ok") /\ UNCHANGED <<items, ledger>>
    /\ UNCHANGED request

(* The connection or the worker is lost: the transaction rolls back and    *)
(* the client does not know what happened.                                 *)
Rollback(r) ==
    /\ phase[r] \notin {"new", "done"}
    /\ Finish(r, "lost")
    /\ UNCHANGED <<masters, ledger, request>>

Step(r) ==
    \/ Arrive(r) \/ LockKey(r) \/ Lookup(r) \/ ReadOriginal(r) \/ LockItem(r)
    \/ LockLocation(r) \/ LocationsLocked(r) \/ Check(r) \/ Insert(r) \/ Commit(r)
    \/ ApplyMaster(r) \/ Create(r)

Next == \E r \in Requests : Step(r) \/ Rollback(r)

Spec == Init /\ [][Next]_vars

-----------------------------------------------------------------------------
(* Properties.                                                             *)

(* No item is ever short at a location: an outbound operation, a transfer  *)
(* or a reversal never takes more than the committed movements hold, however *)
(* the transactions interleave.                                            *)
NeverNegative == \A i \in Items, l \in Locations : OnHand(i, l) >= 0

(* Concurrent and repeated requests with one idempotency key create one    *)
(* operation at most.                                                      *)
OneOperationPerKey ==
    \A m, n \in DOMAIN ledger : ledger[m].key = ledger[n].key => m = n

(* A client that is told its operation was recorded (201 or 200) finds in  *)
(* the ledger the operation it asked for, posted by itself.                *)
AnswersAreTrue ==
    \A r \in Requests :
        /\ reply[r] \in {"ok", "replayed"}
        /\ request[r].kind \in Posting \cup {"REVERSAL"}
        => \E n \in DOMAIN ledger :
            /\ ledger[n].key = request[r].key
            /\ ledger[n].by = request[r].actor
            /\ SameIntent(ledger[n].intent, request[r])

(* An operation is reversed at most once, by a later operation, which is   *)
(* its exact inverse; and a reversal is never reversed.                    *)
ReversalsAreExact ==
    \A n \in DOMAIN ledger : ledger[n].kind = "REVERSAL" =>
        /\ ledger[n].target \in 1..(n - 1)
        /\ ledger[ledger[n].target].kind # "REVERSAL"
        /\ ledger[n].item = ledger[ledger[n].target].item
        /\ \A l \in Locations :
            ledger[n].delta[l] + ledger[ledger[n].target].delta[l] = 0
        /\ \A k \in DOMAIN ledger :
            ledger[k].kind = "REVERSAL" /\ ledger[k].target = ledger[n].target => k = n

(* An archived item or location holds no stock anywhere.                   *)
ArchivedHoldsNothing ==
    \A i \in Items, l \in Locations :
        items[i].status = "ARCHIVED" \/ locations[l].status = "ARCHIVED"
        => OnHand(i, l) = 0

(* An opening balance is the first movement of its item at its location.   *)
OpeningComesFirst ==
    \A n \in DOMAIN ledger : ledger[n].kind = "OPENING_BALANCE" =>
        \A k \in 1..(n - 1), l \in Locations :
            ledger[n].delta[l] # 0 /\ ledger[k].item = ledger[n].item
            => ledger[k].delta[l] = 0

(* The service's checks, made under its locks, are enough: no request ever *)
(* fails in a unique index or a trigger, which the client would see as a   *)
(* 500.                                                                    *)
DatabaseGuardsStaySilent == \A r \in Requests : reply[r] # "error"

(* The ledger rests on its masters: an operation is committed, alone and   *)
(* after all others, only while its item and its locations are ACTIVE; and *)
(* the base unit was there at an item's first movement, and cannot change  *)
(* or disappear afterwards.                                                *)
LedgerFitsItsMasters ==
    [][/\ \A i \in Items : ItemHasMovements(i) =>
            items[i].uom # NoUnit /\ items'[i].uom = items[i].uom
       /\ ledger' # ledger =>
            LET op == ledger'[Len(ledger')] IN
            /\ ledger' = Append(ledger, op)
            /\ items[op.item].status = "ACTIVE"
            /\ \A l \in Locations : op.delta[l] # 0 => locations[l].status = "ACTIVE"]_vars

(* A master change is applied to the version its client saw: no update is  *)
(* lost under a concurrent one.                                            *)
NoLostUpdate ==
    [][\A r \in Requests :
        phase[r] = "apply" /\ reply'[r] = "ok" =>
        /\ request[r].kind \in ItemMaster =>
              items[request[r].item].version = request[r].seen
        /\ request[r].kind \in LocationMaster =>
              locations[request[r].loc].version = request[r].seen]_vars

(* The next statement of r needs what q has locked, or a place in a unique *)
(* index that q's uncommitted row has taken.                               *)
WaitsFor(r, q) ==
    /\ q # r
    /\ \/ phase[r] = "key" /\ KeyLock(request[r].key) \in locks[q]
       \/ phase[r] = "item" /\ ItemLock(ItemOf(r)) \in locks[q]
       \/ /\ phase[r] = "locations" /\ LocationsToLock(r) # {}
          /\ LocationLock(NextLocation(r)) \in locks[q]
       \/ /\ phase[r] = "insert"
          /\ \/ phase[q] = "commit" /\ Collides(r, q)
             \/ \E l \in LocationsOf(r) : LocationLock(l) \in locks[q]

(* Transactions never wait for each other in a circle, nor for a lock that *)
(* an ended one left behind: each takes its key, then its item, then its   *)
(* locations in the order of their ids.  In every group of requests one    *)
(* can go on as soon as others than the group have ended.                  *)
NoCircularWait ==
    LET running == {r \in Requests : phase[r] \notin {"new", "done"}} IN
    \A S \in SUBSET running : S # {} =>
        \E r \in S : \A q \in Requests : WaitsFor(r, q) => q \in running \ S

-----------------------------------------------------------------------------
(* The facts the properties rest on, state by state.                       *)

(* A lock belongs to one transaction at a time.                            *)
LocksExclusive ==
    \A r, q \in Requests : r # q => locks[r] \cap locks[q] = {}

(* Each statement is reached only by the requests whose code contains it,  *)
(* and a reversal that has read its original keeps an original.            *)
PhaseFits ==
    \A r \in Requests :
        /\ phase[r] \in {"key", "lookup", "original", "insert", "commit"}
              => request[r].kind \in Posting \cup {"REVERSAL"}
        /\ phase[r] = "original" => IsReversal(r)
        /\ phase[r] = "apply" => request[r].kind \notin Posting \cup {"REVERSAL"}
        /\ phase[r] \in {"item", "locations", "checks", "insert", "commit"} /\ IsReversal(r)
              => request[r].target \in DOMAIN ledger /\ Original(r).kind # "REVERSAL"

(* Rows inserted but not committed: their locations are locked, so what    *)
(* the triggers accepted still holds at the commit, and no two waiting     *)
(* commits collide in a unique index.                                      *)
CommitReady ==
    \A r \in Requests : phase[r] = "commit" =>
        /\ UniqueIndexesAccept(r)
        /\ \A q \in Requests \ {r} : phase[q] = "commit" => ~Collides(r, q)
        /\ \A l \in LocationsOf(r) :
            /\ LocationLock(l) \in locks[r]
            /\ request[r].kind = "OPENING_BALANCE" => ~HasMovement(ItemOf(r), l)
            /\ OnHand(ItemOf(r), l) + DeltaOf(r)[l] >= 0
=============================================================================
