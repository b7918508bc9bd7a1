-------------------------- MODULE InventoryProofs --------------------------
(***************************************************************************)
(* Theorems about Inventory for every set of items, locations, keys,       *)
(* requests and bodies.                                                    *)
(*                                                                         *)
(* IInv: the balance of an item at a location is a sum over the ledger;    *)
(* that the sum over a longer ledger is the old one plus the new           *)
(* operation's effect is carried from state to state (Adds), since the     *)
(* ledger grows by one operation at a time.  What the insert's triggers    *)
(* accepted still holds at the commit, under the locks of the locations.   *)
(*                                                                         *)
(* GuardInv: a request holds the locks of the statements it has passed,    *)
(* and what it read under them is still so (Guarded).  The stock of an     *)
(* item at a location moves only under both their locks, a master row      *)
(* changes only under its own; so the requests under way cannot disturb    *)
(* one another's checks, the database accepts whatever the service lets    *)
(* through, and every commit is one step of the contract StockLedger.      *)
(*                                                                         *)
(* LockOrder: a request that waits for a location holds only locations of  *)
(* smaller ids, one that waits for its item no location, one that waits    *)
(* for its key nothing.  So no group of requests waits in a circle.        *)
(***************************************************************************)
EXTENDS InventoryRefinement, FiniteSetTheorems, NaturalsInduction, WellFoundedInduction, TLAPS

-----------------------------------------------------------------------------
(* Sums over the ledger.                                                   *)

IsSum(f, led, i, l) ==
    f = [n \in 0..Len(led) |->
            IF n = 0 THEN 0 ELSE f[n - 1] + Effect(led[n], i, l)]

(* The running sum over led exists, is the only one and ends in an integer *)
Adds(led, i, l) ==
    \E f : /\ IsSum(f, led, i, l)
           /\ f[Len(led)] \in Int
           /\ \A g : IsSum(g, led, i, l) => g = f

(* A balance is the last value of the only running sum.                    *)
LEMMA OnHandIsSum ==
    ASSUME NEW led, NEW i, NEW l, NEW f,
           IsSum(f, led, i, l), \A g : IsSum(g, led, i, l) => g = f
    PROVE  OnHandIn(led, i, l) = f[Len(led)]
<1> DEFINE s == CHOOSE g : IsSum(g, led, i, l)
<1>1. IsSum(s, led, i, l)  OBVIOUS
<1>2. s = f  BY <1>1
<1>3. OnHandIn(led, i, l) = s[Len(led)]  BY DEF OnHandIn, IsSum
<1> QED  BY <1>2, <1>3

(* The empty ledger holds nothing.                                         *)
LEMMA EmptyLedger ==
    ASSUME NEW i, NEW l
    PROVE  Adds(<<>>, i, l) /\ OnHandIn(<<>>, i, l) = 0
<1> DEFINE z == [n \in 0..0 |-> 0]
<1>1. IsSum(z, <<>>, i, l)  BY DEF IsSum
<1>2. ASSUME NEW g, IsSum(g, <<>>, i, l) PROVE g = z
  <2>1. g = [n \in 0..0 |-> IF n = 0 THEN 0 ELSE g[n - 1] + Effect(<<>>[n], i, l)]
    BY <1>2 DEF IsSum
  <2>2. DOMAIN g = 0..0 /\ g[0] = 0  BY <2>1
  <2> QED  BY <2>1, <2>2
<1>3. z[Len(<<>>)] = 0  OBVIOUS
<1> QED  BY <1>1, <1>2, <1>3, OnHandIsSum DEF Adds

(* An operation's effect on a balance is an integer.                       *)
LEMMA EffectIsInt ==
    ASSUME NEW op \in Operation, NEW i \in Items, NEW l \in Locations
    PROVE  Effect(op, i, l) \in Int
BY DEF Effect, Operation, Movements

(* One more operation adds its effect.                                     *)
LEMMA LongerLedger ==
    ASSUME NEW led \in Seq(Operation), NEW op \in Operation,
           NEW i \in Items, NEW l \in Locations, Adds(led, i, l)
    PROVE  /\ Adds(Append(led, op), i, l)
           /\ OnHandIn(led, i, l) \in Int
           /\ OnHandIn(Append(led, op), i, l) = OnHandIn(led, i, l) + Effect(op, i, l)
<1> DEFINE N == Len(led)
           longer == Append(led, op)
<1>1. PICK f : /\ IsSum(f, led, i, l) /\ f[N] \in Int
               /\ \A g : IsSum(g, led, i, l) => g = f
  BY DEF Adds
<1>2. OnHandIn(led, i, l) = f[N]  BY <1>1, OnHandIsSum
<1> DEFINE h == [n \in 0..(N + 1) |-> IF n = N + 1 THEN f[N] + Effect(op, i, l) ELSE f[n]]
<1>3. /\ N \in Nat /\ Len(longer) = N + 1 /\ longer[N + 1] = op
      /\ \A n \in 1..N : longer[n] = led[n]
  OBVIOUS
<1> HIDE DEF N, longer
<1>4. f = [n \in 0..N |-> IF n = 0 THEN 0 ELSE f[n - 1] + Effect(led[n], i, l)]
  BY <1>1 DEF IsSum, N
<1>5. IsSum(h, longer, i, l)
  <2>1. ASSUME NEW n \in 0..(N + 1)
        PROVE  h[n] = IF n = 0 THEN 0 ELSE h[n - 1] + Effect(longer[n], i, l)
    <3>1. CASE n = 0  BY <3>1, <1>3, <1>4
    <3>2. CASE n = N + 1  BY <3>2, <1>3
    <3>3. CASE n \in 1..N
      <4>1. h[n] = f[n] /\ h[n - 1] = f[n - 1]  BY <3>3, <1>3
      <4>2. f[n] = f[n - 1] + Effect(led[n], i, l)  BY <3>3, <1>3, <1>4
      <4> QED  BY <4>1, <4>2, <3>3, <1>3
    <3> QED  BY <3>1, <3>2, <3>3, <1>3
  <2> QED  BY <2>1, <1>3 DEF IsSum
<1>6. ASSUME NEW g, IsSum(g, longer, i, l) PROVE g = h
  <2>1. g = [n \in 0..(N + 1) |->
                IF n = 0 THEN 0 ELSE g[n - 1] + Effect(longer[n], i, l)]
    BY <1>6, <1>3 DEF IsSum
  <2> DEFINE shorter == [n \in 0..N |-> g[n]]
  <2>2. IsSum(shorter, led, i, l)
    <3>1. ASSUME NEW n \in 0..N
          PROVE  shorter[n] = IF n = 0 THEN 0 ELSE shorter[n - 1] + Effect(led[n], i, l)
      BY <2>1, <1>3
    <3> QED  BY <3>1 DEF IsSum, N
  <2>3. shorter = f  BY <2>2, <1>1
  <2>4. \A n \in 0..N : g[n] = f[n]  BY <2>3
  <2>5. g[N + 1] = f[N] + Effect(op, i, l)
    <3>1. g[N + 1] = g[N] + Effect(op, i, l)
      <4> HIDE DEF shorter
      <4>1. N + 1 \in 0..(N + 1) /\ N + 1 # 0 /\ (N + 1) - 1 = N  BY <1>3
      <4>2. g[N + 1] = g[(N + 1) - 1] + Effect(longer[N + 1], i, l)  BY <2>1, <4>1
      <4> QED  BY <4>1, <4>2, <1>3
    <3> QED  BY <3>1, <2>4, <1>3
  <2>6. \A n \in 0..(N + 1) : g[n] = h[n]  BY <2>4, <2>5, <1>3
  <2> QED  BY <2>1, <2>6
<1>7. h[Len(longer)] = f[N] + Effect(op, i, l)  BY <1>3
<1>8. OnHandIn(longer, i, l) = h[Len(longer)]  BY <1>5, <1>6, OnHandIsSum
<1>9. Adds(longer, i, l)
  <2>1. h[Len(longer)] \in Int  BY <1>1, <1>7, EffectIsInt
  <2> QED  BY <2>1, <1>5, <1>6 DEF Adds
<1> QED  BY <1>1, <1>2, <1>7, <1>8, <1>9 DEF longer

-----------------------------------------------------------------------------
(* The rows are locked in the order of their ids: there is a least one.    *)

(* The order of the naturals as a relation.                                *)
LEMMA LessThan == OpToRel(<, Nat) = {pair \in Nat \X Nat : pair[1] < pair[2]}
BY Zenon DEF OpToRel

(* A set of locations to lock has a least id, and Min finds it.            *)
LEMMA LeastLocation ==
    ASSUME NEW S \in SUBSET Locations, S # {}
    PROVE  Min(S) \in S /\ \A l \in S : Min(S) =< l
<1> DEFINE R == {pair \in Nat \X Nat : pair[1] < pair[2]}
<1>1. IsWellFoundedOn(R, Nat)  BY LessThan, NatLessThanWellFounded, Zenon
<1>2. S \subseteq Nat  BY LocationsAreOrdered
<1> HIDE DEF R
<1>3. PICK x \in S : \A y \in S : <<y, x>> \notin R  BY <1>1, <1>2, WFMin
<1>4. ASSUME NEW y \in S PROVE x =< y
  <2>1. <<y, x>> \in Nat \X Nat /\ <<y, x>> \notin R  BY <1>2, <1>3
  <2>2. ~(y < x)  BY <2>1 DEF R
  <2> QED  BY <2>2, <1>2
<1> QED  BY <1>4 DEF Min

-----------------------------------------------------------------------------
(* The inductive invariant.                                                *)

Sums == \A i \in Items, l \in Locations : Adds(ledger, i, l)

IInv ==
    /\ TypeOK
    /\ PhaseFits
    /\ LocksExclusive
    /\ CommitReady
    /\ Sums
    /\ NeverNegative
    /\ OneOperationPerKey
    /\ ReversalsAreExact
    /\ OpeningComesFirst
    /\ AnswersAreTrue

(* What the deltas and items a request works on are.                       *)
LEMMA WorkTypes ==
    ASSUME TypeOK, NEW r \in Requests,
           IsReversal(r) => request[r].target \in DOMAIN ledger
    PROVE  /\ ItemOf(r) \in Items
           /\ DeltaOf(r) \in Movements
           /\ LocationsOf(r) \subseteq Locations
           /\ \A l \in Locations \ LocationsOf(r) : DeltaOf(r)[l] = 0
<1>1. CASE IsReversal(r)
  <2>1. Original(r) \in Operation  BY <1>1 DEF TypeOK, Original
  <2> QED  BY <1>1, <2>1 DEF ItemOf, DeltaOf, LocationsOf, Operation, InverseDelta, Movements
<1>2. CASE ~IsReversal(r)
  <2>1. request[r] \in Request  BY DEF TypeOK
  <2>2. ItemOf(r) = request[r].item /\ DeltaOf(r) = PostedDelta(request[r])
    BY <1>2 DEF ItemOf, DeltaOf
  <2>3. LocationsOf(r) = IF request[r].kind = "TRANSFER"
                         THEN {request[r].loc, request[r].dest} ELSE {request[r].loc}
    BY <1>2 DEF LocationsOf
  <2>4. DeltaOf(r) \in Movements  BY <2>1, <2>2 DEF PostedDelta, Movements, Request
  <2>5. \A l \in Locations \ LocationsOf(r) : DeltaOf(r)[l] = 0
    BY <2>1, <2>2, <2>3 DEF PostedDelta, Request
  <2> QED  BY <2>1, <2>2, <2>3, <2>4, <2>5 DEF Request
<1> QED  BY <1>1, <1>2

(* The operation a request would commit has the type of the ledger.        *)
LEMMA OperationType ==
    ASSUME TypeOK, NEW r \in Requests,
           request[r].kind \in Posting \cup {"REVERSAL"},
           IsReversal(r) => request[r].target \in DOMAIN ledger
    PROVE  OperationOf(r) \in Operation
<1>1. ItemOf(r) \in Items /\ DeltaOf(r) \in Movements  BY WorkTypes
<1>2. request[r] \in Request  BY DEF TypeOK
<1>3. request[r].target \in Nat  BY <1>2 DEF Request
<1> QED  BY <1>1, <1>2, <1>3 DEF OperationOf, Operation, Request

-----------------------------------------------------------------------------
(* Type correctness, one lemma per kind of step.                           *)

(* The initial state is well-typed.                                        *)
LEMMA InitTypeOK == Init => TypeOK
<1> SUFFICES ASSUME Init PROVE TypeOK  OBVIOUS
<1>1. items \in [Items -> ItemRow]
  <2>1. StartItems \subseteq ItemRow
    BY StartAssumption DEF AbsentItem, CreatedItem, ItemRow, Status
  <2> QED  BY <2>1 DEF Init
<1>2. locations \in [Locations -> LocationRow]
  <2>1. StartLocations \subseteq LocationRow
    BY StartAssumption DEF AbsentLocation, CreatedLocation, LocationRow, Status
  <2> QED  BY <2>1 DEF Init
<1>3. request \in [Requests -> Request]  BY LoadAssumption DEF Init
<1> QED  BY <1>1, <1>2, <1>3 DEF Init, TypeOK, Phase, Reply

(* Ending a transaction keeps the types of what it writes.                 *)
LEMMA FinishTypes ==
    ASSUME TypeOK, NEW r \in Requests, NEW a \in Reply, Finish(r, a)
    PROVE  /\ phase' \in [Requests -> Phase]
           /\ locks' \in [Requests -> SUBSET Lock]
           /\ found' \in [Requests -> SUBSET Locations]
           /\ reply' \in [Requests -> Reply]
BY DEF TypeOK, Finish, Phase

(* Going to the next statement keeps the types of what it writes.          *)
LEMMA GotoTypes ==
    ASSUME TypeOK, NEW r \in Requests, NEW p \in Phase, Goto(r, p),
           p = "locations" /\ IsReversal(r) => request[r].target \in DOMAIN ledger
    PROVE  /\ phase' \in [Requests -> Phase]
           /\ found' \in [Requests -> SUBSET Locations]
           /\ reply' = reply
<1>1. (IF p = "locations" THEN LockableLocations(r) ELSE {}) \in SUBSET Locations
  <2>1. CASE p = "locations"  BY <2>1, WorkTypes DEF LockableLocations
  <2> QED  BY <2>1
<1> QED  BY <1>1 DEF TypeOK, Goto

(* A refused request leaves everything well-typed.                         *)
LEMMA RefuseTypeOK ==
    ASSUME TypeOK, NEW r \in Requests, Refuse(r), UNCHANGED request
    PROVE  TypeOK'
BY FinishTypes DEF Refuse, TypeOK, Reply

(* A master change keeps the row's type.                                   *)
LEMMA UpdatedItemType ==
    ASSUME NEW m \in Request, NEW row \in ItemRow, m.kind \in ItemMaster
    PROVE  UpdatedItem(m, row) \in ItemRow
<1>1. Bumped(row) \in ItemRow  BY DEF ItemRow, Bumped
<1>2. m.unit \in Units \cup {NoUnit}  BY DEF Request
<1> QED  BY <1>1, <1>2 DEF UpdatedItem, ItemMaster, ItemRow, Status

(* Likewise for a location.                                                *)
LEMMA UpdatedLocationType ==
    ASSUME NEW m \in Request, NEW row \in LocationRow, m.kind \in LocationMaster
    PROVE  UpdatedLocation(m, row) \in LocationRow
<1>1. Bumped(row) \in LocationRow  BY DEF LocationRow, Bumped
<1> QED  BY <1>1 DEF UpdatedLocation, LocationMaster, LocationRow, Status

(* Every step keeps the types.                                             *)
LEMMA NextTypeOK ==
    ASSUME TypeOK, PhaseFits, [Next]_vars
    PROVE  TypeOK'
<1>1. CASE UNCHANGED vars  BY <1>1 DEF vars, TypeOK
<1>2. ASSUME NEW r \in Requests, Step(r) \/ Rollback(r) PROVE TypeOK'
  <2> USE <1>2
  <2>0. request[r] \in Request  BY DEF TypeOK
  <2>1. CASE Arrive(r)
    <3>1. CASE Refuse(r)  BY <3>1, <2>1, RefuseTypeOK DEF Arrive
    <3>2. CASE ~Refuse(r)
      <4>1. PICK p \in {"key", "item", "locations", "apply"} :
              /\ Goto(r, p) /\ UNCHANGED <<items, locations, ledger, locks, request>>
              /\ p = "locations" => request[r].kind \in LocationMaster
        BY <3>2, <2>1, <2>0 DEF Arrive, Request, Kind, Posting, Inbound, Outbound,
                                ItemMaster, LocationMaster, Creation
      <4>2. p \in Phase /\ (p = "locations" => ~IsReversal(r))
        BY <4>1 DEF Phase, LocationMaster, IsReversal
      <4> QED  BY <4>1, <4>2, GotoTypes DEF TypeOK
    <3> QED  BY <3>1, <3>2
  <2>2. CASE LockKey(r)
    <3>1. KeyLock(request[r].key) \in Lock  BY <2>0 DEF KeyLock, Lock, Request
    <3>2. "lookup" \in Phase  BY DEF Phase
    <3> QED  BY <3>1, <3>2, <2>2, GotoTypes DEF LockKey, Acquire, TypeOK, masters
  <2>3. CASE Lookup(r)
    <3>1. CASE Refuse(r)  BY <3>1, <2>3, RefuseTypeOK DEF Lookup
    <3>2. CASE Finish(r, "replayed") /\ UNCHANGED <<masters, ledger, request>>
      BY <3>2, FinishTypes DEF TypeOK, masters, Reply
    <3>3. CASE (Goto(r, "original") \/ Goto(r, "item"))
               /\ UNCHANGED <<masters, ledger, locks, request>>
      BY <3>3, GotoTypes DEF TypeOK, masters, Phase
    <3> QED  BY <3>1, <3>2, <3>3, <2>3 DEF Lookup
  <2>4. CASE ReadOriginal(r)
    <3>1. CASE Refuse(r)  BY <3>1, <2>4, RefuseTypeOK DEF ReadOriginal
    <3>2. CASE ~Refuse(r)
      BY <3>2, <2>4, GotoTypes DEF ReadOriginal, TypeOK, masters, Phase
    <3> QED  BY <3>1, <3>2
  <2>5. CASE LockItem(r)
    <3>1. CASE Refuse(r)  BY <3>1, <2>5, RefuseTypeOK DEF LockItem
    <3>2. CASE ~Refuse(r)
      <4>1. ItemOf(r) \in Items  BY <2>5, WorkTypes DEF LockItem, PhaseFits
      <4>2. ItemLock(ItemOf(r)) \in Lock  BY <4>1 DEF ItemLock, Lock
      <4>3. IsReversal(r) => request[r].target \in DOMAIN ledger
        BY <2>5 DEF LockItem, PhaseFits
      <4> QED  BY <4>2, <4>3, <3>2, <2>5, GotoTypes DEF LockItem, Acquire, TypeOK, masters, Phase
    <3> QED  BY <3>1, <3>2
  <2>6. CASE LockLocation(r)
    <3>2. locks' \in [Requests -> SUBSET Lock]
      <4>1. NextLocation(r) \in Locations  \* Min chooses, whatever the set
        <5>1. LocationsToLock(r) \subseteq Locations /\ LocationsToLock(r) # {}
          BY <2>6 DEF LockLocation, LocationsToLock, TypeOK
        <5> QED  BY <5>1, LeastLocation DEF NextLocation
      <4>2. LocationLock(NextLocation(r)) \in Lock  BY <4>1 DEF LocationLock, Lock
      <4> QED  BY <4>2, <2>6 DEF LockLocation, Acquire, TypeOK
    <3> QED  BY <3>2, <2>6 DEF LockLocation, TypeOK, masters
  <2>7. CASE LocationsLocked(r)
    <3>1. CASE Refuse(r)  BY <3>1, <2>7, RefuseTypeOK DEF LocationsLocked
    <3>2. CASE ~Refuse(r)
      BY <3>2, <2>7, GotoTypes DEF LocationsLocked, TypeOK, masters, Phase
    <3> QED  BY <3>1, <3>2
  <2>8. CASE Check(r)
    <3>1. CASE Refuse(r)  BY <3>1, <2>8, RefuseTypeOK DEF Check
    <3>2. CASE ~Refuse(r)  BY <3>2, <2>8, GotoTypes DEF Check, TypeOK, masters, Phase
    <3> QED  BY <3>1, <3>2
  <2>9. CASE Insert(r)
    <3>1. CASE Finish(r, "error")
      BY <3>1, <2>9, FinishTypes DEF Insert, TypeOK, masters, Reply
    <3>2. CASE ~Finish(r, "error")
      <4>1. LocationsOf(r) \subseteq Locations
        BY <2>9, WorkTypes DEF Insert, PhaseFits
      <4>2. {LocationLock(l) : l \in LocationsOf(r)} \subseteq Lock
        BY <4>1 DEF LocationLock, Lock
      <4> QED  BY <4>2, <3>2, <2>9, GotoTypes DEF Insert, TypeOK, masters, Phase
    <3> QED  BY <3>1, <3>2
  <2>10. CASE Commit(r)
    <3>1. OperationOf(r) \in Operation
      BY <2>10, OperationType DEF Commit, PhaseFits
    <3>2. ledger' \in Seq(Operation)
      <4>1. ledger' = Append(ledger, OperationOf(r)) \/ ledger' = ledger  BY <2>10 DEF Commit
      <4> QED  BY <3>1, <4>1 DEF TypeOK
    <3>3. Finish(r, "ok") \/ Finish(r, "error")  BY <2>10 DEF Commit
    <3> QED  BY <3>2, <3>3, <2>10, FinishTypes DEF Commit, TypeOK, masters, Reply
  <2>11. CASE ApplyMaster(r)
    <3>1. Finish(r, "ok") \/ Finish(r, "error")  BY <2>11 DEF ApplyMaster
    <3> DEFINE m == request[r]
    <3>2. items' \in [Items -> ItemRow]
      <4>1. CASE items' = items  BY <4>1 DEF TypeOK
      <4>2. CASE m.kind \in ItemMaster /\ items' = [items EXCEPT ![m.item] = UpdatedItem(m, @)]
        <5>1. m.item \in Items /\ items[m.item] \in ItemRow  BY <2>0 DEF Request, TypeOK
        <5>2. UpdatedItem(m, items[m.item]) \in ItemRow  BY <5>1, <4>2, <2>0, UpdatedItemType
        <5> QED  BY <5>1, <5>2, <4>2 DEF TypeOK
      <4> QED  BY <4>1, <4>2, <2>11 DEF ApplyMaster, masters
    <3>3. locations' \in [Locations -> LocationRow]
      <4>1. CASE locations' = locations  BY <4>1 DEF TypeOK
      <4>2. CASE /\ m.kind \in LocationMaster
                 /\ locations' = [locations EXCEPT ![m.loc] = UpdatedLocation(m, @)]
        <5>1. m.loc \in Locations /\ locations[m.loc] \in LocationRow
          BY <2>0 DEF Request, TypeOK
        <5>2. UpdatedLocation(m, locations[m.loc]) \in LocationRow
          BY <5>1, <4>2, <2>0, UpdatedLocationType
        <5> QED  BY <5>1, <5>2, <4>2 DEF TypeOK
      <4> QED  BY <4>1, <4>2, <2>11 DEF ApplyMaster, masters
    <3> QED  BY <3>1, <3>2, <3>3, <2>11, FinishTypes DEF ApplyMaster, TypeOK, Reply
  <2>12. CASE Create(r)
    <3>1. CASE Refuse(r)  BY <3>1, <2>12, RefuseTypeOK DEF Create
    <3>2. CASE ~Refuse(r)
      <4>1. Finish(r, "ok")  BY <3>2, <2>12 DEF Create
      <4>2. /\ request[r].item \in Items /\ request[r].loc \in Locations
            /\ CreatedItem(request[r].unit) \in ItemRow /\ CreatedLocation \in LocationRow
        BY <2>0 DEF Request, CreatedItem, CreatedLocation, ItemRow, LocationRow, Status
      <4>3. items' \in [Items -> ItemRow]
        BY <4>2, <3>2, <2>12 DEF Create, TypeOK
      <4>4. locations' \in [Locations -> LocationRow]
        BY <4>2, <3>2, <2>12 DEF Create, TypeOK
      <4> QED  BY <4>1, <4>3, <4>4, <3>2, <2>12, FinishTypes DEF Create, TypeOK, Reply
    <3> QED  BY <3>1, <3>2
  <2>13. CASE Rollback(r)
    BY <2>13, FinishTypes DEF Rollback, TypeOK, masters, Reply
  <2> QED  BY <2>1, <2>2, <2>3, <2>4, <2>5, <2>6, <2>7, <2>8, <2>9, <2>10, <2>11,
              <2>12, <2>13 DEF Step
<1> QED  BY <1>1, <1>2 DEF Next

-----------------------------------------------------------------------------
(* What one step of one request can change.                                *)

(* One step of request r leaves the other requests' phase, locks and       *)
(* reply, takes only free locks, reaches "commit" by Insert, and grows the *)
(* ledger only by a commit.                                                *)
LEMMA Frame ==
    ASSUME TypeOK, NEW r \in Requests, Step(r) \/ Rollback(r)
    PROVE  /\ request' = request
           /\ \A q \in Requests \ {r} :
                phase'[q] = phase[q] /\ locks'[q] = locks[q] /\ reply'[q] = reply[q]
           /\ phase'[r] = "commit" => Insert(r)
           /\ \A x \in locks'[r] : x \in locks[r] \/ Free(x, r)
           /\ \/ ledger' = ledger
              \/ /\ Commit(r) /\ Finish(r, "ok")
                 /\ ledger' = Append(ledger, OperationOf(r))
<1> USE DEF TypeOK
<1> DEFINE Others == \A q \in Requests \ {r} :
                phase'[q] = phase[q] /\ locks'[q] = locks[q] /\ reply'[q] = reply[q]
           NoNewLock == \A x \in locks'[r] : x \in locks[r] \/ Free(x, r)
<1>1. ASSUME NEW a, Finish(r, a)
      PROVE  Others /\ NoNewLock /\ phase'[r] # "commit"
  BY <1>1 DEF Finish
<1>2. ASSUME NEW p, Goto(r, p), UNCHANGED locks
      PROVE  Others /\ NoNewLock /\ phase'[r] = p
  BY <1>2 DEF Goto
<1>3. ASSUME NEW p, NEW x, Goto(r, p), Acquire(r, x)
      PROVE  Others /\ NoNewLock /\ phase'[r] = p
  BY <1>3 DEF Goto, Acquire
<1>4. CASE Arrive(r)
  <2>1. CASE Refuse(r)  BY <2>1, <1>1, <1>4 DEF Refuse, Arrive
  <2>2. CASE ~Refuse(r)
    <3>1. request[r].kind \in Kind  BY DEF Request
    <3>2. \E p \in {"key", "item", "locations", "apply"} : Goto(r, p)
      BY <3>1, <2>2, <1>4 DEF Arrive, Kind
    <3> QED  BY <3>2, <2>2, <1>2, <1>4 DEF Arrive
  <2> QED  BY <2>1, <2>2
<1>5. CASE LockKey(r)  BY <1>3, <1>5 DEF LockKey
<1>6. CASE Lookup(r)
  <2>1. UNCHANGED <<ledger, request>>  BY <1>6 DEF Lookup, Refuse
  <2>2. \/ Finish(r, "replayed") \/ Finish(r, "rejected")
        \/ (Goto(r, "original") \/ Goto(r, "item")) /\ UNCHANGED locks
    BY <1>6 DEF Lookup, Refuse
  <2> QED  BY <2>1, <2>2, <1>1, <1>2
<1>7. CASE ReadOriginal(r)
  <2>1. UNCHANGED <<ledger, request>>  BY <1>7 DEF ReadOriginal, Refuse
  <2>2. Finish(r, "rejected") \/ (Goto(r, "item") /\ UNCHANGED locks)
    BY <1>7 DEF ReadOriginal, Refuse
  <2> QED  BY <2>1, <2>2, <1>1, <1>2
<1>8. CASE LockItem(r)
  <2>1. UNCHANGED <<ledger, request>>  BY <1>8 DEF LockItem, Refuse
  <2>2. \/ Finish(r, "rejected")
        \/ /\ Goto(r, "checks") \/ Goto(r, "locations")
           /\ Acquire(r, ItemLock(ItemOf(r)))
    BY <1>8 DEF LockItem, Refuse
  <2> QED  BY <2>1, <2>2, <1>1, <1>3
<1>9. CASE LockLocation(r)
  BY <1>9 DEF LockLocation, Acquire
<1>10. CASE LocationsLocked(r)
  <2>1. UNCHANGED <<ledger, request>>  BY <1>10 DEF LocationsLocked, Refuse
  <2>2. Finish(r, "rejected") \/ (Goto(r, "checks") /\ UNCHANGED locks)
    BY <1>10 DEF LocationsLocked, Refuse
  <2> QED  BY <2>1, <2>2, <1>1, <1>2
<1>11. CASE Check(r)
  <2>1. UNCHANGED <<ledger, request>>  BY <1>11 DEF Check, Refuse
  <2>2. \/ Finish(r, "rejected")
        \/ (Goto(r, "insert") \/ Goto(r, "apply")) /\ UNCHANGED locks
    BY <1>11 DEF Check, Refuse
  <2> QED  BY <2>1, <2>2, <1>1, <1>2
<1>12. CASE Insert(r)
  <2>1. UNCHANGED <<ledger, request>>  BY <1>12 DEF Insert
  <2>2. CASE Finish(r, "error")  BY <2>1, <2>2, <1>1
  <2>3. CASE /\ Goto(r, "commit")
             /\ locks' = [locks EXCEPT ![r] =
                             @ \cup {LocationLock(l) : l \in LocationsOf(r)}]
    <3>1. \A l \in LocationsOf(r) : Free(LocationLock(l), r)  BY <1>12 DEF Insert
    <3> QED  BY <3>1, <2>1, <2>3, <1>12 DEF Goto
  <2> QED  BY <2>2, <2>3, <1>12 DEF Insert
<1>13. CASE Commit(r)
  <2>1. Finish(r, "ok") \/ Finish(r, "error")  BY <1>13 DEF Commit
  <2>2. Others /\ NoNewLock /\ phase'[r] # "commit"  BY <2>1, <1>1
  <2>3. \/ ledger' = ledger
        \/ Finish(r, "ok") /\ ledger' = Append(ledger, OperationOf(r))
    BY <1>13 DEF Commit
  <2> QED  BY <2>2, <2>3, <1>13 DEF Commit
<1>14. CASE ApplyMaster(r)
  <2>1. Finish(r, "ok") \/ Finish(r, "error")  BY <1>14 DEF ApplyMaster
  <2> QED  BY <2>1, <1>1, <1>14 DEF ApplyMaster
<1>15. CASE Create(r)
  <2>1. UNCHANGED <<ledger, request>>  BY <1>15 DEF Create, Refuse
  <2>2. Finish(r, "ok") \/ Finish(r, "rejected")  BY <1>15 DEF Create, Refuse
  <2> QED  BY <2>1, <2>2, <1>1
<1>16. CASE Rollback(r)  BY <1>16, <1>1 DEF Rollback
<1> QED  BY <1>4, <1>5, <1>6, <1>7, <1>8, <1>9, <1>10, <1>11, <1>12, <1>13, <1>14,
            <1>15, <1>16 DEF Step

(* The ledger only grows, so what a request read in it stays as it is.     *)
LEMMA LedgerGrows ==
    ASSUME TypeOK, NEW r \in Requests, Step(r) \/ Rollback(r)
    PROVE  /\ DOMAIN ledger \subseteq DOMAIN ledger'
           /\ \A n \in DOMAIN ledger : ledger'[n] = ledger[n]
<1>1. CASE ledger' = ledger  BY <1>1
<1>2. CASE ledger' = Append(ledger, OperationOf(r))
  <2>1. ledger \in Seq(Operation)  BY DEF TypeOK
  <2> HIDE DEF OperationOf
  <2> QED  BY <2>1, <1>2
<1> QED  BY <1>1, <1>2, Frame

(* What a request works on does not change once it has read its original.  *)
LEMMA WorkIsStable ==
    ASSUME TypeOK, NEW r \in Requests, Step(r) \/ Rollback(r), NEW q \in Requests,
           IsReversal(q) => request[q].target \in DOMAIN ledger
    PROVE  /\ IsReversal(q)' = IsReversal(q)
           /\ IsReversal(q) => Original(q)' = Original(q)
           /\ ItemOf(q)' = ItemOf(q)
           /\ DeltaOf(q)' = DeltaOf(q)
           /\ LocationsOf(q)' = LocationsOf(q)
<1>1. request' = request  BY Frame
<1>2. IsReversal(q)' = IsReversal(q)  BY <1>1 DEF IsReversal
<1>3. IsReversal(q) => Original(q)' = Original(q)  BY <1>1, LedgerGrows DEF Original
<1> QED  BY <1>1, <1>2, <1>3 DEF ItemOf, DeltaOf, LocationsOf

(* No two transactions hold one lock.                                      *)
LEMMA NextLocksExclusive ==
    ASSUME TypeOK, LocksExclusive, NEW r \in Requests, Step(r) \/ Rollback(r)
    PROVE  LocksExclusive'
<1>1. ASSUME NEW p \in Requests, NEW q \in Requests, p # q, NEW x \in locks'[p] \cap locks'[q]
      PROVE  FALSE
  <2>1. CASE p # r /\ q # r
    <3>1. x \in locks[p] \cap locks[q]  BY <2>1, <1>1, Frame
    <3> QED  BY <3>1, <1>1 DEF LocksExclusive
  <2>2. CASE p = r
    <3>1. x \in locks[q]  BY <2>2, <1>1, Frame
    <3>2. x \in locks[r] \/ Free(x, r)  BY <2>2, <1>1, Frame
    <3> QED  BY <3>1, <3>2, <2>2, <1>1 DEF LocksExclusive, Free
  <2>3. CASE q = r
    <3>1. x \in locks[p]  BY <2>3, <1>1, Frame
    <3>2. x \in locks[r] \/ Free(x, r)  BY <2>3, <1>1, Frame
    <3> QED  BY <3>1, <3>2, <2>3, <1>1 DEF LocksExclusive, Free
  <2> QED  BY <2>1, <2>2, <2>3
<1> QED  BY <1>1 DEF LocksExclusive

(* Each statement is reached only where the code contains it.              *)
LEMMA NextPhaseFits ==
    ASSUME TypeOK, PhaseFits, NEW r \in Requests, Step(r) \/ Rollback(r)
    PROVE  PhaseFits'
<1> DEFINE Fits(q) ==
        /\ phase[q] \in {"key", "lookup", "original", "insert", "commit"}
              => request[q].kind \in Posting \cup {"REVERSAL"}
        /\ phase[q] = "original" => IsReversal(q)
        /\ phase[q] = "apply" => request[q].kind \notin Posting \cup {"REVERSAL"}
        /\ phase[q] \in {"item", "locations", "checks", "insert", "commit"} /\ IsReversal(q)
              => request[q].target \in DOMAIN ledger /\ Original(q).kind # "REVERSAL"
<1>1. request' = request  BY Frame
<1>2. ASSUME NEW q \in Requests \ {r} PROVE Fits(q)'
  <2>1. phase'[q] = phase[q]  BY Frame
  <2>2. Fits(q)  BY DEF PhaseFits
  <2>3. IsReversal(q)' = IsReversal(q)  BY <1>1 DEF IsReversal
  <2>4. request[q].target \in DOMAIN ledger =>
            request[q].target \in DOMAIN ledger' /\ Original(q)' = Original(q)
    BY <1>1, LedgerGrows DEF Original
  <2> QED  BY <1>1, <2>1, <2>2, <2>3, <2>4
<1>3. Fits(r)'
  <2>0. Fits(r) /\ IsReversal(r)' = IsReversal(r) /\ request[r] \in Request
    BY <1>1 DEF PhaseFits, IsReversal, TypeOK
  <2>1. CASE phase'[r] = "done"  BY <2>1
  <2>2. CASE phase'[r] = phase[r] /\ ledger' = ledger
    BY <1>1, <2>0, <2>2 DEF Original, IsReversal
  <2>3. CASE phase'[r] # phase[r] /\ phase'[r] # "done"
    <3> USE <1>1, <2>0, <2>3 DEF TypeOK
    <3>1. CASE Arrive(r)
      <4>1. ledger' = ledger /\ phase[r] = "new"  BY <3>1 DEF Arrive, Refuse, Finish
      <4>2. \/ phase'[r] = "key" /\ request[r].kind \in Posting \cup {"REVERSAL"}
            \/ phase'[r] = "item" /\ request[r].kind \in ItemMaster
            \/ phase'[r] = "locations" /\ request[r].kind \in LocationMaster
            \/ phase'[r] = "apply" /\ request[r].kind \in Creation
        BY <3>1 DEF Arrive, Refuse, Finish, Goto, Request, Kind
      <4> QED
        BY <4>2 DEF Posting, Inbound, Outbound, ItemMaster, LocationMaster, Creation, IsReversal
    <3>2. CASE LockKey(r)  BY <3>2 DEF LockKey, Goto
    <3>3. CASE Lookup(r)
      <4>1. \/ phase'[r] = "original" /\ IsReversal(r)
            \/ phase'[r] = "item" /\ ~IsReversal(r)
        BY <3>3 DEF Lookup, Goto, Refuse, Finish
      <4>2. request[r].kind \in Posting \cup {"REVERSAL"}  BY <3>3 DEF Lookup
      <4> QED  BY <4>1, <4>2
    <3>4. CASE ReadOriginal(r)
      <4>1. /\ phase'[r] = "item" /\ ledger' = ledger
            /\ request[r].target \in DOMAIN ledger /\ Original(r).kind # "REVERSAL"
        BY <3>4 DEF ReadOriginal, Goto, Refuse, Finish
      <4> QED  BY <4>1 DEF Original
    <3>5. CASE LockItem(r)
      <4>1. /\ phase[r] = "item" /\ phase'[r] \in {"checks", "locations"}
            /\ ledger' = ledger
        BY <3>5 DEF LockItem, Goto, Refuse, Finish
      <4> QED  BY <4>1 DEF Original
    <3>6. CASE LocationsLocked(r)
      <4>1. phase[r] = "locations" /\ phase'[r] = "checks" /\ ledger' = ledger
        BY <3>6 DEF LocationsLocked, Goto, Refuse, Finish
      <4> QED  BY <4>1 DEF Original
    <3>7. CASE Check(r)
      <4>1. /\ phase[r] = "checks" /\ ledger' = ledger
            /\ \/ phase'[r] = "insert" /\ request[r].kind \in Posting \cup {"REVERSAL"}
               \/ phase'[r] = "apply" /\ request[r].kind \notin Posting \cup {"REVERSAL"}
        BY <3>7 DEF Check, Goto, Refuse, Finish
      <4> QED  BY <4>1 DEF Original
    <3>8. CASE Insert(r)
      <4>1. phase[r] = "insert" /\ phase'[r] = "commit" /\ ledger' = ledger
        BY <3>8 DEF Insert, Goto, Finish
      <4> QED  BY <4>1 DEF Original
    <3>9. CASE LockLocation(r) \/ Commit(r) \/ ApplyMaster(r) \/ Create(r) \/ Rollback(r)
      BY <3>9 DEF LockLocation, Commit, ApplyMaster, Create, Rollback, Refuse, Finish
    <3> QED  BY <3>1, <3>2, <3>3, <3>4, <3>5, <3>6, <3>7, <3>8, <3>9 DEF Step
  <2>4. ledger' = ledger \/ phase'[r] = "done"  BY Frame DEF Finish, TypeOK
  <2> QED  BY <2>1, <2>2, <2>3, <2>4
<1> QED  BY <1>2, <1>3 DEF PhaseFits

-----------------------------------------------------------------------------
(* What a commit does to the balances.                                     *)

(* A commit's operation has its type, and its request kept its original.   *)
LEMMA CommittedOperation ==
    ASSUME TypeOK, PhaseFits, NEW r \in Requests, Commit(r)
    PROVE  /\ phase[r] = "commit"
           /\ request[r].kind \in Posting \cup {"REVERSAL"}
           /\ IsReversal(r) => /\ request[r].target \in DOMAIN ledger
                               /\ Original(r).kind # "REVERSAL"
           /\ OperationOf(r) \in Operation
<1>1. phase[r] = "commit"  BY DEF Commit
<1>2. /\ request[r].kind \in Posting \cup {"REVERSAL"}
      /\ IsReversal(r) => request[r].target \in DOMAIN ledger /\ Original(r).kind # "REVERSAL"
  BY <1>1 DEF PhaseFits
<1> QED  BY <1>1, <1>2, OperationType

(* Every step leaves all balances alone, or adds one operation's effect.   *)
LEMMA NextBalance ==
    ASSUME TypeOK, PhaseFits, Sums, NEW r \in Requests, Step(r) \/ Rollback(r),
           NEW i \in Items, NEW l \in Locations
    PROVE  /\ Adds(ledger', i, l)
           /\ OnHand(i, l) \in Int
           /\ \/ ledger' = ledger /\ OnHand(i, l)' = OnHand(i, l)
              \/ /\ Commit(r) /\ ledger' = Append(ledger, OperationOf(r))
                 /\ OnHand(i, l)' = OnHand(i, l)
                                    + (IF ItemOf(r) = i THEN DeltaOf(r)[l] ELSE 0)
<1>1. OnHand(i, l) \in Int
  <2>1. OnHandIn(ledger, i, l) \in Int
    <3>1. PICK f : IsSum(f, ledger, i, l) /\ f[Len(ledger)] \in Int
                   /\ \A g : IsSum(g, ledger, i, l) => g = f
      BY DEF Sums, Adds
    <3> QED  BY <3>1, OnHandIsSum
  <2> QED  BY <2>1 DEF OnHand
<1>2. CASE ledger' = ledger
  <2>1. Adds(ledger', i, l)  BY <1>2 DEF Sums
  <2>2. OnHand(i, l)' = OnHand(i, l)  BY <1>2 DEF OnHand
  <2> QED  BY <1>1, <1>2, <2>1, <2>2
<1>3. CASE Commit(r) /\ ledger' = Append(ledger, OperationOf(r))
  <2>1. OperationOf(r) \in Operation  BY <1>3, CommittedOperation
  <2>2. ledger \in Seq(Operation) /\ Adds(ledger, i, l)  BY DEF TypeOK, Sums
  <2>3. /\ Adds(ledger', i, l)
        /\ OnHandIn(ledger', i, l) = OnHandIn(ledger, i, l) + Effect(OperationOf(r), i, l)
    BY <2>1, <2>2, <1>3, LongerLedger
  <2>4. Effect(OperationOf(r), i, l) = IF ItemOf(r) = i THEN DeltaOf(r)[l] ELSE 0
    BY DEF Effect, OperationOf
  <2> QED  BY <1>1, <1>3, <2>3, <2>4 DEF OnHand
<1> QED  BY <1>2, <1>3, Frame

(* A waiting commit is not disturbed by another one: their locations are   *)
(* apart, because both hold the locks of theirs.                           *)
LEMMA CommitsApart ==
    ASSUME TypeOK, PhaseFits, LocksExclusive, CommitReady,
           NEW r \in Requests, NEW q \in Requests \ {r},
           phase[r] = "commit", phase[q] = "commit",
           NEW l \in LocationsOf(q)
    PROVE  DeltaOf(r)[l] = 0
<1>1. LocationLock(l) \in locks[q]  BY DEF CommitReady
<1>2. LocationLock(l) \notin locks[r]  BY <1>1 DEF LocksExclusive
<1>3. l \notin LocationsOf(r)  BY <1>2 DEF CommitReady
<1>4. l \in Locations  BY WorkTypes DEF PhaseFits
<1> QED  BY <1>3, <1>4, WorkTypes DEF PhaseFits

(* Nothing is short after a commit.                                        *)
LEMMA NextNeverNegative ==
    ASSUME TypeOK, PhaseFits, CommitReady, Sums, NeverNegative,
           NEW r \in Requests, Step(r) \/ Rollback(r)
    PROVE  NeverNegative'
<1>1. ASSUME NEW i \in Items, NEW l \in Locations PROVE OnHand(i, l)' >= 0
  <2>1. OnHand(i, l) >= 0 /\ OnHand(i, l) \in Int  BY NextBalance DEF NeverNegative
  <2>2. CASE OnHand(i, l)' = OnHand(i, l)  BY <2>1, <2>2
  <2>3. CASE /\ Commit(r)
             /\ OnHand(i, l)' = OnHand(i, l) + (IF ItemOf(r) = i THEN DeltaOf(r)[l] ELSE 0)
    <3>1. /\ phase[r] = "commit"
          /\ IsReversal(r) => request[r].target \in DOMAIN ledger
      BY <2>3, CommittedOperation
    <3>2. CASE ItemOf(r) # i  BY <2>1, <2>3, <3>2
    <3>3. CASE ItemOf(r) = i /\ l \in LocationsOf(r)
      BY <3>1, <3>3, <2>3 DEF CommitReady
    <3>4. CASE l \notin LocationsOf(r)
      <4>1. DeltaOf(r)[l] = 0  BY <3>1, <3>4, WorkTypes
      <4> QED  BY <4>1, <2>1, <2>3
    <3> QED  BY <3>2, <3>3, <3>4
  <2> QED  BY <2>2, <2>3, NextBalance
<1> QED  BY <1>1 DEF NeverNegative

-----------------------------------------------------------------------------
(* What a commit does to the ledger.                                       *)

(* A waiting commit's key and target are unused, by the ledger and by the  *)
(* operation another transaction commits.                                  *)
LEMMA NextCommitReady ==
    ASSUME TypeOK, PhaseFits, LocksExclusive, CommitReady, Sums,
           NEW r \in Requests, Step(r) \/ Rollback(r)
    PROVE  CommitReady'
<1> SUFFICES ASSUME NEW q \in Requests, phase'[q] = "commit"
             PROVE  /\ UniqueIndexesAccept(q)'
                    /\ \A p \in Requests \ {q} : phase'[p] = "commit" => ~Collides(q, p)'
                    /\ \A l \in LocationsOf(q)' :
                        /\ LocationLock(l) \in locks'[q]
                        /\ request'[q].kind = "OPENING_BALANCE" => ~HasMovement(ItemOf(q), l)'
                        /\ OnHand(ItemOf(q), l)' + DeltaOf(q)'[l] >= 0
  BY DEF CommitReady
<1>1. request' = request  BY Frame
<1>2. q = r => Insert(r)  BY Frame
<1>3. IsReversal(q) => request[q].target \in DOMAIN ledger
  <2>1. CASE q = r  BY <2>1, <1>2 DEF PhaseFits, Insert
  <2>2. CASE q # r  BY <2>2, Frame DEF PhaseFits
  <2> QED  BY <2>1, <2>2
<1>4. /\ ItemOf(q)' = ItemOf(q) /\ DeltaOf(q)' = DeltaOf(q)
      /\ LocationsOf(q)' = LocationsOf(q) /\ IsReversal(q)' = IsReversal(q)
  BY <1>3, WorkIsStable
<1>5. LocationsOf(q) \subseteq Locations /\ ItemOf(q) \in Items /\ DeltaOf(q) \in Movements
  BY <1>3, WorkTypes
<1>6. \A p \in Requests \ {q} : phase'[p] = "commit" => ~Collides(q, p)'
  <2>1. ASSUME NEW p \in Requests \ {q}, phase'[p] = "commit" PROVE ~Collides(q, p)
    <3>1. CASE q = r
      <4>1. phase[p] = "commit"  BY <3>1, <2>1, Frame
      <4> QED  BY <4>1, <3>1, <1>2 DEF Insert
    <3>2. CASE p = r
      <4>1. phase[q] = "commit" /\ Insert(r)  BY <3>2, <2>1, Frame
      <4>2. ~Collides(p, q)  BY <4>1, <3>2 DEF Insert
      <4> QED  BY <4>2 DEF Collides
    <3>3. CASE q # r /\ p # r
      <4>1. phase[q] = "commit" /\ phase[p] = "commit"  BY <3>3, <2>1, Frame
      <4> QED  BY <4>1 DEF CommitReady
    <3> QED  BY <3>1, <3>2, <3>3
  <2> QED  BY <2>1, <1>1 DEF Collides, IsReversal
<1>7. CASE q = r
  <2>1. phase[r] = "insert" /\ UniqueIndexesAccept(r) /\ MovementTriggerAccepts(r)
    BY <1>7, <1>2 DEF Insert, Finish, TypeOK
  <2>2. locks' = [locks EXCEPT ![r] = @ \cup {LocationLock(l) : l \in LocationsOf(r)}]
    BY <1>7, <1>2 DEF Insert, Finish, TypeOK
  <2>3. ledger' = ledger  BY <1>2, <1>7 DEF Insert
  <2>4. UniqueIndexesAccept(q)'
    BY <2>1, <2>3, <1>1, <1>7 DEF UniqueIndexesAccept, IsReversal, SameKey
  <2>5. ASSUME NEW l \in LocationsOf(q)
        PROVE  /\ LocationLock(l) \in locks'[q]
               /\ request'[q].kind = "OPENING_BALANCE" => ~HasMovement(ItemOf(q), l)'
               /\ OnHand(ItemOf(q), l)' + DeltaOf(q)'[l] >= 0
    <3>1. LocationLock(l) \in locks'[q]  BY <2>2, <1>7 DEF TypeOK
    <3>2. OnHand(ItemOf(q), l)' = OnHand(ItemOf(q), l)  BY <2>3, <1>4 DEF OnHand
    <3>3. HasMovement(ItemOf(q), l)' = HasMovement(ItemOf(q), l)
      BY <2>3, <1>4 DEF HasMovement
    <3> QED  BY <3>1, <3>2, <3>3, <2>1, <1>1, <1>4, <1>7 DEF MovementTriggerAccepts
  <2> QED  BY <2>4, <2>5, <1>4, <1>6
<1>8. CASE q # r
  <2>1. phase[q] = "commit" /\ locks'[q] = locks[q]  BY <1>8, Frame
  <2>2. CASE ledger' = ledger
    <3>1. UniqueIndexesAccept(q)'
      BY <2>1, <2>2, <1>1 DEF CommitReady, UniqueIndexesAccept, IsReversal, SameKey
    <3>2. ASSUME NEW l \in LocationsOf(q)
          PROVE  /\ LocationLock(l) \in locks'[q]
                 /\ request'[q].kind = "OPENING_BALANCE" => ~HasMovement(ItemOf(q), l)'
                 /\ OnHand(ItemOf(q), l)' + DeltaOf(q)'[l] >= 0
      <4>1. OnHand(ItemOf(q), l)' = OnHand(ItemOf(q), l)  BY <2>2, <1>4 DEF OnHand
      <4>2. HasMovement(ItemOf(q), l)' = HasMovement(ItemOf(q), l)
        BY <2>2, <1>4 DEF HasMovement
      <4> QED  BY <4>1, <4>2, <2>1, <1>1, <1>4 DEF CommitReady
    <3> QED  BY <3>1, <3>2, <1>4, <1>6
  <2>3. CASE Commit(r) /\ ledger' = Append(ledger, OperationOf(r))
    <3> DEFINE op == OperationOf(r)
    <3>1. /\ phase[r] = "commit" /\ op \in Operation /\ ledger \in Seq(Operation)
          /\ IsReversal(r) => request[r].target \in DOMAIN ledger
      BY <2>3, CommittedOperation DEF TypeOK
    <3>2. /\ op.key = request[r].key /\ op.item = ItemOf(r) /\ op.delta = DeltaOf(r)
          /\ op.target = IF IsReversal(r) THEN request[r].target ELSE 0
      BY DEF OperationOf
    <3> HIDE DEF op
    <3>3. ~Collides(q, r)  BY <1>8, <2>1, <3>1 DEF CommitReady
    <3>4. \A n \in DOMAIN ledger' : (n \in DOMAIN ledger /\ ledger'[n] = ledger[n])
                                    \/ ledger'[n] = op
      BY <2>3, <3>1 DEF op
    <3>5. UniqueIndexesAccept(q)'
      <4>1. UniqueIndexesAccept(q)  BY <2>1 DEF CommitReady
      <4>2. op.key # request[q].key  BY <3>2, <3>3 DEF Collides
      <4>3. IsReversal(q) => op.target # request[q].target
        <5>1. IsReversal(q) => request[q].target # 0  BY <1>3, <3>1
        <5> QED  BY <5>1, <3>2, <3>3 DEF Collides
      <4> QED  BY <4>1, <4>2, <4>3, <3>4, <1>1 DEF UniqueIndexesAccept, IsReversal, SameKey
    <3>6. ASSUME NEW l \in LocationsOf(q)
          PROVE  /\ LocationLock(l) \in locks'[q]
                 /\ request'[q].kind = "OPENING_BALANCE" => ~HasMovement(ItemOf(q), l)'
                 /\ OnHand(ItemOf(q), l)' + DeltaOf(q)'[l] >= 0
      <4>0. l \in Locations  BY <1>5
      <4>1. DeltaOf(r)[l] = 0  BY <1>8, <2>1, <3>1, CommitsApart
      <4>2. OnHand(ItemOf(q), l)' = OnHand(ItemOf(q), l)
        <5>1. \/ OnHandIn(ledger', ItemOf(q), l) = OnHandIn(ledger, ItemOf(q), l)
              \/ OnHandIn(ledger', ItemOf(q), l)
                    = OnHandIn(ledger, ItemOf(q), l)
                      + (IF ItemOf(r) = ItemOf(q) THEN DeltaOf(r)[l] ELSE 0)
          <6>1. ASSUME NEW i \in Items
                PROVE  \/ OnHandIn(ledger', i, l) = OnHandIn(ledger, i, l)
                       \/ OnHandIn(ledger', i, l)
                            = OnHandIn(ledger, i, l)
                              + (IF ItemOf(r) = i THEN DeltaOf(r)[l] ELSE 0)
            BY <4>0, NextBalance DEF OnHand
          <6> QED  BY <6>1, <1>5
        <5>2. OnHandIn(ledger, ItemOf(q), l) \in Int
          <6>1. \A i \in Items : OnHandIn(ledger, i, l) \in Int
            BY <4>0, NextBalance DEF OnHand
          <6> QED  BY <6>1, <1>5
        <5> QED  BY <5>1, <5>2, <4>1, <1>4 DEF OnHand
      <4>3. HasMovement(ItemOf(q), l)' => HasMovement(ItemOf(q), l)
        BY <4>1, <3>2, <3>4, <1>4 DEF HasMovement
      <4> QED  BY <4>2, <4>3, <2>1, <1>1, <1>4 DEF CommitReady
    <3> QED  BY <3>5, <3>6, <1>4, <1>6
  <2> QED  BY <2>2, <2>3, Frame
<1> QED  BY <1>7, <1>8

(* A key is used once.                                                     *)
LEMMA NextOneOperationPerKey ==
    ASSUME TypeOK, PhaseFits, CommitReady, OneOperationPerKey,
           NEW r \in Requests, Step(r) \/ Rollback(r)
    PROVE  OneOperationPerKey'
<1>1. CASE ledger' = ledger  BY <1>1 DEF OneOperationPerKey
<1>2. CASE Commit(r) /\ ledger' = Append(ledger, OperationOf(r))
  <2> DEFINE op == OperationOf(r)
  <2>1. op \in Operation /\ ledger \in Seq(Operation)
    BY <1>2, CommittedOperation DEF TypeOK
  <2>2. \A n \in DOMAIN ledger : ledger[n].key # op.key
    BY <1>2, CommittedOperation DEF CommitReady, UniqueIndexesAccept, OperationOf, SameKey
  <2> HIDE DEF op
  <2>3. /\ DOMAIN ledger' = 1..(Len(ledger) + 1) /\ DOMAIN ledger = 1..Len(ledger)
        /\ ledger'[Len(ledger) + 1] = op
        /\ \A n \in DOMAIN ledger : ledger'[n] = ledger[n]
    BY <1>2, <2>1 DEF op
  <2> QED  BY <2>2, <2>3 DEF OneOperationPerKey
<1> QED  BY <1>1, <1>2, Frame

(* A committed reversal undoes an operation nothing has undone.            *)
LEMMA NextReversalsAreExact ==
    ASSUME TypeOK, PhaseFits, CommitReady, ReversalsAreExact,
           NEW r \in Requests, Step(r) \/ Rollback(r)
    PROVE  ReversalsAreExact'
<1>1. CASE ledger' = ledger  BY <1>1 DEF ReversalsAreExact
<1>2. CASE Commit(r) /\ ledger' = Append(ledger, OperationOf(r))
  <2> DEFINE op == OperationOf(r)
             N == Len(ledger)
  <2>1. op \in Operation /\ ledger \in Seq(Operation) /\ N \in Nat
    BY <1>2, CommittedOperation DEF TypeOK
  <2>2. op.kind = "REVERSAL" => IsReversal(r)  BY DEF OperationOf, IsReversal
  <2>3. IsReversal(r) =>
            /\ op.target = request[r].target /\ op.target \in 1..N
            /\ ledger[op.target].kind # "REVERSAL"
            /\ op.item = ledger[op.target].item
            /\ op.delta = InverseDelta(ledger[op.target])
            /\ \A n \in DOMAIN ledger : ledger[n].target # op.target
    <3>1. IsReversal(r) => /\ request[r].target \in DOMAIN ledger
                           /\ Original(r).kind # "REVERSAL"
      BY <1>2, CommittedOperation
    <3>2. UniqueIndexesAccept(r)  BY <1>2, CommittedOperation DEF CommitReady
    <3> QED  BY <3>1, <3>2, <2>1 DEF OperationOf, ItemOf, DeltaOf, Original, UniqueIndexesAccept
  <2> HIDE DEF op
  <2>4. /\ DOMAIN ledger' = 1..(N + 1) /\ DOMAIN ledger = 1..N
        /\ ledger'[N + 1] = op /\ \A n \in 1..N : ledger'[n] = ledger[n]
    BY <1>2, <2>1 DEF op
  <2> HIDE DEF N
  <2>5. ASSUME NEW n \in 1..(N + 1), ledger'[n].kind = "REVERSAL"
        PROVE  /\ ledger'[n].target \in 1..(n - 1)
               /\ ledger'[ledger'[n].target].kind # "REVERSAL"
               /\ ledger'[n].item = ledger'[ledger'[n].target].item
               /\ \A l \in Locations :
                    ledger'[n].delta[l] + ledger'[ledger'[n].target].delta[l] = 0
               /\ \A k \in 1..(N + 1) :
                    ledger'[k].kind = "REVERSAL" /\ ledger'[k].target = ledger'[n].target
                    => k = n
    <3>1. CASE n \in 1..N
      <4>1. ledger'[n] = ledger[n] /\ ledger[n].target \in 1..(n - 1)
        BY <3>1, <2>4, <2>5 DEF ReversalsAreExact
      <4>2. ledger[n].target \in 1..N  BY <4>1, <3>1, <2>1
      <4>3. \A k \in 1..N : ledger'[k].kind = "REVERSAL"
                            /\ ledger'[k].target = ledger'[n].target => k = n
        BY <3>1, <2>4, <2>5 DEF ReversalsAreExact
      <4>4. op.kind = "REVERSAL" => op.target # ledger[n].target
        BY <3>1, <2>2, <2>3, <2>4
      <4> QED  BY <4>1, <4>2, <4>3, <4>4, <3>1, <2>1, <2>4, <2>5 DEF ReversalsAreExact
    <3>2. CASE n = N + 1
      <4>1. IsReversal(r)  BY <3>2, <2>2, <2>4, <2>5
      <4>2. op.target \in 1..N /\ ledger'[op.target] = ledger[op.target]
        BY <4>1, <2>3, <2>4
      <4>3. \A l \in Locations : op.delta[l] + ledger[op.target].delta[l] = 0
        <5>1. ledger[op.target] \in Operation  BY <4>2, <2>1, <2>4
        <5> QED  BY <5>1, <4>1, <2>3 DEF InverseDelta, Operation, Movements
      <4> QED  BY <4>1, <4>2, <4>3, <3>2, <2>1, <2>3, <2>4
    <3> QED  BY <3>1, <3>2, <2>1
  <2> QED  BY <2>4, <2>5 DEF ReversalsAreExact
<1> QED  BY <1>1, <1>2, Frame

(* An opening balance is committed only where nothing has moved.           *)
LEMMA NextOpeningComesFirst ==
    ASSUME TypeOK, PhaseFits, CommitReady, OpeningComesFirst,
           NEW r \in Requests, Step(r) \/ Rollback(r)
    PROVE  OpeningComesFirst'
<1>1. CASE ledger' = ledger  BY <1>1 DEF OpeningComesFirst
<1>2. CASE Commit(r) /\ ledger' = Append(ledger, OperationOf(r))
  <2> DEFINE op == OperationOf(r)
             N == Len(ledger)
  <2>1. op \in Operation /\ ledger \in Seq(Operation) /\ N \in Nat
    BY <1>2, CommittedOperation DEF TypeOK
  <2>2. ASSUME op.kind = "OPENING_BALANCE", NEW l \in Locations, op.delta[l] # 0,
               NEW k \in 1..N, ledger[k].item = op.item
        PROVE  ledger[k].delta[l] = 0
    <3>1. l \in LocationsOf(r)
      BY <2>2, <1>2, CommittedOperation, WorkTypes DEF OperationOf
    <3>2. ~HasMovement(ItemOf(r), l)
      BY <2>2, <3>1, <1>2, CommittedOperation DEF CommitReady, OperationOf
    <3> QED  BY <3>2, <2>2 DEF HasMovement, OperationOf
  <2> HIDE DEF op
  <2>3. /\ DOMAIN ledger' = 1..(N + 1) /\ DOMAIN ledger = 1..N
        /\ ledger'[N + 1] = op /\ \A n \in 1..N : ledger'[n] = ledger[n]
    BY <1>2, <2>1 DEF op
  <2> HIDE DEF N
  <2>4. ASSUME NEW n \in 1..(N + 1), ledger'[n].kind = "OPENING_BALANCE",
               NEW k \in 1..(n - 1), NEW l \in Locations,
               ledger'[n].delta[l] # 0, ledger'[k].item = ledger'[n].item
        PROVE  ledger'[k].delta[l] = 0
    <3>1. k \in 1..N  BY <2>1
    <3>2. CASE n \in 1..N  BY <3>1, <3>2, <2>3, <2>4 DEF OpeningComesFirst
    <3>3. CASE n = N + 1  BY <3>1, <3>3, <2>2, <2>3, <2>4
    <3> QED  BY <3>2, <3>3, <2>1
  <2> QED  BY <2>3, <2>4 DEF OpeningComesFirst
<1> QED  BY <1>1, <1>2, Frame

(* What a client was told is in the ledger and stays there.                *)
LEMMA NextAnswersAreTrue ==
    ASSUME TypeOK, PhaseFits, AnswersAreTrue,
           NEW r \in Requests, Step(r) \/ Rollback(r)
    PROVE  AnswersAreTrue'
<1> DEFINE Recorded(q) == \E n \in DOMAIN ledger :
                            /\ ledger[n].key = request[q].key
                            /\ ledger[n].by = request[q].actor
                            /\ SameIntent(ledger[n].intent, request[q])
           Told(q) == /\ reply[q] \in {"ok", "replayed"}
                      /\ request[q].kind \in Posting \cup {"REVERSAL"}
<1>1. request' = request  BY Frame
<1>2. \A q \in Requests : Recorded(q) => Recorded(q)'
  BY <1>1, LedgerGrows DEF SameIntent
<1>3. ASSUME NEW q \in Requests, Told(q)', reply'[q] = reply[q] PROVE Recorded(q)'
  BY <1>1, <1>2, <1>3 DEF AnswersAreTrue
<1>4. ASSUME Told(r)', reply'[r] # reply[r] PROVE Recorded(r)'
  <2> USE <1>4, <1>1
  <2>1. CASE Lookup(r)
    <3>1. reply'[r] # "rejected"  OBVIOUS
    <3>2. ~Refuse(r) /\ ~Goto(r, "original") /\ ~Goto(r, "item")
      BY <3>1 DEF Refuse, Finish, Goto, TypeOK
    <3> DEFINE mine == {n \in {k \in DOMAIN ledger : SameKey(ledger[k], request[r])} :
                          ledger[n].by = request[r].actor
                          /\ SameIntent(ledger[n].intent, request[r])}
    <3>3. ledger' = ledger /\ mine # {}  BY <3>2, <2>1 DEF Lookup
    <3> QED  BY <3>3 DEF SameIntent, SameKey
  <2>2. CASE Commit(r)
    <3>1. ledger' = Append(ledger, OperationOf(r))
      BY <2>2 DEF Commit, Finish, TypeOK
    <3>2. OperationOf(r) \in Operation /\ ledger \in Seq(Operation)
      BY <2>2, CommittedOperation DEF TypeOK
    <3>3. /\ OperationOf(r).key = request[r].key /\ OperationOf(r).by = request[r].actor
          /\ SameIntent(OperationOf(r).intent, request[r])
      BY DEF OperationOf, SameIntent
    <3> HIDE DEF OperationOf
    <3>4. Len(ledger) + 1 \in DOMAIN ledger' /\ ledger'[Len(ledger) + 1] = OperationOf(r)
      BY <3>1, <3>2
    <3> QED  BY <3>3, <3>4 DEF SameIntent
  <2>3. CASE ApplyMaster(r) \/ Create(r)
    <3>1. phase[r] = "apply"  BY <2>3 DEF ApplyMaster, Create
    <3> QED  BY <3>1 DEF PhaseFits
  <2>4. CASE \/ Arrive(r) \/ LockKey(r) \/ ReadOriginal(r) \/ LockItem(r) \/ LockLocation(r)
             \/ LocationsLocked(r) \/ Check(r) \/ Insert(r) \/ Rollback(r)
    <3>1. \/ reply'[r] = reply[r]
          \/ \E a \in {"rejected", "error", "lost"} : Finish(r, a)
      BY <2>4 DEF Arrive, LockKey, ReadOriginal, LockItem, LockLocation, LocationsLocked,
                  Check, Insert, Rollback, Refuse, Goto
    <3> QED  BY <3>1 DEF Finish, TypeOK
  <2> QED  BY <2>1, <2>2, <2>3, <2>4 DEF Step
<1>5. \A q \in Requests \ {r} : reply'[q] = reply[q]  BY Frame
<1>6. \A q \in Requests : Told(q)' => Recorded(q)'  BY <1>3, <1>4, <1>5
<1> QED  BY <1>6 DEF AnswersAreTrue

-----------------------------------------------------------------------------
(* The first invariant.                                                    *)

(* The invariant holds before the first request arrives.                   *)
LEMMA InitIInv == Init => IInv
<1> SUFFICES ASSUME Init PROVE IInv  OBVIOUS
<1>1. TypeOK  BY InitTypeOK
<1>2. ledger = <<>>  BY DEF Init
<1>3. Sums  BY <1>2, EmptyLedger DEF Sums
<1>4. NeverNegative
  <2>1. \A i \in Items, l \in Locations : OnHandIn(ledger, i, l) = 0  BY <1>2, EmptyLedger
  <2> QED  BY <2>1 DEF NeverNegative, OnHand
<1>5. PhaseFits /\ LocksExclusive /\ CommitReady /\ AnswersAreTrue
  BY DEF Init, PhaseFits, LocksExclusive, CommitReady, AnswersAreTrue
<1>6. OneOperationPerKey /\ ReversalsAreExact /\ OpeningComesFirst
  BY <1>2 DEF OneOperationPerKey, ReversalsAreExact, OpeningComesFirst
<1> QED  BY <1>1, <1>3, <1>4, <1>5, <1>6 DEF IInv

(* Every step keeps it.                                                    *)
LEMMA NextIInv == IInv /\ [Next]_vars => IInv'
<1> SUFFICES ASSUME IInv, [Next]_vars PROVE IInv'  OBVIOUS
<1>1. TypeOK'  BY NextTypeOK DEF IInv
<1>2. CASE UNCHANGED vars
  BY <1>2 DEF vars, IInv, TypeOK, PhaseFits, LocksExclusive, CommitReady, Sums,
     NeverNegative, OneOperationPerKey, ReversalsAreExact, OpeningComesFirst,
     AnswersAreTrue, OnHand, UniqueIndexesAccept, Collides, LocationsOf, ItemOf, DeltaOf,
     IsReversal, Original, HasMovement, SameKey
<1>3. ASSUME NEW r \in Requests, Step(r) \/ Rollback(r) PROVE IInv'
  <2>1. PhaseFits'  BY <1>3, NextPhaseFits DEF IInv
  <2>2. LocksExclusive'  BY <1>3, NextLocksExclusive DEF IInv
  <2>3. CommitReady'  BY <1>3, NextCommitReady DEF IInv
  <2>4. Sums'
    <3>1. \A i \in Items, l \in Locations : Adds(ledger', i, l)  BY <1>3, NextBalance DEF IInv
    <3> QED  BY <3>1 DEF Sums
  <2>5. NeverNegative'  BY <1>3, NextNeverNegative DEF IInv
  <2>6. OneOperationPerKey'  BY <1>3, NextOneOperationPerKey DEF IInv
  <2>7. ReversalsAreExact'  BY <1>3, NextReversalsAreExact DEF IInv
  <2>8. OpeningComesFirst'  BY <1>3, NextOpeningComesFirst DEF IInv
  <2>9. AnswersAreTrue'  BY <1>3, NextAnswersAreTrue DEF IInv
  <2> QED  BY <1>1, <2>1, <2>2, <2>3, <2>4, <2>5, <2>6, <2>7, <2>8, <2>9 DEF IInv
<1> QED  BY <1>2, <1>3 DEF Next

(* In every reachable state of every instance the variables have their     *)
(* types and the strengthened invariant holds.                             *)
THEOREM InventoryInvariant == Spec => []IInv
<1> QED  BY InitIInv, NextIInv, PTL DEF Spec

-----------------------------------------------------------------------------
(* What a transaction holds and knows between its statements.              *)

(* A posting or a reversal: the requests that move stock.                  *)
MovesStock(r) == request[r].kind \in Posting \cup {"REVERSAL"}

(* The statements a kind of request goes through after its arrival.        *)
OnItsPath(r) ==
    /\ ValidBody(request[r])
    /\ MovesStock(r) => phase[r] # "apply"
    /\ request[r].kind \in ItemMaster => phase[r] \in {"item", "checks", "apply"}
    /\ request[r].kind \in LocationMaster => phase[r] \in {"locations", "checks", "apply"}
    /\ request[r].kind \in Creation => phase[r] = "apply"

(* The locks of the statements it has passed.                              *)
HoldsItsLocks(r) ==
    /\ MovesStock(r)
       /\ phase[r] \in {"lookup", "original", "item", "locations", "checks", "insert", "commit"}
       => KeyLock(request[r].key) \in locks[r]
    /\ \/ MovesStock(r) /\ phase[r] \in {"locations", "checks", "insert", "commit"}
       \/ request[r].kind \in ItemMaster /\ phase[r] \in {"checks", "apply"}
       => ItemLock(ItemOf(r)) \in locks[r]
    /\ \/ MovesStock(r) /\ phase[r] \in {"checks", "insert", "commit"}
       \/ request[r].kind \in LocationMaster /\ phase[r] \in {"checks", "apply"}
       => \A l \in LocationsOf(r) : LocationLock(l) \in locks[r]

(* Its masters are as it found them.                                       *)
FindsItsMasters(r) ==
    /\ MovesStock(r) /\ phase[r] \in {"locations", "checks", "insert", "commit"}
       => /\ items[ItemOf(r)].status = "ACTIVE"
          /\ ~IsReversal(r) => items[ItemOf(r)].uom # NoUnit
    /\ MovesStock(r) /\ phase[r] \in {"checks", "insert", "commit"}
       => \A l \in LocationsOf(r) : locations[l].status = "ACTIVE"
    /\ request[r].kind \in ItemMaster /\ phase[r] \in {"checks", "apply"}
       => /\ items[request[r].item].status # "ABSENT"
          /\ items[request[r].item].version = request[r].seen
    /\ request[r].kind \in LocationMaster /\ phase[r] \in {"checks", "apply"}
       => /\ locations[request[r].loc].status # "ABSENT"
          /\ locations[request[r].loc].version = request[r].seen

(* No operation has its idempotency key.                                   *)
NewKey(r) == \A n \in DOMAIN ledger : ledger[n].key # request[r].key
(* Its insert would be accepted now.                                       *)
StockAllows(r) ==
    /\ IsReversal(r) => ~AlreadyReversed(request[r].target)
    /\ \A l \in LocationsOf(r) :
        /\ request[r].kind = "OPENING_BALANCE" => ~HasMovement(ItemOf(r), l)
        /\ OnHand(ItemOf(r), l) + DeltaOf(r)[l] >= 0
(* Its update of a master row would be accepted now.                       *)
HistoryAllows(r) ==
    /\ request[r].kind = "UPDATE_ITEM" /\ items[request[r].item].uom # request[r].unit
       => ~ItemHasMovements(request[r].item)
    /\ request[r].kind = "ARCHIVE_ITEM"
       => \A l \in Locations : OnHand(request[r].item, l) = 0
    /\ request[r].kind = "ARCHIVE_LOCATION"
       => \A i \in Items : OnHand(i, request[r].loc) = 0

(* What its checks have found still holds.                                 *)
ChecksHoldOn(r) ==
    /\ MovesStock(r)
       /\ phase[r] \in {"original", "item", "locations", "checks", "insert", "commit"}
       => NewKey(r)
    /\ MovesStock(r) /\ phase[r] \in {"insert", "commit"} => StockAllows(r)
    /\ phase[r] = "apply" => HistoryAllows(r)

UnderWay(r) == phase[r] \notin {"new", "done"}

(* Every request under way is on its path, locked and informed.            *)
Guarded ==
    \A r \in Requests : UnderWay(r) =>
        /\ OnItsPath(r)
        /\ HoldsItsLocks(r)
        /\ FindsItsMasters(r)
        /\ ChecksHoldOn(r)

(* Every operation moves something, a posting one location or two.         *)
Moved(op) == {l \in Locations : op.delta[l] # 0}
OnePlace(op) == \E l \in Locations : Moved(op) = {l}
TwoPlaces(op) ==
    \E a, b \in Locations : a # b /\ Moved(op) = {a, b} /\ op.delta[a] = -op.delta[b]
WellShaped(op) ==
    /\ Moved(op) # {}
    /\ op.kind # "REVERSAL" => op.target = 0 /\ (OnePlace(op) \/ TwoPlaces(op))
LedgerIsShaped == \A n \in DOMAIN ledger : WellShaped(ledger[n])

(* An item that ever moved exists and has a unit.                          *)
MovedHaveUnits ==
    \A i \in Items : ItemHasMovements(i) => items[i].status # "ABSENT" /\ items[i].uom # NoUnit

(* The second inductive invariant, on top of the first.                    *)
GuardInv ==
    /\ IInv
    /\ Guarded
    /\ LedgerIsShaped
    /\ MovedHaveUnits
    /\ ArchivedHoldsNothing
    /\ DatabaseGuardsStaySilent

-----------------------------------------------------------------------------
(* Sums over the masters.                                                  *)

(* The element a sum over s takes first.                                   *)
AnyOf(s) == CHOOSE x \in s : TRUE

(* g has the value a sum of f has on every subset of a set that D holds.   *)
SumsUp(g, f, D) ==
    g = [s \in D |-> IF s = {} THEN 0 ELSE f[AnyOf(s)] + g[s \ {AnyOf(s)}]]

(* A set that is not empty has an element to take first.                   *)
LEMMA AnyIsIn ==
    ASSUME NEW s, s # {}
    PROVE  AnyOf(s) \in s
BY DEF AnyOf

(* The subsets of S with at most n elements.                               *)
UpTo(S, n) == {s \in SUBSET S : Cardinality(s) =< n}

(* Taking an element out of a subset leaves a smaller one.                 *)
LEMMA Smaller ==
    ASSUME NEW S, IsFiniteSet(S), NEW s \in SUBSET S
    PROVE  /\ IsFiniteSet(s) /\ Cardinality(s) \in Nat
           /\ s = {} <=> Cardinality(s) = 0
           /\ s # {} => /\ AnyOf(s) \in s
                        /\ s \ {AnyOf(s)} \in SUBSET S
                        /\ Cardinality(s \ {AnyOf(s)}) = Cardinality(s) - 1
<1>1. IsFiniteSet(s)  BY FS_Subset
<1>2. Cardinality(s) \in Nat /\ (s = {} <=> Cardinality(s) = 0)
  BY <1>1, FS_CardinalityType, FS_EmptySet
<1>3. ASSUME s # {} PROVE AnyOf(s) \in s  BY <1>3, AnyIsIn
<1>4. ASSUME s # {} PROVE Cardinality(s \ {AnyOf(s)}) = Cardinality(s) - 1
  BY <1>1, <1>3, <1>4, FS_RemoveElement
<1> QED  BY <1>1, <1>2, <1>3, <1>4

(* A running sum over the subsets with at most n elements exists.          *)
LEMMA SumsUpTo ==
    ASSUME NEW S, IsFiniteSet(S), NEW f, NEW n \in Nat
    PROVE  \E g : SumsUp(g, f, UpTo(S, n))
<1> DEFINE Bad == {k \in Nat : ~\E g : SumsUp(g, f, UpTo(S, k))}
<1>1. SUFFICES ASSUME Bad # {} PROVE FALSE  BY Zenon
<1> DEFINE R == {pair \in Nat \X Nat : pair[1] < pair[2]}
<1>2. IsWellFoundedOn(R, Nat)  BY LessThan, NatLessThanWellFounded, Zenon
<1>3. Bad \subseteq Nat  OBVIOUS
<1> HIDE DEF R, Bad
<1>4. PICK k \in Bad : \A j \in Bad : <<j, k>> \notin R  BY <1>1, <1>2, <1>3, WFMin
<1>5. k \in Nat  BY <1>3, <1>4
<1>6. CASE k = 0
  <2> DEFINE g == [s \in UpTo(S, 0) |-> 0]
  <2>1. ASSUME NEW s \in UpTo(S, 0) PROVE s = {}
    <3>1. s \in SUBSET S /\ Cardinality(s) =< 0  BY DEF UpTo
    <3>2. Cardinality(s) \in Nat /\ (s = {} <=> Cardinality(s) = 0)  BY <3>1, Smaller
    <3>3. Cardinality(s) = 0  BY <3>1, <3>2
    <3> QED  BY <3>2, <3>3
  <2>2. SumsUp(g, f, UpTo(S, 0))
    BY <2>1 DEF SumsUp
  <2> HIDE DEF g
  <2> QED  BY <2>2, <1>4, <1>6 DEF Bad
<1>7. CASE k # 0
  <2> DEFINE j == k - 1
  <2>1. j \in Nat /\ j < k  BY <1>5, <1>7
  <2> HIDE DEF j
  <2>2. <<j, k>> \in R  BY <2>1, <1>5 DEF R
  <2>3. j \notin Bad  BY <2>2, <1>4
  <2>4. PICK h : SumsUp(h, f, UpTo(S, j))  BY <2>1, <2>3, Zenon DEF Bad
  <2> DEFINE rest(s) == s \ {AnyOf(s)}
             val(s) == IF s = {} THEN 0 ELSE f[AnyOf(s)] + h[rest(s)]
             g == [s \in UpTo(S, k) |-> val(s)]
  <2>5. ASSUME NEW s \in UpTo(S, k), s # {} PROVE rest(s) \in UpTo(S, j)
    <3>1. s \in SUBSET S /\ Cardinality(s) =< k  BY DEF UpTo
    <3>2. rest(s) \in SUBSET S /\ Cardinality(rest(s)) = Cardinality(s) - 1 /\ Cardinality(s) \in Nat
      BY <3>1, <2>5, Smaller
    <3> HIDE DEF rest
    <3>3. Cardinality(rest(s)) =< j  BY <3>1, <3>2, <1>5, <2>1 DEF j
    <3> QED  BY <3>2, <3>3 DEF UpTo
  <2>6. ASSUME NEW s \in UpTo(S, j) PROVE h[s] = val(s) /\ s \in UpTo(S, k)
    <3>1. h[s] = val(s)  BY <2>4 DEF SumsUp
    <3>2. s \in SUBSET S /\ Cardinality(s) =< j /\ Cardinality(s) \in Nat  BY Smaller DEF UpTo
    <3>3. Cardinality(s) =< k  BY <3>2, <2>1, <1>5
    <3> QED  BY <3>1, <3>2, <3>3 DEF UpTo
  <2> HIDE DEF rest
  <2>7. ASSUME NEW s \in UpTo(S, k), s # {} PROVE g[rest(s)] = h[rest(s)]
    <3>1. rest(s) \in UpTo(S, j)  BY <2>5, <2>7
    <3>2. h[rest(s)] = val(rest(s)) /\ rest(s) \in UpTo(S, k)  BY <3>1, <2>6
    <3> HIDE DEF val
    <3> QED  BY <3>2
  <2>8. ASSUME NEW s \in UpTo(S, k)
        PROVE  val(s) = IF s = {} THEN 0 ELSE f[AnyOf(s)] + g[rest(s)]
    <3>1. CASE s = {}  BY <3>1
    <3>2. CASE s # {}
      <4>1. g[rest(s)] = h[rest(s)]  BY <3>2, <2>7
      <4> HIDE DEF g
      <4> QED  BY <3>2, <4>1
    <3> QED  BY <3>1, <3>2
  <2>9. g = [s \in UpTo(S, k) |-> IF s = {} THEN 0 ELSE f[AnyOf(s)] + g[rest(s)]]
    <3>1. g = [s \in UpTo(S, k) |-> val(s)]  OBVIOUS
    <3> HIDE DEF g, val
    <3> QED  BY <3>1, <2>8
  <2>10. SumsUp(g, f, UpTo(S, k))
    <3> HIDE DEF g
    <3> QED  BY <2>9, Zenon DEF SumsUp, rest
  <2> HIDE DEF g
  <2> QED  BY <2>10, <1>4 DEF Bad
<1> QED  BY <1>6, <1>7

(* The running sum over all subsets of a finite set exists.                *)
LEMMA SumExists ==
    ASSUME NEW S, IsFiniteSet(S), NEW f
    PROVE  \E g : SumsUp(g, f, SUBSET S)
<1>1. Cardinality(S) \in Nat  BY FS_CardinalityType
<1>2. UpTo(S, Cardinality(S)) = SUBSET S
  <2>1. ASSUME NEW s \in SUBSET S PROVE Cardinality(s) =< Cardinality(S)
    BY FS_Subset
  <2> QED  BY <2>1 DEF UpTo
<1>3. \A n \in Nat : \E g : SumsUp(g, f, UpTo(S, n))
  <2> SUFFICES ASSUME NEW n \in Nat PROVE \E g : SumsUp(g, f, UpTo(S, n))  OBVIOUS
  <2> QED  BY SumsUpTo
<1>4. \E g : SumsUp(g, f, UpTo(S, Cardinality(S)))  BY <1>1, <1>3
<1> QED  BY <1>2, <1>4, Zenon

(* A sum of naturals is zero when, and only when, all of them are.         *)
LEMMA SumOfNaturals ==
    ASSUME NEW S, IsFiniteSet(S), NEW f, \A x \in S : f[x] \in Nat,
           NEW g, SumsUp(g, f, SUBSET S)
    PROVE  g[S] \in Nat /\ (g[S] = 0 <=> \A x \in S : f[x] = 0)
<1> DEFINE Ok(s) == g[s] \in Nat /\ (g[s] = 0 <=> \A x \in s : f[x] = 0)
           Bad == {Cardinality(s) : s \in {t \in SUBSET S : ~Ok(t)}}
<1>1. SUFFICES ASSUME ~Ok(S) PROVE FALSE  OBVIOUS
<1> DEFINE R == {pair \in Nat \X Nat : pair[1] < pair[2]}
<1>2. IsWellFoundedOn(R, Nat)  BY LessThan, NatLessThanWellFounded, Zenon
<1>3. Bad \subseteq Nat
  <2>1. \A t \in SUBSET S : Cardinality(t) \in Nat  BY Smaller
  <2> HIDE DEF Ok
  <2> QED  BY <2>1
<1>4. Bad # {}  BY <1>1
<1> HIDE DEF R, Bad
<1>5. PICK k \in Bad : \A j \in Bad : <<j, k>> \notin R  BY <1>2, <1>3, <1>4, WFMin
<1>6. PICK s \in SUBSET S : k = Cardinality(s) /\ ~Ok(s)  BY <1>5 DEF Bad
<1>7. k \in Nat  BY <1>3, <1>5
<1>8. g[s] = IF s = {} THEN 0 ELSE f[AnyOf(s)] + g[s \ {AnyOf(s)}]
  BY Zenon DEF SumsUp
<1>9. CASE s = {}  BY <1>8, <1>9, <1>6
<1>10. CASE s # {}
  <2> DEFINE x == AnyOf(s)
             rest == s \ {AnyOf(s)}
  <2>1. x \in s /\ rest \in SUBSET S /\ Cardinality(rest) = k - 1 /\ k # 0
    BY <1>6, <1>10, Smaller
  <2>2. s = rest \cup {x}  BY <2>1
  <2>3. g[s] = f[x] + g[rest]  BY <1>8, <1>10
  <2> HIDE DEF x, rest
  <2>4. <<k - 1, k>> \in R  BY <2>1, <1>7 DEF R
  <2>5. Ok(rest)
    <3>1. k - 1 \notin Bad  BY <2>4, <1>5
    <3> HIDE DEF Ok
    <3> QED  BY <3>1, <2>1 DEF Bad
  <2>6. f[x] \in Nat /\ g[rest] \in Nat  BY <2>1, <2>5
  <2>7. g[s] \in Nat /\ (g[s] = 0 <=> f[x] = 0 /\ g[rest] = 0)  BY <2>3, <2>6
  <2>8. Ok(s)  BY <2>2, <2>5, <2>7
  <2> QED  BY <2>8, <1>6
<1> QED  BY <1>9, <1>10

(* The balance of an item over all locations, and of a location over all   *)
(* items, is zero when there is nothing of it anywhere.                    *)
LEMMA EmptyItem ==
    ASSUME NEW i, \A l \in Locations : OnHand(i, l) \in Nat
    PROVE  ItemBalance(i) = 0 <=> \A l \in Locations : OnHand(i, l) = 0
<1> DEFINE f == [l \in Locations |-> OnHand(i, l)]
           Is(g) == g = [s \in SUBSET Locations |->
                            IF s = {} THEN 0
                            ELSE OnHand(i, CHOOSE x \in s : TRUE) + g[s \ {CHOOSE x \in s : TRUE}]]
<1>1. IsFiniteSet(Locations)  BY MastersAreFinite
<1>2. ASSUME NEW g PROVE Is(g) <=> SumsUp(g, f, SUBSET Locations)
  <2>1. ASSUME NEW s \in SUBSET Locations, s # {} PROVE f[AnyOf(s)] = OnHand(i, AnyOf(s))
    BY <2>1, AnyIsIn
  <2> HIDE DEF f
  <2> QED  BY <2>1 DEF SumsUp, AnyOf
<1>3. PICK h : SumsUp(h, f, SUBSET Locations)  BY <1>1, SumExists
<1>4. Is(h)  BY <1>2, <1>3
<1> DEFINE t == CHOOSE g : Is(g)
<1>5. Is(t)  BY <1>4
<1>6. ItemBalance(i) = t[Locations]
  BY Zenon DEF ItemBalance, MapThenSumSet, MapThenFoldSet
<1>7. SumsUp(t, f, SUBSET Locations)  BY <1>2, <1>5
<1> HIDE DEF t, Is
<1>8. \A x \in Locations : f[x] \in Nat  OBVIOUS
<1>9. f = [l \in Locations |-> OnHand(i, l)]  OBVIOUS
<1> HIDE DEF f
<1>10. t[Locations] = 0 <=> \A x \in Locations : f[x] = 0
  BY <1>1, <1>7, <1>8, SumOfNaturals
<1> QED  BY <1>6, <1>9, <1>10

(* The same for the balance of a location over all items.                  *)
LEMMA EmptyLocation ==
    ASSUME NEW l, \A i \in Items : OnHand(i, l) \in Nat
    PROVE  LocationBalance(l) = 0 <=> \A i \in Items : OnHand(i, l) = 0
<1> DEFINE f == [i \in Items |-> OnHand(i, l)]
           Is(g) == g = [s \in SUBSET Items |->
                            IF s = {} THEN 0
                            ELSE OnHand(CHOOSE x \in s : TRUE, l) + g[s \ {CHOOSE x \in s : TRUE}]]
<1>1. IsFiniteSet(Items)  BY MastersAreFinite
<1>2. ASSUME NEW g PROVE Is(g) <=> SumsUp(g, f, SUBSET Items)
  <2>1. ASSUME NEW s \in SUBSET Items, s # {} PROVE f[AnyOf(s)] = OnHand(AnyOf(s), l)
    BY <2>1, AnyIsIn
  <2> HIDE DEF f
  <2> QED  BY <2>1 DEF SumsUp, AnyOf
<1>3. PICK h : SumsUp(h, f, SUBSET Items)  BY <1>1, SumExists
<1>4. Is(h)  BY <1>2, <1>3
<1> DEFINE t == CHOOSE g : Is(g)
<1>5. Is(t)  BY <1>4
<1>6. LocationBalance(l) = t[Items]
  BY Zenon DEF LocationBalance, MapThenSumSet, MapThenFoldSet
<1>7. SumsUp(t, f, SUBSET Items)  BY <1>2, <1>5
<1> HIDE DEF t, Is
<1>8. \A x \in Items : f[x] \in Nat  OBVIOUS
<1>9. f = [i \in Items |-> OnHand(i, l)]  OBVIOUS
<1> HIDE DEF f
<1>10. t[Items] = 0 <=> \A x \in Items : f[x] = 0
  BY <1>1, <1>7, <1>8, SumOfNaturals
<1> QED  BY <1>6, <1>9, <1>10

-----------------------------------------------------------------------------
(* What one step does to the masters and to the stock.                     *)

(* A request that goes on to its next statement has written nothing.       *)
LEMMA MovesOn ==
    ASSUME TypeOK, NEW r \in Requests, Step(r) \/ Rollback(r), phase'[r] # "done"
    PROVE  UNCHANGED <<items, locations, ledger, request>>
<1> USE DEF TypeOK, Finish, Refuse, masters
<1>1. CASE Arrive(r) \/ LockKey(r) \/ Lookup(r)  BY <1>1 DEF Arrive, LockKey, Lookup
<1>2. CASE ReadOriginal(r) \/ LockItem(r) \/ LockLocation(r)
  BY <1>2 DEF ReadOriginal, LockItem, LockLocation
<1>3. CASE LocationsLocked(r) \/ Check(r) \/ Insert(r)
  BY <1>3 DEF LocationsLocked, Check, Insert
<1>4. CASE Commit(r) \/ Rollback(r)  BY <1>4 DEF Commit, Rollback
<1>5. CASE ApplyMaster(r) \/ Create(r)  BY <1>5 DEF ApplyMaster, Create
<1> QED  BY <1>1, <1>2, <1>3, <1>4, <1>5 DEF Step

(* The four ways to write a master row.                                    *)
ItemUpdated(r) ==
    /\ ApplyMaster(r) /\ request[r].kind \in ItemMaster /\ reply'[r] = "ok"
    /\ items' = [items EXCEPT ![request[r].item] = UpdatedItem(request[r], items[request[r].item])]
    /\ UNCHANGED <<locations, ledger>>
LocationUpdated(r) ==
    /\ ApplyMaster(r) /\ request[r].kind \in LocationMaster /\ reply'[r] = "ok"
    /\ locations' = [locations EXCEPT ![request[r].loc] =
                        UpdatedLocation(request[r], locations[request[r].loc])]
    /\ UNCHANGED <<items, ledger>>
ItemCreated(r) ==
    /\ phase[r] = "apply" /\ request[r].kind = "CREATE_ITEM"
    /\ items[request[r].item].status = "ABSENT"
    /\ items' = [items EXCEPT ![request[r].item] = CreatedItem(request[r].unit)]
    /\ UNCHANGED <<locations, ledger>>
LocationCreated(r) ==
    /\ phase[r] = "apply" /\ request[r].kind = "CREATE_LOCATION"
    /\ locations[request[r].loc].status = "ABSENT"
    /\ locations' = [locations EXCEPT ![request[r].loc] = CreatedLocation]
    /\ UNCHANGED <<items, ledger>>

(* Every step leaves the masters alone or writes one row in one of them.   *)
LEMMA MasterSteps ==
    ASSUME TypeOK, NEW r \in Requests, Step(r) \/ Rollback(r)
    PROVE  \/ UNCHANGED masters
           \/ ItemUpdated(r) \/ LocationUpdated(r) \/ ItemCreated(r) \/ LocationCreated(r)
<1> USE DEF masters
<1>1. CASE phase'[r] # "done"  BY <1>1, MovesOn
<1>2. CASE ApplyMaster(r)
  <2>1. CASE UNCHANGED masters  BY <2>1
  <2>2. CASE ~UNCHANGED masters
    <3>1. Finish(r, "ok") /\ ledger' = ledger  BY <2>2, <1>2 DEF ApplyMaster
    <3>2. reply'[r] = "ok"  BY <3>1 DEF Finish, TypeOK
    <3> QED  BY <2>2, <3>1, <3>2, <1>2 DEF ApplyMaster, ItemUpdated, LocationUpdated
  <2> QED  BY <2>1, <2>2
<1>3. CASE Create(r)
  BY <1>3 DEF Create, Refuse, ItemCreated, LocationCreated
<1>4. CASE \/ Arrive(r) \/ LockKey(r) \/ Lookup(r) \/ ReadOriginal(r) \/ LockItem(r)
           \/ LockLocation(r) \/ LocationsLocked(r) \/ Check(r) \/ Insert(r) \/ Commit(r)
           \/ Rollback(r)
  BY <1>4 DEF Arrive, LockKey, Lookup, ReadOriginal, LockItem, LockLocation,
     LocationsLocked, Check, Insert, Commit, Rollback, Refuse
<1> QED  BY <1>1, <1>2, <1>3, <1>4 DEF Step

(* A step changes the balance and the history of an item at a location     *)
(* only by committing an operation on them.                                *)
LEMMA StockSteps ==
    ASSUME TypeOK, PhaseFits, Sums, NEW r \in Requests, Step(r) \/ Rollback(r),
           NEW i \in Items, NEW l \in Locations,
           ~(Commit(r) /\ ItemOf(r) = i /\ l \in LocationsOf(r))
    PROVE  /\ OnHand(i, l)' = OnHand(i, l)
           /\ HasMovement(i, l)' <=> HasMovement(i, l)
<1>1. CASE ledger' = ledger  BY <1>1 DEF OnHand, HasMovement
<1>2. CASE Commit(r) /\ ledger' = Append(ledger, OperationOf(r))
  <2> DEFINE op == OperationOf(r)
  <2>1. op \in Operation /\ ledger \in Seq(Operation)
    BY <1>2, CommittedOperation DEF TypeOK
  <2>2. op.item = i => op.delta[l] = 0
    <3>1. ItemOf(r) = i => l \notin LocationsOf(r)  BY <1>2
    <3>2. IsReversal(r) => request[r].target \in DOMAIN ledger  BY <1>2, CommittedOperation
    <3>3. \A x \in Locations \ LocationsOf(r) : DeltaOf(r)[x] = 0  BY <3>2, WorkTypes
    <3> QED  BY <3>1, <3>3 DEF OperationOf
  <2>3. OnHand(i, l)' = OnHand(i, l)
    <3>1. \/ OnHand(i, l)' = OnHand(i, l)
          \/ OnHand(i, l)' = OnHand(i, l) + (IF ItemOf(r) = i THEN DeltaOf(r)[l] ELSE 0)
      BY NextBalance
    <3>2. OnHand(i, l) \in Int  BY NextBalance
    <3>3. op.item = ItemOf(r) /\ op.delta = DeltaOf(r)  BY DEF OperationOf
    <3> QED  BY <2>2, <3>1, <3>2, <3>3
  <2> HIDE DEF op
  <2>4. /\ DOMAIN ledger' = 1..(Len(ledger) + 1) /\ DOMAIN ledger = 1..Len(ledger)
        /\ Len(ledger) \in Nat
        /\ ledger'[Len(ledger) + 1] = op
        /\ \A n \in DOMAIN ledger : ledger'[n] = ledger[n]
    BY <1>2, <2>1 DEF op
  <2> DEFINE has(led, n) == led[n].item = i /\ led[n].delta[l] # 0
  <2>5. ~has(ledger', Len(ledger) + 1)  BY <2>2, <2>4
  <2>6. \A n \in DOMAIN ledger : has(ledger', n) <=> has(ledger, n)  BY <2>4
  <2>7. \A n \in DOMAIN ledger' : n \in DOMAIN ledger \/ n = Len(ledger) + 1  BY <2>4
  <2>8. \A n \in DOMAIN ledger : n \in DOMAIN ledger'  BY <2>4
  <2> HIDE DEF has
  <2>9. (\E n \in DOMAIN ledger' : has(ledger', n)) <=> (\E n \in DOMAIN ledger : has(ledger, n))
    BY <2>5, <2>6, <2>7, <2>8
  <2> QED  BY <2>3, <2>9 DEF HasMovement, has
<1> QED  BY <1>1, <1>2, Frame

-----------------------------------------------------------------------------
(* What a lock protects from the others.                                   *)

(* What the guards say of one request under way.                           *)
LEMMA GuardOf ==
    ASSUME Guarded, NEW r \in Requests, UnderWay(r)
    PROVE  OnItsPath(r) /\ HoldsItsLocks(r) /\ FindsItsMasters(r) /\ ChecksHoldOn(r)
BY DEF Guarded

(* The kinds of requests exclude one another.                              *)
LEMMA KindsApart ==
    ASSUME NEW r
    PROVE  /\ request[r].kind \in ItemMaster \cup LocationMaster \cup Creation
              => ~IsReversal(r) /\ ~MovesStock(r)
           /\ request[r].kind \in ItemMaster
              => request[r].kind \notin LocationMaster /\ request[r].kind \notin Creation
           /\ request[r].kind \in LocationMaster => request[r].kind \notin Creation
BY DEF IsReversal, MovesStock, ItemMaster, LocationMaster, Creation, Posting, Inbound, Outbound

(* A committing request holds its item, its locations and its key.         *)
LEMMA CommitHolds ==
    ASSUME PhaseFits, Guarded, NEW r \in Requests, Commit(r)
    PROVE  /\ ItemLock(ItemOf(r)) \in locks[r]
           /\ \A l \in LocationsOf(r) : LocationLock(l) \in locks[r]
           /\ KeyLock(request[r].key) \in locks[r]
<1>1. phase[r] = "commit" /\ MovesStock(r)  BY DEF Commit, PhaseFits, MovesStock
<1>2. HoldsItsLocks(r)  BY <1>1, GuardOf DEF UnderWay
<1> QED  BY <1>1, <1>2 DEF HoldsItsLocks

(* Nobody else changes a row of items that exists and is locked.           *)
LEMMA ItemKept ==
    ASSUME TypeOK, LocksExclusive, Guarded, NEW r \in Requests, Step(r) \/ Rollback(r),
           NEW q \in Requests \ {r}, NEW i \in Items,
           ItemLock(i) \in locks[q], items[i].status # "ABSENT"
    PROVE  items'[i] = items[i]
<1>1. CASE items' = items  BY <1>1
<1>2. CASE ItemUpdated(r)
  <2>1. phase[r] = "apply" /\ ~IsReversal(r)  BY <1>2, KindsApart DEF ItemUpdated, ApplyMaster
  <2>2. ItemLock(request[r].item) \in locks[r]
    BY <2>1, <1>2, GuardOf DEF UnderWay, HoldsItsLocks, ItemUpdated, ItemOf
  <2>3. request[r].item # i  BY <2>2 DEF LocksExclusive
  <2> QED  BY <2>3, <1>2 DEF ItemUpdated, TypeOK
<1>3. CASE ItemCreated(r)  BY <1>3 DEF ItemCreated, TypeOK
<1> QED  BY <1>1, <1>2, <1>3, MasterSteps DEF masters, LocationUpdated, LocationCreated

(* Nor a location.                                                         *)
LEMMA LocationKept ==
    ASSUME TypeOK, LocksExclusive, Guarded, NEW r \in Requests, Step(r) \/ Rollback(r),
           NEW q \in Requests \ {r}, NEW l \in Locations,
           LocationLock(l) \in locks[q], locations[l].status # "ABSENT"
    PROVE  locations'[l] = locations[l]
<1>1. CASE locations' = locations  BY <1>1
<1>2. CASE LocationUpdated(r)
  <2>1. phase[r] = "apply" /\ ~IsReversal(r) /\ request[r].kind # "TRANSFER"
    BY <1>2, KindsApart DEF LocationUpdated, ApplyMaster, LocationMaster
  <2>2. request[r].loc \in LocationsOf(r)  BY <2>1 DEF LocationsOf
  <2>3. LocationLock(request[r].loc) \in locks[r]
    BY <2>1, <2>2, <1>2, GuardOf DEF UnderWay, HoldsItsLocks, LocationUpdated
  <2>4. request[r].loc # l  BY <2>3 DEF LocksExclusive
  <2> QED  BY <2>4, <1>2 DEF LocationUpdated, TypeOK
<1>3. CASE LocationCreated(r)  BY <1>3 DEF LocationCreated, TypeOK
<1> QED  BY <1>1, <1>2, <1>3, MasterSteps DEF masters, ItemUpdated, ItemCreated

(* Nobody else moves stock of a locked item, or at a locked location.      *)
LEMMA StockKept ==
    ASSUME TypeOK, PhaseFits, Sums, LocksExclusive, Guarded,
           NEW r \in Requests, Step(r) \/ Rollback(r), NEW q \in Requests \ {r},
           NEW i \in Items, NEW l \in Locations,
           ItemLock(i) \in locks[q] \/ LocationLock(l) \in locks[q]
    PROVE  /\ OnHand(i, l)' = OnHand(i, l)
           /\ HasMovement(i, l)' <=> HasMovement(i, l)
<1>1. ~(Commit(r) /\ ItemOf(r) = i /\ l \in LocationsOf(r))
  BY CommitHolds DEF LocksExclusive
<1> QED  BY <1>1, StockSteps

(* Nobody else uses a locked key, or reverses an operation of a locked     *)
(* item.                                                                   *)
LEMMA KeyKept ==
    ASSUME TypeOK, PhaseFits, LocksExclusive, Guarded,
           NEW r \in Requests, Step(r) \/ Rollback(r), NEW q \in Requests \ {r},
           KeyLock(request[q].key) \in locks[q], NewKey(q)
    PROVE  NewKey(q)'
<1>1. request' = request  BY Frame
<1>2. CASE ledger' = ledger  BY <1>1, <1>2 DEF NewKey
<1>3. CASE Commit(r) /\ ledger' = Append(ledger, OperationOf(r))
  <2>1. request[r].key # request[q].key  BY <1>3, CommitHolds DEF LocksExclusive
  <2>2. OperationOf(r) \in Operation /\ ledger \in Seq(Operation)
    BY <1>3, CommittedOperation DEF TypeOK
  <2>3. OperationOf(r).key = request[r].key  BY DEF OperationOf
  <2> HIDE DEF OperationOf
  <2>4. \A n \in DOMAIN ledger' : \/ ledger'[n] = OperationOf(r)
                                  \/ (n \in DOMAIN ledger /\ ledger'[n] = ledger[n])
    BY <1>3, <2>2
  <2> QED  BY <1>1, <2>1, <2>3, <2>4 DEF NewKey
<1> QED  BY <1>2, <1>3, Frame

(* Nobody else reverses the operation a locked reversal is about.          *)
LEMMA TargetKept ==
    ASSUME TypeOK, PhaseFits, LocksExclusive, Guarded,
           NEW r \in Requests, Step(r) \/ Rollback(r), NEW q \in Requests \ {r},
           IsReversal(q), request[q].target \in DOMAIN ledger,
           ItemLock(ItemOf(q)) \in locks[q], ~AlreadyReversed(request[q].target)
    PROVE  ~AlreadyReversed(request[q].target)'
<1>1. request' = request  BY Frame
<1>2. CASE ledger' = ledger  BY <1>1, <1>2 DEF AlreadyReversed
<1>3. CASE Commit(r) /\ ledger' = Append(ledger, OperationOf(r))
  <2>1. ItemOf(r) # ItemOf(q)  BY <1>3, CommitHolds DEF LocksExclusive
  <2>2. OperationOf(r) \in Operation /\ ledger \in Seq(Operation)
    BY <1>3, CommittedOperation DEF TypeOK
  <2>3. OperationOf(r).kind = "REVERSAL" => OperationOf(r).target # request[q].target
    BY <2>1 DEF OperationOf, ItemOf, IsReversal, Original
  <2> HIDE DEF OperationOf
  <2>4. \A n \in DOMAIN ledger' : \/ ledger'[n] = OperationOf(r)
                                  \/ (n \in DOMAIN ledger /\ ledger'[n] = ledger[n])
    BY <1>3, <2>2
  <2> QED  BY <1>1, <2>3, <2>4 DEF AlreadyReversed
<1> QED  BY <1>2, <1>3, Frame

-----------------------------------------------------------------------------
(* The guards hold on for the requests that do not step.                   *)

(* A request under way that does not step keeps its guards: what they      *)
(* speak of is under its locks.                                            *)
LEMMA OthersGuarded ==
    ASSUME IInv, Guarded, NEW r \in Requests, Step(r) \/ Rollback(r),
           NEW q \in Requests \ {r}, UnderWay(q)
    PROVE  OnItsPath(q)' /\ HoldsItsLocks(q)' /\ FindsItsMasters(q)' /\ ChecksHoldOn(q)'
<1> USE DEF IInv
<1>1. /\ request' = request /\ phase'[q] = phase[q] /\ locks'[q] = locks[q]
  BY Frame
<1>2. OnItsPath(q) /\ HoldsItsLocks(q) /\ FindsItsMasters(q) /\ ChecksHoldOn(q)
  BY GuardOf
<1>3. MovesStock(q)' = MovesStock(q) /\ IsReversal(q)' = IsReversal(q)
  BY <1>1 DEF MovesStock, IsReversal
<1>4. request[q] \in Request  BY DEF TypeOK
<1>5. OnItsPath(q)'  BY <1>1, <1>2, <1>3 DEF OnItsPath
<1> DEFINE Known == phase[q] \in {"locations", "checks", "insert", "commit", "apply"}
<1>6. ASSUME Known
      PROVE  IsReversal(q) => request[q].target \in DOMAIN ledger
  <2>1. phase[q] = "apply" => ~IsReversal(q)  BY <1>2 DEF OnItsPath, MovesStock, IsReversal
  <2> QED  BY <1>6, <2>1 DEF PhaseFits
<1>7. ASSUME Known
      PROVE  /\ ItemOf(q)' = ItemOf(q) /\ DeltaOf(q)' = DeltaOf(q)
             /\ LocationsOf(q)' = LocationsOf(q)
             /\ ItemOf(q) \in Items /\ DeltaOf(q) \in Movements
             /\ LocationsOf(q) \subseteq Locations
  <2>1. IsReversal(q) => request[q].target \in DOMAIN ledger  BY <1>6, <1>7
  <2>2. /\ ItemOf(q)' = ItemOf(q) /\ DeltaOf(q)' = DeltaOf(q)
        /\ LocationsOf(q)' = LocationsOf(q)
    BY <2>1, WorkIsStable
  <2>3. /\ ItemOf(q) \in Items /\ DeltaOf(q) \in Movements
        /\ LocationsOf(q) \subseteq Locations
    BY <2>1, WorkTypes
  <2> QED  BY <2>2, <2>3
<1>8. HoldsItsLocks(q)'
  <2>1. CASE Known  BY <2>1, <1>1, <1>2, <1>3, <1>7 DEF HoldsItsLocks
  <2>2. CASE ~Known  BY <2>2, <1>1, <1>2, <1>3 DEF HoldsItsLocks
  <2> QED  BY <2>1, <2>2
<1>9. FindsItsMasters(q)'
  <2>1. ASSUME MovesStock(q), phase[q] \in {"locations", "checks", "insert", "commit"}
        PROVE  items'[ItemOf(q)] = items[ItemOf(q)]
    <3>1. ItemLock(ItemOf(q)) \in locks[q]  BY <2>1, <1>2 DEF HoldsItsLocks
    <3>2. items[ItemOf(q)].status # "ABSENT"  BY <2>1, <1>2 DEF FindsItsMasters
    <3>3. ItemOf(q) \in Items  BY <2>1, <1>7
    <3> QED  BY <3>1, <3>2, <3>3, ItemKept
  <2>2. ASSUME MovesStock(q), phase[q] \in {"checks", "insert", "commit"},
               NEW l \in LocationsOf(q)
        PROVE  locations'[l] = locations[l]
    <3>1. LocationLock(l) \in locks[q]  BY <2>2, <1>2 DEF HoldsItsLocks
    <3>2. locations[l].status # "ABSENT"  BY <2>2, <1>2 DEF FindsItsMasters
    <3>3. l \in Locations  BY <2>2, <1>7
    <3> QED  BY <3>1, <3>2, <3>3, LocationKept
  <2>3. ASSUME request[q].kind \in ItemMaster, phase[q] \in {"checks", "apply"}
        PROVE  items'[request[q].item] = items[request[q].item]
    <3>1. ItemOf(q) = request[q].item  BY <2>3, KindsApart DEF ItemOf
    <3>2. ItemLock(request[q].item) \in locks[q]  BY <2>3, <3>1, <1>2 DEF HoldsItsLocks
    <3>3. items[request[q].item].status # "ABSENT"  BY <2>3, <1>2 DEF FindsItsMasters
    <3>4. request[q].item \in Items  BY <1>4 DEF Request
    <3> QED  BY <3>2, <3>3, <3>4, ItemKept
  <2>4. ASSUME request[q].kind \in LocationMaster, phase[q] \in {"checks", "apply"}
        PROVE  locations'[request[q].loc] = locations[request[q].loc]
    <3>1. request[q].loc \in LocationsOf(q)
      BY <2>4, KindsApart DEF LocationsOf, LocationMaster
    <3>2. LocationLock(request[q].loc) \in locks[q]  BY <2>4, <3>1, <1>2 DEF HoldsItsLocks
    <3>3. locations[request[q].loc].status # "ABSENT"  BY <2>4, <1>2 DEF FindsItsMasters
    <3>4. request[q].loc \in Locations  BY <1>4 DEF Request
    <3> QED  BY <3>2, <3>3, <3>4, LocationKept
  <2>5. MovesStock(q)' /\ phase'[q] \in {"locations", "checks", "insert", "commit"}
        => /\ items'[ItemOf(q)'].status = "ACTIVE"
           /\ ~IsReversal(q)' => items'[ItemOf(q)'].uom # NoUnit
    BY <1>1, <1>2, <1>3, <1>7, <2>1 DEF FindsItsMasters
  <2>6. MovesStock(q)' /\ phase'[q] \in {"checks", "insert", "commit"}
        => \A l \in LocationsOf(q)' : locations'[l].status = "ACTIVE"
    BY <1>1, <1>2, <1>3, <1>7, <2>2 DEF FindsItsMasters
  <2>7. request'[q].kind \in ItemMaster /\ phase'[q] \in {"checks", "apply"}
        => /\ items'[request'[q].item].status # "ABSENT"
           /\ items'[request'[q].item].version = request'[q].seen
    BY <1>1, <1>2, <2>3 DEF FindsItsMasters
  <2>8. request'[q].kind \in LocationMaster /\ phase'[q] \in {"checks", "apply"}
        => /\ locations'[request'[q].loc].status # "ABSENT"
           /\ locations'[request'[q].loc].version = request'[q].seen
    BY <1>1, <1>2, <2>4 DEF FindsItsMasters
  <2> QED  BY <2>5, <2>6, <2>7, <2>8 DEF FindsItsMasters
<1>10. ChecksHoldOn(q)'
  <2>1. ASSUME MovesStock(q),
               phase[q] \in {"original", "item", "locations", "checks", "insert", "commit"}
        PROVE  NewKey(q)'
    <3>1. KeyLock(request[q].key) \in locks[q]  BY <2>1, <1>2 DEF HoldsItsLocks
    <3>2. NewKey(q)  BY <2>1, <1>2 DEF ChecksHoldOn
    <3> QED  BY <3>1, <3>2, KeyKept
  <2>2. ASSUME MovesStock(q), phase[q] \in {"insert", "commit"}
        PROVE  StockAllows(q)'
    <3>1. StockAllows(q) /\ ItemLock(ItemOf(q)) \in locks[q]
      BY <2>2, <1>2 DEF ChecksHoldOn, HoldsItsLocks
    <3>2. IsReversal(q) => ~AlreadyReversed(request[q].target)'
      <4>1. ASSUME IsReversal(q) PROVE ~AlreadyReversed(request[q].target)'
        <5>1. request[q].target \in DOMAIN ledger  BY <2>2, <4>1, <1>6
        <5>2. ~AlreadyReversed(request[q].target)  BY <4>1, <3>1 DEF StockAllows
        <5> QED  BY <5>1, <5>2, <4>1, <3>1, TargetKept
      <4> QED  BY <4>1
    <3>3. ASSUME NEW l \in LocationsOf(q)
          PROVE  /\ OnHand(ItemOf(q), l)' = OnHand(ItemOf(q), l)
                 /\ HasMovement(ItemOf(q), l)' <=> HasMovement(ItemOf(q), l)
      <4>1. l \in Locations /\ ItemOf(q) \in Items /\ ItemOf(q)' = ItemOf(q)
        BY <2>2, <1>7
      <4>2. PICK i \in Items : i = ItemOf(q)  BY <4>1
      <4>3. /\ OnHand(i, l)' = OnHand(i, l)
            /\ HasMovement(i, l)' <=> HasMovement(i, l)
        BY <3>1, <4>1, <4>2, StockKept
      <4> QED  BY <4>1, <4>2, <4>3 DEF OnHand, HasMovement
    <3>4. \A l \in LocationsOf(q)' :
            /\ request'[q].kind = "OPENING_BALANCE" => ~HasMovement(ItemOf(q), l)'
            /\ OnHand(ItemOf(q), l)' + DeltaOf(q)'[l] >= 0
      BY <2>2, <1>1, <1>7, <3>1, <3>3 DEF StockAllows
    <3> QED  BY <3>2, <3>4, <1>3 DEF StockAllows
  <2>3. ASSUME phase[q] = "apply" PROVE HistoryAllows(q)'
    <3> DEFINE m == request[q]
    <3>1. m.item \in Items /\ m.loc \in Locations  BY <1>4 DEF Request
    <3>2. HistoryAllows(q)  BY <2>3, <1>2 DEF ChecksHoldOn
    <3>3. ASSUME m.kind \in ItemMaster, NEW l \in Locations
          PROVE  /\ OnHand(m.item, l)' = OnHand(m.item, l)
                 /\ HasMovement(m.item, l)' <=> HasMovement(m.item, l)
                 /\ items'[m.item] = items[m.item]
      <4>1. ItemOf(q) = m.item  BY <3>3, KindsApart DEF ItemOf
      <4>2. ItemLock(m.item) \in locks[q]  BY <2>3, <3>3, <4>1, <1>2 DEF HoldsItsLocks
      <4>3. items[m.item].status # "ABSENT"  BY <2>3, <3>3, <1>2 DEF FindsItsMasters
      <4>4. items'[m.item] = items[m.item]  BY <3>1, <4>2, <4>3, ItemKept
      <4>5. PICK i \in Items : i = m.item  BY <3>1
      <4>6. OnHand(i, l)' = OnHand(i, l) /\ (HasMovement(i, l)' <=> HasMovement(i, l))
        BY <4>2, <4>5, StockKept
      <4> QED  BY <4>4, <4>5, <4>6, <1>1 DEF OnHand, HasMovement
    <3>4. ASSUME m.kind \in LocationMaster, NEW i \in Items
          PROVE  OnHand(i, m.loc)' = OnHand(i, m.loc)
      <4>1. m.loc \in LocationsOf(q)  BY <3>4, KindsApart DEF LocationsOf, LocationMaster
      <4>2. LocationLock(m.loc) \in locks[q]  BY <2>3, <3>4, <4>1, <1>2 DEF HoldsItsLocks
      <4>3. PICK l \in Locations : l = m.loc  BY <3>1
      <4>4. OnHand(i, l)' = OnHand(i, l)  BY <4>2, <4>3, StockKept
      <4> QED  BY <4>3, <4>4, <1>1 DEF OnHand
    <3>5. m.kind = "UPDATE_ITEM" /\ items'[m.item].uom # m.unit => ~ItemHasMovements(m.item)'
      <4>1. ASSUME m.kind = "UPDATE_ITEM", items'[m.item].uom # m.unit
            PROVE  ~ItemHasMovements(m.item)'
        <5>1. m.kind \in ItemMaster  BY <4>1 DEF ItemMaster
        <5>2. PICK i \in Items : i = m.item  BY <3>1
        <5>3. \A l \in Locations : HasMovement(m.item, l)' <=> HasMovement(m.item, l)
          BY <5>1, <3>3
        <5>4. ASSUME NEW l \in Locations PROVE ~HasMovement(m.item, l)'
          <6>1. items'[m.item] = items[m.item]  BY <5>1, <3>3, <5>4
          <6>2. ~ItemHasMovements(m.item)  BY <6>1, <4>1, <3>2 DEF HistoryAllows
          <6> QED  BY <6>2, <5>3 DEF ItemHasMovements
        <5> QED  BY <5>4 DEF ItemHasMovements
      <4> QED  BY <4>1
    <3>6. m.kind = "ARCHIVE_ITEM" => \A l \in Locations : OnHand(m.item, l)' = 0
      BY <3>2, <3>3 DEF HistoryAllows, ItemMaster
    <3>7. m.kind = "ARCHIVE_LOCATION" => \A i \in Items : OnHand(i, m.loc)' = 0
      BY <3>2, <3>4 DEF HistoryAllows, LocationMaster
    <3> QED  BY <3>5, <3>6, <3>7, <1>1 DEF HistoryAllows
  <2> QED  BY <2>1, <2>2, <2>3, <1>1, <1>3 DEF ChecksHoldOn
<1> QED  BY <1>5, <1>8, <1>9, <1>10

-----------------------------------------------------------------------------
(* The guards of the request that steps.                                   *)

(* How a request that goes on gets from one statement to the next.         *)
PathStep(r) ==
    LET p == phase[r]
        pp == phase'[r] IN
    \/ Arrive(r) /\ ValidBody(request[r]) /\ p = "new"
       /\ \/ MovesStock(r) /\ pp = "key"
          \/ request[r].kind \in ItemMaster /\ pp = "item"
          \/ request[r].kind \in LocationMaster /\ pp = "locations"
          \/ request[r].kind \in Creation /\ pp = "apply"
    \/ LockKey(r) /\ p = "key" /\ pp = "lookup"
    \/ Lookup(r) /\ p = "lookup" /\ pp \in {"original", "item"} /\ NewKey(r)
    \/ ReadOriginal(r) /\ p = "original" /\ pp = "item"
    \/ LockItem(r) /\ p = "item" /\ ItemFits(r)
       /\ pp = IF request[r].kind \in ItemMaster THEN "checks" ELSE "locations"
    \/ LockLocation(r) /\ p = "locations" /\ pp = "locations"
    \/ LocationsLocked(r) /\ p = "locations" /\ pp = "checks" /\ LocationsFit(r)
       /\ LocationsToLock(r) = {}
    \/ Check(r) /\ p = "checks" /\ ServiceAllows(r)
       /\ pp = IF MovesStock(r) THEN "insert" ELSE "apply"
    \/ Insert(r) /\ p = "insert" /\ pp = "commit"

(* A request that goes on follows its path, and lets go of no lock.        *)
LEMMA PathSteps ==
    ASSUME TypeOK, PhaseFits, NEW r \in Requests, Step(r) \/ Rollback(r), phase'[r] # "done"
    PROVE  PathStep(r) /\ locks[r] \subseteq locks'[r]
<1> USE DEF TypeOK
<1>1. CASE Arrive(r)
  <2>1. ValidBody(request[r]) /\ phase[r] = "new" /\ locks' = locks
    BY <1>1 DEF Arrive, Refuse, Finish
  <2>2. request[r].kind \in Kind  BY DEF Request
  <2>3. \/ MovesStock(r) /\ phase'[r] = "key"
        \/ request[r].kind \in ItemMaster /\ phase'[r] = "item"
        \/ request[r].kind \in LocationMaster /\ phase'[r] = "locations"
        \/ request[r].kind \in Creation /\ phase'[r] = "apply"
    BY <1>1, <2>2 DEF Arrive, Refuse, Finish, Goto, Kind, MovesStock
  <2> QED  BY <1>1, <2>1, <2>3 DEF PathStep
<1>2. CASE LockKey(r)
  BY <1>2 DEF LockKey, Goto, Acquire, PathStep
<1>3. CASE Lookup(r)
  <2>1. phase[r] = "lookup" /\ phase'[r] \in {"original", "item"} /\ locks' = locks
    BY <1>3 DEF Lookup, Goto, Refuse, Finish
  <2>2. NewKey(r)
    <3> DEFINE used == {n \in DOMAIN ledger : SameKey(ledger[n], request[r])}
    <3>1. used = {}  BY <1>3 DEF Lookup, Goto, Refuse, Finish
    <3> QED  BY <3>1 DEF NewKey, SameKey
  <2> QED  BY <1>3, <2>1, <2>2 DEF PathStep
<1>4. CASE ReadOriginal(r)
  BY <1>4 DEF ReadOriginal, Goto, Refuse, Finish, PathStep
<1>5. CASE LockItem(r)
  <2>1. phase[r] = "item" /\ ItemFits(r) /\ Acquire(r, ItemLock(ItemOf(r)))
        /\ Goto(r, IF request[r].kind \in ItemMaster THEN "checks" ELSE "locations")
    BY <1>5 DEF LockItem, Refuse, Finish
  <2> QED  BY <1>5, <2>1 DEF Goto, Acquire, PathStep
<1>6. CASE LockLocation(r)
  BY <1>6 DEF LockLocation, Acquire, PathStep
<1>7. CASE LocationsLocked(r)
  BY <1>7 DEF LocationsLocked, Goto, Refuse, Finish, PathStep
<1>8. CASE Check(r)
  <2>1. phase[r] = "checks" /\ ServiceAllows(r) /\ locks' = locks
        /\ Goto(r, IF MovesStock(r) THEN "insert" ELSE "apply")
    BY <1>8 DEF Check, Refuse, Finish, MovesStock
  <2> QED  BY <1>8, <2>1 DEF Goto, PathStep
<1>9. CASE Insert(r)
  <2>1. phase[r] = "insert" /\ Goto(r, "commit") /\ locks[r] \subseteq locks'[r]
    BY <1>9 DEF Insert, Finish
  <2> QED  BY <1>9, <2>1 DEF Goto, PathStep
<1>10. CASE Commit(r) \/ ApplyMaster(r) \/ Create(r) \/ Rollback(r)
  BY <1>10 DEF Commit, ApplyMaster, Create, Rollback, Refuse, Finish
<1> QED  BY <1>1, <1>2, <1>3, <1>4, <1>5, <1>6, <1>7, <1>8, <1>9, <1>10 DEF Step

(* What the service's check of the stock amounts to, line by line.         *)
LEMMA EnoughForEveryLine ==
    ASSUME TypeOK, NeverNegative, \A i \in Items, l \in Locations : OnHand(i, l) \in Int,
           NEW r \in Requests, MovesStock(r), ValidBody(request[r]), ServiceAllows(r),
           IsReversal(r) => request[r].target \in DOMAIN ledger
    PROVE  StockAllows(r)
<1> DEFINE m == request[r]
<1>1. m \in Request  BY DEF TypeOK
<1>2. ItemOf(r) \in Items /\ LocationsOf(r) \subseteq Locations /\ DeltaOf(r) \in Movements
  BY WorkTypes
<1>3. \A l \in LocationsOf(r) : OnHand(ItemOf(r), l) \in Int /\ OnHand(ItemOf(r), l) >= 0
  BY <1>2 DEF NeverNegative
<1>4. CASE IsReversal(r)
  <2>1. ~AlreadyReversed(m.target) /\ Enough(r)
    BY <1>4 DEF ServiceAllows, IsReversal
  <2>2. Original(r) \in Operation  BY <1>4 DEF TypeOK, Original
  <2>3. \A l \in LocationsOf(r) : DeltaOf(r)[l] = -Original(r).delta[l]
                                  /\ Original(r).delta[l] \in Int
    BY <1>2, <1>4, <2>2 DEF DeltaOf, InverseDelta, Operation, Movements
  <2>4. \A l \in LocationsOf(r) : OnHand(ItemOf(r), l) + DeltaOf(r)[l] >= 0
    BY <1>3, <1>4, <2>1, <2>3 DEF Enough
  <2> QED  BY <1>4, <2>1, <2>4 DEF StockAllows, IsReversal
<1>5. CASE ~IsReversal(r)
  <2>1. m.kind \in Posting  BY <1>5 DEF MovesStock, IsReversal
  <2>2. m.qty \in Int /\ m.qty > 0  BY <2>1, <1>1 DEF ValidBody, Request
  <2>3. ItemOf(r) = m.item /\ DeltaOf(r) = PostedDelta(m)  BY <1>5 DEF ItemOf, DeltaOf
  <2>4. m.kind = "TRANSFER" => m.loc # m.dest  BY DEF ValidBody
  <2>5. LocationsOf(r) = IF m.kind = "TRANSFER" THEN {m.loc, m.dest} ELSE {m.loc}
    BY <1>5 DEF LocationsOf
  <2>6. m.kind = "OPENING_BALANCE" => ~HasMovement(m.item, m.loc)
    BY DEF ServiceAllows
  <2>7. m.kind \in Outbound \cup {"TRANSFER"} => OnHand(m.item, m.loc) >= m.qty
    BY <1>5, <2>1 DEF ServiceAllows, Enough, Outbound, Posting, Inbound, IsReversal
  <2>8. ASSUME NEW l \in LocationsOf(r) PROVE OnHand(m.item, l) + PostedDelta(m)[l] >= 0
    <3>0. l \in Locations /\ OnHand(m.item, l) \in Int /\ OnHand(m.item, l) >= 0
      BY <1>2, <1>3, <2>3
    <3>1. CASE m.kind \in Inbound
      <4>1. PostedDelta(m)[l] = m.qty
        BY <3>0, <3>1, <2>5, <2>2 DEF PostedDelta, Inbound, Outbound
      <4> QED  BY <4>1, <3>0, <2>2
    <3>2. CASE m.kind \in Outbound
      <4>1. l = m.loc /\ PostedDelta(m)[l] = -m.qty
        BY <3>0, <3>2, <2>5, <2>2 DEF PostedDelta, Inbound, Outbound
      <4> QED  BY <4>1, <3>0, <3>2, <2>2, <2>7
    <3>3. CASE m.kind = "TRANSFER" /\ l = m.loc
      <4>1. PostedDelta(m)[l] = -m.qty
        BY <3>0, <3>3, <2>4, <2>2 DEF PostedDelta, Inbound, Outbound
      <4> QED  BY <4>1, <3>0, <3>3, <2>2, <2>7
    <3>4. CASE m.kind = "TRANSFER" /\ l # m.loc
      <4>1. l = m.dest /\ PostedDelta(m)[l] = m.qty
        BY <3>0, <3>4, <2>5, <2>2 DEF PostedDelta, Inbound, Outbound
      <4> QED  BY <4>1, <3>0, <2>2
    <3> QED  BY <3>1, <3>2, <3>3, <3>4, <2>1 DEF Posting
  <2> QED  BY <1>5, <2>3, <2>5, <2>6, <2>8 DEF StockAllows
<1> QED  BY <1>4, <1>5

(* The service's checks of a master change, made on the sums, say it of    *)
(* every balance.                                                          *)
LEMMA HistoryAllowed ==
    ASSUME TypeOK, NeverNegative, \A i \in Items, l \in Locations : OnHand(i, l) \in Int,
           NEW r \in Requests, ServiceAllows(r)
    PROVE  HistoryAllows(r)
<1>1. request[r].item \in Items /\ request[r].loc \in Locations  BY DEF TypeOK, Request
<1>2. \A i \in Items, l \in Locations : OnHand(i, l) \in Nat  BY DEF NeverNegative
<1>3. ItemBalance(request[r].item) = 0 => \A l \in Locations : OnHand(request[r].item, l) = 0
  <2>1. PICK i \in Items : i = request[r].item  BY <1>1
  <2>2. ItemBalance(i) = 0 => \A l \in Locations : OnHand(i, l) = 0  BY <1>2, EmptyItem
  <2> QED  BY <2>1, <2>2
<1>4. LocationBalance(request[r].loc) = 0 => \A i \in Items : OnHand(i, request[r].loc) = 0
  <2>1. PICK l \in Locations : l = request[r].loc  BY <1>1
  <2>2. LocationBalance(l) = 0 => \A i \in Items : OnHand(i, l) = 0  BY <1>2, EmptyLocation
  <2> QED  BY <2>1, <2>2
<1> QED  BY <1>3, <1>4 DEF HistoryAllows, ServiceAllows

(* The request that steps reaches the guards of its next statement.        *)
LEMMA SelfGuarded ==
    ASSUME IInv, Guarded, NEW r \in Requests, Step(r) \/ Rollback(r), UnderWay(r)'
    PROVE  OnItsPath(r)' /\ HoldsItsLocks(r)' /\ FindsItsMasters(r)' /\ ChecksHoldOn(r)'
<1> USE DEF IInv
<1>1. phase'[r] # "done" /\ phase'[r] # "new"  BY DEF UnderWay
<1>2. UNCHANGED <<items, locations, ledger, request>>  BY <1>1, MovesOn
<1>3. PathStep(r) /\ locks[r] \subseteq locks'[r]  BY <1>1, PathSteps
<1>4. UnderWay(r) => OnItsPath(r) /\ HoldsItsLocks(r) /\ FindsItsMasters(r) /\ ChecksHoldOn(r)
  BY GuardOf
<1>5. request[r] \in Request /\ request[r].kind \in Kind  BY DEF TypeOK, Request
<1>6. /\ MovesStock(r)' = MovesStock(r) /\ IsReversal(r)' = IsReversal(r)
      /\ ItemOf(r)' = ItemOf(r) /\ DeltaOf(r)' = DeltaOf(r)
      /\ LocationsOf(r)' = LocationsOf(r)
  BY <1>2 DEF MovesStock, IsReversal, ItemOf, DeltaOf, LocationsOf, Original
<1>7. /\ NewKey(r)' = NewKey(r) /\ StockAllows(r)' = StockAllows(r)
      /\ HistoryAllows(r)' = HistoryAllows(r)
  BY <1>2, <1>6 DEF NewKey, StockAllows, HistoryAllows, AlreadyReversed, HasMovement,
     ItemHasMovements, OnHand
<1>8. \A i \in Items, l \in Locations : OnHand(i, l) \in Int  BY NextBalance
<1>9. locks[r] \subseteq locks'[r]  BY <1>3
<1>10. /\ MovesStock(r) => /\ request[r].kind \notin ItemMaster
                           /\ request[r].kind \notin LocationMaster
                           /\ request[r].kind \notin Creation
       /\ request[r].kind \in ItemMaster => /\ request[r].kind \notin LocationMaster
                                            /\ request[r].kind \notin Creation
       /\ request[r].kind \in LocationMaster => request[r].kind \notin Creation
  BY KindsApart
<1>11. OnItsPath(r)'
  BY <1>1, <1>2, <1>3, <1>4, <1>6, <1>10 DEF OnItsPath, PathStep, UnderWay
<1>12. HoldsItsLocks(r)'
  <2>1. MovesStock(r) /\ phase'[r] \in {"lookup", "original", "item", "locations", "checks",
                                        "insert", "commit"}
        => KeyLock(request[r].key) \in locks'[r]
    <3>1. CASE LockKey(r)  BY <3>1 DEF LockKey, Acquire, TypeOK
    <3>2. CASE ~LockKey(r)
      BY <3>2, <1>3, <1>4, <1>9, <1>10 DEF PathStep, HoldsItsLocks, UnderWay
    <3> QED  BY <3>1, <3>2
  <2>2. \/ MovesStock(r) /\ phase'[r] \in {"locations", "checks", "insert", "commit"}
        \/ request[r].kind \in ItemMaster /\ phase'[r] \in {"checks", "apply"}
        => ItemLock(ItemOf(r)) \in locks'[r]
    <3>1. CASE LockItem(r)
      <4>1. Acquire(r, ItemLock(ItemOf(r)))
        BY <3>1, <1>1 DEF LockItem, Refuse, Finish, TypeOK
      <4> QED  BY <4>1 DEF Acquire, TypeOK
    <3>2. CASE ~LockItem(r)
      <4>1. phase[r] = "new" => phase'[r] \in {"key", "item", "locations", "apply"}
        BY <1>3 DEF PathStep
      <4> QED
        BY <3>2, <1>3, <1>4, <1>9, <1>10, <4>1 DEF PathStep, HoldsItsLocks, UnderWay, OnItsPath
    <3> QED  BY <3>1, <3>2
  <2>3. \/ MovesStock(r) /\ phase'[r] \in {"checks", "insert", "commit"}
        \/ request[r].kind \in LocationMaster /\ phase'[r] \in {"checks", "apply"}
        => \A l \in LocationsOf(r) : LocationLock(l) \in locks'[r]
    <3>1. CASE LocationsLocked(r)
      <4>1. LocationsFit(r) /\ LocationsToLock(r) = {}  BY <3>1, <1>3, <1>1
              DEF PathStep, LocationsLocked, Refuse, Finish, TypeOK
      <4>2. \A l \in LocationsOf(r) : LocationLock(l) \in locks[r]
        BY <4>1 DEF LocationsToLock, LocationsFit
      <4> QED  BY <4>2, <1>9
    <3>2. CASE ~LocationsLocked(r)
      BY <3>2, <1>3, <1>4, <1>9, <1>10 DEF PathStep, HoldsItsLocks, UnderWay, OnItsPath
    <3> QED  BY <3>1, <3>2
  <2> QED  BY <2>1, <2>2, <2>3, <1>2, <1>6 DEF HoldsItsLocks
<1>13. FindsItsMasters(r)'
  <2>1. MovesStock(r) /\ phase'[r] \in {"locations", "checks", "insert", "commit"}
        => /\ items[ItemOf(r)].status = "ACTIVE"
           /\ ~IsReversal(r) => items[ItemOf(r)].uom # NoUnit
    <3>1. CASE LockItem(r)
      <4>1. ItemFits(r)  BY <3>1, <1>1 DEF LockItem, Refuse, Finish, TypeOK
      <4> QED  BY <4>1 DEF ItemFits, MovesStock, IsReversal
    <3>2. CASE ~LockItem(r)
      BY <3>2, <1>3, <1>4, <1>10 DEF PathStep, FindsItsMasters, UnderWay
    <3> QED  BY <3>1, <3>2
  <2>2. MovesStock(r) /\ phase'[r] \in {"checks", "insert", "commit"}
        => \A l \in LocationsOf(r) : locations[l].status = "ACTIVE"
    <3>1. CASE LocationsLocked(r)
      <4>1. LocationsFit(r)  BY <3>1, <1>1 DEF LocationsLocked, Refuse, Finish, TypeOK
      <4> QED  BY <4>1, <1>10 DEF LocationsFit
    <3>2. CASE ~LocationsLocked(r)
      BY <3>2, <1>3, <1>4, <1>10 DEF PathStep, FindsItsMasters, UnderWay
    <3> QED  BY <3>1, <3>2
  <2>3. request[r].kind \in ItemMaster /\ phase'[r] \in {"checks", "apply"}
        => /\ items[request[r].item].status # "ABSENT"
           /\ items[request[r].item].version = request[r].seen
    <3>1. CASE LockItem(r)
      <4>1. ItemFits(r)  BY <3>1, <1>1 DEF LockItem, Refuse, Finish, TypeOK
      <4>2. request[r].kind \in ItemMaster => request[r].kind \notin Posting
        BY <1>10 DEF MovesStock
      <4> QED  BY <4>1, <4>2, KindsApart DEF ItemFits, ItemOf
    <3>2. CASE ~LockItem(r)
      BY <3>2, <1>3, <1>4, <1>10 DEF PathStep, FindsItsMasters, UnderWay, OnItsPath
    <3> QED  BY <3>1, <3>2
  <2>4. request[r].kind \in LocationMaster /\ phase'[r] \in {"checks", "apply"}
        => /\ locations[request[r].loc].status # "ABSENT"
           /\ locations[request[r].loc].version = request[r].seen
    <3>1. CASE LocationsLocked(r)
      <4>1. LocationsFit(r)  BY <3>1, <1>1 DEF LocationsLocked, Refuse, Finish, TypeOK
      <4>2. request[r].kind \in LocationMaster => request[r].loc \in LocationsOf(r)
        BY KindsApart DEF LocationsOf, LocationMaster
      <4> QED  BY <4>1, <4>2 DEF LocationsFit
    <3>2. CASE ~LocationsLocked(r)
      BY <3>2, <1>3, <1>4, <1>10 DEF PathStep, FindsItsMasters, UnderWay, OnItsPath
    <3> QED  BY <3>1, <3>2
  <2> QED  BY <2>1, <2>2, <2>3, <2>4, <1>2, <1>6 DEF FindsItsMasters
<1>14. ChecksHoldOn(r)'
  <2>1. MovesStock(r) /\ phase'[r] \in {"original", "item", "locations", "checks", "insert",
                                        "commit"}
        => NewKey(r)
    BY <1>3, <1>4, <1>10 DEF PathStep, ChecksHoldOn, UnderWay
  <2>2. ASSUME MovesStock(r), phase'[r] \in {"insert", "commit"} PROVE StockAllows(r)
    <3>1. CASE Check(r)
      <4>1. ServiceAllows(r) /\ phase[r] = "checks"
        BY <3>1, <1>1 DEF Check, Refuse, Finish, TypeOK
      <4>2. ValidBody(request[r])  BY <4>1, <1>4 DEF UnderWay, OnItsPath
      <4>3. IsReversal(r) => request[r].target \in DOMAIN ledger  BY <4>1 DEF PhaseFits
      <4> QED  BY <2>2, <4>1, <4>2, <4>3, <1>8, EnoughForEveryLine
    <3>2. CASE ~Check(r)
      BY <3>2, <2>2, <1>3, <1>4 DEF PathStep, ChecksHoldOn, UnderWay
    <3> QED  BY <3>1, <3>2
  <2>3. ASSUME phase'[r] = "apply" PROVE HistoryAllows(r)
    <3>1. CASE Check(r)
      <4>1. ServiceAllows(r)  BY <3>1, <1>1 DEF Check, Refuse, Finish, TypeOK
      <4> QED  BY <4>1, <1>8, HistoryAllowed
    <3>2. CASE ~Check(r)
      <4>1. request[r].kind \in Creation  BY <3>2, <2>3, <1>3 DEF PathStep
      <4> QED  BY <4>1 DEF HistoryAllows, Creation
    <3> QED  BY <3>1, <3>2
  <2> QED  BY <2>1, <2>2, <2>3, <1>6, <1>7 DEF ChecksHoldOn
<1> QED  BY <1>11, <1>12, <1>13, <1>14

(* Every step keeps the guards of every request.                           *)
LEMMA NextGuarded ==
    ASSUME IInv, Guarded, NEW r \in Requests, Step(r) \/ Rollback(r)
    PROVE  Guarded'
<1>1. ASSUME NEW q \in Requests, UnderWay(q)'
      PROVE  OnItsPath(q)' /\ HoldsItsLocks(q)' /\ FindsItsMasters(q)' /\ ChecksHoldOn(q)'
  <2>1. CASE q = r  BY <2>1, <1>1, SelfGuarded
  <2>2. CASE q # r
    <3>1. phase'[q] = phase[q]  BY <2>2, Frame DEF IInv
    <3>2. UnderWay(q)  BY <3>1, <1>1 DEF UnderWay
    <3> QED  BY <2>2, <3>2, OthersGuarded
  <2> QED  BY <2>1, <2>2
<1> QED  BY <1>1 DEF Guarded

-----------------------------------------------------------------------------
(* The database's checks accept what the service's checks let through.     *)

(* A posting's lines are one place, or two with opposite amounts.          *)
LEMMA PostingLines ==
    ASSUME TypeOK, NEW r \in Requests, request[r].kind \in Posting, ValidBody(request[r])
    PROVE  LET op == OperationOf(r) IN
           /\ op.kind = request[r].kind /\ op.target = 0
           /\ op.kind # "TRANSFER" => Moved(op) = {request[r].loc}
           /\ op.kind = "TRANSFER" =>
                /\ request[r].loc # request[r].dest
                /\ Moved(op) = {request[r].loc, request[r].dest}
                /\ op.delta[request[r].loc] = -op.delta[request[r].dest]
<1> DEFINE m == request[r]
           op == OperationOf(r)
<1>1. m \in Request  BY DEF TypeOK
<1>2. m.qty \in Int /\ m.qty > 0 /\ m.loc \in Locations /\ m.dest \in Locations
  BY <1>1 DEF Request, ValidBody
<1>3. ~IsReversal(r)  BY DEF IsReversal, Posting, Inbound, Outbound
<1>4. op.kind = m.kind /\ op.target = 0 /\ op.delta = PostedDelta(m)
  BY <1>3 DEF OperationOf, DeltaOf
<1>5. m.kind = "TRANSFER" => m.loc # m.dest  BY DEF ValidBody
<1> DEFINE d == PostedDelta(m)
<1>6. CASE m.kind \in Inbound
  <2>1. \A l \in Locations : d[l] = IF l = m.loc THEN m.qty ELSE 0
    BY <1>2, <1>6 DEF PostedDelta, Inbound, Outbound
  <2>2. m.kind # "TRANSFER"  BY <1>6 DEF Inbound
  <2> HIDE DEF d, op, m
  <2>3. Moved(op) = {m.loc}  BY <1>2, <1>4, <2>1 DEF Moved, d
  <2> QED  BY <1>4, <2>2, <2>3 DEF op, m
<1>7. CASE m.kind \in Outbound
  <2>1. \A l \in Locations : d[l] = IF l = m.loc THEN -m.qty ELSE 0
    BY <1>2, <1>7 DEF PostedDelta, Inbound, Outbound
  <2>2. m.kind # "TRANSFER"  BY <1>7 DEF Outbound
  <2> HIDE DEF d, op, m
  <2>3. Moved(op) = {m.loc}  BY <1>2, <1>4, <2>1 DEF Moved, d
  <2> QED  BY <1>4, <2>2, <2>3 DEF op, m
<1>8. CASE m.kind = "TRANSFER"
  <2>1. \A l \in Locations : d[l] = IF l = m.loc THEN -m.qty
                                    ELSE IF l = m.dest THEN m.qty ELSE 0
    BY <1>2, <1>5, <1>8 DEF PostedDelta, Inbound, Outbound
  <2> HIDE DEF d, op, m
  <2>2. Moved(op) = {m.loc, m.dest}  BY <1>2, <1>4, <1>5, <1>8, <2>1 DEF Moved, d
  <2>3. op.delta[m.loc] = -op.delta[m.dest]  BY <1>2, <1>4, <1>5, <1>8, <2>1 DEF d
  <2> QED  BY <1>4, <1>5, <1>8, <2>2, <2>3 DEF op, m
<1> QED  BY <1>6, <1>7, <1>8 DEF Posting

(* A reversal's lines are its original's.                                  *)
LEMMA ReversalLines ==
    ASSUME TypeOK, LedgerIsShaped, NEW r \in Requests, IsReversal(r),
           request[r].target \in DOMAIN ledger
    PROVE  LET op == OperationOf(r) IN
           /\ op.kind = "REVERSAL" /\ op.target = request[r].target
           /\ op.delta = InverseDelta(ledger[op.target])
           /\ Moved(op) = Moved(ledger[op.target]) /\ Moved(op) # {}
           /\ Moved(op) = LocationsOf(r)
<1> DEFINE op == OperationOf(r)
<1>1. /\ op.kind = "REVERSAL" /\ op.target = request[r].target
      /\ op.delta = InverseDelta(ledger[request[r].target])
  BY DEF OperationOf, DeltaOf, Original, IsReversal
<1> DEFINE o == ledger[request[r].target]
<1>2. o \in Operation  BY DEF TypeOK
<1>3. \A l \in Locations : o.delta[l] \in Int /\ op.delta[l] = -o.delta[l]
  BY <1>1, <1>2 DEF InverseDelta, Operation, Movements
<1> HIDE DEF op
<1>4. Moved(op) = Moved(o)  BY <1>3 DEF Moved
<1>5. Moved(o) # {}  BY DEF LedgerIsShaped, WellShaped
<1>6. Moved(o) = LocationsOf(r)  BY DEF Moved, LocationsOf, Original
<1> QED  BY <1>1, <1>4, <1>5, <1>6 DEF op

(* What a request at its commit is about to append is well shaped, on the  *)
(* locations it has locked.                                                *)
LEMMA CommitShaped ==
    ASSUME IInv, Guarded, LedgerIsShaped, NEW r \in Requests, Commit(r)
    PROVE  /\ WellShaped(OperationOf(r))
           /\ Moved(OperationOf(r)) \subseteq LocationsOf(r)
           /\ ShapeTriggerAccepts(OperationOf(r))
<1> USE DEF IInv
<1>1. /\ phase[r] = "commit" /\ request[r].kind \in Posting \cup {"REVERSAL"}
      /\ IsReversal(r) => request[r].target \in DOMAIN ledger
  BY CommittedOperation
<1>2. ValidBody(request[r])  BY <1>1, GuardOf DEF UnderWay, OnItsPath
<1> DEFINE op == OperationOf(r)
<1>3. CASE IsReversal(r)
  <2>1. /\ op.kind = "REVERSAL" /\ Moved(op) = LocationsOf(r) /\ Moved(op) # {}
        /\ op.delta = InverseDelta(ledger[op.target])
    BY <1>1, <1>3, ReversalLines
  <2> HIDE DEF op
  <2>2. WellShaped(op)  BY <2>1 DEF WellShaped
  <2>3. ShapeTriggerAccepts(op)  BY <2>1 DEF ShapeTriggerAccepts, InverseDelta, Moved
  <2> QED  BY <2>1, <2>2, <2>3 DEF op
<1>4. CASE ~IsReversal(r)
  <2>1. request[r].kind \in Posting  BY <1>1, <1>4 DEF IsReversal
  <2>2. request[r].loc \in Locations /\ request[r].dest \in Locations
    BY DEF TypeOK, Request
  <2>3. /\ op.kind = request[r].kind /\ op.target = 0
        /\ op.kind # "TRANSFER" => Moved(op) = {request[r].loc}
        /\ op.kind = "TRANSFER" =>
             /\ request[r].loc # request[r].dest
             /\ Moved(op) = {request[r].loc, request[r].dest}
             /\ op.delta[request[r].loc] = -op.delta[request[r].dest]
    BY <1>2, <2>1, PostingLines
  <2>4. LocationsOf(r) = IF request[r].kind = "TRANSFER"
                         THEN {request[r].loc, request[r].dest} ELSE {request[r].loc}
    BY <1>4 DEF LocationsOf
  <2>5. op.kind # "REVERSAL"  BY <2>1, <2>3 DEF Posting, Inbound, Outbound
  <2> HIDE DEF op
  <2>6. Moved(op) = LocationsOf(r)  BY <2>3, <2>4
  <2>7. Moved(op) # {} /\ (OnePlace(op) \/ TwoPlaces(op))
    BY <2>2, <2>3 DEF OnePlace, TwoPlaces
  <2>8. WellShaped(op)  BY <2>3, <2>7 DEF WellShaped
  <2>9. ShapeTriggerAccepts(op)
    <3>1. CASE op.kind = "TRANSFER"
      <4>1. \E a, b \in Locations : a # b /\ Moved(op) = {a, b} /\ op.delta[a] = -op.delta[b]
        BY <3>1, <2>2, <2>3
      <4> QED  BY <3>1, <4>1 DEF ShapeTriggerAccepts, Moved
    <3>2. CASE op.kind # "TRANSFER"
      <4>1. Cardinality(Moved(op)) = 1  BY <3>2, <2>3, FS_Singleton
      <4> QED  BY <3>2, <2>5, <4>1 DEF ShapeTriggerAccepts, Moved
    <3> QED  BY <3>1, <3>2
  <2> QED  BY <2>6, <2>8, <2>9 DEF op
<1> QED  BY <1>3, <1>4

(* The unique indexes and the trigger on movements accept every insert.    *)
LEMMA InsertAccepted ==
    ASSUME IInv, Guarded, LedgerIsShaped, MovedHaveUnits, NEW r \in Requests, Insert(r)
    PROVE  UniqueIndexesAccept(r) /\ MovementTriggerAccepts(r)
<1> USE DEF IInv
<1>1. /\ phase[r] = "insert" /\ MovesStock(r)
      /\ IsReversal(r) => request[r].target \in DOMAIN ledger
  BY DEF Insert, PhaseFits, MovesStock
<1>2. FindsItsMasters(r) /\ ChecksHoldOn(r)  BY <1>1, GuardOf DEF UnderWay
<1>3. NewKey(r) /\ StockAllows(r)  BY <1>1, <1>2 DEF ChecksHoldOn
<1>4. ASSUME IsReversal(r), NEW n \in DOMAIN ledger PROVE ledger[n].target # request[r].target
  <2>1. ~AlreadyReversed(request[r].target)  BY <1>3, <1>4 DEF StockAllows
  <2>2. CASE ledger[n].kind = "REVERSAL"  BY <2>1, <2>2 DEF AlreadyReversed
  <2>3. CASE ledger[n].kind # "REVERSAL"
    <3>1. ledger[n].target = 0  BY <2>3 DEF LedgerIsShaped, WellShaped
    <3>2. request[r].target \in DOMAIN ledger /\ ledger \in Seq(Operation)
      BY <1>1, <1>4 DEF TypeOK
    <3>3. request[r].target # 0  BY <3>2
    <3> QED  BY <3>1, <3>3
  <2> QED  BY <2>2, <2>3
<1>5. UniqueIndexesAccept(r)  BY <1>3, <1>4 DEF UniqueIndexesAccept, NewKey, SameKey
<1>6. /\ items[ItemOf(r)].status = "ACTIVE"
      /\ ~IsReversal(r) => items[ItemOf(r)].uom # NoUnit
      /\ \A l \in LocationsOf(r) : locations[l].status = "ACTIVE"
  BY <1>1, <1>2 DEF FindsItsMasters
<1>7. ASSUME IsReversal(r) PROVE items[ItemOf(r)].uom # NoUnit
  <2>1. PICK o \in DOMAIN ledger : o = request[r].target  BY <1>1, <1>7
  <2>2. Moved(ledger[o]) # {}  BY DEF LedgerIsShaped, WellShaped
  <2>3. PICK l \in Locations : ledger[o].delta[l] # 0  BY <2>2 DEF Moved
  <2>4. ledger[o].item = ItemOf(r)  BY <1>7, <2>1 DEF ItemOf, Original
  <2>5. ItemOf(r) \in Items  BY <1>1, WorkTypes
  <2>6. ItemHasMovements(ItemOf(r))  BY <2>3, <2>4 DEF ItemHasMovements, HasMovement
  <2> QED  BY <2>5, <2>6 DEF MovedHaveUnits
<1>8. MovementTriggerAccepts(r)  BY <1>3, <1>6, <1>7 DEF MovementTriggerAccepts, StockAllows
<1> QED  BY <1>5, <1>8

(* The trigger on the masters accepts every update.                        *)
LEMMA MasterAccepted ==
    ASSUME IInv, Guarded, NEW r \in Requests, ApplyMaster(r)
    PROVE  MasterTriggerAccepts(request[r])
<1> USE DEF IInv
<1> DEFINE m == request[r]
<1>0. \A i \in Items, l \in Locations : OnHand(i, l) \in Nat
  <2>1. \A i \in Items, l \in Locations : OnHand(i, l) \in Int  BY NextBalance DEF Step
  <2> QED  BY <2>1 DEF NeverNegative
<1>1. HistoryAllows(r)
  <2>1. phase[r] = "apply"  BY DEF ApplyMaster
  <2> QED  BY <2>1, GuardOf DEF UnderWay, ChecksHoldOn
<1>2. m.item \in Items /\ m.loc \in Locations  BY DEF TypeOK, Request
<1>3. m.kind = "ARCHIVE_ITEM" => ItemBalance(m.item) = 0
  <2>1. PICK i \in Items : i = m.item  BY <1>2
  <2>2. (\A l \in Locations : OnHand(i, l) = 0) => ItemBalance(i) = 0  BY <1>0, EmptyItem
  <2> QED  BY <1>1, <2>1, <2>2 DEF HistoryAllows
<1>4. m.kind = "ARCHIVE_LOCATION" => LocationBalance(m.loc) = 0
  <2>1. PICK l \in Locations : l = m.loc  BY <1>2
  <2>2. (\A i \in Items : OnHand(i, l) = 0) => LocationBalance(l) = 0  BY <1>0, EmptyLocation
  <2> QED  BY <1>1, <2>1, <2>2 DEF HistoryAllows
<1> QED  BY <1>1, <1>3, <1>4 DEF MasterTriggerAccepts, HistoryAllows

(* No request is answered by a database check.                             *)
LEMMA NextSilent ==
    ASSUME IInv, Guarded, LedgerIsShaped, MovedHaveUnits, DatabaseGuardsStaySilent,
           NEW r \in Requests, Step(r) \/ Rollback(r)
    PROVE  DatabaseGuardsStaySilent'
<1> USE DEF IInv
<1>1. \A q \in Requests \ {r} : reply'[q] = reply[q]  BY Frame
<1>2. reply'[r] # "error"
  <2> USE DEF Finish, Refuse, Goto, TypeOK, DatabaseGuardsStaySilent
  <2>1. CASE Insert(r)
    <3>1. UniqueIndexesAccept(r) /\ MovementTriggerAccepts(r)  BY <2>1, InsertAccepted
    <3> QED  BY <2>1, <3>1 DEF Insert
  <2>2. CASE Commit(r)
    <3>1. ShapeTriggerAccepts(OperationOf(r))  BY <2>2, CommitShaped
    <3> QED  BY <2>2, <3>1 DEF Commit
  <2>3. CASE ApplyMaster(r)
    <3>1. MasterTriggerAccepts(request[r])  BY <2>3, MasterAccepted
    <3> QED  BY <2>3, <3>1 DEF ApplyMaster
  <2>4. CASE Arrive(r) \/ LockKey(r) \/ Lookup(r) \/ ReadOriginal(r)
    BY <2>4 DEF Arrive, LockKey, Lookup, ReadOriginal
  <2>5. CASE LockItem(r) \/ LockLocation(r) \/ LocationsLocked(r) \/ Check(r)
    BY <2>5 DEF LockItem, LockLocation, LocationsLocked, Check
  <2>6. CASE Create(r) \/ Rollback(r)  BY <2>6 DEF Create, Rollback
  <2> QED  BY <2>1, <2>2, <2>3, <2>4, <2>5, <2>6 DEF Step
<1> QED  BY <1>1, <1>2 DEF DatabaseGuardsStaySilent

(* Every committed operation is well shaped.                               *)
LEMMA NextShaped ==
    ASSUME IInv, Guarded, LedgerIsShaped, NEW r \in Requests, Step(r) \/ Rollback(r)
    PROVE  LedgerIsShaped'
<1> USE DEF IInv
<1>1. CASE ledger' = ledger  BY <1>1 DEF LedgerIsShaped, WellShaped
<1>2. CASE Commit(r) /\ ledger' = Append(ledger, OperationOf(r))
  <2>1. OperationOf(r) \in Operation /\ ledger \in Seq(Operation)
    BY <1>2, CommittedOperation DEF TypeOK
  <2>2. PICK op : op = OperationOf(r)  OBVIOUS
  <2>3. WellShaped(op)  BY <1>2, <2>2, CommitShaped
  <2>4. \A n \in DOMAIN ledger' : \/ ledger'[n] = op
                                  \/ (n \in DOMAIN ledger /\ ledger'[n] = ledger[n])
    BY <1>2, <2>1, <2>2
  <2>5. \A n \in DOMAIN ledger' : WellShaped(ledger'[n])  BY <2>3, <2>4 DEF LedgerIsShaped
  <2> QED  BY <2>5 DEF LedgerIsShaped, WellShaped
<1> QED  BY <1>1, <1>2, Frame

(* What an update leaves in a row.                                         *)
LEMMA UpdatedFields ==
    ASSUME NEW m, m.kind \in ItemMaster, NEW row \in ItemRow
    PROVE  /\ UpdatedItem(m, row).status = IF m.kind = "ARCHIVE_ITEM" THEN "ARCHIVED"
                                           ELSE IF m.kind = "RESTORE_ITEM" THEN "ACTIVE"
                                           ELSE row.status
           /\ UpdatedItem(m, row).uom = IF m.kind = "UPDATE_ITEM" THEN m.unit ELSE row.uom
<1>1. Bumped(row).status = row.status /\ Bumped(row).uom = row.uom
  BY DEF Bumped, ItemRow
<1>2. Bumped(row) \in ItemRow  BY DEF Bumped, ItemRow
<1> HIDE DEF Bumped
<1> QED  BY <1>1, <1>2 DEF UpdatedItem, ItemMaster, ItemRow

(* Likewise for a location.                                                *)
LEMMA UpdatedLocationFields ==
    ASSUME NEW m, m.kind \in LocationMaster, NEW row \in LocationRow
    PROVE  UpdatedLocation(m, row).status =
                IF m.kind = "ARCHIVE_LOCATION" THEN "ARCHIVED"
                ELSE IF m.kind = "RESTORE_LOCATION" THEN "ACTIVE" ELSE row.status
<1>1. Bumped(row).status = row.status  BY DEF Bumped, LocationRow
<1>2. Bumped(row) \in LocationRow  BY DEF Bumped, LocationRow
<1> HIDE DEF Bumped
<1> QED  BY <1>1, <1>2 DEF UpdatedLocation, LocationMaster, LocationRow

(* An item that moves has a unit, and keeps one.                           *)
LEMMA NextUnits ==
    ASSUME IInv, Guarded, MovedHaveUnits, LedgerIsShaped,
           NEW r \in Requests, Step(r) \/ Rollback(r)
    PROVE  MovedHaveUnits'
<1> USE DEF IInv
<1> SUFFICES ASSUME NEW i \in Items, ItemHasMovements(i)'
             PROVE  items'[i].status # "ABSENT" /\ items'[i].uom # NoUnit
  BY DEF MovedHaveUnits
<1>1. CASE ledger' # ledger
  <2>1. Commit(r)  BY <1>1, Frame
  <2>2. items' = items  BY <2>1 DEF Commit, masters
  <2>3. CASE ItemHasMovements(i)  BY <2>2, <2>3 DEF MovedHaveUnits
  <2>4. CASE ~ItemHasMovements(i)
    <3>1. PICK l \in Locations : HasMovement(i, l)'  BY DEF ItemHasMovements
    <3>2. ~HasMovement(i, l)  BY <2>4 DEF ItemHasMovements
    <3>3. ItemOf(r) = i  BY <3>1, <3>2, StockSteps
    <3>4. phase[r] = "commit" /\ MovesStock(r)
      BY <2>1, CommittedOperation DEF MovesStock
    <3>5. /\ items[i].status = "ACTIVE"
          /\ ~IsReversal(r) => items[i].uom # NoUnit
      BY <3>3, <3>4, GuardOf DEF UnderWay, FindsItsMasters
    <3>6. ASSUME IsReversal(r) PROVE FALSE
      <4>1. PICK o \in DOMAIN ledger : o = request[r].target
        BY <2>1, <3>6, CommittedOperation
      <4>2. Moved(ledger[o]) # {}  BY DEF LedgerIsShaped, WellShaped
      <4>3. PICK x \in Locations : ledger[o].delta[x] # 0  BY <4>2 DEF Moved
      <4>4. ledger[o].item = i  BY <3>3, <3>6, <4>1 DEF ItemOf, Original
      <4> QED  BY <4>3, <4>4, <2>4 DEF ItemHasMovements, HasMovement
    <3> QED  BY <2>2, <3>5, <3>6
  <2> QED  BY <2>3, <2>4
<1>2. CASE ledger' = ledger
  <2>1. ItemHasMovements(i)  BY <1>2 DEF ItemHasMovements, HasMovement
  <2>2. items[i].status # "ABSENT" /\ items[i].uom # NoUnit  BY <2>1 DEF MovedHaveUnits
  <2>3. CASE items' = items  BY <2>2, <2>3
  <2>4. CASE ItemUpdated(r)
    <3> DEFINE m == request[r]
    <3>1. phase[r] = "apply" /\ m.kind \in ItemMaster  BY <2>4 DEF ItemUpdated, ApplyMaster
    <3>2. HistoryAllows(r)  BY <3>1, GuardOf DEF UnderWay, ChecksHoldOn
    <3>3. CASE m.item # i  BY <3>3, <2>2, <2>4 DEF ItemUpdated, TypeOK
    <3>4. CASE m.item = i
      <4>1. items'[i] = UpdatedItem(m, items[i])  BY <3>4, <2>4 DEF ItemUpdated, TypeOK
      <4>2. items[i] \in ItemRow  BY DEF TypeOK
      <4>3. m.kind = "UPDATE_ITEM" => m.unit = items[i].uom
        BY <3>2, <3>4, <2>1 DEF HistoryAllows
      <4> QED  BY <4>1, <4>2, <4>3, <3>1, <2>2, UpdatedFields
    <3> QED  BY <3>3, <3>4
  <2>5. CASE ItemCreated(r)
    <3>1. request[r].item # i  BY <2>2, <2>5 DEF ItemCreated
    <3> QED  BY <3>1, <2>2, <2>5 DEF ItemCreated, TypeOK
  <2> QED  BY <2>3, <2>4, <2>5, MasterSteps DEF masters, LocationUpdated, LocationCreated
<1> QED  BY <1>1, <1>2

(* What is archived is empty, and stays so.                                *)
LEMMA NextArchived ==
    ASSUME IInv, Guarded, ArchivedHoldsNothing, NEW r \in Requests, Step(r) \/ Rollback(r)
    PROVE  ArchivedHoldsNothing'
<1> USE DEF IInv
<1> SUFFICES ASSUME NEW i \in Items, NEW l \in Locations,
                    items'[i].status = "ARCHIVED" \/ locations'[l].status = "ARCHIVED"
             PROVE  OnHand(i, l)' = 0
  BY DEF ArchivedHoldsNothing
<1>1. CASE Commit(r) /\ ItemOf(r) = i /\ l \in LocationsOf(r)
  <2>1. UNCHANGED masters  BY <1>1 DEF Commit
  <2>2. phase[r] = "commit" /\ MovesStock(r)
    BY <1>1, CommittedOperation DEF MovesStock
  <2>3. items[i].status = "ACTIVE" /\ locations[l].status = "ACTIVE"
    BY <1>1, <2>2, GuardOf DEF UnderWay, FindsItsMasters
  <2> QED  BY <2>1, <2>3 DEF masters
<1>2. CASE ~(Commit(r) /\ ItemOf(r) = i /\ l \in LocationsOf(r))
  <2>1. OnHand(i, l)' = OnHand(i, l)  BY <1>2, StockSteps
  <2>2. CASE items[i].status = "ARCHIVED" \/ locations[l].status = "ARCHIVED"
    BY <2>1, <2>2 DEF ArchivedHoldsNothing
  <2>3. CASE items[i].status # "ARCHIVED" /\ locations[l].status # "ARCHIVED"
    <3> DEFINE m == request[r]
    <3>1. CASE UNCHANGED masters  BY <3>1, <2>3 DEF masters
    <3>2. CASE ItemUpdated(r)
      <4>1. items'[i].status = "ARCHIVED"  BY <3>2, <2>3 DEF ItemUpdated
      <4>2. m.item = i  BY <4>1, <2>3, <3>2 DEF ItemUpdated, TypeOK
      <4>3. phase[r] = "apply" /\ m.kind \in ItemMaster  BY <3>2 DEF ItemUpdated, ApplyMaster
      <4>4. items'[i] = UpdatedItem(m, items[i])  BY <4>2, <3>2 DEF ItemUpdated, TypeOK
      <4>5. items[i] \in ItemRow  BY DEF TypeOK
      <4>6. m.kind = "ARCHIVE_ITEM"  BY <4>1, <4>3, <4>4, <4>5, <2>3, UpdatedFields
      <4>7. HistoryAllows(r)  BY <4>3, GuardOf DEF UnderWay, ChecksHoldOn
      <4> QED  BY <2>1, <4>2, <4>6, <4>7 DEF HistoryAllows
    <3>3. CASE LocationUpdated(r)
      <4>1. locations'[l].status = "ARCHIVED"  BY <3>3, <2>3 DEF LocationUpdated
      <4>2. m.loc = l  BY <4>1, <2>3, <3>3 DEF LocationUpdated, TypeOK
      <4>3. phase[r] = "apply" /\ m.kind \in LocationMaster
        BY <3>3 DEF LocationUpdated, ApplyMaster
      <4>4. locations'[l] = UpdatedLocation(m, locations[l])
        BY <4>2, <3>3 DEF LocationUpdated, TypeOK
      <4>5. locations[l] \in LocationRow  BY DEF TypeOK
      <4>6. m.kind = "ARCHIVE_LOCATION"
        BY <4>1, <4>3, <4>4, <4>5, <2>3, UpdatedLocationFields
      <4>7. HistoryAllows(r)  BY <4>3, GuardOf DEF UnderWay, ChecksHoldOn
      <4> QED  BY <2>1, <4>2, <4>6, <4>7 DEF HistoryAllows
    <3>4. CASE ItemCreated(r)
      BY <3>4, <2>3 DEF ItemCreated, CreatedItem, TypeOK
    <3>5. CASE LocationCreated(r)
      BY <3>5, <2>3 DEF LocationCreated, CreatedLocation, TypeOK
    <3> QED  BY <3>1, <3>2, <3>3, <3>4, <3>5, MasterSteps
  <2> QED  BY <2>2, <2>3
<1> QED  BY <1>1, <1>2

(* The invariant holds before the first request arrives.                   *)
LEMMA InitGuardInv == Init => GuardInv
<1> SUFFICES ASSUME Init PROVE GuardInv  OBVIOUS
<1>1. IInv  BY InitIInv
<1>2. ledger = <<>>  BY DEF Init
<1>3. Guarded /\ DatabaseGuardsStaySilent
  BY DEF Init, Guarded, UnderWay, DatabaseGuardsStaySilent
<1>4. LedgerIsShaped /\ MovedHaveUnits
  BY <1>2 DEF LedgerIsShaped, MovedHaveUnits, ItemHasMovements, HasMovement
<1>5. \A i \in Items, l \in Locations : OnHand(i, l) = 0  BY <1>2, EmptyLedger DEF OnHand
<1>6. ArchivedHoldsNothing  BY <1>5 DEF ArchivedHoldsNothing
<1> QED  BY <1>1, <1>3, <1>4, <1>6 DEF GuardInv

(* Every step keeps it.                                                    *)
LEMMA NextGuardInv == GuardInv /\ [Next]_vars => GuardInv'
<1> SUFFICES ASSUME GuardInv, [Next]_vars PROVE GuardInv'  OBVIOUS
<1>1. IInv'  BY NextIInv DEF GuardInv
<1>2. ASSUME NEW r \in Requests, Step(r) \/ Rollback(r)
      PROVE  /\ Guarded' /\ LedgerIsShaped' /\ MovedHaveUnits' /\ ArchivedHoldsNothing'
             /\ DatabaseGuardsStaySilent'
  BY <1>2, NextGuarded, NextShaped, NextUnits, NextArchived, NextSilent DEF GuardInv
<1>3. CASE UNCHANGED vars
  <2> USE <1>3 DEF vars, GuardInv
  <2>1. /\ \A i, l : OnHand(i, l)' = OnHand(i, l)
        /\ \A i, l : HasMovement(i, l)' <=> HasMovement(i, l)
        /\ \A i : ItemHasMovements(i)' <=> ItemHasMovements(i)
    BY DEF OnHand, HasMovement, ItemHasMovements
  <2>2. LedgerIsShaped' /\ DatabaseGuardsStaySilent'
    BY DEF LedgerIsShaped, WellShaped, DatabaseGuardsStaySilent
  <2>3. MovedHaveUnits' /\ ArchivedHoldsNothing'
    BY <2>1 DEF MovedHaveUnits, ArchivedHoldsNothing
  <2>4. ASSUME NEW r \in Requests
        PROVE  /\ UnderWay(r)' <=> UnderWay(r)
               /\ OnItsPath(r)' <=> OnItsPath(r)
               /\ HoldsItsLocks(r)' <=> HoldsItsLocks(r)
               /\ FindsItsMasters(r)' <=> FindsItsMasters(r)
               /\ ChecksHoldOn(r)' <=> ChecksHoldOn(r)
    <3>1. UnderWay(r)' <=> UnderWay(r)  BY DEF UnderWay
    <3>2. OnItsPath(r)' <=> OnItsPath(r)  BY DEF OnItsPath, MovesStock
    <3>3. /\ IsReversal(r)' = IsReversal(r) /\ MovesStock(r)' = MovesStock(r)
          /\ ItemOf(r)' = ItemOf(r) /\ DeltaOf(r)' = DeltaOf(r)
          /\ LocationsOf(r)' = LocationsOf(r)
      BY DEF IsReversal, MovesStock, ItemOf, DeltaOf, LocationsOf, Original
    <3>4. HoldsItsLocks(r)' <=> HoldsItsLocks(r)  BY <3>3 DEF HoldsItsLocks
    <3>5. FindsItsMasters(r)' <=> FindsItsMasters(r)  BY <3>3 DEF FindsItsMasters
    <3>6. ChecksHoldOn(r)' <=> ChecksHoldOn(r)
      BY <3>3, <2>1 DEF ChecksHoldOn, NewKey, StockAllows, HistoryAllows, AlreadyReversed
    <3> QED  BY <3>1, <3>2, <3>4, <3>5, <3>6
  <2>5. Guarded'  BY <2>4 DEF Guarded
  <2> QED  BY <1>1, <2>2, <2>3, <2>5
<1> QED  BY <1>1, <1>2, <1>3 DEF Next, GuardInv

-----------------------------------------------------------------------------
(* What a step may never do.                                               *)

(* The step of LedgerFitsItsMasters.                                       *)
FitsItsMasters ==
    /\ \A i \in Items : ItemHasMovements(i) =>
         items[i].uom # NoUnit /\ items'[i].uom = items[i].uom
    /\ ledger' # ledger =>
         LET op == ledger'[Len(ledger')] IN
         /\ ledger' = Append(ledger, op)
         /\ items[op.item].status = "ACTIVE"
         /\ \A l \in Locations : op.delta[l] # 0 => locations[l].status = "ACTIVE"

(* The step of NoLostUpdate.                                               *)
AppliesWhatItSaw ==
    \A r \in Requests :
        phase[r] = "apply" /\ reply'[r] = "ok" =>
        /\ request[r].kind \in ItemMaster =>
              items[request[r].item].version = request[r].seen
        /\ request[r].kind \in LocationMaster =>
              locations[request[r].loc].version = request[r].seen

(* A commit finds its masters ACTIVE, and an update leaves the unit of     *)
(* what has moved.                                                         *)
LEMMA StepFitsItsMasters ==
    ASSUME GuardInv, NEW r \in Requests, Step(r) \/ Rollback(r)
    PROVE  FitsItsMasters
<1> USE DEF GuardInv, IInv
<1>1. ASSUME NEW i \in Items, ItemHasMovements(i)
      PROVE  items[i].uom # NoUnit /\ items'[i].uom = items[i].uom
  <2>1. items[i].status # "ABSENT" /\ items[i].uom # NoUnit  BY <1>1 DEF MovedHaveUnits
  <2>2. CASE items' = items  BY <2>1, <2>2
  <2>3. CASE ItemUpdated(r)
    <3> DEFINE m == request[r]
    <3>1. phase[r] = "apply" /\ m.kind \in ItemMaster  BY <2>3 DEF ItemUpdated, ApplyMaster
    <3>2. HistoryAllows(r)  BY <3>1, GuardOf DEF UnderWay, ChecksHoldOn
    <3>3. CASE m.item # i  BY <3>3, <2>1, <2>3 DEF ItemUpdated, TypeOK
    <3>4. CASE m.item = i
      <4>1. items'[i] = UpdatedItem(m, items[i])  BY <3>4, <2>3 DEF ItemUpdated, TypeOK
      <4>2. items[i] \in ItemRow  BY DEF TypeOK
      <4>3. m.kind = "UPDATE_ITEM" => m.unit = items[i].uom
        BY <3>2, <3>4, <1>1 DEF HistoryAllows
      <4> QED  BY <4>1, <4>2, <4>3, <3>1, <2>1, UpdatedFields
    <3> QED  BY <3>3, <3>4
  <2>4. CASE ItemCreated(r)
    <3>1. request[r].item # i  BY <2>1, <2>4 DEF ItemCreated
    <3> QED  BY <3>1, <2>1, <2>4 DEF ItemCreated, TypeOK
  <2> QED  BY <2>2, <2>3, <2>4, MasterSteps DEF masters, LocationUpdated, LocationCreated
<1>2. ASSUME ledger' # ledger
      PROVE  /\ ledger' = Append(ledger, ledger'[Len(ledger')])
             /\ items[ledger'[Len(ledger')].item].status = "ACTIVE"
             /\ \A l \in Locations :
                  ledger'[Len(ledger')].delta[l] # 0 => locations[l].status = "ACTIVE"
  <2>1. Commit(r) /\ ledger' = Append(ledger, OperationOf(r))  BY <1>2, Frame
  <2>2. OperationOf(r) \in Operation /\ ledger \in Seq(Operation)
    BY <2>1, CommittedOperation DEF TypeOK
  <2>3. PICK op \in Operation : op = OperationOf(r)  BY <2>2
  <2>4. ledger'[Len(ledger')] = op  BY <2>1, <2>2, <2>3
  <2>5. Moved(op) \subseteq LocationsOf(r)  BY <2>1, <2>3, CommitShaped
  <2>6. op.item = ItemOf(r)  BY <2>3 DEF OperationOf
  <2>7. phase[r] = "commit" /\ MovesStock(r)  BY <2>1, CommittedOperation DEF MovesStock
  <2>8. /\ items[ItemOf(r)].status = "ACTIVE"
        /\ \A l \in LocationsOf(r) : locations[l].status = "ACTIVE"
    BY <2>7, GuardOf DEF UnderWay, FindsItsMasters
  <2> QED  BY <2>1, <2>3, <2>4, <2>5, <2>6, <2>8 DEF Moved
<1> QED  BY <1>1, <1>2 DEF FitsItsMasters

(* A master change is applied under the lock its version was compared      *)
(* under.                                                                  *)
LEMMA StepAppliesWhatItSaw ==
    ASSUME GuardInv
    PROVE  AppliesWhatItSaw
<1>1. ASSUME NEW r \in Requests, phase[r] = "apply"
      PROVE  /\ request[r].kind \in ItemMaster =>
                   items[request[r].item].version = request[r].seen
             /\ request[r].kind \in LocationMaster =>
                   locations[request[r].loc].version = request[r].seen
  BY <1>1, GuardOf DEF GuardInv, UnderWay, FindsItsMasters
<1> QED  BY <1>1 DEF AppliesWhatItSaw

(* So every step is one of LedgerFitsItsMasters.                           *)
LEMMA NextFitsItsMasters == GuardInv /\ [Next]_vars => [FitsItsMasters]_vars
<1> SUFFICES ASSUME GuardInv, Next PROVE FitsItsMasters  OBVIOUS
<1> QED  BY StepFitsItsMasters DEF Next

-----------------------------------------------------------------------------
(* The transactions implement the contract.                                *)

(* The state the contract sees.                                            *)
Stocks == [i \in Items |-> [l \in Locations |-> OnHand(i, l)]]
Entries == {EntryOf(ledger[n]) : n \in DOMAIN ledger}
ItemView == [i \in Items |-> [status |-> items[i].status, uom |-> items[i].uom]]
LocationView == [l \in Locations |-> locations[l].status]

(* The contract starts with no stock and nothing archived.                 *)
LEMMA InitContract == Init => Contract!Init
<1> SUFFICES ASSUME Init PROVE Contract!Init  OBVIOUS
<1>1. ledger = <<>>  BY DEF Init
<1>2. \A i \in Items, l \in Locations : OnHand(i, l) = 0  BY <1>1, EmptyLedger DEF OnHand
<1>3. \A i \in Items : items[i].status \in {"ABSENT", "ACTIVE"}
  BY StartAssumption DEF Init, AbsentItem, CreatedItem
<1>4. \A l \in Locations : locations[l].status \in {"ABSENT", "ACTIVE"}
  BY StartAssumption DEF Init, AbsentLocation, CreatedLocation
<1>5. Entries = {}  BY <1>1 DEF Entries
<1> QED  BY <1>2, <1>3, <1>4, <1>5 DEF Contract!Init, Entries

(* An entry once recorded stays as it is.                                  *)
LEMMA EntriesKept ==
    ASSUME GuardInv, NEW r \in Requests, Step(r) \/ Rollback(r), NEW n \in DOMAIN ledger
    PROVE  EntryOf(ledger[n])' = EntryOf(ledger[n])
<1> USE DEF GuardInv, IInv
<1>1. ledger'[n] = ledger[n]  BY LedgerGrows
<1>2. ledger \in Seq(Operation)  BY DEF TypeOK
<1>3. ledger[n].kind = "REVERSAL" => ledger[n].target \in DOMAIN ledger
  <2>1. ledger[n].kind = "REVERSAL" => ledger[n].target \in 1..(n - 1)
    BY DEF ReversalsAreExact
  <2>2. n \in 1..Len(ledger) /\ DOMAIN ledger = 1..Len(ledger) /\ Len(ledger) \in Nat  BY <1>2
  <2> QED  BY <2>1, <2>2
<1>4. ledger[n].kind = "REVERSAL" => ledger'[ledger[n].target] = ledger[ledger[n].target]
  BY <1>3, LedgerGrows
<1> QED  BY <1>1, <1>4 DEF EntryOf

(* A statement that commits nothing is invisible.                          *)
LEMMA ViewsOfLedger ==
    ASSUME ledger' = ledger
    PROVE  Stocks' = Stocks /\ Entries' = Entries
BY DEF Stocks, Entries, OnHand, EntryOf

(* Recording an entry, in the terms of the ledger.                         *)
Recorded(e) ==
    /\ Entries' = Entries \cup {e}
    /\ \A f \in Entries : f.key # e.key
    /\ ItemView[e.item].status = "ACTIVE"
    /\ \A l \in Moved(e) : LocationView[l] = "ACTIVE"
    /\ Moved(e) # {}
    /\ Stocks' = [Stocks EXCEPT ![e.item] = [l \in Locations |-> @[l] + e.delta[l]]]
    /\ \A l \in Moved(e) : Stocks'[e.item][l] >= 0
    /\ ItemView' = ItemView /\ LocationView' = LocationView

(* What is recorded in these terms is recorded in the contract's.          *)
LEMMA RecordedIsRecords ==
    ASSUME NEW e, Recorded(e)
    PROVE  Contract!Records(e)
BY DEF Recorded, Contract!Records, Contract!Touched, Moved, Entries, Stocks, ItemView, LocationView

(* Recording one posting.                                                  *)
LEMMA PostOf ==
    ASSUME NEW e \in Entries' \ Entries, Recorded(e), e.reverses = NoKey,
           OnePlace(e) \/ TwoPlaces(e), ItemView[e.item].uom # NoUnit
    PROVE  Contract!Post
<1>1. Contract!Records(e)  BY RecordedIsRecords
<1>2. Contract!PostingShape(e)
  BY DEF Contract!PostingShape, Contract!Touched, OnePlace, TwoPlaces, Moved
<1>3. e \in {EntryOf(ledger[n]) : n \in DOMAIN ledger}' \ {EntryOf(ledger[n]) : n \in DOMAIN ledger}
  BY DEF Entries
<1>4. [i \in Items |-> [status |-> items[i].status, uom |-> items[i].uom]][e.item].uom # NoUnit
  BY DEF ItemView
<1> QED  BY <1>1, <1>2, <1>3, <1>4, Zenon DEF Contract!Post

(* Recording one reversal.                                                 *)
LEMMA ReverseOf ==
    ASSUME NEW e \in Entries' \ Entries, NEW o \in Entries, Recorded(e),
           e.reverses = o.key, o.reverses = NoKey,
           \A f \in Entries : f.reverses # o.key,
           e.item = o.item, \A l \in Locations : e.delta[l] = -o.delta[l]
    PROVE  Contract!Reverse
<1>1. Contract!Records(e)  BY RecordedIsRecords
<1>2. e \in {EntryOf(ledger[n]) : n \in DOMAIN ledger}' \ {EntryOf(ledger[n]) : n \in DOMAIN ledger}
  BY DEF Entries
<1>3. o \in {EntryOf(ledger[n]) : n \in DOMAIN ledger}  BY DEF Entries
<1>4. \A f \in {EntryOf(ledger[n]) : n \in DOMAIN ledger} : f.reverses # o.key
  BY DEF Entries
<1> QED  BY <1>1, <1>2, <1>3, <1>4, Zenon DEF Contract!Reverse

(* A commit records its operation's entry.                                 *)
LEMMA CommitRecords ==
    ASSUME GuardInv, IInv', NEW r \in Requests, Commit(r),
           ledger' = Append(ledger, OperationOf(r)),
           NEW op \in Operation, op = OperationOf(r), NEW e, e = EntryOf(op)
    PROVE  Recorded(e) /\ e \in Entries' \ Entries
<1> USE DEF GuardInv
<1>0. IInv /\ TypeOK /\ PhaseFits /\ Sums /\ NeverNegative' /\ CommitReady
  BY DEF IInv
<1>1. /\ phase[r] = "commit" /\ MovesStock(r)
      /\ IsReversal(r) => request[r].target \in DOMAIN ledger
  BY <1>0, CommittedOperation DEF MovesStock
<1>2. ledger \in Seq(Operation)  BY <1>0 DEF TypeOK
<1>3. /\ op.key = request[r].key /\ op.item = ItemOf(r) /\ op.delta = DeltaOf(r)
      /\ op.kind = request[r].kind
      /\ op.target = IF IsReversal(r) THEN request[r].target ELSE 0
  BY DEF OperationOf
<1>4. WellShaped(op) /\ Moved(op) \subseteq LocationsOf(r)  BY CommitShaped
<1>5. /\ e.key = op.key /\ e.item = op.item /\ e.delta = op.delta
      /\ e.reverses = IF op.kind = "REVERSAL" THEN ledger[op.target].key ELSE NoKey
  BY DEF EntryOf
<1>6. Moved(e) = Moved(op)  BY <1>5 DEF Moved
<1>7. Step(r)  BY DEF Step
<1>21. PICK N \in Nat : N = Len(ledger)  BY <1>2
<1>8. /\ DOMAIN ledger' = 1..(N + 1) /\ DOMAIN ledger = 1..N
      /\ ledger'[N + 1] = op /\ \A n \in 1..N : ledger'[n] = ledger[n]
  <2> HIDE DEF OperationOf
  <2> QED  BY <1>2, <1>21
<1>9. EntryOf(op)' = e
  <2>1. op.kind = "REVERSAL" => op.target \in DOMAIN ledger
    BY <1>1, <1>3 DEF IsReversal
  <2>2. op.kind = "REVERSAL" => ledger'[op.target] = ledger[op.target]  BY <2>1, <1>8
  <2> QED  BY <2>2 DEF EntryOf
<1>10. \A n \in DOMAIN ledger : EntryOf(ledger[n])' = EntryOf(ledger[n])
  BY <1>7, EntriesKept
<1>11. EntryOf(ledger[N + 1])' = e  BY <1>8, <1>9 DEF EntryOf
<1>12. Entries' = Entries \cup {e}
  <2>1. Entries' = {EntryOf(ledger[n])' : n \in 1..(N + 1)}  BY <1>8 DEF Entries
  <2>2. Entries = {EntryOf(ledger[n]) : n \in 1..N}  BY <1>8 DEF Entries
  <2>3. \A n \in 1..N : EntryOf(ledger[n])' = EntryOf(ledger[n])  BY <1>8, <1>10
  <2>4. ASSUME NEW x \in Entries' PROVE x \in Entries \cup {e}
    <3>1. PICK n \in 1..(N + 1) : x = EntryOf(ledger[n])'  BY <2>1
    <3>2. n \in 1..N \/ n = N + 1  BY <1>8
    <3> QED  BY <3>1, <3>2, <2>2, <2>3, <1>11
  <2>5. ASSUME NEW x \in Entries PROVE x \in Entries'
    <3>1. PICK n \in 1..N : x = EntryOf(ledger[n])  BY <2>2
    <3>2. n \in 1..(N + 1)  BY <1>8
    <3> QED  BY <3>1, <3>2, <2>1, <2>3
  <2>6. e \in Entries'
    <3>1. N + 1 \in 1..(N + 1)  BY <1>8
    <3> QED  BY <3>1, <2>1, <1>11
  <2> QED  BY <2>4, <2>5, <2>6
<1>13. \A f \in Entries : f.key # e.key
  <2>1. NewKey(r)  BY <1>1, GuardOf DEF UnderWay, ChecksHoldOn
  <2>2. \A n \in DOMAIN ledger : EntryOf(ledger[n]).key = ledger[n].key  BY DEF EntryOf
  <2> QED  BY <2>1, <2>2, <1>3, <1>5 DEF Entries, NewKey
<1>14. /\ items[e.item].status = "ACTIVE" /\ e.item \in Items
       /\ \A l \in Moved(e) : locations[l].status = "ACTIVE" /\ l \in Locations
  <2>1. FindsItsMasters(r)  BY <1>1, GuardOf DEF UnderWay
  <2>2. ItemOf(r) \in Items  BY <1>0, <1>1, WorkTypes
  <2> QED  BY <2>1, <2>2, <1>1, <1>3, <1>4, <1>5, <1>6 DEF FindsItsMasters, Moved
<1>15. ItemView[e.item].status = "ACTIVE" /\ \A l \in Moved(e) : LocationView[l] = "ACTIVE"
  BY <1>14 DEF ItemView, LocationView
<1>16. Moved(e) # {}  BY <1>4, <1>6 DEF WellShaped
<1>17. \A i \in Items, l \in Locations :
          OnHand(i, l)' = IF i = e.item THEN OnHand(i, l) + e.delta[l] ELSE OnHand(i, l)
  <2> SUFFICES ASSUME NEW i \in Items, NEW l \in Locations
               PROVE  OnHand(i, l)' = IF i = e.item THEN OnHand(i, l) + e.delta[l]
                                                   ELSE OnHand(i, l)
    OBVIOUS
  <2>1. /\ OnHand(i, l) \in Int
        /\ OnHand(i, l)' = OnHand(i, l) + (IF ItemOf(r) = i THEN DeltaOf(r)[l] ELSE 0)
    <3>1. ledger' # ledger
      <4>1. N + 1 \in DOMAIN ledger' /\ N + 1 \notin DOMAIN ledger  BY <1>8
      <4> QED  BY <4>1
    <3> QED  BY <3>1, <1>0, <1>7, NextBalance
  <2> QED  BY <2>1, <1>3, <1>5
<1>18. Stocks' = [Stocks EXCEPT ![e.item] = [l \in Locations |-> @[l] + e.delta[l]]]
  <2>1. Stocks' = [i \in Items |-> [l \in Locations |-> OnHand(i, l)']]  BY DEF Stocks
  <2>2. Stocks = [i \in Items |-> [l \in Locations |-> OnHand(i, l)]]  BY DEF Stocks
  <2> DEFINE old(i) == [l \in Locations |-> OnHand(i, l)]
             new(i) == [l \in Locations |-> OnHand(i, l)']
             T == [Stocks EXCEPT ![e.item] = [l \in Locations |-> @[l] + e.delta[l]]]
  <2>3. \A i \in Items : i # e.item => new(i) = old(i)  BY <1>17
  <2>4. new(e.item) = [l \in Locations |-> old(e.item)[l] + e.delta[l]]
    BY <1>14, <1>17
  <2>5. Stocks[e.item] = old(e.item)  BY <1>14, <2>2
  <2>6. \A i \in Items : Stocks'[i] = new(i) /\ Stocks[i] = old(i)  BY <2>1, <2>2
  <2>7. Stocks' \in [Items -> [Locations -> {OnHand(i, l)' : i \in Items, l \in Locations}]]
        /\ DOMAIN Stocks = Items /\ DOMAIN Stocks' = Items
        /\ Stocks' = [i \in Items |-> Stocks'[i]]
    BY <2>1, <2>2
  <2> HIDE DEF old, new
  <2>8. T = [i \in Items |-> IF i = e.item THEN [l \in Locations |-> Stocks[e.item][l] + e.delta[l]]
                             ELSE Stocks[i]]
    BY <2>7
  <2>9. \A i \in Items : Stocks'[i] = T[i]  BY <2>3, <2>4, <2>5, <2>6, <2>8
  <2> QED  BY <2>7, <2>8, <2>9
<1>19. \A l \in Moved(e) : Stocks'[e.item][l] >= 0
  <2>1. Stocks' = [i \in Items |-> [l \in Locations |-> OnHand(i, l)']]  BY DEF Stocks
  <2>2. \A i \in Items, l \in Locations : OnHand(i, l)' >= 0
    BY <1>0 DEF NeverNegative
  <2> QED  BY <2>1, <2>2, <1>14
<1>20. ItemView' = ItemView /\ LocationView' = LocationView
  BY DEF Commit, masters, ItemView, LocationView
<1> QED  BY <1>12, <1>13, <1>15, <1>16, <1>18, <1>19, <1>20 DEF Recorded

(* A commit is a posting or a reversal of the contract.                    *)
LEMMA CommitImplements ==
    ASSUME GuardInv, IInv', NEW r \in Requests, Commit(r),
           ledger' = Append(ledger, OperationOf(r))
    PROVE  Contract!Post \/ Contract!Reverse
<1> USE DEF GuardInv
<1>0. TypeOK /\ PhaseFits /\ CommitReady /\ OneOperationPerKey /\ IInv
  BY DEF IInv
<1>1. /\ phase[r] = "commit" /\ MovesStock(r)
      /\ IsReversal(r) => /\ request[r].target \in DOMAIN ledger
                          /\ Original(r).kind # "REVERSAL"
      /\ OperationOf(r) \in Operation
  BY <1>0, CommittedOperation DEF MovesStock
<1>2. PICK op \in Operation : op = OperationOf(r)  BY <1>1
<1>3. PICK e : e = EntryOf(op)  OBVIOUS
<1>4. Recorded(e) /\ e \in Entries' \ Entries  BY <1>2, <1>3, CommitRecords
<1>5. /\ op.kind = request[r].kind /\ op.item = ItemOf(r) /\ op.delta = DeltaOf(r)
      /\ op.target = IF IsReversal(r) THEN request[r].target ELSE 0
  BY <1>2 DEF OperationOf
<1>6. /\ e.item = op.item /\ e.delta = op.delta
      /\ e.reverses = IF op.kind = "REVERSAL" THEN ledger[op.target].key ELSE NoKey
  BY <1>3 DEF EntryOf
<1>7. ItemOf(r) \in Items  BY <1>0, <1>1, WorkTypes
<1>8. CASE ~IsReversal(r)
  <2>1. e.reverses = NoKey  BY <1>5, <1>6, <1>8 DEF IsReversal
  <2>2. WellShaped(op)  BY <1>2, <1>0, CommitShaped
  <2>3. OnePlace(e) \/ TwoPlaces(e)
    BY <1>5, <1>6, <1>8, <2>2 DEF IsReversal, WellShaped, OnePlace, TwoPlaces, Moved
  <2>4. items[ItemOf(r)].uom # NoUnit
    BY <1>1, <1>8, GuardOf DEF UnderWay, FindsItsMasters
  <2>5. ItemView[e.item].uom # NoUnit  BY <2>4, <1>5, <1>6, <1>7 DEF ItemView
  <2> QED  BY <1>4, <2>1, <2>3, <2>5, PostOf
<1>9. CASE IsReversal(r)
  <2>1. PICK t \in DOMAIN ledger : t = request[r].target  BY <1>1, <1>9
  <2>2. PICK o : o = EntryOf(ledger[t])  OBVIOUS
  <2>3. o \in Entries  BY <2>2 DEF Entries
  <2>4. ledger[t] \in Operation /\ ledger[t].kind # "REVERSAL"
    BY <1>0, <1>1, <1>9, <2>1 DEF TypeOK, Original
  <2>5. o.key = ledger[t].key /\ o.reverses = NoKey /\ o.item = ledger[t].item
        /\ o.delta = ledger[t].delta
    BY <2>2, <2>4 DEF EntryOf
  <2>6. e.reverses = o.key  BY <1>5, <1>6, <1>9, <2>1, <2>5 DEF IsReversal
  <2>7. ASSUME NEW n \in DOMAIN ledger PROVE EntryOf(ledger[n]).reverses # o.key
    <3>1. CASE ledger[n].kind = "REVERSAL"
      <4>1. ledger[n].target # t
        BY <1>0, <1>1, <1>9, <2>1 DEF CommitReady, UniqueIndexesAccept
      <4>2. ledger[n].target \in DOMAIN ledger
        <5>1. ReversalsAreExact /\ ledger \in Seq(Operation)  BY DEF IInv, TypeOK
        <5>2. ledger[n].target \in 1..(n - 1)  BY <3>1, <5>1 DEF ReversalsAreExact
        <5>3. n \in 1..Len(ledger) /\ DOMAIN ledger = 1..Len(ledger) /\ Len(ledger) \in Nat
          BY <5>1
        <5> QED  BY <5>2, <5>3
      <4>3. ledger[ledger[n].target].key # ledger[t].key
        BY <1>0, <4>1, <4>2 DEF OneOperationPerKey
      <4>4. EntryOf(ledger[n]).reverses = ledger[ledger[n].target].key  BY <3>1 DEF EntryOf
      <4> QED  BY <4>3, <4>4, <2>5
    <3>2. CASE ledger[n].kind # "REVERSAL"
      <4>1. EntryOf(ledger[n]).reverses = NoKey  BY <3>2 DEF EntryOf
      <4>2. o.key \in Keys  BY <2>4, <2>5 DEF Operation
      <4> QED  BY <4>1, <4>2, NoKeyAssumption
    <3> QED  BY <3>1, <3>2
  <2>8. \A f \in Entries : f.reverses # o.key  BY <2>7 DEF Entries
  <2>9. e.item = o.item  BY <1>5, <1>6, <1>9, <2>1, <2>5 DEF ItemOf, Original
  <2>10. \A l \in Locations : e.delta[l] = -o.delta[l]
    BY <1>5, <1>6, <1>9, <2>1, <2>5 DEF DeltaOf, InverseDelta, Original
  <2> QED  BY <1>4, <2>3, <2>5, <2>6, <2>8, <2>9, <2>10, ReverseOf
<1> QED  BY <1>8, <1>9

(* A change of one item, in the terms of the tables.                       *)
LEMMA ChangeItemOf ==
    ASSUME TypeOK, NEW i \in Items, NEW row \in ItemRow,
           items' = [items EXCEPT ![i] = row],
           row.status # "ABSENT",
           row.status = "ARCHIVED" => \A l \in Locations : OnHand(i, l) = 0,
           row.uom # items[i].uom => ~ItemHasMovements(i),
           LedgerIsShaped, ledger' = ledger, locations' = locations
    PROVE  Contract!ChangeItem
<1>1. ItemView' = [ItemView EXCEPT ![i] = ItemView'[i]]
  <2>1. /\ ItemView' = [j \in Items |-> [status |-> items'[j].status, uom |-> items'[j].uom]]
        /\ ItemView = [j \in Items |-> [status |-> items[j].status, uom |-> items[j].uom]]
    BY DEF ItemView
  <2>2. \A j \in Items : j # i => items'[j] = items[j]  BY DEF TypeOK
  <2> QED  BY <2>1, <2>2
<1>2. ItemView'[i] = [status |-> row.status, uom |-> row.uom]
  BY DEF ItemView, TypeOK
<1>3. ItemView[i].uom = items[i].uom  BY DEF ItemView
<1>4. \A l \in Locations : Stocks[i][l] = OnHand(i, l)  BY DEF Stocks
<1>5. row.uom # items[i].uom => ~\E x \in Entries : x.item = i
  <2>1. SUFFICES ASSUME NEW n \in DOMAIN ledger, EntryOf(ledger[n]).item = i
                 PROVE  ItemHasMovements(i)
    BY DEF Entries
  <2>2. ledger[n].item = i  BY <2>1 DEF EntryOf
  <2>3. PICK l \in Locations : ledger[n].delta[l] # 0
    BY DEF LedgerIsShaped, WellShaped, Moved
  <2> QED  BY <2>2, <2>3 DEF ItemHasMovements, HasMovement
<1>6. Stocks' = Stocks /\ Entries' = Entries  BY ViewsOfLedger
<1>7. LocationView' = LocationView  BY DEF LocationView
<1> DEFINE Change(j) ==
        /\ ItemView' = [ItemView EXCEPT ![j] = ItemView'[j]]
        /\ ItemView'[j].status # "ABSENT"
        /\ ItemView'[j].status = "ARCHIVED" => \A l \in Locations : Stocks[j][l] = 0
        /\ ItemView'[j].uom # ItemView[j].uom => ~\E x \in Entries : x.item = j
        /\ UNCHANGED <<Stocks, Entries, LocationView>>
<1>8. Change(i)
  BY <1>1, <1>2, <1>3, <1>4, <1>5, <1>6, <1>7
<1> HIDE DEF Change
<1>9. \E j \in Items : Change(j)  BY <1>8
<1> USE DEF Change
<1> QED  BY <1>9, Zenon DEF Contract!ChangeItem, Contract!Moved, Stocks, Entries, ItemView, LocationView

(* Likewise for a location.                                                *)
LEMMA ChangeLocationOf ==
    ASSUME TypeOK, NEW l \in Locations, NEW row \in LocationRow,
           locations' = [locations EXCEPT ![l] = row],
           row.status # "ABSENT",
           row.status = "ARCHIVED" => \A i \in Items : OnHand(i, l) = 0,
           ledger' = ledger, items' = items
    PROVE  Contract!ChangeLocation
<1>1. LocationView' = [LocationView EXCEPT ![l] = LocationView'[l]]
  BY DEF LocationView, TypeOK
<1>2. LocationView'[l] = row.status  BY DEF LocationView, TypeOK
<1>4. \A i \in Items : Stocks[i][l] = OnHand(i, l)  BY DEF Stocks
<1>6. Stocks' = Stocks /\ Entries' = Entries  BY ViewsOfLedger
<1>7. ItemView' = ItemView  BY DEF ItemView
<1> DEFINE Change(j) ==
        /\ LocationView' = [LocationView EXCEPT ![j] = LocationView'[j]]
        /\ LocationView'[j] # "ABSENT"
        /\ LocationView'[j] = "ARCHIVED" => \A i \in Items : Stocks[i][j] = 0
        /\ UNCHANGED <<Stocks, Entries, ItemView>>
<1>8. Change(l)
  BY <1>1, <1>2, <1>4, <1>6, <1>7
<1> HIDE DEF Change
<1>9. \E j \in Locations : Change(j)  BY <1>8
<1> USE DEF Change
<1> QED  BY <1>9, Zenon DEF Contract!ChangeLocation, Stocks, Entries, ItemView, LocationView

(* Every step of a request is a step of the contract, or invisible to it.  *)
LEMMA StepImplements ==
    ASSUME GuardInv, GuardInv', NEW r \in Requests, Step(r) \/ Rollback(r)
    PROVE  Contract!Next \/ (UNCHANGED <<Stocks, Entries, ItemView, LocationView>>)
<1> USE DEF GuardInv
<1>0. TypeOK /\ LedgerIsShaped /\ IInv  BY DEF IInv
<1> DEFINE m == request[r]
<1>1. m \in Request /\ m.item \in Items /\ m.loc \in Locations  BY <1>0 DEF TypeOK, Request
<1>2. CASE ledger' # ledger
  <2>1. Commit(r) /\ ledger' = Append(ledger, OperationOf(r))  BY <1>0, <1>2, Frame
  <2> QED  BY <2>1, CommitImplements DEF Contract!Next
<1>3. CASE ledger' = ledger /\ UNCHANGED masters
  BY <1>3, ViewsOfLedger DEF masters, ItemView, LocationView
<1>4. CASE ItemUpdated(r)
  <2>1. phase[r] = "apply" /\ m.kind \in ItemMaster  BY <1>4 DEF ItemUpdated, ApplyMaster
  <2>2. HistoryAllows(r) /\ FindsItsMasters(r)
    BY <2>1, GuardOf DEF UnderWay, ChecksHoldOn
  <2>3. items[m.item] \in ItemRow  BY <1>0, <1>1 DEF TypeOK
  <2>4. PICK row \in ItemRow : row = UpdatedItem(m, items[m.item])
    BY <1>1, <2>1, <2>3, UpdatedItemType
  <2>5. items' = [items EXCEPT ![m.item] = row]  BY <1>4, <2>4 DEF ItemUpdated
  <2>6. items[m.item].status # "ABSENT"  BY <2>1, <2>2 DEF FindsItsMasters
  <2>7. /\ row.status # "ABSENT"
        /\ row.status = "ARCHIVED" => m.kind = "ARCHIVE_ITEM" \/ items[m.item].status = "ARCHIVED"
        /\ row.uom # items[m.item].uom => m.kind = "UPDATE_ITEM" /\ items[m.item].uom # m.unit
    BY <2>1, <2>3, <2>4, <2>6, UpdatedFields
  <2>8. row.status = "ARCHIVED" => \A l \in Locations : OnHand(m.item, l) = 0
    BY <1>1, <2>2, <2>7 DEF HistoryAllows, ArchivedHoldsNothing
  <2>9. row.uom # items[m.item].uom => ~ItemHasMovements(m.item)
    BY <2>2, <2>7 DEF HistoryAllows
  <2>10. PICK i \in Items : i = m.item  BY <1>1
  <2>11. Contract!ChangeItem
    BY <1>0, <1>4, <2>5, <2>7, <2>8, <2>9, <2>10, ChangeItemOf DEF ItemUpdated
  <2> QED  BY <2>11 DEF Contract!Next
<1>5. CASE ItemCreated(r)
  <2>1. PICK row \in ItemRow : row = CreatedItem(m.unit)
    BY <1>1 DEF CreatedItem, ItemRow, Request, Status
  <2>2. row.status = "ACTIVE"  BY <2>1 DEF CreatedItem
  <2>3. items' = [items EXCEPT ![m.item] = row]  BY <1>5, <2>1 DEF ItemCreated
  <2>4. ~ItemHasMovements(m.item)  BY <1>1, <1>5 DEF ItemCreated, MovedHaveUnits
  <2>5. PICK i \in Items : i = m.item  BY <1>1
  <2>6. Contract!ChangeItem
    BY <1>0, <1>5, <2>2, <2>3, <2>4, <2>5, ChangeItemOf DEF ItemCreated
  <2> QED  BY <2>6 DEF Contract!Next
<1>6. CASE LocationUpdated(r)
  <2>1. phase[r] = "apply" /\ m.kind \in LocationMaster
    BY <1>6 DEF LocationUpdated, ApplyMaster
  <2>2. HistoryAllows(r) /\ FindsItsMasters(r)
    BY <2>1, GuardOf DEF UnderWay, ChecksHoldOn
  <2>3. locations[m.loc] \in LocationRow  BY <1>0, <1>1 DEF TypeOK
  <2>4. PICK row \in LocationRow : row = UpdatedLocation(m, locations[m.loc])
    BY <1>1, <2>1, <2>3, UpdatedLocationType
  <2>5. locations' = [locations EXCEPT ![m.loc] = row]  BY <1>6, <2>4 DEF LocationUpdated
  <2>6. locations[m.loc].status # "ABSENT"  BY <2>1, <2>2 DEF FindsItsMasters
  <2>7. /\ row.status # "ABSENT"
        /\ row.status = "ARCHIVED"
             => m.kind = "ARCHIVE_LOCATION" \/ locations[m.loc].status = "ARCHIVED"
    BY <2>1, <2>3, <2>4, <2>6, UpdatedLocationFields
  <2>8. row.status = "ARCHIVED" => \A i \in Items : OnHand(i, m.loc) = 0
    BY <1>1, <2>2, <2>7 DEF HistoryAllows, ArchivedHoldsNothing
  <2>9. PICK l \in Locations : l = m.loc  BY <1>1
  <2>10. Contract!ChangeLocation
    BY <1>0, <1>6, <2>5, <2>7, <2>8, <2>9, ChangeLocationOf DEF LocationUpdated
  <2> QED  BY <2>10 DEF Contract!Next
<1>7. CASE LocationCreated(r)
  <2>1. PICK row \in LocationRow : row = CreatedLocation
    BY DEF CreatedLocation, LocationRow, Status
  <2>2. row.status = "ACTIVE"  BY <2>1 DEF CreatedLocation
  <2>3. locations' = [locations EXCEPT ![m.loc] = row]  BY <1>7, <2>1 DEF LocationCreated
  <2>4. PICK l \in Locations : l = m.loc  BY <1>1
  <2>5. Contract!ChangeLocation
    BY <1>0, <1>7, <2>2, <2>3, <2>4, ChangeLocationOf DEF LocationCreated
  <2> QED  BY <2>5 DEF Contract!Next
<1> QED  BY <1>0, <1>2, <1>3, <1>4, <1>5, <1>6, <1>7, MasterSteps

(* So every step is one of the contract, or a stutter.                     *)
LEMMA NextContract ==
    GuardInv /\ GuardInv' /\ [Next]_vars => [Contract!Next]_(Contract!svars)
<1> SUFFICES ASSUME GuardInv, GuardInv', [Next]_vars
             PROVE  Contract!Next \/ UNCHANGED Contract!svars
  OBVIOUS
<1>1. (UNCHANGED <<Stocks, Entries, ItemView, LocationView>>) => UNCHANGED Contract!svars
  BY Zenon DEF Contract!svars, Stocks, Entries, ItemView, LocationView
<1>2. CASE Next  BY <1>1, <1>2, StepImplements DEF Next
<1>3. CASE UNCHANGED vars
  <2>1. UNCHANGED <<Stocks, Entries, ItemView, LocationView>>
    BY <1>3, ViewsOfLedger DEF vars, ItemView, LocationView
  <2> QED  BY <1>1, <2>1
<1> QED  BY <1>2, <1>3

-----------------------------------------------------------------------------
(* What follows for the service.                                           *)

(* The tables, the transactions and the answers stay well-formed.          *)
THEOREM TypeCorrect == Spec => []TypeOK
<1>1. IInv => TypeOK  BY DEF IInv
<1> QED  BY <1>1, InventoryInvariant, PTL

(* However many transactions interleave, no committed balance of an item   *)
(* at a location is ever below zero.                                       *)
THEOREM NothingIsEverShort == Spec => []NeverNegative
<1>1. IInv => NeverNegative  BY DEF IInv
<1> QED  BY <1>1, InventoryInvariant, PTL

(* However often a request is retried, its idempotency key names one       *)
(* operation at most.                                                      *)
THEOREM KeysAreIdempotent == Spec => []OneOperationPerKey
<1>1. IInv => OneOperationPerKey  BY DEF IInv
<1> QED  BY <1>1, InventoryInvariant, PTL

(* A reversal is the exact inverse of an earlier posting, and the only one *)
THEOREM ReversalsCancelOnce == Spec => []ReversalsAreExact
<1>1. IInv => ReversalsAreExact  BY DEF IInv
<1> QED  BY <1>1, InventoryInvariant, PTL

(* An opening balance precedes every other movement of its item at its     *)
(* location, although two of them may pass the service's check in turn.    *)
THEOREM OpeningsComeFirst == Spec => []OpeningComesFirst
<1>1. IInv => OpeningComesFirst  BY DEF IInv
<1> QED  BY <1>1, InventoryInvariant, PTL

(* Whoever is told 201 or 200 has the operation it asked for in the ledger *)
THEOREM AnswersAreRecorded == Spec => []AnswersAreTrue
<1>1. IInv => AnswersAreTrue  BY DEF IInv
<1> QED  BY <1>1, InventoryInvariant, PTL

(* In every reachable state of every instance each request under way holds *)
(* the locks of its statement, finds its masters as it locked them, and    *)
(* its checks still hold.                                                  *)
THEOREM GuardsHold == Spec => []GuardInv
<1> QED  BY InitGuardInv, NextGuardInv, PTL DEF Spec

(* An archived item or location holds no stock, whatever postings raced    *)
(* with the archive: the archive looks at the balance under the lock every *)
(* movement of it needs.                                                   *)
THEOREM ArchivedIsEmpty == Spec => []ArchivedHoldsNothing
<1>1. GuardInv => ArchivedHoldsNothing  BY DEF GuardInv
<1> QED  BY <1>1, GuardsHold, PTL

(* No request is ever answered by a unique index or a trigger (a 500):     *)
(* what the service checks under its locks is at least what the database   *)
(* checks after it, and it still holds then.                               *)
THEOREM ChecksAreEnough == Spec => []DatabaseGuardsStaySilent
<1>1. GuardInv => DatabaseGuardsStaySilent  BY DEF GuardInv
<1> QED  BY <1>1, GuardsHold, PTL

(* Operations are committed one at a time, on masters that are ACTIVE at   *)
(* the commit itself, and the unit an item moved in never changes.         *)
THEOREM LedgerRestsOnMasters == Spec => LedgerFitsItsMasters
<1> QED  BY GuardsHold, NextFitsItsMasters, PTL
         DEF Spec, LedgerFitsItsMasters, FitsItsMasters

(* A master change that is answered with success overwrites the version    *)
(* its client saw, and no other.                                           *)
THEOREM NoUpdateIsLost == Spec => NoLostUpdate
<1>1. GuardInv /\ [Next]_vars => [AppliesWhatItSaw]_vars  BY StepAppliesWhatItSaw
<1> QED  BY <1>1, GuardsHold, PTL DEF Spec, NoLostUpdate, AppliesWhatItSaw

(* The interleaved statements of every request, with their locks, refusals *)
(* and lost transactions, implement the atomic contract of StockLedger: a  *)
(* commit is one recorded entry or one change of a master, and everything  *)
(* else is invisible.                                                      *)
THEOREM StockLedgerImplemented == Spec => ImplementsStockLedger
<1> QED  BY InitContract, GuardsHold, NextContract, PTL
         DEF Spec, ImplementsStockLedger, Contract!Spec
-----------------------------------------------------------------------------
(* Who waits for whom.                                                     *)

(* The locks are taken in one order: key, item, locations by their ids.    *)
InLockOrder(r) ==
    /\ phase[r] \in {"new", "key", "done"} => locks[r] = {}
    /\ phase[r] \in {"lookup", "original", "item"} =>
        /\ \A i \in Items : ItemLock(i) \notin locks[r]
        /\ \A l \in Locations : LocationLock(l) \notin locks[r]
    /\ phase[r] = "locations" =>
        \A l \in Locations : LocationLock(l) \in locks[r] =>
            \A m \in LocationsToLock(r) : l < m

LockOrder == \A r \in Requests : InLockOrder(r)

(* These are all the requests that keep the locks of a statement from it.  *)
LEMMA WaitingIsBlocking ==
    ASSUME NEW r \in Requests, \A q \in Requests : ~WaitsFor(r, q)
    PROVE  /\ phase[r] = "key" => Free(KeyLock(request[r].key), r)
           /\ phase[r] = "item" => Free(ItemLock(ItemOf(r)), r)
           /\ phase[r] = "locations" /\ LocationsToLock(r) # {}
              => Free(LocationLock(NextLocation(r)), r)
           /\ phase[r] = "insert" =>
              /\ \A q \in Requests \ {r} : phase[q] = "commit" => ~Collides(r, q)
              /\ \A l \in LocationsOf(r) : Free(LocationLock(l), r)
BY DEF WaitsFor, Free

(* A finite set of numbers has a greatest: the one with the fewest above.  *)
LEMMA GreatestLocation ==
    ASSUME NEW S \in SUBSET Locations, S # {}
    PROVE  \E k \in S : \A j \in S : j =< k
<1> DEFINE Above(x) == {y \in S : x =< y}
           sizes == {Cardinality(Above(x)) : x \in S}
           R == {pair \in Nat \X Nat : pair[1] < pair[2]}
<1>1. S \subseteq Nat /\ IsFiniteSet(S)  BY LocationsAreOrdered, MastersAreFinite, FS_Subset
<1>2. \A x \in S : IsFiniteSet(Above(x)) /\ Cardinality(Above(x)) \in Nat
  BY <1>1, FS_Subset, FS_CardinalityType
<1>3. sizes \subseteq Nat /\ sizes # {}  BY <1>2
<1>4. PICK c \in sizes : \A d \in sizes : <<d, c>> \notin R
  <2>1. IsWellFoundedOn(R, Nat)  BY LessThan, NatLessThanWellFounded, Zenon
  <2> HIDE DEF R, sizes
  <2> QED  BY <2>1, <1>3, WFMin
<1>5. PICK k \in S : c = Cardinality(Above(k))  BY <1>4
<1>6. ASSUME NEW j \in S, k < j PROVE FALSE
  <2>1. Above(j) \subseteq Above(k) /\ k \in Above(k) /\ k \notin Above(j)
    BY <1>1, <1>5, <1>6
  <2> HIDE DEF Above
  <2>2. Cardinality(Above(j)) < Cardinality(Above(k))
    BY <2>1, <1>2, FS_Subset
  <2>3. Cardinality(Above(j)) \in sizes  OBVIOUS
  <2> QED  BY <2>2, <2>3, <1>2, <1>4, <1>5
<1> QED  BY <1>1, <1>5, <1>6

(* A step of r changes nothing of what the others found; and a request     *)
(* that is done holds no lock.                                             *)
LEMMA FrameOfFound ==
    ASSUME TypeOK, NEW r \in Requests, Step(r) \/ Rollback(r)
    PROVE  /\ \A q \in Requests \ {r} : found'[q] = found[q]
           /\ phase'[r] = "done" => locks'[r] = {}
<1> USE DEF TypeOK
<1> DEFINE Kept == \A q \in Requests \ {r} : found'[q] = found[q]
<1>1. ASSUME NEW a, Finish(r, a) PROVE Kept /\ locks'[r] = {}
  BY <1>1 DEF Finish
<1>2. ASSUME NEW p, Goto(r, p), p # "done" PROVE Kept /\ phase'[r] # "done"
  BY <1>2 DEF Goto
<1>3. CASE Arrive(r)
  <2>1. CASE Refuse(r)  BY <2>1, <1>1 DEF Refuse
  <2>2. CASE ~Refuse(r)
    <3>1. request[r].kind \in Kind  BY DEF Request
    <3>2. \E p \in {"key", "item", "locations", "apply"} : Goto(r, p)
      BY <3>1, <2>2, <1>3 DEF Arrive, Kind
    <3> QED  BY <3>2, <1>2
  <2> QED  BY <2>1, <2>2
<1>4. CASE LockKey(r)  BY <1>2, <1>4 DEF LockKey
<1>5. CASE Lookup(r)
  <2>1. \/ Finish(r, "replayed") \/ Finish(r, "rejected")
        \/ Goto(r, "original") \/ Goto(r, "item")
    BY <1>5 DEF Lookup, Refuse
  <2> QED  BY <2>1, <1>1, <1>2
<1>6. CASE ReadOriginal(r)  BY <1>1, <1>2, <1>6 DEF ReadOriginal, Refuse
<1>7. CASE LockItem(r)
  <2>1. Finish(r, "rejected") \/ Goto(r, "checks") \/ Goto(r, "locations")
    BY <1>7 DEF LockItem, Refuse
  <2> QED  BY <2>1, <1>1, <1>2
<1>8. CASE LockLocation(r)  BY <1>8 DEF LockLocation
<1>9. CASE LocationsLocked(r)  BY <1>1, <1>2, <1>9 DEF LocationsLocked, Refuse
<1>10. CASE Check(r)
  <2>1. Finish(r, "rejected") \/ Goto(r, "insert") \/ Goto(r, "apply")
    BY <1>10 DEF Check, Refuse
  <2> QED  BY <2>1, <1>1, <1>2
<1>11. CASE Insert(r)  BY <1>1, <1>2, <1>11 DEF Insert
<1>12. CASE Commit(r) \/ ApplyMaster(r) \/ Create(r) \/ Rollback(r)
  BY <1>1, <1>12 DEF Commit, ApplyMaster, Create, Rollback, Refuse
<1> QED  BY <1>3, <1>4, <1>5, <1>6, <1>7, <1>8, <1>9, <1>10, <1>11, <1>12 DEF Step

(* A request that takes a step keeps to the order of the locks.            *)
LEMMA StepInLockOrder ==
    ASSUME TypeOK, PhaseFits, LockOrder, NEW r \in Requests, Step(r) \/ Rollback(r)
    PROVE  InLockOrder(r)'
<1>1. InLockOrder(r)  BY DEF LockOrder
<1>2. locks \in [Requests -> SUBSET Lock]  BY DEF TypeOK
<1>3. CASE phase'[r] = "done"
  <2>1. locks'[r] = {}  BY <1>3, FrameOfFound
  <2> QED  BY <1>3, <2>1 DEF InLockOrder
<1>4. CASE phase'[r] # "done"
  <2>1. PathStep(r)  BY <1>4, PathSteps
  <2>2. CASE Arrive(r) /\ phase[r] = "new"
    <3>1. locks' = locks  BY <2>2, <1>4 DEF Arrive, Refuse, Finish, TypeOK
    <3>2. locks'[r] = {}  BY <3>1, <2>2, <1>1 DEF InLockOrder
    <3> QED  BY <3>2 DEF InLockOrder
  <2>3. CASE LockKey(r) /\ phase[r] = "key" /\ phase'[r] = "lookup"
    <3>1. locks'[r] = {KeyLock(request[r].key)}
      BY <2>3, <1>1, <1>2 DEF InLockOrder, LockKey, Acquire
    <3> QED  BY <2>3, <3>1 DEF InLockOrder, KeyLock, ItemLock, LocationLock
  <2>4. CASE /\ \/ Lookup(r) /\ phase[r] = "lookup"
                \/ ReadOriginal(r) /\ phase[r] = "original"
             /\ phase'[r] \in {"original", "item"}
    <3>1. locks' = locks
      BY <2>4 DEF Lookup, ReadOriginal, Refuse, Finish, TypeOK
    <3> QED  BY <2>4, <3>1, <1>1 DEF InLockOrder
  <2>5. CASE LockItem(r) /\ phase[r] = "item" /\ phase'[r] \in {"checks", "locations"}
    <3>1. locks'[r] = locks[r] \cup {ItemLock(ItemOf(r))}
      BY <2>5, <1>2 DEF LockItem, Acquire, Refuse, Finish, TypeOK
    <3> QED  BY <2>5, <3>1, <1>1 DEF InLockOrder, ItemLock, LocationLock
  <2>6. CASE LockLocation(r) /\ phase[r] = "locations" /\ phase'[r] = "locations"
    <3> DEFINE n == NextLocation(r)
    <3>1. LocationsToLock(r) \in SUBSET Locations /\ LocationsToLock(r) # {}
      BY <2>6 DEF LockLocation, LocationsToLock, TypeOK
    <3>2. n \in LocationsToLock(r) /\ \A m \in LocationsToLock(r) : n =< m
      BY <3>1, LeastLocation DEF NextLocation
    <3> HIDE DEF n
    <3>3. locks'[r] = locks[r] \cup {LocationLock(n)} /\ found' = found
      BY <2>6, <1>2 DEF LockLocation, Acquire, n
    <3>4. \A l \in Locations : LocationLock(l) \in locks'[r]
                                => LocationLock(l) \in locks[r] \/ l = n
      BY <3>3 DEF LocationLock
    <3>5. LocationsToLock(r)' = LocationsToLock(r) \ {n}
      BY <3>3 DEF LocationsToLock, LocationLock
    <3>6. ASSUME NEW l \in Locations, LocationLock(l) \in locks'[r],
                 NEW m \in LocationsToLock(r)'
          PROVE  l < m
      <4>1. m \in LocationsToLock(r) /\ m # n  BY <3>6, <3>5
      <4>2. CASE LocationLock(l) \in locks[r]  BY <4>1, <4>2, <2>6, <1>1 DEF InLockOrder
      <4>3. CASE l = n
        <5>1. l \in Nat /\ m \in Nat  BY <3>1, <4>1, LocationsAreOrdered
        <5> QED  BY <5>1, <4>1, <4>3, <3>2
      <4> QED  BY <3>6, <3>4, <4>2, <4>3
    <3> QED  BY <2>6, <3>6 DEF InLockOrder
  <2>7. CASE phase'[r] \in {"checks", "insert", "apply", "commit"}
    BY <2>7 DEF InLockOrder
  <2> QED  BY <2>1, <2>2, <2>3, <2>4, <2>5, <2>6, <2>7 DEF PathStep
<1> QED  BY <1>3, <1>4

(* Every step keeps the order of the locks.                                *)
LEMMA NextLockOrder == IInv /\ LockOrder /\ [Next]_vars => LockOrder'
<1> SUFFICES ASSUME IInv, LockOrder, [Next]_vars PROVE LockOrder'  OBVIOUS
<1>1. TypeOK /\ PhaseFits  BY DEF IInv
<1>2. ASSUME NEW r \in Requests, Step(r) \/ Rollback(r), NEW q \in Requests
      PROVE  InLockOrder(q)'
  <2>1. CASE q = r  BY <2>1, <1>1, <1>2, StepInLockOrder
  <2>2. CASE q # r
    <3>1. phase'[q] = phase[q] /\ locks'[q] = locks[q] /\ found'[q] = found[q]
      BY <2>2, <1>1, <1>2, Frame, FrameOfFound
    <3>2. InLockOrder(q)  BY DEF LockOrder
    <3>3. LocationsToLock(q)' = LocationsToLock(q)  BY <3>1 DEF LocationsToLock
    <3> QED  BY <3>1, <3>2, <3>3 DEF InLockOrder
  <2> QED  BY <2>1, <2>2
<1>3. CASE UNCHANGED vars
  BY <1>3 DEF vars, LockOrder, InLockOrder, LocationsToLock
<1> QED  BY <1>2, <1>3 DEF Next, LockOrder

(* Nobody waits for its own insert: it has the locks the insert needs, and *)
(* nobody else has its key.                                                *)
LEMMA InsertsDoNotWait ==
    ASSUME GuardInv, NEW r \in Requests, NEW q \in Requests, phase[r] = "insert"
    PROVE  ~WaitsFor(r, q)
<1>1. MovesStock(r) /\ HoldsItsLocks(r)
  BY DEF GuardInv, IInv, Guarded, UnderWay, PhaseFits, MovesStock
<1>2. q # r => locks[r] \cap locks[q] = {}  BY DEF GuardInv, IInv, LocksExclusive
<1>3. \A l \in LocationsOf(r) : LocationLock(l) \in locks[r]
  BY <1>1 DEF HoldsItsLocks
<1>4. ASSUME q # r, phase[q] = "commit" PROVE ~Collides(r, q)
  <2>1. MovesStock(q) /\ HoldsItsLocks(q)
    BY <1>4 DEF GuardInv, IInv, Guarded, UnderWay, PhaseFits, MovesStock
  <2>2. KeyLock(request[r].key) \in locks[r] /\ KeyLock(request[q].key) \in locks[q]
    BY <1>1, <1>4, <2>1 DEF HoldsItsLocks
  <2>3. request[q].key # request[r].key  BY <1>2, <1>4, <2>2
  <2>4. ~(IsReversal(r) /\ IsReversal(q) /\ request[q].target = request[r].target)
    <3> SUFFICES ASSUME IsReversal(r), IsReversal(q), request[q].target = request[r].target
                 PROVE  FALSE
      OBVIOUS
    <3>1. ItemOf(q) = ItemOf(r)  BY DEF ItemOf, Original
    <3>2. ItemLock(ItemOf(r)) \in locks[r] /\ ItemLock(ItemOf(q)) \in locks[q]
      BY <1>1, <1>4, <2>1 DEF HoldsItsLocks
    <3> QED  BY <1>2, <1>4, <3>1, <3>2
  <2> QED  BY <2>3, <2>4 DEF Collides
<1> QED  BY <1>2, <1>3, <1>4 DEF WaitsFor

(* Whoever is waited for at a location and waits at one itself waits at a  *)
(* later one; at an item or a key, it waits at a location or an item.      *)
LEMMA WaitsGoUp ==
    ASSUME GuardInv, LockOrder, NEW r \in Requests, NEW q \in Requests, WaitsFor(r, q),
           NEW p \in Requests, WaitsFor(q, p)
    PROVE  /\ phase[r] \in {"key", "item", "locations"}
           /\ phase[q] \in {"item", "locations"}
           /\ phase[r] = "item" => phase[q] = "locations"
           /\ phase[r] = "locations" =>
              /\ phase[q] = "locations"
              /\ NextLocation(r) \in Locations /\ NextLocation(q) \in Locations
              /\ NextLocation(r) < NextLocation(q)
<1>1. TypeOK /\ PhaseFits /\ InLockOrder(q)  BY DEF GuardInv, IInv, LockOrder
<1>2. phase[r] \in {"key", "item", "locations"}
  BY InsertsDoNotWait DEF WaitsFor
<1>3. phase[q] \in {"key", "item", "locations"}
  BY InsertsDoNotWait DEF WaitsFor
<1>4. locks[q] # {}  BY <1>2 DEF WaitsFor
<1>5. phase[q] # "key"  BY <1>1, <1>4 DEF InLockOrder
<1>6. ASSUME phase[r] = "item" PROVE phase[q] = "locations"
  <2>1. ItemOf(r) \in Items  BY <1>1, <1>6, WorkTypes DEF PhaseFits
  <2>2. ItemLock(ItemOf(r)) \in locks[q]  BY <1>6 DEF WaitsFor
  <2> QED  BY <1>1, <1>3, <1>5, <2>1, <2>2 DEF InLockOrder
<1>7. ASSUME phase[r] = "locations"
      PROVE  /\ phase[q] = "locations"
             /\ NextLocation(r) \in Locations /\ NextLocation(q) \in Locations
             /\ NextLocation(r) < NextLocation(q)
  <2>1. \A x \in {r, q} : LocationsToLock(x) \in SUBSET Locations
    BY <1>1 DEF LocationsToLock, TypeOK
  <2>2. LocationsToLock(r) # {} /\ LocationLock(NextLocation(r)) \in locks[q]
    BY <1>7 DEF WaitsFor
  <2>3. NextLocation(r) \in Locations  BY <2>1, <2>2, LeastLocation DEF NextLocation
  <2>4. phase[q] = "locations"  BY <1>1, <1>3, <1>5, <2>2, <2>3 DEF InLockOrder
  <2>5. LocationsToLock(q) # {}  BY <2>4 DEF WaitsFor
  <2>6. NextLocation(q) \in LocationsToLock(q)  BY <2>1, <2>5, LeastLocation DEF NextLocation
  <2>7. NextLocation(r) < NextLocation(q)
    BY <1>1, <2>2, <2>3, <2>4, <2>6 DEF InLockOrder
  <2> QED  BY <2>1, <2>3, <2>4, <2>6, <2>7
<1> QED  BY <1>2, <1>3, <1>5, <1>6, <1>7

(* Whoever is waited for is under way.                                     *)
LEMMA EndedBlockNobody ==
    ASSUME GuardInv, LockOrder, NEW r \in Requests, NEW q \in Requests, WaitsFor(r, q)
    PROVE  UnderWay(q)
<1>1. phase[r] # "insert" /\ InLockOrder(q)  BY InsertsDoNotWait DEF LockOrder
<1>2. locks[q] # {}  BY <1>1 DEF WaitsFor
<1> QED  BY <1>1, <1>2 DEF InLockOrder, UnderWay

(* So a group in which everybody waited for somebody would have no last.   *)
LEMMA NoCircle == GuardInv /\ LockOrder => NoCircularWait
<1> SUFFICES ASSUME GuardInv, LockOrder, NEW S \in SUBSET Requests, S # {},
                    \A r \in S : \E q \in S : WaitsFor(r, q)
             PROVE  FALSE
  BY EndedBlockNobody DEF NoCircularWait, UnderWay
<1> DEFINE Ahead(r) == CHOOSE q \in S : WaitsFor(r, q)
<1>1. ASSUME NEW r \in S PROVE Ahead(r) \in S /\ WaitsFor(r, Ahead(r))
  OBVIOUS
<1>2. ASSUME NEW r \in S
      PROVE  /\ phase[r] \in {"key", "item", "locations"}
             /\ phase[Ahead(r)] \in {"item", "locations"}
             /\ phase[r] = "item" => phase[Ahead(r)] = "locations"
             /\ phase[r] = "locations" =>
                /\ phase[Ahead(r)] = "locations"
                /\ NextLocation(r) \in Locations /\ NextLocation(Ahead(r)) \in Locations
                /\ NextLocation(r) < NextLocation(Ahead(r))
  <2>1. Ahead(r) \in S /\ WaitsFor(r, Ahead(r))  BY <1>1
  <2>2. PICK p \in S : WaitsFor(Ahead(r), p)  BY <2>1
  <2> HIDE DEF Ahead
  <2> QED  BY <2>1, <2>2, WaitsGoUp
<1> HIDE DEF Ahead
<1> DEFINE there == {r \in S : phase[r] = "locations"}
           places == {NextLocation(r) : r \in there}
<1>3. there # {}
  <2>1. PICK r : r \in S  OBVIOUS
  <2>2. Ahead(r) \in S /\ Ahead(Ahead(r)) \in S  BY <1>1, <2>1
  <2>3. phase[r] = "locations" \/ phase[Ahead(r)] = "locations"
        \/ phase[Ahead(Ahead(r))] = "locations"
    BY <2>1, <2>2, <1>2
  <2> QED  BY <2>1, <2>2, <2>3
<1>4. places \in SUBSET Locations /\ places # {}  BY <1>2, <1>3
<1>5. PICK k \in places : \A j \in places : j =< k
  <2> HIDE DEF places
  <2> QED  BY <1>4, GreatestLocation
<1>6. PICK r \in there : k = NextLocation(r)  BY <1>5
<1>7. Ahead(r) \in there  BY <1>1, <1>2, <1>6
<1>8. NextLocation(Ahead(r)) \in places /\ k < NextLocation(Ahead(r))
  BY <1>2, <1>6, <1>7
<1>9. k \in Nat /\ NextLocation(Ahead(r)) \in Nat
  BY <1>4, <1>5, <1>8, LocationsAreOrdered
<1> QED  BY <1>5, <1>8, <1>9

(* Transactions never wait for each other in a circle, nor for an ended    *)
(* one: whatever requests are under way, with whatever items and           *)
(* locations, in every group of them one waits for nobody in the group.    *)
(* Each takes its key, then its item, then its locations in the order of   *)
(* their ids.                                                              *)
THEOREM CirclesDoNotForm == Spec => []NoCircularWait
<1>1. Init => LockOrder
  BY DEF Init, LockOrder, InLockOrder
<1>2. Spec => []LockOrder
  BY <1>1, InventoryInvariant, NextLockOrder, PTL DEF Spec
<1> QED  BY <1>2, GuardsHold, NoCircle, PTL
=============================================================================
