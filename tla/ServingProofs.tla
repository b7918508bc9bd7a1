--------------------------- MODULE ServingProofs ---------------------------
(***************************************************************************)
(* What holds of the answers of the API, in two parts that share nothing:  *)
(* the pages of its lists (KeysetPaging), and the connections its requests *)
(* wait for (Server).                                                      *)
(*                                                                         *)
(* Pages, for any number of rows, tables and rows on a page.  The argument *)
(* for PagesAreComplete: rows that have their time are in a strict total   *)
(* order that no writer changes (FollowsIsAnOrder), and the cursor         *)
(* separates what was shown from what is still read (Apart).  A steady row *)
(* of a table that was read was fetched, or more rows than fit on the page *)
(* come before it (Reached, by FirstAreEnough); so the merged page ends    *)
(* before it and the next cursor does not pass it over.                    *)
(*                                                                         *)
(* Connections, for any requests and any size of the pools.  The argument  *)
(* for SomebodyGoesOn: who has locked the organization ends its transaction*)
(* next (LockHolders), so if everybody waited, nobody would wait for the   *)
(* organization; who holds an identity connection returns it or locks the  *)
(* organization (IdentityHolders), so that pool would have room, and who   *)
(* holds a tenant's connection would wait for the finding.  But a holder of*)
(* the finding who waits for it again shares it with nobody (WaitersAt).   *)
(***************************************************************************)
EXTENDS KeysetPaging, Server, FiniteSetTheorems, SequenceTheorems, NaturalsInduction,
        WellFoundedInduction, TLAPS

-----------------------------------------------------------------------------
(* The inductive invariant.                                                *)

(* The rows of the pages shown, and the rows that have their time.         *)
Shown == UNION {pages[k] : k \in DOMAIN pages}
Timed == {x \in Rows : time[x] # None}

(* The rows of S that are shown before x.                                  *)
Ahead(S, x) == {y \in S : Follows(x, y)}

(* What the client sees was committed before it was seen.                  *)
Seen ==
    /\ steady \subseteq committed \cap matching /\ committed \subseteq Timed
    /\ fetched \subseteq committed /\ Shown \subseteq committed
    /\ cursor # None => cursor \in committed

(* Nothing is read for a client that stopped, and every page but the first *)
(* is asked for with a cursor.                                             *)
Underway ==
    /\ ~turning => todo = {} /\ fetched = {}
    /\ pages = <<>> => cursor = None
    /\ turning /\ pages # <<>> => cursor # None

(* The cursor names the last row shown, and what is read comes after it.   *)
Apart ==
    /\ turning /\ pages # <<>> => \A x \in Shown : x = cursor \/ Follows(cursor, x)
    /\ \A x \in fetched : BeforeCursor(x)

(* Later pages show later rows.                                            *)
InOrder ==
    \A k \in DOMAIN pages : \A n \in 1..k - 1 :
        \A x \in pages[k], y \in pages[n] : Follows(x, y)

(* A row of a table that was read was fetched, or more rows than fit on    *)
(* the page come before it.                                                *)
Reached(x) == x \in fetched \/ Limit < Cardinality(Ahead(fetched, x))

(* No steady row is passed over.                                           *)
Complete ==
    /\ turning => \A x \in steady : x \in Shown \/ BeforeCursor(x)
    /\ turning => \A x \in steady :
                      list.table[x] \notin todo /\ BeforeCursor(x) => Reached(x)
    /\ pages # <<>> /\ ~turning => steady \subseteq Shown

(* The inductive invariant.                                                *)
IInv == TypeOK /\ Seen /\ Underway /\ Apart /\ InOrder /\ Complete

-----------------------------------------------------------------------------
(* The order of the rows.                                                  *)

(* Rows that have their time are in a strict total order.                  *)
LEMMA FollowsIsAnOrder ==
  ASSUME TypeOK
  PROVE  /\ \A x \in Timed : ~Follows(x, x)
         /\ \A x, y \in Timed : x = y \/ Follows(x, y) \/ Follows(y, x)
         /\ \A x, y, z \in Timed : Follows(x, y) /\ Follows(y, z) => Follows(x, z)
  <1>1. list \in Lists /\ list.table \in [Rows -> Nat]
    BY ListAssumption DEF TypeOK
  <1>2. \A x \in Timed : x \in Nat /\ x \in Rows /\ time[x] \in Nat
    BY RowAssumption, PageAssumption DEF TypeOK, Timed
  <1>3. CASE list.codes # None
    <2>1. list.codes \in [Rows -> Nat \X Nat]
      BY <1>1, <1>3, ListAssumption
    <2>2. \A x, y \in Rows : list.codes[x] = list.codes[y] => x = y
      BY <1>1, <1>3, CodeAssumption
    <2>3. \A x \in Timed : /\ list.codes[x] \in Nat \X Nat
                           /\ list.codes[x] = <<list.codes[x][1], list.codes[x][2]>>
                           /\ list.codes[x][1] \in Nat /\ list.codes[x][2] \in Nat
      BY <1>2, <2>1
    <2>4. \A x, y : Follows(x, y) <=> \/ list.codes[x][1] > list.codes[y][1]
                                      \/ /\ list.codes[x][1] = list.codes[y][1]
                                         /\ list.codes[x][2] > list.codes[y][2]
      BY <1>3 DEF Follows, PositionFollows
    <2>5. \A x \in Timed : ~Follows(x, x)
      BY <2>3, <2>4
    <2>6. ASSUME NEW x \in Timed, NEW y \in Timed
          PROVE  x = y \/ Follows(x, y) \/ Follows(y, x)
      BY <1>2, <2>2, <2>3, <2>4
    <2>7. ASSUME NEW x \in Timed, NEW y \in Timed, NEW z \in Timed, Follows(x, y), Follows(y, z)
          PROVE  Follows(x, z)
      BY <2>3, <2>4, <2>7
    <2> QED BY <2>5, <2>6, <2>7
  <1>4. CASE list.codes = None
    <2>1. \A x, y : Follows(x, y) <=>
                        \/ time[x] < time[y]
                        \/ /\ time[x] = time[y]
                           /\ \/ list.table[x] < list.table[y]
                              \/ list.table[x] = list.table[y] /\ x < y
      BY <1>4 DEF Follows
    <2>2. \A x \in Timed : x \in Nat /\ time[x] \in Nat /\ list.table[x] \in Nat
      BY <1>1, <1>2
    <2>3. \A x \in Timed : ~Follows(x, x)
      BY <2>1, <2>2
    <2>4. ASSUME NEW x \in Timed, NEW y \in Timed
          PROVE  x = y \/ Follows(x, y) \/ Follows(y, x)
      BY <2>1, <2>2
    <2>5. ASSUME NEW x \in Timed, NEW y \in Timed, NEW z \in Timed, Follows(x, y), Follows(y, z)
          PROVE  Follows(x, z)
      BY <2>1, <2>2, <2>5
    <2> QED BY <2>3, <2>4, <2>5
  <1> QED BY <1>3, <1>4

(* What is smaller than another number.                                    *)
Below == {pair \in Nat \X Nat : pair[1] < pair[2]}

(* A set of natural numbers that is not empty has a least element.         *)
LEMMA LeastExists ==
  ASSUME NEW S \in SUBSET Nat, S # {}
  PROVE  \E k \in S : \A j \in S : k <= j
  <1>1. IsWellFoundedOn(Below, Nat)
    BY NatLessThanWellFounded DEF OpToRel, Below
  <1>2. PICK k \in S : \A j \in S : <<j, k>> \notin Below
    BY <1>1, WFMin
  <1>3. ASSUME NEW j \in S PROVE k <= j
    <2>1. j \in Nat /\ k \in Nat /\ <<j, k>> \notin Below
      BY <1>2
    <2> QED BY <2>1 DEF Below
  <1> QED BY <1>3

(* The rows ahead of a row are finitely many, and it is not one of them.   *)
LEMMA AheadType ==
  ASSUME TypeOK, NEW S \in SUBSET Timed, NEW x \in Timed
  PROVE  /\ IsFiniteSet(S) /\ IsFiniteSet(Ahead(S, x)) /\ Cardinality(Ahead(S, x)) \in Nat
         /\ x \notin Ahead(S, x)
  <1>1. IsFiniteSet(S)
    BY RowAssumption, FS_Subset DEF Timed
  <1>2. Ahead(S, x) \subseteq S
    BY DEF Ahead
  <1>3. IsFiniteSet(Ahead(S, x)) /\ Cardinality(Ahead(S, x)) \in Nat
    BY <1>1, <1>2, FS_Subset, FS_CardinalityType
  <1> QED BY <1>1, <1>3, FollowsIsAnOrder DEF Ahead

(* A row that follows another has more rows ahead of it.                   *)
LEMMA AheadGrows ==
  ASSUME TypeOK, NEW S \in SUBSET Timed, NEW x \in Timed, NEW y \in S, Follows(x, y)
  PROVE  /\ Ahead(S, y) \subseteq Ahead(S, x)
         /\ Cardinality(Ahead(S, y)) < Cardinality(Ahead(S, x))
  <1>1. Ahead(S, y) \subseteq Ahead(S, x)
    BY FollowsIsAnOrder DEF Ahead
  <1>2. y \in Ahead(S, x) /\ y \notin Ahead(S, y)
    BY FollowsIsAnOrder DEF Ahead
  <1>3. IsFiniteSet(Ahead(S, x))
    BY AheadType
  <1>4. Cardinality(Ahead(S, y)) <= Cardinality(Ahead(S, x)) - 1
    <2>1. Ahead(S, y) \subseteq Ahead(S, x) \ {y}
      BY <1>1, <1>2
    <2>2. IsFiniteSet(Ahead(S, x) \ {y})
            /\ Cardinality(Ahead(S, x) \ {y}) = Cardinality(Ahead(S, x)) - 1
      BY <1>2, <1>3, FS_RemoveElement
    <2> QED BY <2>1, <2>2, FS_Subset
  <1>5. Cardinality(Ahead(S, y)) \in Nat /\ Cardinality(Ahead(S, x)) \in Nat
    BY AheadType
  <1> QED BY <1>1, <1>4, <1>5

(* The first n rows are n, unless that is all of them: of a row that is    *)
(* not among them they are all ahead.                                      *)
LEMMA FirstAreEnough ==
  ASSUME TypeOK, NEW S \in SUBSET Timed, NEW n \in Nat, NEW x \in S, x \notin FirstOf(S, n)
  PROVE  /\ \A y \in FirstOf(S, n) : Follows(x, y)
         /\ n <= Cardinality(Ahead(FirstOf(S, n), x))
  <1> DEFINE F == FirstOf(S, n)
             sizes == {Cardinality(Ahead(S, y)) : y \in S \ F}
  <1>1. /\ F = {y \in S : Cardinality(Ahead(S, y)) < n}
        /\ \A y \in S : Cardinality(Ahead(S, y)) \in Nat
    BY AheadType DEF FirstOf, Ahead
  <1> HIDE DEF F
  <1>2. sizes \in SUBSET Nat /\ sizes # {}
    BY <1>1 DEF F
  <1>3. PICK z \in S \ F : \A y \in S \ F : Cardinality(Ahead(S, z)) <= Cardinality(Ahead(S, y))
    <2> HIDE DEF sizes
    <2>1. PICK k \in sizes : \A j \in sizes : k <= j
      BY <1>2, LeastExists
    <2> QED BY <2>1 DEF sizes
  <1>4. Ahead(S, z) \subseteq F
    <2> SUFFICES ASSUME NEW y \in Ahead(S, z), y \notin F PROVE FALSE
      OBVIOUS
    <2>1. y \in S /\ Follows(z, y)
      BY DEF Ahead
    <2>2. Cardinality(Ahead(S, y)) < Cardinality(Ahead(S, z))
      BY <2>1, AheadGrows
    <2> QED BY <1>1, <1>3, <2>1, <2>2
  <1>5. ASSUME NEW y \in F PROVE Follows(x, y)
    <2>1. x # y /\ y \in S
      BY <1>1 DEF F
    <2>2. ~Follows(y, x)
      <3> SUFFICES ASSUME Follows(y, x) PROVE FALSE
        OBVIOUS
      <3>1. Cardinality(Ahead(S, x)) < Cardinality(Ahead(S, y))
        BY <2>1, AheadGrows
      <3> QED BY <1>1, <2>1, <3>1 DEF F
    <2> QED BY <2>1, <2>2, FollowsIsAnOrder
  <1>6. Ahead(S, z) \subseteq Ahead(F, x)
    BY <1>4, <1>5 DEF Ahead
  <1>7. n <= Cardinality(Ahead(S, z))
    BY <1>1, <1>3
  <1>8. Cardinality(Ahead(S, z)) <= Cardinality(Ahead(F, x))
    <2>1. F \in SUBSET Timed /\ x \in Timed
      BY <1>1
    <2>2. IsFiniteSet(Ahead(F, x))
      BY <2>1, AheadType
    <2> QED BY <1>6, <2>2, FS_Subset
  <1>9. F \in SUBSET Timed /\ Cardinality(Ahead(F, x)) \in Nat /\ Cardinality(Ahead(S, z)) \in Nat
    BY <1>1, <1>3, AheadType
  <1> QED BY <1>5, <1>7, <1>8, <1>9 DEF F

(* The last of some rows follows the others.                               *)
LEMMA LastExists ==
  ASSUME TypeOK, NEW S \in SUBSET Timed, S # {}
  PROVE  LastOf(S) \in S /\ \A y \in S \ {LastOf(S)} : Follows(LastOf(S), y)
  <1> DEFINE Behind(x) == {y \in S : Follows(y, x)}
             sizes == {Cardinality(Behind(x)) : x \in S}
  <1>1. \A x \in S : IsFiniteSet(Behind(x)) /\ Cardinality(Behind(x)) \in Nat
    <2>1. IsFiniteSet(S)
      BY AheadType
    <2> QED BY <2>1, FS_Subset, FS_CardinalityType
  <1>2. sizes \in SUBSET Nat /\ sizes # {}
    BY <1>1
  <1>3. PICK x \in S : \A y \in S : Cardinality(Behind(x)) <= Cardinality(Behind(y))
    <2>1. PICK k \in sizes : \A j \in sizes : k <= j
      <3> HIDE DEF sizes
      <3> QED BY <1>2, LeastExists
    <2> QED BY <2>1
  <1>4. ASSUME NEW y \in S \ {x} PROVE Follows(x, y)
    <2> SUFFICES ASSUME Follows(y, x) PROVE FALSE
      BY FollowsIsAnOrder
    <2>1. y \in Behind(x) /\ Behind(y) \subseteq Behind(x) \ {y}
      BY FollowsIsAnOrder
    <2> HIDE DEF Behind
    <2>2. /\ IsFiniteSet(Behind(x) \ {y})
          /\ Cardinality(Behind(x) \ {y}) = Cardinality(Behind(x)) - 1
      BY <1>1, <2>1, FS_RemoveElement
    <2>3. Cardinality(Behind(y)) <= Cardinality(Behind(x)) - 1
      BY <2>1, <2>2, FS_Subset
    <2> QED BY <1>1, <1>3, <2>3
  <1> QED BY <1>4 DEF LastOf

-----------------------------------------------------------------------------
(* The steps.                                                              *)

(* No list is open at first.                                               *)
LEMMA InitInv == Init => IInv
  <1> SUFFICES ASSUME Init PROVE IInv
    OBVIOUS
  <1>1. TypeOK
    <2>1. clock \in 0..MaxTime
      BY PageAssumption DEF Init
    <2>2. time \in [Rows -> (0..MaxTime) \cup {None}]
      BY DEF Init
    <2>3. pages \in Seq(SUBSET Rows)
      BY DEF Init
    <2>4. /\ list \in Lists /\ committed \subseteq Rows /\ matching \subseteq Rows
          /\ todo \subseteq Tables /\ fetched \subseteq Rows /\ cursor \in Rows \cup {None}
          /\ turning \in BOOLEAN /\ steady \subseteq committed
      BY DEF Init
    <2> QED BY <2>1, <2>2, <2>3, <2>4 DEF TypeOK
  <1>2. Shown = {}
    BY DEF Init, Shown
  <1>3. Seen /\ Underway /\ Apart /\ Complete
    BY <1>2 DEF Init, Seen, Underway, Apart, Complete, Timed
  <1>4. InOrder
    BY DEF Init, InOrder
  <1> QED BY <1>1, <1>3, <1>4 DEF IInv

(* The order of the rows that have their time is fixed.                    *)
LEMMA OrderIsFixed ==
  ASSUME list' = list, \A x \in Timed : time'[x] = time[x]
  PROVE  /\ \A x, y \in Timed : Follows(x, y)' <=> Follows(x, y)
         /\ cursor' = cursor /\ (cursor # None => cursor \in Timed) =>
                \A x \in Timed : BeforeCursor(x)' <=> BeforeCursor(x)
  <1>1. \A x, y \in Timed : Follows(x, y)' <=> Follows(x, y)
    BY DEF Follows
  <1>2. ASSUME cursor' = cursor, cursor # None => cursor \in Timed, NEW x \in Timed
        PROVE  BeforeCursor(x)' <=> BeforeCursor(x)
    BY <1>1, <1>2 DEF BeforeCursor
  <1> QED BY <1>1, <1>2

(* A writer's step leaves what the client sees, and takes rows out of the  *)
(* list only.                                                              *)
LEMMA WriterStep ==
  ASSUME IInv, TypeOK', UNCHANGED <<list, todo, fetched, cursor, pages, turning>>,
         \A x \in Timed : time'[x] = time[x], Timed \subseteq Timed',
         committed \subseteq committed', committed' \subseteq Timed',
         steady' \subseteq steady, steady' \subseteq matching'
  PROVE  IInv'
  <1>1. /\ Shown' = Shown /\ Shown \subseteq Timed /\ fetched \subseteq Timed
        /\ steady \subseteq Timed /\ steady' \subseteq Timed
        /\ cursor # None => cursor \in Timed
    BY DEF Shown, IInv, Seen
  <1>2. /\ \A x, y \in Timed : Follows(x, y)' <=> Follows(x, y)
        /\ \A x \in Timed : BeforeCursor(x)' <=> BeforeCursor(x)
    BY <1>1, OrderIsFixed
  <1>3. Seen'
    BY <1>1 DEF IInv, Seen
  <1>4. Underway'
    BY DEF IInv, Underway
  <1>5. Apart'
    <2>1. turning /\ pages # <<>> => cursor \in Timed
      BY <1>1 DEF IInv, Underway
    <2> QED BY <1>1, <1>2, <2>1 DEF IInv, Apart
  <1>6. InOrder'
    <2> SUFFICES ASSUME NEW k \in DOMAIN pages, NEW n \in 1..k - 1,
                        NEW x \in pages[k], NEW y \in pages[n]
                 PROVE  Follows(x, y)'
      BY DEF InOrder
    <2>1. n \in DOMAIN pages
      BY DEF IInv, TypeOK
    <2>2. x \in Shown /\ y \in Shown
      BY <2>1 DEF Shown
    <2>3. Follows(x, y)
      BY DEF IInv, InOrder
    <2> QED BY <1>1, <1>2, <2>2, <2>3
  <1>7. Complete'
    <2>1. \A x \in steady' : Ahead(fetched, x)' = Ahead(fetched, x)
      BY <1>1, <1>2 DEF Ahead
    <2>2. \A x \in steady' : Reached(x)' <=> Reached(x)
      BY <2>1 DEF Reached
    <2>3. \A x \in steady' : BeforeCursor(x)' <=> BeforeCursor(x)
      BY <1>1, <1>2
    <2> QED BY <1>1, <2>2, <2>3 DEF IInv, Complete
  <1> QED BY <1>3, <1>4, <1>5, <1>6, <1>7 DEF IInv

(* A transaction takes its time.                                           *)
LEMMA BeginStep == ASSUME IInv, NEW x \in Rows, Begin(x) PROVE IInv'
  <1>1. TypeOK'
    BY DEF IInv, TypeOK, Tables, Begin, client
  <1>2. \A y \in Timed : time'[y] = time[y]
    BY DEF IInv, TypeOK, Tables, Begin, Timed
  <1>3. Timed \subseteq Timed'
    <2>1. \A y \in Timed : time'[y] # None
      BY <1>2 DEF Timed
    <2> QED BY <2>1 DEF Timed
  <1> QED BY <1>1, <1>2, <1>3, WriterStep DEF Begin, client, IInv, Seen

(* A row appears, anywhere in the order.                                   *)
LEMMA CommitStep == ASSUME IInv, NEW x \in Rows, Commit(x) PROVE IInv'
  <1>1. TypeOK'
    BY DEF IInv, TypeOK, Tables, Commit, client
  <1>2. /\ time' = time /\ Timed' = Timed /\ committed' = committed \cup {x}
        /\ x \in Timed /\ committed \subseteq Timed
    BY DEF Commit, Timed, IInv, Seen
  <1> QED BY <1>1, <1>2, WriterStep DEF Commit, client, IInv, Seen

(* A row leaves the list or comes back, and is steady no longer.           *)
LEMMA ChangeStep == ASSUME IInv, NEW x \in Rows, Change(x) PROVE IInv'
  <1>1. TypeOK'
    BY DEF IInv, TypeOK, Tables, Change, client
  <1>2. time' = time /\ Timed' = Timed /\ committed' = committed
    BY DEF Change, Timed
  <1>3. steady' \subseteq matching'
    BY DEF Change, IInv, Seen
  <1> QED BY <1>1, <1>2, <1>3, WriterStep DEF Change, client, IInv, Seen

(* Time passes.                                                            *)
LEMMA TickStep == ASSUME IInv, Tick PROVE IInv'
  <1>1. TypeOK'
    BY PageAssumption DEF IInv, TypeOK, Tables, Tick, client
  <1>2. time' = time /\ Timed' = Timed
    BY DEF Tick, Timed
  <1> QED BY <1>1, <1>2, WriterStep DEF Tick, client, IInv, Seen

(* Nothing happens.                                                        *)
LEMMA StutterStep == IInv /\ UNCHANGED vars => IInv'
  <1> SUFFICES ASSUME IInv, UNCHANGED vars PROVE IInv'
    OBVIOUS
  <1>1. TypeOK'
    BY DEF IInv, TypeOK, Tables, vars
  <1>2. time' = time /\ Timed' = Timed
    BY DEF vars, Timed
  <1> QED BY <1>1, <1>2, WriterStep DEF vars, IInv, Seen

(* The client's first request.                                             *)
LEMMA OpenStep == IInv /\ Open => IInv'
  <1> SUFFICES ASSUME IInv, Open PROVE IInv'
    OBVIOUS
  <1>1. TypeOK'
    BY DEF IInv, TypeOK, Tables, Open
  <1>2. /\ Shown' = Shown /\ Timed' = Timed /\ cursor' = None /\ cursor = None
        /\ fetched' = {} /\ pages' = <<>> /\ todo' = Tables /\ Tables' = Tables
    BY DEF Open, Shown, Timed, IInv, Underway, Tables
  <1>3. Seen'
    BY <1>2 DEF Open, IInv, Seen
  <1>4. Underway' /\ Apart'
    BY <1>2 DEF Open, Underway, Apart
  <1>5. InOrder'
    BY <1>2 DEF InOrder
  <1>6. Complete'
    <2>1. \A x : BeforeCursor(x)'
      BY <1>2 DEF BeforeCursor
    <2>2. \A x \in Rows : list'.table[x] \in todo'
      BY <1>2 DEF Tables, Open
    <2>3. steady' \subseteq Rows
      BY <1>1 DEF TypeOK
    <2> QED BY <1>2, <2>1, <2>2, <2>3 DEF Complete
  <1> QED BY <1>1, <1>3, <1>4, <1>5, <1>6 DEF IInv

(* A table is read: its rows that are steady are fetched or passed over    *)
(* for rows that come first.                                               *)
LEMMA FetchStep == ASSUME IInv, NEW t \in Tables, Fetch(t) PROVE IInv'
  <1> DEFINE visible == {x \in committed \cap matching : list.table[x] = t /\ BeforeCursor(x)}
             found == FirstOf(visible, Limit + 1)
  <1>1. /\ t \in todo /\ todo' = todo \ {t} /\ fetched' = fetched \cup found
        /\ list' = list /\ time' = time /\ committed' = committed /\ matching' = matching
        /\ steady' = steady /\ cursor' = cursor /\ pages' = pages /\ turning' = turning
        /\ clock' = clock
    BY DEF Fetch, rows
  <1>2. found \subseteq visible /\ visible \subseteq committed
    BY DEF FirstOf
  <1> HIDE DEF found
  <1>3. TypeOK /\ TypeOK' /\ visible \subseteq Timed
    <2>1. TypeOK /\ visible \subseteq Timed
      BY <1>2 DEF IInv, Seen
    <2>2. fetched' \subseteq Rows
      BY <1>1, <1>2, <2>1 DEF TypeOK
    <2> HIDE DEF visible
    <2>3. todo' \subseteq Tables'
      BY <1>1, <2>1 DEF TypeOK, Tables
    <2> QED BY <1>1, <2>1, <2>2, <2>3 DEF TypeOK
  <1>4. /\ Shown' = Shown /\ Timed' = Timed
        /\ \A x, y : Follows(x, y)' <=> Follows(x, y)
        /\ \A x : BeforeCursor(x)' <=> BeforeCursor(x)
    BY <1>1 DEF Shown, Timed, Follows, BeforeCursor
  <1>5. Seen'
    BY <1>1, <1>2, <1>4 DEF IInv, Seen
  <1>6. Underway'
    BY <1>1 DEF IInv, Underway
  <1>7. Apart'
    <2>1. \A x \in found : BeforeCursor(x)
      BY <1>2
    <2> HIDE DEF visible
    <2> QED BY <1>1, <1>4, <2>1 DEF IInv, Apart
  <1>8. InOrder'
    BY <1>1, <1>4 DEF IInv, InOrder
  <1>9. Complete'
    <2>1. ASSUME NEW x \in steady, turning, list.table[x] \notin todo', BeforeCursor(x)
          PROVE  Reached(x)'
      <3>1. x \in committed \cap matching /\ x \in Timed
        BY DEF IInv, Seen
      <3>2. fetched' \subseteq Timed' /\ fetched' \subseteq Timed
        BY <1>4, <1>5 DEF Seen
      <3>3. /\ IsFiniteSet(Ahead(fetched', x)) /\ Cardinality(Ahead(fetched', x)) \in Nat
            /\ Ahead(fetched, x)' = Ahead(fetched', x)
        BY <1>3, <1>4, <3>1, <3>2, AheadType DEF Ahead
      <3>4. CASE list.table[x] = t
        <4>1. x \in visible
          BY <2>1, <3>1, <3>4
        <4>2. CASE x \in found
          BY <1>1, <4>2 DEF Reached
        <4>3. CASE x \notin found
          <5>1. Limit + 1 <= Cardinality(Ahead(found, x))
            <6> HIDE DEF visible
            <6>1. Limit + 1 \in Nat
              BY PageAssumption
            <6> QED BY <1>3, <4>1, <4>3, <6>1, FirstAreEnough DEF found
          <5>2. Cardinality(Ahead(found, x)) <= Cardinality(Ahead(fetched', x))
            <6>1. Ahead(found, x) \subseteq Ahead(fetched', x)
              BY <1>1 DEF Ahead
            <6> QED BY <3>3, <6>1, FS_Subset
          <5>3. Cardinality(Ahead(found, x)) \in Nat
            BY <1>2, <1>3, <3>1, AheadType
          <5> QED BY <3>3, <5>1, <5>2, <5>3, PageAssumption DEF Reached
        <4> QED BY <4>2, <4>3
      <3>5. CASE list.table[x] # t
        <4>1. Reached(x)
          BY <1>1, <2>1, <3>5 DEF IInv, Complete
        <4>2. CASE x \in fetched
          BY <1>1, <4>2 DEF Reached
        <4>3. CASE x \notin fetched
          <5>1. Limit < Cardinality(Ahead(fetched, x))
            BY <4>1, <4>3 DEF Reached
          <5>2. Cardinality(Ahead(fetched, x)) <= Cardinality(Ahead(fetched', x))
            <6>1. Ahead(fetched, x) \subseteq Ahead(fetched', x)
              BY <1>1 DEF Ahead
            <6> QED BY <3>3, <6>1, FS_Subset
          <5>3. Cardinality(Ahead(fetched, x)) \in Nat
            <6>1. fetched \subseteq Timed
              BY DEF IInv, Seen
            <6> QED BY <1>3, <3>1, <6>1, AheadType
          <5> QED BY <3>3, <5>1, <5>2, <5>3, PageAssumption DEF Reached
        <4> QED BY <4>2, <4>3
      <3> QED BY <3>4, <3>5
    <2>2. turning' => \A x \in steady' : x \in Shown' \/ BeforeCursor(x)'
      BY <1>1, <1>4 DEF IInv, Complete
    <2>3. turning' => \A x \in steady' :
                  (list.table[x] \notin todo /\ BeforeCursor(x) => Reached(x))'
      BY <1>1, <1>4, <2>1
    <2>4. pages' # <<>> /\ ~turning' => steady' \subseteq Shown'
      BY <1>1, <1>4 DEF IInv, Complete
    <2> QED BY <2>2, <2>3, <2>4 DEF Complete
  <1> QED BY <1>3, <1>5, <1>6, <1>7, <1>8, <1>9 DEF IInv

(* An answer shows what comes next, and its cursor passes no steady row    *)
(* over: of a row that was not fetched more rows than fit come before it.  *)
LEMMA AnswerStep == IInv /\ Answer => IInv'
  <1> SUFFICES ASSUME IInv, Answer PROVE IInv'
    OBVIOUS
  <1> DEFINE page == FirstOf(fetched, Limit)
             more == Cardinality(fetched) > Limit
  <1>1. /\ turning /\ todo = {} /\ pages' = Append(pages, page)
        /\ cursor' = IF more THEN LastOf(page) ELSE cursor
        /\ todo' = IF more THEN Tables ELSE {}
        /\ turning' = more /\ fetched' = {}
        /\ list' = list /\ time' = time /\ committed' = committed /\ matching' = matching
        /\ steady' = steady /\ clock' = clock
    BY DEF Answer, rows
  <1>2. /\ TypeOK /\ pages \in Seq(SUBSET Rows) /\ fetched \subseteq Timed
        /\ committed \subseteq Timed /\ steady \subseteq Timed /\ Shown \subseteq Timed
        /\ Limit \in Nat \ {0} /\ IsFiniteSet(fetched) /\ Cardinality(fetched) \in Nat
    <2>1. TypeOK /\ fetched \subseteq Timed
      BY DEF IInv, Seen
    <2>2. IsFiniteSet(fetched) /\ Cardinality(fetched) \in Nat
      <3>1. IsFiniteSet(fetched)
        BY <2>1, RowAssumption, FS_Subset DEF Timed
      <3> QED BY <3>1, FS_CardinalityType
    <2> QED BY <2>1, <2>2, PageAssumption DEF IInv, Seen, TypeOK
  <1>3. page \subseteq fetched /\ fetched \subseteq committed
    BY DEF FirstOf, IInv, Seen
  <1>4. /\ Timed' = Timed /\ Tables' = Tables
        /\ \A x, y : Follows(x, y)' <=> Follows(x, y)
    BY <1>1 DEF Timed, Tables, Follows
  <1>5. /\ DOMAIN pages' = 1..Len(pages) + 1 /\ Len(pages) \in Nat /\ DOMAIN pages = 1..Len(pages)
        /\ pages'[Len(pages) + 1] = page
        /\ \A k \in DOMAIN pages : pages'[k] = pages[k]
    <2> HIDE DEF page
    <2> QED BY <1>1, <1>2
  <1>6. Shown' = Shown \cup page
    <2> HIDE DEF page
    <2> QED BY <1>5 DEF Shown
  <1>7. more => LastOf(page) \in page /\ \A y \in page \ {LastOf(page)} : Follows(LastOf(page), y)
    <2> SUFFICES ASSUME more PROVE page # {}
      BY <1>2, <1>3, LastExists
    <2>1. CASE fetched \subseteq page
      <3>1. fetched # {}
        BY <1>2, FS_EmptySet
      <3> QED BY <2>1, <3>1
    <2>2. CASE ~(fetched \subseteq page)
      <3>1. PICK x \in fetched : x \notin page
        BY <2>2
      <3>2. Limit <= Cardinality(Ahead(page, x))
        BY <1>2, <3>1, FirstAreEnough
      <3>3. Ahead(page, x) # {}
        BY <1>2, <3>2, FS_EmptySet
      <3> QED BY <3>3 DEF Ahead
    <2> QED BY <2>1, <2>2
  <1> DEFINE last == LastOf(page)
  <1>8. \A x \in page : BeforeCursor(x)
    BY <1>3 DEF IInv, Apart
  <1>9. \A x \in page, y \in Shown : Follows(x, y)
    <2> SUFFICES ASSUME NEW x \in page, NEW y \in Shown PROVE Follows(x, y)
      OBVIOUS
    <2>1. pages # <<>>
      BY <1>5 DEF Shown
    <2>2. cursor # None /\ cursor \in Timed /\ (y = cursor \/ Follows(cursor, y))
      BY <1>1, <1>2, <2>1 DEF IInv, Underway, Apart, Seen
    <2>3. Follows(x, cursor)
      BY <1>8, <2>2 DEF BeforeCursor
    <2>4. x \in Timed /\ y \in Timed
      BY <1>2, <1>3
    <2> QED BY <1>2, <2>2, <2>3, <2>4, FollowsIsAnOrder
  <1>10. TypeOK'
    <2>1. page \in SUBSET Rows
      BY <1>2, <1>3 DEF Timed
    <2>2. pages' \in Seq(SUBSET Rows)
      <3> HIDE DEF page
      <3> QED BY <1>1, <1>2, <2>1
    <2>3. more => LastOf(page) \in Rows
      BY <1>7, <2>1
    <2>4. cursor' \in Rows \cup {None} /\ turning' \in BOOLEAN /\ todo' \subseteq Tables'
      <3> HIDE DEF page
      <3> QED BY <1>1, <1>2, <1>4, <2>3 DEF TypeOK
    <2> QED BY <1>1, <1>2, <2>2, <2>4 DEF TypeOK
  <1>11. Seen'
    <2>1. cursor' # None => cursor' \in committed
      <3>1. more => LastOf(page) \in committed
        BY <1>3, <1>7
      <3> HIDE DEF page
      <3> QED BY <1>1, <3>1 DEF IInv, Seen
    <2>2. Shown' \subseteq committed
      BY <1>3, <1>6 DEF IInv, Seen
    <2> HIDE DEF page
    <2> QED BY <1>1, <1>4, <2>1, <2>2 DEF IInv, Seen
  <1>12. pages' # <<>>
    BY <1>5
  <1>13. more => LastOf(page) # None
    BY <1>2, <1>3, <1>7, RowAssumption DEF Timed
  <1>14. Underway'
    <2> HIDE DEF page
    <2> QED BY <1>1, <1>12, <1>13 DEF Underway
  <1>15. Apart'
    <2>1. ASSUME more, NEW x \in Shown \cup page PROVE x = last \/ Follows(last, x)
      BY <1>7, <1>9, <2>1
    <2> HIDE DEF page
    <2>2. turning' => cursor' = last
      BY <1>1
    <2> HIDE DEF last
    <2> QED BY <1>1, <1>4, <1>6, <2>1, <2>2 DEF Apart
  <1>16. InOrder'
    <2> SUFFICES ASSUME NEW k \in DOMAIN pages', NEW n \in 1..k - 1,
                        NEW x \in pages'[k], NEW y \in pages'[n]
                 PROVE  Follows(x, y)
      BY <1>4 DEF InOrder
    <2> HIDE DEF page
    <2>1. n \in DOMAIN pages /\ y \in pages[n] /\ y \in Shown
      <3>1. n \in DOMAIN pages
        BY <1>5
      <3> QED BY <1>5, <3>1 DEF Shown
    <2>2. CASE k = Len(pages) + 1
      BY <1>5, <1>9, <2>1, <2>2
    <2>3. CASE k # Len(pages) + 1
      <3>1. k \in DOMAIN pages /\ x \in pages[k]
        BY <1>5, <2>3
      <3> QED BY <2>1, <3>1 DEF IInv, InOrder
    <2> QED BY <2>2, <2>3
  <1>17. ASSUME NEW x \in steady, x \notin Shown
         PROVE  (x \in fetched \/ Limit < Cardinality(Ahead(fetched, x))) /\ x \in Timed
    <2>1. BeforeCursor(x) /\ list.table[x] \notin todo
      BY <1>1, <1>17 DEF IInv, Complete
    <2> QED BY <1>1, <1>2, <2>1 DEF IInv, Complete, Reached
  <1>18. ASSUME ~more PROVE steady \subseteq Shown \cup page
    <2> SUFFICES ASSUME NEW x \in steady, x \notin Shown PROVE x \in page
      OBVIOUS
    <2>1. \A y \in Timed : Cardinality(Ahead(fetched, y)) <= Cardinality(fetched)
      <3> TAKE y \in Timed
      <3>1. Ahead(fetched, y) \subseteq fetched
        BY DEF Ahead
      <3> QED BY <1>2, <3>1, FS_Subset
    <2>2. \A y \in Timed : Cardinality(Ahead(fetched, y)) \in Nat
      BY <1>2, AheadType
    <2>3. x \in fetched
      BY <1>2, <1>17, <1>18, <2>1, <2>2
    <2>4. Cardinality(Ahead(fetched, x)) < Limit
      <3>1. x \notin Ahead(fetched, x) /\ x \in Timed
        BY <1>2, <1>17, AheadType
      <3>2. Ahead(fetched, x) \subseteq fetched \ {x}
        BY <3>1 DEF Ahead
      <3>3. /\ IsFiniteSet(fetched \ {x})
            /\ Cardinality(fetched \ {x}) = Cardinality(fetched) - 1
        BY <1>2, <2>3, FS_RemoveElement
      <3>4. Cardinality(Ahead(fetched, x)) <= Cardinality(fetched) - 1
        BY <3>2, <3>3, FS_Subset
      <3> QED BY <1>2, <1>18, <2>2, <3>1, <3>4
    <2> QED BY <2>3, <2>4 DEF FirstOf, Ahead
  <1>19. ASSUME more, NEW x \in steady, x \notin Shown, x \notin page PROVE Follows(x, last)
    <2>1. last \in page /\ last \in fetched /\ last \in Timed /\ x \in Timed
      BY <1>2, <1>3, <1>7, <1>19
    <2>2. CASE x \in fetched
      BY <1>2, <1>19, <2>1, <2>2, FirstAreEnough
    <2>3. CASE x \notin fetched
      <3>1. Limit < Cardinality(Ahead(fetched, x))
        BY <1>17, <1>19, <2>3
      <3>2. Cardinality(Ahead(fetched, last)) < Limit
        BY <2>1 DEF FirstOf, Ahead
      <3>3. x # last
        BY <2>1, <2>3
      <3>4. ~Follows(last, x)
        <4> SUFFICES ASSUME Follows(last, x) PROVE FALSE
          OBVIOUS
        <4> HIDE DEF last
        <4>1. Ahead(fetched, x) \subseteq Ahead(fetched, last)
          BY <1>2, <2>1, FollowsIsAnOrder DEF Ahead
        <4>2. /\ IsFiniteSet(Ahead(fetched, last)) /\ Cardinality(Ahead(fetched, last)) \in Nat
              /\ Cardinality(Ahead(fetched, x)) \in Nat
          BY <1>2, <2>1, AheadType
        <4>3. Cardinality(Ahead(fetched, x)) <= Cardinality(Ahead(fetched, last))
          BY <4>1, <4>2, FS_Subset
        <4> QED BY <1>2, <3>1, <3>2, <4>2, <4>3
      <3> HIDE DEF last
      <3> QED BY <1>2, <2>1, <3>3, <3>4, FollowsIsAnOrder
    <2> QED BY <2>2, <2>3
  <1>20. Complete'
    <2>1. ASSUME turning', NEW x \in steady' PROVE x \in Shown' \/ BeforeCursor(x)'
      <3>1. more /\ cursor' = last
        BY <1>1, <2>1
      <3>2. CASE x \in Shown \cup page
        BY <1>6, <3>2
      <3>3. CASE x \notin Shown \cup page
        <4>1. Follows(x, last)
          BY <1>1, <1>19, <3>1, <3>3
        <4> HIDE DEF last
        <4> QED BY <1>4, <3>1, <4>1 DEF BeforeCursor
      <3> QED BY <3>2, <3>3
    <2>2. ASSUME turning', NEW x \in steady' PROVE (list.table[x] \in todo)'
      <3>1. todo' = Tables'
        BY <1>1, <1>4, <2>2
      <3>2. x \in Rows
        BY <1>1, <1>2 DEF Timed
      <3> QED BY <3>1, <3>2 DEF Tables
    <2>3. ~turning' => steady' \subseteq Shown'
      BY <1>1, <1>6, <1>18
    <2> QED BY <2>1, <2>2, <2>3 DEF Complete
  <1> QED BY <1>10, <1>11, <1>14, <1>15, <1>16, <1>20 DEF IInv

-----------------------------------------------------------------------------
(* The theorems.                                                           *)

(* What holds while rows are written and pages are turned.                 *)
THEOREM PagingInvariant == Spec => []IInv
  <1>1. IInv /\ [Next]_vars => IInv'
    BY OpenStep, AnswerStep, TickStep, FetchStep, BeginStep, CommitStep, ChangeStep,
       StutterStep DEF Next
  <1> QED BY InitInv, <1>1, PTL DEF Spec

(* The pages of every list show rows in order, none twice, and miss none   *)
(* that was in the list all the time, whatever is written meanwhile.       *)
THEOREM NoRowIsMissed == Spec => []PagesAreComplete
  <1>1. IInv => PagesAreComplete
    BY DEF IInv, InOrder, Complete, Shown, PagesAreComplete
  <1> QED BY <1>1, PagingInvariant, PTL


-----------------------------------------------------------------------------
(* The programs of the handlers.                                           *)

Instruction ==
    {Take(p) : p \in Pool} \cup {Return(p) : p \in Pool}
    \cup {Lock(row, mode, p) : row \in Row, mode \in {"share", "update"}, p \in Pool}

LEMMA Instructions ==
  /\ \A p \in Pool : Take(p) \in Instruction /\ Return(p) \in Instruction
  /\ OrganizationKey \in Instruction /\ FindingKey \in Instruction
  /\ Lock("finding", "update", "tenant") \in Instruction
  /\ Lock("organization", "update", "identity") \in Instruction
  BY DEF Instruction, OrganizationKey, FindingKey, Pool, Row

(* What the connections and the rows of a program are taken for: an        *)
(* identity connection is returned at once, except by governance, which    *)
(* locks the organization first; a tenant's connection is returned before  *)
(* another is taken; the organization is locked last.                      *)
WellPlaced(P, i, governs) ==
    /\ P[i] = Take("identity") =>
        /\ i < Len(P)
        /\ \/ P[i + 1] = Return("identity")
           \/ governs /\ P[i + 1] = Lock("organization", "update", "identity")
    /\ P[i] = Take("tenant") =>
        \E j \in (i + 1)..Len(P) :
            P[j] = Return("tenant") /\ \A m \in (i + 1)..j : P[m] # Take("tenant")
    /\ P[i].do = "lock" =>
        /\ governs <=> P[i].pool = "identity"
        /\ \E j \in 1..(i - 1) :
            P[j] = Take(P[i].pool) /\ \A m \in (j + 1)..i : P[m] # Return(P[i].pool)
        /\ P[i].row = "organization" => i < Len(P) /\ P[i + 1] = Return(P[i].pool)
        /\ P[i].row = "finding" =>
            /\ P[i].pool = "tenant"
            /\ P[i].mode = "share" => i < Len(P) /\ P[i + 1] = OrganizationKey

Disciplined(k) ==
    /\ Handlers[k] \in Seq(Instruction)
    /\ \A i \in 1..Len(Handlers[k]) : WellPlaced(Handlers[k], i, k = "govern")

LEMMA AccountIsDisciplined == Disciplined("account")
  <1> DEFINE P == Handlers["account"]
  <1>1. P \in Seq(Instruction)
    BY Instructions DEF Handlers, Authenticate, Pool
  <1>2. /\ Len(P) = 2 /\ P[1] = Take("identity")
        /\ P[2] = Return("identity")
    BY DEF Handlers, Authenticate
  <1>3. 1..2 = {1, 2}
    OBVIOUS
  <1> HIDE DEF P
  <1> QED BY <1>1, <1>2, <1>3 DEF Disciplined, WellPlaced, P, Take, Return, Lock

LEMMA ListIsDisciplined == Disciplined("list")
  <1> DEFINE P == Handlers["list"]
  <1>1. P \in Seq(Instruction)
    BY Instructions DEF Handlers, List, Authorized, Authenticate, ReadLabels, Pool
  <1>2. /\ Len(P) = 6 /\ P[1] = Take("identity")
        /\ P[2] = Return("identity") /\ P[3] = Take("tenant")
        /\ P[4] = Take("identity") /\ P[5] = Return("identity")
        /\ P[6] = Return("tenant")
    BY DEF Handlers, List, Authorized, Authenticate, ReadLabels
  <1>3. 1..6 = {1, 2, 3, 4, 5, 6}
    OBVIOUS
  <1> HIDE DEF P
  <1> QED BY <1>1, <1>2, <1>3 DEF Disciplined, WellPlaced, P, Take, Return, Lock

LEMMA ManageIsDisciplined == Disciplined("manage")
  <1> DEFINE P == Handlers["manage"]
  <1>1. P \in Seq(Instruction)
    BY Instructions DEF Handlers, Manage, Authorized, Authenticate, ReadLabels, EventKeys, Pool
  <1>2. /\ Len(P) = 11 /\ P[1] = Take("identity")
        /\ P[2] = Return("identity") /\ P[3] = Take("tenant")
        /\ P[4] = Lock("finding", "update", "tenant")
        /\ P[5] = Take("identity") /\ P[6] = Return("identity")
        /\ P[7] = Take("identity") /\ P[8] = Return("identity")
        /\ P[9] = FindingKey /\ P[10] = OrganizationKey
        /\ P[11] = Return("tenant")
    BY DEF Handlers, Manage, Authorized, Authenticate, ReadLabels, EventKeys
  <1>3. 1..11 = {1, 2, 3, 4, 5, 6, 7, 8, 9, 10, 11}
    OBVIOUS
  <1> HIDE DEF P
  <1>4. \A i \in {1, 2, 3} : WellPlaced(P, i, FALSE)
    BY <1>2 DEF WellPlaced, Take, Return, Lock, OrganizationKey, FindingKey
  <1>5. \A i \in {4} : WellPlaced(P, i, FALSE)
    BY <1>2 DEF WellPlaced, Take, Return, Lock, OrganizationKey, FindingKey
  <1>6. \A i \in {5, 6, 7, 8} : WellPlaced(P, i, FALSE)
    BY <1>2 DEF WellPlaced, Take, Return, Lock, OrganizationKey, FindingKey
  <1>7. \A i \in {9} : WellPlaced(P, i, FALSE)
    BY <1>2 DEF WellPlaced, Take, Return, Lock, OrganizationKey, FindingKey
  <1>8. \A i \in {10, 11} : WellPlaced(P, i, FALSE)
    BY <1>2 DEF WellPlaced, Take, Return, Lock, OrganizationKey, FindingKey
  <1> QED BY <1>1, <1>2, <1>3, <1>4, <1>5, <1>6, <1>7, <1>8 DEF Disciplined, P

LEMMA CommentIsDisciplined == Disciplined("comment")
  <1> DEFINE P == Handlers["comment"]
  <1>1. P \in Seq(Instruction)
    BY Instructions DEF Handlers, Comment, Authorized, Authenticate, EventKeys, Pool
  <1>2. /\ Len(P) = 6 /\ P[1] = Take("identity")
        /\ P[2] = Return("identity") /\ P[3] = Take("tenant")
        /\ P[4] = FindingKey /\ P[5] = OrganizationKey
        /\ P[6] = Return("tenant")
    BY DEF Handlers, Comment, Authorized, Authenticate, EventKeys
  <1>3. 1..6 = {1, 2, 3, 4, 5, 6}
    OBVIOUS
  <1> HIDE DEF P
  <1> QED BY <1>1, <1>2, <1>3 DEF Disciplined, WellPlaced, P, Take, Return, Lock, OrganizationKey, FindingKey

LEMMA PostIsDisciplined == Disciplined("post")
  <1> DEFINE P == Handlers["post"]
  <1>1. P \in Seq(Instruction)
    BY Instructions DEF Handlers, Post, Authorized, Authenticate, Pool
  <1>2. /\ Len(P) = 5 /\ P[1] = Take("identity")
        /\ P[2] = Return("identity") /\ P[3] = Take("tenant")
        /\ P[4] = OrganizationKey /\ P[5] = Return("tenant")
    BY DEF Handlers, Post, Authorized, Authenticate
  <1>3. 1..5 = {1, 2, 3, 4, 5}
    OBVIOUS
  <1> HIDE DEF P
  <1> QED BY <1>1, <1>2, <1>3 DEF Disciplined, WellPlaced, P, Take, Return, Lock, OrganizationKey

LEMMA GovernIsDisciplined == Disciplined("govern")
  <1> DEFINE P == Handlers["govern"]
  <1>1. P \in Seq(Instruction)
    BY Instructions DEF Handlers, Govern, Authenticate, Pool
  <1>2. /\ Len(P) = 5 /\ P[1] = Take("identity")
        /\ P[2] = Return("identity") /\ P[3] = Take("identity")
        /\ P[4] = Lock("organization", "update", "identity")
        /\ P[5] = Return("identity")
    BY DEF Handlers, Govern, Authenticate
  <1>3. 1..5 = {1, 2, 3, 4, 5}
    OBVIOUS
  <1> HIDE DEF P
  <1> QED BY <1>1, <1>2, <1>3 DEF Disciplined, WellPlaced, P, Take, Return, Lock

LEMMA AuditIsDisciplined == Disciplined("audit")
  <1> DEFINE P == Handlers["audit"]
  <1>1. P \in Seq(Instruction)
    BY Instructions DEF Handlers, Audit, Authorized, Authenticate, Pool
  <1>2. /\ Len(P) = 8 /\ P[1] = Take("identity")
        /\ P[2] = Return("identity") /\ P[3] = Take("tenant")
        /\ P[4] = Return("tenant") /\ P[5] = Take("identity")
        /\ P[6] = Return("identity") /\ P[7] = Take("identity")
        /\ P[8] = Return("identity")
    BY DEF Handlers, Audit, Authorized, Authenticate
  <1>3. 1..8 = {1, 2, 3, 4, 5, 6, 7, 8}
    OBVIOUS
  <1> HIDE DEF P
  <1> QED BY <1>1, <1>2, <1>3 DEF Disciplined, WellPlaced, P, Take, Return, Lock

LEMMA UploadIsDisciplined == Disciplined("upload")
  <1> DEFINE P == Handlers["upload"]
  <1>1. P \in Seq(Instruction)
    BY Instructions DEF Handlers, Upload, Authorized, Authenticate, Pool
  <1>2. /\ Len(P) = 13 /\ P[1] = Take("identity")
        /\ P[2] = Return("identity") /\ P[3] = Take("tenant")
        /\ P[4] = Return("tenant") /\ P[5] = Take("identity")
        /\ P[6] = Return("identity") /\ P[7] = Take("tenant")
        /\ P[8] = Return("tenant") /\ P[9] = Take("identity")
        /\ P[10] = Return("identity") /\ P[11] = Take("tenant")
        /\ P[12] = OrganizationKey /\ P[13] = Return("tenant")
    BY DEF Handlers, Upload, Authorized, Authenticate
  <1>3. 1..13 = {1, 2, 3, 4, 5, 6, 7, 8, 9, 10, 11, 12, 13}
    OBVIOUS
  <1> HIDE DEF P
  <1>4. \A i \in {1, 2, 3, 4} : WellPlaced(P, i, FALSE)
    BY <1>2 DEF WellPlaced, Take, Return, Lock, OrganizationKey
  <1>5. \A i \in {5, 6, 7, 8} : WellPlaced(P, i, FALSE)
    BY <1>2 DEF WellPlaced, Take, Return, Lock, OrganizationKey
  <1>6. \A i \in {9, 10, 11, 12, 13} : WellPlaced(P, i, FALSE)
    BY <1>2 DEF WellPlaced, Take, Return, Lock, OrganizationKey
  <1> QED BY <1>1, <1>2, <1>3, <1>4, <1>5, <1>6 DEF Disciplined, P

LEMMA HandlersAreDisciplined == \A k \in Kind : Disciplined(k)
  BY AccountIsDisciplined, ListIsDisciplined, ManageIsDisciplined, CommentIsDisciplined,
     PostIsDisciplined, GovernIsDisciplined, AuditIsDisciplined, UploadIsDisciplined
  DEF Kind, Handlers
-----------------------------------------------------------------------------
(* What a request holds follows from how far it is.                        *)

RowLock == [row: Row, mode: {"share", "update"}, pool: Pool]

(* After n steps of a program: the connections taken and not returned, and *)
(* the locks of the transactions on them.                                  *)
HeldAt(P, n) ==
    {p \in Pool : \E i \in 1..n :
        P[i] = Take(p) /\ \A j \in (i + 1)..n : P[j] # Return(p)}
LocksAt(P, n) ==
    {l \in RowLock : \E i \in 1..n :
        P[i] = Lock(l.row, l.mode, l.pool) /\ \A j \in (i + 1)..n : P[j] # Return(l.pool)}

InProgram(r) ==
    IF reply[r] = "none"
    THEN /\ at[r] \in 0..Len(Handlers[kind[r]])
         /\ held[r] = HeldAt(Handlers[kind[r]], at[r])
         /\ locks[r] = LocksAt(Handlers[kind[r]], at[r])
    ELSE held[r] = {} /\ locks[r] = {}

(* A row is locked by one writer or by readers.                            *)
Compatible(r, q) ==
    \A l \in locks[r], m \in locks[q] :
        l.row = m.row => l.mode = "share" /\ m.mode = "share"

SInv ==
    /\ STypeOK
    /\ \A r \in Requests : InProgram(r)
    /\ \A r, q \in Requests : r # q => Compatible(r, q)

LEMMA Taken ==
  ASSUME NEW P \in Seq(Instruction), NEW n \in Nat, n < Len(P), NEW p \in Pool, P[n + 1] = Take(p)
  PROVE  HeldAt(P, n + 1) = HeldAt(P, n) \cup {p} /\ LocksAt(P, n + 1) = LocksAt(P, n)
  <1>1. \A x \in Pool : P[n + 1] # Return(x) /\ (P[n + 1] = Take(x) <=> x = p)
    BY DEF Take, Return
  <1>2. \A row, mode, x : P[n + 1] # Lock(row, mode, x)
    BY DEF Take, Lock
  <1>3. \A i \in 1..(n + 1) : i \in 1..n \/ i = n + 1
    OBVIOUS
  <1>4. ASSUME NEW x \in Pool PROVE x \in HeldAt(P, n + 1) <=> x \in HeldAt(P, n) \cup {p}
    BY <1>1, <1>3 DEF HeldAt
  <1>5. ASSUME NEW l \in RowLock PROVE l \in LocksAt(P, n + 1) <=> l \in LocksAt(P, n)
    <2>1. l.pool \in Pool
      BY DEF RowLock
    <2> QED BY <1>1, <1>2, <1>3, <2>1 DEF LocksAt
  <1>6. HeldAt(P, n + 1) \subseteq Pool /\ HeldAt(P, n) \subseteq Pool
        /\ LocksAt(P, n + 1) \subseteq RowLock /\ LocksAt(P, n) \subseteq RowLock
    BY DEF HeldAt, LocksAt
  <1> QED BY <1>4, <1>5, <1>6

LEMMA Returned ==
  ASSUME NEW P \in Seq(Instruction), NEW n \in Nat, n < Len(P), NEW p \in Pool, P[n + 1] = Return(p)
  PROVE  /\ HeldAt(P, n + 1) = HeldAt(P, n) \ {p}
         /\ LocksAt(P, n + 1) = {l \in LocksAt(P, n) : l.pool # p}
  <1>1. \A x \in Pool : P[n + 1] # Take(x) /\ (P[n + 1] = Return(x) <=> x = p)
    BY DEF Take, Return
  <1>2. \A row, mode, x : P[n + 1] # Lock(row, mode, x)
    BY DEF Return, Lock
  <1>3. \A i \in 1..(n + 1) : i \in 1..n \/ i = n + 1
    OBVIOUS
  <1>4. ASSUME NEW x \in Pool PROVE x \in HeldAt(P, n + 1) <=> x \in HeldAt(P, n) \ {p}
    BY <1>1, <1>3 DEF HeldAt
  <1>5. ASSUME NEW l \in RowLock
        PROVE  l \in LocksAt(P, n + 1) <=> l \in LocksAt(P, n) /\ l.pool # p
    <2>1. l.pool \in Pool
      BY DEF RowLock
    <2> QED BY <1>1, <1>2, <1>3, <2>1 DEF LocksAt
  <1>6. HeldAt(P, n + 1) \subseteq Pool /\ HeldAt(P, n) \subseteq Pool
        /\ LocksAt(P, n + 1) \subseteq RowLock /\ LocksAt(P, n) \subseteq RowLock
    BY DEF HeldAt, LocksAt
  <1> QED BY <1>4, <1>5, <1>6

LEMMA Locked ==
  ASSUME NEW P \in Seq(Instruction), NEW n \in Nat, n < Len(P), P[n + 1].do = "lock"
  PROVE  LET new == [row |-> P[n + 1].row, mode |-> P[n + 1].mode, pool |-> P[n + 1].pool] IN
         /\ new \in RowLock
         /\ HeldAt(P, n + 1) = HeldAt(P, n)
         /\ LocksAt(P, n + 1) = LocksAt(P, n) \cup {new}
  <1> DEFINE new == [row |-> P[n + 1].row, mode |-> P[n + 1].mode, pool |-> P[n + 1].pool]
  <1>1. P[n + 1] \in Instruction
    OBVIOUS
  <1>2. new \in RowLock /\ P[n + 1] = Lock(new.row, new.mode, new.pool)
    BY <1>1 DEF Instruction, Take, Return, Lock, RowLock
  <1>3. \A x : P[n + 1] # Take(x) /\ P[n + 1] # Return(x)
    BY DEF Take, Return
  <1>4. \A l \in RowLock : P[n + 1] = Lock(l.row, l.mode, l.pool) <=> l = new
    BY <1>2 DEF Lock, RowLock
  <1>5. \A i \in 1..(n + 1) : i \in 1..n \/ i = n + 1
    OBVIOUS
  <1> HIDE DEF new
  <1>6. ASSUME NEW x \in Pool PROVE x \in HeldAt(P, n + 1) <=> x \in HeldAt(P, n)
    BY <1>3, <1>5 DEF HeldAt
  <1>7. ASSUME NEW l \in RowLock
        PROVE  l \in LocksAt(P, n + 1) <=> l \in LocksAt(P, n) \/ l = new
    BY <1>3, <1>4, <1>5 DEF LocksAt
  <1>8. HeldAt(P, n + 1) \subseteq Pool /\ HeldAt(P, n) \subseteq Pool
        /\ LocksAt(P, n + 1) \subseteq RowLock /\ LocksAt(P, n) \subseteq RowLock
    BY DEF HeldAt, LocksAt
  <1>9. LocksAt(P, n + 1) = LocksAt(P, n) \cup {new}
    BY <1>2, <1>7, <1>8
  <1>10. HeldAt(P, n + 1) = HeldAt(P, n)
    BY <1>6, <1>8
  <1> QED BY <1>2, <1>9, <1>10 DEF new

(* What a request gives its own program, and leaves the others'.           *)
LEMMA OthersInProgram ==
  ASSUME NEW r \in Requests, NEW q \in Requests, InProgram(q), kind' = kind,
         reply'[q] = reply[q], at'[q] = at[q], held'[q] = held[q], locks'[q] = locks[q]
  PROVE  InProgram(q)'
  BY DEF InProgram

(* Every step keeps the requests in their programs and the rows compatible.*)
LEMMA StartInv == SInit => SInv
  <1> SUFFICES ASSUME SInit PROVE SInv
    OBVIOUS
  <1>1. kind \in [Requests -> Kind]
    BY PoolAssumption DEF SInit
  <1>2. ASSUME NEW r \in Requests PROVE InProgram(r)
    <2>1. HeldAt(Handlers[kind[r]], 0) = {} /\ LocksAt(Handlers[kind[r]], 0) = {}
      BY DEF HeldAt, LocksAt
    <2>2. Len(Handlers[kind[r]]) \in Nat
      BY <1>1, HandlersAreDisciplined DEF Disciplined
    <2> QED BY <2>1, <2>2 DEF SInit, InProgram
  <1> QED BY <1>1, <1>2 DEF SInit, SInv, STypeOK, Compatible

(* A request that does the next step of its program.                       *)
LEMMA Progress ==
  ASSUME SInv, NEW r \in Requests, NEW what, Doing(r, what)
  PROVE  /\ Handlers[kind[r]] \in Seq(Instruction) /\ at[r] \in Nat
         /\ at[r] < Len(Handlers[kind[r]]) /\ Len(Handlers[kind[r]]) \in Nat
         /\ Handlers[kind[r]][at[r] + 1] = Current(r) /\ Current(r).do = what
         /\ Current(r) \in Instruction
         /\ held[r] = HeldAt(Handlers[kind[r]], at[r])
         /\ locks[r] = LocksAt(Handlers[kind[r]], at[r])
         /\ reply[r] = "none"
         /\ WellPlaced(Handlers[kind[r]], at[r] + 1, kind[r] = "govern")
  <1> DEFINE P == Handlers[kind[r]]
  <1>1. kind[r] \in Kind /\ Disciplined(kind[r])
    BY HandlersAreDisciplined DEF SInv, STypeOK
  <1>2. P \in Seq(Instruction) /\ Len(P) \in Nat
    BY <1>1 DEF Disciplined
  <1>3. reply[r] = "none" /\ InProgram(r) /\ Len(P) > at[r] /\ Current(r) = P[at[r] + 1]
        /\ Current(r).do = what
    BY DEF Doing, Active, Remaining, Current, SInv
  <1>4. at[r] \in 0..Len(P) /\ held[r] = HeldAt(P, at[r]) /\ locks[r] = LocksAt(P, at[r])
    BY <1>3 DEF InProgram
  <1> HIDE DEF P
  <1>5. at[r] \in Nat /\ at[r] < Len(P) /\ at[r] + 1 \in 1..Len(P)
    BY <1>2, <1>3, <1>4
  <1>6. WellPlaced(P, at[r] + 1, kind[r] = "govern")
    BY <1>1, <1>5 DEF Disciplined, P
  <1>7. P[at[r] + 1] \in Instruction
    BY <1>2, <1>5
  <1> QED BY <1>2, <1>3, <1>4, <1>5, <1>6, <1>7 DEF P

LEMMA InstructionsAre ==
  ASSUME NEW i \in Instruction
  PROVE  /\ i.pool \in Pool /\ i.do \in {"take", "return", "lock"}
         /\ i.do = "take" => i = Take(i.pool)
         /\ i.do = "return" => i = Return(i.pool)
         /\ i.do = "lock" => /\ i = Lock(i.row, i.mode, i.pool) /\ i.row \in Row
                            /\ i.mode \in {"share", "update"}
  BY DEF Instruction, Take, Return, Lock

LEMMA StepTakes ==
  ASSUME SInv, NEW r \in Requests, TakeConnection(r)
  PROVE  SInv'
  <1> DEFINE P == Handlers[kind[r]]
             p == Current(r).pool
  <1>1. Doing(r, "take")
    BY DEF TakeConnection
  <1>2. P \in Seq(Instruction) /\ at[r] \in Nat /\ at[r] < Len(P) /\ Len(P) \in Nat
        /\ P[at[r] + 1] = Current(r) /\ Current(r).do = "take" /\ Current(r) \in Instruction
        /\ held[r] = HeldAt(P, at[r]) /\ locks[r] = LocksAt(P, at[r]) /\ reply[r] = "none"
    BY <1>1, Progress
  <1>3. p \in Pool /\ P[at[r] + 1] = Take(p)
    BY <1>2, InstructionsAre
  <1>4. /\ held' = [held EXCEPT ![r] = @ \cup {p}] /\ at' = [at EXCEPT ![r] = @ + 1]
        /\ kind' = kind /\ locks' = locks /\ reply' = reply
    BY DEF TakeConnection
  <1> HIDE DEF P, p
  <1>5. HeldAt(P, at[r] + 1) = HeldAt(P, at[r]) \cup {p} /\ LocksAt(P, at[r] + 1) = LocksAt(P, at[r])
    BY <1>2, <1>3, Taken
  <1>6. STypeOK'
    BY <1>3, <1>4 DEF SInv, STypeOK
  <1>7. InProgram(r)'
    <2>1. at'[r] = at[r] + 1 /\ held'[r] = held[r] \cup {p} /\ locks'[r] = locks[r] /\ reply'[r] = "none"
          /\ Handlers[kind'[r]] = P
      BY <1>2, <1>4 DEF SInv, STypeOK, P
    <2>2. at'[r] \in 0..Len(P)
      BY <1>2, <2>1
    <2> QED BY <1>2, <1>5, <2>1, <2>2 DEF InProgram
  <1>8. ASSUME NEW q \in Requests \ {r} PROVE InProgram(q)'
    BY <1>4, OthersInProgram DEF SInv, STypeOK
  <1>9. \A q, s \in Requests : q # s => Compatible(q, s)'
    BY <1>4 DEF SInv, Compatible
  <1> QED BY <1>6, <1>7, <1>8, <1>9 DEF SInv

LEMMA StepReturns ==
  ASSUME SInv, NEW r \in Requests, ReturnConnection(r)
  PROVE  SInv'
  <1> DEFINE P == Handlers[kind[r]]
             p == Current(r).pool
  <1>1. Doing(r, "return")
    BY DEF ReturnConnection
  <1>2. P \in Seq(Instruction) /\ at[r] \in Nat /\ at[r] < Len(P) /\ Len(P) \in Nat
        /\ P[at[r] + 1] = Current(r) /\ Current(r).do = "return" /\ Current(r) \in Instruction
        /\ held[r] = HeldAt(P, at[r]) /\ locks[r] = LocksAt(P, at[r]) /\ reply[r] = "none"
    BY <1>1, Progress
  <1>3. p \in Pool /\ P[at[r] + 1] = Return(p)
    BY <1>2, InstructionsAre
  <1>4. /\ held' = [held EXCEPT ![r] = @ \ {p}] /\ at' = [at EXCEPT ![r] = @ + 1]
        /\ locks' = [locks EXCEPT ![r] = {l \in @ : l.pool # p}]
        /\ kind' = kind /\ reply' = reply
    BY DEF ReturnConnection
  <1> HIDE DEF P, p
  <1>5. /\ HeldAt(P, at[r] + 1) = HeldAt(P, at[r]) \ {p}
        /\ LocksAt(P, at[r] + 1) = {l \in LocksAt(P, at[r]) : l.pool # p}
    BY <1>2, <1>3, Returned
  <1>6. STypeOK'
    BY <1>3, <1>4 DEF SInv, STypeOK
  <1>7. InProgram(r)'
    <2>1. at'[r] = at[r] + 1 /\ held'[r] = held[r] \ {p} /\ locks'[r] = {l \in locks[r] : l.pool # p}
          /\ reply'[r] = "none" /\ Handlers[kind'[r]] = P
      BY <1>2, <1>4 DEF SInv, STypeOK, P
    <2>2. at'[r] \in 0..Len(P)
      BY <1>2, <2>1
    <2> QED BY <1>2, <1>5, <2>1, <2>2 DEF InProgram
  <1>8. ASSUME NEW q \in Requests \ {r} PROVE InProgram(q)'
    BY <1>4, OthersInProgram DEF SInv, STypeOK
  <1>9. \A q \in Requests : locks'[q] \subseteq locks[q]
    BY <1>4 DEF SInv, STypeOK
  <1>10. \A q, s \in Requests : q # s => Compatible(q, s)'
    BY <1>9 DEF SInv, Compatible
  <1> QED BY <1>6, <1>7, <1>8, <1>10 DEF SInv

LEMMA StepLocks ==
  ASSUME SInv, NEW r \in Requests, LockRow(r)
  PROVE  SInv'
  <1> DEFINE P == Handlers[kind[r]]
             c == Current(r)
             new == [row |-> c.row, mode |-> c.mode, pool |-> c.pool]
  <1>1. Doing(r, "lock") /\ Blockers(r) = {}
    BY DEF LockRow
  <1>2. P \in Seq(Instruction) /\ at[r] \in Nat /\ at[r] < Len(P) /\ Len(P) \in Nat
        /\ P[at[r] + 1] = c /\ c.do = "lock" /\ c \in Instruction
        /\ held[r] = HeldAt(P, at[r]) /\ locks[r] = LocksAt(P, at[r]) /\ reply[r] = "none"
    BY <1>1, Progress
  <1>4. /\ locks' = [locks EXCEPT ![r] = @ \cup {new}] /\ at' = [at EXCEPT ![r] = @ + 1]
        /\ kind' = kind /\ held' = held /\ reply' = reply
    BY DEF LockRow
  <1>3. \A q \in Requests \ {r} : \A l \in locks[q] :
            l.row = new.row => "update" \notin {l.mode, new.mode}
    BY <1>1 DEF Blockers
  <1> HIDE DEF P
  <1>5. /\ HeldAt(P, at[r] + 1) = HeldAt(P, at[r])
        /\ LocksAt(P, at[r] + 1) = LocksAt(P, at[r]) \cup {new} /\ new \in RowLock
    BY <1>2, Locked
  <1> HIDE DEF new, c
  <1>6. STypeOK'
    BY <1>4, <1>5 DEF SInv, STypeOK, RowLock
  <1>7. InProgram(r)'
    <2>1. at'[r] = at[r] + 1 /\ held'[r] = held[r] /\ locks'[r] = locks[r] \cup {new}
          /\ reply'[r] = "none" /\ Handlers[kind'[r]] = P
      BY <1>2, <1>4 DEF SInv, STypeOK, P
    <2>2. at'[r] \in 0..Len(P)
      BY <1>2, <2>1
    <2> QED BY <1>2, <1>5, <2>1, <2>2 DEF InProgram
  <1>8. ASSUME NEW q \in Requests \ {r} PROVE InProgram(q)'
    BY <1>4, OthersInProgram DEF SInv, STypeOK
  <1>9. \A q \in Requests \ {r} : \A l \in locks[q] :
            l.row = new.row => l.mode = "share" /\ new.mode = "share"
    BY <1>3, <1>5 DEF SInv, STypeOK, RowLock
  <1>10. ASSUME NEW q \in Requests, NEW s \in Requests, q # s PROVE Compatible(q, s)'
    <2>1. locks'[r] = locks[r] \cup {new} /\ \A x \in Requests \ {r} : locks'[x] = locks[x]
      BY <1>4 DEF SInv, STypeOK
    <2> QED BY <1>9, <1>10, <2>1 DEF SInv, Compatible
  <1> QED BY <1>6, <1>7, <1>8, <1>10 DEF SInv

LEMMA StepLeaves ==
  ASSUME SInv, NEW r \in Requests, NEW answer \in {"answered", "error"}, Leave(r, answer)
  PROVE  SInv'
  <1>1. /\ reply' = [reply EXCEPT ![r] = answer] /\ at' = [at EXCEPT ![r] = 0]
        /\ held' = [held EXCEPT ![r] = {}] /\ locks' = [locks EXCEPT ![r] = {}] /\ kind' = kind
    BY DEF Leave
  <1>2. STypeOK'
    BY <1>1 DEF SInv, STypeOK
  <1>3. InProgram(r)'
    BY <1>1 DEF SInv, STypeOK, InProgram
  <1>4. ASSUME NEW q \in Requests \ {r} PROVE InProgram(q)'
    BY <1>1, OthersInProgram DEF SInv, STypeOK
  <1>5. \A q \in Requests : locks'[q] \subseteq locks[q]
    BY <1>1 DEF SInv, STypeOK
  <1>6. \A q, s \in Requests : q # s => Compatible(q, s)'
    BY <1>5 DEF SInv, Compatible
  <1> QED BY <1>2, <1>3, <1>4, <1>6 DEF SInv

LEMMA NextSInv == SInv /\ [SNext]_svars => SInv'
  <1> SUFFICES ASSUME SInv, [SNext]_svars PROVE SInv'
    OBVIOUS
  <1>1. CASE UNCHANGED svars
    BY <1>1 DEF svars, SInv, STypeOK, InProgram, Compatible
  <1>2. ASSUME NEW r \in Requests, Advance(r) \/ Refuse(r) \/ PoolTimeout(r)
        PROVE  SInv'
    <2>1. CASE TakeConnection(r)
      BY <2>1, StepTakes
    <2>2. CASE ReturnConnection(r)
      BY <2>2, StepReturns
    <2>3. CASE LockRow(r)
      BY <2>3, StepLocks
    <2>4. CASE Respond(r) \/ Refuse(r) \/ PoolTimeout(r)
      BY <2>4, StepLeaves DEF Respond, Refuse, PoolTimeout
    <2> QED BY <1>2, <2>1, <2>2, <2>3, <2>4 DEF Advance
  <1> QED BY <1>1, <1>2 DEF SNext

-----------------------------------------------------------------------------
(* Who waits for whom.                                                     *)

(* The program of a request that holds something, and the step it was      *)
(* taken or locked with.                                                   *)
LEMMA Holding ==
  ASSUME SInv, NEW r \in Requests, held[r] # {} \/ locks[r] # {}
  PROVE  LET P == Handlers[kind[r]] IN
         /\ r \in Active /\ P \in Seq(Instruction) /\ Len(P) \in Nat /\ at[r] \in 0..Len(P)
         /\ held[r] = HeldAt(P, at[r]) /\ locks[r] = LocksAt(P, at[r])
         /\ \A i \in 1..Len(P) : WellPlaced(P, i, kind[r] = "govern") /\ P[i] \in Instruction
  <1>1. InProgram(r) /\ kind[r] \in Kind
    BY DEF SInv, STypeOK
  <1>2. Disciplined(kind[r])
    BY <1>1, HandlersAreDisciplined
  <1> QED BY <1>1, <1>2 DEF InProgram, Active, Disciplined

(* A request that holds an identity connection returns it next, or is about*)
(* to lock the organization.                                               *)
LEMMA IdentityHolders ==
  ASSUME SInv, NEW r \in Requests, "identity" \in held[r]
  PROVE  /\ r \in Active
         /\ Doing(r, "return") \/ (Doing(r, "lock") /\ Current(r).row = "organization")
  <1> DEFINE P == Handlers[kind[r]]
             n == at[r]
  <1>1. /\ r \in Active /\ P \in Seq(Instruction) /\ Len(P) \in Nat /\ n \in 0..Len(P)
        /\ held[r] = HeldAt(P, n)
        /\ \A i \in 1..Len(P) : WellPlaced(P, i, kind[r] = "govern")
    BY Holding
  <1>2. Len(P) > n => Remaining(r) /\ Current(r) = P[n + 1]
    BY DEF Remaining, Current
  <1> HIDE DEF P, n
  <1>3. PICK i \in 1..n : P[i] = Take("identity") /\ \A j \in (i + 1)..n : P[j] # Return("identity")
    BY <1>1 DEF HeldAt
  <1>4. i \in 1..Len(P) /\ i < Len(P) /\ i + 1 \in 1..Len(P)
    BY <1>1, <1>3 DEF WellPlaced
  <1>5. CASE P[i + 1] = Return("identity")
    <2>1. i = n
      BY <1>1, <1>3, <1>5
    <2> QED BY <1>1, <1>2, <1>4, <1>5, <2>1 DEF Doing, Return
  <1>6. CASE kind[r] = "govern" /\ P[i + 1] = Lock("organization", "update", "identity")
    <2>1. CASE i = n
      BY <1>1, <1>2, <1>4, <1>6, <2>1 DEF Doing, Lock
    <2>2. CASE i # n
      <3>1. i + 1 < Len(P) /\ P[(i + 1) + 1] = Return("identity")
        BY <1>1, <1>4, <1>6 DEF WellPlaced, Lock
      <3>2. i + 1 = n
        BY <1>1, <1>3, <2>2, <3>1
      <3> QED BY <1>1, <1>2, <3>1, <3>2 DEF Doing, Return
    <2> QED BY <2>1, <2>2
  <1> QED BY <1>1, <1>3, <1>4, <1>5, <1>6 DEF WellPlaced

(* A request that holds a tenant's connection has one, and will return it. *)
LEMMA TenantHolders ==
  ASSUME SInv, NEW r \in Requests, "tenant" \in held[r]
  PROVE  r \in Active /\ Remaining(r) /\ Current(r) # Take("tenant")
  <1> DEFINE P == Handlers[kind[r]]
             n == at[r]
  <1>1. /\ r \in Active /\ P \in Seq(Instruction) /\ Len(P) \in Nat /\ n \in 0..Len(P)
        /\ held[r] = HeldAt(P, n)
        /\ \A i \in 1..Len(P) : WellPlaced(P, i, kind[r] = "govern")
    BY Holding
  <1>2. Len(P) > n => Remaining(r) /\ Current(r) = P[n + 1]
    BY DEF Remaining, Current
  <1> HIDE DEF P, n
  <1>3. PICK i \in 1..n : P[i] = Take("tenant") /\ \A j \in (i + 1)..n : P[j] # Return("tenant")
    BY <1>1 DEF HeldAt
  <1>4. PICK j \in (i + 1)..Len(P) :
            P[j] = Return("tenant") /\ \A m \in (i + 1)..j : P[m] # Take("tenant")
    BY <1>1, <1>3 DEF WellPlaced
  <1>5. n + 1 \in (i + 1)..j /\ Len(P) > n
    BY <1>1, <1>3, <1>4
  <1> QED BY <1>1, <1>2, <1>4, <1>5

(* What a lock says about the request that holds it: it has the lock's     *)
(* connection, and ends its transaction if the lock is the organization's; *)
(* and who shares the finding has no other lock of it before it.           *)
LEMMA LockHolders ==
  ASSUME SInv, NEW r \in Requests, NEW l \in locks[r]
  PROVE  /\ r \in Active /\ l \in RowLock /\ l.pool \in held[r]
         /\ l.row = "organization" => Doing(r, "return")
         /\ l.row = "finding" => l.pool = "tenant"
         /\ l.row = "finding" /\ l.mode = "share" /\ Doing(r, "lock") =>
             Current(r).row = "organization"
  <1> DEFINE P == Handlers[kind[r]]
             n == at[r]
  <1>1. /\ r \in Active /\ P \in Seq(Instruction) /\ Len(P) \in Nat /\ n \in 0..Len(P)
        /\ held[r] = HeldAt(P, n) /\ locks[r] = LocksAt(P, n)
        /\ \A i \in 1..Len(P) : WellPlaced(P, i, kind[r] = "govern") /\ P[i] \in Instruction
    BY Holding
  <1>2. Len(P) > n <=> Remaining(r)
    BY DEF Remaining
  <1>3. Current(r) = P[n + 1]
    BY DEF Current
  <1> HIDE DEF P, n
  <1>4. l \in RowLock
    BY <1>1 DEF LocksAt
  <1>5. PICK i \in 1..n : P[i] = Lock(l.row, l.mode, l.pool)
                         /\ \A j \in (i + 1)..n : P[j] # Return(l.pool)
    BY <1>1 DEF LocksAt
  <1>6. /\ i \in 1..Len(P) /\ WellPlaced(P, i, kind[r] = "govern")
        /\ P[i].do = "lock" /\ P[i].row = l.row /\ P[i].mode = l.mode /\ P[i].pool = l.pool
    BY <1>1, <1>5 DEF Lock
  <1>7. l.pool \in held[r]
    <2>1. PICK j \in 1..(i - 1) :
              P[j] = Take(l.pool) /\ \A m \in (j + 1)..i : P[m] # Return(l.pool)
      BY <1>6 DEF WellPlaced
    <2>2. j \in 1..n /\ \A m \in (j + 1)..n : P[m] # Return(l.pool)
      BY <1>1, <1>5, <2>1
    <2>3. l.pool \in Pool
      BY <1>4 DEF RowLock
    <2> QED BY <1>1, <2>1, <2>2, <2>3 DEF HeldAt
  <1>8. ASSUME l.row = "organization" PROVE Doing(r, "return")
    <2>1. i < Len(P) /\ P[i + 1] = Return(l.pool)
      BY <1>6, <1>8 DEF WellPlaced
    <2>2. i = n
      BY <1>1, <1>5, <2>1
    <2> QED BY <1>1, <1>2, <1>3, <2>1, <2>2 DEF Doing, Return
  <1>9. l.row = "finding" => l.pool = "tenant"
    BY <1>6 DEF WellPlaced
  <1>10. ASSUME l.row = "finding", l.mode = "share", Doing(r, "lock")
         PROVE  Current(r).row = "organization"
    <2>1. i < Len(P) /\ P[i + 1] = OrganizationKey /\ i + 1 \in 1..Len(P)
      BY <1>1, <1>6, <1>10 DEF WellPlaced
    <2>2. CASE i = n
      BY <1>3, <2>1, <2>2 DEF OrganizationKey, Lock
    <2>3. CASE i # n
      <3>1. i + 1 < Len(P) /\ P[(i + 1) + 1] = Return("tenant")
        BY <1>1, <2>1 DEF WellPlaced, OrganizationKey, Lock
      <3>2. i + 1 = n
        BY <1>1, <1>5, <1>9, <1>10, <2>1, <2>3, <3>1
      <3> QED BY <1>3, <1>10, <3>1, <3>2 DEF Doing, Return
    <2> QED BY <2>2, <2>3
  <1> QED BY <1>1, <1>4, <1>7, <1>8, <1>9, <1>10

(* A connection that nobody holds can be taken.                            *)
LEMMA EmptyHasRoom ==
  ASSUME NEW pool \in Pool, Holders(pool) = {}
  PROVE  HasRoom(pool)
  BY FS_EmptySet, PoolAssumption DEF HasRoom, Size

LEMMA WaitersAre ==
  ASSUME NEW r, Waits(r)
  PROVE  /\ ~Doing(r, "return")
         /\ \/ Doing(r, "take") /\ ~HasRoom(Current(r).pool)
            \/ Doing(r, "lock") /\ Blockers(r) # {}
  BY DEF Waits, Doing

(* Who waits for a row waits for a holder of the same row; if that holder  *)
(* waits for the finding itself, it does not hold it.                      *)
LEMMA WaitersAt ==
  ASSUME SInv, NEW r \in Requests, Doing(r, "lock"), NEW q \in Blockers(r)
  PROVE  /\ q \in Active
         /\ Current(r).row = "organization" => Doing(q, "return")
         /\ Current(r).row = "finding" =>
             /\ "tenant" \in held[q]
             /\ Doing(q, "lock") => Current(q).row = "organization" \/ Blockers(q) = {}
  <1>1. q \in Requests \ {r}
    BY DEF Blockers
  <1>2. PICK l \in locks[q] : l.row = Current(r).row
    BY DEF Blockers
  <1>3. ASSUME Current(r).row = "finding", Doing(q, "lock"), Current(q).row # "organization",
               NEW p \in Blockers(q)
        PROVE  FALSE
    <2>1. Current(q).row = "finding"
      BY <1>1, <1>3, Progress, InstructionsAre DEF Row
    <2>2. p \in Requests \ {q}
      BY DEF Blockers
    <2>3. PICK m \in locks[p] : m.row = "finding"
      BY <2>1 DEF Blockers
    <2>4. l.mode = "share"
      BY <1>1, <1>2, <1>3, <2>2, <2>3 DEF SInv, Compatible
    <2> QED BY <1>1, <1>2, <1>3, <2>4, LockHolders
  <1> QED BY <1>1, <1>2, <1>3, LockHolders

(* If everybody waited, nobody would wait for the organization, so nobody  *)
(* would hold an identity connection; and nobody would wait for the        *)
(* finding, so nobody would hold a tenant's connection.                    *)
LEMMA NotAllWait == SInv => SomebodyGoesOn
  <1> SUFFICES ASSUME SInv, NEW s \in Active, \A r \in Active : Waits(r)
               PROVE  FALSE
    BY DEF SomebodyGoesOn
  <1>1. ASSUME NEW r \in Active, Doing(r, "lock")
        PROVE  Current(r).row = "finding" /\ Blockers(r) # {}
    <2>1. r \in Requests /\ Blockers(r) # {}
      BY <1>1, WaitersAre DEF Active, Doing
    <2>2. Current(r).row # "organization"
      BY <1>1, <2>1, WaitersAt, WaitersAre
    <2> QED BY <1>1, <2>1, <2>2, Progress, InstructionsAre DEF Row
  <1>2. HasRoom("identity")
    <2>1. Holders("identity") = {}
      BY <1>1, IdentityHolders, WaitersAre DEF Holders
    <2> QED BY <2>1, EmptyHasRoom DEF Pool
  <1>3. ASSUME NEW r \in Active, Doing(r, "take")
        PROVE  Current(r) = Take("tenant") /\ ~HasRoom("tenant")
    <2>1. ~HasRoom(Current(r).pool)
      BY <1>3, WaitersAre DEF Doing
    <2>2. Current(r) \in Instruction /\ Current(r).do = "take"
      BY <1>3, Progress DEF Active
    <2>3. Current(r) = Take(Current(r).pool) /\ Current(r).pool \in Pool
      BY <2>2, InstructionsAre
    <2> QED BY <1>2, <2>1, <2>3 DEF Pool
  <1>4. ASSUME NEW r \in Requests, "tenant" \in held[r]
        PROVE  r \in Active /\ Doing(r, "lock")
    BY <1>3, <1>4, TenantHolders, WaitersAre
  <1>5. ASSUME NEW r \in Active, Doing(r, "lock")
        PROVE  FALSE
    <2>1. r \in Requests /\ Current(r).row = "finding" /\ Blockers(r) # {}
      BY <1>1, <1>5 DEF Active
    <2>2. PICK q \in Blockers(r) : TRUE
      BY <2>1
    <2>3. q \in Requests /\ "tenant" \in held[q]
          /\ (Doing(q, "lock") => Current(q).row = "organization" \/ Blockers(q) = {})
      BY <1>5, <2>1, <2>2, WaitersAt DEF Blockers
    <2>4. q \in Active /\ Doing(q, "lock")
      BY <1>4, <2>3
    <2> QED BY <1>1, <2>3, <2>4
  <1>6. Holders("tenant") = {}
    BY <1>4, <1>5 DEF Holders
  <1>7. HasRoom("tenant")
    BY <1>6, EmptyHasRoom DEF Pool
  <1> QED BY <1>3, <1>5, <1>7, WaitersAre

(* How many steps a request has before it, its answer included.            *)
Left(r) == IF reply[r] = "none" THEN Len(Handlers[kind[r]]) - at[r] + 1 ELSE 0

(* A step brings one request closer to its answer, and no other farther.   *)
Counts ==
    \E r \in Requests :
        /\ Left(r) \in Nat /\ Left(r)' \in Nat /\ Left(r)' < Left(r)
        /\ \A q \in Requests \ {r} : Left(q)' = Left(q)
EveryStepCounts == [][Counts]_svars

-----------------------------------------------------------------------------
(* What holds of every set of requests and every size of the pools: the    *)
(* requests run their programs, hold what these took, and the locks they   *)
(* hold are compatible.                                                    *)
THEOREM PoolInvariant == SSpec => []SInv
  BY StartInv, NextSInv, PTL DEF SSpec

(* The requests of a process never all wait for one another, whatever is   *)
(* asked and however few the connections: the timeout of a pool ends waits *)
(* that are long, and none that would last.                                *)
THEOREM NobodyNeedsTheTimeout == SSpec => []SomebodyGoesOn
  BY PoolInvariant, NotAllWait, PTL

(* No request starts over: each step of the process brings exactly one     *)
(* request closer to its answer, so there are finitely many of them.       *)
THEOREM NoStepIsRepeated == SSpec => EveryStepCounts
  <1>1. ASSUME SInv, NEW r \in Requests, Advance(r) \/ Refuse(r) \/ PoolTimeout(r)
        PROVE  /\ Left(r) \in Nat /\ Left(r)' \in Nat /\ Left(r)' < Left(r)
               /\ \A q \in Requests \ {r} : Left(q)' = Left(q)
    <2>1. InProgram(r) /\ r \in Active /\ kind' = kind /\ Len(Handlers[kind[r]]) \in Nat
      <3>1. Disciplined(kind[r])
        BY <1>1, HandlersAreDisciplined DEF SInv, STypeOK
      <3> QED BY <1>1, <3>1 DEF SInv, Disciplined, Advance, TakeConnection, ReturnConnection, LockRow,
                 Respond, Refuse, PoolTimeout, Doing, Leave
    <2>2. at[r] \in 0..Len(Handlers[kind[r]]) /\ Left(r) = Len(Handlers[kind[r]]) - at[r] + 1
      BY <2>1 DEF InProgram, Active, Left
    <2>3. CASE TakeConnection(r) \/ ReturnConnection(r) \/ LockRow(r)
      <3>1. Len(Handlers[kind[r]]) > at[r] /\ at' = [at EXCEPT ![r] = @ + 1] /\ reply' = reply
        BY <2>3 DEF TakeConnection, ReturnConnection, LockRow, Doing, Remaining
      <3>2. at'[r] = at[r] + 1 /\ \A q \in Requests \ {r} : at'[q] = at[q]
        BY <1>1, <3>1 DEF SInv, STypeOK
      <3>3. Left(r)' = Len(Handlers[kind[r]]) - (at[r] + 1) + 1
        BY <2>1, <3>1, <3>2 DEF Left, Active
      <3>4. \A q \in Requests \ {r} : Left(q)' = Left(q)
        BY <2>1, <3>1, <3>2 DEF Left
      <3> HIDE DEF Left
      <3> QED BY <2>1, <2>2, <3>1, <3>3, <3>4
    <2>4. CASE Respond(r) \/ Refuse(r) \/ PoolTimeout(r)
      <3>1. PICK answer \in {"answered", "error"} : Leave(r, answer)
        BY <2>4 DEF Respond, Refuse, PoolTimeout
      <3>2. reply'[r] # "none" /\ \A q \in Requests \ {r} : at'[q] = at[q] /\ reply'[q] = reply[q]
        BY <1>1, <3>1 DEF Leave, SInv, STypeOK
      <3>3. Left(r)' = 0
        BY <3>2 DEF Left
      <3>4. \A q \in Requests \ {r} : Left(q)' = Left(q)
        BY <2>1, <3>2 DEF Left
      <3> HIDE DEF Left
      <3> QED BY <2>1, <2>2, <3>3, <3>4
    <2> QED BY <1>1, <2>3, <2>4 DEF Advance
  <1>2. SInv /\ [SNext]_svars => [Counts]_svars
    BY <1>1 DEF SNext, Counts
  <1> QED BY <1>2, PoolInvariant, PTL DEF SSpec, EveryStepCounts
=============================================================================
