------------------------ MODULE ReconciliationProofs ------------------------
(***************************************************************************)
(* What holds of every analysis of every set of loaded files.              *)
(*                                                                         *)
(* The argument for NoUnitBackedTwice: the groups are analysed one after   *)
(* another, and what a group claims of a slot begins where consumed stood  *)
(* when the group was begun and ends where it stands when it is closed.    *)
(* Accounted says so, of the closed groups and of the open one.            *)
(*                                                                         *)
(* The sums of the properties are sums over finite sets, taken element by  *)
(* element as MapThenSumSet does.  SumOver names the same recursive        *)
(* function, and its laws (SumIsNat, SumAdds, SumGrows, SumOfPart) follow  *)
(* from the smallest set a law could fail of.                              *)
(*                                                                         *)
(* The argument for PreviousIsEarlierClaims: the groups are analysed in    *)
(* the order of date, supplier, number and line (InOrder), so when a line  *)
(* is analysed the closed groups are those of the earlier lines, and what  *)
(* is consumed of a slot is the sum of what they claim (ClaimsAddUp).      *)
(*                                                                         *)
(* The argument for ExposureIsBounded: what a closed group asks for is     *)
(* charged, or it is a single line of which one order covers the rest at   *)
(* the agreed price and its tolerance (GroupIsCovered); so with every      *)
(* group that is closed the charged and the covered amounts grow by what   *)
(* the group asks for (Balance).                                           *)
(*                                                                         *)
(* The argument for EvidenceMatchesTheReport: the orders are stored before *)
(* what refers to them, so a row is stored with the order line it would be *)
(* resolved to in the complete run (Kept, StoredInv); the queue of ten     *)
(* columns holds the lines of them the report has not reached              *)
(* (WaitingFits), so the line a row takes from it is the row's own; and    *)
(* the findings list, each once, what the rows read so far say (SoFar).    *)
(*                                                                         *)
(* The argument for PagesAgree: what was stored is a one to one image of   *)
(* the rows of the files, and the findings one of the issues of the rows   *)
(* and of the orphans, so sizes and sums move from one to the other        *)
(* (SizeMoves, SumMoves); every row names a supplier of the stored         *)
(* documents, so they add up by supplier (SumByKey, SizeByKey).            *)
(***************************************************************************)
EXTENDS Evidence, FiniteSetTheorems, NaturalsInduction, WellFoundedInduction, TLAPS

Analysed == DOMAIN results
Open(k) == \E j \in batch : Identity(j) = Identity(k)

(* The lines not begun, the open group and the analysed lines are apart,   *)
(* and groups are begun as a whole.                                        *)
Apart ==
    /\ todo \cap batch = {} /\ todo \cap Analysed = {} /\ batch \cap Analysed = {}
    /\ \A k \in todo : Group(k) \subseteq todo
    /\ \A j, k \in batch : Identity(j) = Identity(k)

(* No total changes once the invoices are being analysed.                  *)
Underway ==
    /\ batch # {} \/ Analysed # {} => ReceiptsCounted
    /\ batch # {} \/ Analysed # {} \/ todo # {} => mode # "PO_RECEIPT"

(* The place of each analysed line in its slot.                            *)
Placed(k) ==
    /\ results[k].supported > 0 => Claims(k)
    /\ results[k].supported <= Line(k).quantity
    /\ results[k].supported > 0 => results[k].previous + results[k].supported <= Capacity(k)
    /\ Claims(k) /\ Open(k) =>
        results[k].previous = consumed[Slot(k)] /\ Line(k).quantity <= largest.quantity
    /\ Claims(k) /\ ~Open(k) =>
        results[k].previous + Line(k).quantity <= consumed[Slot(k)]
Accounted == \A k \in Analysed : Placed(k)

Ordered(j, k) ==
    \/ results[j].previous + results[j].supported <= results[k].previous
    \/ results[k].previous + results[k].supported <= results[j].previous
Separate ==
    \A j, k \in Analysed :
        /\ Slot(j) = Slot(k) /\ Identity(j) # Identity(k)
        /\ results[j].supported > 0 /\ results[k].supported > 0
        => Ordered(j, k)

IInv == TypeOK /\ Apart /\ Underway /\ Accounted /\ Separate /\ MatchedIsBacked

-----------------------------------------------------------------------------
(* Arithmetic.                                                             *)

LEMMA ProductIsNat == ASSUME NEW a \in Nat, NEW b \in Nat PROVE a * b \in Nat
  BY SMT

LEMMA QuotientIsNat == ASSUME NEW a \in Nat, NEW b \in Nat \ {0} PROVE a \div b \in Nat
  BY SMT

(* An amount that is not negative is rounded to a natural number.          *)
LEMMA RoundIsNat == ASSUME NEW a \in Nat PROVE Round(a) \in Nat
  <1>1. 2 * a + Scale \in Nat /\ 2 * Scale \in Nat \ {0}
    BY PolicyAssumption
  <1> QED BY <1>1, QuotientIsNat DEF Round

LEMMA RoundOfZero == Round(0) = 0
  <1>1. ASSUME NEW s \in Nat \ {0} PROVE s \div (2 * s) = 0
    BY SMT
  <1>2. 2 * 0 + Scale = Scale
    BY PolicyAssumption
  <1> QED BY <1>1, <1>2, PolicyAssumption DEF Round

-----------------------------------------------------------------------------
(* The files never change, and what is computed from them alone neither.   *)

LEMMA BookIsFixed ==
  ASSUME book' = book, mode' = mode
  PROVE  /\ Lines' = Lines /\ Slots' = Slots /\ Currencies' = Currencies
         /\ \A k : /\ Line(k)' = Line(k) /\ Identity(k)' = Identity(k)
                   /\ Group(k)' = Group(k) /\ Slot(k)' = Slot(k)
                   /\ Ambiguous(k)' = Ambiguous(k) /\ Resolves(k)' = Resolves(k)
         /\ KnowsOrders' = KnowsOrders /\ KnowsReceipts' = KnowsReceipts
  <1>1. /\ Lines' = Lines /\ Slots' = Slots /\ Currencies' = Currencies
        /\ KnowsOrders' = KnowsOrders /\ KnowsReceipts' = KnowsReceipts
    BY DEF Lines, Slots, Currencies, Reference, Line, KnowsOrders, KnowsReceipts
  <1>2. ASSUME NEW k PROVE /\ Line(k)' = Line(k) /\ Identity(k)' = Identity(k)
                           /\ Group(k)' = Group(k) /\ Slot(k)' = Slot(k)
    BY <1>1 DEF Line, Identity, Group, Slot, Reference
  <1>3. ASSUME NEW k PROVE Ambiguous(k)' = Ambiguous(k)
    BY <1>1, <1>2 DEF Ambiguous, Target, Line
  <1>4. ASSUME NEW k PROVE Resolves(k)' = Resolves(k)
    BY <1>2 DEF Resolves, ReferenceIssues, PoNumbers, OrdersAt, OrderOf
  <1> QED BY <1>1, <1>2, <1>3, <1>4

LEMMA CapacityIsFixed ==
  ASSUME book' = book, mode' = mode, totals' = totals
  PROVE  \A k : Capacity(k)' = Capacity(k) /\ Claims(k)' = Claims(k)
  <1> TAKE k
  <1>1. OrderOf(Line(k))' = OrderOf(Line(k))
    BY DEF OrderOf, Line
  <1>2. Line(k)' = Line(k) /\ Slot(k)' = Slot(k) /\ Resolves(k)' = Resolves(k)
            /\ Ambiguous(k)' = Ambiguous(k)
            /\ KnowsOrders' = KnowsOrders /\ KnowsReceipts' = KnowsReceipts
    BY BookIsFixed
  <1> QED BY <1>1, <1>2 DEF Capacity, Claims

LEMMA LineType ==
  ASSUME TypeOK, NEW k \in Lines
  PROVE  /\ Line(k) \in InvoiceLine /\ Slot(k) \in Slots /\ Line(k).currency \in Currencies
         /\ Line(k).quantity \in Nat \ {0} /\ Line(k).price \in Nat
         /\ totals[Slot(k)] \in Nat /\ consumed[Slot(k)] \in Nat
  <1>1. book.invoices \in Seq(InvoiceLine)
    BY DEF TypeOK, Book
  <1>2. Line(k) \in InvoiceLine
    BY <1>1 DEF Lines, Line
  <1>3. Slot(k) \in Slots /\ Line(k).currency \in Currencies
    BY DEF Slot, Slots, Currencies
  <1> QED BY <1>2, <1>3 DEF InvoiceLine, TypeOK

LEMMA OrderType ==
  ASSUME TypeOK, NEW k \in Lines, Resolves(k)
  PROVE  /\ OrderOf(Line(k)) \in OrderLine
         /\ OrderOf(Line(k)).quantity \in Nat \ {0} /\ OrderOf(Line(k)).price \in Nat
  <1>1. OrdersAt(Line(k).po, Line(k).poLine) # {}
    BY DEF Resolves, ReferenceIssues
  <1>2. OrderOf(Line(k)) \in book.orders
    BY <1>1 DEF OrdersAt, OrderOf
  <1>3. book.orders \subseteq OrderLine
    BY DEF TypeOK, Book
  <1> QED BY <1>2, <1>3 DEF OrderLine

-----------------------------------------------------------------------------
(* The start.                                                              *)

LEMMA InitIInv == Init => IInv
  <1> SUFFICES ASSUME Init PROVE IInv
    OBVIOUS
  <1>1. book \in Book /\ Len(book.receipts) \in Nat
    BY BookAssumption DEF Init, Book
  <1>2. Analysed = {}
    BY DEF Init, Analysed
  <1>3. TypeOK
    <2>1. /\ totals \in [Slots -> Nat] /\ consumed \in [Slots -> Nat]
          /\ exposures \in [Currencies -> Nat] /\ largest \in [quantity: Nat, exposure: Nat]
      BY DEF Init
    <2>2. counted \in 0..Len(book.receipts) /\ todo \subseteq Lines /\ batch \subseteq Lines
      BY <1>1 DEF Init
    <2>3. DOMAIN orphans = {} /\ DOMAIN results = {}
      BY DEF Init
    <2> QED BY <1>1, <2>1, <2>2, <2>3 DEF TypeOK, Init
  <1>4. Apart
    BY <1>2 DEF Apart, Init, Group
  <1>5. Underway
    BY <1>2 DEF Underway, Init
  <1>6. Accounted /\ Separate /\ MatchedIsBacked
    BY <1>2 DEF Accounted, Separate, MatchedIsBacked, Analysed
  <1> QED BY <1>3, <1>4, <1>5, <1>6 DEF IInv

-----------------------------------------------------------------------------
(* A receipt is counted before any invoice is begun.                       *)

LEMMA CountType == TypeOK /\ CountReceipt => TypeOK'
  <1> SUFFICES ASSUME TypeOK, CountReceipt PROVE TypeOK'
    OBVIOUS
  <1> DEFINE n == counted + 1
             row == book.receipts[n]
             slot == Reference(row)
             reasons == IF mode = "INVOICE_RECEIPT" THEN {} ELSE ReceiptIssues(row)
  <1>1. /\ n \in 1..Len(book.receipts) /\ counted' = n
        /\ book' = book /\ mode' = mode /\ todo' = todo /\ batch' = batch
        /\ largest' = largest /\ consumed' = consumed /\ results' = results
        /\ exposures' = exposures
    BY DEF TypeOK, CountReceipt, Book
  <1>2. Lines' = Lines /\ Slots' = Slots /\ Currencies' = Currencies
    BY <1>1, BookIsFixed
  <1>3. row \in ReceiptLine /\ n \in DOMAIN book.receipts
    BY <1>1 DEF TypeOK, Book
  <1>4. slot \in Slots
    BY <1>3 DEF Slots
  <1>5. totals' \in [Slots -> Nat]
    <2>1. CASE reasons = {}
      <3>1. totals' = [totals EXCEPT ![slot] = @ + row.quantity]
        BY <2>1 DEF CountReceipt
      <3>2. row.quantity \in Nat /\ totals \in [Slots -> Nat]
        BY <1>3 DEF ReceiptLine, TypeOK
      <3> HIDE DEF row, slot
      <3> QED BY <3>1, <3>2, <1>4
    <2>2. CASE reasons # {}
      BY <2>2 DEF CountReceipt, TypeOK
    <2> QED BY <2>1, <2>2
  <1>6. DOMAIN orphans' \subseteq 1..n /\ \A m \in DOMAIN orphans' : orphans'[m] \in IssueCode
    <2>1. CASE orphans' = orphans
      BY <2>1, <1>1 DEF TypeOK
    <2>2. CASE orphans' # orphans
      <3>1. /\ reasons # {}
            /\ orphans' = [m \in DOMAIN orphans \cup {n} |->
                              IF m = n THEN CHOOSE i \in reasons : TRUE ELSE orphans[m]]
        BY <2>2 DEF CountReceipt
      <3>2. reasons \subseteq IssueCode
        BY DEF ReceiptIssues, IssueCode
      <3>3. (CHOOSE i \in reasons : TRUE) \in IssueCode
        BY <3>1, <3>2
      <3>4. DOMAIN orphans \subseteq 1..n /\ \A m \in DOMAIN orphans : orphans[m] \in IssueCode
        BY <1>1 DEF TypeOK
      <3>5. DOMAIN orphans' = DOMAIN orphans \cup {n}
        BY <3>1
      <3>6. \A m \in DOMAIN orphans' :
              orphans'[m] = IF m = n THEN CHOOSE i \in reasons : TRUE ELSE orphans[m]
        BY <3>1
      <3>7. DOMAIN orphans \cup {n} \subseteq 1..n
        BY <3>4, <1>1 DEF TypeOK
      <3> DEFINE reason == CHOOSE i \in reasons : TRUE
      <3>8. reason \in IssueCode /\ \A m \in DOMAIN orphans' : m = n \/ m \in DOMAIN orphans
        BY <3>3, <3>5
      <3>9. \A m \in DOMAIN orphans' : orphans'[m] = IF m = n THEN reason ELSE orphans[m]
        BY <3>6
      <3> HIDE DEF reasons, reason, n
      <3> QED BY <3>4, <3>5, <3>7, <3>8, <3>9
    <2> QED BY <2>1, <2>2
  <1>7. counted' \in 0..Len(book'.receipts)
    BY <1>1 DEF TypeOK, Book
  <1> HIDE DEF n, row, slot, reasons
  <1> QED BY <1>1, <1>2, <1>5, <1>6, <1>7 DEF TypeOK

LEMMA CountStep == IInv /\ CountReceipt => IInv'
  <1> SUFFICES ASSUME IInv, CountReceipt PROVE IInv'
    OBVIOUS
  <1>1. /\ book' = book /\ mode' = mode /\ todo' = todo /\ batch' = batch
        /\ results' = results /\ Analysed' = Analysed
    BY DEF CountReceipt, Analysed
  <1>2. batch = {} /\ Analysed = {}
    <2>1. ~ReceiptsCounted
      BY DEF CountReceipt, ReceiptsCounted, IInv, TypeOK, Book
    <2> QED BY <2>1 DEF IInv, Underway
  <1>3. TypeOK'
    BY CountType DEF IInv
  <1>4. Apart'
    <2>1. \A k : Group(k)' = Group(k)
      BY <1>1, BookIsFixed
    <2> QED BY <1>1, <1>2, <2>1 DEF IInv, Apart
  <1>5. Underway'
    BY <1>1, <1>2 DEF IInv, Underway
  <1>6. Accounted' /\ Separate' /\ MatchedIsBacked'
    BY <1>1, <1>2 DEF Accounted, Separate, MatchedIsBacked, Analysed
  <1> QED BY <1>3, <1>4, <1>5, <1>6 DEF IInv

-----------------------------------------------------------------------------
(* A group is begun.                                                       *)

LEMMA NextGroupStep == IInv /\ NextGroup => IInv'
  <1> SUFFICES ASSUME IInv, NextGroup PROVE IInv'
    OBVIOUS
  <1>1. PICK k \in First(todo) : batch' = Group(k) /\ todo' = todo \ Group(k)
    BY DEF NextGroup
  <1>2. /\ book' = book /\ mode' = mode /\ counted' = counted /\ totals' = totals
        /\ orphans' = orphans /\ consumed' = consumed /\ results' = results
        /\ exposures' = exposures /\ Analysed' = Analysed
        /\ batch = {} /\ ReceiptsCounted
        /\ largest' = [quantity |-> 0, exposure |-> 0]
    BY DEF NextGroup, Analysed
  <1>3. k \in todo /\ k \in Lines /\ Group(k) \subseteq todo
    BY DEF First, IInv, Apart, TypeOK
  <1>4. /\ Lines' = Lines /\ Slots' = Slots /\ Currencies' = Currencies
        /\ \A j : /\ Line(j)' = Line(j) /\ Identity(j)' = Identity(j)
                  /\ Group(j)' = Group(j) /\ Slot(j)' = Slot(j)
        /\ \A j : Capacity(j)' = Capacity(j) /\ Claims(j)' = Claims(j)
    BY <1>2, BookIsFixed, CapacityIsFixed
  <1>5. TypeOK'
    BY <1>1, <1>2, <1>3, <1>4 DEF IInv, TypeOK
  <1>6. Apart'
    <2>1. \A j, i \in Group(k) : Identity(j) = Identity(i)
      BY DEF Group
    <2>2. \A j \in todo \ Group(k) : Group(j) \subseteq todo \ Group(k)
      <3> SUFFICES ASSUME NEW j \in todo, j \notin Group(k), NEW i \in Group(j)
                   PROVE  i \in todo /\ i \notin Group(k)
        OBVIOUS
      <3>1. i \in todo /\ j \in Lines
        BY DEF IInv, Apart, TypeOK
      <3> QED BY <3>1 DEF Group
    <2> QED BY <1>1, <1>2, <1>3, <1>4, <2>1, <2>2 DEF IInv, Apart
  <1>7. Underway'
    BY <1>1, <1>2, <1>3 DEF IInv, Underway, ReceiptsCounted
  <1>8. \A j \in Analysed : ~Open(j) /\ ~Open(j)'
    <2>1. \A j \in Analysed : ~Open(j)
      BY <1>2 DEF Open
    <2>2. ASSUME NEW j \in Analysed, Open(j)' PROVE FALSE
      <3>1. PICK i \in Group(k) : Identity(i) = Identity(j)
        BY <1>1, <1>4, <2>2 DEF Open
      <3>2. j \in Group(k)
        BY <3>1 DEF Group, IInv, TypeOK, Analysed
      <3> QED BY <3>2, <1>3 DEF IInv, Apart
    <2> QED BY <2>1, <2>2
  <1>9. Accounted'
    <2> SUFFICES ASSUME NEW j \in Analysed PROVE Placed(j)'
      BY <1>2 DEF Accounted
    <2>1. Placed(j) /\ ~Open(j) /\ ~Open(j)'
      BY <1>8 DEF IInv, Accounted
    <2> QED BY <2>1, <1>2, <1>4 DEF Placed
  <1>10. Separate' /\ MatchedIsBacked'
    BY <1>2, <1>4 DEF IInv, Separate, Ordered, MatchedIsBacked, Analysed
  <1> QED BY <1>5, <1>6, <1>7, <1>9, <1>10 DEF IInv

-----------------------------------------------------------------------------
(* A line is analysed.                                                     *)

(* Lines of one identity that agree on their target agree on their slot,   *)
(* and claim it together or not at all.                                    *)
LEMMA GroupsClaimTogether ==
  ASSUME NEW j \in Lines, NEW k \in Lines, Identity(j) = Identity(k), Claims(j)
  PROVE  Claims(k) /\ Slot(j) = Slot(k)
  <1>1. Group(j) = Group(k) /\ j \in Group(j) /\ k \in Group(j)
    BY DEF Group
  <1>2. Target(k) = Target(j) /\ \A i \in Group(j) : Target(i) = Target(j)
    BY <1>1 DEF Claims, Ambiguous
  <1>3. ~Ambiguous(k)
    BY <1>1, <1>2 DEF Ambiguous
  <1>4. /\ Line(k).po = Line(j).po /\ Line(k).poLine = Line(j).poLine
        /\ Line(k).item = Line(j).item
    BY <1>2 DEF Target
  <1>5. Slot(j) = Slot(k)
    BY <1>4 DEF Slot, Reference
  <1>6. Resolves(j) = Resolves(k)
    <2>1. OrderOf(Line(j)) = OrderOf(Line(k))
      BY <1>4 DEF OrderOf
    <2>2. OrdersAt(Line(j).po, Line(j).poLine) = OrdersAt(Line(k).po, Line(k).poLine)
      BY <1>4
    <2> QED BY <1>4, <2>1, <2>2 DEF Resolves, ReferenceIssues
  <1> QED BY <1>3, <1>5, <1>6 DEF Claims

LEMMA SupportType ==
  ASSUME TypeOK, NEW k \in Lines, NEW p \in Nat
  PROVE  /\ Capacity(k) \in Nat
         /\ Supported(k, p) \in Nat /\ Supported(k, p) <= Line(k).quantity
         /\ Supported(k, p) > 0 => ~Ambiguous(k) /\ p + Supported(k, p) <= Capacity(k)
  <1>1. Line(k).quantity \in Nat \ {0} /\ totals[Slot(k)] \in Nat
    BY LineType
  <1>2. Capacity(k) \in Nat
    <2>1. CASE KnowsOrders /\ Resolves(k)
      <3>1. OrderOf(Line(k)).quantity \in Nat
        BY <2>1, OrderType
      <3> QED BY <2>1, <3>1, <1>1 DEF Capacity, Smaller
    <2>2. CASE ~(KnowsOrders /\ Resolves(k))
      BY <2>2, <1>1 DEF Capacity
    <2> QED BY <2>1, <2>2
  <1> QED BY <1>1, <1>2 DEF Supported, Smaller, Larger

LEMMA IssuesType ==
  ASSUME NEW k, NEW p
  PROVE  Issues(k, p) \subseteq IssueCode
  <1>1. ReceiptCoverage(k, p) \subseteq IssueCode
    BY DEF ReceiptCoverage, Coverage, OtherItem, IssueCode
  <1>2. OrderIssues(k, p) \subseteq IssueCode
    BY DEF OrderIssues, ReferenceIssues, IssueCode
  <1> QED BY <1>1, <1>2 DEF Issues, IssueCode

(* A line that resolves to no PO line is disputed in full.                 *)
LEMMA ExposureType ==
  ASSUME TypeOK, NEW k \in Lines, NEW p \in Nat, NEW s \in Nat, s <= Line(k).quantity
  PROVE  /\ KnowsOrders => Disputed(k, s, Issues(k, p)) \in Nat
         /\ Unsupported(k, s) \in Nat
  <1>1. Line(k).quantity \in Nat /\ Line(k).price \in Nat
    BY LineType
  <1>2. Line(k).quantity * Line(k).price \in Nat
    BY <1>1, ProductIsNat
  <1>3. ASSUME KnowsOrders PROVE Disputed(k, s, Issues(k, p)) \in Nat
    <2>1. CASE Issues(k, p) = {}
      BY <2>1 DEF Disputed
    <2>2. CASE Issues(k, p) \cap FullExposureIssues # {}
      BY <2>2, <1>2, RoundIsNat DEF Disputed
    <2>3. CASE Issues(k, p) # {} /\ Issues(k, p) \cap FullExposureIssues = {}
      <3>1. Resolves(k)
        <4> SUFFICES ASSUME ~Resolves(k) PROVE FALSE
          OBVIOUS
        <4>1. ReferenceIssues(Line(k)) # {} /\ ReferenceIssues(Line(k)) \subseteq FullExposureIssues
          BY DEF Resolves, ReferenceIssues, FullExposureIssues
        <4>2. ReferenceIssues(Line(k)) \subseteq Issues(k, p)
          BY <1>3 DEF Issues, OrderIssues
        <4> QED BY <4>1, <4>2, <2>3
      <3> DEFINE accepted == IF "PRICE_MISMATCH" \in Issues(k, p)
                             THEN OrderOf(Line(k)).price ELSE Line(k).price
                 paid == Line(k).quantity * Line(k).price
                 granted == s * accepted
      <3>2. accepted \in Nat
        BY <3>1, <1>1, OrderType
      <3>3. granted \in Nat /\ paid \in Nat
        <4> HIDE DEF accepted
        <4> QED BY <3>2, <1>2, ProductIsNat
      <3>4. Disputed(k, s, Issues(k, p)) = Round(Larger(paid - granted, 0))
        BY <2>3 DEF Disputed
      <3>5. Larger(paid - granted, 0) \in Nat
        <4> HIDE DEF paid, granted
        <4> QED BY <3>3 DEF Larger
      <3> HIDE DEF paid, granted
      <3> QED BY <3>4, <3>5, RoundIsNat
    <2> QED BY <2>1, <2>2, <2>3
  <1>4. Unsupported(k, s) \in Nat
    <2> DEFINE q == IF Duplicate(k) THEN Line(k).quantity ELSE Line(k).quantity - s
    <2>1. q \in Nat
      BY <1>1
    <2>2. q * Line(k).price \in Nat
      <3> HIDE DEF q
      <3> QED BY <2>1, <1>1, ProductIsNat
    <2> HIDE DEF q
    <2>3. Unsupported(k, s) = Round(q * Line(k).price)
      BY DEF Unsupported, q
    <2> QED BY <2>2, <2>3, RoundIsNat
  <1> QED BY <1>3, <1>4

(* What remains to be shown of a matched line: all its quantity fits.      *)
LEMMA MatchedFits ==
  ASSUME TypeOK, NEW k \in Lines, NEW p \in Nat, mode # "PO_RECEIPT", Issues(k, p) = {}
  PROVE  Supported(k, p) = Line(k).quantity
  <1>1. Line(k).quantity \in Nat \ {0} /\ totals[Slot(k)] \in Nat
    BY LineType
  <1>2. ~Duplicate(k) /\ ~Ambiguous(k)
    BY DEF Issues, Duplicate, Ambiguous
  <1>3. KnowsOrders => Resolves(k) /\ p + Line(k).quantity <= OrderOf(Line(k)).quantity
    <2> SUFFICES ASSUME KnowsOrders
                 PROVE  Resolves(k) /\ p + Line(k).quantity <= OrderOf(Line(k)).quantity
      OBVIOUS
    <2>1. OrderIssues(k, p) = {}
      BY DEF Issues
    <2>2. Resolves(k)
      BY <2>1 DEF OrderIssues, Resolves
    <2>3. OrderOf(Line(k)).quantity \in Nat
      BY <2>2, OrderType
    <2> QED BY <1>1, <2>1, <2>2, <2>3 DEF OrderIssues
  <1>4. KnowsReceipts => p + Line(k).quantity <= totals[Slot(k)]
    <2> SUFFICES ASSUME KnowsReceipts PROVE p + Line(k).quantity <= totals[Slot(k)]
      OBVIOUS
    <2>1. Coverage(k, p) = {}
      BY <1>3 DEF Issues, ReceiptCoverage
    <2> QED BY <1>1, <2>1 DEF Coverage
  <1>5. KnowsOrders \/ KnowsReceipts
    BY DEF KnowsOrders, KnowsReceipts, TypeOK, Mode
  <1>6. p + Line(k).quantity <= Capacity(k)
    <2>1. CASE KnowsOrders
      <3>1. OrderOf(Line(k)).quantity \in Nat
        BY <2>1, <1>3, OrderType
      <3> QED BY <2>1, <3>1, <1>1, <1>3, <1>4 DEF Capacity, Smaller
    <2>2. CASE ~KnowsOrders
      BY <2>2, <1>4, <1>5 DEF Capacity
    <2> QED BY <2>1, <2>2
  <1>7. Capacity(k) \in Nat
    BY SupportType
  <1> QED BY <1>1, <1>2, <1>6, <1>7 DEF Supported, Smaller, Larger

LEMMA ResultFacts ==
  ASSUME TypeOK, NEW k \in Lines, mode # "PO_RECEIPT"
  PROVE  LET r == ResultOf(k) IN
         /\ r \in Result
         /\ r.supported <= Line(k).quantity
         /\ r.supported > 0 => Claims(k) /\ r.previous + r.supported <= Capacity(k)
         /\ Claims(k) => r.previous = consumed[Slot(k)]
         /\ r.issues = {} => r.supported = Line(k).quantity /\ r.exposure = 0
  <1> DEFINE p == IF KnowsOrders /\ ~Resolves(k) THEN 0 ELSE consumed[Slot(k)]
             s == Supported(k, p)
             e == IF KnowsOrders THEN Disputed(k, s, Issues(k, p)) ELSE Unsupported(k, s)
  <1>1. ResultOf(k) = [issues |-> Issues(k, p), previous |-> p, supported |-> s, exposure |-> e]
    BY DEF ResultOf
  <1>2. p \in Nat
    BY LineType
  <1> HIDE DEF p
  <1>3. s \in Nat /\ s <= Line(k).quantity
    BY <1>2, SupportType
  <1>4. e \in Nat
    BY <1>2, <1>3, ExposureType
  <1>5. Claims(k) => p = consumed[Slot(k)]
    BY DEF Claims, p
  <1>6. s > 0 => Claims(k) /\ p + s <= Capacity(k)
    <2> SUFFICES ASSUME s > 0 PROVE Claims(k) /\ p + s <= Capacity(k)
      OBVIOUS
    <2>1. ~Ambiguous(k) /\ p + s <= Capacity(k)
      BY <1>2, SupportType
    <2>2. Capacity(k) > 0
      BY <1>2, <1>3, <2>1, SupportType
    <2>3. totals[Slot(k)] \in Nat
      BY LineType
    <2> QED BY <2>1, <2>2, <2>3 DEF Claims, Capacity
  <1>7. Issues(k, p) = {} => s = Line(k).quantity /\ e = 0
    <2> SUFFICES ASSUME Issues(k, p) = {} PROVE s = Line(k).quantity /\ e = 0
      OBVIOUS
    <2>1. s = Line(k).quantity
      BY <1>2, MatchedFits
    <2>2. Line(k).quantity \in Nat /\ Line(k).price \in Nat
      BY LineType
    <2>3. ~Duplicate(k)
      BY DEF Issues
    <2>4. Unsupported(k, s) = 0
      <3>1. Line(k).quantity - s = 0 /\ 0 * Line(k).price = 0
        BY <2>1, <2>2
      <3> HIDE DEF s
      <3> QED BY <2>3, <3>1, RoundOfZero DEF Unsupported
    <2> QED BY <2>1, <2>4 DEF Disputed
  <1>8. Issues(k, p) \subseteq IssueCode
    BY IssuesType
  <1> HIDE DEF s, e
  <1> QED BY <1>1, <1>2, <1>3, <1>4, <1>5, <1>6, <1>7, <1>8 DEF Result

(* What a step of the loop over a group leaves and changes.                *)
LEMMA AnalyseFacts ==
  ASSUME IInv, NEW k \in Lines, Analyse(k)
  PROVE  /\ book' = book /\ mode' = mode /\ totals' = totals /\ counted' = counted
         /\ orphans' = orphans /\ todo' = todo
         /\ k \in batch /\ k \notin Analysed /\ batch' = batch \ {k}
         /\ Analysed' = Analysed \cup {k}
         /\ results'[k] = ResultOf(k)
         /\ \A j \in Analysed : results'[j] = results[j]
         /\ largest' = Widen(k, ResultOf(k))
         /\ consumed' = IF batch = {k} /\ Claims(k)
                        THEN [consumed EXCEPT ![Slot(k)] = @ + Widen(k, ResultOf(k)).quantity]
                        ELSE consumed
         /\ exposures' = IF batch = {k}
                         THEN [exposures EXCEPT ![Line(k).currency] =
                                    @ + Charged(k, Widen(k, ResultOf(k)))]
                         ELSE exposures
         /\ mode # "PO_RECEIPT" /\ ReceiptsCounted
  <1>1. k \in batch
    BY DEF Analyse, First
  <1>2. k \notin Analysed /\ mode # "PO_RECEIPT" /\ ReceiptsCounted
    BY <1>1 DEF IInv, Apart, Underway
  <1>3. results' = [j \in DOMAIN results \cup {k} |->
                        IF j = k THEN ResultOf(k) ELSE results[j]]
    BY DEF Analyse
  <1>4. /\ Analysed' = Analysed \cup {k} /\ results'[k] = ResultOf(k)
        /\ \A j \in Analysed : results'[j] = results[j]
    BY <1>2, <1>3 DEF Analysed
  <1> QED BY <1>1, <1>2, <1>4 DEF Analyse

LEMMA WidenType ==
  ASSUME TypeOK, NEW k \in Lines, NEW r \in Result
  PROVE  /\ Widen(k, r) \in [quantity: Nat, exposure: Nat]
         /\ largest.quantity <= Widen(k, r).quantity
         /\ Line(k).quantity <= Widen(k, r).quantity
  <1>1. Line(k).quantity \in Nat /\ largest.quantity \in Nat /\ largest.exposure \in Nat
    BY LineType DEF TypeOK
  <1>2. r.exposure \in Nat
    BY DEF Result
  <1> QED BY <1>1, <1>2 DEF Widen, Larger

LEMMA AnalyseType == ASSUME IInv, NEW k \in Lines, Analyse(k) PROVE TypeOK'
  <1> DEFINE w == Widen(k, ResultOf(k))
  <1>1. TypeOK
    BY DEF IInv
  <1>2. ResultOf(k) \in Result
    BY <1>1, AnalyseFacts, ResultFacts
  <1>3. w \in [quantity: Nat, exposure: Nat]
    BY <1>1, <1>2, WidenType
  <1>4. Lines' = Lines /\ Slots' = Slots /\ Currencies' = Currencies
    BY AnalyseFacts, BookIsFixed
  <1>5. consumed' \in [Slots -> Nat] /\ exposures' \in [Currencies -> Nat]
    <2>1. Slot(k) \in Slots /\ Line(k).currency \in Currencies
      BY <1>1, LineType
    <2>2. consumed \in [Slots -> Nat] /\ exposures \in [Currencies -> Nat]
      BY <1>1 DEF TypeOK
    <2>3. w.quantity \in Nat /\ w.exposure \in Nat /\ Charged(k, w) = w.exposure
      BY <1>3 DEF Charged
    <2>4. /\ consumed' = IF batch = {k} /\ Claims(k)
                         THEN [consumed EXCEPT ![Slot(k)] = @ + w.quantity] ELSE consumed
          /\ exposures' = IF batch = {k}
                          THEN [exposures EXCEPT ![Line(k).currency] = @ + w.exposure]
                          ELSE exposures
      BY <2>3, AnalyseFacts
    <2> HIDE DEF w
    <2> QED BY <2>1, <2>2, <2>3, <2>4
  <1>6. DOMAIN results' \subseteq Lines /\ \A j \in DOMAIN results' : results'[j] \in Result
    <2>1. DOMAIN results \subseteq Lines /\ \A j \in DOMAIN results : results[j] \in Result
      BY <1>1 DEF TypeOK
    <2> QED BY <2>1, <1>2, AnalyseFacts DEF Analysed
  <1>7. largest' = w /\ todo' = todo /\ batch' \subseteq batch
    BY AnalyseFacts
  <1>8. /\ book' = book /\ mode' = mode /\ totals' = totals /\ counted' = counted
        /\ orphans' = orphans
    BY AnalyseFacts
  <1> HIDE DEF w
  <1> QED BY <1>1, <1>3, <1>4, <1>5, <1>6, <1>7, <1>8 DEF TypeOK

LEMMA AnalysePlaced == ASSUME IInv, NEW k \in Lines, Analyse(k) PROVE Accounted'
  <1> DEFINE w == Widen(k, ResultOf(k))
  <1>1. TypeOK /\ Accounted /\ \A i, j \in batch : Identity(i) = Identity(j)
    BY DEF IInv, Apart
  <1>2. /\ ResultOf(k) \in Result
        /\ ResultOf(k).supported <= Line(k).quantity
        /\ ResultOf(k).supported > 0 =>
             Claims(k) /\ ResultOf(k).previous + ResultOf(k).supported <= Capacity(k)
        /\ Claims(k) => ResultOf(k).previous = consumed[Slot(k)]
    BY <1>1, AnalyseFacts, ResultFacts
  <1>3. /\ w.quantity \in Nat /\ largest.quantity <= w.quantity /\ Line(k).quantity <= w.quantity
    BY <1>1, <1>2, WidenType
  <1>4. /\ \A j : /\ Line(j)' = Line(j) /\ Identity(j)' = Identity(j) /\ Slot(j)' = Slot(j)
        /\ \A j : Capacity(j)' = Capacity(j) /\ Claims(j)' = Claims(j)
    BY AnalyseFacts, BookIsFixed, CapacityIsFixed
  <1>5. largest' = w /\ batch' = batch \ {k} /\ k \in batch /\ Analysed \subseteq Lines
    BY <1>1, AnalyseFacts DEF TypeOK, Analysed
  <1>6. /\ consumed' = IF batch = {k} /\ Claims(k)
                       THEN [consumed EXCEPT ![Slot(k)] = @ + w.quantity] ELSE consumed
        /\ consumed \in [Slots -> Nat] /\ Slot(k) \in Slots
    BY <1>1, AnalyseFacts, LineType DEF TypeOK
  <1> HIDE DEF w
  <1>7. \A j \in Lines : consumed[Slot(j)] <= consumed'[Slot(j)]
    <2> TAKE j \in Lines
    <2>1. Slot(j) \in Slots
      BY <1>1, LineType
    <2> QED BY <2>1, <1>3, <1>6
  <1>8. ASSUME NEW j \in Lines, Identity(j) = Identity(k), Claims(j),
               NEW p \in Nat, p = consumed[Slot(j)], Line(j).quantity <= w.quantity
        PROVE  /\ Open(j)' => p = consumed'[Slot(j)]
               /\ ~Open(j)' => p + Line(j).quantity <= consumed'[Slot(j)]
    <2>1. Claims(k) /\ Slot(j) = Slot(k)
      BY <1>8, GroupsClaimTogether
    <2>2. CASE batch = {k}
      <3>1. ~Open(j)'
        BY <2>2, <1>5 DEF Open
      <3>2. consumed'[Slot(k)] = consumed[Slot(k)] + w.quantity
        BY <2>1, <2>2, <1>6
      <3>3. Line(j).quantity \in Nat
        BY <1>1, LineType
      <3> QED BY <1>3, <1>8, <2>1, <3>1, <3>2, <3>3
    <2>3. CASE batch # {k}
      <3>1. PICK i \in batch' : Identity(i) = Identity(k)
        BY <2>3, <1>1, <1>5
      <3>2. Open(j)'
        BY <3>1, <1>4, <1>8 DEF Open
      <3> QED BY <2>3, <3>2, <1>6, <1>8
    <2> QED BY <2>2, <2>3
  <1> SUFFICES ASSUME NEW j \in Analysed' PROVE Placed(j)'
    BY DEF Accounted
  <1>9. CASE j = k
    <2>1. results'[k] = ResultOf(k) /\ ResultOf(k).previous \in Nat
      BY <1>2, AnalyseFacts DEF Result
    <2>2. Claims(k) => /\ Open(k)' => ResultOf(k).previous = consumed'[Slot(k)]
                       /\ ~Open(k)' => ResultOf(k).previous + Line(k).quantity <= consumed'[Slot(k)]
      BY <1>2, <1>3, <1>8, <2>1
    <2> QED BY <1>2, <1>3, <1>4, <1>5, <1>9, <2>1, <2>2 DEF Placed
  <1>10. CASE j # k
    <2>1. j \in Analysed /\ j \in Lines /\ results'[j] = results[j] /\ Placed(j)
      BY <1>10, <1>1, <1>5, AnalyseFacts DEF Accounted
    <2>2. results[j] \in Result /\ results[j].previous \in Nat /\ Line(j).quantity \in Nat
      BY <2>1, <1>1, LineType DEF TypeOK, Analysed, Result
    <2>3. /\ Claims(j) /\ Open(j)' => /\ results[j].previous = consumed'[Slot(j)]
                                      /\ Line(j).quantity <= w.quantity
          /\ Claims(j) /\ ~Open(j)' =>
                results[j].previous + Line(j).quantity <= consumed'[Slot(j)]
      <3> SUFFICES ASSUME Claims(j)
                   PROVE  /\ Open(j)' => /\ results[j].previous = consumed'[Slot(j)]
                                         /\ Line(j).quantity <= w.quantity
                          /\ ~Open(j)' =>
                                results[j].previous + Line(j).quantity <= consumed'[Slot(j)]
        OBVIOUS
      <3>1. CASE Open(j)
        <4>1. Identity(j) = Identity(k)
          BY <3>1, <1>1, <1>5 DEF Open
        <4>2. results[j].previous = consumed[Slot(j)] /\ Line(j).quantity <= largest.quantity
          BY <3>1, <2>1 DEF Placed
        <4>3. largest.quantity \in Nat
          BY <1>1 DEF TypeOK
        <4>4. Line(j).quantity <= w.quantity
          BY <4>2, <4>3, <1>3, <2>2
        <4> QED BY <4>1, <4>2, <4>4, <1>8, <2>1, <2>2
      <3>2. CASE ~Open(j)
        <4>1. ~Open(j)'
          BY <3>2, <1>4, <1>5 DEF Open
        <4>2. results[j].previous + Line(j).quantity <= consumed[Slot(j)]
          BY <3>2, <2>1 DEF Placed
        <4>3. consumed[Slot(j)] \in Nat /\ consumed'[Slot(j)] \in Nat /\ Slot(j) \in Slots
          BY <2>1, <1>1, <1>3, <1>6, LineType
        <4> QED BY <4>1, <4>2, <4>3, <1>7, <2>1, <2>2
      <3> QED BY <3>1, <3>2
    <2> QED BY <1>4, <1>5, <2>1, <2>3 DEF Placed
  <1> QED BY <1>9, <1>10

(* The lines analysed so far with another identity are closed, and lie     *)
(* before what the open group begins with.                                 *)
LEMMA AnalyseSeparate == ASSUME IInv, NEW k \in Lines, Analyse(k) PROVE Separate'
  <1>1. TypeOK /\ Accounted /\ Separate /\ \A i, j \in batch : Identity(i) = Identity(j)
    BY DEF IInv, Apart
  <1>2. \A j : Identity(j)' = Identity(j) /\ Slot(j)' = Slot(j)
    BY AnalyseFacts, BookIsFixed
  <1>3. /\ ResultOf(k) \in Result
        /\ ResultOf(k).supported > 0 => Claims(k)
        /\ Claims(k) => ResultOf(k).previous = consumed[Slot(k)]
    BY <1>1, AnalyseFacts, ResultFacts
  <1>4. ASSUME NEW j \in Analysed, Slot(j) = Slot(k), Identity(j) # Identity(k),
               results[j].supported > 0, ResultOf(k).supported > 0
        PROVE  results[j].previous + results[j].supported <= ResultOf(k).previous
    <2>1. ~Open(j)
      BY <1>1, <1>4, AnalyseFacts DEF Open
    <2>2. /\ results[j].previous + Line(j).quantity <= consumed[Slot(j)]
          /\ results[j].supported <= Line(j).quantity
      BY <1>1, <1>4, <2>1 DEF Accounted, Placed
    <2>3. /\ results[j].previous \in Nat /\ results[j].supported \in Nat
          /\ Line(j).quantity \in Nat /\ consumed[Slot(j)] \in Nat
      <3>1. j \in Lines /\ results[j] \in Result
        BY <1>1 DEF TypeOK, Analysed
      <3> QED BY <3>1, <1>1, LineType DEF Result
    <2> QED BY <1>3, <1>4, <2>2, <2>3
  <1> SUFFICES ASSUME NEW i \in Analysed', NEW j \in Analysed',
                      Slot(i) = Slot(j), Identity(i) # Identity(j),
                      results'[i].supported > 0, results'[j].supported > 0
               PROVE  Ordered(i, j)'
    BY <1>2 DEF Separate
  <1>5. CASE i = k
    <2>1. j \in Analysed /\ results'[j] = results[j] /\ results'[i] = ResultOf(k)
      BY <1>5, AnalyseFacts
    <2> QED BY <1>4, <1>5, <2>1 DEF Ordered
  <1>6. CASE j = k
    <2>1. i \in Analysed /\ results'[i] = results[i] /\ results'[j] = ResultOf(k)
      BY <1>6, AnalyseFacts
    <2> QED BY <1>4, <1>6, <2>1 DEF Ordered
  <1>7. CASE i # k /\ j # k
    <2>1. /\ i \in Analysed /\ results'[i] = results[i]
          /\ j \in Analysed /\ results'[j] = results[j]
      BY <1>7, AnalyseFacts
    <2> QED BY <1>1, <2>1 DEF Separate, Ordered
  <1> QED BY <1>5, <1>6, <1>7

LEMMA AnalyseStep == ASSUME IInv, NEW k \in Lines, Analyse(k) PROVE IInv'
  <1>1. TypeOK' /\ Accounted' /\ Separate'
    BY AnalyseType, AnalysePlaced, AnalyseSeparate
  <1>2. /\ \A j : Line(j)' = Line(j) /\ Identity(j)' = Identity(j) /\ Group(j)' = Group(j)
    BY AnalyseFacts, BookIsFixed
  <1>3. Apart'
    BY <1>2, AnalyseFacts DEF IInv, Apart
  <1>4. Underway'
    BY AnalyseFacts DEF IInv, Underway, ReceiptsCounted
  <1>5. MatchedIsBacked'
    <2>1. ResultOf(k).issues = {} =>
            ResultOf(k).supported = Line(k).quantity /\ ResultOf(k).exposure = 0
      BY AnalyseFacts, ResultFacts DEF IInv
    <2> QED BY <1>2, <2>1, AnalyseFacts DEF IInv, MatchedIsBacked, Analysed
  <1> QED BY <1>1, <1>3, <1>4, <1>5 DEF IInv

-----------------------------------------------------------------------------
(* The theorems.                                                           *)

LEMMA UnchangedStep == IInv /\ UNCHANGED vars => IInv'
  <1> SUFFICES ASSUME IInv, UNCHANGED vars PROVE IInv'
    OBVIOUS
  <1>1. /\ book' = book /\ mode' = mode /\ counted' = counted /\ totals' = totals
        /\ orphans' = orphans /\ todo' = todo /\ batch' = batch /\ largest' = largest
        /\ consumed' = consumed /\ results' = results /\ exposures' = exposures
        /\ Analysed' = Analysed
    BY DEF vars, Analysed
  <1>2. /\ Lines' = Lines /\ Slots' = Slots /\ Currencies' = Currencies
        /\ \A k : /\ Line(k)' = Line(k) /\ Identity(k)' = Identity(k)
                  /\ Group(k)' = Group(k) /\ Slot(k)' = Slot(k)
                  /\ Capacity(k)' = Capacity(k) /\ Claims(k)' = Claims(k)
    BY <1>1, BookIsFixed, CapacityIsFixed
  <1>3. TypeOK'
    BY <1>1, <1>2 DEF IInv, TypeOK
  <1>4. Apart' /\ Underway'
    BY <1>1, <1>2 DEF IInv, Apart, Underway, ReceiptsCounted
  <1>5. Accounted' /\ Separate' /\ MatchedIsBacked'
    BY <1>1, <1>2 DEF IInv, Accounted, Placed, Open, Separate, Ordered, MatchedIsBacked
  <1> QED BY <1>3, <1>4, <1>5 DEF IInv

(* The inductive invariant holds of every analysis of every loaded book.   *)
THEOREM AnalysisInvariant == Spec => []IInv
  <1>1. IInv /\ [Next]_vars => IInv'
    BY CountStep, NextGroupStep, AnalyseStep, UnchangedStep DEF Next
  <1> QED BY InitIInv, <1>1, PTL DEF Spec

(* Every table the analyses build keeps its shape: amounts, totals and     *)
(* supported quantities are never negative.                                *)
THEOREM AnalysisTypes == Spec => []TypeOK
  <1>1. IInv => TypeOK
    BY DEF IInv
  <1> QED BY <1>1, AnalysisInvariant, PTL

(* _consume_group_capacity keeps the groups apart: no ordered or received  *)
(* unit supports two invoices, for files of any size.                      *)
THEOREM NoDoubleSupport == Spec => []NoUnitBackedTwice
  <1>1. IInv => NoUnitBackedTwice
    <2> SUFFICES ASSUME IInv PROVE NoUnitBackedTwice
      OBVIOUS
    <2>1. \A k \in Analysed : /\ results[k].previous \in Nat /\ results[k].supported \in Nat
                              /\ k \in Lines
      BY DEF IInv, TypeOK, Analysed, Result
    <2>2. \A k \in Analysed : Backed(k) \subseteq 1..Capacity(k)
      <3> TAKE k \in Analysed
      <3>1. Capacity(k) \in Nat
        BY <2>1, SupportType DEF IInv
      <3>2. results[k].supported > 0 =>
                results[k].previous + results[k].supported <= Capacity(k)
        BY DEF IInv, Accounted, Placed
      <3> QED BY <2>1, <3>1, <3>2 DEF Backed
    <2>3. ASSUME NEW j \in Analysed, NEW k \in Analysed,
                 Slot(j) = Slot(k), Identity(j) # Identity(k)
          PROVE  Backed(j) \cap Backed(k) = {}
      <3>1. CASE results[j].supported > 0 /\ results[k].supported > 0
        <4>1. Ordered(j, k)
          BY <2>3, <3>1 DEF IInv, Separate
        <4> QED BY <2>1, <4>1 DEF Ordered, Backed
      <3>2. CASE ~(results[j].supported > 0 /\ results[k].supported > 0)
        BY <2>1, <3>2 DEF Backed
      <3> QED BY <3>1, <3>2
    <2> QED BY <2>2, <2>3 DEF NoUnitBackedTwice, Analysed
  <1> QED BY <1>1, AnalysisInvariant, PTL

(* A line reported as MATCHED is supported in full and carries no dispute. *)
THEOREM MatchedLinesAreBacked == Spec => []MatchedIsBacked
  <1>1. IInv => MatchedIsBacked
    BY DEF IInv
  <1> QED BY <1>1, AnalysisInvariant, PTL

-----------------------------------------------------------------------------
(* Sums over finite sets.                                                  *)

(* The element a sum over s takes first.                                   *)
AnyOf(s) == CHOOSE x \in s : TRUE

(* g has the value a sum of f has on every subset of S.                    *)
SumsUp(g, f, D) ==
    g = [s \in D |-> IF s = {} THEN 0 ELSE f[AnyOf(s)] + g[s \ {AnyOf(s)}]]

(* The sum of f over S.                                                    *)
SumOver(f, S) == (CHOOSE g : SumsUp(g, f, SUBSET S))[S]

(* What is smaller than another number.                                    *)
Below == {pair \in Nat \X Nat : pair[1] < pair[2]}

(* Counting down ends.                                                     *)
LEMMA BelowIsWellFounded == IsWellFoundedOn(Below, Nat)
  BY NatLessThanWellFounded DEF OpToRel, Below

(* A set of natural numbers that is not empty has a least element.         *)
LEMMA LeastExists ==
  ASSUME NEW S \in SUBSET Nat, S # {}
  PROVE  \E k \in S : \A j \in S : k <= j
  <1>1. PICK k \in S : \A j \in S : <<j, k>> \notin Below
    BY BelowIsWellFounded, WFMin
  <1>2. ASSUME NEW j \in S PROVE k <= j
    <2>1. j \in Nat /\ k \in Nat /\ <<j, k>> \notin Below
      BY <1>1
    <2> QED BY <2>1 DEF Below
  <1> QED BY <1>2

(* A property that fails for a subset of a finite set fails for one all    *)
(* smaller subsets have it of.                                             *)
LEMMA SmallestSubset ==
  ASSUME NEW S, IsFiniteSet(S), NEW Bad \in SUBSET (SUBSET S), Bad # {}
  PROVE  \E s \in Bad : \A t \in Bad : Cardinality(s) <= Cardinality(t)
  <1> DEFINE sizes == {Cardinality(s) : s \in Bad}
  <1>1. \A s \in Bad : Cardinality(s) \in Nat
    BY FS_Subset, FS_CardinalityType
  <1>2. sizes \in SUBSET Nat /\ sizes # {}
    BY <1>1
  <1>3. PICK k \in sizes : \A j \in sizes : k <= j
    BY <1>2, LeastExists
  <1> QED BY <1>3

(* What the sum takes out of a set is one of its elements.                 *)
LEMMA AnyIsIn ==
  ASSUME NEW s, s # {}
  PROVE  AnyOf(s) \in s
  BY DEF AnyOf

(* A finite set without one of its elements is smaller.                    *)
LEMMA LessOne ==
  ASSUME NEW S, IsFiniteSet(S), NEW x \in S
  PROVE  /\ IsFiniteSet(S \ {x}) /\ Cardinality(S) \in Nat
         /\ Cardinality(S \ {x}) \in Nat /\ Cardinality(S \ {x}) < Cardinality(S)
  <1>1. IsFiniteSet(S \ {x}) /\ Cardinality(S \ {x}) = Cardinality(S) - 1
    BY FS_RemoveElement
  <1>2. Cardinality(S) \in Nat /\ Cardinality(S \ {x}) \in Nat
    BY <1>1, FS_CardinalityType
  <1> QED BY <1>1, <1>2

(* Two running sums of one function agree where both are defined.          *)
LEMMA SumsAgree ==
  ASSUME NEW f, NEW S, NEW T, NEW g, NEW h,
         IsFiniteSet(S), T \in SUBSET S, SumsUp(g, f, SUBSET S), SumsUp(h, f, SUBSET T)
  PROVE  g[T] = h[T]
  <1> DEFINE Bad == {t \in SUBSET T : g[t] # h[t]}
  <1>1. SUFFICES ASSUME Bad # {} PROVE FALSE
    OBVIOUS
  <1>2. IsFiniteSet(T)
    BY FS_Subset
  <1>3. Bad \in SUBSET (SUBSET T)
    OBVIOUS
  <1>4. PICK t \in Bad : \A u \in Bad : Cardinality(t) <= Cardinality(u)
    <2> HIDE DEF Bad
    <2> QED BY <1>1, <1>2, <1>3, SmallestSubset
  <1>5. t \in SUBSET T /\ t \in SUBSET S /\ IsFiniteSet(t)
    BY <1>2, FS_Subset
  <1>6. /\ g[t] = IF t = {} THEN 0 ELSE f[AnyOf(t)] + g[t \ {AnyOf(t)}]
        /\ h[t] = IF t = {} THEN 0 ELSE f[AnyOf(t)] + h[t \ {AnyOf(t)}]
    BY <1>5, Zenon DEF SumsUp
  <1>7. t # {}
    BY <1>4, <1>6
  <1>8. g[t \ {AnyOf(t)}] = h[t \ {AnyOf(t)}]
    <2>1. AnyOf(t) \in t
      BY <1>7, AnyIsIn
    <2> DEFINE rest == t \ {AnyOf(t)}
    <2>2. Cardinality(t) \in Nat /\ Cardinality(rest) \in Nat /\ Cardinality(rest) < Cardinality(t)
      BY <1>5, <2>1, LessOne
    <2>3. rest \in SUBSET T
      OBVIOUS
    <2> HIDE DEF rest
    <2>4. rest \notin Bad
      BY <1>4, <2>2
    <2>5. g[rest] = h[rest]
      BY <2>3, <2>4
    <2> QED BY <2>5 DEF rest
  <1> QED BY <1>4, <1>6, <1>7, <1>8

(* One step of a sum, of sets that have one.                               *)
LEMMA StepOfSum ==
  ASSUME NEW f, NEW S, IsFiniteSet(S), S # {}, \E g : SumsUp(g, f, SUBSET S),
         \E g : SumsUp(g, f, SUBSET (S \ {AnyOf(S)}))
  PROVE  SumOver(f, S) = f[AnyOf(S)] + SumOver(f, S \ {AnyOf(S)})
  <1> DEFINE rest == S \ {AnyOf(S)}
             g == CHOOSE k : SumsUp(k, f, SUBSET S)
             h == CHOOSE k : SumsUp(k, f, SUBSET rest)
  <1>1. rest \in SUBSET S
    OBVIOUS
  <1>2. SumsUp(g, f, SUBSET S) /\ SumsUp(h, f, SUBSET rest)
    OBVIOUS
  <1>3. SumOver(f, S) = g[S] /\ SumOver(f, rest) = h[rest]
    BY DEF SumOver
  <1> HIDE DEF g, h
  <1>4. g[rest] = h[rest]
    <2> HIDE DEF rest
    <2> QED BY <1>1, <1>2, SumsAgree
  <1>5. g[S] = f[AnyOf(S)] + g[rest]
    <2>1. S \in SUBSET S
      OBVIOUS
    <2>2. g[S] = IF S = {} THEN 0 ELSE f[AnyOf(S)] + g[rest]
      BY <1>2, <2>1, Zenon DEF SumsUp
    <2> QED BY <2>2
  <1> QED BY <1>3, <1>4, <1>5

(* Every finite set has a sum.                                             *)
LEMMA SumExists ==
  ASSUME NEW f, NEW S, IsFiniteSet(S)
  PROVE  \E g : SumsUp(g, f, SUBSET S)
  <1> DEFINE Bad == {s \in SUBSET S : ~\E g : SumsUp(g, f, SUBSET s)}
  <1>1. SUFFICES ASSUME Bad # {} PROVE FALSE
    <2>1. S \in SUBSET S
      OBVIOUS
    <2> QED BY <2>1
  <1>2. PICK s \in Bad : \A t \in Bad : Cardinality(s) <= Cardinality(t)
    <2>1. Bad \in SUBSET (SUBSET S)
      OBVIOUS
    <2> HIDE DEF Bad
    <2> QED BY <1>1, <2>1, SmallestSubset
  <1>3. s \in SUBSET S /\ ~\E g : SumsUp(g, f, SUBSET s)
    OBVIOUS
  <1>4. ASSUME NEW t \in SUBSET s, t # s PROVE \E g : SumsUp(g, f, SUBSET t)
    <2>1. PICK x \in s : x \notin t
      BY <1>4
    <2>2. IsFiniteSet(s) /\ IsFiniteSet(s \ {x}) /\ t \in SUBSET (s \ {x}) /\ t \in SUBSET S
      BY <1>3, <2>1, FS_Subset, LessOne
    <2>3. Cardinality(t) <= Cardinality(s \ {x}) /\ Cardinality(s \ {x}) < Cardinality(s)
      BY <2>1, <2>2, FS_Subset, LessOne
    <2>4. Cardinality(t) \in Nat /\ Cardinality(s \ {x}) \in Nat /\ Cardinality(s) \in Nat
      BY <2>2, FS_Subset, FS_CardinalityType
    <2>5. t \notin Bad
      <3> HIDE DEF Bad
      <3> QED BY <1>2, <2>3, <2>4
    <2> QED BY <2>2, <2>5
  <1> DEFINE rest(t) == t \ {AnyOf(t)}
             val(t) == IF t = {} THEN 0 ELSE f[AnyOf(t)] + SumOver(f, rest(t))
             g == [t \in SUBSET s |-> val(t)]
  <1>5. ASSUME NEW t \in SUBSET s, t # {} PROVE rest(t) \in SUBSET s /\ rest(t) # s
    BY <1>5, AnyIsIn
  <1>6. ASSUME NEW t \in SUBSET s, t # s PROVE SumOver(f, t) = val(t)
    <2>1. IsFiniteSet(t)
      BY <1>3, FS_Subset
    <2>2. CASE t = {}
      <3> DEFINE h == CHOOSE k : SumsUp(k, f, SUBSET {})
      <3>1. SumsUp(h, f, SUBSET {})
        BY <1>4, <1>6, <2>2
      <3>2. SumOver(f, {}) = h[{}]
        BY DEF SumOver
      <3> HIDE DEF h
      <3>3. h[{}] = IF {} = {} THEN 0 ELSE f[AnyOf({})] + h[{} \ {AnyOf({})}]
        <4>1. {} \in SUBSET {}
          OBVIOUS
        <4> QED BY <3>1, <4>1, Zenon DEF SumsUp
      <3> QED BY <2>2, <3>2, <3>3
    <2>3. CASE t # {}
      <3>1. rest(t) \in SUBSET s /\ rest(t) # s
        BY <1>5, <2>3
      <3>2. (\E k : SumsUp(k, f, SUBSET t)) /\ \E k : SumsUp(k, f, SUBSET rest(t))
        <4> HIDE DEF rest
        <4> QED BY <1>4, <1>6, <3>1
      <3> QED BY <2>1, <2>3, <3>2, StepOfSum
    <2> QED BY <2>2, <2>3
  <1>7. g = [t \in SUBSET s |-> IF t = {} THEN 0 ELSE f[AnyOf(t)] + g[rest(t)]]
    <2>1. ASSUME NEW t \in SUBSET s
          PROVE  val(t) = IF t = {} THEN 0 ELSE f[AnyOf(t)] + g[rest(t)]
      <3>1. CASE t = {}
        BY <3>1
      <3>2. CASE t # {}
        <4>1. rest(t) \in SUBSET s /\ rest(t) # s
          BY <1>5, <3>2
        <4>2. g[rest(t)] = val(rest(t)) /\ SumOver(f, rest(t)) = val(rest(t))
          <5> HIDE DEF rest, val
          <5> QED BY <4>1, <1>6
        <4>3. val(t) = f[AnyOf(t)] + SumOver(f, rest(t))
          <5> HIDE DEF rest
          <5> QED BY <3>2
        <4> HIDE DEF val, g, rest
        <4> QED BY <3>2, <4>2, <4>3
      <3> QED BY <3>1, <3>2
    <2>2. g = [t \in SUBSET s |-> val(t)]
      OBVIOUS
    <2> HIDE DEF g, val, rest
    <2> QED BY <2>1, <2>2
  <1>8. SumsUp(g, f, SUBSET s)
    <2> HIDE DEF g
    <2> QED BY <1>7, Zenon DEF SumsUp
  <1> HIDE DEF g
  <1> QED BY <1>3, <1>8

(* The sum of nothing.                                                     *)
LEMMA SumOfNone == ASSUME NEW f PROVE SumOver(f, {}) = 0
  <1> DEFINE h == CHOOSE k : SumsUp(k, f, SUBSET {})
  <1>1. SumsUp(h, f, SUBSET {})
    BY SumExists, FS_EmptySet
  <1>2. SumOver(f, {}) = h[{}]
    BY DEF SumOver
  <1> HIDE DEF h
  <1>3. h[{}] = IF {} = {} THEN 0 ELSE f[AnyOf({})] + h[{} \ {AnyOf({})}]
    <2>1. {} \in SUBSET {}
      OBVIOUS
    <2> QED BY <1>1, <2>1, Zenon DEF SumsUp
  <1> QED BY <1>2, <1>3

(* A sum takes out one element and goes on with the rest.                  *)
LEMMA SumOfAny ==
  ASSUME NEW f, NEW S, IsFiniteSet(S), S # {}
  PROVE  SumOver(f, S) = f[AnyOf(S)] + SumOver(f, S \ {AnyOf(S)})
  <1>1. IsFiniteSet(S \ {AnyOf(S)})
    BY FS_Subset
  <1>2. (\E g : SumsUp(g, f, SUBSET S)) /\ \E g : SumsUp(g, f, SUBSET (S \ {AnyOf(S)}))
    BY <1>1, SumExists
  <1> QED BY <1>2, StepOfSum

(* A sum of natural numbers is one.                                        *)
LEMMA SumIsNat ==
  ASSUME NEW f, NEW S, IsFiniteSet(S), \A x \in S : f[x] \in Nat
  PROVE  SumOver(f, S) \in Nat
  <1> DEFINE Bad == {s \in SUBSET S : SumOver(f, s) \notin Nat}
  <1>1. SUFFICES ASSUME Bad # {} PROVE FALSE
    OBVIOUS
  <1>2. PICK s \in Bad : \A t \in Bad : Cardinality(s) <= Cardinality(t)
    <2>1. Bad \in SUBSET (SUBSET S)
      OBVIOUS
    <2> HIDE DEF Bad
    <2> QED BY <1>1, <2>1, SmallestSubset
  <1>3. IsFiniteSet(s) /\ s \in SUBSET S /\ SumOver(f, s) \notin Nat
    BY FS_Subset
  <1>4. s # {}
    BY <1>3, SumOfNone
  <1> DEFINE x == AnyOf(s)
             rest == s \ {x}
  <1>5. x \in s
    BY <1>4, AnyIsIn
  <1>6. SumOver(f, s) = f[x] + SumOver(f, rest)
    BY <1>3, <1>4, SumOfAny
  <1>7. Cardinality(rest) < Cardinality(s) /\ Cardinality(rest) \in Nat /\ Cardinality(s) \in Nat
    BY <1>3, <1>5, LessOne
  <1>8. rest \in SUBSET S
    BY <1>3
  <1> HIDE DEF rest, x
  <1>9. rest \notin Bad
    <2> HIDE DEF Bad
    <2> QED BY <1>2, <1>7
  <1>10. SumOver(f, rest) \in Nat
    BY <1>8, <1>9
  <1> QED BY <1>3, <1>5, <1>6, <1>10

(* Whatever element a sum is said to take first.                           *)
LEMMA SumTakesOut ==
  ASSUME NEW f, NEW S, IsFiniteSet(S), \A y \in S : f[y] \in Nat, NEW x \in S
  PROVE  SumOver(f, S) = f[x] + SumOver(f, S \ {x})
  <1> DEFINE Bad == {s \in SUBSET S : \E y \in s : SumOver(f, s) # f[y] + SumOver(f, s \ {y})}
  <1>1. SUFFICES ASSUME Bad # {} PROVE FALSE
    OBVIOUS
  <1>2. PICK s \in Bad : \A t \in Bad : Cardinality(s) <= Cardinality(t)
    <2>1. Bad \in SUBSET (SUBSET S)
      OBVIOUS
    <2> HIDE DEF Bad
    <2> QED BY <1>1, <2>1, SmallestSubset
  <1>3. IsFiniteSet(s) /\ s \in SUBSET S
    BY FS_Subset
  <1>4. PICK y \in s : SumOver(f, s) # f[y] + SumOver(f, s \ {y})
    OBVIOUS
  <1> DEFINE z == AnyOf(s)
  <1>5. z \in s
    BY AnyIsIn
  <1>6. SumOver(f, s) = f[z] + SumOver(f, s \ {z})
    BY <1>3, <1>4, SumOfAny
  <1> HIDE DEF z
  <1>7. y # z
    BY <1>4, <1>6
  <1> DEFINE both == (s \ {z}) \ {y}
  <1>8. ASSUME NEW u \in s, NEW v \in s, u # v
        PROVE  SumOver(f, s \ {u}) = f[v] + SumOver(f, (s \ {u}) \ {v})
    <2> DEFINE t == s \ {u}
    <2>1. Cardinality(t) < Cardinality(s) /\ Cardinality(t) \in Nat /\ Cardinality(s) \in Nat
      BY <1>3, LessOne
    <2>2. t \in SUBSET S /\ v \in t
      BY <1>3, <1>8
    <2> HIDE DEF t
    <2>3. t \notin Bad
      <3> HIDE DEF Bad
      <3> QED BY <1>2, <2>1
    <2>4. SumOver(f, t) = f[v] + SumOver(f, t \ {v})
      BY <2>2, <2>3
    <2> QED BY <2>4 DEF t
  <1>9. /\ SumOver(f, s \ {z}) = f[y] + SumOver(f, both)
        /\ SumOver(f, s \ {y}) = f[z] + SumOver(f, both)
    <2>1. (s \ {y}) \ {z} = both
      OBVIOUS
    <2> QED BY <1>5, <1>7, <1>8, <2>1
  <1>10. SumOver(f, both) \in Nat /\ f[y] \in Nat /\ f[z] \in Nat
    <2>1. IsFiniteSet(both) /\ both \in SUBSET S
      BY <1>3, FS_Subset
    <2> HIDE DEF both
    <2> QED BY <1>3, <1>5, <2>1, SumIsNat
  <1> QED BY <1>4, <1>6, <1>9, <1>10

(* A sum over one element more.                                            *)
LEMMA SumAdds ==
  ASSUME NEW f, NEW S, IsFiniteSet(S), NEW x, x \notin S, \A y \in S \cup {x} : f[y] \in Nat
  PROVE  SumOver(f, S \cup {x}) = SumOver(f, S) + f[x]
  <1> DEFINE more == S \cup {x}
  <1>1. IsFiniteSet(more) /\ x \in more /\ more \ {x} = S
    BY FS_AddElement
  <1>2. \A y \in more : f[y] \in Nat
    OBVIOUS
  <1>3. SumOver(f, S) \in Nat /\ f[x] \in Nat
    BY SumIsNat
  <1> HIDE DEF more
  <1>4. SumOver(f, more) = f[x] + SumOver(f, more \ {x})
    BY <1>1, <1>2, SumTakesOut
  <1>5. SumOver(f, more) = f[x] + SumOver(f, S)
    BY <1>1, <1>4
  <1>6. SumOver(f, more) = SumOver(f, S) + f[x]
    BY <1>3, <1>5
  <1> QED BY <1>6 DEF more

-----------------------------------------------------------------------------
(* The receipts.                                                           *)

(* What the receipt lines deliver, as a function.                          *)
Deliveries == [n \in DOMAIN book.receipts |-> book.receipts[n].quantity]

(* Every receipt counted so far is in the total of its PO line, or an      *)
(* orphan.                                                                 *)
AllCounted ==
    /\ mode # "INVOICE_RECEIPT" =>
        \A o \in book.orders : Received(o) = SumOver(Deliveries, DeliveriesFor(o))
    /\ mode = "PO_RECEIPT" =>
        DOMAIN orphans = (1..counted) \ UNION {DeliveriesFor(o) : o \in book.orders}

(* The receipts of an order, counted or not, are receipt lines.            *)
LEMMA DeliveriesAreLines ==
  ASSUME TypeOK, NEW o
  PROVE  /\ DeliveriesFor(o) \subseteq 1..counted /\ DeliveriesFor(o) \subseteq DOMAIN Deliveries
         /\ IsFiniteSet(DeliveriesFor(o))
         /\ \A n \in DOMAIN Deliveries : Deliveries[n] \in Nat /\ Deliveries[n] = Delivered(n)
  <1>1. /\ book.receipts \in Seq(ReceiptLine) /\ counted \in 0..Len(book.receipts)
        /\ DOMAIN Deliveries = DOMAIN book.receipts
    BY DEF TypeOK, Book, Deliveries
  <1>2. DeliveriesFor(o) \subseteq 1..counted /\ 1..counted \subseteq DOMAIN Deliveries
    BY <1>1 DEF DeliveriesFor
  <1>3. IsFiniteSet(1..counted)
    BY <1>1, FS_Interval
  <1>4. ASSUME NEW n \in DOMAIN Deliveries
        PROVE  Deliveries[n] \in Nat /\ Deliveries[n] = Delivered(n)
    <2>1. book.receipts[n] \in ReceiptLine
      BY <1>1
    <2> QED BY <1>1, <2>1 DEF Deliveries, Delivered, ReceiptLine
  <1> QED BY <1>2, <1>3, <1>4, FS_Subset

(* The sum the property names is the total of the function.                *)
LEMMA DeliveredSum ==
  ASSUME NEW S, NEW f, IsFiniteSet(S), \A x \in S : f[x] = Delivered(x)
  PROVE  MapThenSumSet(Delivered, S) = SumOver(f, S)
  <1> DEFINE Is(g) == g = [s \in SUBSET S |->
                              IF s = {} THEN 0
                              ELSE Delivered(CHOOSE x \in s : TRUE)
                                     + g[s \ {CHOOSE x \in s : TRUE}]]
  <1>1. ASSUME NEW g PROVE Is(g) <=> SumsUp(g, f, SUBSET S)
    <2>1. ASSUME NEW s \in SUBSET S, s # {} PROVE f[AnyOf(s)] = Delivered(AnyOf(s))
      BY <2>1, AnyIsIn
    <2> QED BY <2>1 DEF SumsUp, AnyOf
  <1> DEFINE t == CHOOSE g : Is(g)
             u == CHOOSE g : SumsUp(g, f, SUBSET S)
  <1>2. SumsUp(u, f, SUBSET S)
    BY SumExists
  <1>3. Is(t)
    <2>1. Is(u)
      BY <1>1, <1>2
    <2> HIDE DEF u
    <2> QED BY <2>1
  <1>4. MapThenSumSet(Delivered, S) = t[S]
    BY Zenon DEF MapThenSumSet, MapThenFoldSet
  <1>5. SumOver(f, S) = u[S]
    BY DEF SumOver
  <1>6. SumsUp(t, f, SUBSET S)
    BY <1>1, <1>3
  <1> HIDE DEF t, u, Is
  <1>7. S \in SUBSET S
    OBVIOUS
  <1> QED BY <1>2, <1>4, <1>5, <1>6, <1>7, SumsAgree

(* Loaded orders are told apart by number and line.                        *)
LEMMA OrderIs ==
  ASSUME book \in Books, NEW row, NEW o \in book.orders, o.po = row.po, o.line = row.poLine
  PROVE  OrderOf(row) = o
  <1>1. \A p \in book.orders : p.po = row.po /\ p.line = row.poLine => p = o
    BY BookAssumption DEF Loaded
  <1> QED BY <1>1 DEF OrderOf

(* A receipt is counted for the order whose item it delivers, and no other *)
(* order takes it.                                                         *)
LEMMA ReasonsTell ==
  ASSUME book \in Books, NEW row
  PROVE  ReceiptIssues(row) = {} <=>
             \E o \in book.orders : o.po = row.po /\ o.line = row.poLine /\ o.item = row.item
  <1>1. ASSUME NEW o \in book.orders, o.po = row.po, o.line = row.poLine
        PROVE  ReceiptIssues(row) = {} <=> o.item = row.item
    <2>1. OrderOf(row) = o /\ row.po \in PoNumbers /\ OrdersAt(row.po, row.poLine) # {}
      BY <1>1, OrderIs DEF PoNumbers, OrdersAt
    <2> QED BY <2>1 DEF ReceiptIssues
  <1>2. ASSUME ReceiptIssues(row) = {}
        PROVE  \E o \in book.orders : o.po = row.po /\ o.line = row.poLine
    <2>1. OrdersAt(row.po, row.poLine) # {}
      BY <1>2 DEF ReceiptIssues
    <2> QED BY <2>1 DEF OrdersAt
  <1> QED BY <1>1, <1>2

(* Before a receipt is read nothing is counted.                            *)
LEMMA InitCounted == Init => AllCounted
  <1> SUFFICES ASSUME Init
               PROVE  /\ \A o \in book.orders :
                            Received(o) = SumOver(Deliveries, DeliveriesFor(o))
                      /\ DOMAIN orphans =
                            (1..counted) \ UNION {DeliveriesFor(o) : o \in book.orders}
    BY DEF AllCounted
  <1>1. 1..counted = {} /\ \A o : DeliveriesFor(o) = {}
    BY DEF Init, DeliveriesFor
  <1>2. \A o : Received(o) = 0
    BY DEF Init, Received
  <1>3. DOMAIN orphans = {}
    BY DEF Init
  <1> QED BY <1>1, <1>2, <1>3, SumOfNone

(* The loop over the receipts counts each line once.                       *)
LEMMA CountCounted == IInv /\ book \in Books /\ AllCounted /\ CountReceipt => AllCounted'
  <1> SUFFICES ASSUME IInv, book \in Books, AllCounted, CountReceipt,
                      mode # "INVOICE_RECEIPT"
               PROVE  /\ \A o \in book.orders :
                            Received(o)' = SumOver(Deliveries, DeliveriesFor(o)')
                      /\ mode = "PO_RECEIPT" => DOMAIN orphans' =
                            (1..counted') \ UNION {DeliveriesFor(o)' : o \in book.orders}
    <2>1. CountReceipt => book' = book /\ mode' = mode
      BY DEF CountReceipt
    <2> QED BY <2>1 DEF AllCounted, Deliveries
  <1> DEFINE n == counted + 1
             row == book.receipts[n]
             slot == Reference(row)
  <1>1. /\ TypeOK /\ book' = book /\ mode' = mode /\ counted' = n /\ Slots' = Slots
        /\ n \in DOMAIN book.receipts /\ counted \in Nat /\ n \notin 1..counted
        /\ 1..n = (1..counted) \cup {n}
    <2>1. counted \in Nat /\ counted < Len(book.receipts) /\ book.receipts \in Seq(ReceiptLine)
      BY DEF CountReceipt, IInv, TypeOK, Book
    <2> QED BY <2>1, BookIsFixed DEF CountReceipt, IInv
  <1>2. slot \in Slots /\ slot = [po |-> row.po, line |-> row.poLine, item |-> 0]
    BY <1>1 DEF Slots, Reference
  <1> DEFINE Meets(o) == o.po = row.po /\ o.line = row.poLine /\ o.item = row.item
  <1>3. \A o : DeliveriesFor(o)' = DeliveriesFor(o) \cup IF Meets(o) THEN {n} ELSE {}
    BY <1>1 DEF DeliveriesFor
  <1>4. ReceiptIssues(row) = {} <=> \E o \in book.orders : Meets(o)
    <2> HIDE DEF row
    <2> QED BY ReasonsTell
  <1>5. row.quantity \in Nat /\ Deliveries[n] = row.quantity
    BY <1>1, DeliveriesAreLines DEF Deliveries
  <1>6. /\ \A o \in book.orders : Received(o) = SumOver(Deliveries, DeliveriesFor(o))
        /\ mode = "PO_RECEIPT" =>
              DOMAIN orphans = (1..counted) \ UNION {DeliveriesFor(o) : o \in book.orders}
    BY DEF AllCounted
  <1>7. /\ ReceiptIssues(row) = {} =>
             totals' = [totals EXCEPT ![slot] = @ + row.quantity] /\ orphans' = orphans
        /\ ReceiptIssues(row) # {} =>
             /\ totals' = totals
             /\ mode = "PO_RECEIPT" => DOMAIN orphans' = DOMAIN orphans \cup {n}
    BY DEF CountReceipt
  <1>8. totals \in [Slots -> Nat]
    BY <1>1 DEF TypeOK
  <1>9. ASSUME NEW o \in book.orders PROVE Received(o)' = SumOver(Deliveries, DeliveriesFor(o)')
    <2> DEFINE place == [po |-> o.po, line |-> o.line, item |-> 0]
    <2>1. Received(o) = (IF place \in Slots THEN totals[place] ELSE 0)
          /\ Received(o)' = IF place \in Slots THEN totals'[place] ELSE 0
      BY <1>1 DEF Received
    <2>2. CASE Meets(o)
      <3>1. place = slot
        BY <1>2, <2>2
      <3>2. ReceiptIssues(row) = {}
        BY <1>4, <2>2
      <3>3. Received(o)' = Received(o) + Deliveries[n]
        <4> HIDE DEF place, slot, row
        <4> QED BY <1>2, <1>5, <1>7, <1>8, <2>1, <3>1, <3>2
      <3>4. DeliveriesFor(o)' = DeliveriesFor(o) \cup {n} /\ n \notin DeliveriesFor(o)
        BY <1>1, <1>3, <2>2, DeliveriesAreLines
      <3>5. SumOver(Deliveries, DeliveriesFor(o) \cup {n})
                = SumOver(Deliveries, DeliveriesFor(o)) + Deliveries[n]
        <4> DEFINE S == DeliveriesFor(o)
        <4>1. IsFiniteSet(S) /\ n \notin S /\ \A y \in S \cup {n} : Deliveries[y] \in Nat
          BY <1>1, <3>4, DeliveriesAreLines DEF Deliveries
        <4> HIDE DEF S, n
        <4>2. SumOver(Deliveries, S \cup {n}) = SumOver(Deliveries, S) + Deliveries[n]
          BY <4>1, SumAdds
        <4> QED BY <4>2 DEF S
      <3> QED BY <1>6, <3>3, <3>4, <3>5
    <2>3. CASE ~Meets(o)
      <3>1. DeliveriesFor(o)' = DeliveriesFor(o)
        BY <1>3, <2>3
      <3>2. place \in Slots => totals'[place] = totals[place]
        <4>1. CASE ReceiptIssues(row) # {}
          BY <1>7, <4>1
        <4>2. CASE ReceiptIssues(row) = {}
          <5>1. PICK p \in book.orders : Meets(p)
            BY <1>4, <4>2
          <5>2. ~(o.po = p.po /\ o.line = p.line)
            BY <2>3, <5>1, BookAssumption DEF Loaded
          <5>3. place # slot
            BY <1>2, <5>1, <5>2
          <5> HIDE DEF place, slot, row
          <5> QED BY <1>7, <1>8, <4>2, <5>3
        <4> QED BY <4>1, <4>2
      <3> QED BY <1>6, <2>1, <3>1, <3>2
    <2> QED BY <2>2, <2>3
  <1>10. ASSUME mode = "PO_RECEIPT"
         PROVE  DOMAIN orphans' = (1..counted') \ UNION {DeliveriesFor(o)' : o \in book.orders}
    <2>1. CASE ReceiptIssues(row) = {}
      <3>1. PICK p \in book.orders : Meets(p)
        BY <1>4, <2>1
      <3>2. n \in UNION {DeliveriesFor(o)' : o \in book.orders}
        BY <1>3, <3>1
      <3>3. ASSUME NEW m, m # n
            PROVE  m \in UNION {DeliveriesFor(o)' : o \in book.orders} <=>
                      m \in UNION {DeliveriesFor(o) : o \in book.orders}
        BY <1>3, <3>3
      <3>4. orphans' = orphans
        BY <1>7, <2>1
      <3> HIDE DEF n
      <3> QED BY <1>1, <1>6, <1>10, <3>2, <3>3, <3>4
    <2>2. CASE ReceiptIssues(row) # {}
      <3>1. \A o \in book.orders : DeliveriesFor(o)' = DeliveriesFor(o)
        BY <1>3, <1>4, <2>2
      <3>2. {DeliveriesFor(o)' : o \in book.orders} = {DeliveriesFor(o) : o \in book.orders}
        BY <3>1
      <3>3. n \notin UNION {DeliveriesFor(o) : o \in book.orders}
        BY <1>1, DeliveriesAreLines
      <3>4. DOMAIN orphans' = DOMAIN orphans \cup {n}
        BY <1>7, <1>10, <2>2
      <3> HIDE DEF n
      <3> QED BY <1>1, <1>6, <1>10, <3>2, <3>3, <3>4
    <2> QED BY <2>1, <2>2
  <1> QED BY <1>9, <1>10

(* The other steps count nothing.                                          *)
LEMMA OthersCounted ==
  ASSUME AllCounted, book' = book, mode' = mode, counted' = counted, totals' = totals,
         orphans' = orphans
  PROVE  AllCounted'
  <1>1. Slots' = Slots
    BY BookIsFixed
  <1>2. \A o : Received(o)' = Received(o) /\ DeliveriesFor(o)' = DeliveriesFor(o)
    BY <1>1 DEF Received, DeliveriesFor
  <1> QED BY <1>2 DEF AllCounted, Deliveries

(* No other step changes what is counted.                                  *)
LEMMA CountedStep == IInv /\ book \in Books /\ AllCounted /\ [Next]_vars => AllCounted'
  <1>1. ASSUME NextGroup \/ (\E k \in Lines : Analyse(k)) \/ UNCHANGED vars
        PROVE  /\ book' = book /\ mode' = mode /\ counted' = counted /\ totals' = totals
               /\ orphans' = orphans
    BY <1>1 DEF NextGroup, Analyse, vars
  <1> QED BY <1>1, CountCounted, OthersCounted DEF Next

(* The files stay the ones that were loaded.                               *)
LEMMA BookStays == book \in Books /\ [Next]_vars => (book \in Books)'
  BY DEF Next, CountReceipt, NextGroup, Analyse, vars

(* The counts of an analysis.                                              *)
LEMMA CountsHold == Spec => [](book \in Books /\ AllCounted)
  <1>1. Init => book \in Books /\ AllCounted
    BY InitCounted DEF Init
  <1>2. IInv /\ (book \in Books /\ AllCounted) /\ [Next]_vars => (book \in Books /\ AllCounted)'
    BY CountedStep, BookStays
  <1> QED BY <1>1, <1>2, AnalysisInvariant, PTL DEF Spec

(* Nothing that was received is lost or counted twice, for any number of   *)
(* receipts.                                                               *)
THEOREM ReceiptsAreCounted == Spec => []EveryReceiptCounts
  <1>1. IInv /\ book \in Books /\ AllCounted => EveryReceiptCounts
    <2> SUFFICES ASSUME IInv, AllCounted, mode = "PO_RECEIPT"
                 PROVE  EveryReceiptCounts
      BY DEF EveryReceiptCounts
    <2>1. ASSUME NEW o \in book.orders
          PROVE  /\ Received(o) = MapThenSumSet(Delivered, DeliveriesFor(o))
                 /\ Received(o) \in Nat /\ o.quantity \in Nat \ {0}
      <3>1. TypeOK /\ o \in OrderLine
        BY DEF IInv, TypeOK, Book
      <3>2. MapThenSumSet(Delivered, DeliveriesFor(o)) = SumOver(Deliveries, DeliveriesFor(o))
        <4> DEFINE S == DeliveriesFor(o)
        <4>1. IsFiniteSet(S) /\ \A x \in S : Deliveries[x] = Delivered(x)
          BY <3>1, DeliveriesAreLines
        <4> HIDE DEF S
        <4>2. MapThenSumSet(Delivered, S) = SumOver(Deliveries, S)
          BY <4>1, DeliveredSum
        <4> QED BY <4>2 DEF S
      <3>3. Received(o) \in Nat
        BY <3>1 DEF Received, TypeOK
      <3> QED BY <3>1, <3>2, <3>3 DEF AllCounted, OrderLine
    <2>2. ASSUME NEW o \in book.orders
          PROVE  Fulfilment(o) = "OVER_RECEIVED" <=> Received(o) > o.quantity
      BY <2>1 DEF Fulfilment
    <2> QED BY <2>1, <2>2 DEF EveryReceiptCounts, AllCounted
  <1> QED BY <1>1, AnalysisInvariant, CountsHold, PTL

(* A smaller function has a smaller sum.                                   *)
LEMMA SumGrows ==
  ASSUME NEW f, NEW g, NEW S, IsFiniteSet(S),
         \A x \in S : f[x] \in Nat /\ g[x] \in Nat /\ f[x] <= g[x]
  PROVE  SumOver(f, S) <= SumOver(g, S)
  <1> DEFINE Bad == {s \in SUBSET S : ~(SumOver(f, s) <= SumOver(g, s))}
  <1>1. SUFFICES ASSUME Bad # {} PROVE FALSE
    OBVIOUS
  <1>2. PICK s \in Bad : \A t \in Bad : Cardinality(s) <= Cardinality(t)
    <2>1. Bad \in SUBSET (SUBSET S)
      OBVIOUS
    <2> HIDE DEF Bad
    <2> QED BY <1>1, <2>1, SmallestSubset
  <1>3. IsFiniteSet(s) /\ s \in SUBSET S /\ ~(SumOver(f, s) <= SumOver(g, s))
    BY FS_Subset
  <1>4. s # {}
    BY <1>3, SumOfNone
  <1> DEFINE x == AnyOf(s)
             rest == s \ {x}
  <1>5. x \in s
    BY <1>4, AnyIsIn
  <1>6. SumOver(f, s) = f[x] + SumOver(f, rest) /\ SumOver(g, s) = g[x] + SumOver(g, rest)
    BY <1>3, <1>4, SumOfAny
  <1>7. Cardinality(rest) < Cardinality(s) /\ Cardinality(rest) \in Nat /\ Cardinality(s) \in Nat
    BY <1>3, <1>5, LessOne
  <1>8. rest \in SUBSET S /\ IsFiniteSet(rest)
    BY <1>3, FS_Subset
  <1> HIDE DEF rest, x
  <1>9. rest \notin Bad
    <2> HIDE DEF Bad
    <2> QED BY <1>2, <1>7
  <1>10. SumOver(f, rest) <= SumOver(g, rest)
    BY <1>8, <1>9
  <1>11. SumOver(f, rest) \in Nat /\ SumOver(g, rest) \in Nat
    BY <1>8, SumIsNat
  <1>12. x \in S
    BY <1>3, <1>5
  <1> QED BY <1>3, <1>6, <1>10, <1>11, <1>12

(* A function that grows by d at one element has a sum grown by d.         *)
LEMMA SumGains ==
  ASSUME NEW f, NEW g, NEW S, NEW x \in S, NEW d \in Nat, IsFiniteSet(S),
         \A y \in S : f[y] \in Nat /\ g[y] \in Nat /\ f[y] <= g[y],
         f[x] + d <= g[x]
  PROVE  SumOver(f, S) + d <= SumOver(g, S)
  <1> DEFINE rest == S \ {x}
  <1>1. IsFiniteSet(rest) /\ rest \subseteq S
    BY FS_Subset
  <1>2. SumOver(f, S) = f[x] + SumOver(f, rest) /\ SumOver(g, S) = g[x] + SumOver(g, rest)
    <2>1. \A y \in S : f[y] \in Nat
      OBVIOUS
    <2>2. \A y \in S : g[y] \in Nat
      OBVIOUS
    <2> QED BY <2>1, <2>2, SumTakesOut
  <1> HIDE DEF rest
  <1>3. SumOver(f, rest) <= SumOver(g, rest)
    BY <1>1, SumGrows
  <1>4. SumOver(f, rest) \in Nat /\ SumOver(g, rest) \in Nat
    BY <1>1, SumIsNat
  <1> QED BY <1>2, <1>3, <1>4

(* A part of a set has a smaller sum.                                      *)
LEMMA SumOfPart ==
  ASSUME NEW f, NEW S, NEW T \in SUBSET S, IsFiniteSet(S), \A x \in S : f[x] \in Nat
  PROVE  SumOver(f, T) <= SumOver(f, S)
  <1> DEFINE Bad == {s \in SUBSET S : T \subseteq s /\ ~(SumOver(f, T) <= SumOver(f, s))}
  <1>1. SUFFICES ASSUME Bad # {} PROVE FALSE
    OBVIOUS
  <1>2. PICK s \in Bad : \A t \in Bad : Cardinality(s) <= Cardinality(t)
    <2>1. Bad \in SUBSET (SUBSET S)
      OBVIOUS
    <2> HIDE DEF Bad
    <2> QED BY <1>1, <2>1, SmallestSubset
  <1>3. IsFiniteSet(s) /\ s \in SUBSET S /\ T \subseteq s /\ ~(SumOver(f, T) <= SumOver(f, s))
    BY FS_Subset
  <1>4. IsFiniteSet(T) /\ SumOver(f, T) \in Nat /\ SumOver(f, s) \in Nat
    <2>1. IsFiniteSet(T)
      BY FS_Subset
    <2> QED BY <1>3, <2>1, SumIsNat
  <1>5. PICK x \in s : x \notin T
    <2>1. s # T
      BY <1>3, <1>4
    <2> QED BY <1>3, <2>1
  <1> DEFINE rest == s \ {x}
  <1>6. SumOver(f, s) = f[x] + SumOver(f, rest)
    BY <1>3, SumTakesOut
  <1>7. Cardinality(rest) < Cardinality(s) /\ Cardinality(rest) \in Nat /\ Cardinality(s) \in Nat
        /\ IsFiniteSet(rest)
    BY <1>3, LessOne
  <1>8. rest \in SUBSET S /\ T \subseteq rest
    BY <1>3, <1>5
  <1> HIDE DEF rest
  <1>9. rest \notin Bad
    <2> HIDE DEF Bad
    <2> QED BY <1>2, <1>7
  <1>10. SumOver(f, T) <= SumOver(f, rest)
    BY <1>8, <1>9
  <1>11. SumOver(f, rest) \in Nat /\ f[x] \in Nat
    BY <1>3, <1>7, <1>8, SumIsNat
  <1> QED BY <1>3, <1>4, <1>6, <1>10, <1>11

(* A finite set of natural numbers that is not empty has a greatest.       *)
LEMMA MaxExists ==
  ASSUME NEW S \in SUBSET Nat, IsFiniteSet(S), S # {}
  PROVE  Max(S) \in S /\ \A x \in S : x <= Max(S)
  <1> DEFINE Top(s, x) == x \in s /\ \A y \in s : x >= y
             Bad == {s \in SUBSET S : s # {} /\ ~\E x : Top(s, x)}
  <1>1. Bad = {}
    <2> SUFFICES ASSUME Bad # {} PROVE FALSE
      OBVIOUS
    <2>1. PICK s \in Bad : \A t \in Bad : Cardinality(s) <= Cardinality(t)
      <3>1. Bad \in SUBSET (SUBSET S)
        OBVIOUS
      <3> HIDE DEF Bad
      <3> QED BY <3>1, SmallestSubset
    <2>2. IsFiniteSet(s) /\ s \in SUBSET S /\ s # {} /\ ~\E x : Top(s, x)
      BY FS_Subset
    <2>3. PICK x : x \in s
      BY <2>2
    <2> DEFINE rest == s \ {x}
    <2>4. Cardinality(rest) < Cardinality(s) /\ Cardinality(rest) \in Nat
            /\ Cardinality(s) \in Nat
      BY <2>2, <2>3, LessOne
    <2>5. rest \notin Bad
      <3> HIDE DEF Bad, rest
      <3> QED BY <2>1, <2>4
    <2>6. CASE rest = {}
      <3>1. Top(s, x)
        BY <2>2, <2>3, <2>6
      <3> HIDE DEF Top
      <3> QED BY <2>2, <3>1
    <2>7. CASE rest # {}
      <3>1. PICK z : Top(rest, z)
        <4>1. rest \in SUBSET S
          BY <2>2
        <4> HIDE DEF Top, rest
        <4> QED BY <2>5, <2>7, <4>1
      <3>2. x \in Nat /\ z \in Nat /\ s \subseteq Nat
        BY <2>2, <2>3, <3>1
      <3>3. Top(s, IF x >= z THEN x ELSE z)
        BY <2>3, <3>1, <3>2
      <3> HIDE DEF Top
      <3> QED BY <2>2, <3>3
    <2> QED BY <2>6, <2>7
  <1>2. PICK x : Top(S, x)
    <2>1. S \in SUBSET S
      OBVIOUS
    <2> HIDE DEF Top
    <2> QED BY <1>1, <2>1
  <1>3. Top(S, Max(S))
    BY <1>2 DEF Max
  <1> QED BY <1>3

(* Max is what its name says.                                              *)
LEMMA MaxIs ==
  ASSUME NEW S \in SUBSET Nat, NEW x \in S, \A y \in S : y <= x
  PROVE  Max(S) = x
  <1>1. \A z \in S : (\A y \in S : z >= y) => z = x
    OBVIOUS
  <1>2. \A y \in S : x >= y
    OBVIOUS
  <1> QED BY <1>1, <1>2 DEF Max

-----------------------------------------------------------------------------
(* The order of the analysis.                                              *)

(* Groups are analysed in the order of their documents and lines.          *)
InOrder ==
    /\ \A j \in Analysed \cup batch, k \in todo : Earlier(j, k)
    /\ \A j \in Analysed, k \in batch : Identity(j) # Identity(k) => Earlier(j, k)

(* No line is forgotten.                                                   *)
Covers == mode # "PO_RECEIPT" => Lines = todo \cup batch \cup Analysed

(* largest is the largest of the lines of the open group analysed so far.  *)
Widest ==
    batch # {} =>
        /\ \A i \in Analysed : Open(i) => /\ Line(i).quantity <= largest.quantity
                                          /\ results[i].exposure <= largest.exposure
        /\ largest.quantity > 0 =>
                \E i \in Analysed : Open(i) /\ Line(i).quantity = largest.quantity
        /\ largest.exposure > 0 =>
                \E i \in Analysed : Open(i) /\ results[i].exposure = largest.exposure

(* The order of the analysis, which the claims and the charges rest on.    *)
OrderInv == book \in Books /\ InOrder /\ Covers /\ Widest

(* Earlier, key by key.                                                    *)
Sooner(a, b) ==
    \/ a.date < b.date
    \/ /\ a.date = b.date
       /\ \/ a.supplier < b.supplier
          \/ /\ a.supplier = b.supplier
             /\ \/ a.number < b.number
                \/ a.number = b.number /\ a.line < b.line

(* Earlier compares the first four keys one after another.                 *)
LEMMA EarlierIs ==
  ASSUME NEW j, NEW k
  PROVE  Earlier(j, k) <=> Sooner(Line(j), Line(k))
  <1> DEFINE a == Line(j)
             b == Line(k)
             s == SubSeq(SortKey(j), 1, 4)
             t == SubSeq(SortKey(k), 1, 4)
  <1>1. /\ DOMAIN s = 1..4
        /\ s[1] = a.date /\ s[2] = a.supplier /\ s[3] = a.number /\ s[4] = a.line
    BY DEF SortKey
  <1>2. t[1] = b.date /\ t[2] = b.supplier /\ t[3] = b.number /\ t[4] = b.line
    BY DEF SortKey
  <1>3. Earlier(j, k) <=> \E n \in DOMAIN s : s[n] < t[n] /\ \A m \in 1..n-1 : s[m] = t[m]
    BY DEF Earlier, Less
  <1> HIDE DEF s, t
  <1>4. (\E n \in 1..4 : s[n] < t[n] /\ \A m \in 1..n-1 : s[m] = t[m])
            <=> \/ s[1] < t[1]
                \/ s[1] = t[1] /\ s[2] < t[2]
                \/ s[1] = t[1] /\ s[2] = t[2] /\ s[3] < t[3]
                \/ s[1] = t[1] /\ s[2] = t[2] /\ s[3] = t[3] /\ s[4] < t[4]
    <2> DEFINE At(n) == s[n] < t[n] /\ \A m \in 1..n-1 : s[m] = t[m]
    <2>1. (\E n \in 1..4 : At(n)) <=> At(1) \/ At(2) \/ At(3) \/ At(4)
      <3>1. 1..4 = {1, 2, 3, 4}
        OBVIOUS
      <3> HIDE DEF At
      <3> QED BY <3>1
    <2>2. /\ At(1) <=> s[1] < t[1]
          /\ At(2) <=> s[1] = t[1] /\ s[2] < t[2]
          /\ At(3) <=> s[1] = t[1] /\ s[2] = t[2] /\ s[3] < t[3]
          /\ At(4) <=> s[1] = t[1] /\ s[2] = t[2] /\ s[3] = t[3] /\ s[4] < t[4]
      OBVIOUS
    <2> QED BY <2>1, <2>2
  <1> QED BY <1>1, <1>2, <1>3, <1>4 DEF Sooner

(* What comes before a line in the order of the report, and is of another  *)
(* document line, is earlier.                                              *)
LEMMA PrecedesIsEarlier ==
  ASSUME NEW j, NEW k, Precedes(j, k), Identity(j) # Identity(k)
  PROVE  Earlier(j, k)
  <1> DEFINE s == SortKey(j)
             t == SortKey(k)
  <1>1. /\ DOMAIN s = 1..10
        /\ s[1] = Line(j).date /\ s[2] = Line(j).supplier
        /\ s[3] = Line(j).number /\ s[4] = Line(j).line
    BY DEF SortKey
  <1>2. /\ t[1] = Line(k).date /\ t[2] = Line(k).supplier
        /\ t[3] = Line(k).number /\ t[4] = Line(k).line
    BY DEF SortKey
  <1>3. ~(s[2] = t[2] /\ s[3] = t[3] /\ s[4] = t[4])
    BY <1>1, <1>2 DEF Identity
  <1>4. PICK n \in DOMAIN s : s[n] < t[n] /\ \A m \in 1..n-1 : s[m] = t[m]
    <2>1. s # t
      BY <1>3
    <2> QED BY <2>1 DEF Precedes, Less
  <1> HIDE DEF s, t
  <1>5. n \in 1..4
    BY <1>1, <1>3, <1>4
  <1>6. n = 1 \/ n = 2 \/ n = 3 \/ n = 4
    BY <1>5
  <1>7. Sooner(Line(j), Line(k))
    BY <1>1, <1>2, <1>4, <1>6 DEF Sooner
  <1> QED BY <1>7, EarlierIs

(* Lines of one document line are in one place of the order.               *)
LEMMA GroupIsInPlace ==
  ASSUME TypeOK, book \in Books, NEW j \in Lines, NEW k \in Lines, Identity(j) = Identity(k)
  PROVE  /\ ~Earlier(j, k)
         /\ \A i : /\ Earlier(j, i) <=> Earlier(k, i)
                   /\ Earlier(i, j) <=> Earlier(i, k)
         /\ Line(j).currency = Line(k).currency
  <1>1. /\ Line(j).supplier = Line(k).supplier /\ Line(j).number = Line(k).number
        /\ Line(j).line = Line(k).line
    BY DEF Identity
  <1>2. Line(j).date = Line(k).date /\ Line(j).currency = Line(k).currency
    BY <1>1, BookAssumption DEF Loaded, Lines, Line
  <1>3. Line(k) \in InvoiceLine
    BY LineType
  <1>4. ~Sooner(Line(j), Line(k))
    BY <1>1, <1>2, <1>3 DEF Sooner, InvoiceLine
  <1>5. \A i : /\ Sooner(Line(j), Line(i)) <=> Sooner(Line(k), Line(i))
               /\ Sooner(Line(i), Line(j)) <=> Sooner(Line(i), Line(k))
    BY <1>1, <1>2 DEF Sooner
  <1> QED BY <1>2, <1>4, <1>5, EarlierIs

(* Of two lines one at most is earlier.                                    *)
LEMMA EarlierOnce ==
  ASSUME TypeOK, NEW j \in Lines, NEW k \in Lines, Earlier(j, k)
  PROVE  ~Earlier(k, j)
  <1>1. Line(j) \in InvoiceLine /\ Line(k) \in InvoiceLine
    BY LineType
  <1> QED BY <1>1, EarlierIs DEF Sooner, InvoiceLine

-----------------------------------------------------------------------------
LEMMA InitOrder == Init => OrderInv
  BY DEF Init, OrderInv, InOrder, Covers, Widest, Analysed

(* What the order is of does not change.                                   *)
LEMMA OrderIsFixed ==
  ASSUME book' = book, mode' = mode
  PROVE  \A j, k : Earlier(j, k)' = Earlier(j, k)
  BY BookIsFixed DEF Earlier, Less, SortKey, Line

(* Counting receipts happens before the first group.                       *)
LEMMA CountOrder == IInv /\ OrderInv /\ CountReceipt => OrderInv'
  <1> SUFFICES ASSUME IInv, OrderInv, CountReceipt PROVE OrderInv'
    OBVIOUS
  <1>1. /\ book' = book /\ mode' = mode /\ todo' = todo /\ batch' = batch
        /\ largest' = largest /\ results' = results /\ Analysed' = Analysed
    BY DEF CountReceipt, Analysed
  <1>2. /\ Lines' = Lines
        /\ \A k : Line(k)' = Line(k) /\ Identity(k)' = Identity(k)
        /\ \A j, k : Earlier(j, k)' = Earlier(j, k)
    BY <1>1, BookIsFixed, OrderIsFixed
  <1>3. \A k : Open(k)' = Open(k)
    BY <1>1, <1>2 DEF Open
  <1> QED BY <1>1, <1>2, <1>3 DEF OrderInv, InOrder, Covers, Widest

(* The group begun is the first of those to do.                            *)
LEMMA NextGroupOrder == IInv /\ OrderInv /\ NextGroup => OrderInv'
  <1> SUFFICES ASSUME IInv, OrderInv, NextGroup PROVE OrderInv'
    OBVIOUS
  <1>1. PICK k \in First(todo) : batch' = Group(k) /\ todo' = todo \ Group(k)
    BY DEF NextGroup
  <1>2. /\ book' = book /\ mode' = mode /\ results' = results /\ Analysed' = Analysed
        /\ batch = {} /\ largest' = [quantity |-> 0, exposure |-> 0]
    BY DEF NextGroup, Analysed
  <1>3. TypeOK /\ k \in todo /\ k \in Lines /\ Group(k) \subseteq todo /\ Analysed \subseteq Lines
        /\ todo \subseteq Lines
    BY DEF First, IInv, Apart, TypeOK, Analysed
  <1>4. /\ Lines' = Lines
        /\ \A j : Line(j)' = Line(j) /\ Identity(j)' = Identity(j)
        /\ \A i, j : Earlier(i, j)' = Earlier(i, j)
    BY <1>2, BookIsFixed, OrderIsFixed
  <1>5. \A j \in Group(k) : j \in Lines /\ Identity(j) = Identity(k)
    BY DEF Group
  <1>6. InOrder'
    <2>1. ASSUME NEW j \in Analysed, NEW i \in todo PROVE Earlier(j, i)
      BY DEF OrderInv, InOrder
    <2>2. ASSUME NEW j \in Group(k), NEW i \in todo \ Group(k) PROVE Earlier(j, i)
      <3>1. Identity(i) # Identity(k) /\ i \in Lines
        BY <1>3 DEF Group
      <3>2. Precedes(k, i)
        BY <1>3, <3>1 DEF First
      <3>3. Earlier(k, i)
        BY <3>1, <3>2, PrecedesIsEarlier
      <3> QED BY <1>3, <1>5, <3>3, GroupIsInPlace DEF OrderInv
    <2> QED BY <1>1, <1>2, <1>3, <1>4, <2>1, <2>2 DEF InOrder
  <1>7. Covers'
    BY <1>1, <1>2, <1>3, <1>4 DEF OrderInv, Covers
  <1>8. \A j \in Analysed : ~Open(j)'
    <2>1. ASSUME NEW j \in Analysed, Open(j)' PROVE FALSE
      <3>1. PICK i \in Group(k) : Identity(i) = Identity(j)
        BY <1>1, <1>4, <2>1 DEF Open
      <3>2. j \in Group(k)
        BY <1>3, <3>1 DEF Group
      <3> QED BY <3>2, <1>3 DEF IInv, Apart
    <2> QED BY <2>1
  <1>9. Widest'
    BY <1>2, <1>8 DEF Widest
  <1> QED BY <1>2, <1>6, <1>7, <1>9 DEF OrderInv

(* The line analysed is the first of its group.                            *)
LEMMA AnalyseOrder == ASSUME IInv, OrderInv, NEW k \in Lines, Analyse(k) PROVE OrderInv'
  <1> DEFINE r == ResultOf(k)
             w == Widen(k, r)
  <1>1. /\ TypeOK /\ k \in batch /\ k \notin Analysed /\ Analysed \subseteq Lines
        /\ batch \subseteq Lines /\ todo \subseteq Lines
        /\ \A i, j \in batch : Identity(i) = Identity(j)
    BY AnalyseFacts DEF IInv, Apart, TypeOK, Analysed
  <1>2. /\ book' = book /\ mode' = mode /\ todo' = todo /\ batch' = batch \ {k}
        /\ Analysed' = Analysed \cup {k} /\ results'[k] = r
        /\ \A j \in Analysed : results'[j] = results[j]
        /\ largest' = w /\ mode # "PO_RECEIPT"
    BY AnalyseFacts
  <1>3. /\ Lines' = Lines
        /\ \A j : Line(j)' = Line(j) /\ Identity(j)' = Identity(j)
        /\ \A i, j : Earlier(i, j)' = Earlier(i, j)
    BY <1>2, BookIsFixed, OrderIsFixed
  <1>4. InOrder'
    BY <1>1, <1>2, <1>3 DEF OrderInv, InOrder
  <1>5. Covers'
    BY <1>1, <1>2, <1>3 DEF OrderInv, Covers
  <1>6. Widest'
    <2> SUFFICES ASSUME batch' # {} PROVE Widest'
      BY DEF Widest
    <2>1. \A j : Open(j)' <=> Open(j)
      BY <1>1, <1>2, <1>3 DEF Open
    <2>2. Open(k)
      BY <1>1 DEF Open
    <2>3. /\ r.exposure \in Nat /\ Line(k).quantity \in Nat
          /\ largest.quantity \in Nat /\ largest.exposure \in Nat
      <3>1. r \in Result
        BY <1>1, <1>2, ResultFacts
      <3> HIDE DEF r
      <3> QED BY <1>1, <3>1, LineType DEF Result, TypeOK
    <2>4. \A i \in Analysed : Line(i).quantity \in Nat /\ results[i].exposure \in Nat
      BY <1>1, LineType DEF TypeOK, Analysed, Result
    <2>5. /\ w.quantity = Larger(largest.quantity, Line(k).quantity)
          /\ w.exposure = Larger(largest.exposure, r.exposure)
      BY DEF Widen
    <2> HIDE DEF r, w
    <2>6. /\ w.quantity \in Nat /\ largest.quantity <= w.quantity /\ Line(k).quantity <= w.quantity
          /\ w.quantity = largest.quantity \/ w.quantity = Line(k).quantity
          /\ w.exposure \in Nat /\ largest.exposure <= w.exposure /\ r.exposure <= w.exposure
          /\ w.exposure = largest.exposure \/ w.exposure = r.exposure
      BY <2>3, <2>5 DEF Larger
    <2>7. /\ \A i \in Analysed : Open(i) => /\ Line(i).quantity <= largest.quantity
                                            /\ results[i].exposure <= largest.exposure
          /\ largest.quantity > 0 =>
                \E i \in Analysed : Open(i) /\ Line(i).quantity = largest.quantity
          /\ largest.exposure > 0 =>
                \E i \in Analysed : Open(i) /\ results[i].exposure = largest.exposure
      BY <1>1 DEF OrderInv, Widest
    <2>8. ASSUME NEW i \in Analysed', Open(i)
          PROVE  Line(i).quantity <= w.quantity /\ results'[i].exposure <= w.exposure
      <3>1. CASE i = k
        BY <1>2, <2>6, <3>1
      <3>2. CASE i # k
        <4>1. i \in Analysed /\ results'[i] = results[i]
          BY <1>2, <3>2
        <4> QED BY <4>1, <2>3, <2>4, <2>6, <2>7, <2>8
      <3> QED BY <3>1, <3>2
    <2>9. w.quantity > 0 => \E i \in Analysed' : Open(i) /\ Line(i).quantity = w.quantity
      <3>1. CASE w.quantity = Line(k).quantity
        BY <1>2, <2>2, <3>1
      <3>2. CASE w.quantity = largest.quantity
        BY <1>2, <2>7, <3>2
      <3> QED BY <2>6, <3>1, <3>2
    <2>10. w.exposure > 0 => \E i \in Analysed' : Open(i) /\ results'[i].exposure = w.exposure
      <3>1. CASE w.exposure = r.exposure
        BY <1>2, <2>2, <3>1
      <3>2. CASE w.exposure = largest.exposure
        <4> SUFFICES ASSUME w.exposure > 0
                     PROVE  \E i \in Analysed' : Open(i) /\ results'[i].exposure = w.exposure
          OBVIOUS
        <4>1. PICK i \in Analysed : Open(i) /\ results[i].exposure = largest.exposure
          BY <2>7, <3>2
        <4> QED BY <4>1, <1>2, <3>2
      <3> QED BY <2>6, <3>1, <3>2
    <2> QED BY <1>2, <1>3, <2>1, <2>8, <2>9, <2>10 DEF Widest
  <1> QED BY <1>2, <1>4, <1>5, <1>6 DEF OrderInv

(* Every step keeps the order.                                             *)
LEMMA OrderStep == IInv /\ OrderInv /\ [Next]_vars => OrderInv'
  <1>1. ASSUME IInv, OrderInv, UNCHANGED vars PROVE OrderInv'
    <2>1. /\ book' = book /\ mode' = mode /\ todo' = todo /\ batch' = batch
          /\ largest' = largest /\ results' = results /\ Analysed' = Analysed
      BY <1>1 DEF vars, Analysed
    <2>2. /\ Lines' = Lines
          /\ \A k : Line(k)' = Line(k) /\ Identity(k)' = Identity(k)
          /\ \A j, k : Earlier(j, k)' = Earlier(j, k)
      BY <2>1, BookIsFixed, OrderIsFixed
    <2>3. \A k : Open(k)' = Open(k)
      BY <2>1, <2>2 DEF Open
    <2> QED BY <1>1, <2>1, <2>2, <2>3 DEF OrderInv, InOrder, Covers, Widest
  <1> QED BY <1>1, CountOrder, NextGroupOrder, AnalyseOrder DEF Next

-----------------------------------------------------------------------------
(* What was invoiced before.                                               *)

(* What a group claims, as a function.                                     *)
ClaimOf == [G \in SUBSET Lines |-> Claim(G)]

(* The analysed lines of closed groups that claim a slot.                  *)
Claimants(s) == {i \in Analysed : ~Open(i) /\ Slot(i) = s /\ Claims(i)}

(* The groups of some lines.                                               *)
Groups(S) == {Group(i) : i \in S}

(* Of each slot the closed groups took what they claim.                    *)
ClaimsAddUp == \A s \in Slots : consumed[s] = SumOver(ClaimOf, Groups(Claimants(s)))

(* The lines whose claims come before a line.                              *)
Before(k) == {i \in Lines : Slot(i) = Slot(k) /\ Earlier(i, k) /\ Claims(i)}

(* The previous quantity of a line is what the earlier lines claim.        *)
PreviousAddsUp ==
    \A k \in Analysed :
        results[k].previous = IF KnowsOrders /\ ~Resolves(k) THEN 0
                              ELSE SumOver(ClaimOf, Groups(Before(k)))

(* A group is a finite set of lines and claims a quantity.                 *)
LEMMA GroupType ==
  ASSUME TypeOK, NEW k \in Lines
  PROVE  /\ Group(k) \in SUBSET Lines /\ k \in Group(k) /\ IsFiniteSet(Group(k))
         /\ IsFiniteSet(Lines)
         /\ ClaimOf[Group(k)] = Claim(Group(k)) /\ ClaimOf[Group(k)] \in Nat
         /\ \A i \in Group(k) : Line(i).quantity <= Claim(Group(k))
         /\ \E i \in Group(k) : Line(i).quantity = Claim(Group(k))
  <1>1. Group(k) \in SUBSET Lines /\ k \in Group(k)
    BY DEF Group
  <1>2. IsFiniteSet(Lines)
    <2>1. book.invoices \in Seq(InvoiceLine)
      BY DEF TypeOK, Book
    <2>2. Lines = 1..Len(book.invoices) /\ Len(book.invoices) \in Nat
      BY <2>1 DEF Lines
    <2> QED BY <2>2, FS_Interval
  <1>3. IsFiniteSet(Group(k))
    BY <1>1, <1>2, FS_Subset
  <1> DEFINE S == {Line(i).quantity : i \in Group(k)}
  <1>4. S \in SUBSET Nat /\ S # {}
    BY <1>1, LineType
  <1>5. IsFiniteSet(S)
    <2> DEFINE f == [i \in Group(k) |-> Line(i).quantity]
    <2>1. f \in Surjection(Group(k), S)
      BY DEF Surjection
    <2> HIDE DEF f, S
    <2> QED BY <1>3, <2>1, FS_Surjection
  <1>6. Claim(Group(k)) = Max(S)
    BY DEF Claim
  <1>7. Max(S) \in S /\ \A x \in S : x <= Max(S)
    <2> HIDE DEF S
    <2> QED BY <1>4, <1>5, MaxExists
  <1>8. ClaimOf[Group(k)] = Claim(Group(k))
    BY <1>1 DEF ClaimOf
  <1> QED BY <1>1, <1>2, <1>3, <1>4, <1>6, <1>7, <1>8

(* The groups of some lines are finitely many.                             *)
LEMMA GroupsType ==
  ASSUME TypeOK, NEW S \in SUBSET Lines
  PROVE  IsFiniteSet(Groups(S)) /\ \A G \in Groups(S) : ClaimOf[G] \in Nat
  <1>1. IsFiniteSet(S)
    <2>1. book.invoices \in Seq(InvoiceLine)
      BY DEF TypeOK, Book
    <2>2. Lines = 1..Len(book.invoices) /\ Len(book.invoices) \in Nat
      BY <2>1 DEF Lines
    <2>3. IsFiniteSet(Lines)
      BY <2>2, FS_Interval
    <2> QED BY <2>3, FS_Subset
  <1>2. IsFiniteSet(Groups(S))
    <2> DEFINE f == [i \in S |-> Group(i)]
    <2>1. f \in Surjection(S, Groups(S))
      BY DEF Surjection, Groups
    <2> HIDE DEF f
    <2> QED BY <1>1, <2>1, FS_Surjection
  <1>3. ASSUME NEW G \in Groups(S) PROVE ClaimOf[G] \in Nat
    <2>1. PICK k \in S : G = Group(k)
      BY DEF Groups
    <2> QED BY <2>1, GroupType
  <1> QED BY <1>2, <1>3

(* The open group is what is left of it and what was analysed of it.       *)
LEMMA OpenGroup ==
  ASSUME IInv, OrderInv, NEW k \in batch, mode # "PO_RECEIPT"
  PROVE  Group(k) = batch \cup {i \in Analysed : Open(i)}
  <1>1. /\ TypeOK /\ batch \subseteq Lines /\ Analysed \subseteq Lines /\ todo \subseteq Lines
        /\ Lines = todo \cup batch \cup Analysed
        /\ todo \cap batch = {} /\ \A j \in todo : Group(j) \subseteq todo
        /\ \A i, j \in batch : Identity(i) = Identity(j)
    BY DEF IInv, TypeOK, Apart, Analysed, OrderInv, Covers
  <1>2. ASSUME NEW i \in Group(k) PROVE i \in batch \/ (i \in Analysed /\ Open(i))
    <2>1. i \in Lines /\ Identity(i) = Identity(k) /\ k \in Group(i)
      BY <1>1 DEF Group
    <2>2. i \notin todo
      BY <1>1, <2>1
    <2>3. Open(i)
      BY <2>1 DEF Open
    <2> QED BY <1>1, <2>1, <2>2, <2>3
  <1>3. ASSUME NEW i \in Analysed, Open(i) PROVE i \in Group(k)
    BY <1>1, <1>3 DEF Open, Group
  <1>4. batch \subseteq Group(k)
    BY <1>1 DEF Group
  <1> QED BY <1>2, <1>3, <1>4

(* When a line is analysed, the closed groups that claim its slot are      *)
(* those of the earlier lines that do.                                     *)
LEMMA ClaimantsAreBefore ==
  ASSUME IInv, OrderInv, NEW k \in batch, mode # "PO_RECEIPT"
  PROVE  Claimants(Slot(k)) = Before(k)
  <1>1. /\ TypeOK /\ batch \subseteq Lines /\ Analysed \subseteq Lines /\ todo \subseteq Lines
        /\ Lines = todo \cup batch \cup Analysed /\ k \in Lines /\ book \in Books
        /\ \A i, j \in batch : Identity(i) = Identity(j)
    BY DEF IInv, TypeOK, Apart, Analysed, OrderInv, Covers
  <1>2. ASSUME NEW i \in Lines, Earlier(i, k) PROVE i \in Analysed /\ ~Open(i)
    <2>1. ~Earlier(k, i)
      BY <1>1, <1>2, EarlierOnce
    <2>2. i \notin todo
      BY <2>1 DEF OrderInv, InOrder
    <2>3. Identity(i) # Identity(k)
      BY <1>1, <1>2, GroupIsInPlace
    <2>4. i \notin batch /\ ~Open(i)
      BY <1>1, <2>3 DEF Open
    <2> QED BY <1>1, <2>2, <2>4
  <1>3. ASSUME NEW i \in Analysed, ~Open(i) PROVE Earlier(i, k)
    <2>1. Identity(i) # Identity(k)
      BY <1>3 DEF Open
    <2> QED BY <2>1 DEF OrderInv, InOrder
  <1> QED BY <1>1, <1>2, <1>3 DEF Claimants, Before

(* What the closing line makes of the largest quantity is the claim.       *)
LEMMA WidestIsClaim ==
  ASSUME IInv, OrderInv, NEW k \in Lines, Analyse(k), batch = {k}
  PROVE  Widen(k, ResultOf(k)).quantity = Claim(Group(k))
  <1> DEFINE q == Widen(k, ResultOf(k)).quantity
             S == {Line(i).quantity : i \in Group(k)}
  <1>1. TypeOK /\ k \in batch /\ mode # "PO_RECEIPT"
    BY AnalyseFacts DEF IInv
  <1>2. Group(k) = {k} \cup {i \in Analysed : Open(i)} /\ Analysed \subseteq Lines
    BY <1>1, OpenGroup DEF TypeOK, Analysed
  <1>3. q = Larger(largest.quantity, Line(k).quantity)
    BY DEF Widen
  <1>4. largest.quantity \in Nat /\ \A i \in Group(k) : Line(i).quantity \in Nat
    BY <1>1, LineType DEF TypeOK, Group
  <1>5. S \in SUBSET Nat /\ k \in Group(k) /\ Line(k).quantity \in Nat \ {0}
    BY <1>1, <1>2, <1>4, LineType
  <1>6. /\ \A i \in Analysed : Open(i) => Line(i).quantity <= largest.quantity
        /\ largest.quantity > 0 =>
                \E i \in Analysed : Open(i) /\ Line(i).quantity = largest.quantity
    BY DEF OrderInv, Widest
  <1> HIDE DEF q
  <1>7. \A i \in Group(k) : Line(i).quantity <= q
    <2> TAKE i \in Group(k)
    <2>1. i = k \/ Line(i).quantity <= largest.quantity
      BY <1>2, <1>6
    <2>2. Line(i).quantity \in Nat
      BY <1>4
    <2> QED BY <1>3, <1>4, <1>5, <2>1, <2>2 DEF Larger
  <1>8. \E i \in Group(k) : Line(i).quantity = q
    <2>1. CASE q = Line(k).quantity
      BY <1>5, <2>1
    <2>2. CASE q # Line(k).quantity
      <3>1. q = largest.quantity /\ largest.quantity > 0
        BY <1>3, <1>4, <1>5, <2>2 DEF Larger
      <3>2. PICK i \in Analysed : Open(i) /\ Line(i).quantity = largest.quantity
        BY <1>6, <3>1
      <3> QED BY <1>2, <3>1, <3>2
    <2> QED BY <2>1, <2>2
  <1>9. q \in S /\ \A y \in S : y <= q
    BY <1>7, <1>8
  <1>10. Claim(Group(k)) = Max(S)
    BY DEF Claim
  <1> HIDE DEF S
  <1>11. Max(S) = q
    BY <1>5, <1>9, MaxIs
  <1> QED BY <1>10, <1>11 DEF q

(* Before the first line nothing is claimed.                               *)
LEMMA InitClaims == Init => ClaimsAddUp /\ PreviousAddsUp
  <1> SUFFICES ASSUME Init PROVE ClaimsAddUp /\ PreviousAddsUp
    OBVIOUS
  <1>1. Analysed = {}
    BY DEF Init, Analysed
  <1>2. \A s : Groups(Claimants(s)) = {}
    BY <1>1 DEF Claimants, Groups
  <1>3. \A s \in Slots : consumed[s] = 0
    BY DEF Init
  <1> QED BY <1>1, <1>2, <1>3, SumOfNone DEF ClaimsAddUp, PreviousAddsUp

(* What a group claims depends on the files only.                          *)
LEMMA ClaimIsFixed ==
  ASSUME book' = book, mode' = mode
  PROVE  ClaimOf' = ClaimOf /\ \A S : Groups(S)' = Groups(S)
  <1>1. Lines' = Lines /\ \A k : Line(k)' = Line(k) /\ Group(k)' = Group(k)
    BY BookIsFixed
  <1>2. \A G : Claim(G)' = Claim(G)
    <2> TAKE G
    <2>1. {Line(k)'.quantity : k \in G} = {Line(k).quantity : k \in G}
      BY <1>1
    <2> QED BY <2>1 DEF Claim
  <1> QED BY <1>1, <1>2 DEF ClaimOf, Groups

(* A step that analyses nothing and changes no total.                      *)
LEMMA QuietClaims ==
  ASSUME ClaimsAddUp, PreviousAddsUp, book' = book, mode' = mode, totals' = totals,
         consumed' = consumed, results' = results, \A j \in Analysed : Open(j)' <=> Open(j)
  PROVE  (ClaimsAddUp /\ PreviousAddsUp)'
  <1>1. /\ Slots' = Slots /\ Lines' = Lines /\ Analysed' = Analysed
        /\ KnowsOrders' = KnowsOrders /\ ClaimOf' = ClaimOf /\ \A S : Groups(S)' = Groups(S)
        /\ \A k : Slot(k)' = Slot(k) /\ Resolves(k)' = Resolves(k) /\ Claims(k)' = Claims(k)
        /\ \A i, k : Earlier(i, k)' = Earlier(i, k)
    BY BookIsFixed, CapacityIsFixed, OrderIsFixed, ClaimIsFixed DEF Analysed
  <1>2. \A s : Claimants(s)' = Claimants(s)
    BY <1>1 DEF Claimants
  <1>3. \A k : Before(k)' = Before(k)
    BY <1>1 DEF Before
  <1>4. \A s : Groups(Claimants(s))' = Groups(Claimants(s))
    BY <1>1, <1>2 DEF Groups
  <1>5. \A k : Groups(Before(k))' = Groups(Before(k))
    BY <1>1, <1>3 DEF Groups
  <1>6. ClaimsAddUp'
    BY <1>1, <1>4 DEF ClaimsAddUp
  <1>7. PreviousAddsUp'
    BY <1>1, <1>5 DEF PreviousAddsUp
  <1> QED BY <1>6, <1>7

(* Counting receipts happens before the first claim.                       *)
LEMMA CountClaims ==
  IInv /\ ClaimsAddUp /\ PreviousAddsUp /\ CountReceipt => (ClaimsAddUp /\ PreviousAddsUp)'
  <1> SUFFICES ASSUME IInv, ClaimsAddUp, CountReceipt PROVE (ClaimsAddUp /\ PreviousAddsUp)'
    OBVIOUS
  <1>1. /\ book' = book /\ mode' = mode /\ consumed' = consumed
        /\ results' = results /\ Analysed' = Analysed
    BY DEF CountReceipt, Analysed
  <1>2. Analysed = {}
    <2>1. ~ReceiptsCounted
      BY DEF CountReceipt, ReceiptsCounted, IInv, TypeOK, Book
    <2> QED BY <2>1 DEF IInv, Underway
  <1>3. \A s : Groups(Claimants(s)) = {} /\ Groups(Claimants(s))' = {}
    BY <1>1, <1>2 DEF Claimants, Groups
  <1>4. Slots' = Slots
    BY <1>1, BookIsFixed
  <1> QED BY <1>1, <1>2, <1>3, <1>4, SumOfNone DEF ClaimsAddUp, PreviousAddsUp

(* No closed group is opened again.                                        *)
LEMMA NothingReopens ==
  ASSUME IInv, NextGroup, NEW j \in Analysed
  PROVE  ~Open(j) /\ ~Open(j)'
  <1>1. PICK k \in First(todo) : batch' = Group(k)
    BY DEF NextGroup
  <1>2. batch = {} /\ book' = book /\ mode' = mode
    BY DEF NextGroup
  <1>3. Group(k) \subseteq todo /\ todo \cap Analysed = {} /\ Analysed \subseteq Lines
    BY DEF First, IInv, Apart, TypeOK, Analysed
  <1>4. ~Open(j)
    BY <1>2 DEF Open
  <1>5. ASSUME Open(j)' PROVE FALSE
    <2>1. PICK i \in Group(k) : Identity(i) = Identity(j)
      BY <1>1, <1>2, <1>5, BookIsFixed DEF Open
    <2>2. j \in Group(k)
      BY <1>3, <2>1 DEF Group
    <2> QED BY <2>2, <1>3
  <1> QED BY <1>4, <1>5

(* Beginning a group claims nothing.                                       *)
LEMMA NextGroupClaims ==
  IInv /\ ClaimsAddUp /\ PreviousAddsUp /\ NextGroup => (ClaimsAddUp /\ PreviousAddsUp)'
  <1> SUFFICES ASSUME IInv, ClaimsAddUp, PreviousAddsUp, NextGroup
               PROVE  (ClaimsAddUp /\ PreviousAddsUp)'
    OBVIOUS
  <1>1. /\ book' = book /\ mode' = mode /\ totals' = totals /\ consumed' = consumed
        /\ results' = results
    BY DEF NextGroup
  <1>2. \A j \in Analysed : Open(j)' <=> Open(j)
    BY NothingReopens
  <1> QED BY <1>1, <1>2, QuietClaims

(* Who is open after a line is analysed: nobody when it closes its group,  *)
(* else its group.                                                         *)
LEMMA AnalyseOpen ==
  ASSUME IInv, NEW k \in Lines, Analyse(k)
  PROVE  /\ batch = {k} => \A j : ~Open(j)'
         /\ batch # {k} => \A j : Open(j)' <=> Open(j)
         /\ \A j : Open(j) <=> Identity(j) = Identity(k)
  <1>1. /\ k \in batch /\ batch' = batch \ {k} /\ \A i, j \in batch : Identity(i) = Identity(j)
        /\ \A j : Identity(j)' = Identity(j)
    BY AnalyseFacts, BookIsFixed DEF IInv, Apart
  <1>2. \A j : Open(j) <=> Identity(j) = Identity(k)
    BY <1>1 DEF Open
  <1>3. CASE batch = {k}
    BY <1>1, <1>2, <1>3 DEF Open
  <1>4. CASE batch # {k}
    <2>1. PICK i \in batch' : TRUE
      BY <1>1, <1>4
    <2>2. \A j : Open(j)' <=> Identity(j) = Identity(k)
      BY <1>1, <2>1 DEF Open
    <2> QED BY <1>2, <1>4, <2>2
  <1> QED BY <1>2, <1>3, <1>4

(* Closing a group adds what it claims.                                    *)
LEMMA AnalyseClaims ==
  ASSUME IInv, OrderInv, ClaimsAddUp, NEW k \in Lines, Analyse(k)
  PROVE  ClaimsAddUp'
  <1> DEFINE G == Group(k)
             q == Widen(k, ResultOf(k)).quantity
  <1>1. /\ TypeOK /\ k \in batch /\ mode # "PO_RECEIPT" /\ Analysed \subseteq Lines
        /\ Analysed' = Analysed \cup {k}
    BY AnalyseFacts DEF IInv, TypeOK, Analysed
  <1>2. /\ Slots' = Slots /\ ClaimOf' = ClaimOf /\ \A S : Groups(S)' = Groups(S)
        /\ \A j : Slot(j)' = Slot(j) /\ Claims(j)' = Claims(j)
    BY AnalyseFacts, BookIsFixed, CapacityIsFixed, ClaimIsFixed
  <1>3. consumed' = IF batch = {k} /\ Claims(k)
                    THEN [consumed EXCEPT ![Slot(k)] = @ + q] ELSE consumed
    BY AnalyseFacts
  <1>4. consumed \in [Slots -> Nat] /\ Slot(k) \in Slots
    BY <1>1, LineType DEF TypeOK
  <1>5. \A j \in Analysed \cup {k} : j \in Lines
    BY <1>1
  <1> SUFFICES ASSUME NEW s \in Slots
               PROVE  consumed'[s] = SumOver(ClaimOf, Groups(Claimants(s)'))
    <2>1. \A s : Groups(Claimants(s))' = Groups(Claimants(s)')
      BY <1>2 DEF Groups
    <2> QED BY <1>2, <2>1 DEF ClaimsAddUp
  <1>6. consumed[s] = SumOver(ClaimOf, Groups(Claimants(s)))
    BY DEF ClaimsAddUp
  <1>7. Claimants(s)' = {i \in Analysed \cup {k} : ~Open(i)' /\ Slot(i) = s /\ Claims(i)}
    BY <1>1, <1>2 DEF Claimants
  <1>8. CASE batch # {k}
    <2>1. Claimants(s)' = Claimants(s)
      <3>1. Open(k) /\ \A j : Open(j)' <=> Open(j)
        BY <1>8, AnalyseOpen
      <3> QED BY <1>7, <3>1 DEF Claimants
    <2> QED BY <1>3, <1>6, <1>8, <2>1
  <1>9. CASE batch = {k}
    <2>1. G = {k} \cup {i \in Analysed : Open(i)} /\ \A i \in G : Identity(i) = Identity(k)
      BY <1>1, <1>9, OpenGroup DEF Group
    <2>2. Claimants(s)' = Claimants(s) \cup {i \in G : Slot(i) = s /\ Claims(i)}
      <3>1. \A j : ~Open(j)'
        BY <1>9, AnalyseOpen
      <3> HIDE DEF G
      <3> QED BY <1>7, <2>1, <3>1 DEF Claimants
    <2>3. CASE Claims(k) /\ Slot(k) = s
      <3>1. \A i \in G : Slot(i) = s /\ Claims(i)
        <4> TAKE i \in G
        <4>1. i \in Lines /\ Identity(k) = Identity(i)
          BY <2>1 DEF Group
        <4> QED BY <2>3, <4>1, GroupsClaimTogether
      <3>2. Claimants(s)' = Claimants(s) \cup G
        BY <2>2, <3>1
      <3>3. \A i \in G : Group(i) = G
        BY <2>1 DEF Group
      <3>4. k \in G
        BY <2>1
      <3>5. Groups(Claimants(s)') = Groups(Claimants(s)) \cup {G}
        <4> HIDE DEF G
        <4> QED BY <3>2, <3>3, <3>4 DEF Groups
      <3>6. G \notin Groups(Claimants(s))
        <4> SUFFICES ASSUME NEW i \in Claimants(s), Group(i) = G PROVE FALSE
          BY DEF Groups
        <4>1. i \in Lines /\ ~Open(i)
          BY <1>5 DEF Claimants
        <4>2. i \in Group(i)
          BY <4>1 DEF Group
        <4>3. Identity(i) = Identity(k)
          BY <2>1, <4>2
        <4> QED BY <4>1, <4>3, AnalyseOpen
      <3>7. ClaimOf[G] = q
        <4>1. Claim(G) = q
          BY <1>9, WidestIsClaim
        <4> QED BY <1>1, <4>1, GroupType
      <3>8. SumOver(ClaimOf, Groups(Claimants(s)) \cup {G}) = consumed[s] + ClaimOf[G]
        <4> DEFINE H == Groups(Claimants(s))
        <4>1. IsFiniteSet(H) /\ \A y \in H : ClaimOf[y] \in Nat
          <5>1. Claimants(s) \in SUBSET Lines
            BY <1>5 DEF Claimants
          <5> QED BY <1>1, <5>1, GroupsType
        <4>2. ClaimOf[G] \in Nat
          BY <1>1, GroupType
        <4>3. \A y \in H \cup {G} : ClaimOf[y] \in Nat
          <5> HIDE DEF G, H
          <5> QED BY <4>1, <4>2
        <4> HIDE DEF G, H
        <4>4. SumOver(ClaimOf, H \cup {G}) = SumOver(ClaimOf, H) + ClaimOf[G]
          BY <3>6, <4>1, <4>3, SumAdds DEF H
        <4> QED BY <1>6, <4>4 DEF H
      <3>9. consumed'[s] = consumed[s] + q
        <4> HIDE DEF q
        <4> QED BY <1>3, <1>4, <1>9, <2>3
      <3> HIDE DEF G, q
      <3> QED BY <3>5, <3>7, <3>8, <3>9
    <2>4. CASE ~(Claims(k) /\ Slot(k) = s)
      <3>1. ASSUME NEW i \in G, Slot(i) = s, Claims(i) PROVE FALSE
        <4>1. i \in Lines /\ Identity(i) = Identity(k)
          BY <2>1 DEF Group
        <4>2. Claims(k) /\ Slot(i) = Slot(k)
          BY <3>1, <4>1, GroupsClaimTogether
        <4> QED BY <2>4, <3>1, <4>2
      <3>2. Claimants(s)' = Claimants(s)
        <4> HIDE DEF G
        <4> QED BY <2>2, <3>1
      <3>3. consumed'[s] = consumed[s]
        <4> HIDE DEF q
        <4> QED BY <1>3, <1>4, <2>4
      <3> QED BY <1>6, <3>2, <3>3
    <2> QED BY <2>3, <2>4
  <1> QED BY <1>8, <1>9

(* The line analysed finds what the earlier lines claim.                   *)
LEMMA AnalysePrevious ==
  ASSUME IInv, OrderInv, ClaimsAddUp, PreviousAddsUp, NEW k \in Lines, Analyse(k)
  PROVE  PreviousAddsUp'
  <1>1. /\ TypeOK /\ k \in batch /\ mode # "PO_RECEIPT"
        /\ Analysed' = Analysed \cup {k} /\ results'[k] = ResultOf(k)
        /\ \A j \in Analysed : results'[j] = results[j]
    BY AnalyseFacts DEF IInv
  <1>2. /\ Lines' = Lines /\ ClaimOf' = ClaimOf /\ KnowsOrders' = KnowsOrders
        /\ \A S : Groups(S)' = Groups(S)
        /\ \A j : Slot(j)' = Slot(j) /\ Claims(j)' = Claims(j) /\ Resolves(j)' = Resolves(j)
        /\ \A i, j : Earlier(i, j)' = Earlier(i, j)
    BY AnalyseFacts, BookIsFixed, CapacityIsFixed, ClaimIsFixed, OrderIsFixed
  <1>3. \A j : Before(j)' = Before(j)
    BY <1>2 DEF Before
  <1>4. \A j : Groups(Before(j))' = Groups(Before(j))
    BY <1>2, <1>3 DEF Groups
  <1>5. ResultOf(k).previous = IF KnowsOrders /\ ~Resolves(k) THEN 0
                               ELSE SumOver(ClaimOf, Groups(Before(k)))
    <2>1. consumed[Slot(k)] = SumOver(ClaimOf, Groups(Before(k)))
      <3>1. Claimants(Slot(k)) = Before(k)
        BY <1>1, ClaimantsAreBefore
      <3>2. Slot(k) \in Slots
        BY <1>1, LineType
      <3> QED BY <3>1, <3>2 DEF ClaimsAddUp
    <2>2. ResultOf(k).previous = IF KnowsOrders /\ ~Resolves(k) THEN 0 ELSE consumed[Slot(k)]
      BY DEF ResultOf
    <2> QED BY <2>1, <2>2
  <1> QED BY <1>1, <1>2, <1>4, <1>5 DEF PreviousAddsUp

(* What the previous quantities rest on.                                   *)
ClaimInv == OrderInv /\ ClaimsAddUp /\ PreviousAddsUp

(* Every step keeps the claims.                                            *)
LEMMA ClaimStep == IInv /\ ClaimInv /\ [Next]_vars => ClaimInv'
  <1>1. ASSUME ClaimInv, UNCHANGED vars PROVE (ClaimsAddUp /\ PreviousAddsUp)'
    <2>1. /\ book' = book /\ mode' = mode /\ totals' = totals /\ consumed' = consumed
          /\ results' = results /\ batch' = batch
      BY <1>1 DEF vars
    <2>2. \A j : Open(j)' <=> Open(j)
      BY <2>1, BookIsFixed DEF Open
    <2> QED BY <1>1, <2>1, <2>2, QuietClaims DEF ClaimInv
  <1>2. IInv /\ ClaimInv /\ [Next]_vars => OrderInv'
    BY OrderStep DEF ClaimInv
  <1>3. IInv /\ ClaimInv /\ [Next]_vars => (ClaimsAddUp /\ PreviousAddsUp)'
    BY <1>1, CountClaims, NextGroupClaims, AnalyseClaims, AnalysePrevious DEF Next, ClaimInv
  <1> QED BY <1>2, <1>3 DEF ClaimInv

(* The sum the property names is the sum of the function.                  *)
LEMMA ClaimSum ==
  ASSUME NEW S, NEW f, IsFiniteSet(S), \A G \in S : f[G] = Claim(G)
  PROVE  MapThenSumSet(Claim, S) = SumOver(f, S)
  <1> DEFINE Is(g) == g = [s \in SUBSET S |->
                              IF s = {} THEN 0
                              ELSE Claim(CHOOSE x \in s : TRUE)
                                     + g[s \ {CHOOSE x \in s : TRUE}]]
  <1>1. ASSUME NEW g PROVE Is(g) <=> SumsUp(g, f, SUBSET S)
    <2>1. ASSUME NEW s \in SUBSET S, s # {} PROVE f[AnyOf(s)] = Claim(AnyOf(s))
      BY <2>1, AnyIsIn
    <2> QED BY <2>1 DEF SumsUp, AnyOf
  <1> DEFINE t == CHOOSE g : Is(g)
             u == CHOOSE g : SumsUp(g, f, SUBSET S)
  <1>2. SumsUp(u, f, SUBSET S)
    BY SumExists
  <1>3. Is(t)
    <2>1. Is(u)
      BY <1>1, <1>2
    <2> HIDE DEF u
    <2> QED BY <2>1
  <1>4. MapThenSumSet(Claim, S) = t[S]
    BY Zenon DEF MapThenSumSet, MapThenFoldSet
  <1>5. SumOver(f, S) = u[S]
    BY DEF SumOver
  <1>6. SumsUp(t, f, SUBSET S)
    BY <1>1, <1>3
  <1> HIDE DEF t, u, Is
  <1>7. S \in SUBSET S
    OBVIOUS
  <1> QED BY <1>2, <1>4, <1>5, <1>6, <1>7, SumsAgree

(* What was invoiced before a line is what the documents earlier in the    *)
(* order take, whatever the order of the lines in the file.                *)
THEOREM PreviousIsTheEarlier == Spec => []PreviousIsEarlierClaims
  <1>1. Init => ClaimInv
    BY InitOrder, InitClaims DEF ClaimInv
  <1>2. IInv /\ ClaimInv => PreviousIsEarlierClaims
    <2> SUFFICES ASSUME IInv, ClaimInv, NEW k \in Analysed
                 PROVE  ClaimedBefore(k) = SumOver(ClaimOf, Groups(Before(k)))
      BY DEF PreviousIsEarlierClaims, ClaimInv, PreviousAddsUp, Analysed
    <2> DEFINE H == Groups(Before(k))
    <2>1. Before(k) \in SUBSET Lines /\ TypeOK
      BY DEF Before, IInv
    <2>2. IsFiniteSet(H)
      BY <2>1, GroupsType
    <2>3. \A G \in H : ClaimOf[G] = Claim(G)
      BY <2>1, GroupType DEF Groups
    <2>4. ClaimedBefore(k) = MapThenSumSet(Claim, H)
      BY DEF ClaimedBefore, Groups, Before
    <2> HIDE DEF H
    <2>5. MapThenSumSet(Claim, H) = SumOver(ClaimOf, H)
      BY <2>2, <2>3, ClaimSum
    <2> QED BY <2>4, <2>5 DEF H
  <1> QED BY <1>1, <1>2, ClaimStep, AnalysisInvariant, PTL DEF Spec

-----------------------------------------------------------------------------
(* Amounts.                                                                *)

(* A product grows with a factor.                                          *)
LEMMA ProductGrows ==
  ASSUME NEW c \in Nat, NEW a \in Nat, NEW b \in Nat, a <= b
  PROVE  c * a <= c * b
  <1>1. PICK d \in Nat : b = a + d
    <2>1. b - a \in Nat /\ b = a + (b - a)
      OBVIOUS
    <2> QED BY <2>1
  <1>2. c * b = c * a + c * d
    BY <1>1
  <1>3. c * d \in Nat /\ c * a \in Nat
    BY ProductIsNat
  <1> QED BY <1>2, <1>3

(* A product of a sum is more than the product and the rest.               *)
LEMMA ProductGains ==
  ASSUME NEW c \in Nat, NEW a \in Nat, NEW b \in Nat, NEW d \in Nat, a + d <= b
  PROVE  c * a + c * d <= c * b
  <1>1. a + d \in Nat /\ c * (a + d) = c * a + c * d
    OBVIOUS
  <1>2. c * (a + d) <= c * b
    BY <1>1, ProductGrows
  <1> QED BY <1>1, <1>2

(* What the quotient is.                                                   *)
LEMMA QuotientIs ==
  ASSUME NEW a \in Nat, NEW d \in Nat \ {0}
  PROVE  a \div d \in Nat /\ d * (a \div d) <= a /\ a < d * (a \div d) + d
  BY SMT

(* Rounding changes an amount by half of the smallest money.               *)
LEMMA RoundIsNear ==
  ASSUME NEW x \in Nat
  PROVE  /\ 2 * x <= 2 * Scale * Round(x) + Scale
         /\ 2 * Scale * Round(x) <= 2 * x + Scale
  <1> DEFINE a == 2 * x + Scale
             d == 2 * Scale
  <1>1. a \in Nat /\ d \in Nat \ {0} /\ Scale \in Nat \ {0}
    BY PolicyAssumption
  <1>2. Round(x) = a \div d
    BY DEF Round
  <1>3. d * (a \div d) <= a /\ a < d * (a \div d) + d /\ a \div d \in Nat
    <2> HIDE DEF a, d
    <2> QED BY <1>1, QuotientIs
  <1> DEFINE m == d * Round(x)
  <1>4. m \in Nat /\ m <= a /\ a < m + d
    <2> HIDE DEF a, d
    <2> QED BY <1>1, <1>2, <1>3, ProductIsNat DEF m
  <1>5. m = 2 * Scale * Round(x)
    OBVIOUS
  <1> HIDE DEF m
  <1>6. 2 * x <= m + Scale /\ m <= 2 * x + Scale
    BY <1>1, <1>4
  <1> QED BY <1>5, <1>6

(* Rounding keeps the order of amounts.                                    *)
LEMMA RoundGrows ==
  ASSUME NEW x \in Nat, NEW y \in Nat, x <= y
  PROVE  Round(x) <= Round(y)
  <1> DEFINE a == 2 * x + Scale
             b == 2 * y + Scale
             d == 2 * Scale
  <1>1. a \in Nat /\ b \in Nat /\ d \in Nat \ {0} /\ a <= b
    BY PolicyAssumption
  <1>2. Round(x) = a \div d /\ Round(y) = b \div d
    BY DEF Round
  <1> HIDE DEF a, b, d
  <1> DEFINE m == a \div d
             n == b \div d
  <1>3. m \in Nat /\ n \in Nat /\ d * m <= a /\ b < d * n + d
    BY <1>1, QuotientIs
  <1> HIDE DEF m, n
  <1>4. SUFFICES ASSUME n < m PROVE FALSE
    BY <1>2, <1>3 DEF m, n
  <1>5. d * (n + 1) <= d * m
    BY <1>1, <1>3, <1>4, ProductGrows
  <1>6. d * (n + 1) = d * n + d
    BY <1>1, <1>3
  <1>7. d * n \in Nat /\ d * m \in Nat
    BY <1>1, <1>3, ProductIsNat
  <1> QED BY <1>1, <1>3, <1>5, <1>6, <1>7

-----------------------------------------------------------------------------
(* The exposure of a line.                                                 *)

(* What a line asks for.                                                   *)
Amount(k) == Line(k).quantity * Line(k).price

(* No line is exposed by more than it asks for, a duplicate by all of it.  *)
ExposureFits ==
    \A i \in Analysed :
        /\ results[i].exposure <= Round(Amount(i))
        /\ KnowsOrders /\ Duplicate(i) => results[i].exposure = Round(Amount(i))

(* No line is exposed by more than its amount, a duplicate by all of it.   *)
LEMMA ExposureIs ==
  ASSUME TypeOK, NEW k \in Lines, mode # "PO_RECEIPT"
  PROVE  LET r == ResultOf(k) IN
         /\ Amount(k) \in Nat /\ Round(Amount(k)) \in Nat
         /\ r.exposure <= Round(Amount(k))
         /\ KnowsOrders /\ Duplicate(k) => r.exposure = Round(Amount(k))
  <1> DEFINE p == IF KnowsOrders /\ ~Resolves(k) THEN 0 ELSE consumed[Slot(k)]
             s == Supported(k, p)
             q == Line(k).quantity
             c == Line(k).price
             issues == Issues(k, p)
  <1>1. /\ KnowsOrders => ResultOf(k).exposure = Disputed(k, s, issues)
        /\ ~KnowsOrders => ResultOf(k).exposure = Unsupported(k, s)
    BY DEF ResultOf
  <1>2. p \in Nat /\ q \in Nat /\ c \in Nat
    BY LineType
  <1> HIDE DEF p
  <1>3. s \in Nat /\ s <= q
    BY <1>2, SupportType
  <1>4. Amount(k) = q * c /\ Amount(k) \in Nat /\ Round(Amount(k)) \in Nat
    <2>1. Amount(k) = q * c
      BY DEF Amount
    <2> HIDE DEF q, c
    <2> QED BY <1>2, <2>1, ProductIsNat, RoundIsNat
  <1> HIDE DEF s
  <1>5. ASSUME KnowsOrders
        PROVE  /\ Disputed(k, s, issues) <= Round(Amount(k))
               /\ Duplicate(k) => Disputed(k, s, issues) = Round(Amount(k))
    <2>1. CASE issues = {}
      <3>1. ~Duplicate(k)
        BY <2>1 DEF Issues
      <3> QED BY <1>4, <2>1, <3>1 DEF Disputed
    <2>2. CASE issues # {} /\ issues \cap FullExposureIssues # {}
      <3>1. Disputed(k, s, issues) = Round(Amount(k))
        BY <2>2 DEF Disputed, Amount
      <3> QED BY <1>4, <3>1
    <2>3. CASE issues # {} /\ issues \cap FullExposureIssues = {}
      <3>1. ~Duplicate(k)
        BY <2>3 DEF Issues, FullExposureIssues
      <3>2. Resolves(k)
        <4> SUFFICES ASSUME ~Resolves(k) PROVE FALSE
          OBVIOUS
        <4>1. ReferenceIssues(Line(k)) # {} /\ ReferenceIssues(Line(k)) \subseteq FullExposureIssues
          BY DEF Resolves, ReferenceIssues, FullExposureIssues
        <4>2. ReferenceIssues(Line(k)) \subseteq issues
          BY <1>5 DEF Issues, OrderIssues
        <4> QED BY <4>1, <4>2, <2>3
      <3> DEFINE accepted == IF "PRICE_MISMATCH" \in issues THEN OrderOf(Line(k)).price ELSE c
                 granted == s * accepted
      <3>3. accepted \in Nat
        BY <3>2, <1>2, OrderType
      <3>4. granted \in Nat
        <4> HIDE DEF accepted
        <4> QED BY <3>3, <1>3, ProductIsNat
      <3>5. Disputed(k, s, issues) = Round(Larger(Amount(k) - granted, 0))
        BY <2>3 DEF Disputed, Amount
      <3> HIDE DEF granted
      <3>6. Larger(Amount(k) - granted, 0) \in Nat /\ Larger(Amount(k) - granted, 0) <= Amount(k)
        BY <1>4, <3>4 DEF Larger
      <3> QED BY <1>4, <3>1, <3>5, <3>6, RoundGrows
    <2> QED BY <2>1, <2>2, <2>3
  <1>6. Unsupported(k, s) <= Round(Amount(k))
    <2> DEFINE u == IF Duplicate(k) THEN q ELSE q - s
    <2>1. u \in Nat /\ u <= q
      BY <1>2, <1>3
    <2>2. Unsupported(k, s) = Round(u * c)
      BY DEF Unsupported
    <2> HIDE DEF u, q, c
    <2>3. c * u \in Nat /\ c * u <= c * q /\ c * u = u * c /\ c * q = q * c
      BY <1>2, <2>1, ProductIsNat, ProductGrows
    <2> QED BY <1>4, <2>2, <2>3, RoundGrows
  <1> QED BY <1>1, <1>4, <1>5, <1>6

(* The groups of a currency that are closed.                               *)
ClosedIn(c) == {j \in Analysed : ~Open(j) /\ Line(j).currency = c}
LinesIn(c) == {j \in Lines : Line(j).currency = c}

(* What the documents ask for of a group, rounded and scaled, as functions.*)
ValueOf == [G \in SUBSET Lines |-> Max({Round(Line(k).quantity * Line(k).price) : k \in G})]
InvoicedOf == [G \in SUBSET Lines |-> Invoiced(G)]

(* The amounts of a group are finitely many natural numbers.               *)
LEMMA AmountsType ==
  ASSUME TypeOK, NEW k \in Lines
  PROVE  /\ ValueOf[Group(k)] \in Nat
         /\ \A i \in Group(k) : /\ Amount(i) \in Nat /\ Round(Amount(i)) \in Nat
                                /\ Round(Amount(i)) <= ValueOf[Group(k)]
         /\ \E m \in Group(k) : /\ InvoicedOf[Group(k)] = 2 * ToleranceDown * Amount(m)
                                /\ \A i \in Group(k) : Amount(i) <= Amount(m)
         /\ InvoicedOf[Group(k)] \in Nat
  <1> DEFINE G == Group(k)
             R == {Round(Line(i).quantity * Line(i).price) : i \in G}
             A == {Line(i).quantity * Line(i).price : i \in G}
  <1>1. G \in SUBSET Lines /\ k \in G /\ IsFiniteSet(G)
    BY GroupType
  <1>2. \A i \in G : Amount(i) \in Nat /\ Round(Amount(i)) \in Nat
    <2> TAKE i \in G
    <2>1. Line(i).quantity \in Nat /\ Line(i).price \in Nat
      BY <1>1, LineType
    <2>2. Amount(i) \in Nat
      BY <2>1, ProductIsNat DEF Amount
    <2> QED BY <2>2, RoundIsNat
  <1>3. R = {Round(Amount(i)) : i \in G} /\ A = {Amount(i) : i \in G}
    BY DEF Amount
  <1>4. ValueOf[G] = Max(R) /\ InvoicedOf[G] = 2 * ToleranceDown * Max(A)
    BY <1>1 DEF ValueOf, InvoicedOf, Invoiced
  <1> HIDE DEF R, A, G
  <1>5. R \in SUBSET Nat /\ R # {} /\ A \in SUBSET Nat /\ A # {}
    BY <1>1, <1>2, <1>3
  <1>6. IsFiniteSet(R)
    <2> DEFINE f == [i \in G |-> Round(Amount(i))]
    <2>1. f \in Surjection(G, R)
      BY <1>3 DEF Surjection
    <2> HIDE DEF f
    <2> QED BY <1>1, <2>1, FS_Surjection
  <1>7. IsFiniteSet(A)
    <2> DEFINE f == [i \in G |-> Amount(i)]
    <2>1. f \in Surjection(G, A)
      BY <1>3 DEF Surjection
    <2> HIDE DEF f
    <2> QED BY <1>1, <2>1, FS_Surjection
  <1>8. /\ Max(R) \in R /\ \A x \in R : x <= Max(R)
        /\ Max(A) \in A /\ \A x \in A : x <= Max(A)
    BY <1>5, <1>6, <1>7, MaxExists
  <1>9. PICK m \in G : Amount(m) = Max(A)
    BY <1>3, <1>8
  <1>10. 2 * ToleranceDown * Max(A) \in Nat
    <2>1. Max(A) \in Nat
      BY <1>5, <1>8
    <2>2. 2 * ToleranceDown \in Nat
      BY PolicyAssumption
    <2> QED BY <2>1, <2>2, ProductIsNat
  <1>11. /\ ValueOf[G] \in Nat
         /\ \A i \in G : Round(Amount(i)) <= ValueOf[G]
    BY <1>3, <1>4, <1>5, <1>8
  <1>12. InvoicedOf[G] = 2 * ToleranceDown * Amount(m) /\ \A i \in G : Amount(i) <= Amount(m)
    BY <1>3, <1>4, <1>8, <1>9
  <1>13. InvoicedOf[G] \in Nat
    BY <1>4, <1>10
  <1> QED BY <1>2, <1>11, <1>12, <1>13 DEF G

(* The closing line charges no more than the group is worth, and no less   *)
(* than any line of it is exposed by.                                      *)
LEMMA ChargeIs ==
  ASSUME IInv, OrderInv, ExposureFits, NEW k \in Lines, Analyse(k), batch = {k}
  PROVE  LET e == Charged(k, Widen(k, ResultOf(k)))
         IN  /\ e \in Nat /\ e <= ValueOf[Group(k)]
             /\ ResultOf(k).exposure \in Nat /\ ResultOf(k).exposure <= e
             /\ KnowsOrders => \A i \in Group(k) : Duplicate(i) => Round(Amount(i)) <= e
  <1> DEFINE r == ResultOf(k)
             e == Charged(k, Widen(k, r))
             G == Group(k)
  <1>1. TypeOK /\ k \in batch /\ mode # "PO_RECEIPT" /\ Analysed \subseteq Lines
    BY AnalyseFacts DEF IInv, TypeOK, Analysed
  <1>2. G = {k} \cup {i \in Analysed : Open(i)}
    BY <1>1, OpenGroup
  <1>3. /\ r.exposure \in Nat /\ r.exposure <= Round(Amount(k))
        /\ KnowsOrders /\ Duplicate(k) => r.exposure = Round(Amount(k))
    <2>1. r \in Result
      BY <1>1, ResultFacts
    <2> QED BY <1>1, <2>1, ExposureIs DEF Result
  <1>4. e = Larger(largest.exposure, r.exposure) /\ largest.exposure \in Nat
    BY <1>1 DEF Charged, Widen, TypeOK
  <1>5. /\ \A i \in Analysed : Open(i) => results[i].exposure <= largest.exposure
        /\ largest.exposure > 0 =>
                \E i \in Analysed : Open(i) /\ results[i].exposure = largest.exposure
    BY DEF OrderInv, Widest
  <1>6. \A i \in Analysed : /\ results[i].exposure \in Nat
                            /\ results[i].exposure <= Round(Amount(i))
                            /\ KnowsOrders /\ Duplicate(i) => results[i].exposure = Round(Amount(i))
    BY <1>1 DEF ExposureFits, TypeOK, Analysed, Result
  <1>7. /\ ValueOf[G] \in Nat
        /\ \A i \in G : Round(Amount(i)) \in Nat /\ Round(Amount(i)) <= ValueOf[G]
    BY <1>1, AmountsType
  <1> HIDE DEF r, e, G
  <1>8. e \in Nat /\ r.exposure <= e /\ largest.exposure <= e
    BY <1>3, <1>4 DEF Larger
  <1>9. e <= ValueOf[G]
    <2>1. r.exposure <= ValueOf[G]
      BY <1>2, <1>3, <1>7
    <2>2. largest.exposure <= ValueOf[G]
      <3>1. CASE largest.exposure = 0
        BY <1>7, <3>1
      <3>2. CASE largest.exposure # 0
        <4>1. PICK i \in Analysed : Open(i) /\ results[i].exposure = largest.exposure
          BY <1>4, <1>5, <3>2
        <4>2. i \in G
          BY <1>2, <4>1
        <4> QED BY <4>1, <4>2, <1>6, <1>7
      <3> QED BY <3>1, <3>2
    <2> QED BY <1>4, <2>1, <2>2 DEF Larger
  <1>10. ASSUME KnowsOrders, NEW i \in G, Duplicate(i) PROVE Round(Amount(i)) <= e
    <2>1. CASE i = k
      BY <1>3, <1>8, <1>10, <2>1
    <2>2. CASE i # k
      <3>1. i \in Analysed /\ Open(i)
        BY <1>2, <2>2
      <3>2. results[i].exposure = Round(Amount(i)) /\ results[i].exposure <= largest.exposure
        BY <1>5, <1>6, <1>10, <3>1
      <3> QED BY <1>4, <1>6, <1>8, <3>1, <3>2
    <2> QED BY <2>1, <2>2
  <1> QED BY <1>3, <1>8, <1>9, <1>10 DEF r, e, G

(* The lines of the group that is closed are of one currency, and closing  *)
(* it adds one group to that currency and none to another.                 *)
LEMMA ClosedGrow ==
  ASSUME IInv, OrderInv, NEW k \in Lines, Analyse(k), NEW c
  PROVE  /\ batch = {k} /\ Line(k).currency = c =>
                /\ Groups(ClosedIn(c)') = Groups(ClosedIn(c)) \cup {Group(k)}
                /\ Group(k) \notin Groups(ClosedIn(c))
         /\ ~(batch = {k} /\ Line(k).currency = c) => ClosedIn(c)' = ClosedIn(c)
  <1> DEFINE G == Group(k)
  <1>1. /\ TypeOK /\ k \in batch /\ mode # "PO_RECEIPT" /\ Analysed \subseteq Lines
        /\ Analysed' = Analysed \cup {k} /\ book \in Books
    BY AnalyseFacts DEF IInv, TypeOK, Analysed, OrderInv
  <1>2. \A j : Line(j)' = Line(j)
    BY AnalyseFacts, BookIsFixed
  <1>3. ClosedIn(c)' = {j \in Analysed \cup {k} : ~Open(j)' /\ Line(j).currency = c}
    BY <1>1, <1>2 DEF ClosedIn
  <1>4. CASE batch # {k}
    <2>1. Open(k) /\ \A j : Open(j)' <=> Open(j)
      BY <1>4, AnalyseOpen
    <2>2. ClosedIn(c)' = ClosedIn(c)
      BY <1>3, <2>1 DEF ClosedIn
    <2> QED BY <1>4, <2>2
  <1>5. CASE batch = {k}
    <2>1. G = {k} \cup {i \in Analysed : Open(i)}
      BY <1>1, <1>5, OpenGroup
    <2>2. \A i \in G : /\ Identity(i) = Identity(k) /\ i \in Lines
                       /\ Line(i).currency = Line(k).currency /\ Group(i) = G
      <3> TAKE i \in G
      <3>1. i \in Lines /\ Identity(i) = Identity(k)
        BY DEF Group
      <3> QED BY <1>1, <3>1, GroupIsInPlace DEF Group
    <2>3. ClosedIn(c)' = ClosedIn(c) \cup {i \in G : Line(i).currency = c}
      <3>1. \A j : ~Open(j)'
        BY <1>5, AnalyseOpen
      <3> HIDE DEF G
      <3> QED BY <1>3, <2>1, <3>1 DEF ClosedIn
    <2>4. CASE Line(k).currency = c
      <3>1. ClosedIn(c)' = ClosedIn(c) \cup G
        <4> HIDE DEF G
        <4> QED BY <2>2, <2>3, <2>4
      <3>2. Groups(ClosedIn(c)') = Groups(ClosedIn(c)) \cup {G}
        <4>1. k \in G
          BY <2>1
        <4> HIDE DEF G
        <4> QED BY <2>2, <3>1, <4>1 DEF Groups
      <3>3. G \notin Groups(ClosedIn(c))
        <4> SUFFICES ASSUME NEW i \in ClosedIn(c), Group(i) = G PROVE FALSE
          BY DEF Groups
        <4>1. i \in Lines /\ ~Open(i)
          BY <1>1 DEF ClosedIn
        <4>2. i \in Group(i)
          BY <4>1 DEF Group
        <4>3. Identity(i) = Identity(k)
          BY <2>2, <4>2
        <4> QED BY <4>1, <4>3, AnalyseOpen
      <3> QED BY <1>5, <2>4, <3>2, <3>3
    <2>5. CASE Line(k).currency # c
      <3>1. ClosedIn(c)' = ClosedIn(c)
        <4> HIDE DEF G
        <4> QED BY <2>2, <2>3, <2>5
      <3> QED BY <2>5, <3>1
    <2> QED BY <2>4, <2>5
  <1> QED BY <1>4, <1>5

(* The closed groups of a currency are finitely many, with amounts.        *)
LEMMA ClosedType ==
  ASSUME TypeOK, NEW c
  PROVE  /\ ClosedIn(c) \in SUBSET Lines /\ IsFiniteSet(Groups(ClosedIn(c)))
         /\ Cardinality(Groups(ClosedIn(c))) \in Nat
         /\ \A G \in Groups(ClosedIn(c)) : ValueOf[G] \in Nat /\ InvoicedOf[G] \in Nat
  <1>1. ClosedIn(c) \in SUBSET Lines
    BY DEF TypeOK, Analysed, ClosedIn
  <1>2. IsFiniteSet(Groups(ClosedIn(c)))
    BY <1>1, GroupsType
  <1>3. Cardinality(Groups(ClosedIn(c))) \in Nat
    BY <1>2, FS_CardinalityType
  <1>4. ASSUME NEW G \in Groups(ClosedIn(c)) PROVE ValueOf[G] \in Nat /\ InvoicedOf[G] \in Nat
    <2>1. PICK k \in Lines : G = Group(k)
      BY <1>1 DEF Groups
    <2> QED BY <2>1, AmountsType
  <1> QED BY <1>1, <1>2, <1>3, <1>4

-----------------------------------------------------------------------------
(* What is charged, and what it leaves undisputed.                         *)

(* The summary charges no more than the closed groups are worth.           *)
Charges == \A c \in Currencies : exposures[c] <= SumOver(ValueOf, Groups(ClosedIn(c)))

(* What may be invoiced for an order line, and what was.                   *)
CapacityOf(o) == IF mode = "THREE_WAY" THEN Smaller(o.quantity, Received(o)) ELSE o.quantity
SlotOf(o) == [po |-> o.po, line |-> o.line, item |-> 0]
Taken(o) == IF SlotOf(o) \in Slots THEN consumed[SlotOf(o)] ELSE 0
Agreed(o) == 2 * o.price * (ToleranceDown + ToleranceUp)
CoveredOf == [o \in book.orders |-> Agreed(o) * Smaller(CapacityOf(o), Taken(o))]
OrdersIn(c) == {o \in book.orders : o.currency = c}

(* The scale of the amounts that are compared, and half of it.             *)
Unit == 2 * Scale * ToleranceDown
Half == Scale * ToleranceDown

(* What the closed groups ask for is charged, or covered by what they took *)
(* of the orders, but for the rounding.                                    *)
Balance ==
    KnowsOrders =>
        \A c \in Currencies :
            SumOver(InvoicedOf, Groups(ClosedIn(c)))
                <= Unit * exposures[c] + SumOver(CoveredOf, OrdersIn(c))
                     + Half * Cardinality(Groups(ClosedIn(c)))

(* The scales are natural numbers that fit one another.                    *)
UnitType == /\ Unit \in Nat /\ Half \in Nat /\ 2 * ToleranceDown \in Nat
            /\ ToleranceDown + ToleranceUp \in Nat
            /\ \A x \in Nat : 2 * ToleranceDown * (Scale * x) = Unit * x
            /\ 2 * ToleranceDown * Scale = 2 * Half

LEMMA UnitIs == UnitType
  <1>1. Scale \in Nat /\ ToleranceDown \in Nat /\ ToleranceUp \in Nat
    BY PolicyAssumption
  <1>2. Half \in Nat /\ Unit \in Nat
    <2>1. 2 * Scale \in Nat
      BY <1>1
    <2> QED BY <1>1, <2>1, ProductIsNat DEF Half, Unit
  <1>3. \A x \in Nat : 2 * ToleranceDown * (Scale * x) = Unit * x
    BY <1>1 DEF Unit
  <1>4. 2 * ToleranceDown * Scale = 2 * Half
    BY <1>1 DEF Half
  <1> QED BY <1>1, <1>2, <1>3, <1>4 DEF UnitType

(* An amount that is rounded and charged is covered by the charge.         *)
LEMMA ChargeCovers ==
  ASSUME NEW x \in Nat, NEW y \in Nat, NEW e \in Nat, Round(x) <= e
  PROVE  /\ 2 * ToleranceDown * x <= Unit * e + Half
         /\ \A z \in Nat : z <= x + y => 2 * ToleranceDown * z <=
                                Unit * e + Half + 2 * ToleranceDown * y
  <1> DEFINE T == ToleranceDown
             r == Scale * Round(x)
             f == Scale * e
  <1>1. /\ Scale \in Nat /\ T \in Nat /\ Round(x) \in Nat
        /\ Unit \in Nat /\ Half \in Nat /\ T * Scale = Half /\ T * (2 * (Scale * e)) = Unit * e
    <2>1. Scale \in Nat /\ T \in Nat
      BY PolicyAssumption
    <2>2. T * (2 * (Scale * e)) = 2 * Scale * T * e /\ T * Scale = Scale * T
      BY <2>1
    <2> QED BY <2>1, <2>2, RoundIsNat, UnitIs DEF UnitType, Unit, Half
  <1>2. r \in Nat /\ f \in Nat /\ r <= f /\ 2 * x <= 2 * r + Scale
    <2>1. 2 * x <= 2 * Scale * Round(x) + Scale
      BY RoundIsNear
    <2>2. 2 * Scale * Round(x) = 2 * (Scale * Round(x))
      BY <1>1
    <2> QED BY <1>1, <2>1, <2>2, ProductIsNat, ProductGrows
  <1>3. T * (2 * f) = Unit * e
    BY <1>1
  <1> HIDE DEF r, f
  <1>4. 2 * x <= 2 * f + Scale
    BY <1>1, <1>2
  <1>5. \A z \in Nat : z <= x + y => 2 * T * z <= Unit * e + Half + 2 * T * y
    <2> SUFFICES ASSUME NEW z \in Nat, z <= x + y
                 PROVE  2 * T * z <= Unit * e + Half + 2 * T * y
      OBVIOUS
    <2>1. 2 * z \in Nat /\ 2 * f + Scale + 2 * y \in Nat /\ 2 * z <= 2 * f + Scale + 2 * y
      BY <1>1, <1>2, <1>4
    <2>2. T * (2 * z) <= T * (2 * f + Scale + 2 * y)
      <3> HIDE DEF T
      <3> QED BY <1>1, <2>1, ProductGrows
    <2>3. T * (2 * f + Scale + 2 * y) = T * (2 * f) + T * Scale + T * (2 * y)
      <3> HIDE DEF T
      <3> QED BY <1>1, <1>2
    <2>4. T * (2 * z) = 2 * T * z /\ T * (2 * y) = 2 * T * y
      <3> HIDE DEF T
      <3> QED BY <1>1
    <2> QED BY <1>1, <1>3, <2>2, <2>3, <2>4
  <1>6. 2 * T * x <= Unit * e + Half
    <2>1. T * (2 * x) <= T * (2 * f + Scale)
      <3>1. 2 * x \in Nat /\ 2 * f + Scale \in Nat
        BY <1>1, <1>2
      <3> HIDE DEF T
      <3> QED BY <1>1, <1>4, <3>1, ProductGrows
    <2>2. T * (2 * f + Scale) = T * (2 * f) + T * Scale /\ T * (2 * x) = 2 * T * x
      <3> HIDE DEF T
      <3> QED BY <1>1, <1>2
    <2> QED BY <1>1, <1>3, <2>1, <2>2
  <1> QED BY <1>5, <1>6

(* A price that fits is at most the agreed price and its tolerance.        *)
LEMMA FittingPrice ==
  ASSUME NEW p \in Nat, NEW agreed \in Nat, PriceFits(p, agreed) \/ p = agreed
  PROVE  ToleranceDown * p <= (ToleranceDown + ToleranceUp) * agreed
  <1> DEFINE D == ToleranceDown
             U == ToleranceUp
  <1>1. D \in Nat /\ U \in Nat
    BY PolicyAssumption
  <1>2. /\ (D + U) * agreed = D * agreed + agreed * U
        /\ D * p \in Nat /\ D * agreed \in Nat /\ agreed * U \in Nat
    <2> HIDE DEF D, U
    <2>1. (D + U) * agreed = D * agreed + agreed * U
      BY <1>1
    <2> QED BY <1>1, <2>1, ProductIsNat
  <1>3. CASE p <= agreed
    <2>1. D * p <= D * agreed
      <3> HIDE DEF D
      <3> QED BY <1>1, <1>3, ProductGrows
    <2> HIDE DEF D, U
    <2> QED BY <1>2, <2>1 DEF D, U
  <1>4. CASE agreed < p
    <2>1. (p - agreed) * D <= agreed * U
      BY <1>4 DEF PriceFits, Distance
    <2> HIDE DEF D, U
    <2>2. (p - agreed) * D = D * p - D * agreed
      BY <1>1
    <2>3. D * p <= (D + U) * agreed
      BY <1>2, <2>1, <2>2
    <2> QED BY <2>3 DEF D, U
  <1> QED BY <1>3, <1>4

(* What is covered of an order is a natural number.                        *)
LEMMA CoveredType ==
  ASSUME TypeOK, NEW o \in book.orders
  PROVE  /\ o.price \in Nat /\ o.quantity \in Nat \ {0} /\ Agreed(o) \in Nat
         /\ CapacityOf(o) \in Nat /\ Taken(o) \in Nat
         /\ Smaller(CapacityOf(o), Taken(o)) \in Nat
         /\ CoveredOf[o] = Agreed(o) * Smaller(CapacityOf(o), Taken(o)) /\ CoveredOf[o] \in Nat
  <1>1. o.price \in Nat /\ o.quantity \in Nat \ {0}
    BY DEF TypeOK, Book, OrderLine
  <1>2. Agreed(o) \in Nat
    <2>1. 2 * o.price \in Nat
      BY <1>1
    <2> QED BY <2>1, UnitIs, ProductIsNat DEF Agreed, UnitType
  <1>3. Taken(o) \in Nat /\ Received(o) \in Nat
    BY DEF Taken, Received, TypeOK
  <1>4. CapacityOf(o) \in Nat
    BY <1>1, <1>3 DEF CapacityOf, Smaller
  <1>5. Smaller(CapacityOf(o), Taken(o)) \in Nat
    BY <1>3, <1>4 DEF Smaller
  <1>6. CoveredOf[o] = Agreed(o) * Smaller(CapacityOf(o), Taken(o))
    BY DEF CoveredOf
  <1> QED BY <1>1, <1>2, <1>3, <1>4, <1>5, <1>6, ProductIsNat

(* What an analysis step takes of an order.                                *)
LEMMA AnalyseTaken ==
  ASSUME IInv, NEW k \in Lines, Analyse(k)
  PROVE  /\ CoveredOf' = [o \in book.orders |-> Agreed(o) * Smaller(CapacityOf(o), Taken(o)')]
         /\ \A o \in book.orders : Taken(o)' \in Nat /\ Taken(o) <= Taken(o)'
         /\ batch # {k} => CoveredOf' = CoveredOf
         /\ \A o \in book.orders : batch = {k} /\ Claims(k) /\ SlotOf(o) = Slot(k) =>
                Taken(o)' = Taken(o) + Widen(k, ResultOf(k)).quantity
  <1> DEFINE q == Widen(k, ResultOf(k)).quantity
  <1>1. TypeOK /\ book' = book /\ mode' = mode /\ totals' = totals /\ Slots' = Slots
    BY AnalyseFacts, BookIsFixed DEF IInv
  <1>2. /\ \A o : CapacityOf(o)' = CapacityOf(o)
        /\ CoveredOf' = [o \in book.orders |-> Agreed(o) * Smaller(CapacityOf(o), Taken(o)')]
    <2>1. \A o : CapacityOf(o)' = CapacityOf(o)
      BY <1>1 DEF CapacityOf, Received
    <2> QED BY <1>1, <2>1 DEF CoveredOf, Agreed
  <1>3. /\ consumed' = IF batch = {k} /\ Claims(k)
                       THEN [consumed EXCEPT ![Slot(k)] = @ + q] ELSE consumed
        /\ consumed \in [Slots -> Nat] /\ Slot(k) \in Slots
    BY <1>1, AnalyseFacts, LineType DEF TypeOK
  <1>4. q \in Nat
    <2>1. mode # "PO_RECEIPT"
      BY AnalyseFacts
    <2>2. ResultOf(k) \in Result
      BY <1>1, <2>1, ResultFacts
    <2> QED BY <1>1, <2>2, WidenType
  <1> HIDE DEF q
  <1>5. \A s \in Slots : consumed'[s] \in Nat /\ consumed[s] <= consumed'[s]
    BY <1>3, <1>4
  <1>6. \A o \in book.orders : Taken(o)' \in Nat /\ Taken(o) <= Taken(o)'
    BY <1>1, <1>5 DEF Taken
  <1>7. batch # {k} => CoveredOf' = CoveredOf
    <2>1. batch # {k} => \A o : Taken(o)' = Taken(o)
      BY <1>1, <1>3 DEF Taken
    <2> QED BY <1>2, <2>1 DEF CoveredOf
  <1>8. \A o \in book.orders : batch = {k} /\ Claims(k) /\ SlotOf(o) = Slot(k) =>
                Taken(o)' = Taken(o) + q
    BY <1>1, <1>3 DEF Taken
  <1> QED BY <1>2, <1>6, <1>7, <1>8 DEF q

(* An analysis step never covers less of an order.                         *)
LEMMA CoveredGrows ==
  ASSUME IInv, NEW k \in Lines, Analyse(k), NEW o \in book.orders
  PROVE  /\ CoveredOf[o] \in Nat /\ CoveredOf'[o] \in Nat /\ CoveredOf[o] <= CoveredOf'[o]
         /\ CoveredOf'[o] = Agreed(o) * Smaller(CapacityOf(o), Taken(o)')
  <1>1. TypeOK
    BY DEF IInv
  <1>2. CoveredOf'[o] = Agreed(o) * Smaller(CapacityOf(o), Taken(o)')
    BY AnalyseTaken
  <1> DEFINE a == Smaller(CapacityOf(o), Taken(o))
             b == Smaller(CapacityOf(o), Taken(o)')
  <1>3. a \in Nat /\ b \in Nat /\ a <= b
    <2>1. CapacityOf(o) \in Nat /\ Taken(o) \in Nat /\ Taken(o)' \in Nat /\ Taken(o) <= Taken(o)'
      BY <1>1, CoveredType, AnalyseTaken
    <2> QED BY <2>1 DEF Smaller
  <1>4. CoveredOf[o] = Agreed(o) * a /\ CoveredOf[o] \in Nat /\ Agreed(o) \in Nat
    BY <1>1, CoveredType
  <1>5. CoveredOf'[o] = Agreed(o) * b
    BY <1>2
  <1> HIDE DEF a, b
  <1>6. Agreed(o) * b \in Nat /\ Agreed(o) * a <= Agreed(o) * b
    BY <1>3, <1>4, ProductIsNat, ProductGrows
  <1> QED BY <1>2, <1>4, <1>5, <1>6

(* The closed group is charged, or it is one line of which an order of its *)
(* currency covers the rest.                                               *)
Carried(k, e, d) ==
    \/ InvoicedOf[Group(k)] <= Unit * e + Half
    \/ /\ InvoicedOf[Group(k)] <= Unit * e + Half + d
       /\ \E o \in OrdersIn(Line(k).currency) : CoveredOf[o] + d <= CoveredOf'[o]

(* What a group asks for is charged or covered when it is closed.          *)
LEMMA GroupIsCovered ==
  ASSUME IInv, OrderInv, ExposureFits, KnowsOrders, NEW k \in Lines, Analyse(k), batch = {k}
  PROVE  \E d \in Nat : Carried(k, Charged(k, Widen(k, ResultOf(k))), d)
  <1> DEFINE e == Charged(k, Widen(k, ResultOf(k)))
             G == Group(k)
             w == Widen(k, ResultOf(k)).quantity
  <1>1. TypeOK /\ k \in batch /\ mode # "PO_RECEIPT" /\ book \in Books
    BY AnalyseFacts DEF IInv, OrderInv
  <1>2. /\ e \in Nat /\ ResultOf(k).exposure \in Nat /\ ResultOf(k).exposure <= e
        /\ \A i \in G : Duplicate(i) => Round(Amount(i)) <= e
    BY ChargeIs
  <1>3. PICK m \in G : /\ InvoicedOf[G] = 2 * ToleranceDown * Amount(m)
                       /\ \A i \in G : Amount(i) <= Amount(m)
    BY <1>1, AmountsType
  <1>4. \A i \in G : Amount(i) \in Nat
    BY <1>1, AmountsType
  <1> HIDE DEF e
  <1>5. CASE Duplicate(k)
    <2>1. Duplicate(m)
      <3>1. k \in G /\ m \in G /\ Group(m) = G /\ G # {k}
        BY <1>5 DEF Group, Duplicate
      <3> QED BY <3>1 DEF Duplicate
    <2>2. 2 * ToleranceDown * Amount(m) <= Unit * e + Half
      BY <1>2, <1>4, <2>1, ChargeCovers
    <2> QED BY <1>3, <2>2 DEF Carried, e
  <1>6. CASE ~Duplicate(k)
    <2>1. G = {k} /\ m = k /\ ~Ambiguous(k)
      BY <1>6 DEF Duplicate, Ambiguous, Group
    <2> DEFINE p == IF KnowsOrders /\ ~Resolves(k) THEN 0 ELSE consumed[Slot(k)]
               s == Supported(k, p)
               l == Line(k)
               issues == Issues(k, p)
    <2>2. ResultOf(k).exposure = Disputed(k, s, issues)
      BY DEF ResultOf
    <2>3. p \in Nat /\ l.quantity \in Nat /\ l.price \in Nat
      BY <1>1, LineType
    <2>4. s \in Nat /\ s <= l.quantity /\ (s > 0 => p + s <= Capacity(k)) /\ Capacity(k) \in Nat
      <3> HIDE DEF p
      <3> QED BY <1>1, <2>3, SupportType
    <2> HIDE DEF p, s
    <2>5. CASE issues \cap FullExposureIssues # {}
      <3>1. issues # {} /\ Disputed(k, s, issues) = Round(Amount(k))
        BY <2>5 DEF Disputed, Amount
      <3>2. 2 * ToleranceDown * Amount(k) <= Unit * e + Half
        BY <1>2, <1>4, <2>1, <2>2, <3>1, ChargeCovers
      <3> QED BY <1>3, <2>1, <3>2 DEF Carried, e
    <2>6. CASE issues \cap FullExposureIssues = {}
      <3>1. Resolves(k)
        <4> SUFFICES ASSUME ~Resolves(k) PROVE FALSE
          OBVIOUS
        <4>1. ReferenceIssues(Line(k)) # {} /\ ReferenceIssues(Line(k)) \subseteq FullExposureIssues
          BY DEF Resolves, ReferenceIssues, FullExposureIssues
        <4>2. ReferenceIssues(Line(k)) \subseteq issues
          BY DEF Issues, OrderIssues
        <4> QED BY <4>1, <4>2, <2>6
      <3>2. OrderIssues(k, p) \subseteq issues
        BY DEF Issues
      <3>3. PICK o \in book.orders : o = OrderOf(l) /\ o.po = l.po /\ o.line = l.poLine
        <4>1. OrdersAt(l.po, l.poLine) # {}
          BY <3>1 DEF Resolves, ReferenceIssues
        <4> QED BY <4>1 DEF OrdersAt, OrderOf
      <3> DEFINE accepted == IF "PRICE_MISMATCH" \in issues THEN o.price ELSE l.price
                 y == s * accepted
                 x == Larger(Amount(k) - y, 0)
                 d == Agreed(o) * s
      <3>4. l.currency = o.currency
        <4> SUFFICES ASSUME l.currency # o.currency PROVE FALSE
          OBVIOUS
        <4>1. "CURRENCY_MISMATCH" \in OrderIssues(k, p)
          BY <3>1, <3>3 DEF OrderIssues
        <4> QED BY <4>1, <3>2, <2>6 DEF FullExposureIssues
      <3>5. "PRICE_MISMATCH" \notin issues => PriceFits(l.price, o.price)
        BY <3>1, <3>2, <3>3 DEF OrderIssues
      <3>6. SlotOf(o) = Slot(k) /\ p = consumed[Slot(k)] /\ Slot(k) \in Slots
        BY <1>1, <3>1, <3>3, LineType DEF SlotOf, Slot, Reference, KnowsOrders, p
      <3>7. CapacityOf(o) = Capacity(k) /\ Taken(o) = p
        BY <3>1, <3>3, <3>6 DEF CapacityOf, Capacity, KnowsOrders, KnowsReceipts, Received, SlotOf,
                          Taken
      <3>8. Claims(k)
        BY <2>1, <3>1 DEF Claims
      <3>9. Taken(o)' = Taken(o) + w /\ w \in Nat /\ l.quantity <= w
        <4>1. ResultOf(k) \in Result
          BY <1>1, ResultFacts
        <4>2. w \in Nat /\ l.quantity <= w
          BY <1>1, <4>1, WidenType
        <4>3. Taken(o)' = Taken(o) + w
          BY <3>3, <3>6, <3>8, AnalyseTaken
        <4> QED BY <4>2, <4>3
      <3>10. /\ o.price \in Nat /\ Agreed(o) \in Nat
             /\ CoveredOf[o] = Agreed(o) * Smaller(CapacityOf(o), Taken(o))
             /\ CoveredOf'[o] = Agreed(o) * Smaller(CapacityOf(o), Taken(o)')
        BY <1>1, <3>3, CoveredType, CoveredGrows
      <3> HIDE DEF l, w, issues
      <3>11. CoveredOf[o] + d <= CoveredOf'[o] /\ d \in Nat
        <4> DEFINE a == Smaller(CapacityOf(o), Taken(o))
                   b == Smaller(CapacityOf(o), Taken(o)')
        <4>1. a \in Nat /\ b \in Nat /\ a + s <= b
          BY <2>3, <2>4, <3>7, <3>9 DEF Smaller
        <4>2. CoveredOf[o] = Agreed(o) * a /\ CoveredOf'[o] = Agreed(o) * b
          BY <3>10
        <4> HIDE DEF a, b
        <4> QED BY <2>4, <3>10, <4>1, <4>2, ProductGains, ProductIsNat
      <3>12. accepted \in Nat /\ y \in Nat
        <4>1. accepted \in Nat
          BY <2>3, <3>10
        <4> HIDE DEF accepted
        <4> QED BY <2>4, <4>1, ProductIsNat
      <3>13. ToleranceDown * accepted <= (ToleranceDown + ToleranceUp) * o.price
        <4>1. PriceFits(accepted, o.price) \/ accepted = o.price
          BY <3>5
        <4> HIDE DEF accepted
        <4> QED BY <3>10, <3>12, <4>1, FittingPrice
      <3>14. 2 * ToleranceDown * y <= d
        <4> DEFINE D == ToleranceDown
                   T == ToleranceDown + ToleranceUp
        <4>1. D \in Nat /\ T \in Nat
          BY PolicyAssumption
        <4>2. d = 2 * (s * (T * o.price))
          <5> HIDE DEF T
          <5>1. Agreed(o) = 2 * o.price * T
            BY DEF Agreed, T
          <5> QED BY <2>4, <3>10, <4>1, <5>1
        <4>3. 2 * D * y = 2 * (s * (D * accepted))
          <5> HIDE DEF D, accepted
          <5> QED BY <2>4, <3>12, <4>1
        <4>4. s * (D * accepted) <= s * (T * o.price)
          <5>1. D * accepted \in Nat /\ T * o.price \in Nat
            <6> HIDE DEF D, T, accepted
            <6> QED BY <3>10, <3>12, <4>1, ProductIsNat
          <5>2. D * accepted <= T * o.price
            BY <3>13
          <5> HIDE DEF D, T, accepted
          <5> QED BY <2>4, <5>1, <5>2, ProductGrows
        <4>5. s * (D * accepted) \in Nat /\ s * (T * o.price) \in Nat
          <5> HIDE DEF D, T, accepted
          <5> QED BY <2>4, <3>10, <3>12, <4>1, ProductIsNat
        <4> HIDE DEF d, y, accepted
        <4> QED BY <4>2, <4>3, <4>4, <4>5
      <3> HIDE DEF d
      <3>15. x \in Nat /\ Amount(k) \in Nat /\ Amount(k) <= x + y
        <4>1. Amount(k) \in Nat
          BY <1>4, <2>1
        <4> HIDE DEF y
        <4> QED BY <3>12, <4>1 DEF Larger
      <3>16. Round(x) <= e
        <4>1. CASE issues = {}
          <5>1. s = l.quantity
            BY <1>1, <2>3, <4>1, MatchedFits DEF s, issues, l
          <5>2. y = Amount(k)
            BY <4>1, <5>1 DEF Amount, l
          <5>3. x = 0
            <6> HIDE DEF y
            <6> QED BY <3>15, <5>2 DEF Larger
          <5> HIDE DEF x
          <5> QED BY <1>2, <5>3, RoundOfZero
        <4>2. CASE issues # {}
          <5>1. Disputed(k, s, issues) = Round(x)
            BY <2>6, <3>3, <4>2 DEF Disputed, Amount, l
          <5> HIDE DEF x
          <5> QED BY <1>2, <2>2, <5>1
        <4> QED BY <4>1, <4>2
      <3>17. InvoicedOf[G] <= Unit * e + Half + d
        <4>1. 2 * ToleranceDown * Amount(k) <= Unit * e + Half + 2 * ToleranceDown * y
          <5> HIDE DEF x, y
          <5> QED BY <1>2, <3>12, <3>15, <3>16, ChargeCovers
        <4>2. /\ Unit * e \in Nat /\ Half \in Nat /\ 2 * ToleranceDown * Amount(k) \in Nat
              /\ 2 * ToleranceDown * y \in Nat
          <5> HIDE DEF y
          <5> QED BY <1>2, <3>12, <3>15, UnitIs, ProductIsNat DEF UnitType
        <4>3. InvoicedOf[G] = 2 * ToleranceDown * Amount(k)
          BY <1>3, <2>1
        <4> HIDE DEF y, G
        <4> QED BY <3>11, <3>14, <4>1, <4>2, <4>3
      <3>18. o \in OrdersIn(Line(k).currency)
        BY <3>3, <3>4 DEF OrdersIn, l
      <3>19. Carried(k, e, d)
        BY <3>11, <3>17, <3>18 DEF Carried
      <3> QED BY <3>11, <3>19 DEF e
    <2> QED BY <2>5, <2>6
  <1> QED BY <1>5, <1>6

-----------------------------------------------------------------------------
(* The summary of a currency.                                              *)

(* What the documents ask for depends on the files only.                   *)
LEMMA MoneyIsFixed ==
  ASSUME book' = book, mode' = mode
  PROVE  /\ Lines' = Lines /\ Currencies' = Currencies /\ KnowsOrders' = KnowsOrders
         /\ ValueOf' = ValueOf /\ InvoicedOf' = InvoicedOf
         /\ \A k : Amount(k)' = Amount(k) /\ Duplicate(k)' = Duplicate(k) /\ Line(k)' = Line(k)
         /\ \A c : OrdersIn(c)' = OrdersIn(c)
         /\ \A c : Groups(ClosedIn(c))' = Groups(ClosedIn(c)')
  <1>1. /\ Lines' = Lines /\ Currencies' = Currencies /\ KnowsOrders' = KnowsOrders
        /\ \A k : Line(k)' = Line(k) /\ Group(k)' = Group(k)
    BY BookIsFixed
  <1>2. \A k : Amount(k)' = Amount(k) /\ Duplicate(k)' = Duplicate(k)
    BY <1>1 DEF Amount, Duplicate
  <1>3. ValueOf' = ValueOf
    <2>1. \A G : {Round(Line(k)'.quantity * Line(k)'.price) : k \in G}
                    = {Round(Line(k).quantity * Line(k).price) : k \in G}
      BY <1>1
    <2> QED BY <1>1, <2>1 DEF ValueOf
  <1>4. InvoicedOf' = InvoicedOf
    <2>1. \A G : {Line(k)'.quantity * Line(k)'.price : k \in G}
                    = {Line(k).quantity * Line(k).price : k \in G}
      BY <1>1
    <2>2. \A G : Invoiced(G)' = Invoiced(G)
      BY <2>1 DEF Invoiced
    <2> QED BY <1>1, <2>2 DEF InvoicedOf
  <1>5. \A c : OrdersIn(c)' = OrdersIn(c)
    BY DEF OrdersIn
  <1>6. \A c : Groups(ClosedIn(c))' = Groups(ClosedIn(c)')
    BY <1>1 DEF Groups
  <1> QED BY <1>1, <1>2, <1>3, <1>4, <1>5, <1>6

(* The orders of a currency are finitely many, with amounts.               *)
LEMMA OrdersInType ==
  ASSUME book \in Books, TypeOK, NEW c
  PROVE  /\ IsFiniteSet(OrdersIn(c)) /\ OrdersIn(c) \subseteq book.orders
         /\ \A o \in OrdersIn(c) : CoveredOf[o] \in Nat
         /\ SumOver(CoveredOf, OrdersIn(c)) \in Nat
  <1>1. OrdersIn(c) \subseteq book.orders /\ IsFiniteSet(book.orders)
    BY BookAssumption DEF OrdersIn
  <1>2. IsFiniteSet(OrdersIn(c))
    BY <1>1, FS_Subset
  <1>3. \A o \in OrdersIn(c) : CoveredOf[o] \in Nat
    BY <1>1, CoveredType
  <1> QED BY <1>1, <1>2, <1>3, SumIsNat

(* As long as nothing is analysed, nothing is charged.                     *)
LEMMA NothingIsCharged ==
  /\ TypeOK /\ book \in Books /\ Analysed = {} /\ \A c \in Currencies : exposures[c] = 0
  => ExposureFits /\ Charges /\ Balance
  <1> SUFFICES ASSUME TypeOK, book \in Books, Analysed = {},
                      \A c \in Currencies : exposures[c] = 0
               PROVE  ExposureFits /\ Charges /\ Balance
    OBVIOUS
  <1>1. \A c : Groups(ClosedIn(c)) = {}
    BY DEF ClosedIn, Groups
  <1>2. ExposureFits
    BY DEF ExposureFits
  <1>3. Charges
    BY <1>1, SumOfNone DEF Charges
  <1>4. Balance
    <2> SUFFICES ASSUME NEW c \in Currencies
                 PROVE  SumOver(InvoicedOf, Groups(ClosedIn(c)))
                            <= Unit * exposures[c] + SumOver(CoveredOf, OrdersIn(c))
                                 + Half * Cardinality(Groups(ClosedIn(c)))
      BY DEF Balance
    <2>1. SumOver(InvoicedOf, Groups(ClosedIn(c))) = 0 /\ Cardinality(Groups(ClosedIn(c))) = 0
      BY <1>1, SumOfNone, FS_EmptySet
    <2>2. SumOver(CoveredOf, OrdersIn(c)) \in Nat /\ Unit \in Nat /\ Half \in Nat
      BY OrdersInType, UnitIs DEF UnitType
    <2>3. Unit * exposures[c] = 0 /\ Half * 0 = 0
      BY <2>2
    <2> QED BY <2>1, <2>2, <2>3
  <1> QED BY <1>2, <1>3, <1>4

(* What the bound of the exposure rests on.                                *)
ExposureInv == OrderInv /\ ExposureFits /\ Charges /\ Balance

(* Before the first line nothing is charged.                               *)
LEMMA InitExposure == Init => ExposureInv
  <1> SUFFICES ASSUME Init PROVE ExposureInv
    OBVIOUS
  <1>1. TypeOK
    BY InitIInv DEF IInv
  <1>2. OrderInv
    BY InitOrder
  <1>3. Analysed = {} /\ \A c \in Currencies : exposures[c] = 0
    BY DEF Init, Analysed
  <1> QED BY <1>1, <1>2, <1>3, NothingIsCharged DEF ExposureInv, OrderInv

(* Counting receipts charges nothing.                                      *)
LEMMA CountExposure ==
  IInv /\ IInv' /\ ExposureInv /\ CountReceipt => (ExposureFits /\ Charges /\ Balance)'
  <1> SUFFICES ASSUME IInv, IInv', ExposureInv, CountReceipt
               PROVE  (ExposureFits /\ Charges /\ Balance)'
    OBVIOUS
  <1>1. /\ book' = book /\ mode' = mode /\ exposures' = exposures /\ results' = results
        /\ Analysed' = Analysed /\ Currencies' = Currencies
    BY BookIsFixed DEF CountReceipt, Analysed
  <1>2. Analysed = {}
    <2>1. ~ReceiptsCounted
      BY DEF CountReceipt, ReceiptsCounted, IInv, TypeOK, Book
    <2> QED BY <2>1 DEF IInv, Underway
  <1>3. \A c \in Currencies : exposures[c] = 0
    <2> TAKE c \in Currencies
    <2>1. Groups(ClosedIn(c)) = {}
      BY <1>2 DEF ClosedIn, Groups
    <2>2. exposures[c] <= 0
      BY <2>1, SumOfNone DEF ExposureInv, Charges
    <2> QED BY <2>2 DEF IInv, TypeOK
  <1>4. (/\ TypeOK /\ book \in Books /\ Analysed = {} /\ \A c \in Currencies : exposures[c] = 0)'
    BY <1>1, <1>2, <1>3 DEF ExposureInv, OrderInv, IInv
  <1> QED BY <1>4, NothingIsCharged, PTL

(* A step that analyses nothing and counts nothing.                        *)
LEMMA QuietExposure ==
  ASSUME ExposureFits, Charges, Balance, book' = book, mode' = mode, totals' = totals,
         consumed' = consumed, exposures' = exposures, results' = results,
         \A j \in Analysed : Open(j)' <=> Open(j)
  PROVE  (ExposureFits /\ Charges /\ Balance)'
  <1>1. /\ Currencies' = Currencies /\ KnowsOrders' = KnowsOrders
        /\ ValueOf' = ValueOf /\ InvoicedOf' = InvoicedOf /\ Analysed' = Analysed
        /\ \A k : Amount(k)' = Amount(k) /\ Duplicate(k)' = Duplicate(k) /\ Line(k)' = Line(k)
        /\ \A c : OrdersIn(c)' = OrdersIn(c)
        /\ \A c : Groups(ClosedIn(c))' = Groups(ClosedIn(c)')
    BY MoneyIsFixed DEF Analysed
  <1>2. \A c : ClosedIn(c)' = ClosedIn(c)
    BY <1>1 DEF ClosedIn
  <1>3. CoveredOf' = CoveredOf
    <2>1. \A o : CapacityOf(o)' = CapacityOf(o) /\ Taken(o)' = Taken(o)
      BY BookIsFixed DEF CapacityOf, Taken, Received
    <2> QED BY <2>1 DEF CoveredOf
  <1>4. ExposureFits'
    BY <1>1 DEF ExposureFits
  <1>5. \A c : Groups(ClosedIn(c))' = Groups(ClosedIn(c))
    BY <1>1, <1>2
  <1>6. Charges'
    BY <1>1, <1>5 DEF Charges
  <1>7. Balance'
    BY <1>1, <1>3, <1>5 DEF Balance
  <1> QED BY <1>4, <1>6, <1>7

(* The line analysed is exposed by no more than it asks for.               *)
LEMMA AnalyseFits ==
  ASSUME IInv, ExposureFits, NEW k \in Lines, Analyse(k)
  PROVE  ExposureFits'
  <1>1. /\ TypeOK /\ mode # "PO_RECEIPT" /\ Analysed' = Analysed \cup {k}
        /\ results'[k] = ResultOf(k) /\ \A j \in Analysed : results'[j] = results[j]
        /\ book' = book /\ mode' = mode
    BY AnalyseFacts DEF IInv
  <1>2. /\ KnowsOrders' = KnowsOrders
        /\ \A j : Amount(j)' = Amount(j) /\ Duplicate(j)' = Duplicate(j)
    BY <1>1, MoneyIsFixed
  <1>3. /\ ResultOf(k).exposure <= Round(Amount(k))
        /\ KnowsOrders /\ Duplicate(k) => ResultOf(k).exposure = Round(Amount(k))
    BY <1>1, ExposureIs
  <1> SUFFICES ASSUME NEW i \in Analysed \cup {k}
               PROVE  /\ results'[i].exposure <= Round(Amount(i))
                      /\ KnowsOrders /\ Duplicate(i) =>
                            results'[i].exposure = Round(Amount(i))
    BY <1>1, <1>2 DEF ExposureFits
  <1> QED BY <1>1, <1>3 DEF ExposureFits

(* Closing a group charges no more than it is worth.                       *)
LEMMA AnalyseCharges ==
  ASSUME IInv, OrderInv, ExposureFits, Charges, NEW k \in Lines, Analyse(k)
  PROVE  Charges'
  <1> DEFINE e == Charged(k, Widen(k, ResultOf(k)))
             G == Group(k)
  <1>1. /\ TypeOK /\ book' = book /\ mode' = mode
        /\ exposures' = IF batch = {k} THEN [exposures EXCEPT ![Line(k).currency] = @ + e]
                        ELSE exposures
    BY AnalyseFacts DEF IInv
  <1>2. /\ Currencies' = Currencies /\ ValueOf' = ValueOf
        /\ \A c : Groups(ClosedIn(c))' = Groups(ClosedIn(c)')
    BY <1>1, MoneyIsFixed
  <1> HIDE DEF e
  <1> SUFFICES ASSUME NEW c \in Currencies
               PROVE  exposures'[c] <= SumOver(ValueOf, Groups(ClosedIn(c)'))
    BY <1>2 DEF Charges
  <1> DEFINE H == Groups(ClosedIn(c))
  <1>3. /\ exposures[c] <= SumOver(ValueOf, H) /\ exposures[c] \in Nat
        /\ exposures \in [Currencies -> Nat]
    BY <1>1 DEF Charges, TypeOK
  <1>4. CASE batch = {k} /\ Line(k).currency = c
    <2>1. Groups(ClosedIn(c)') = H \cup {G} /\ G \notin H
      BY <1>4, ClosedGrow
    <2>2. e \in Nat /\ e <= ValueOf[G]
      BY <1>4, ChargeIs DEF e
    <2>3. ValueOf[G] \in Nat
      BY <1>1, AmountsType
    <2>4. IsFiniteSet(H) /\ \A y \in H : ValueOf[y] \in Nat
      BY <1>1, ClosedType
    <2>5. exposures'[c] = exposures[c] + e
      BY <1>1, <1>3, <1>4
    <2> HIDE DEF H, G
    <2>6. \A y \in H \cup {G} : ValueOf[y] \in Nat
      BY <2>3, <2>4
    <2>7. SumOver(ValueOf, H \cup {G}) = SumOver(ValueOf, H) + ValueOf[G]
      BY <2>1, <2>4, <2>6, SumAdds
    <2>8. SumOver(ValueOf, H) \in Nat
      BY <2>4, SumIsNat
    <2> QED BY <1>3, <2>1, <2>2, <2>3, <2>5, <2>7, <2>8
  <1>5. CASE ~(batch = {k} /\ Line(k).currency = c)
    <2>1. ClosedIn(c)' = ClosedIn(c)
      BY <1>5, ClosedGrow
    <2>2. exposures'[c] = exposures[c]
      BY <1>1, <1>3, <1>5
    <2> QED BY <1>3, <2>1, <2>2
  <1> QED BY <1>4, <1>5

(* One group more, covered or charged.                                     *)
LEMMA BalanceGrows ==
  ASSUME NEW a \in Nat, NEW v \in Nat, NEW x \in Nat, NEW e \in Nat, NEW r \in Nat,
         NEW t \in Nat, NEW d \in Nat, NEW n \in Nat,
         a <= Unit * x + r + Half * n,
         \/ v <= Unit * e + Half /\ r <= t
         \/ v <= Unit * e + Half + d /\ r + d <= t
  PROVE  a + v <= Unit * (x + e) + t + Half * (n + 1)
  <1>1. Unit \in Nat /\ Half \in Nat
    BY UnitIs DEF UnitType
  <1>2. Unit * (x + e) = Unit * x + Unit * e /\ Half * (n + 1) = Half * n + Half
    BY <1>1
  <1>3. Unit * x \in Nat /\ Unit * e \in Nat /\ Half * n \in Nat
    BY <1>1, ProductIsNat
  <1> DEFINE ux == Unit * x
             ue == Unit * e
             hn == Half * n
             uxe == Unit * (x + e)
             hn1 == Half * (n + 1)
  <1>4. uxe = ux + ue /\ hn1 = hn + Half /\ ux \in Nat /\ ue \in Nat /\ hn \in Nat
    BY <1>2, <1>3
  <1>5. /\ a <= ux + r + hn
        /\ \/ v <= ue + Half /\ r <= t
           \/ v <= ue + Half + d /\ r + d <= t
    OBVIOUS
  <1>6. SUFFICES a + v <= uxe + t + hn1
    OBVIOUS
  <1> HIDE DEF ux, ue, hn, uxe, hn1
  <1> QED BY <1>1, <1>4, <1>5

(* Closing a group keeps the balance.                                      *)
LEMMA AnalyseBalance ==
  ASSUME IInv, OrderInv, ExposureFits, Balance, NEW k \in Lines, Analyse(k)
  PROVE  Balance'
  <1> DEFINE e == Charged(k, Widen(k, ResultOf(k)))
             G == Group(k)
  <1>1. /\ TypeOK /\ book' = book /\ mode' = mode /\ book \in Books
        /\ exposures' = IF batch = {k} THEN [exposures EXCEPT ![Line(k).currency] = @ + e]
                        ELSE exposures
    BY AnalyseFacts DEF IInv, OrderInv
  <1>2. /\ Currencies' = Currencies /\ InvoicedOf' = InvoicedOf /\ KnowsOrders' = KnowsOrders
        /\ \A c : Groups(ClosedIn(c))' = Groups(ClosedIn(c)')
        /\ \A c : OrdersIn(c)' = OrdersIn(c)
    BY <1>1, MoneyIsFixed
  <1> HIDE DEF e
  <1> SUFFICES ASSUME KnowsOrders, NEW c \in Currencies
               PROVE  SumOver(InvoicedOf, Groups(ClosedIn(c)'))
                          <= Unit * exposures'[c] + SumOver(CoveredOf', OrdersIn(c))
                               + Half * Cardinality(Groups(ClosedIn(c)'))
    BY <1>2 DEF Balance
  <1> DEFINE H == Groups(ClosedIn(c))
             O == OrdersIn(c)
  <1>3. exposures[c] \in Nat /\ exposures \in [Currencies -> Nat]
    BY <1>1 DEF TypeOK
  <1>4. SumOver(InvoicedOf, H) <= Unit * exposures[c] + SumOver(CoveredOf, O)
                                    + Half * Cardinality(H)
    BY DEF Balance
  <1>5. /\ IsFiniteSet(H) /\ Cardinality(H) \in Nat
        /\ \A y \in H : InvoicedOf[y] \in Nat
    BY <1>1, ClosedType
  <1>6. /\ IsFiniteSet(O)
        /\ \A o \in O : CoveredOf[o] \in Nat /\ CoveredOf'[o] \in Nat
                        /\ CoveredOf[o] <= CoveredOf'[o]
    <2>1. IsFiniteSet(O) /\ O \subseteq book.orders
      BY <1>1, OrdersInType
    <2> QED BY <2>1, CoveredGrows
  <1> HIDE DEF H, O
  <1>7. /\ SumOver(CoveredOf, O) \in Nat /\ SumOver(CoveredOf', O) \in Nat
        /\ SumOver(CoveredOf, O) <= SumOver(CoveredOf', O)
        /\ SumOver(InvoicedOf, H) \in Nat
    <2>1. \A o \in O : CoveredOf'[o] \in Nat
      BY <1>6
    <2>2. SumOver(CoveredOf', O) \in Nat
      BY <1>6, <2>1, SumIsNat
    <2> QED BY <1>5, <1>6, <2>2, SumIsNat, SumGrows
  <1>8. CASE batch = {k} /\ Line(k).currency = c
    <2>1. Groups(ClosedIn(c)') = H \cup {G} /\ G \notin H
      BY <1>8, ClosedGrow DEF H
    <2>2. e \in Nat
      BY <1>8, ChargeIs DEF e
    <2>3. InvoicedOf[G] \in Nat
      BY <1>1, AmountsType
    <2>4. exposures'[c] = exposures[c] + e
      BY <1>1, <1>3, <1>8
    <2>5. PICK d \in Nat : Carried(k, e, d)
      BY <1>8, GroupIsCovered DEF e
    <2>6. \/ InvoicedOf[G] <= Unit * e + Half
          \/ /\ InvoicedOf[G] <= Unit * e + Half + d
             /\ SumOver(CoveredOf, O) + d <= SumOver(CoveredOf', O)
      <3>1. CASE InvoicedOf[G] <= Unit * e + Half
        BY <3>1
      <3>2. CASE ~(InvoicedOf[G] <= Unit * e + Half)
        <4>1. InvoicedOf[G] <= Unit * e + Half + d
          BY <2>5, <3>2 DEF Carried
        <4>2. PICK o \in O : CoveredOf[o] + d <= CoveredOf'[o]
          BY <1>8, <2>5, <3>2 DEF Carried, O
        <4>3. SumOver(CoveredOf, O) + d <= SumOver(CoveredOf', O)
          BY <1>6, <4>2, SumGains
        <4> QED BY <4>1, <4>3
      <3> QED BY <3>1, <3>2
    <2> HIDE DEF G
    <2>7. SumOver(InvoicedOf, H \cup {G}) = SumOver(InvoicedOf, H) + InvoicedOf[G]
      <3>1. \A y \in H \cup {G} : InvoicedOf[y] \in Nat
        BY <1>5, <2>3
      <3> QED BY <1>5, <2>1, <3>1, SumAdds
    <2>8. Cardinality(H \cup {G}) = Cardinality(H) + 1
      BY <1>5, <2>1, FS_AddElement
    <2>9. SumOver(InvoicedOf, H) + InvoicedOf[G]
            <= Unit * (exposures[c] + e) + SumOver(CoveredOf', O) + Half * (Cardinality(H) + 1)
      <3> DEFINE a == SumOver(InvoicedOf, H)
                 r == SumOver(CoveredOf, O)
                 t == SumOver(CoveredOf', O)
                 n == Cardinality(H)
                 v == InvoicedOf[G]
                 x == exposures[c]
      <3>1. /\ a \in Nat /\ v \in Nat /\ x \in Nat /\ r \in Nat /\ t \in Nat /\ n \in Nat
            /\ a <= Unit * x + r + Half * n
            /\ \/ v <= Unit * e + Half /\ r <= t
               \/ v <= Unit * e + Half + d /\ r + d <= t
        BY <1>3, <1>4, <1>5, <1>7, <2>3, <2>6
      <3> HIDE DEF a, r, t, n, v, x
      <3>2. a + v <= Unit * (x + e) + t + Half * (n + 1)
        BY <2>2, <3>1, BalanceGrows
      <3> QED BY <3>2 DEF a, r, t, n, v, x
    <2> QED BY <2>1, <2>4, <2>7, <2>8, <2>9 DEF O
  <1>9. CASE ~(batch = {k} /\ Line(k).currency = c)
    <2>1. ClosedIn(c)' = ClosedIn(c)
      BY <1>9, ClosedGrow
    <2>2. exposures'[c] = exposures[c]
      BY <1>1, <1>3, <1>9
    <2>3. Unit * exposures[c] \in Nat /\ Half * Cardinality(H) \in Nat
      BY <1>3, <1>5, UnitIs, ProductIsNat DEF UnitType
    <2>4. SumOver(InvoicedOf, H) <= Unit * exposures[c] + SumOver(CoveredOf', O)
                                      + Half * Cardinality(H)
      <3> DEFINE u == Unit * exposures[c]
                 h == Half * Cardinality(H)
      <3>1. u \in Nat /\ h \in Nat
        BY <2>3
      <3>2. SumOver(InvoicedOf, H) <= u + SumOver(CoveredOf, O) + h
        BY <1>4
      <3> HIDE DEF u, h
      <3>3. SumOver(InvoicedOf, H) <= u + SumOver(CoveredOf', O) + h
        BY <1>7, <3>1, <3>2
      <3> QED BY <3>3 DEF u, h
    <2> QED BY <2>1, <2>2, <2>4 DEF H, O
  <1> QED BY <1>8, <1>9

(* Every step keeps the bound of the exposure.                             *)
LEMMA ExposureStep == IInv /\ IInv' /\ ExposureInv /\ [Next]_vars => ExposureInv'
  <1> SUFFICES ASSUME IInv, IInv', ExposureInv, [Next]_vars PROVE ExposureInv'
    OBVIOUS
  <1>1. OrderInv'
    BY OrderStep DEF ExposureInv
  <1>2. CASE CountReceipt
    BY <1>1, <1>2, CountExposure DEF ExposureInv
  <1>3. CASE NextGroup
    <2>1. /\ book' = book /\ mode' = mode /\ totals' = totals /\ consumed' = consumed
          /\ exposures' = exposures /\ results' = results
      BY <1>3 DEF NextGroup
    <2>2. \A j \in Analysed : Open(j)' <=> Open(j)
      BY <1>3, NothingReopens
    <2> QED BY <1>1, <2>1, <2>2, QuietExposure DEF ExposureInv
  <1>4. ASSUME NEW k \in Lines, Analyse(k) PROVE ExposureInv'
    BY <1>1, <1>4, AnalyseFits, AnalyseCharges, AnalyseBalance DEF ExposureInv
  <1>5. CASE UNCHANGED vars
    <2>1. /\ book' = book /\ mode' = mode /\ totals' = totals /\ consumed' = consumed
          /\ exposures' = exposures /\ results' = results /\ batch' = batch
      BY <1>5 DEF vars
    <2>2. \A j \in Analysed : Open(j)' <=> Open(j)
      BY <2>1, BookIsFixed DEF Open
    <2> QED BY <1>1, <2>1, <2>2, QuietExposure DEF ExposureInv
  <1> QED BY <1>2, <1>3, <1>4, <1>5 DEF Next

(* The sums the property names are the sums of the functions.              *)
LEMMA ValueSum ==
  ASSUME NEW S, NEW f, IsFiniteSet(S),
         \A G \in S : f[G] = Max({Round(Line(k).quantity * Line(k).price) : k \in G})
  PROVE  MapThenSumSet(LAMBDA G : Max({Round(Line(k).quantity * Line(k).price) : k \in G}), S)
            = SumOver(f, S)
  <1> DEFINE V(G) == Max({Round(Line(k).quantity * Line(k).price) : k \in G})
             Is(g) == g = [s \in SUBSET S |->
                              IF s = {} THEN 0
                              ELSE V(CHOOSE x \in s : TRUE)
                                     + g[s \ {CHOOSE x \in s : TRUE}]]
             t == CHOOSE g : Is(g)
             u == CHOOSE g : SumsUp(g, f, SUBSET S)
  <1>1. MapThenSumSet(LAMBDA G : Max({Round(Line(k).quantity * Line(k).price) : k \in G}), S)
            = t[S]
    BY Zenon DEF MapThenSumSet, MapThenFoldSet
  <1>2. \A G \in S : f[G] = V(G)
    OBVIOUS
  <1> HIDE DEF V
  <1>3. ASSUME NEW g PROVE Is(g) <=> SumsUp(g, f, SUBSET S)
    <2>1. ASSUME NEW s \in SUBSET S, s # {} PROVE f[AnyOf(s)] = V(AnyOf(s))
      BY <1>2, <2>1, AnyIsIn
    <2> QED BY <2>1 DEF SumsUp, AnyOf
  <1>4. SumsUp(u, f, SUBSET S)
    BY SumExists
  <1>5. Is(t)
    <2>1. Is(u)
      BY <1>3, <1>4
    <2> HIDE DEF u
    <2> QED BY <2>1
  <1>6. SumOver(f, S) = u[S]
    BY DEF SumOver
  <1>7. SumsUp(t, f, SUBSET S)
    BY <1>3, <1>5
  <1> HIDE DEF t, u, Is
  <1>8. S \in SUBSET S
    OBVIOUS
  <1> QED BY <1>4, <1>1, <1>6, <1>7, <1>8, SumsAgree

LEMMA InvoicedSum ==
  ASSUME NEW S, NEW f, IsFiniteSet(S), \A G \in S : f[G] = Invoiced(G)
  PROVE  MapThenSumSet(Invoiced, S) = SumOver(f, S)
  <1> DEFINE Is(g) == g = [s \in SUBSET S |->
                              IF s = {} THEN 0
                              ELSE Invoiced(CHOOSE x \in s : TRUE)
                                     + g[s \ {CHOOSE x \in s : TRUE}]]
             t == CHOOSE g : Is(g)
             u == CHOOSE g : SumsUp(g, f, SUBSET S)
  <1>1. ASSUME NEW g PROVE Is(g) <=> SumsUp(g, f, SUBSET S)
    <2>1. ASSUME NEW s \in SUBSET S, s # {} PROVE f[AnyOf(s)] = Invoiced(AnyOf(s))
      BY <2>1, AnyIsIn
    <2> QED BY <2>1 DEF SumsUp, AnyOf
  <1>2. SumsUp(u, f, SUBSET S)
    BY SumExists
  <1>3. Is(t)
    <2>1. Is(u)
      BY <1>1, <1>2
    <2> HIDE DEF u
    <2> QED BY <2>1
  <1>4. MapThenSumSet(Invoiced, S) = t[S]
    BY Zenon DEF MapThenSumSet, MapThenFoldSet
  <1>5. SumOver(f, S) = u[S]
    BY DEF SumOver
  <1>6. SumsUp(t, f, SUBSET S)
    BY <1>1, <1>3
  <1> HIDE DEF t, u, Is
  <1>7. S \in SUBSET S
    OBVIOUS
  <1> QED BY <1>2, <1>4, <1>5, <1>6, <1>7, SumsAgree

LEMMA CoveredSum ==
  ASSUME NEW S, NEW f, IsFiniteSet(S), \A o \in S : f[o] = Covered(o)
  PROVE  MapThenSumSet(Covered, S) = SumOver(f, S)
  <1> DEFINE Is(g) == g = [s \in SUBSET S |->
                              IF s = {} THEN 0
                              ELSE Covered(CHOOSE x \in s : TRUE)
                                     + g[s \ {CHOOSE x \in s : TRUE}]]
             t == CHOOSE g : Is(g)
             u == CHOOSE g : SumsUp(g, f, SUBSET S)
  <1>1. ASSUME NEW g PROVE Is(g) <=> SumsUp(g, f, SUBSET S)
    <2>1. ASSUME NEW s \in SUBSET S, s # {} PROVE f[AnyOf(s)] = Covered(AnyOf(s))
      BY <2>1, AnyIsIn
    <2> QED BY <2>1 DEF SumsUp, AnyOf
  <1>2. SumsUp(u, f, SUBSET S)
    BY SumExists
  <1>3. Is(t)
    <2>1. Is(u)
      BY <1>1, <1>2
    <2> HIDE DEF u
    <2> QED BY <2>1
  <1>4. MapThenSumSet(Covered, S) = t[S]
    BY Zenon DEF MapThenSumSet, MapThenFoldSet
  <1>5. SumOver(f, S) = u[S]
    BY DEF SumOver
  <1>6. SumsUp(t, f, SUBSET S)
    BY <1>1, <1>3
  <1> HIDE DEF t, u, Is
  <1>7. S \in SUBSET S
    OBVIOUS
  <1> QED BY <1>2, <1>4, <1>5, <1>6, <1>7, SumsAgree

(* What the summary of a currency charges is at most what its groups are   *)
(* worth, and the rest is covered by what was ordered and received.        *)
LEMMA ExposureOfCurrency ==
  ASSUME IInv, ExposureInv, NEW c \in Currencies
  PROVE  /\ exposures[c] <= SumOver(ValueOf, Groups(LinesIn(c)))
         /\ KnowsOrders /\ batch = {} /\ todo = {} =>
              SumOver(InvoicedOf, Groups(LinesIn(c))) - 2 * Scale * ToleranceDown * exposures[c]
                <= SumOver([o \in book.orders |-> Covered(o)], OrdersIn(c))
                     + Scale * ToleranceDown * Cardinality(Groups(LinesIn(c)))
  <1> DEFINE A == Groups(LinesIn(c))
             H == Groups(ClosedIn(c))
             O == OrdersIn(c)
             f == [o \in book.orders |-> Covered(o)]
  <1>1. TypeOK /\ book \in Books /\ OrderInv /\ exposures[c] \in Nat
    BY DEF IInv, ExposureInv, OrderInv, TypeOK
  <1>2. LinesIn(c) \in SUBSET Lines /\ ClosedIn(c) \subseteq LinesIn(c)
    BY <1>1 DEF LinesIn, ClosedIn, TypeOK, Analysed
  <1>3. H \subseteq A /\ IsFiniteSet(A)
    BY <1>1, <1>2, GroupsType DEF Groups
  <1>4. \A G \in A : ValueOf[G] \in Nat /\ InvoicedOf[G] \in Nat
    <2> TAKE G \in A
    <2>1. PICK k \in Lines : G = Group(k)
      BY <1>2 DEF Groups
    <2> QED BY <1>1, <2>1, AmountsType
  <1>5. exposures[c] <= SumOver(ValueOf, A)
    <2>1. exposures[c] <= SumOver(ValueOf, H)
      BY DEF ExposureInv, Charges
    <2> HIDE DEF A, H
    <2>2. SumOver(ValueOf, H) <= SumOver(ValueOf, A)
      BY <1>3, <1>4, SumOfPart
    <2>3. \A G \in H : ValueOf[G] \in Nat
      BY <1>3, <1>4
    <2>4. IsFiniteSet(H)
      BY <1>3, FS_Subset
    <2> QED BY <1>1, <1>3, <1>4, <2>1, <2>2, <2>3, <2>4, SumIsNat
  <1>6. ASSUME KnowsOrders, batch = {}, todo = {}
        PROVE  SumOver(InvoicedOf, A) - Unit * exposures[c]
                 <= SumOver(f, O) + Half * Cardinality(A)
    <2>1. ClosedIn(c) = LinesIn(c)
      <3>1. Lines = Analysed
        BY <1>1, <1>6 DEF OrderInv, Covers, KnowsOrders
      <3>2. \A j : ~Open(j)
        BY <1>6 DEF Open
      <3> QED BY <3>1, <3>2 DEF ClosedIn, LinesIn
    <2>2. SumOver(InvoicedOf, A) <= Unit * exposures[c] + SumOver(CoveredOf, O)
                                      + Half * Cardinality(A)
      BY <1>6, <2>1 DEF ExposureInv, Balance
    <2>3. IsFiniteSet(O) /\ O \subseteq book.orders /\ SumOver(CoveredOf, O) \in Nat
      BY <1>1, OrdersInType
    <2>4. \A o \in O : /\ CoveredOf[o] \in Nat /\ f[o] \in Nat /\ CoveredOf[o] <= f[o]
      <3> TAKE o \in O
      <3>1. /\ o \in book.orders /\ CoveredOf[o] \in Nat /\ Agreed(o) \in Nat
            /\ CapacityOf(o) \in Nat /\ Taken(o) \in Nat
            /\ CoveredOf[o] = Agreed(o) * Smaller(CapacityOf(o), Taken(o))
        BY <1>1, <2>3, CoveredType
      <3>2. f[o] = Agreed(o) * CapacityOf(o)
        BY <3>1 DEF Covered, Agreed, CapacityOf
      <3> DEFINE a == Smaller(CapacityOf(o), Taken(o))
      <3>3. a \in Nat /\ a <= CapacityOf(o)
        BY <3>1 DEF Smaller
      <3> HIDE DEF a, f
      <3>4. Agreed(o) * CapacityOf(o) \in Nat /\ Agreed(o) * a <= Agreed(o) * CapacityOf(o)
        BY <3>1, <3>3, ProductIsNat, ProductGrows
      <3> QED BY <3>1, <3>2, <3>4 DEF a
    <2> HIDE DEF f, O, A
    <2>5. SumOver(CoveredOf, O) <= SumOver(f, O) /\ SumOver(f, O) \in Nat
      <3>1. \A o \in O : f[o] \in Nat
        BY <2>4
      <3> QED BY <2>3, <2>4, <3>1, SumGrows, SumIsNat
    <2>6. SumOver(InvoicedOf, A) \in Nat /\ Cardinality(A) \in Nat
      <3>1. \A G \in A : InvoicedOf[G] \in Nat
        BY <1>4
      <3> QED BY <1>3, <3>1, SumIsNat, FS_CardinalityType
    <2>7. Unit * exposures[c] \in Nat /\ Half * Cardinality(A) \in Nat
      BY <1>1, <2>6, UnitIs, ProductIsNat DEF UnitType
    <2> DEFINE x == Unit * exposures[c]
               n == Half * Cardinality(A)
    <2>8. /\ x \in Nat /\ n \in Nat
          /\ SumOver(InvoicedOf, A) <= x + SumOver(CoveredOf, O) + n
      BY <2>2, <2>7
    <2>9. SUFFICES SumOver(InvoicedOf, A) - x <= SumOver(f, O) + n
      OBVIOUS
    <2> HIDE DEF x, n
    <2> QED BY <2>3, <2>5, <2>6, <2>8
  <1> QED BY <1>5, <1>6 DEF Unit, Half

(* What the summary leaves undisputed was ordered, received and agreed,    *)
(* and it disputes no more than was invoiced.                              *)
THEOREM ExposureIsCovered == Spec => []ExposureIsBounded
  <1>1. IInv /\ ExposureInv => ExposureIsBounded
    <2> SUFFICES ASSUME IInv, ExposureInv, NEW c \in Currencies
                 PROVE  /\ exposures[c] <=
                            MapThenSumSet(LAMBDA G : Max({Round(Line(k).quantity * Line(k).price)
                                                            : k \in G}), InvoiceGroups(c))
                        /\ KnowsOrders /\ batch = {} /\ todo = {} =>
                             MapThenSumSet(Invoiced, InvoiceGroups(c))
                                 - 2 * Scale * ToleranceDown * exposures[c]
                               <= MapThenSumSet(Covered, {o \in book.orders : o.currency = c})
                                    + Scale * ToleranceDown * Cardinality(InvoiceGroups(c))
      BY Zenon DEF ExposureIsBounded
    <2> DEFINE f == [o \in book.orders |-> Covered(o)]
    <2>1. TypeOK /\ book \in Books
      BY DEF IInv, ExposureInv, OrderInv
    <2>2. InvoiceGroups(c) = Groups(LinesIn(c)) /\ LinesIn(c) \in SUBSET Lines
      BY DEF InvoiceGroups, Groups, LinesIn
    <2>3. {o \in book.orders : o.currency = c} = OrdersIn(c)
      BY DEF OrdersIn
    <2>4. IsFiniteSet(Groups(LinesIn(c)))
      BY <2>1, <2>2, GroupsType
    <2>5. \A G \in Groups(LinesIn(c)) :
                /\ ValueOf[G] = Max({Round(Line(k).quantity * Line(k).price) : k \in G})
                /\ InvoicedOf[G] = Invoiced(G)
      <3>1. Groups(LinesIn(c)) \subseteq SUBSET Lines
        BY <2>2 DEF Groups, Group
      <3> QED BY <3>1 DEF ValueOf, InvoicedOf
    <2>6. MapThenSumSet(LAMBDA G : Max({Round(Line(k).quantity * Line(k).price) : k \in G}),
                        InvoiceGroups(c)) = SumOver(ValueOf, Groups(LinesIn(c)))
      BY <2>2, <2>4, <2>5, ValueSum
    <2>7. MapThenSumSet(Invoiced, InvoiceGroups(c)) = SumOver(InvoicedOf, Groups(LinesIn(c)))
      BY <2>2, <2>4, <2>5, InvoicedSum
    <2>8. MapThenSumSet(Covered, {o \in book.orders : o.currency = c})
            = SumOver(f, OrdersIn(c))
      <3>1. IsFiniteSet(OrdersIn(c)) /\ OrdersIn(c) \subseteq book.orders
        BY <2>1, OrdersInType
      <3>2. \A o \in OrdersIn(c) : f[o] = Covered(o)
        BY <3>1
      <3> HIDE DEF f
      <3> QED BY <2>3, <3>1, <3>2, CoveredSum
    <2> QED BY <2>2, <2>6, <2>7, <2>8, ExposureOfCurrency
  <1> QED BY <1>1, InitExposure, ExposureStep, AnalysisInvariant, PTL DEF Spec
-----------------------------------------------------------------------------
(* The rows of the files.                                                  *)

(* The three files, in the order of the transaction.                       *)
LEMMA SourcesAre ==
  /\ DOMAIN SourceType = 1..3 /\ Len(SourceType) = 3
  /\ SourceType[1] = "purchase_orders" /\ SourceType[2] = "receipts"
  /\ SourceType[3] = "invoices"
  /\ ToSet(SourceType) = {"purchase_orders", "receipts", "invoices"}
  BY DEF SourceType, ToSet

(* The files an analysis asks for.                                         *)
LEMMA RequiredAre ==
  ASSUME mode \in Mode
  PROVE  /\ RequiredSources \subseteq {"purchase_orders", "receipts", "invoices"}
         /\ RequiredSources # {}
         /\ "invoices" \in RequiredSources <=> mode # "PO_RECEIPT"
         /\ mode = "PO_RECEIPT" => "purchase_orders" \in RequiredSources
  <1>1. CASE mode = "INVOICE_PO"
    BY <1>1 DEF RequiredSources
  <1>2. CASE mode = "INVOICE_RECEIPT"
    BY <1>2 DEF RequiredSources
  <1>3. CASE mode = "PO_RECEIPT"
    BY <1>3 DEF RequiredSources
  <1>4. CASE mode = "THREE_WAY"
    BY <1>4, SourcesAre DEF RequiredSources
  <1> QED BY <1>1, <1>2, <1>3, <1>4 DEF Mode

(* The rows of the three tables by place.                                  *)
LEMMA OrderRow ==
  ASSUME book \in Books, NEW o \in book.orders
  PROVE  /\ OrderPlace(o.po, o.line) \in RowsOf("purchase_orders")
         /\ OrderPlace(o.po, o.line).table = "purchase_orders"
         /\ Row(OrderPlace(o.po, o.line)) = o
         /\ DocumentKey(OrderPlace(o.po, o.line)) = <<o.po>>
  <1> DEFINE p == OrderPlace(o.po, o.line)
  <1>1. p.table = "purchase_orders" /\ p.po = o.po /\ p.line = o.line
    BY DEF OrderPlace
  <1>2. p \in RowsOf("purchase_orders")
    BY DEF RowsOf
  <1>3. Row(p) = OrderOf([po |-> p.po, poLine |-> p.line])
    BY <1>1 DEF Row
  <1>4. Row(p) = o
    <2> DEFINE row == [po |-> p.po, poLine |-> p.line]
    <2>1. o.po = row.po /\ o.line = row.poLine
      BY <1>1
    <2> HIDE DEF row
    <2>2. OrderOf(row) = o
      BY <2>1, OrderIs
    <2> QED BY <2>2, <1>3 DEF row
  <1>5. DocumentKey(p) = <<o.po>>
    BY <1>1, <1>4 DEF DocumentKey
  <1> QED BY <1>1, <1>2, <1>4, <1>5

(* A receipt line by its place.                                            *)
LEMMA ReceiptRow ==
  ASSUME NEW n \in DOMAIN book.receipts
  PROVE  /\ Place("receipts", n) \in RowsOf("receipts")
         /\ Place("receipts", n).table = "receipts"
         /\ Row(Place("receipts", n)) = book.receipts[n]
         /\ DocumentKey(Place("receipts", n)) = <<book.receipts[n].receipt>>
  <1> DEFINE p == Place("receipts", n)
  <1>1. p.table = "receipts" /\ p.n = n /\ p \in RowsOf("receipts")
    BY DEF Place, RowsOf
  <1>2. Row(p) = book.receipts[n]
    BY <1>1 DEF Row
  <1> QED BY <1>1, <1>2 DEF DocumentKey

(* An invoice line by its place.                                           *)
LEMMA InvoiceRow ==
  ASSUME NEW k \in Lines
  PROVE  /\ Place("invoices", k) \in RowsOf("invoices")
         /\ Place("invoices", k).table = "invoices"
         /\ Row(Place("invoices", k)) = Line(k)
         /\ DocumentKey(Place("invoices", k)) = <<Line(k).supplier, Line(k).number>>
  <1> DEFINE p == Place("invoices", k)
  <1>1. p.table = "invoices" /\ p.n = k /\ p \in RowsOf("invoices")
    BY DEF Place, RowsOf
  <1>2. Row(p) = Line(k)
    BY <1>1 DEF Row
  <1> QED BY <1>1, <1>2 DEF DocumentKey

(* The places of the three files.                                          *)
LEMMA PlacesAre ==
  ASSUME NEW p
  PROVE  /\ p \in RowsOf("purchase_orders") <=> \E o \in book.orders : p = OrderPlace(o.po, o.line)
         /\ p \in RowsOf("receipts") <=> \E n \in DOMAIN book.receipts : p = Place("receipts", n)
         /\ p \in RowsOf("invoices") <=> \E k \in Lines : p = Place("invoices", k)
  BY DEF RowsOf

(* Lines of one document agree on its supplier and its currency.           *)
LEMMA DocumentsAgree ==
  ASSUME book \in Books, NEW t \in {"purchase_orders", "invoices"},
         NEW p \in RowsOf(t), NEW q \in RowsOf(t), DocumentKey(p) = DocumentKey(q)
  PROVE  Row(p).supplier = Row(q).supplier /\ Row(p).currency = Row(q).currency
  <1>1. Loaded(book)
    BY BookAssumption
  <1>2. CASE t = "purchase_orders"
    <2>1. PICK o \in book.orders : p = OrderPlace(o.po, o.line)
      BY <1>2, PlacesAre
    <2>2. PICK z \in book.orders : q = OrderPlace(z.po, z.line)
      BY <1>2, PlacesAre
    <2>3. Row(p) = o /\ Row(q) = z /\ o.po = z.po
      BY <2>1, <2>2, OrderRow
    <2> QED BY <2>3, <1>1 DEF Loaded
  <1>3. CASE t = "invoices"
    <2>1. PICK k \in Lines : p = Place("invoices", k)
      BY <1>3, PlacesAre
    <2>2. PICK j \in Lines : q = Place("invoices", j)
      BY <1>3, PlacesAre
    <2>3. /\ Row(p) = Line(k) /\ Row(q) = Line(j)
          /\ Line(k).supplier = Line(j).supplier /\ Line(k).number = Line(j).number
      BY <2>1, <2>2, InvoiceRow
    <2>4. \A a, z \in DOMAIN book.invoices :
            book.invoices[a].supplier = book.invoices[z].supplier
              /\ book.invoices[a].number = book.invoices[z].number
            => book.invoices[a].currency = book.invoices[z].currency
      BY <1>1 DEF Loaded
    <2> QED BY <2>3, <2>4 DEF Lines, Line
  <1> QED BY <1>2, <1>3

(* A line of an order or a receipt is known by its document and number.    *)
LEMMA NumbersTell ==
  ASSUME book \in Books, NEW t \in {"purchase_orders", "receipts"},
         NEW p \in RowsOf(t), NEW q \in RowsOf(t), DocumentKey(p) = DocumentKey(q),
         Row(p).line = Row(q).line
  PROVE  p = q
  <1>1. Loaded(book)
    BY BookAssumption
  <1>2. CASE t = "purchase_orders"
    <2>1. PICK o \in book.orders : p = OrderPlace(o.po, o.line)
      BY <1>2, PlacesAre
    <2>2. PICK z \in book.orders : q = OrderPlace(z.po, z.line)
      BY <1>2, PlacesAre
    <2>3. o.po = z.po /\ o.line = z.line
      BY <2>1, <2>2, OrderRow
    <2> QED BY <2>1, <2>2, <2>3
  <1>3. CASE t = "receipts"
    <2>1. PICK n \in DOMAIN book.receipts : p = Place("receipts", n)
      BY <1>3, PlacesAre
    <2>2. PICK m \in DOMAIN book.receipts : q = Place("receipts", m)
      BY <1>3, PlacesAre
    <2>3. /\ book.receipts[n].receipt = book.receipts[m].receipt
          /\ book.receipts[n].line = book.receipts[m].line
      BY <2>1, <2>2, ReceiptRow
    <2> QED BY <2>1, <2>2, <2>3, <1>1 DEF Loaded
  <1> QED BY <1>2, <1>3

-----------------------------------------------------------------------------
(* What the transaction has stored.                                        *)

(* The order line a stored row is resolved to.                             *)
Resolved(row) ==
    IF /\ "purchase_orders" \in RequiredSources
       /\ \E o \in book.orders : o.po = row.po /\ o.line = row.poLine /\ o.item = row.item
    THEN OrderPlace(row.po, row.poLine) ELSE None
Kept(p) ==
    [place |-> p, document |-> DocumentKey(p),
     order |-> IF p.table = "purchase_orders" THEN None ELSE Resolved(Row(p))]
PlacesIn(types) == UNION {RowsOf(t) : t \in types}

(* The orders are stored before what refers to them.                       *)
OrdersFirst ==
    "purchase_orders" \in RequiredSources \ files => files = {}
LinesFit == lines = {Kept(p) : p \in PlacesIn(files)}
HeadersFit ==
    /\ DOMAIN headers = {<<p.table, DocumentKey(p)>> : p \in PlacesIn(files)}
    /\ \A t \in files \ {"receipts"} : \A p \in RowsOf(t) :
        /\ headers[<<t, DocumentKey(p)>>].supplier = Row(p).supplier
        /\ headers[<<t, DocumentKey(p)>>].currency = Row(p).currency
ValuesFit == \A t \in files : \A p \in RowsOf(t) : Fits(Row(p))
StoredInv ==
    /\ files \subseteq RequiredSources /\ OrdersFirst
    /\ LinesFit /\ HeadersFit /\ ValuesFit

(* A place tells its file.                                                 *)
LEMMA TablesAre ==
  ASSUME NEW t \in {"purchase_orders", "receipts", "invoices"}, NEW p \in RowsOf(t)
  PROVE  p.table = t
  BY PlacesAre DEF Place, OrderPlace

(* A stored line tells its place and its document.                         *)
LEMMA PlaceIsItself == ASSUME NEW p PROVE Kept(p).place = p /\ Kept(p).document = DocumentKey(p)
  BY DEF Kept

(* The index is final once the orders are stored.                          *)
LEMMA IndexIsFinal ==
  ASSUME book \in Books, mode \in Mode, StoredInv,
         files # {} \/ "purchase_orders" \notin RequiredSources,
         NEW row
  PROVE  OrderIndex(row) = Resolved(row)
  <1> DEFINE found == \E l \in lines : /\ l.place = OrderPlace(row.po, row.poLine)
                                       /\ Row(l.place).item = row.item
             known == /\ "purchase_orders" \in RequiredSources
                      /\ \E o \in book.orders : o.po = row.po /\ o.line = row.poLine
                                                /\ o.item = row.item
  <1>0. "purchase_orders" \in files <=> "purchase_orders" \in RequiredSources
    BY DEF StoredInv, OrdersFirst
  <1>1. ASSUME found PROVE known
    <2>1. PICK l \in lines : l.place = OrderPlace(row.po, row.poLine) /\ Row(l.place).item = row.item
      BY <1>1
    <2>2. PICK t \in files : \E p \in RowsOf(t) : l = Kept(p)
      BY DEF StoredInv, LinesFit, PlacesIn
    <2>3. PICK p \in RowsOf(t) : l = Kept(p)
      BY <2>2
    <2>4. p = OrderPlace(row.po, row.poLine) /\ Row(p).item = row.item
      BY <2>1, <2>3, PlaceIsItself
    <2>5. t \in RequiredSources /\ p.table = "purchase_orders"
      BY <2>2, <2>4 DEF StoredInv, OrderPlace
    <2>6. t = "purchase_orders"
      BY <2>5, TablesAre, RequiredAre
    <2>7. PICK o \in book.orders : p = OrderPlace(o.po, o.line)
      BY <2>6, PlacesAre
    <2>8. Row(p) = o /\ o.po = row.po /\ o.line = row.poLine
      <3>1. Row(p) = o
        BY <2>7, OrderRow
      <3>2. o.po = row.po /\ o.line = row.poLine
        <4>1. OrderPlace(o.po, o.line) = OrderPlace(row.po, row.poLine)
          BY <2>4, <2>7
        <4> QED BY <4>1 DEF OrderPlace
      <3> QED BY <3>1, <3>2
    <2> QED BY <2>4, <2>5, <2>6, <2>8
  <1>2. ASSUME known PROVE found
    <2>1. PICK o \in book.orders : o.po = row.po /\ o.line = row.poLine /\ o.item = row.item
      BY <1>2
    <2> DEFINE p == OrderPlace(o.po, o.line)
    <2>2. p \in RowsOf("purchase_orders") /\ Row(p) = o
      BY OrderRow
    <2>3. p \in PlacesIn(files)
      BY <2>2, <1>2, <1>0 DEF PlacesIn
    <2>4. Kept(p) \in lines
      BY <2>3 DEF StoredInv, LinesFit
    <2> QED BY <2>1, <2>2, <2>4, PlaceIsItself
  <1>3. found <=> known
    BY <1>1, <1>2
  <1> QED BY <1>3 DEF OrderIndex, Resolved

(* The files are stored in order, the orders before what refers to them.   *)
LEMMA FirstFile ==
  ASSUME mode \in Mode, NextFile # 0
  PROVE  /\ SourceType[NextFile] \in RequiredSources \ files
         /\ "purchase_orders" \in RequiredSources \ files =>
                SourceType[NextFile] = "purchase_orders"
         /\ SourceType[NextFile] = "invoices" => RequiredSources \ files = {"invoices"}
  <1> DEFINE I == {i \in 1..Len(SourceType) : SourceType[i] \in RequiredSources \ files}
  <1>1. NextFile = IF I # {} THEN Min(I) ELSE 0
    BY DEF NextFile, SelectInSeq
  <1>2. I \in SUBSET Nat /\ I # {}
    BY <1>1, SourcesAre
  <1>3. NextFile = CHOOSE x \in I : \A y \in I : x <= y
    BY <1>1, <1>2 DEF Min
  <1>4. \E x \in I : \A y \in I : x <= y
    <2> HIDE DEF I
    <2> QED BY <1>2, LeastExists
  <1>5. NextFile \in I /\ \A y \in I : NextFile <= y
    <2> HIDE DEF I
    <2> QED BY <1>3, <1>4
  <1>6. NextFile \in 1..3
    BY <1>5, SourcesAre
  <1>7. ASSUME "purchase_orders" \in RequiredSources \ files
        PROVE  SourceType[NextFile] = "purchase_orders"
    <2>1. 1 \in I
      BY <1>7, SourcesAre
    <2> QED BY <2>1, <1>5, <1>6, SourcesAre
  <1>8. ASSUME SourceType[NextFile] = "invoices"
        PROVE  RequiredSources \ files = {"invoices"}
    <2>1. NextFile = 3
      BY <1>6, <1>8, SourcesAre
    <2>2. 1 \notin I /\ 2 \notin I
      BY <2>1, <1>5
    <2>3. "purchase_orders" \notin RequiredSources \ files
          /\ "receipts" \notin RequiredSources \ files
      BY <2>2, SourcesAre
    <2> QED BY <2>3, <1>5, <1>8, RequiredAre
  <1> QED BY <1>5, <1>7, <1>8

(* One more file.                                                          *)
LEMMA AddedAre ==
  ASSUME book \in Books, mode \in Mode, StoredInv, NextFile # 0
  PROVE  {StoredLine(p) : p \in RowsOf(SourceType[NextFile])}
            = {Kept(p) : p \in RowsOf(SourceType[NextFile])}
  <1> DEFINE type == SourceType[NextFile]
  <1>1. type \in RequiredSources \ files
        /\ ("purchase_orders" \in RequiredSources \ files => type = "purchase_orders")
    BY FirstFile
  <1>2. type \in {"purchase_orders", "receipts", "invoices"}
    BY <1>1, RequiredAre
  <1>3. ASSUME NEW p \in RowsOf(type) PROVE StoredLine(p) = Kept(p)
    <2>1. p.table = type
      BY <1>2, <1>3, TablesAre
    <2>2. CASE type = "purchase_orders"
      BY <2>1, <2>2 DEF StoredLine, Kept
    <2>3. CASE type # "purchase_orders"
      <3>1. files # {} \/ "purchase_orders" \notin RequiredSources
        BY <2>3, <1>1
      <3>2. OrderIndex(Row(p)) = Resolved(Row(p))
        BY <3>1, IndexIsFinal
      <3> QED BY <3>2, <2>1, <2>3 DEF StoredLine, Kept
    <2> QED BY <2>2, <2>3
  <1> HIDE DEF type
  <1>4. {StoredLine(p) : p \in RowsOf(type)} = {Kept(p) : p \in RowsOf(type)}
    BY <1>3
  <1> QED BY <1>4 DEF type

(* The rows of a loaded file fit the tables but for a value they cannot    *)
(* hold.                                                                   *)
LEMMA RefusedCannotBeHeld ==
  ASSUME book \in Books, mode \in Mode, NEW t \in RequiredSources,
         ~Storable(t, {Kept(p) : p \in RowsOf(t)})
  PROVE  CannotBeHeld
  <1> DEFINE added == {Kept(p) : p \in RowsOf(t)}
  <1>1. t \in {"purchase_orders", "receipts", "invoices"}
    BY RequiredAre
  <1>2. ASSUME NEW l \in added, NEW m \in added, t # "invoices",
               l.document = m.document, Row(l.place).line = Row(m.place).line
        PROVE  l = m
    <2>1. PICK p \in RowsOf(t) : l = Kept(p)
      BY <1>2
    <2>2. PICK q \in RowsOf(t) : m = Kept(q)
      BY <1>2
    <2>3. DocumentKey(p) = DocumentKey(q) /\ Row(p).line = Row(q).line
      BY <1>2, <2>1, <2>2, PlaceIsItself
    <2> QED BY <2>1, <2>2, <2>3, <1>1, <1>2, NumbersTell
  <1>3. PICK l \in added : ~Fits(Row(l.place))
    BY <1>2 DEF Storable
  <1>4. PICK p \in RowsOf(t) : l = Kept(p)
    BY <1>3
  <1>5. ~Fits(Row(p))
    BY <1>3, <1>4, PlaceIsItself
  <1> QED BY <1>5 DEF CannotBeHeld

(* What is read from the files alone does not change.                      *)
LEMMA FilesAreFixed ==
  ASSUME book' = book, mode' = mode
  PROVE  /\ RequiredSources' = RequiredSources /\ Lines' = Lines
         /\ \A t : RowsOf(t)' = RowsOf(t)
         /\ \A p : /\ Row(p)' = Row(p) /\ DocumentKey(p)' = DocumentKey(p)
                   /\ Kept(p)' = Kept(p)
         /\ \A row : Resolved(row)' = Resolved(row)
         /\ \A k : Line(k)' = Line(k) /\ SortKey(k)' = SortKey(k)
  <1>1. RequiredSources' = RequiredSources /\ Lines' = Lines
    BY DEF RequiredSources, Lines
  <1>2. ASSUME NEW t PROVE RowsOf(t)' = RowsOf(t)
    BY <1>1 DEF RowsOf
  <1>3. ASSUME NEW p PROVE Row(p)' = Row(p)
    BY DEF Row, OrderOf, Line
  <1>4. ASSUME NEW p PROVE DocumentKey(p)' = DocumentKey(p)
    BY <1>3 DEF DocumentKey
  <1>5. ASSUME NEW row PROVE Resolved(row)' = Resolved(row)
    BY <1>1 DEF Resolved
  <1>6. ASSUME NEW p PROVE Kept(p)' = Kept(p)
    BY <1>3, <1>4, <1>5 DEF Kept
  <1>7. ASSUME NEW k PROVE Line(k)' = Line(k) /\ SortKey(k)' = SortKey(k)
    BY DEF Line, SortKey
  <1> QED BY <1>1, <1>2, <1>3, <1>4, <1>5, <1>6, <1>7

(* A file that fits is stored.                                             *)
LEMMA ImportStored ==
  ASSUME TypeOK, book \in Books, StoredInv, Import
  PROVE  /\ StoredInv'
         /\ run' = "refused" => CannotBeHeld
  <1> DEFINE type == SourceType[NextFile]
             added == {StoredLine(p) : p \in RowsOf(type)}
             key(p) == <<type, DocumentKey(p)>>
  <1>1. mode \in Mode /\ NextFile # 0 /\ book' = book /\ mode' = mode /\ run = "none"
    BY DEF TypeOK, Import, vars
  <1>2. /\ type \in RequiredSources \ files
        /\ ("purchase_orders" \in RequiredSources \ files => type = "purchase_orders")
        /\ type \in {"purchase_orders", "receipts", "invoices"}
    BY <1>1, FirstFile, RequiredAre
  <1>3. added = {Kept(p) : p \in RowsOf(type)}
    BY <1>1, AddedAre
  <1>4. /\ RequiredSources' = RequiredSources
        /\ \A t : RowsOf(t)' = RowsOf(t)
        /\ \A p : /\ Row(p)' = Row(p) /\ DocumentKey(p)' = DocumentKey(p)
                  /\ Kept(p)' = Kept(p)
    BY <1>1, FilesAreFixed
  <1>5. CASE ~Storable(type, added)
    <2>1. run' = "refused" /\ files' = {} /\ lines' = {} /\ headers' = <<>>
      BY <1>5 DEF Import
    <2>2. CannotBeHeld
      BY <1>1, <1>2, <1>3, <1>5, RefusedCannotBeHeld
    <2>3. StoredInv'
      BY <2>1 DEF StoredInv, OrdersFirst, LinesFit, HeadersFit, ValuesFit, PlacesIn
    <2> QED BY <2>2, <2>3
  <1>6. CASE Storable(type, added)
    <2> DEFINE keys == DOMAIN headers \cup {<<type, l.document>> : l \in added}
               chosen(h) == CHOOSE l \in added : l.document = h[2]
    <2>1. /\ files' = files \cup {type} /\ lines' = lines \cup added /\ run' = run
          /\ headers' = [h \in keys |-> IF h \in DOMAIN headers THEN headers[h]
                                         ELSE DocumentOf(chosen(h).place)]
      BY <1>6 DEF Import
    <2>2. PlacesIn(files)' = PlacesIn(files) \cup RowsOf(type)
      BY <1>4, <2>1 DEF PlacesIn
    <2>3. LinesFit'
      <3>1. lines = {Kept(p) : p \in PlacesIn(files)}
        BY DEF StoredInv, LinesFit
      <3>2. lines' = {Kept(p) : p \in PlacesIn(files) \cup RowsOf(type)}
        BY <2>1, <1>3, <3>1
      <3>3. lines' = {Kept(p)' : p \in PlacesIn(files)'}
        BY <3>2, <2>2, <1>4
      <3> QED BY <3>3 DEF LinesFit
    <2>4. {<<type, l.document>> : l \in added} = {key(p) : p \in RowsOf(type)}
      <3>1. \A p : Kept(p).document = DocumentKey(p)
        BY PlaceIsItself
      <3> HIDE DEF type
      <3> QED BY <1>3, <3>1
    <2>5. keys = {<<p.table, DocumentKey(p)>> : p \in PlacesIn(files) \cup RowsOf(type)}
      <3>1. \A p \in RowsOf(type) : p.table = type
        BY <1>2, TablesAre
      <3>2. DOMAIN headers = {<<p.table, DocumentKey(p)>> : p \in PlacesIn(files)}
        BY DEF StoredInv, HeadersFit
      <3> HIDE DEF added, type
      <3> QED BY <2>4, <3>1, <3>2
    <2>6. ASSUME NEW p \in RowsOf(type) PROVE key(p) \notin DOMAIN headers
      <3>1. SUFFICES ASSUME key(p) \in DOMAIN headers PROVE FALSE
        OBVIOUS
      <3>2. PICK q \in PlacesIn(files) : key(p) = <<q.table, DocumentKey(q)>>
        BY <3>1 DEF StoredInv, HeadersFit
      <3>3. PICK t \in files : q \in RowsOf(t)
        BY DEF PlacesIn
      <3>4. t \in {"purchase_orders", "receipts", "invoices"} /\ q.table = type
        BY <1>1, <3>2, RequiredAre DEF StoredInv
      <3> QED BY <1>2, <3>3, <3>4, TablesAre
    <2>7. ASSUME NEW p \in RowsOf(type), type # "receipts"
          PROVE  /\ headers'[key(p)].supplier = Row(p).supplier
                 /\ headers'[key(p)].currency = Row(p).currency
      <3>1. key(p) \in keys /\ key(p) \notin DOMAIN headers
        BY <2>4, <2>6
      <3>2. headers'[key(p)] = DocumentOf(chosen(key(p)).place)
        BY <2>1, <3>1
      <3>3. Kept(p) \in added /\ Kept(p).document = key(p)[2]
        BY <1>3, PlaceIsItself
      <3>4. chosen(key(p)) \in added /\ chosen(key(p)).document = key(p)[2]
        BY <3>3
      <3>5. PICK q \in RowsOf(type) : chosen(key(p)) = Kept(q)
        BY <1>3, <3>4
      <3>6. chosen(key(p)).place = q /\ DocumentKey(q) = DocumentKey(p)
        BY <3>4, <3>5, PlaceIsItself
      <3>7. q.table = type
        BY <1>2, TablesAre
      <3>8. DocumentOf(q).supplier = Row(q).supplier /\ DocumentOf(q).currency = Row(q).currency
        BY <3>7, <2>7 DEF DocumentOf
      <3>9. Row(q).supplier = Row(p).supplier /\ Row(q).currency = Row(p).currency
        BY <3>6, <2>7, <1>2, DocumentsAgree
      <3> QED BY <3>2, <3>6, <3>8, <3>9
    <2>8. ASSUME NEW t \in files \ {"receipts"}, NEW p \in RowsOf(t)
          PROVE  /\ headers'[<<t, DocumentKey(p)>>].supplier = Row(p).supplier
                 /\ headers'[<<t, DocumentKey(p)>>].currency = Row(p).currency
      <3>1. p.table = t
        BY <1>1, RequiredAre, TablesAre DEF StoredInv
      <3>2. <<t, DocumentKey(p)>> \in DOMAIN headers
        BY <3>1 DEF StoredInv, HeadersFit, PlacesIn
      <3>3. headers'[<<t, DocumentKey(p)>>] = headers[<<t, DocumentKey(p)>>]
        BY <3>2, <2>1
      <3> QED BY <3>3 DEF StoredInv, HeadersFit
    <2>9. HeadersFit'
      <3>1. DOMAIN headers' = {<<p.table, DocumentKey(p)'>> : p \in PlacesIn(files)'}
        BY <2>1, <2>2, <2>5, <1>4
      <3>2. ASSUME NEW t \in files' \ {"receipts"}, NEW p \in RowsOf(t)'
            PROVE  /\ headers'[<<t, DocumentKey(p)'>>].supplier = Row(p)'.supplier
                   /\ headers'[<<t, DocumentKey(p)'>>].currency = Row(p)'.currency
        <4>1. DocumentKey(p)' = DocumentKey(p) /\ Row(p)' = Row(p) /\ p \in RowsOf(t)
          BY <1>4
        <4>2. CASE t = type
          BY <4>1, <4>2, <2>7
        <4>3. CASE t # type
          BY <4>1, <4>3, <2>1, <2>8
        <4> QED BY <4>2, <4>3
      <3> QED BY <3>1, <3>2 DEF HeadersFit
    <2>10. ValuesFit'
      <3>1. \A p \in RowsOf(type) : Fits(Row(p))
        <4>1. ASSUME NEW p \in RowsOf(type) PROVE Fits(Row(p))
          <5>1. Kept(p) \in added /\ Kept(p).place = p
            BY <1>3, PlaceIsItself
          <5> HIDE DEF added, type
          <5> QED BY <5>1, <1>6 DEF Storable
        <4> QED BY <4>1
      <3> HIDE DEF type
      <3> QED BY <3>1, <2>1, <1>4 DEF StoredInv, ValuesFit
    <2>11. files' \subseteq RequiredSources' /\ OrdersFirst'
      BY <1>2, <1>4, <2>1 DEF StoredInv, OrdersFirst
    <2> QED BY <2>1, <1>1, <2>3, <2>9, <2>10, <2>11 DEF StoredInv
  <1> QED BY <1>5, <1>6
-----------------------------------------------------------------------------
(* Lists of findings.                                                      *)

(* s lists the elements of S, each once.                                   *)
IsListing(s, S) == s \in Seq(S) /\ ToSet(s) = S /\ IsInjective(s)

(* The empty list.                                                         *)
LEMMA NothingIsListed == ASSUME NEW s, s = <<>> PROVE IsListing(s, {})
  BY DEF IsListing, ToSet, IsInjective

(* A list of one element.                                                  *)
LEMMA OneIsListed == ASSUME NEW x PROVE IsListing(<<x>>, {x})
  BY DEF IsListing, ToSet, IsInjective

(* A finite set written as a list lists it.                                *)
LEMMA SetIsListed ==
  ASSUME NEW S, IsFiniteSet(S)
  PROVE  IsListing(SetToSeq(S), S)
  <1> DEFINE n == Cardinality(S)
             f == SetToSeq(S)
  <1>1. n \in Nat /\ ExistsBijection(1..n, S)
    BY FS_CardinalityType
  <1>2. \E g \in [1..n -> S] : IsInjective(g)
    BY <1>1 DEF ExistsBijection, Bijection, Injection, IsInjective
  <1>3. f \in [1..n -> S] /\ IsInjective(f)
    BY <1>2 DEF SetToSeq
  <1>4. f \in Seq(S)
    BY <1>1, <1>3
  <1>5. f \in Injection(1..n, S)
    BY <1>3 DEF Injection, IsInjective
  <1>6. Cardinality(1..n) = n
    BY <1>1, FS_Interval
  <1>7. f \in Surjection(1..n, S)
    BY <1>5, <1>6, FS_Injection
  <1>8. ToSet(f) = S
    BY <1>3, <1>7 DEF ToSet, Surjection
  <1> QED BY <1>3, <1>4, <1>8 DEF IsListing

(* Lists of two sets that are apart, one after the other.                  *)
LEMMA ListsJoin ==
  ASSUME NEW s, NEW S, NEW t, NEW T, IsListing(s, S), IsListing(t, T), S \cap T = {}
  PROVE  IsListing(s \o t, S \cup T)
  <1> DEFINE u == s \o t
  <1>1. s \in Seq(S \cup T) /\ t \in Seq(S \cup T)
    BY DEF IsListing
  <1>2. u \in Seq(S \cup T) /\ Len(u) = Len(s) + Len(t) /\ Len(s) \in Nat /\ Len(t) \in Nat
    BY <1>1
  <1>3. DOMAIN u = 1..Len(u) /\ DOMAIN s = 1..Len(s) /\ DOMAIN t = 1..Len(t)
    BY <1>1, <1>2
  <1>4. \A i \in 1..Len(s) : u[i] = s[i] /\ u[i] \in S
    BY <1>1, <1>2, <1>3 DEF IsListing
  <1>5. \A i \in 1..Len(u) : i > Len(s) => i - Len(s) \in 1..Len(t) /\ u[i] = t[i - Len(s)]
                                            /\ u[i] \in T
    BY <1>1, <1>2, <1>3 DEF IsListing
  <1>6. ToSet(u) = S \cup T
    <2>1. ToSet(u) \subseteq S \cup T
      BY <1>2, <1>3 DEF ToSet
    <2>2. ASSUME NEW x \in S PROVE x \in ToSet(u)
      <3>1. PICK i \in 1..Len(s) : s[i] = x
        BY <1>3 DEF IsListing, ToSet
      <3> QED BY <3>1, <1>2, <1>3, <1>4 DEF ToSet
    <2>3. ASSUME NEW x \in T PROVE x \in ToSet(u)
      <3>1. PICK i \in 1..Len(t) : t[i] = x
        BY <1>3 DEF IsListing, ToSet
      <3>2. i + Len(s) \in 1..Len(u) /\ i + Len(s) > Len(s) /\ (i + Len(s)) - Len(s) = i
        BY <1>2
      <3>3. u[i + Len(s)] = x
        BY <3>1, <3>2, <1>5
      <3> QED BY <3>2, <3>3, <1>3 DEF ToSet
    <2> QED BY <2>1, <2>2, <2>3
  <1>7. IsInjective(u)
    <2> SUFFICES ASSUME NEW i \in 1..Len(u), NEW j \in 1..Len(u), u[i] = u[j]
                 PROVE  i = j
      BY <1>3 DEF IsInjective
    <2>1. \A a, b \in 1..Len(s) : s[a] = s[b] => a = b
      BY <1>3 DEF IsListing, IsInjective
    <2>2. \A a, b \in 1..Len(t) : t[a] = t[b] => a = b
      BY <1>3 DEF IsListing, IsInjective
    <2> HIDE DEF u
    <2>3. CASE i <= Len(s) /\ j <= Len(s)
      BY <2>1, <2>3, <1>2, <1>4
    <2>4. CASE i > Len(s) /\ j > Len(s)
      <3>1. i - Len(s) = j - Len(s)
        BY <2>2, <2>4, <1>5
      <3> QED BY <3>1, <1>2
    <2>5. CASE i <= Len(s) /\ j > Len(s)
      BY <2>5, <1>2, <1>4, <1>5
    <2>6. CASE i > Len(s) /\ j <= Len(s)
      BY <2>6, <1>2, <1>4, <1>5
    <2> QED BY <2>3, <2>4, <2>5, <2>6, <1>2
  <1> QED BY <1>2, <1>6, <1>7 DEF IsListing

(* A list is as long as what it lists is large.                            *)
LEMMA ListIsAsLong ==
  ASSUME NEW s, NEW S, IsListing(s, S)
  PROVE  Len(s) = Cardinality(S) /\ IsFiniteSet(S)
  <1>1. Len(s) \in Nat /\ s \in [1..Len(s) -> S] /\ DOMAIN s = 1..Len(s)
    BY DEF IsListing
  <1>2. s \in Bijection(1..Len(s), S)
    BY <1>1 DEF IsListing, ToSet, IsInjective, Bijection, Injection, Surjection
  <1>3. ExistsBijection(1..Len(s), S)
    BY <1>2 DEF ExistsBijection
  <1> QED BY <1>1, <1>3, FS_CountingElements, FS_NatBijection

-----------------------------------------------------------------------------
(* What the transaction has read of the report.                            *)

InvoiceFindings(k) ==
    {Finding(i, Place("invoices", k), Resolved(Line(k)), None) : i \in results[k].issues}
OrderFindings(o) ==
    IF Fulfilment(o) = "OVER_RECEIVED"
    THEN {Finding("OVER_RECEIVED", None, OrderPlace(o.po, o.line), None)} ELSE {}
OrphanFinding(n) == Finding(orphans[n], None, None, Place("receipts", n))
OrdersToRead == IF mode = "PO_RECEIPT" THEN book.orders ELSE {}

OfInvoices(ks) == UNION {InvoiceFindings(k) : k \in ks}
OfOrders(os) == UNION {OrderFindings(o) : o \in os}
OfOrphans(ns) == {OrphanFinding(n) : n \in ns}
FindingsOf(ks, os, ns) == OfInvoices(ks) \cup OfOrders(os) \cup OfOrphans(ns)
SoFar == FindingsOf(DOMAIN results \ unread.results, OrdersToRead \ unread.orders,
                    DOMAIN orphans \ unread.orphans)

NothingUnread == unread = [results |-> {}, orders |-> {}, orphans |-> {}]
UnreadFits ==
    unread \in [results: SUBSET DOMAIN results, orders: SUBSET OrdersToRead,
                orphans: SUBSET DOMAIN orphans]
(* The lines of a queue are those the report has not reached.              *)
WaitingFits ==
    waiting = IF "invoices" \in files
              THEN [key \in {SortKey(k) : k \in Lines} |->
                        {k \in unread.results : SortKey(k) = key}]
              ELSE <<>>
ReadInv ==
    /\ UnreadFits /\ WaitingFits
    /\ "invoices" \in files => files = RequiredSources
    /\ files # RequiredSources => findings = <<>> /\ NothingUnread
    /\ files = RequiredSources => IsListing(findings, SoFar)
RunInv ==
    /\ run \in {"none", "saved", "refused"}
    /\ files # {} \/ run # "none" => ReportReady
    /\ run = "refused" => CannotBeHeld
    /\ run = "saved" => files = RequiredSources /\ NothingUnread
EInv == IInv /\ OrderInv /\ StoredInv /\ ReadInv /\ RunInv
-----------------------------------------------------------------------------
(* What holds when the report is ready.                                    *)

(* The analysis of a report that is ready has ended.                       *)
LEMMA NothingMore == TypeOK /\ ReportReady => ~Next
  <1> SUFFICES ASSUME TypeOK, ReportReady, Next PROVE FALSE
    OBVIOUS
  <1>1. ~CountReceipt
    BY DEF CountReceipt, ReportReady, ReceiptsCounted, TypeOK, Book
  <1>2. ~NextGroup
    BY DEF NextGroup, ReportReady, First
  <1>3. \A k \in Lines : ~Analyse(k)
    BY DEF Analyse, ReportReady, First
  <1> QED BY <1>1, <1>2, <1>3 DEF Next

(* A report that is ready has a row for every invoice line.                *)
LEMMA EveryLineHasAResult ==
  ASSUME IInv, OrderInv, ReportReady
  PROVE  /\ "invoices" \in RequiredSources => DOMAIN results = Lines
         /\ "invoices" \notin RequiredSources => DOMAIN results = {}
  <1>1. mode \in Mode
    BY DEF IInv, TypeOK
  <1>2. CASE mode = "PO_RECEIPT"
    BY <1>1, <1>2, RequiredAre DEF IInv, Underway, Analysed
  <1>3. CASE mode # "PO_RECEIPT"
    BY <1>1, <1>3, RequiredAre DEF OrderInv, Covers, ReportReady, Analysed
  <1> QED BY <1>2, <1>3

(* A line does not come before itself, so of equal lines the first in the  *)
(* file is read first.                                                     *)
LEMMA KeyIsNotLess ==
  ASSUME TypeOK, NEW k \in Lines
  PROVE  ~Less(SortKey(k), SortKey(k))
  <1> DEFINE l == Line(k)
             a == <<l.date, l.supplier, l.number, l.line, l.po, l.poLine, l.item,
                    l.quantity, l.price, l.currency>>
  <1>1. l \in InvoiceLine
    BY LineType
  <1>2. SortKey(k) = a
    BY DEF SortKey
  <1>3. a \in Seq(Nat)
    <2>1. /\ l.date \in Nat /\ l.supplier \in Nat /\ l.number \in Nat /\ l.line \in Nat
          /\ l.po \in Nat /\ l.poLine \in Nat /\ l.item \in Nat /\ l.quantity \in Nat
          /\ l.price \in Nat /\ l.currency \in Nat
      BY <1>1 DEF InvoiceLine
    <2> HIDE DEF l
    <2> QED BY <2>1
  <1> HIDE DEF a
  <1>4. \A n \in DOMAIN a : ~(a[n] < a[n])
    BY <1>3
  <1> QED BY <1>2, <1>4 DEF Less

(* The line the report reads is the first of its queue.                    *)
LEMMA FirstIsLeast ==
  ASSUME TypeOK, NEW S \in SUBSET Lines, NEW k \in First(S)
  PROVE  Min({j \in S : SortKey(j) = SortKey(k)}) = k
  <1> DEFINE Q == {j \in S : SortKey(j) = SortKey(k)}
  <1>1. k \in Q /\ k \in Lines /\ Q \subseteq Nat
    BY DEF First, Lines, TypeOK, Book
  <1>2. ASSUME NEW j \in Q PROVE k <= j
    <2>1. CASE j = k
      BY <2>1, <1>1
    <2>2. CASE j # k
      <3>1. Precedes(k, j)
        BY <2>2 DEF First
      <3>2. ~Less(SortKey(k), SortKey(j))
        BY <1>1, KeyIsNotLess
      <3> QED BY <3>1, <3>2, <1>1 DEF Precedes
    <2> QED BY <2>1, <2>2
  <1>3. \A x \in Q : (\A y \in Q : x <= y) => x = k
    BY <1>1, <1>2
  <1> HIDE DEF Q
  <1>4. Min(Q) = k
    BY <1>1, <1>2, <1>3 DEF Min
  <1> QED BY <1>4 DEF Q

(* The findings of different rows differ.                                  *)
LEMMA FindingsDiffer ==
  /\ \A k, j, f : f \in InvoiceFindings(k) /\ f \in InvoiceFindings(j) => k = j
  /\ \A o, z, f : f \in OrderFindings(o) /\ f \in OrderFindings(z)
                    => o.po = z.po /\ o.line = z.line
  /\ \A n, m : OrphanFinding(n) = OrphanFinding(m) => n = m
  /\ \A k, o : InvoiceFindings(k) \cap OrderFindings(o) = {}
  /\ \A k, n : OrphanFinding(n) \notin InvoiceFindings(k)
  /\ \A o, n : OrphanFinding(n) \notin OrderFindings(o)
  <1>1. ASSUME NEW k, NEW f \in InvoiceFindings(k)
        PROVE  f.invoice = Place("invoices", k) /\ f.receipt = None
    BY DEF InvoiceFindings, Finding
  <1>2. ASSUME NEW o, NEW f \in OrderFindings(o)
        PROVE  f.invoice = None /\ f.order = OrderPlace(o.po, o.line) /\ f.receipt = None
    BY DEF OrderFindings, Finding
  <1>3. ASSUME NEW n
        PROVE  OrphanFinding(n).invoice = None /\ OrphanFinding(n).receipt = Place("receipts", n)
    BY DEF OrphanFinding, Finding
  <1>4. \A t, n : Place(t, n) # None \/ t = "none"
    BY DEF Place, None
  <1>5. \A t, n, m : Place(t, n) = Place(t, m) => n = m
    <2>1. \A t, n : Place(t, n).n = n
      BY DEF Place
    <2> QED BY <2>1
  <1>6. \A a, b, c, d : OrderPlace(a, b) = OrderPlace(c, d) => a = c /\ b = d
    <2>1. \A a, b : OrderPlace(a, b).po = a /\ OrderPlace(a, b).line = b
      BY DEF OrderPlace
    <2> QED BY <2>1
  <1>7. ASSUME NEW k, NEW j, NEW f, f \in InvoiceFindings(k), f \in InvoiceFindings(j)
        PROVE  k = j
    BY <1>7, <1>1, <1>5
  <1>8. ASSUME NEW o, NEW z, NEW f, f \in OrderFindings(o), f \in OrderFindings(z)
        PROVE  o.po = z.po /\ o.line = z.line
    BY <1>8, <1>2, <1>6
  <1>9. ASSUME NEW n, NEW m, OrphanFinding(n) = OrphanFinding(m) PROVE n = m
    BY <1>9, <1>3, <1>5
  <1>10. ASSUME NEW k, NEW o PROVE InvoiceFindings(k) \cap OrderFindings(o) = {}
    BY <1>1, <1>2, <1>4
  <1>11. ASSUME NEW k, NEW n PROVE OrphanFinding(n) \notin InvoiceFindings(k)
    BY <1>1, <1>3, <1>4
  <1>12. ASSUME NEW o, NEW n PROVE OrphanFinding(n) \notin OrderFindings(o)
    BY <1>2, <1>3, <1>4
  <1> QED BY <1>7, <1>8, <1>9, <1>10, <1>11, <1>12

(* A step that leaves the files and the report as they are.                *)
LEMMA ReportIsFixed ==
  ASSUME vars' = vars
  PROVE  /\ \A k : InvoiceFindings(k)' = InvoiceFindings(k)
         /\ \A o : OrderFindings(o)' = OrderFindings(o)
         /\ \A n : OrphanFinding(n)' = OrphanFinding(n)
         /\ OrdersToRead' = OrdersToRead /\ ReportReady' = ReportReady /\ CannotBeHeld' = CannotBeHeld
         /\ \A ks, os, ns : FindingsOf(ks, os, ns)' = FindingsOf(ks, os, ns)
  <1>1. /\ book' = book /\ mode' = mode /\ results' = results /\ orphans' = orphans
        /\ totals' = totals /\ counted' = counted /\ todo' = todo /\ batch' = batch
    BY DEF vars
  <1>2. /\ Lines' = Lines /\ RequiredSources' = RequiredSources
        /\ \A row : Resolved(row)' = Resolved(row)
        /\ \A k : Line(k)' = Line(k)
    BY <1>1, FilesAreFixed
  <1>3. ASSUME NEW k PROVE InvoiceFindings(k)' = InvoiceFindings(k)
    BY <1>1, <1>2 DEF InvoiceFindings
  <1>4. Slots' = Slots
    BY <1>1, BookIsFixed
  <1>5. ASSUME NEW o PROVE Fulfilment(o)' = Fulfilment(o)
    BY <1>1, <1>4 DEF Fulfilment, Received
  <1>6. ASSUME NEW o PROVE OrderFindings(o)' = OrderFindings(o)
    BY <1>5 DEF OrderFindings
  <1>7. ASSUME NEW n PROVE OrphanFinding(n)' = OrphanFinding(n)
    BY <1>1 DEF OrphanFinding
  <1>8. OrdersToRead' = OrdersToRead /\ ReportReady' = ReportReady /\ CannotBeHeld' = CannotBeHeld
    <2>1. OrdersToRead' = OrdersToRead /\ ReportReady' = ReportReady
      BY <1>1 DEF OrdersToRead, ReportReady, ReceiptsCounted
    <2>2. (\A t : RowsOf(t)' = RowsOf(t)) /\ \A p : Row(p)' = Row(p)
      BY <1>1, FilesAreFixed
    <2>3. \A p : Fits(Row(p))' = Fits(Row(p))
      BY <2>2 DEF Fits
    <2>4. CannotBeHeld' = CannotBeHeld
      BY <1>2, <2>2, <2>3 DEF CannotBeHeld
    <2> QED BY <2>1, <2>4
  <1>9. ASSUME NEW ks, NEW os, NEW ns PROVE FindingsOf(ks, os, ns)' = FindingsOf(ks, os, ns)
    BY <1>3, <1>6, <1>7 DEF FindingsOf, OfInvoices, OfOrders, OfOrphans
  <1> QED BY <1>3, <1>6, <1>7, <1>8, <1>9

(* A finding of the report says something of a row or of an orphan.        *)
LEMMA FindingsAre ==
  ASSUME NEW ks, NEW os, NEW ns, NEW x
  PROVE  x \in FindingsOf(ks, os, ns) <=>
            \/ \E k \in ks : x \in InvoiceFindings(k)
            \/ \E o \in os : x \in OrderFindings(o)
            \/ \E n \in ns : x = OrphanFinding(n)
  <1>1. x \in OfInvoices(ks) <=> \E k \in ks : x \in InvoiceFindings(k)
    BY Zenon DEF OfInvoices
  <1>2. x \in OfOrders(os) <=> \E o \in os : x \in OrderFindings(o)
    BY Zenon DEF OfOrders
  <1>3. x \in OfOrphans(ns) <=> \E n \in ns : x = OrphanFinding(n)
    BY Zenon DEF OfOrphans
  <1>4. \/ x \in OfInvoices(ks)
        \/ x \in OfOrders(os)
        \/ x \in OfOrphans(ns)
        <=> x \in FindingsOf(ks, os, ns)
    BY DEF FindingsOf
  <1> QED BY <1>1, <1>2, <1>3, <1>4, Zenon

(* Reading one more row adds its findings.                                 *)
LEMMA FindingsGrow ==
  ASSUME NEW ks, NEW os, NEW ns
  PROVE  /\ \A k : FindingsOf(ks \cup {k}, os, ns) = FindingsOf(ks, os, ns) \cup InvoiceFindings(k)
         /\ \A o : FindingsOf(ks, os \cup {o}, ns) = FindingsOf(ks, os, ns) \cup OrderFindings(o)
         /\ \A n : FindingsOf(ks, os, ns \cup {n}) = FindingsOf(ks, os, ns) \cup {OrphanFinding(n)}
  <1>1. ASSUME NEW k
        PROVE  FindingsOf(ks \cup {k}, os, ns) = FindingsOf(ks, os, ns) \cup InvoiceFindings(k)
    <2>1. ASSUME NEW x
          PROVE  x \in FindingsOf(ks \cup {k}, os, ns)
                    <=> x \in FindingsOf(ks, os, ns) \/ x \in InvoiceFindings(k)
      BY FindingsAre
    <2> QED BY <2>1
  <1>2. ASSUME NEW o
        PROVE  FindingsOf(ks, os \cup {o}, ns) = FindingsOf(ks, os, ns) \cup OrderFindings(o)
    <2>1. ASSUME NEW x
          PROVE  x \in FindingsOf(ks, os \cup {o}, ns)
                    <=> x \in FindingsOf(ks, os, ns) \/ x \in OrderFindings(o)
      BY FindingsAre
    <2> QED BY <2>1
  <1>3. ASSUME NEW n
        PROVE  FindingsOf(ks, os, ns \cup {n}) = FindingsOf(ks, os, ns) \cup {OrphanFinding(n)}
    <2>1. ASSUME NEW x
          PROVE  x \in FindingsOf(ks, os, ns \cup {n})
                    <=> x \in FindingsOf(ks, os, ns) \/ x \in {OrphanFinding(n)}
      BY FindingsAre
    <2> QED BY <2>1
  <1> QED BY <1>1, <1>2, <1>3

(* A step that stores nothing.                                             *)
LEMMA StoredStays ==
  ASSUME StoredInv, book' = book, mode' = mode, files' = files, headers' = headers,
         lines' = lines
  PROVE  StoredInv'
  <1>1. /\ RequiredSources' = RequiredSources
        /\ \A t : RowsOf(t)' = RowsOf(t)
        /\ \A p : /\ Row(p)' = Row(p) /\ DocumentKey(p)' = DocumentKey(p)
                  /\ Kept(p)' = Kept(p)
    BY FilesAreFixed
  <1>2. PlacesIn(files)' = PlacesIn(files)
    BY <1>1 DEF PlacesIn
  <1>3. OrdersFirst' /\ files' \subseteq RequiredSources'
    BY <1>1 DEF StoredInv, OrdersFirst
  <1>4. LinesFit'
    BY <1>1, <1>2 DEF StoredInv, LinesFit
  <1>5. HeadersFit'
    <2>1. DOMAIN headers' = {<<p.table, DocumentKey(p)'>> : p \in PlacesIn(files)'}
      BY <1>1, <1>2 DEF StoredInv, HeadersFit
    <2>2. ASSUME NEW t \in files' \ {"receipts"}, NEW p \in RowsOf(t)'
          PROVE  /\ headers'[<<t, DocumentKey(p)'>>].supplier = Row(p)'.supplier
                 /\ headers'[<<t, DocumentKey(p)'>>].currency = Row(p)'.currency
      BY <1>1 DEF StoredInv, HeadersFit
    <2> QED BY <2>1, <2>2 DEF HeadersFit
  <1>6. ValuesFit'
    BY <1>1 DEF StoredInv, ValuesFit
  <1> QED BY <1>3, <1>4, <1>5, <1>6 DEF StoredInv

(* Before the transaction nothing is stored.                               *)
LEMMA InitEInv == EInit => EInv
  <1> SUFFICES ASSUME EInit PROVE EInv
    OBVIOUS
  <1>1. Init /\ files = {} /\ headers = <<>> /\ lines = {} /\ waiting = <<>> /\ findings = <<>>
        /\ NothingUnread /\ run = "none"
    BY DEF EInit, NothingUnread
  <1>2. IInv /\ OrderInv /\ mode \in Mode
    BY <1>1, InitIInv, InitOrder DEF Init
  <1>3. StoredInv
    BY <1>1 DEF StoredInv, OrdersFirst, LinesFit, HeadersFit, ValuesFit, PlacesIn
  <1>4. ReadInv
    BY <1>1, <1>2, RequiredAre DEF ReadInv, UnreadFits, WaitingFits, NothingUnread
  <1>5. RunInv
    BY <1>1 DEF RunInv
  <1> QED BY <1>2, <1>3, <1>4, <1>5 DEF EInv

(* While the analysis runs nothing is stored.                              *)
LEMMA AnalysisE == EInv /\ Analysis => EInv'
  <1> SUFFICES ASSUME EInv, Analysis PROVE EInv'
    OBVIOUS
  <1>1. Next /\ UNCHANGED saving /\ TypeOK /\ mode \in Mode
    BY DEF Analysis, EInv, IInv, TypeOK
  <1>2. /\ files' = files /\ headers' = headers /\ lines' = lines /\ waiting' = waiting
        /\ findings' = findings /\ unread' = unread /\ run' = run
    BY <1>1 DEF saving
  <1>3. files = {} /\ run = "none"
    BY <1>1, NothingMore DEF EInv, RunInv
  <1>4. IInv' /\ OrderInv'
    <2>1. IInv'
      BY <1>1, CountStep, NextGroupStep, AnalyseStep DEF Next, EInv
    <2>2. OrderInv'
      BY <1>1, OrderStep DEF EInv
    <2> QED BY <2>1, <2>2
  <1>5. book' = book /\ mode' = mode
    BY <1>1 DEF Next, CountReceipt, NextGroup, Analyse
  <1>6. RequiredSources' = RequiredSources /\ RequiredSources # {}
    BY <1>1, <1>5, FilesAreFixed, RequiredAre
  <1>7. StoredInv'
    BY <1>2, <1>5, StoredStays DEF EInv
  <1>8. NothingUnread /\ findings = <<>> /\ waiting = <<>>
    BY <1>3, <1>6 DEF EInv, ReadInv, WaitingFits
  <1>9. ReadInv'
    BY <1>2, <1>3, <1>6, <1>8 DEF ReadInv, UnreadFits, WaitingFits, NothingUnread
  <1>10. RunInv'
    BY <1>2, <1>3 DEF RunInv
  <1> QED BY <1>4, <1>7, <1>9, <1>10 DEF EInv

(* The transaction does not touch the analysis.                            *)
LEMMA SavingKeepsAnalysis ==
  ASSUME IInv, OrderInv, vars' = vars
  PROVE  IInv' /\ OrderInv'
  BY UnchangedStep, OrderStep

(* The invariant survives the import of a file.                            *)
LEMMA ImportE == EInv /\ Import => EInv'
  <1> SUFFICES ASSUME EInv, Import PROVE EInv'
    OBVIOUS
  <1> DEFINE type == SourceType[NextFile]
             added == {StoredLine(p) : p \in RowsOf(type)}
  <1>1. /\ vars' = vars /\ book' = book /\ mode' = mode /\ findings' = findings
        /\ results' = results /\ orphans' = orphans
        /\ ReportReady /\ run = "none" /\ NextFile # 0
        /\ TypeOK /\ mode \in Mode /\ book \in Books
    BY DEF Import, EInv, IInv, OrderInv, TypeOK, vars
  <1>2. IInv' /\ OrderInv'
    BY <1>1, SavingKeepsAnalysis DEF EInv
  <1>3. StoredInv' /\ (run' = "refused" => CannotBeHeld)
    BY <1>1, ImportStored DEF EInv
  <1>4. /\ type \in RequiredSources \ files
        /\ type = "invoices" => RequiredSources \ files = {"invoices"}
    BY <1>1, FirstFile
  <1>5. /\ RequiredSources' = RequiredSources /\ Lines' = Lines
        /\ \A k : SortKey(k)' = SortKey(k)
        /\ OrdersToRead' = OrdersToRead /\ ReportReady' = ReportReady /\ CannotBeHeld' = CannotBeHeld
        /\ \A ks, os, ns : FindingsOf(ks, os, ns)' = FindingsOf(ks, os, ns)
    BY <1>1, FilesAreFixed, ReportIsFixed
  <1>6. findings = <<>> /\ NothingUnread /\ "invoices" \notin files /\ waiting = <<>>
    BY <1>4 DEF EInv, ReadInv, WaitingFits
  <1>7. CASE ~Storable(type, added)
    <2>1. run' = "refused" /\ files' = {} /\ waiting' = waiting /\ unread' = unread
      BY <1>7 DEF Import
    <2>2. ReadInv'
      BY <2>1, <1>1, <1>4, <1>5, <1>6 DEF ReadInv, UnreadFits, WaitingFits, NothingUnread
    <2>3. RunInv'
      BY <2>1, <1>1, <1>3, <1>5 DEF RunInv
    <2> QED BY <1>2, <1>3, <2>2, <2>3 DEF EInv
  <1>8. CASE Storable(type, added)
    <2>1. /\ files' = files \cup {type} /\ run' = run
          /\ waiting' = IF type # "invoices" THEN waiting
                        ELSE [key \in {SortKey(k) : k \in Lines} |->
                                  {k \in Lines : SortKey(k) = key}]
          /\ unread' = IF files' # RequiredSources THEN unread
                       ELSE [results |-> DOMAIN results,
                             orders  |-> IF mode = "PO_RECEIPT" THEN book.orders ELSE {},
                             orphans |-> DOMAIN orphans]
      BY <1>8 DEF Import
    <2>2. "invoices" \in files' => files' = RequiredSources
      BY <2>1, <1>4, <1>6 DEF EInv, StoredInv
    <2>3. files' \subseteq RequiredSources
      BY <2>1, <1>4 DEF EInv, StoredInv
    <2>4. UnreadFits'
      BY <2>1, <1>1, <1>5, <1>6 DEF UnreadFits, NothingUnread, OrdersToRead
    <2>5. WaitingFits'
      <3>1. CASE type # "invoices"
        BY <3>1, <2>1, <1>6 DEF WaitingFits
      <3>2. CASE type = "invoices"
        <4>1. files' = RequiredSources /\ "invoices" \in files' /\ DOMAIN results = Lines
          BY <3>2, <2>1, <2>2, <1>1, <1>4, EveryLineHasAResult DEF EInv
        <4>2. unread'.results = Lines
          BY <4>1, <2>1
        <4>3. waiting' = [key \in {SortKey(k) : k \in Lines} |-> {k \in Lines : SortKey(k) = key}]
          BY <3>2, <2>1
        <4> QED BY <4>1, <4>2, <4>3, <1>5 DEF WaitingFits
      <3> QED BY <3>1, <3>2
    <2>6. files' # RequiredSources => findings' = <<>> /\ NothingUnread'
      BY <2>1, <1>1, <1>6 DEF NothingUnread
    <2>7. files' = RequiredSources => IsListing(findings', SoFar')
      <3> SUFFICES ASSUME files' = RequiredSources PROVE IsListing(findings', SoFar')
        OBVIOUS
      <3>1. /\ unread'.results = DOMAIN results /\ unread'.orders = OrdersToRead
            /\ unread'.orphans = DOMAIN orphans
        BY <2>1 DEF OrdersToRead
      <3>2. SoFar' = FindingsOf({}, {}, {})
        BY <3>1, <1>1, <1>5 DEF SoFar
      <3>3. SoFar' = {}
        BY <3>2 DEF FindingsOf, OfInvoices, OfOrders, OfOrphans
      <3> QED BY <3>3, <1>1, <1>6, NothingIsListed
    <2>8. ReadInv'
      BY <2>2, <2>4, <2>5, <2>6, <2>7, <1>5 DEF ReadInv
    <2>9. RunInv'
      BY <2>1, <1>1, <1>5 DEF RunInv
    <2> QED BY <1>2, <1>3, <2>8, <2>9 DEF EInv
  <1> QED BY <1>7, <1>8

(* A step that reads a part of the report and writes its findings.         *)
LEMMA ReadingStep ==
  ASSUME NEW T, EInv, vars' = vars, files' = files, headers' = headers, lines' = lines, run' = run,
         run = "none", files = RequiredSources,
         IsListing(findings', SoFar \cup T), SoFar' = SoFar \cup T, UnreadFits', WaitingFits'
  PROVE  EInv'
  <1>1. book' = book /\ mode' = mode
    BY DEF vars
  <1>2. IInv' /\ OrderInv'
    BY SavingKeepsAnalysis DEF EInv
  <1>3. StoredInv'
    BY <1>1, StoredStays DEF EInv
  <1>4. RequiredSources' = RequiredSources /\ ReportReady' = ReportReady
    BY <1>1, FilesAreFixed, ReportIsFixed
  <1>5. ReadInv'
    BY <1>4 DEF EInv, ReadInv
  <1>6. RunInv'
    BY <1>4 DEF EInv, RunInv
  <1> QED BY <1>2, <1>3, <1>5, <1>6 DEF EInv

(* A report has finitely many kinds of issues.                             *)
LEMMA IssueCodesAreFinite == IsFiniteSet(IssueCode)
  <1>1. \A S, x : IsFiniteSet(S) => IsFiniteSet(S \cup {x})
    BY FS_AddElement
  <1>2. IssueCode = ((((((((((({} \cup {"UNKNOWN_PO"}) \cup {"UNKNOWN_ITEM"})
            \cup {"DUPLICATE_INVOICE"}) \cup {"SUPPLIER_MISMATCH"}) \cup {"CURRENCY_MISMATCH"})
            \cup {"MISSING_RECEIPT"}) \cup {"QUANTITY_EXCEEDS_PO"})
            \cup {"QUANTITY_EXCEEDS_RECEIPT"}) \cup {"PRICE_MISMATCH"})
            \cup {"RECEIPT_ITEM_MISMATCH"}) \cup {"OVER_RECEIVED"})
    BY DEF IssueCode
  <1> QED BY <1>1, <1>2, FS_EmptySet, Zenon

(* An invoice line of the report.                                          *)
LEMMA IndexInvoiceE == EInv /\ IndexInvoice => EInv'
  <1> SUFFICES ASSUME EInv, IndexInvoice PROVE EInv'
    OBVIOUS
  <1>1. PICK k \in First(unread.results) :
            /\ findings' = findings \o SetToSeq({Finding(code, Place("invoices", Claimed(k)),
                                                    OrderIndex(Line(k)), None) :
                                                        code \in results[k].issues})
            /\ waiting' = [waiting EXCEPT ![SortKey(k)] = @ \ {Claimed(k)}]
            /\ unread' = [unread EXCEPT !.results = @ \ {k}]
    BY DEF IndexInvoice
  <1>2. /\ vars' = vars /\ book' = book /\ mode' = mode /\ results' = results
        /\ orphans' = orphans /\ files' = files /\ headers' = headers /\ lines' = lines
        /\ run' = run /\ run = "none" /\ TypeOK /\ mode \in Mode /\ book \in Books
    BY DEF IndexInvoice, EInv, IInv, OrderInv, TypeOK, vars
  <1>3. /\ k \in unread.results /\ unread.results \subseteq DOMAIN results
        /\ DOMAIN results \subseteq Lines /\ files = RequiredSources
    BY <1>2 DEF First, EInv, ReadInv, UnreadFits, NothingUnread, TypeOK
  <1>4. "invoices" \in files /\ ReportReady
    <2>1. ReportReady
      BY <1>2, <1>3, RequiredAre DEF EInv, RunInv
    <2> QED BY <2>1, <1>3, EveryLineHasAResult DEF EInv
  <1>5. waiting = [key \in {SortKey(j) : j \in Lines} |-> {j \in unread.results : SortKey(j) = key}]
    BY <1>4 DEF EInv, ReadInv, WaitingFits
  <1>6. Claimed(k) = k
    <2>1. waiting[SortKey(k)] = {j \in unread.results : SortKey(j) = SortKey(k)}
      BY <1>3, <1>5
    <2>2. Min({j \in unread.results : SortKey(j) = SortKey(k)}) = k
      BY <1>1, <1>2, <1>3, FirstIsLeast
    <2> QED BY <2>1, <2>2 DEF Claimed
  <1>7. OrderIndex(Line(k)) = Resolved(Line(k))
    BY <1>2, <1>3, <1>4, IndexIsFinal DEF EInv
  <1> DEFINE T == InvoiceFindings(k)
  <1>8. findings' = findings \o SetToSeq(T)
    BY <1>1, <1>6, <1>7 DEF InvoiceFindings
  <1>9. IsFiniteSet(T)
    <2> DEFINE I == results[k].issues
               f == [i \in I |-> Finding(i, Place("invoices", k), Resolved(Line(k)), None)]
    <2>1. I \subseteq IssueCode
      BY <1>2, <1>3 DEF TypeOK, Result
    <2>2. IsFiniteSet(IssueCode)
      BY IssueCodesAreFinite
    <2>3. IsFiniteSet(I)
      BY <2>1, <2>2, FS_Subset
    <2>4. T = {f[i] : i \in I}
      BY DEF InvoiceFindings
    <2>5. f \in Surjection(I, T)
      <3>1. f \in [I -> T]
        BY <2>4
      <3> HIDE DEF f, I, T
      <3> QED BY <2>4, <3>1 DEF Surjection
    <2> HIDE DEF f, I, T
    <2> QED BY <2>3, <2>5, FS_Surjection
  <1>10. SoFar \cap T = {}
    <2> SUFFICES ASSUME NEW x \in SoFar, x \in T PROVE FALSE
      OBVIOUS
    <2>1. CASE \E j \in DOMAIN results \ unread.results : x \in InvoiceFindings(j)
      BY <2>1, <1>3, FindingsDiffer
    <2>2. CASE \E o \in OrdersToRead \ unread.orders : x \in OrderFindings(o)
      BY <2>2, FindingsDiffer
    <2>3. CASE \E n \in DOMAIN orphans \ unread.orphans : x = OrphanFinding(n)
      BY <2>3, FindingsDiffer
    <2> QED BY <2>1, <2>2, <2>3, FindingsAre DEF SoFar
  <1>11. IsListing(findings', SoFar \cup T)
    <2>1. IsListing(findings, SoFar)
      BY <1>3 DEF EInv, ReadInv
    <2> HIDE DEF T
    <2>2. IsListing(SetToSeq(T), T)
      BY <1>9, SetIsListed
    <2> QED BY <2>1, <2>2, <1>8, <1>10, ListsJoin
  <1>12. /\ unread'.results = unread.results \ {k} /\ unread'.orders = unread.orders
         /\ unread'.orphans = unread.orphans
         /\ unread' \in [results: SUBSET DOMAIN results, orders: SUBSET OrdersToRead,
                         orphans: SUBSET DOMAIN orphans]
    BY <1>1, <1>3 DEF EInv, ReadInv, UnreadFits
  <1>13. SoFar' = SoFar \cup T
    <2>1. SoFar' = FindingsOf((DOMAIN results \ unread.results) \cup {k},
                              OrdersToRead \ unread.orders, DOMAIN orphans \ unread.orphans)
      <3>1. DOMAIN results \ (unread.results \ {k}) = (DOMAIN results \ unread.results) \cup {k}
        BY <1>3
      <3> QED BY <3>1, <1>2, <1>12, ReportIsFixed DEF SoFar
    <2>2. \A ks, os, ns : FindingsOf(ks \cup {k}, os, ns) = FindingsOf(ks, os, ns) \cup T
      BY FindingsGrow
    <2> HIDE DEF T
    <2> QED BY <2>1, <2>2 DEF SoFar
  <1>14. UnreadFits'
    BY <1>2, <1>12, ReportIsFixed DEF UnreadFits
  <1>15. WaitingFits'
    <2> DEFINE K == {SortKey(j) : j \in Lines}
    <2>1. waiting' = [key \in K |-> {j \in unread.results \ {k} : SortKey(j) = key}]
      <3>1. waiting' = [waiting EXCEPT ![SortKey(k)] = @ \ {k}]
        BY <1>1, <1>6
      <3>2. waiting' = [key \in K |-> IF key = SortKey(k) THEN waiting[key] \ {k} ELSE waiting[key]]
        BY <3>1, <1>5
      <3>3. \A key \in K : (IF key = SortKey(k) THEN waiting[key] \ {k} ELSE waiting[key])
                                = {j \in unread.results \ {k} : SortKey(j) = key}
        <4> SUFFICES ASSUME NEW key \in K
                     PROVE  (IF key = SortKey(k) THEN waiting[key] \ {k} ELSE waiting[key])
                                = {j \in unread.results \ {k} : SortKey(j) = key}
          OBVIOUS
        <4>1. waiting[key] = {j \in unread.results : SortKey(j) = key}
          BY <1>5
        <4> QED BY <4>1
      <3> HIDE DEF K
      <3> QED BY <3>2, <3>3
    <2>2. Lines' = Lines /\ \A j : SortKey(j)' = SortKey(j)
      BY <1>2, FilesAreFixed
    <2> QED BY <2>1, <2>2, <1>2, <1>4, <1>12 DEF WaitingFits
  <1> HIDE DEF T
  <1> QED BY <1>2, <1>3, <1>11, <1>13, <1>14, <1>15, ReadingStep

(* The invariant survives the indexing of an order line.                   *)
LEMMA IndexOrderE == EInv /\ IndexOrder => EInv'
  <1> SUFFICES ASSUME EInv, IndexOrder PROVE EInv'
    OBVIOUS
  <1>1. PICK o \in unread.orders :
            /\ findings' = findings \o
                 IF Fulfilment(o) = "OVER_RECEIVED"
                 THEN <<Finding("OVER_RECEIVED", None,
                                OrderIndex([po |-> o.po, poLine |-> o.line, item |-> o.item]),
                                None)>>
                 ELSE <<>>
            /\ unread' = [unread EXCEPT !.orders = @ \ {o}]
    BY DEF IndexOrder
  <1>2. /\ vars' = vars /\ book' = book /\ mode' = mode /\ results' = results
        /\ orphans' = orphans /\ files' = files /\ headers' = headers /\ lines' = lines
        /\ waiting' = waiting
        /\ run' = run /\ run = "none" /\ TypeOK /\ mode \in Mode /\ book \in Books
    BY DEF IndexOrder, EInv, IInv, OrderInv, TypeOK, vars
  <1>3. /\ o \in unread.orders /\ unread.orders \subseteq OrdersToRead
        /\ o \in book.orders /\ mode = "PO_RECEIPT" /\ files = RequiredSources
    BY <1>2 DEF EInv, ReadInv, UnreadFits, NothingUnread, OrdersToRead
  <1>4. OrderIndex([po |-> o.po, poLine |-> o.line, item |-> o.item]) = OrderPlace(o.po, o.line)
    <2> DEFINE row == [po |-> o.po, poLine |-> o.line, item |-> o.item]
    <2>1. row.po = o.po /\ row.poLine = o.line /\ row.item = o.item
      OBVIOUS
    <2> HIDE DEF row
    <2>2. "purchase_orders" \in RequiredSources
      BY <1>2, <1>3, RequiredAre
    <2>3. OrderIndex(row) = Resolved(row)
      BY <2>2, <1>2, <1>3, IndexIsFinal DEF EInv
    <2>4. Resolved(row) = OrderPlace(o.po, o.line)
      BY <2>1, <2>2, <1>3 DEF Resolved
    <2> QED BY <2>3, <2>4 DEF row
  <1> DEFINE T == OrderFindings(o)
             s == IF Fulfilment(o) = "OVER_RECEIVED"
                  THEN <<Finding("OVER_RECEIVED", None, OrderPlace(o.po, o.line), None)>>
                  ELSE <<>>
  <1>5. findings' = findings \o s
    BY <1>1, <1>4
  <1>6. IsListing(s, T)
    <2>1. CASE Fulfilment(o) = "OVER_RECEIVED"
      BY <2>1, OneIsListed DEF OrderFindings
    <2>2. CASE Fulfilment(o) # "OVER_RECEIVED"
      BY <2>2, NothingIsListed DEF OrderFindings
    <2> QED BY <2>1, <2>2
  <1>7. SoFar \cap T = {}
    <2> SUFFICES ASSUME NEW x \in SoFar, x \in T PROVE FALSE
      OBVIOUS
    <2>1. CASE \E j \in DOMAIN results \ unread.results : x \in InvoiceFindings(j)
      BY <2>1, FindingsDiffer
    <2>2. CASE \E z \in OrdersToRead \ unread.orders : x \in OrderFindings(z)
      <3>1. PICK z \in OrdersToRead \ unread.orders : x \in OrderFindings(z)
        BY <2>2
      <3>2. z.po = o.po /\ z.line = o.line /\ z \in book.orders
        BY <3>1, <1>3, FindingsDiffer DEF OrdersToRead
      <3>3. z = o
        BY <3>2, <1>2, <1>3, BookAssumption DEF Loaded
      <3> QED BY <3>1, <3>3, <1>3
    <2>3. CASE \E n \in DOMAIN orphans \ unread.orphans : x = OrphanFinding(n)
      BY <2>3, FindingsDiffer
    <2> QED BY <2>1, <2>2, <2>3, FindingsAre DEF SoFar
  <1>8. IsListing(findings', SoFar \cup T)
    <2>1. IsListing(findings, SoFar)
      BY <1>3 DEF EInv, ReadInv
    <2> HIDE DEF T, s
    <2> QED BY <2>1, <1>5, <1>6, <1>7, ListsJoin
  <1>9. /\ unread'.results = unread.results /\ unread'.orders = unread.orders \ {o}
        /\ unread'.orphans = unread.orphans
        /\ unread' \in [results: SUBSET DOMAIN results, orders: SUBSET OrdersToRead,
                        orphans: SUBSET DOMAIN orphans]
    BY <1>1, <1>3 DEF EInv, ReadInv, UnreadFits
  <1>10. SoFar' = SoFar \cup T
    <2>1. SoFar' = FindingsOf(DOMAIN results \ unread.results,
                              (OrdersToRead \ unread.orders) \cup {o},
                              DOMAIN orphans \ unread.orphans)
      <3>1. OrdersToRead \ (unread.orders \ {o}) = (OrdersToRead \ unread.orders) \cup {o}
        BY <1>3
      <3>2. /\ DOMAIN results' \ unread'.results = DOMAIN results \ unread.results
            /\ OrdersToRead' \ unread'.orders = (OrdersToRead \ unread.orders) \cup {o}
            /\ DOMAIN orphans' \ unread'.orphans = DOMAIN orphans \ unread.orphans
        BY <3>1, <1>2, <1>9, ReportIsFixed
      <3>3. \A ks, os, ns : FindingsOf(ks, os, ns)' = FindingsOf(ks, os, ns)
        BY <1>2, ReportIsFixed
      <3> HIDE DEF T, s
      <3> QED BY <3>2, <3>3 DEF SoFar
    <2>2. \A ks, os, ns : FindingsOf(ks, os \cup {o}, ns) = FindingsOf(ks, os, ns) \cup T
      BY FindingsGrow
    <2> HIDE DEF T
    <2> QED BY <2>1, <2>2 DEF SoFar
  <1>11. UnreadFits'
    BY <1>2, <1>9, ReportIsFixed DEF UnreadFits
  <1>12. WaitingFits'
    <2>1. Lines' = Lines /\ \A j : SortKey(j)' = SortKey(j)
      BY <1>2, FilesAreFixed
    <2> QED BY <2>1, <1>2, <1>9 DEF WaitingFits, EInv, ReadInv
  <1> HIDE DEF T
  <1> QED BY <1>2, <1>3, <1>8, <1>10, <1>11, <1>12, ReadingStep

(* The invariant survives the indexing of an orphan.                       *)
LEMMA IndexOrphanE == EInv /\ IndexOrphan => EInv'
  <1> SUFFICES ASSUME EInv, IndexOrphan PROVE EInv'
    OBVIOUS
  <1> DEFINE n == Min(unread.orphans)
  <1>1. /\ findings' = Append(findings, Finding(orphans[n], None, None,
                                 Place("receipts", ReceiptIndex(book.receipts[n]))))
        /\ unread' = [unread EXCEPT !.orphans = @ \ {n}]
        /\ unread.orphans # {}
    BY DEF IndexOrphan
  <1>2. /\ vars' = vars /\ book' = book /\ mode' = mode /\ results' = results
        /\ orphans' = orphans /\ files' = files /\ headers' = headers /\ lines' = lines
        /\ waiting' = waiting
        /\ run' = run /\ run = "none" /\ TypeOK /\ mode \in Mode /\ book \in Books
    BY DEF IndexOrphan, EInv, IInv, OrderInv, TypeOK, vars
  <1>3. /\ unread.orphans \subseteq DOMAIN orphans /\ files = RequiredSources
        /\ DOMAIN orphans \subseteq DOMAIN book.receipts /\ DOMAIN book.receipts \subseteq Nat
    BY <1>1, <1>2 DEF EInv, ReadInv, UnreadFits, NothingUnread, TypeOK, Book
  <1>4. n \in unread.orphans
    <2>1. \E m \in unread.orphans : \A j \in unread.orphans : m <= j
      BY <1>1, <1>3, LeastExists
    <2> QED BY <2>1 DEF Min
  <1> HIDE DEF n
  <1>5. ReceiptIndex(book.receipts[n]) = n
    <2>1. n \in DOMAIN book.receipts
      BY <1>3, <1>4
    <2>2. \A m \in DOMAIN book.receipts :
            book.receipts[m].receipt = book.receipts[n].receipt
              /\ book.receipts[m].line = book.receipts[n].line => m = n
      BY <2>1, <1>2, BookAssumption DEF Loaded
    <2> QED BY <2>1, <2>2 DEF ReceiptIndex
  <1> DEFINE x == OrphanFinding(n)
  <1>6. findings' = findings \o <<x>>
    <2>1. findings \in Seq(SoFar)
      BY <1>3 DEF EInv, ReadInv, IsListing
    <2>2. findings' = Append(findings, x)
      BY <1>1, <1>5 DEF OrphanFinding
    <2> HIDE DEF x
    <2> QED BY <2>1, <2>2
  <1>7. SoFar \cap {x} = {}
    <2> SUFFICES ASSUME x \in SoFar PROVE FALSE
      OBVIOUS
    <2>1. CASE \E j \in DOMAIN results \ unread.results : x \in InvoiceFindings(j)
      BY <2>1, FindingsDiffer
    <2>2. CASE \E z \in OrdersToRead \ unread.orders : x \in OrderFindings(z)
      BY <2>2, FindingsDiffer
    <2>3. CASE \E m \in DOMAIN orphans \ unread.orphans : x = OrphanFinding(m)
      BY <2>3, <1>4, FindingsDiffer
    <2> QED BY <2>1, <2>2, <2>3, FindingsAre DEF SoFar
  <1>8. IsListing(findings', SoFar \cup {x})
    <2>1. IsListing(findings, SoFar)
      BY <1>3 DEF EInv, ReadInv
    <2> HIDE DEF x
    <2>2. IsListing(<<x>>, {x})
      BY OneIsListed
    <2> QED BY <2>1, <2>2, <1>6, <1>7, ListsJoin
  <1>9. /\ unread'.results = unread.results /\ unread'.orders = unread.orders
        /\ unread'.orphans = unread.orphans \ {n}
        /\ unread' \in [results: SUBSET DOMAIN results, orders: SUBSET OrdersToRead,
                        orphans: SUBSET DOMAIN orphans]
    BY <1>1, <1>3 DEF EInv, ReadInv, UnreadFits
  <1>10. SoFar' = SoFar \cup {x}
    <2>1. SoFar' = FindingsOf(DOMAIN results \ unread.results, OrdersToRead \ unread.orders,
                              (DOMAIN orphans \ unread.orphans) \cup {n})
      <3>1. DOMAIN orphans \ (unread.orphans \ {n}) = (DOMAIN orphans \ unread.orphans) \cup {n}
        BY <1>3, <1>4
      <3> QED BY <3>1, <1>2, <1>9, ReportIsFixed DEF SoFar
    <2>2. \A ks, os, ns :
            FindingsOf(ks, os, ns \cup {n}) = FindingsOf(ks, os, ns) \cup {OrphanFinding(n)}
      BY FindingsGrow
    <2> QED BY <2>1, <2>2 DEF SoFar
  <1>11. UnreadFits'
    BY <1>2, <1>9, ReportIsFixed DEF UnreadFits
  <1>12. WaitingFits'
    <2>1. Lines' = Lines /\ \A j : SortKey(j)' = SortKey(j)
      BY <1>2, FilesAreFixed
    <2> QED BY <2>1, <1>2, <1>9 DEF WaitingFits, EInv, ReadInv
  <1> HIDE DEF x
  <1> QED BY <1>2, <1>3, <1>8, <1>10, <1>11, <1>12, ReadingStep

(* The invariant survives the commit.                                      *)
LEMMA SaveE == EInv /\ Save => EInv'
  <1> SUFFICES ASSUME EInv, Save PROVE EInv'
    OBVIOUS
  <1>1. /\ vars' = vars /\ book' = book /\ mode' = mode /\ results' = results
        /\ orphans' = orphans /\ files' = files /\ headers' = headers /\ lines' = lines
        /\ waiting' = waiting /\ findings' = findings /\ unread' = unread
        /\ run' = "saved" /\ files = RequiredSources /\ NothingUnread /\ ReportReady
    BY DEF Save, vars, NothingUnread
  <1>2. IInv' /\ OrderInv'
    BY <1>1, SavingKeepsAnalysis DEF EInv
  <1>3. StoredInv'
    BY <1>1, StoredStays DEF EInv
  <1>4. RequiredSources' = RequiredSources /\ Lines' = Lines /\ (\A j : SortKey(j)' = SortKey(j))
        /\ ReportReady' = ReportReady /\ OrdersToRead' = OrdersToRead
        /\ \A ks, os, ns : FindingsOf(ks, os, ns)' = FindingsOf(ks, os, ns)
    BY <1>1, FilesAreFixed, ReportIsFixed
  <1>5. SoFar' = SoFar
    BY <1>1, <1>4 DEF SoFar
  <1>6. WaitingFits' /\ UnreadFits' /\ NothingUnread'
    BY <1>1, <1>4 DEF WaitingFits, UnreadFits, EInv, ReadInv, NothingUnread
  <1>7. ReadInv'
    BY <1>1, <1>4, <1>5, <1>6 DEF EInv, ReadInv
  <1>8. RunInv'
    BY <1>1, <1>4, <1>6 DEF RunInv
  <1> QED BY <1>2, <1>3, <1>7, <1>8 DEF EInv

(* A step of nothing keeps the invariant.                                  *)
LEMMA StutterE == EInv /\ UNCHANGED everything => EInv'
  <1> SUFFICES ASSUME EInv, UNCHANGED everything PROVE EInv'
    OBVIOUS
  <1>1. /\ vars' = vars /\ book' = book /\ mode' = mode /\ results' = results
        /\ orphans' = orphans /\ files' = files /\ headers' = headers /\ lines' = lines
        /\ waiting' = waiting /\ findings' = findings /\ unread' = unread /\ run' = run
    BY DEF everything, saving, vars
  <1>2. IInv' /\ OrderInv'
    BY <1>1, SavingKeepsAnalysis DEF EInv
  <1>3. StoredInv'
    BY <1>1, StoredStays DEF EInv
  <1>4. RequiredSources' = RequiredSources /\ Lines' = Lines /\ (\A j : SortKey(j)' = SortKey(j))
        /\ ReportReady' = ReportReady /\ OrdersToRead' = OrdersToRead /\ CannotBeHeld' = CannotBeHeld
        /\ \A ks, os, ns : FindingsOf(ks, os, ns)' = FindingsOf(ks, os, ns)
    BY <1>1, FilesAreFixed, ReportIsFixed
  <1>5. SoFar' = SoFar
    BY <1>1, <1>4 DEF SoFar
  <1>6. WaitingFits' /\ UnreadFits' /\ NothingUnread' = NothingUnread
    BY <1>1, <1>4 DEF WaitingFits, UnreadFits, EInv, ReadInv, NothingUnread
  <1>7. ReadInv'
    BY <1>1, <1>4, <1>5, <1>6 DEF EInv, ReadInv
  <1>8. RunInv'
    BY <1>1, <1>4, <1>6 DEF EInv, RunInv
  <1> QED BY <1>2, <1>3, <1>7, <1>8 DEF EInv

(* The invariant survives every step.                                      *)
LEMMA EvidenceStep == EInv /\ [ENext]_everything => EInv'
  BY AnalysisE, ImportE, IndexInvoiceE, IndexOrderE, IndexOrphanE, SaveE, StutterE DEF ENext

(* Saving a run never changes what the analysis says of it: the steps of   *)
(* the transaction are stutters of the analysis.                           *)
THEOREM SavingIsAnAnalysis == ESpec => Spec
  <1>1. EInit => Init
    BY DEF EInit
  <1>2. [ENext]_everything => [Next]_vars
    BY DEF ENext, Analysis, Import, IndexInvoice, IndexOrder, IndexOrphan, Save, everything
  <1> QED BY <1>1, <1>2, PTL DEF ESpec, Spec

(* At every moment of the transaction what is stored, waiting and found is *)
(* what the files and the rows read so far say.                            *)
THEOREM EvidenceInvariant == ESpec => []EInv
  BY InitEInv, EvidenceStep, PTL DEF ESpec

(* A saved run stores no value the database cannot hold.                   *)
LEMMA StoredValuesFit ==
  ASSUME StoredInv, files = RequiredSources
  PROVE  ~CannotBeHeld
  BY DEF StoredInv, ValuesFit, CannotBeHeld

(* The documents and order references of the stored lines.                 *)
LEMMA StoredLinesAre ==
  ASSUME TypeOK, book \in Books, StoredInv, files = RequiredSources
  PROVE  /\ {l.place : l \in lines} = UNION {RowsOf(t) : t \in RequiredSources}
         /\ \A l \in lines :
                /\ l.place.table # "receipts" =>
                    /\ HeaderOf(l).supplier = Row(l.place).supplier
                    /\ HeaderOf(l).currency = Row(l.place).currency
                /\ l.order # None => Row(l.order).item = Row(l.place).item
  <1>0. mode \in Mode
    BY DEF TypeOK
  <1>1. lines = {Kept(p) : p \in PlacesIn(files)} /\ \A p : Kept(p).place = p
    BY PlaceIsItself DEF StoredInv, LinesFit
  <1>2. {l.place : l \in lines} = PlacesIn(files)
    BY <1>1
  <1>3. ASSUME NEW l \in lines
        PROVE  /\ l.place.table # "receipts" =>
                    /\ HeaderOf(l).supplier = Row(l.place).supplier
                    /\ HeaderOf(l).currency = Row(l.place).currency
               /\ l.order # None => Row(l.order).item = Row(l.place).item
    <2>1. PICK t \in files : \E p \in RowsOf(t) : l = Kept(p)
      BY <1>1 DEF PlacesIn
    <2>2. PICK p \in RowsOf(t) : l = Kept(p)
      BY <2>1
    <2>3. p.table = t /\ l.place = p /\ l.document = DocumentKey(p)
      BY <1>0, <2>2, PlaceIsItself, TablesAre, RequiredAre
    <2>4. ASSUME t # "receipts"
          PROVE  /\ HeaderOf(l).supplier = Row(p).supplier
                 /\ HeaderOf(l).currency = Row(p).currency
      BY <2>3, <2>4 DEF HeaderOf, StoredInv, HeadersFit
    <2>5. ASSUME l.order # None PROVE Row(l.order).item = Row(p).item
      <3>1. l.order = Resolved(Row(p))
        BY <2>2, <2>5 DEF Kept
      <3>2. PICK o \in book.orders : /\ o.po = Row(p).po /\ o.line = Row(p).poLine
                                     /\ o.item = Row(p).item
        BY <3>1, <2>5 DEF Resolved
      <3>3. l.order = OrderPlace(o.po, o.line)
        BY <3>1, <3>2, <2>5 DEF Resolved
      <3> QED BY <3>2, <3>3, OrderRow
    <2> QED BY <2>3, <2>4, <2>5
  <1> QED BY <1>2, <1>3 DEF PlacesIn

(* When nothing is unread, what was read is what the report says.          *)
LEMMA AllIsReported ==
  ASSUME TypeOK, book \in Books, StoredInv, files = RequiredSources, NothingUnread
  PROVE  ReportedFindings = SoFar
  <1> DEFINE invoiced == UNION {{Finding(i, Place("invoices", k), OrderIndex(Line(k)), None) :
                                    i \in results[k].issues} : k \in DOMAIN results}
             ordered == {Finding("OVER_RECEIVED", None, OrderPlace(o.po, o.line), None) :
                            o \in {p \in book.orders : mode = "PO_RECEIPT"
                                                       /\ Fulfilment(p) = "OVER_RECEIVED"}}
             orphaned == {Finding(orphans[n], None, None, Place("receipts", n)) :
                            n \in DOMAIN orphans}
  <1>1. ReportedFindings = invoiced \cup ordered \cup orphaned
    BY DEF ReportedFindings
  <1>2. SoFar = FindingsOf(DOMAIN results, OrdersToRead, DOMAIN orphans)
    BY DEF SoFar, NothingUnread
  <1>3. mode \in Mode /\ files # {}
    BY RequiredAre DEF TypeOK
  <1>4. \A k : OrderIndex(Line(k)) = Resolved(Line(k))
    BY <1>3, IndexIsFinal
  <1>5. invoiced = OfInvoices(DOMAIN results)
    <2>1. \A k : {Finding(i, Place("invoices", k), OrderIndex(Line(k)), None) :
                                    i \in results[k].issues} = InvoiceFindings(k)
      BY <1>4 DEF InvoiceFindings
    <2> QED BY <2>1 DEF OfInvoices
  <1>6. ordered = OfOrders(OrdersToRead)
    <2>1. ASSUME NEW x PROVE x \in ordered <=> \E o \in OrdersToRead : x \in OrderFindings(o)
      BY DEF OrdersToRead, OrderFindings
    <2>2. ASSUME NEW x
          PROVE  x \in OfOrders(OrdersToRead) <=> \E o \in OrdersToRead : x \in OrderFindings(o)
      BY Zenon DEF OfOrders
    <2> HIDE DEF ordered
    <2> QED BY <2>1, <2>2
  <1>7. orphaned = OfOrphans(DOMAIN orphans)
    BY DEF OfOrphans, OrphanFinding
  <1> HIDE DEF invoiced, ordered, orphaned
  <1> QED BY <1>1, <1>2, <1>5, <1>6, <1>7 DEF FindingsOf

(* A run is refused exactly for a value the database cannot hold, a number *)
(* or a text, and a saved run holds the rows of its files and says exactly *)
(* what the report says.                                                   *)
THEOREM EvidenceIsTheReport == ESpec => []EvidenceMatchesTheReport
  <1>1. EInv => EvidenceMatchesTheReport
    <2> SUFFICES ASSUME EInv PROVE EvidenceMatchesTheReport
      OBVIOUS
    <2>1. /\ TypeOK /\ book \in Books /\ StoredInv /\ ReadInv /\ RunInv /\ mode \in Mode
      BY DEF EInv, IInv, OrderInv, TypeOK
    <2>2. run = "refused" => CannotBeHeld
      BY <2>1 DEF RunInv
    <2>3. ASSUME NEW k \in unread.results PROVE waiting[SortKey(k)] # {}
      <3>1. files = RequiredSources /\ k \in DOMAIN results
        BY <2>1 DEF ReadInv, UnreadFits, NothingUnread
      <3>2. ReportReady
        BY <3>1, <2>1, RequiredAre DEF RunInv
      <3>3. "invoices" \in files /\ k \in Lines
        BY <3>1, <3>2, EveryLineHasAResult DEF EInv
      <3>4. waiting[SortKey(k)] = {j \in unread.results : SortKey(j) = SortKey(k)}
        BY <3>3, <2>1 DEF ReadInv, WaitingFits
      <3> QED BY <3>4
    <2>4. ASSUME run = "saved"
          PROVE  /\ files = RequiredSources /\ NothingUnread
                 /\ IsListing(findings, ReportedFindings)
      BY <2>1, <2>4, AllIsReported DEF RunInv, ReadInv
    <2>5. ASSUME run = "saved" PROVE \A key \in DOMAIN waiting : waiting[key] = {}
      <3>1. unread.results = {}
        BY <2>4, <2>5 DEF NothingUnread
      <3>2. CASE "invoices" \in files
        BY <3>1, <3>2, <2>1 DEF ReadInv, WaitingFits
      <3>3. CASE "invoices" \notin files
        BY <3>3, <2>1 DEF ReadInv, WaitingFits
      <3> QED BY <3>2, <3>3
    <2>6. ASSUME run = "saved"
          PROVE  ToSet(findings) = ReportedFindings /\ Len(findings) = Cardinality(ReportedFindings)
      BY <2>4, <2>6, ListIsAsLong DEF IsListing
    <2>7. ASSUME run = "saved"
          PROVE  /\ ~CannotBeHeld
                 /\ {l.place : l \in lines} = UNION {RowsOf(t) : t \in RequiredSources}
                 /\ \A l \in lines :
                        /\ l.place.table # "receipts" =>
                            /\ HeaderOf(l).supplier = Row(l.place).supplier
                            /\ HeaderOf(l).currency = Row(l.place).currency
                        /\ l.order # None => Row(l.order).item = Row(l.place).item
      BY <2>1, <2>4, <2>7, StoredValuesFit, StoredLinesAre
    <2> QED BY <2>2, <2>3, <2>5, <2>6, <2>7 DEF EvidenceMatchesTheReport
  <1> QED BY <1>1, EvidenceInvariant, PTL
-----------------------------------------------------------------------------
(* More laws of sums.                                                      *)

(* The sum over two sets that are apart.                                   *)
LEMMA SumJoins ==
  ASSUME NEW f, NEW A, NEW B, IsFiniteSet(A), IsFiniteSet(B), A \cap B = {},
         \A x \in A \cup B : f[x] \in Nat
  PROVE  SumOver(f, A \cup B) = SumOver(f, A) + SumOver(f, B)
  <1> DEFINE Bad == {s \in SUBSET B : SumOver(f, A \cup s) # SumOver(f, A) + SumOver(f, s)}
  <1>1. SUFFICES ASSUME Bad # {} PROVE FALSE
    <2>1. B \in SUBSET B
      OBVIOUS
    <2> QED BY <2>1
  <1>2. PICK s \in Bad : \A t \in Bad : Cardinality(s) <= Cardinality(t)
    <2>1. Bad \in SUBSET (SUBSET B)
      OBVIOUS
    <2> HIDE DEF Bad
    <2> QED BY <1>1, <2>1, SmallestSubset
  <1>3. IsFiniteSet(s) /\ s \in SUBSET B /\ SumOver(f, A \cup s) # SumOver(f, A) + SumOver(f, s)
    BY FS_Subset
  <1>4. SumOver(f, A) \in Nat
    BY SumIsNat
  <1>5. s # {}
    <2>1. A \cup {} = A
      OBVIOUS
    <2> QED BY <1>3, <1>4, <2>1, SumOfNone
  <1>6. PICK x : x \in s
    BY <1>5
  <1> DEFINE rest == s \ {x}
             most == A \cup rest
  <1>7. rest \in SUBSET B /\ IsFiniteSet(rest) /\ x \notin rest /\ rest \cup {x} = s
        /\ Cardinality(rest) < Cardinality(s) /\ Cardinality(rest) \in Nat
        /\ Cardinality(s) \in Nat
    BY <1>3, <1>6, LessOne
  <1>8. IsFiniteSet(most) /\ x \notin most /\ most \cup {x} = A \cup s
        /\ \A y \in most \cup {x} : f[y] \in Nat
    <2>1. IsFiniteSet(A \cup rest)
      BY <1>7, FS_Union
    <2> QED BY <1>3, <1>6, <1>7, <2>1
  <1> HIDE DEF rest
  <1>9. SumOver(f, most) = SumOver(f, A) + SumOver(f, rest)
    <2>1. rest \notin Bad
      <3> HIDE DEF Bad
      <3> QED BY <1>2, <1>7
    <2> QED BY <1>7, <2>1
  <1>10. SumOver(f, most \cup {x}) = SumOver(f, most) + f[x]
    <2> HIDE DEF most
    <2> QED BY <1>8, SumAdds
  <1>11. SumOver(f, rest \cup {x}) = SumOver(f, rest) + f[x]
    <2>1. \A y \in rest \cup {x} : f[y] \in Nat
      BY <1>3, <1>7
    <2> QED BY <1>7, <2>1, SumAdds
  <1>12. SumOver(f, rest) \in Nat /\ f[x] \in Nat
    <2>1. \A y \in rest : f[y] \in Nat
      BY <1>7
    <2> QED BY <1>3, <1>6, <1>7, <2>1, SumIsNat
  <1> HIDE DEF most, Bad
  <1>13. SumOver(f, A \cup s) = SumOver(f, most) + f[x]
    BY <1>8, <1>10
  <1>14. SumOver(f, s) = SumOver(f, rest) + f[x]
    BY <1>7, <1>11
  <1>15. SumOver(f, A \cup s) # SumOver(f, A) + SumOver(f, s)
    BY <1>3
  <1> QED BY <1>4, <1>9, <1>12, <1>13, <1>14, <1>15

(* The sum over one element.                                               *)
LEMMA SumOfOne ==
  ASSUME NEW f, NEW x, f[x] \in Nat
  PROVE  SumOver(f, {x}) = f[x]
  <1>1. SumOver(f, {} \cup {x}) = SumOver(f, {}) + f[x]
    <2>1. IsFiniteSet({}) /\ x \notin {} /\ \A y \in {} \cup {x} : f[y] \in Nat
      BY FS_EmptySet
    <2> QED BY <2>1, SumAdds
  <1>2. {} \cup {x} = {x}
    OBVIOUS
  <1> QED BY <1>1, <1>2, SumOfNone

(* The elements of S that key puts in c.                                   *)
At(key, S, c) == {x \in S : key[x] = c}

(* A sum adds up by any key.                                               *)
LEMMA SumByKey ==
  ASSUME NEW f, NEW S, NEW key, NEW C, NEW g, IsFiniteSet(S), IsFiniteSet(C),
         \A x \in S : f[x] \in Nat /\ key[x] \in C,
         \A c \in C : g[c] = SumOver(f, At(key, S, c))
  PROVE  SumOver(f, S) = SumOver(g, C)
  <1> DEFINE In(D) == {x \in S : key[x] \in D}
             Bad == {D \in SUBSET C : SumOver(f, In(D)) # SumOver(g, D)}
  <1>1. SUFFICES ASSUME Bad # {} PROVE FALSE
    <2>1. In(C) = S /\ C \in SUBSET C
      OBVIOUS
    <2> QED BY <2>1
  <1>2. PICK D \in Bad : \A t \in Bad : Cardinality(D) <= Cardinality(t)
    <2>1. Bad \in SUBSET (SUBSET C)
      OBVIOUS
    <2> HIDE DEF Bad
    <2> QED BY <1>1, <2>1, SmallestSubset
  <1>3. IsFiniteSet(D) /\ D \in SUBSET C /\ SumOver(f, In(D)) # SumOver(g, D)
    BY FS_Subset
  <1>4. D # {}
    <2>1. In({}) = {}
      OBVIOUS
    <2> QED BY <1>3, <2>1, SumOfNone
  <1>5. PICK c : c \in D
    BY <1>4
  <1> DEFINE rest == D \ {c}
             A == In(rest)
             B == At(key, S, c)
  <1>6. rest \in SUBSET C /\ IsFiniteSet(rest) /\ c \notin rest /\ rest \cup {c} = D
        /\ Cardinality(rest) < Cardinality(D) /\ Cardinality(rest) \in Nat
        /\ Cardinality(D) \in Nat
    BY <1>3, <1>5, LessOne
  <1>7. SumOver(f, A) = SumOver(g, rest)
    <2>1. rest \notin Bad
      <3> HIDE DEF Bad, rest
      <3> QED BY <1>2, <1>6
    <2> HIDE DEF rest
    <2> QED BY <1>6, <2>1
  <1>8. IsFiniteSet(A) /\ IsFiniteSet(B) /\ A \cap B = {} /\ A \cup B = In(D)
        /\ \A x \in A \cup B : f[x] \in Nat
    <2>1. A \in SUBSET S /\ B \in SUBSET S
      BY DEF At
    <2>2. IsFiniteSet(A) /\ IsFiniteSet(B)
      BY <2>1, FS_Subset
    <2>3. A \cap B = {} /\ A \cup B = In(D)
      BY <1>5 DEF At
    <2> QED BY <2>1, <2>2, <2>3
  <1>9. SumOver(f, A \cup B) = SumOver(f, A) + SumOver(f, B)
    <2> HIDE DEF A, B
    <2> QED BY <1>8, SumJoins
  <1>10. \A d \in D : g[d] \in Nat
    <2> SUFFICES ASSUME NEW d \in D PROVE g[d] \in Nat
      OBVIOUS
    <2>1. At(key, S, d) \in SUBSET S
      BY DEF At
    <2>2. SumOver(f, At(key, S, d)) \in Nat
      BY <2>1, FS_Subset, SumIsNat
    <2> QED BY <2>2, <1>3
  <1>11. SumOver(g, rest \cup {c}) = SumOver(g, rest) + g[c]
    <2> HIDE DEF rest
    <2> QED BY <1>6, <1>10, SumAdds
  <1>12. g[c] = SumOver(f, B)
    BY <1>3, <1>5
  <1> HIDE DEF A, B, rest, Bad, In
  <1> QED BY <1>3, <1>6, <1>7, <1>8, <1>9, <1>11, <1>12

(* The size of a set is the sum of ones.                                   *)
LEMMA SizeIsSum ==
  ASSUME NEW S, NEW f, IsFiniteSet(S), \A x \in S : f[x] = 1
  PROVE  SumOver(f, S) = Cardinality(S)
  <1> DEFINE Bad == {s \in SUBSET S : SumOver(f, s) # Cardinality(s)}
  <1>1. SUFFICES ASSUME Bad # {} PROVE FALSE
    <2>1. S \in SUBSET S
      OBVIOUS
    <2> QED BY <2>1
  <1>2. PICK s \in Bad : \A t \in Bad : Cardinality(s) <= Cardinality(t)
    <2>1. Bad \in SUBSET (SUBSET S)
      OBVIOUS
    <2> HIDE DEF Bad
    <2> QED BY <1>1, <2>1, SmallestSubset
  <1>3. IsFiniteSet(s) /\ s \in SUBSET S /\ SumOver(f, s) # Cardinality(s)
    BY FS_Subset
  <1>4. s # {}
    BY <1>3, SumOfNone, FS_EmptySet
  <1>5. PICK x : x \in s
    BY <1>4
  <1> DEFINE rest == s \ {x}
  <1>6. rest \in SUBSET S /\ IsFiniteSet(rest) /\ x \notin rest /\ rest \cup {x} = s
        /\ Cardinality(rest) < Cardinality(s) /\ Cardinality(rest) \in Nat
        /\ Cardinality(s) \in Nat
    BY <1>3, <1>5, LessOne
  <1> HIDE DEF rest
  <1>7. SumOver(f, rest) = Cardinality(rest)
    <2>1. rest \notin Bad
      <3> HIDE DEF Bad
      <3> QED BY <1>2, <1>6
    <2> QED BY <1>6, <2>1
  <1>8. SumOver(f, rest \cup {x}) = SumOver(f, rest) + f[x]
    <2>1. \A y \in rest \cup {x} : f[y] \in Nat
      BY <1>3, <1>6
    <2> QED BY <1>6, <2>1, SumAdds
  <1>9. Cardinality(rest \cup {x}) = Cardinality(rest) + 1
    BY <1>6, FS_AddElement
  <1>10. f[x] = 1
    BY <1>3, <1>5
  <1> HIDE DEF Bad
  <1> QED BY <1>3, <1>6, <1>7, <1>8, <1>9, <1>10

(* The size of a set adds up by any key.                                   *)
LEMMA SizeByKey ==
  ASSUME NEW S, NEW key, NEW C, NEW g, IsFiniteSet(S), IsFiniteSet(C),
         \A x \in S : key[x] \in C,
         \A c \in C : g[c] = Cardinality(At(key, S, c))
  PROVE  Cardinality(S) = SumOver(g, C)
  <1> DEFINE f == [x \in S |-> 1]
  <1>1. \A x \in S : f[x] = 1 /\ f[x] \in Nat
    OBVIOUS
  <1> HIDE DEF f
  <1>2. SumOver(f, S) = Cardinality(S)
    BY <1>1, SizeIsSum
  <1>3. ASSUME NEW c \in C PROVE g[c] = SumOver(f, At(key, S, c))
    <2>1. At(key, S, c) \in SUBSET S
      BY DEF At
    <2>2. IsFiniteSet(At(key, S, c)) /\ \A x \in At(key, S, c) : f[x] = 1
      BY <1>1, <2>1, FS_Subset
    <2>3. SumOver(f, At(key, S, c)) = Cardinality(At(key, S, c))
      BY <2>2, SizeIsSum
    <2> QED BY <2>3
  <1>4. SumOver(f, S) = SumOver(g, C)
    BY <1>1, <1>3, SumByKey
  <1> QED BY <1>2, <1>4

(* h relates the elements of two sets one to one.                          *)
OneToOne(h, S, T) ==
    /\ \A x \in S : h[x] \in T
    /\ \A x, y \in S : h[x] = h[y] => x = y
    /\ \A z \in T : \E x \in S : h[x] = z

(* Sets that are related one to one have the same sums.                    *)
LEMMA SumMoves ==
  ASSUME NEW f, NEW S, NEW T, NEW h, NEW g, IsFiniteSet(S), OneToOne(h, S, T),
         \A x \in S : f[x] \in Nat /\ f[x] = g[h[x]]
  PROVE  SumOver(f, S) = SumOver(g, T) /\ IsFiniteSet(T)
  <1>1. IsFiniteSet(T)
    <2> DEFINE m == [x \in S |-> h[x]]
    <2>1. m \in Surjection(S, T)
      BY DEF Surjection, OneToOne
    <2> HIDE DEF m
    <2> QED BY <2>1, FS_Surjection
  <1>2. ASSUME NEW z \in T PROVE g[z] = SumOver(f, At(h, S, z))
    <2>1. PICK x \in S : h[x] = z
      BY DEF OneToOne
    <2>2. At(h, S, z) = {x}
      BY <2>1 DEF OneToOne, At
    <2>3. f[x] \in Nat /\ f[x] = g[z]
      BY <2>1
    <2> QED BY <2>2, <2>3, SumOfOne
  <1>3. \A x \in S : f[x] \in Nat /\ h[x] \in T
    BY DEF OneToOne
  <1>4. SumOver(f, S) = SumOver(g, T)
    BY <1>1, <1>2, <1>3, SumByKey
  <1> QED BY <1>1, <1>4

(* Sets that are related one to one have the same size.                    *)
LEMMA SizeMoves ==
  ASSUME NEW S, NEW T, NEW h, IsFiniteSet(S), OneToOne(h, S, T)
  PROVE  Cardinality(S) = Cardinality(T) /\ IsFiniteSet(T)
  <1> DEFINE f == [x \in S |-> 1]
             g == [z \in T |-> 1]
  <1>1. (\A x \in S : f[x] = 1 /\ f[x] \in Nat /\ f[x] = g[h[x]]) /\ \A z \in T : g[z] = 1
    BY DEF OneToOne
  <1> HIDE DEF f, g
  <1>2. SumOver(f, S) = SumOver(g, T) /\ IsFiniteSet(T)
    BY <1>1, SumMoves
  <1>3. SumOver(f, S) = Cardinality(S)
    BY <1>1, SizeIsSum
  <1>4. SumOver(g, T) = Cardinality(T)
    BY <1>1, <1>2, SizeIsSum
  <1> QED BY <1>2, <1>3, <1>4

(* The size of a set that is made of parts.                                *)
LEMMA SizeOfParts ==
  ASSUME NEW P, NEW S, NEW U, NEW g, IsFiniteSet(S), IsFiniteSet(U),
         \A x \in S : P[x] \in SUBSET U /\ g[x] = Cardinality(P[x]),
         \A x, y \in S : x # y => P[x] \cap P[y] = {},
         \A u \in U : \E x \in S : u \in P[x]
  PROVE  Cardinality(U) = SumOver(g, S)
  <1> DEFINE key == [u \in U |-> CHOOSE x \in S : u \in P[x]]
  <1>1. \A u \in U : key[u] \in S /\ u \in P[key[u]]
    OBVIOUS
  <1> HIDE DEF key
  <1>2. ASSUME NEW x \in S PROVE At(key, U, x) = P[x]
    <2>1. \A u \in P[x] : u \in U /\ key[u] = x
      BY <1>1
    <2> QED BY <1>1, <2>1 DEF At
  <1>3. \A x \in S : g[x] = Cardinality(At(key, U, x))
    BY <1>2
  <1> QED BY <1>1, <1>3, SizeByKey

(* The sums of the pages, as sums of functions.                            *)
LEMMA CodeSum ==
  ASSUME NEW h, NEW S, NEW f, IsFiniteSet(S), \A x \in S : f[x] = h[x]
  PROVE  MapThenSumSet(LAMBDA code : h[code], S) = SumOver(f, S)
  <1> DEFINE V(x) == h[x]
             Is(g) == g = [s \in SUBSET S |->
                              IF s = {} THEN 0
                              ELSE V(CHOOSE x \in s : TRUE)
                                     + g[s \ {CHOOSE x \in s : TRUE}]]
             t == CHOOSE g : Is(g)
             u == CHOOSE g : SumsUp(g, f, SUBSET S)
  <1>1. MapThenSumSet(LAMBDA code : h[code], S) = t[S]
    BY Zenon DEF MapThenSumSet, MapThenFoldSet
  <1>2. \A x \in S : f[x] = V(x)
    OBVIOUS
  <1> HIDE DEF V
  <1>3. ASSUME NEW g PROVE Is(g) <=> SumsUp(g, f, SUBSET S)
    <2>1. ASSUME NEW s \in SUBSET S, s # {} PROVE f[AnyOf(s)] = V(AnyOf(s))
      BY <1>2, <2>1, AnyIsIn
    <2> QED BY <2>1 DEF SumsUp, AnyOf
  <1>4. SumsUp(u, f, SUBSET S)
    BY SumExists
  <1>5. Is(t)
    <2>1. Is(u)
      BY <1>3, <1>4
    <2> HIDE DEF u
    <2> QED BY <2>1
  <1>6. SumOver(f, S) = u[S]
    BY DEF SumOver
  <1> HIDE DEF t, u, Is
  <1>7. SumsUp(t, f, SUBSET S)
    BY <1>3, <1>5
  <1>8. t[S] = u[S]
    BY <1>4, <1>7, SumsAgree
  <1> QED BY <1>1, <1>6, <1>8

(* The issues of a category in the rows of the report.                      *)
LEMMA CategorySum ==
  ASSUME NEW category, NEW S, NEW f, IsFiniteSet(S),
         \A x \in S : f[x] = Cardinality({i \in IssuesIn(x) : Category(i) = category})
  PROVE  MapThenSumSet(LAMBDA row : Cardinality({i \in IssuesIn(row) :
                                                    Category(i) = category}), S)
            = SumOver(f, S)
  <1> DEFINE V(x) == Cardinality({i \in IssuesIn(x) : Category(i) = category})
             Is(g) == g = [s \in SUBSET S |->
                              IF s = {} THEN 0
                              ELSE V(CHOOSE x \in s : TRUE)
                                     + g[s \ {CHOOSE x \in s : TRUE}]]
             t == CHOOSE g : Is(g)
             u == CHOOSE g : SumsUp(g, f, SUBSET S)
  <1>1. MapThenSumSet(LAMBDA row : Cardinality({i \in IssuesIn(row) :
                                                   Category(i) = category}), S) = t[S]
    BY Zenon DEF MapThenSumSet, MapThenFoldSet
  <1>2. \A x \in S : f[x] = V(x)
    OBVIOUS
  <1> HIDE DEF V
  <1>3. ASSUME NEW g PROVE Is(g) <=> SumsUp(g, f, SUBSET S)
    <2>1. ASSUME NEW s \in SUBSET S, s # {} PROVE f[AnyOf(s)] = V(AnyOf(s))
      BY <1>2, <2>1, AnyIsIn
    <2> QED BY <2>1 DEF SumsUp, AnyOf
  <1>4. SumsUp(u, f, SUBSET S)
    BY SumExists
  <1>5. Is(t)
    <2>1. Is(u)
      BY <1>3, <1>4
    <2> HIDE DEF u
    <2> QED BY <2>1
  <1>6. SumOver(f, S) = u[S]
    BY DEF SumOver
  <1> HIDE DEF t, u, Is
  <1>7. SumsUp(t, f, SUBSET S)
    BY <1>3, <1>5
  <1>8. t[S] = u[S]
    BY <1>4, <1>7, SumsAgree
  <1> QED BY <1>1, <1>6, <1>8

(* The quantities of stored lines.                                          *)
LEMMA QuantitySum ==
  ASSUME NEW S, NEW f, IsFiniteSet(S), \A x \in S : f[x] = Quantity(x)
  PROVE  MapThenSumSet(Quantity, S) = SumOver(f, S)
  <1> DEFINE V(x) == Quantity(x)
             Is(g) == g = [s \in SUBSET S |->
                              IF s = {} THEN 0
                              ELSE V(CHOOSE x \in s : TRUE)
                                     + g[s \ {CHOOSE x \in s : TRUE}]]
             t == CHOOSE g : Is(g)
             u == CHOOSE g : SumsUp(g, f, SUBSET S)
  <1>1. MapThenSumSet(Quantity, S) = t[S]
    BY Zenon DEF MapThenSumSet, MapThenFoldSet
  <1>2. \A x \in S : f[x] = V(x)
    OBVIOUS
  <1> HIDE DEF V
  <1>3. ASSUME NEW g PROVE Is(g) <=> SumsUp(g, f, SUBSET S)
    <2>1. ASSUME NEW s \in SUBSET S, s # {} PROVE f[AnyOf(s)] = V(AnyOf(s))
      BY <1>2, <2>1, AnyIsIn
    <2> QED BY <2>1 DEF SumsUp, AnyOf
  <1>4. SumsUp(u, f, SUBSET S)
    BY SumExists
  <1>5. Is(t)
    <2>1. Is(u)
      BY <1>3, <1>4
    <2> HIDE DEF u
    <2> QED BY <2>1
  <1>6. SumOver(f, S) = u[S]
    BY DEF SumOver
  <1> HIDE DEF t, u, Is
  <1>7. SumsUp(t, f, SUBSET S)
    BY <1>3, <1>5
  <1>8. t[S] = u[S]
    BY <1>4, <1>7, SumsAgree
  <1> QED BY <1>1, <1>6, <1>8

(* The amounts of stored lines.                                             *)
LEMMA StoredValueSum ==
  ASSUME NEW S, NEW f, IsFiniteSet(S), \A x \in S : f[x] = Value(x)
  PROVE  MapThenSumSet(Value, S) = SumOver(f, S)
  <1> DEFINE V(x) == Value(x)
             Is(g) == g = [s \in SUBSET S |->
                              IF s = {} THEN 0
                              ELSE V(CHOOSE x \in s : TRUE)
                                     + g[s \ {CHOOSE x \in s : TRUE}]]
             t == CHOOSE g : Is(g)
             u == CHOOSE g : SumsUp(g, f, SUBSET S)
  <1>1. MapThenSumSet(Value, S) = t[S]
    BY Zenon DEF MapThenSumSet, MapThenFoldSet
  <1>2. \A x \in S : f[x] = V(x)
    OBVIOUS
  <1> HIDE DEF V
  <1>3. ASSUME NEW g PROVE Is(g) <=> SumsUp(g, f, SUBSET S)
    <2>1. ASSUME NEW s \in SUBSET S, s # {} PROVE f[AnyOf(s)] = V(AnyOf(s))
      BY <1>2, <2>1, AnyIsIn
    <2> QED BY <2>1 DEF SumsUp, AnyOf
  <1>4. SumsUp(u, f, SUBSET S)
    BY SumExists
  <1>5. Is(t)
    <2>1. Is(u)
      BY <1>3, <1>4
    <2> HIDE DEF u
    <2> QED BY <2>1
  <1>6. SumOver(f, S) = u[S]
    BY DEF SumOver
  <1> HIDE DEF t, u, Is
  <1>7. SumsUp(t, f, SUBSET S)
    BY <1>3, <1>5
  <1>8. t[S] = u[S]
    BY <1>4, <1>7, SumsAgree
  <1> QED BY <1>1, <1>6, <1>8
-----------------------------------------------------------------------------
(* A saved run.                                                            *)

Saved == EInv /\ run = "saved"

(* What is known of a saved run.                                           *)
LEMMA SavedFacts ==
  ASSUME Saved
  PROVE  /\ TypeOK /\ book \in Books /\ mode \in Mode /\ IInv
         /\ StoredInv /\ files = RequiredSources /\ NothingUnread /\ ReportReady
         /\ IsListing(findings, SoFar)
         /\ SoFar = FindingsOf(DOMAIN results, OrdersToRead, DOMAIN orphans)
         /\ "invoices" \in files => mode # "PO_RECEIPT" /\ DOMAIN results = Lines
         /\ "invoices" \notin files => mode = "PO_RECEIPT" /\ DOMAIN results = {}
         /\ mode = "PO_RECEIPT" => "purchase_orders" \in files
         /\ files \subseteq {"purchase_orders", "receipts", "invoices"}
  <1>1. /\ TypeOK /\ book \in Books /\ mode \in Mode /\ IInv
        /\ StoredInv /\ files = RequiredSources /\ NothingUnread /\ ReportReady
        /\ IsListing(findings, SoFar)
    BY DEF Saved, EInv, IInv, OrderInv, RunInv, ReadInv, TypeOK
  <1>2. SoFar = FindingsOf(DOMAIN results, OrdersToRead, DOMAIN orphans)
    BY <1>1 DEF SoFar, NothingUnread
  <1>3. /\ "invoices" \in files => mode # "PO_RECEIPT" /\ DOMAIN results = Lines
        /\ "invoices" \notin files => mode = "PO_RECEIPT" /\ DOMAIN results = {}
        /\ mode = "PO_RECEIPT" => "purchase_orders" \in files
        /\ files \subseteq {"purchase_orders", "receipts", "invoices"}
    BY <1>1, RequiredAre, EveryLineHasAResult DEF Saved, EInv
  <1> QED BY <1>1, <1>2, <1>3

(* What a finite set is mapped onto is finite.                             *)
LEMMA ImageIsFinite ==
  ASSUME NEW S, NEW T, NEW h, IsFiniteSet(S), \A z \in T : \E x \in S : h[x] = z
  PROVE  IsFiniteSet(T)
  <1> DEFINE D == {x \in S : h[x] \in T}
             m == [x \in D |-> h[x]]
  <1>1. IsFiniteSet(D)
    BY FS_Subset
  <1>2. m \in Surjection(D, T)
    BY DEF Surjection
  <1> HIDE DEF m, D
  <1> QED BY <1>1, <1>2, FS_Surjection

(* A file has finitely many rows.                                          *)
LEMMA RowsAreFinite ==
  ASSUME TypeOK, book \in Books, NEW t \in {"purchase_orders", "receipts", "invoices"}
  PROVE  IsFiniteSet(RowsOf(t))
  <1>1. CASE t = "purchase_orders"
    <2> DEFINE h == [o \in book.orders |-> OrderPlace(o.po, o.line)]
    <2>1. IsFiniteSet(book.orders)
      BY BookAssumption
    <2>2. \A z \in RowsOf(t) : \E o \in book.orders : h[o] = z
      BY <1>1, PlacesAre
    <2> HIDE DEF h
    <2> QED BY <2>1, <2>2, ImageIsFinite
  <1>2. CASE t = "receipts"
    <2> DEFINE h == [n \in DOMAIN book.receipts |-> Place("receipts", n)]
    <2>1. IsFiniteSet(DOMAIN book.receipts)
      <3>1. DOMAIN book.receipts = 1..Len(book.receipts) /\ Len(book.receipts) \in Nat
        BY DEF TypeOK, Book
      <3> QED BY <3>1, FS_Interval
    <2>2. \A z \in RowsOf(t) : \E n \in DOMAIN book.receipts : h[n] = z
      BY <1>2, PlacesAre
    <2> HIDE DEF h
    <2> QED BY <2>1, <2>2, ImageIsFinite
  <1>3. CASE t = "invoices"
    <2> DEFINE h == [k \in Lines |-> Place("invoices", k)]
    <2>1. IsFiniteSet(Lines)
      <3>1. Lines = 1..Len(book.invoices) /\ Len(book.invoices) \in Nat
        BY DEF TypeOK, Book, Lines
      <3> QED BY <3>1, FS_Interval
    <2>2. \A z \in RowsOf(t) : \E k \in Lines : h[k] = z
      BY <1>3, PlacesAre
    <2> HIDE DEF h
    <2> QED BY <2>1, <2>2, ImageIsFinite
  <1> QED BY <1>1, <1>2, <1>3

(* The stored lines of a file, and what is known of each.                  *)
LEMMA SavedLines ==
  ASSUME Saved, NEW t \in files
  PROVE  /\ LinesOf(t) = {Kept(p) : p \in RowsOf(t)}
         /\ IsFiniteSet(LinesOf(t))
         /\ t # "receipts" => \A l \in LinesOf(t) :
                /\ <<t, l.document>> \in DOMAIN headers
                /\ HeaderOf(l) = headers[<<t, l.document>>]
                /\ HeaderOf(l).supplier = Row(l.place).supplier
                /\ HeaderOf(l).supplier \in SupplierCodes
  <1>0. /\ TypeOK /\ book \in Books /\ StoredInv
        /\ t \in {"purchase_orders", "receipts", "invoices"}
        /\ files \subseteq {"purchase_orders", "receipts", "invoices"}
    BY SavedFacts
  <1>1. lines = {Kept(p) : p \in PlacesIn(files)}
    BY <1>0 DEF StoredInv, LinesFit
  <1>2. \A p : Kept(p).place = p /\ Kept(p).document = DocumentKey(p)
    BY PlaceIsItself
  <1>3. LinesOf(t) = {Kept(p) : p \in RowsOf(t)}
    <2>1. ASSUME NEW p \in PlacesIn(files) PROVE p.table = t <=> p \in RowsOf(t)
      <3>1. PICK s \in files : p \in RowsOf(s)
        BY DEF PlacesIn
      <3>2. p.table = s
        BY <1>0, <3>1, TablesAre
      <3>3. p \in RowsOf(t) => p.table = t
        BY <1>0, TablesAre
      <3> QED BY <3>1, <3>2, <3>3
    <2>2. RowsOf(t) \subseteq PlacesIn(files)
      BY DEF PlacesIn
    <2>3. LinesOf(t) = {Kept(p) : p \in {q \in PlacesIn(files) : q.table = t}}
      BY <1>1, <1>2 DEF LinesOf
    <2>4. {q \in PlacesIn(files) : q.table = t} = RowsOf(t)
      BY <2>1, <2>2
    <2> QED BY <2>3, <2>4
  <1>4. IsFiniteSet(LinesOf(t))
    <2> DEFINE h == [p \in RowsOf(t) |-> Kept(p)]
    <2>1. \A z \in LinesOf(t) : \E p \in RowsOf(t) : h[p] = z
      BY <1>3
    <2>2. IsFiniteSet(RowsOf(t))
      BY <1>0, RowsAreFinite
    <2> HIDE DEF h
    <2> QED BY <2>1, <2>2, ImageIsFinite
  <1>5. ASSUME t # "receipts", NEW l \in LinesOf(t)
        PROVE  /\ <<t, l.document>> \in DOMAIN headers
               /\ HeaderOf(l) = headers[<<t, l.document>>]
               /\ HeaderOf(l).supplier = Row(l.place).supplier
               /\ HeaderOf(l).supplier \in SupplierCodes
    <2>1. PICK p \in RowsOf(t) : l = Kept(p)
      BY <1>3
    <2>2. l.place = p /\ l.document = DocumentKey(p) /\ p.table = t
      BY <1>0, <1>2, <2>1, TablesAre
    <2>3. p \in PlacesIn(files)
      BY DEF PlacesIn
    <2>4. <<t, l.document>> \in DOMAIN headers
      BY <1>0, <2>2, <2>3 DEF StoredInv, HeadersFit
    <2>5. HeaderOf(l) = headers[<<t, l.document>>]
      BY <2>2 DEF HeaderOf
    <2>6. HeaderOf(l).supplier = Row(l.place).supplier
      BY <1>0, <1>5, <2>2, <2>5 DEF StoredInv, HeadersFit
    <2>7. <<t, l.document>>[1] # "receipts"
      BY <1>5
    <2>8. HeaderOf(l).supplier \in SupplierCodes
      BY <2>4, <2>5, <2>7 DEF SupplierCodes
    <2> QED BY <2>4, <2>5, <2>6, <2>8
  <1> QED BY <1>3, <1>4, <1>5

(* The stored documents name finitely many suppliers.                      *)
LEMMA SuppliersAreFinite ==
  ASSUME Saved
  PROVE  IsFiniteSet(SupplierCodes)
  <1>0. /\ TypeOK /\ book \in Books /\ StoredInv
        /\ files \subseteq {"purchase_orders", "receipts", "invoices"}
    BY SavedFacts
  <1> DEFINE all == (RowsOf("purchase_orders") \cup RowsOf("receipts")) \cup RowsOf("invoices")
             h == [p \in all |-> headers[<<p.table, DocumentKey(p)>>].supplier]
  <1>1. IsFiniteSet(all)
    <2>1. IsFiniteSet(RowsOf("purchase_orders")) /\ IsFiniteSet(RowsOf("receipts"))
          /\ IsFiniteSet(RowsOf("invoices"))
      BY <1>0, RowsAreFinite
    <2> QED BY <2>1, FS_Union
  <1>2. \A p \in PlacesIn(files) : p \in all
    BY <1>0 DEF PlacesIn
  <1>3. ASSUME NEW z \in SupplierCodes PROVE \E p \in all : h[p] = z
    <2>1. PICK g \in DOMAIN headers : z = headers[g].supplier
      BY DEF SupplierCodes
    <2>2. PICK p \in PlacesIn(files) : g = <<p.table, DocumentKey(p)>>
      BY <1>0 DEF StoredInv, HeadersFit
    <2> QED BY <1>2, <2>1, <2>2
  <1> HIDE DEF h, all
  <1> QED BY <1>1, <1>3, ImageIsFinite

(* The total over the suppliers is a sum of a function.                    *)
LEMMA TotalIs ==
  ASSUME Saved, NEW f
  PROVE  Total(f) = SumOver(f, SupplierCodes)
  <1>1. IsFiniteSet(SupplierCodes) /\ \A x \in SupplierCodes : f[x] = f[x]
    BY SuppliersAreFinite
  <1>2. MapThenSumSet(LAMBDA code : f[code], SupplierCodes) = SumOver(f, SupplierCodes)
    BY <1>1, CodeSum
  <1> QED BY <1>2, Zenon DEF Total

(* The documents of the suppliers are those of the run.                    *)
LEMMA DocumentsAddUp ==
  ASSUME Saved, NEW t \in files \ {"receipts"}
  PROVE  Documents(LinesOf(t)) =
            Total([code \in SupplierCodes |-> Documents(SuppliedBy(code, t))])
  <1> DEFINE D == {l.document : l \in LinesOf(t)}
             key == [d \in D |-> headers[<<t, d>>].supplier]
             g == [code \in SupplierCodes |-> Documents(SuppliedBy(code, t))]
             h == [l \in LinesOf(t) |-> l.document]
  <1>1. IsFiniteSet(D)
    <2>1. IsFiniteSet(LinesOf(t)) /\ \A d \in D : \E l \in LinesOf(t) : h[l] = d
      BY SavedLines
    <2> HIDE DEF D, h
    <2> QED BY <2>1, ImageIsFinite
  <1>2. \A l \in LinesOf(t) : key[l.document] = HeaderOf(l).supplier
                              /\ HeaderOf(l).supplier \in SupplierCodes
    BY SavedLines
  <1>3. \A d \in D : key[d] \in SupplierCodes
    BY <1>2
  <1>4. ASSUME NEW code \in SupplierCodes PROVE g[code] = Cardinality(At(key, D, code))
    <2>1. {l.document : l \in SuppliedBy(code, t)} = At(key, D, code)
      <3>1. \A d : d \in At(key, D, code) <=> \E l \in LinesOf(t) : d = l.document /\ key[d] = code
        BY DEF At
      <3>2. \A d : d \in {l.document : l \in SuppliedBy(code, t)}
                        <=> \E l \in LinesOf(t) : d = l.document /\ HeaderOf(l).supplier = code
        BY DEF SuppliedBy
      <3> HIDE DEF key, D
      <3> QED BY <1>2, <3>1, <3>2
    <2> QED BY <2>1 DEF Documents
  <1>5. Documents(LinesOf(t)) = Cardinality(D)
    BY DEF Documents
  <1> HIDE DEF D, key, g, h
  <1>6. Cardinality(D) = SumOver(g, SupplierCodes)
    BY <1>1, <1>3, <1>4, SuppliersAreFinite, SizeByKey
  <1>7. Total(g) = SumOver(g, SupplierCodes)
    BY TotalIs
  <1> QED BY <1>5, <1>6, <1>7 DEF g

(* Quantities and amounts of stored lines are natural numbers.             *)
LEMMA AmountsAreNat ==
  ASSUME Saved, NEW t \in files, NEW l \in LinesOf(t)
  PROVE  /\ Quantity(l) \in Nat \ {0}
         /\ t # "receipts" => Value(l) \in Nat
  <1>0. TypeOK /\ book \in Books /\ t \in {"purchase_orders", "receipts", "invoices"}
    BY SavedFacts
  <1>1. PICK p \in RowsOf(t) : l = Kept(p)
    BY SavedLines
  <1>2. l.place = p
    BY <1>1, PlaceIsItself
  <1>3. CASE t = "purchase_orders"
    <2>1. PICK o \in book.orders : p = OrderPlace(o.po, o.line)
      BY <1>3, PlacesAre
    <2>2. Row(p) = o /\ o \in OrderLine
      BY <1>0, <2>1, OrderRow DEF TypeOK, Book
    <2>3. Quantity(l) = o.quantity /\ Value(l) = o.quantity * o.price
      BY <1>2, <2>2 DEF Quantity, Value
    <2>4. o.quantity \in Nat \ {0} /\ o.price \in Nat
      BY <2>2 DEF OrderLine
    <2> QED BY <2>3, <2>4, ProductIsNat
  <1>4. CASE t = "receipts"
    <2>1. PICK n \in DOMAIN book.receipts : p = Place("receipts", n)
      BY <1>4, PlacesAre
    <2>2. Row(p) = book.receipts[n] /\ book.receipts[n] \in ReceiptLine
      BY <1>0, <2>1, ReceiptRow DEF TypeOK, Book
    <2> QED BY <1>2, <1>4, <2>2 DEF Quantity, ReceiptLine
  <1>5. CASE t = "invoices"
    <2>1. PICK k \in Lines : p = Place("invoices", k)
      BY <1>5, PlacesAre
    <2>2. Row(p) = Line(k) /\ Line(k).quantity \in Nat \ {0} /\ Line(k).price \in Nat
      BY <1>0, <2>1, InvoiceRow, LineType
    <2>3. Quantity(l) = Line(k).quantity /\ Value(l) = Line(k).quantity * Line(k).price
      BY <1>2, <2>2 DEF Quantity, Value
    <2> QED BY <2>2, <2>3, ProductIsNat
  <1> QED BY <1>0, <1>3, <1>4, <1>5

(* The money of the suppliers is that of the run.                          *)
LEMMA MoneyAddsUp ==
  ASSUME Saved, NEW t \in files \ {"receipts"}, NEW c
  PROVE  Money(LinesOf(t), c) =
            Total([code \in SupplierCodes |-> Money(SuppliedBy(code, t), c)])
  <1> DEFINE A == {l \in LinesOf(t) : HeaderOf(l).currency = c}
             f == [l \in LinesOf(t) |-> Value(l)]
             key == [l \in LinesOf(t) |-> HeaderOf(l).supplier]
             g == [code \in SupplierCodes |-> Money(SuppliedBy(code, t), c)]
  <1>1. IsFiniteSet(A) /\ A \in SUBSET LinesOf(t)
    BY SavedLines, FS_Subset
  <1>2. \A l \in LinesOf(t) : f[l] = Value(l) /\ f[l] \in Nat /\ key[l] = HeaderOf(l).supplier
                              /\ key[l] \in SupplierCodes
    BY SavedLines, AmountsAreNat
  <1>3. Money(LinesOf(t), c) = SumOver(f, A)
    <2>1. \A x \in A : f[x] = Value(x)
      BY <1>2
    <2>2. Money(LinesOf(t), c) = MapThenSumSet(Value, A)
      BY Zenon DEF Money
    <2> HIDE DEF A, f
    <2> QED BY <1>1, <2>1, <2>2, StoredValueSum
  <1>4. ASSUME NEW code \in SupplierCodes PROVE g[code] = SumOver(f, At(key, A, code))
    <2> DEFINE B == {l \in SuppliedBy(code, t) : HeaderOf(l).currency = c}
    <2>1. B = At(key, A, code)
      BY <1>2 DEF At, SuppliedBy
    <2>2. IsFiniteSet(B) /\ \A x \in B : f[x] = Value(x)
      <3>1. B \in SUBSET A
        BY <2>1 DEF At
      <3> QED BY <1>1, <1>2, <3>1, FS_Subset
    <2>3. g[code] = MapThenSumSet(Value, B)
      <3>1. g[code] = Money(SuppliedBy(code, t), c)
        OBVIOUS
      <3> QED BY <3>1, Zenon DEF Money
    <2> HIDE DEF B, f, g, key, A
    <2>4. MapThenSumSet(Value, B) = SumOver(f, B)
      BY <2>2, StoredValueSum
    <2> QED BY <2>1, <2>3, <2>4
  <1>5. \A x \in A : f[x] \in Nat /\ key[x] \in SupplierCodes
    BY <1>2
  <1> HIDE DEF A, f, key, g
  <1>6. SumOver(f, A) = SumOver(g, SupplierCodes)
    BY <1>1, <1>4, <1>5, SuppliersAreFinite, SumByKey
  <1>7. Total(g) = SumOver(g, SupplierCodes)
    BY TotalIs
  <1> QED BY <1>3, <1>6, <1>7 DEF g

(* Stored lines, by supplier.                                              *)
LEMMA LinesAddUp ==
  ASSUME Saved, NEW t \in files \ {"receipts"}, NEW S, S \subseteq LinesOf(t)
  PROVE  Cardinality(S) =
            Total([code \in SupplierCodes |-> Cardinality(S \cap SuppliedBy(code, t))])
  <1> DEFINE key == [l \in LinesOf(t) |-> HeaderOf(l).supplier]
             g == [code \in SupplierCodes |-> Cardinality(S \cap SuppliedBy(code, t))]
  <1>1. IsFiniteSet(S)
    BY SavedLines, FS_Subset
  <1>2. \A l \in S : key[l] \in SupplierCodes
    BY SavedLines
  <1>3. ASSUME NEW code \in SupplierCodes PROVE g[code] = Cardinality(At(key, S, code))
    <2>1. S \cap SuppliedBy(code, t) = At(key, S, code)
      BY DEF At, SuppliedBy
    <2> QED BY <2>1
  <1> HIDE DEF key, g
  <1>4. Cardinality(S) = SumOver(g, SupplierCodes)
    BY <1>1, <1>2, <1>3, SuppliersAreFinite, SizeByKey
  <1>5. Total(g) = SumOver(g, SupplierCodes)
    BY TotalIs
  <1> QED BY <1>4, <1>5 DEF g
-----------------------------------------------------------------------------
(* The rows of the report and their issues.                                *)

(* Every row names a supplier of the stored documents.                     *)
LEMMA RowsAreNamed ==
  ASSUME Saved
  PROVE  /\ IsFiniteSet(ReportRows)
         /\ \A row \in ReportRows : NamedIn(row) \in SupplierCodes
  <1>0. /\ TypeOK /\ book \in Books /\ files \subseteq {"purchase_orders", "receipts", "invoices"}
        /\ "invoices" \in files => mode # "PO_RECEIPT" /\ DOMAIN results = Lines
        /\ "invoices" \notin files => mode = "PO_RECEIPT" /\ DOMAIN results = {}
        /\ mode = "PO_RECEIPT" => "purchase_orders" \in files
    BY SavedFacts
  <1>1. CASE mode = "PO_RECEIPT"
    <2>1. ReportRows = book.orders /\ IsFiniteSet(book.orders)
      BY <1>0, <1>1, BookAssumption DEF ReportRows
    <2>2. ASSUME NEW o \in book.orders PROVE NamedIn(o) \in SupplierCodes
      <3> DEFINE p == OrderPlace(o.po, o.line)
      <3>1. p \in RowsOf("purchase_orders") /\ Row(p) = o
        BY <1>0, OrderRow
      <3>2. Kept(p) \in LinesOf("purchase_orders") /\ Kept(p).place = p
        BY <1>0, <1>1, <3>1, SavedLines, PlaceIsItself
      <3>3. HeaderOf(Kept(p)).supplier = Row(Kept(p).place).supplier
            /\ HeaderOf(Kept(p)).supplier \in SupplierCodes
        BY <1>0, <1>1, <3>2, SavedLines
      <3> HIDE DEF p
      <3> QED BY <1>1, <3>1, <3>2, <3>3 DEF NamedIn
    <2> QED BY <2>1, <2>2
  <1>2. CASE mode # "PO_RECEIPT"
    <2>1. ReportRows = Lines /\ IsFiniteSet(Lines)
      <3>1. Lines = 1..Len(book.invoices) /\ Len(book.invoices) \in Nat
        BY <1>0 DEF TypeOK, Book, Lines
      <3> QED BY <1>0, <1>2, <3>1, FS_Interval DEF ReportRows
    <2>2. ASSUME NEW k \in Lines PROVE NamedIn(k) \in SupplierCodes
      <3> DEFINE p == Place("invoices", k)
      <3>1. p \in RowsOf("invoices") /\ Row(p) = Line(k)
        BY InvoiceRow
      <3>2. Kept(p) \in LinesOf("invoices") /\ Kept(p).place = p
        BY <1>0, <1>2, <3>1, SavedLines, PlaceIsItself
      <3>3. HeaderOf(Kept(p)).supplier = Row(Kept(p).place).supplier
            /\ HeaderOf(Kept(p)).supplier \in SupplierCodes
        BY <1>0, <1>2, <3>2, SavedLines
      <3> HIDE DEF p
      <3> QED BY <1>2, <3>1, <3>2, <3>3 DEF NamedIn
    <2> QED BY <2>1, <2>2
  <1> QED BY <1>1, <1>2

(* A row of the report has finitely many issues.                           *)
LEMMA RowIssuesAreFinite ==
  ASSUME Saved, NEW row \in ReportRows
  PROVE  IsFiniteSet(IssuesIn(row))
  <1>1. CASE mode = "PO_RECEIPT"
    <2>1. IsFiniteSet({"OVER_RECEIVED"}) /\ IsFiniteSet({})
      BY FS_Singleton, FS_EmptySet
    <2> QED BY <1>1, <2>1 DEF IssuesIn
  <1>2. CASE mode # "PO_RECEIPT"
    <2>1. row \in DOMAIN results /\ IssuesIn(row) = results[row].issues
      BY <1>2 DEF ReportRows, IssuesIn
    <2>2. results[row].issues \in SUBSET IssueCode
      BY <2>1, SavedFacts DEF TypeOK, Result
    <2> QED BY <2>1, <2>2, IssueCodesAreFinite, FS_Subset
  <1> QED BY <1>1, <1>2

(* The rows of the report, by supplier.                                    *)
LEMMA RowsAddUp ==
  ASSUME Saved, NEW S, S \subseteq ReportRows
  PROVE  /\ IsFiniteSet(S)
         /\ Cardinality(S) =
                Total([code \in SupplierCodes |-> Cardinality(S \cap ReportedOn(code))])
  <1> DEFINE key == [row \in ReportRows |-> NamedIn(row)]
             g == [code \in SupplierCodes |-> Cardinality(S \cap ReportedOn(code))]
  <1>1. IsFiniteSet(S)
    BY RowsAreNamed, FS_Subset
  <1>2. \A row \in S : key[row] \in SupplierCodes
    BY RowsAreNamed
  <1>3. ASSUME NEW code \in SupplierCodes PROVE g[code] = Cardinality(At(key, S, code))
    <2>1. S \cap ReportedOn(code) = At(key, S, code)
      BY DEF At, ReportedOn
    <2> QED BY <2>1
  <1> HIDE DEF key, g
  <1>4. Cardinality(S) = SumOver(g, SupplierCodes)
    BY <1>1, <1>2, <1>3, SuppliersAreFinite, SizeByKey
  <1>5. Total(g) = SumOver(g, SupplierCodes)
    BY TotalIs
  <1> QED BY <1>1, <1>4, <1>5 DEF g

(* The issues of the suppliers are those of the rows.                      *)
LEMMA IssuesAddUp ==
  ASSUME Saved, NEW i
  PROVE  IssueCount(ReportRows, i) =
            Total([code \in SupplierCodes |-> IssueCount(ReportedOn(code), i)])
  <1> DEFINE S == {row \in ReportRows : i \in IssuesIn(row)}
  <1>1. \A code : S \cap ReportedOn(code) = {row \in ReportedOn(code) : i \in IssuesIn(row)}
    BY DEF ReportedOn
  <1>2. \A code : Cardinality(S \cap ReportedOn(code)) = IssueCount(ReportedOn(code), i)
    BY <1>1 DEF IssueCount
  <1>3. Cardinality(S) = IssueCount(ReportRows, i)
    BY DEF IssueCount
  <1> HIDE DEF S
  <1>4. S \subseteq ReportRows
    BY DEF S
  <1> QED BY <1>2, <1>3, <1>4, RowsAddUp

(* So are the reviews of the suppliers.                                    *)
LEMMA ReviewsAddUp ==
  ASSUME Saved, "invoices" \in files
  PROVE  ReviewCount(DOMAIN results) =
            Total([code \in SupplierCodes |-> ReviewCount(ReportedOn(code))])
  <1> DEFINE S == {k \in DOMAIN results : results[k].issues # {}}
  <1>1. ReportRows = DOMAIN results
    BY SavedFacts DEF ReportRows
  <1>2. \A code : S \cap ReportedOn(code) = {k \in ReportedOn(code) : results[k].issues # {}}
    BY <1>1 DEF ReportedOn
  <1>3. \A code : Cardinality(S \cap ReportedOn(code)) = ReviewCount(ReportedOn(code))
    BY <1>2 DEF ReviewCount
  <1>4. Cardinality(S) = ReviewCount(DOMAIN results) /\ S \subseteq ReportRows
    BY <1>1 DEF ReviewCount
  <1> HIDE DEF S
  <1> QED BY <1>3, <1>4, RowsAddUp

-----------------------------------------------------------------------------
(* The findings, row by row.                                               *)

RowFindings(row) == IF mode = "PO_RECEIPT" THEN OrderFindings(row) ELSE InvoiceFindings(row)
OfRows == UNION {RowFindings(row) : row \in ReportRows}
InCategory(S, g) == {f \in S : f.category = g}

(* The findings of a saved run are those of its rows and its orphans.      *)
LEMMA FindingsAreOfRows ==
  ASSUME Saved
  PROVE  SoFar = OfRows \cup OfOrphans(DOMAIN orphans)
  <1>0. /\ SoFar = FindingsOf(DOMAIN results, OrdersToRead, DOMAIN orphans)
        /\ mode = "PO_RECEIPT" => DOMAIN results = {}
    BY SavedFacts
  <1>1. CASE mode = "PO_RECEIPT"
    <2>1. OfInvoices(DOMAIN results) = {}
      BY <1>0, <1>1 DEF OfInvoices
    <2>2. OfOrders(OrdersToRead) = OfRows
      BY <1>1 DEF OfOrders, OfRows, OrdersToRead, ReportRows, RowFindings
    <2> QED BY <1>0, <2>1, <2>2 DEF FindingsOf
  <1>2. CASE mode # "PO_RECEIPT"
    <2>1. OfOrders(OrdersToRead) = {}
      BY <1>2 DEF OfOrders, OrdersToRead
    <2>2. OfInvoices(DOMAIN results) = OfRows
      BY <1>2 DEF OfInvoices, OfRows, ReportRows, RowFindings
    <2> QED BY <1>0, <2>1, <2>2 DEF FindingsOf
  <1> QED BY <1>1, <1>2

(* One issue of a row is one finding of its category.                      *)
FindingOn(row, i) ==
    IF mode = "PO_RECEIPT" THEN Finding(i, None, OrderPlace(row.po, row.line), None)
    ELSE Finding(i, Place("invoices", row), Resolved(Line(row)), None)

(* A finding has the category of its issue.                                *)
LEMMA FindingIs ==
  /\ \A row, i : FindingOn(row, i).code = i /\ FindingOn(row, i).category = Category(i)
  /\ \A n : OrphanFinding(n).code = orphans[n]
            /\ OrphanFinding(n).category = Category(orphans[n])
  <1>1. \A a, b, c, d : Finding(a, b, c, d).code = a /\ Finding(a, b, c, d).category = Category(a)
    BY DEF Finding
  <1> QED BY <1>1 DEF FindingOn, OrphanFinding

(* The findings of a row are its issues.                                   *)
LEMMA RowFindingsAre ==
  ASSUME NEW row
  PROVE  RowFindings(row) = {FindingOn(row, i) : i \in IssuesIn(row)}
  <1>1. CASE mode = "PO_RECEIPT"
    <2>1. CASE Fulfilment(row) = "OVER_RECEIVED"
      BY <1>1, <2>1 DEF RowFindings, OrderFindings, IssuesIn, FindingOn
    <2>2. CASE Fulfilment(row) # "OVER_RECEIVED"
      BY <1>1, <2>2 DEF RowFindings, OrderFindings, IssuesIn, FindingOn
    <2> QED BY <2>1, <2>2
  <1>2. CASE mode # "PO_RECEIPT"
    BY <1>2 DEF RowFindings, InvoiceFindings, IssuesIn, FindingOn
  <1> QED BY <1>1, <1>2

(* The findings of a category of a row are its issues of the category.     *)
LEMMA CategoryOfRow ==
  ASSUME Saved, NEW row \in ReportRows, NEW g
  PROVE  Cardinality(InCategory(RowFindings(row), g)) =
            Cardinality({i \in IssuesIn(row) : Category(i) = g})
  <1> DEFINE S == {i \in IssuesIn(row) : Category(i) = g}
             T == InCategory(RowFindings(row), g)
             h == [i \in S |-> FindingOn(row, i)]
  <1>1. IsFiniteSet(S)
    BY RowIssuesAreFinite, FS_Subset
  <1>2. \A f : f \in T <=> \E i \in IssuesIn(row) : f = FindingOn(row, i) /\ Category(i) = g
    BY RowFindingsAre, FindingIs DEF InCategory
  <1>3. OneToOne(h, S, T)
    <2>1. \A x \in S : h[x] \in T
      BY <1>2
    <2>2. \A x, y \in S : h[x] = h[y] => x = y
      BY FindingIs
    <2>3. \A z \in T : \E x \in S : h[x] = z
      BY <1>2
    <2> QED BY <2>1, <2>2, <2>3 DEF OneToOne
  <1> HIDE DEF S, T, h
  <1>4. Cardinality(S) = Cardinality(T)
    BY <1>1, <1>3, SizeMoves
  <1> QED BY <1>4 DEF S, T

(* The findings of a category of the orphans are the orphans of it.        *)
LEMMA CategoryOfOrphans ==
  ASSUME Saved, NEW g
  PROVE  Cardinality(InCategory(OfOrphans(DOMAIN orphans), g)) =
            Cardinality({n \in DOMAIN orphans : Category(orphans[n]) = g})
  <1> DEFINE S == {n \in DOMAIN orphans : Category(orphans[n]) = g}
             T == InCategory(OfOrphans(DOMAIN orphans), g)
             h == [n \in S |-> OrphanFinding(n)]
  <1>1. IsFiniteSet(S)
    <2>1. DOMAIN orphans \subseteq 1..counted /\ counted \in Nat
      BY SavedFacts DEF TypeOK, Book
    <2>2. IsFiniteSet(1..counted)
      BY <2>1, FS_Interval
    <2>3. S \in SUBSET (1..counted)
      BY <2>1
    <2> QED BY <2>2, <2>3, FS_Subset
  <1>2. \A f : f \in T <=> \E n \in DOMAIN orphans : f = OrphanFinding(n) /\ Category(orphans[n]) = g
    BY FindingIs DEF InCategory, OfOrphans
  <1>3. OneToOne(h, S, T)
    <2>1. \A x \in S : h[x] \in T
      BY <1>2
    <2>2. \A x, y \in S : h[x] = h[y] => x = y
      BY FindingsDiffer
    <2>3. \A z \in T : \E x \in S : h[x] = z
      BY <1>2
    <2> QED BY <2>1, <2>2, <2>3 DEF OneToOne
  <1> HIDE DEF S, T, h
  <1>4. Cardinality(S) = Cardinality(T)
    BY <1>1, <1>3, SizeMoves
  <1> QED BY <1>4 DEF S, T

(* Findings of two rows, and of a row and an orphan, differ.               *)
LEMMA RowsDiffer ==
  ASSUME Saved
  PROVE  /\ \A row, other \in ReportRows : row # other =>
                RowFindings(row) \cap RowFindings(other) = {}
         /\ OfRows \cap OfOrphans(DOMAIN orphans) = {}
  <1>1. ASSUME NEW row \in ReportRows, NEW other \in ReportRows, NEW f,
               f \in RowFindings(row), f \in RowFindings(other)
        PROVE  row = other
    <2>1. CASE mode = "PO_RECEIPT"
      <3>1. row.po = other.po /\ row.line = other.line
        BY <1>1, <2>1, FindingsDiffer DEF RowFindings
      <3>2. row \in book.orders /\ other \in book.orders /\ Loaded(book)
        BY <2>1, SavedFacts, BookAssumption DEF ReportRows
      <3> QED BY <3>1, <3>2 DEF Loaded
    <2>2. CASE mode # "PO_RECEIPT"
      BY <1>1, <2>2, FindingsDiffer DEF RowFindings
    <2> QED BY <2>1, <2>2
  <1>2. ASSUME NEW row, NEW n PROVE OrphanFinding(n) \notin RowFindings(row)
    BY FindingsDiffer DEF RowFindings
  <1> QED BY <1>1, <1>2 DEF OfRows, OfOrphans

(* The findings of a category are those of the suppliers and the orphans.  *)
LEMMA CategoriesAddUp ==
  ASSUME Saved, NEW g
  PROVE  FindingCount(g) =
            Total([code \in SupplierCodes |-> CategoryCount(ReportedOn(code), g)])
                + Cardinality({n \in DOMAIN orphans : Category(orphans[n]) = g})
  <1> DEFINE S == {n \in DOMAIN findings : findings[n].category = g}
             T == InCategory(SoFar, g)
             A == InCategory(OfRows, g)
             B == InCategory(OfOrphans(DOMAIN orphans), g)
             P == [row \in ReportRows |-> InCategory(RowFindings(row), g)]
             c == [row \in ReportRows |-> Cardinality({i \in IssuesIn(row) : Category(i) = g})]
             key == [row \in ReportRows |-> NamedIn(row)]
             q == [code \in SupplierCodes |-> CategoryCount(ReportedOn(code), g)]
  <1>1. IsListing(findings, SoFar)
    BY SavedFacts
  <1>2. IsFiniteSet(SoFar)
    BY <1>1, ListIsAsLong
  <1>3. Cardinality(S) = Cardinality(T)
    <2>1. IsFiniteSet(DOMAIN findings)
      <3>1. DOMAIN findings = 1..Len(findings) /\ Len(findings) \in Nat
        BY <1>1 DEF IsListing
      <3> QED BY <3>1, FS_Interval
    <2>2. IsFiniteSet(S)
      BY <2>1, FS_Subset
    <2>3. OneToOne(findings, S, T)
      <3>1. \A n \in DOMAIN findings : findings[n] \in SoFar
        BY <1>1 DEF IsListing
      <3>2. \A n, m \in DOMAIN findings : findings[n] = findings[m] => n = m
        BY <1>1 DEF IsListing, IsInjective
      <3>3. \A f \in SoFar : \E n \in DOMAIN findings : findings[n] = f
        BY <1>1 DEF IsListing, ToSet
      <3> QED BY <3>1, <3>2, <3>3 DEF OneToOne, InCategory
    <2> HIDE DEF S, T
    <2> QED BY <2>2, <2>3, SizeMoves
  <1>4. A \cup B = T /\ A \cap B = {} /\ IsFiniteSet(A) /\ IsFiniteSet(B)
    <2>1. A \cup B = T
      BY FindingsAreOfRows DEF InCategory
    <2>2. A \cap B = {}
      BY RowsDiffer DEF InCategory
    <2>3. A \in SUBSET SoFar /\ B \in SUBSET SoFar
      BY FindingsAreOfRows DEF InCategory
    <2> QED BY <1>2, <2>1, <2>2, <2>3, FS_Subset
  <1>5. Cardinality(T) = Cardinality(A) + Cardinality(B)
    <2> HIDE DEF T, A, B
    <2>1. Cardinality(A \cup B) = Cardinality(A) + Cardinality(B) - Cardinality(A \cap B)
      BY <1>4, FS_Union
    <2>2. Cardinality(A) \in Nat /\ Cardinality(B) \in Nat
      BY <1>4, FS_CardinalityType
    <2>3. Cardinality(A \cap B) = 0
      BY <1>4, FS_EmptySet
    <2>4. Cardinality(A \cup B) = Cardinality(T)
      BY <1>4
    <2> QED BY <2>1, <2>2, <2>3, <2>4
  <1>6. Cardinality(A) = SumOver(c, ReportRows)
    <2>1. ASSUME NEW row \in ReportRows
          PROVE  P[row] \in SUBSET A /\ c[row] = Cardinality(P[row])
      <3>1. P[row] \in SUBSET A
        BY DEF InCategory, OfRows
      <3>2. c[row] = Cardinality(P[row])
        BY CategoryOfRow
      <3> QED BY <3>1, <3>2
    <2>2. \A x, y \in ReportRows : x # y => P[x] \cap P[y] = {}
      BY RowsDiffer DEF InCategory
    <2>3. \A u \in A : \E x \in ReportRows : u \in P[x]
      BY DEF InCategory, OfRows
    <2> HIDE DEF A, P, c
    <2> QED BY <1>4, <2>1, <2>2, <2>3, RowsAreNamed, SizeOfParts
  <1>7. \A row \in ReportRows : c[row] \in Nat /\ key[row] \in SupplierCodes
    <2>1. ASSUME NEW row \in ReportRows PROVE c[row] \in Nat
      <3> DEFINE I == {i \in IssuesIn(row) : Category(i) = g}
      <3>1. IsFiniteSet(I)
        BY RowIssuesAreFinite, FS_Subset
      <3>2. c[row] = Cardinality(I)
        OBVIOUS
      <3> HIDE DEF I, c
      <3> QED BY <3>1, <3>2, FS_CardinalityType
    <2> QED BY <2>1, RowsAreNamed
  <1>8. ASSUME NEW code \in SupplierCodes PROVE q[code] = SumOver(c, At(key, ReportRows, code))
    <2>1. ReportedOn(code) = At(key, ReportRows, code)
      BY DEF ReportedOn, At
    <2>2. ReportedOn(code) \in SUBSET ReportRows
      BY DEF ReportedOn
    <2>3. IsFiniteSet(ReportedOn(code))
      BY <2>2, RowsAreNamed, FS_Subset
    <2>4. \A x \in ReportedOn(code) :
              c[x] = Cardinality({i \in IssuesIn(x) : Category(i) = g})
      BY <2>2
    <2>5. q[code] = CategoryCount(ReportedOn(code), g)
      OBVIOUS
    <2> HIDE DEF c, q, key
    <2>6. MapThenSumSet(LAMBDA row : Cardinality({i \in IssuesIn(row) : Category(i) = g}),
                        ReportedOn(code)) = SumOver(c, ReportedOn(code))
      BY <2>3, <2>4, CategorySum
    <2>7. CategoryCount(ReportedOn(code), g) = SumOver(c, ReportedOn(code))
      BY <2>6, Zenon DEF CategoryCount
    <2> QED BY <2>1, <2>5, <2>7
  <1>9. FindingCount(g) = Cardinality(S)
    BY DEF FindingCount
  <1>10. Cardinality(B) = Cardinality({n \in DOMAIN orphans : Category(orphans[n]) = g})
    BY CategoryOfOrphans
  <1> HIDE DEF S, T, A, B, P, c, key, q
  <1>11. SumOver(c, ReportRows) = SumOver(q, SupplierCodes)
    BY <1>7, <1>8, RowsAreNamed, SuppliersAreFinite, SumByKey
  <1>12. Total(q) = SumOver(q, SupplierCodes)
    BY TotalIs
  <1>13. FindingCount(g) = Total(q) + Cardinality(B)
    BY <1>3, <1>5, <1>6, <1>9, <1>11, <1>12
  <1> QED BY <1>10, <1>13 DEF q
-----------------------------------------------------------------------------
(* What the stored receipts bring to the stored orders.                    *)

(* Both files are stored, and every receipt was counted.                   *)
Delivering == Saved /\ AllCounted /\ {"purchase_orders", "receipts"} \subseteq files

(* What is known of a run that stores the orders and the receipts.         *)
LEMMA DeliveringFacts ==
  ASSUME Delivering
  PROVE  /\ Saved /\ TypeOK /\ book \in Books
         /\ "purchase_orders" \in files /\ "receipts" \in files
         /\ "purchase_orders" \in RequiredSources
         /\ mode \in {"PO_RECEIPT", "THREE_WAY"}
         /\ counted = Len(book.receipts) /\ DOMAIN book.receipts = 1..counted
         /\ book.receipts \in Seq(ReceiptLine)
         /\ \A o \in book.orders : Received(o) = SumOver(Deliveries, DeliveriesFor(o))
  <1>1. /\ Saved /\ TypeOK /\ book \in Books /\ files = RequiredSources /\ mode \in Mode
        /\ ReportReady /\ "purchase_orders" \in files /\ "receipts" \in files
    BY SavedFacts DEF Delivering
  <1>2. mode # "INVOICE_PO" /\ mode # "INVOICE_RECEIPT"
    BY <1>1 DEF RequiredSources
  <1>3. mode \in {"PO_RECEIPT", "THREE_WAY"}
    BY <1>1, <1>2 DEF Mode
  <1>4. counted = Len(book.receipts)
    BY <1>1, <1>2 DEF ReportReady, ReceiptsCounted
  <1>5. book.receipts \in Seq(ReceiptLine)
    BY <1>1 DEF TypeOK, Book
  <1>6. DOMAIN book.receipts = 1..counted
    BY <1>4, <1>5
  <1>7. \A o \in book.orders : Received(o) = SumOver(Deliveries, DeliveriesFor(o))
    BY <1>2 DEF Delivering, AllCounted
  <1> QED BY <1>1, <1>3, <1>4, <1>5, <1>6, <1>7

(* A stored order line, and the stored receipts that were resolved to it.  *)
LEMMA StoredOrderIs ==
  ASSUME Delivering, NEW l \in LinesOf("purchase_orders")
  PROVE  /\ Row(l.place) \in book.orders
         /\ l.place = OrderPlace(Row(l.place).po, Row(l.place).line)
         /\ Quantity(l) = Row(l.place).quantity /\ Quantity(l) \in Nat \ {0}
  <1>1. PICK p \in RowsOf("purchase_orders") : l = Kept(p)
    BY DeliveringFacts, SavedLines
  <1>2. PICK o \in book.orders : p = OrderPlace(o.po, o.line)
    BY PlacesAre
  <1>3. l.place = p /\ Row(p) = o
    BY <1>1, <1>2, DeliveringFacts, OrderRow, PlaceIsItself
  <1>4. Quantity(l) \in Nat \ {0}
    BY DeliveringFacts, AmountsAreNat
  <1> QED BY <1>2, <1>3, <1>4 DEF Quantity

KeptReceipt == [n \in DOMAIN book.receipts |-> Kept(Place("receipts", n))]

(* The stored deliveries of an order line are the ones that were counted.  *)
LEMMA DeliveriesAreKept ==
  ASSUME Delivering, NEW l \in LinesOf("purchase_orders")
  PROVE  OneToOne(KeptReceipt, DeliveriesFor(Row(l.place)), DeliveriesTo(l))
  <1> DEFINE o == Row(l.place)
             h == KeptReceipt
  <1>0. o \in book.orders /\ l.place = OrderPlace(o.po, o.line)
    BY StoredOrderIs
  <1>1. /\ DOMAIN book.receipts = 1..counted /\ Loaded(book)
        /\ "purchase_orders" \in RequiredSources
        /\ LinesOf("receipts") = {Kept(p) : p \in RowsOf("receipts")}
    BY DeliveringFacts, SavedLines, BookAssumption
  <1> HIDE DEF o
  <1>2. ASSUME NEW n \in DOMAIN book.receipts
        PROVE  /\ h[n] \in LinesOf("receipts") /\ h[n].place = Place("receipts", n)
               /\ h[n].order = Resolved(book.receipts[n])
    <2> DEFINE p == Place("receipts", n)
    <2>1. p \in RowsOf("receipts") /\ p.table = "receipts" /\ Row(p) = book.receipts[n]
      BY ReceiptRow
    <2>2. h[n] = Kept(p)
      BY DEF KeptReceipt
    <2>3. Kept(p).place = p /\ Kept(p).order = Resolved(Row(p))
      BY <2>1 DEF Kept
    <2> HIDE DEF p
    <2>4. Kept(p) \in LinesOf("receipts")
      BY <1>1, <2>1
    <2> QED BY <2>1, <2>2, <2>3, <2>4 DEF p
  <1>3. ASSUME NEW n \in DOMAIN book.receipts
        PROVE  h[n].order = l.place <=> n \in DeliveriesFor(o)
    <2> DEFINE row == book.receipts[n]
               known == \E z \in book.orders : z.po = row.po /\ z.line = row.poLine
                                               /\ z.item = row.item
    <2>1. Resolved(row) = IF known THEN OrderPlace(row.po, row.poLine) ELSE None
      BY <1>1 DEF Resolved
    <2>2. OrderPlace(row.po, row.poLine) = OrderPlace(o.po, o.line)
            <=> row.po = o.po /\ row.poLine = o.line
      <3>1. \A a, b : OrderPlace(a, b).po = a /\ OrderPlace(a, b).line = b
        BY DEF OrderPlace
      <3> QED BY <3>1
    <2>3. None # OrderPlace(o.po, o.line)
      BY DEF None, OrderPlace
    <2>4. row.po = o.po /\ row.poLine = o.line => (known <=> row.item = o.item)
      <3>1. \A z \in book.orders : z.po = o.po /\ z.line = o.line => z = o
        BY <1>0, <1>1 DEF Loaded
      <3> QED BY <1>0, <3>1
    <2>5. n \in DeliveriesFor(o) <=> row.po = o.po /\ row.poLine = o.line /\ row.item = o.item
      BY <1>1 DEF DeliveriesFor
    <2>6. h[n].order = Resolved(row)
      BY <1>2
    <2> HIDE DEF row, known, h
    <2> QED BY <1>0, <2>1, <2>2, <2>3, <2>4, <2>5, <2>6
  <1>4. DeliveriesFor(o) \subseteq DOMAIN book.receipts
    BY <1>1 DEF DeliveriesFor
  <1>5. ASSUME NEW z \in LinesOf("receipts") PROVE \E n \in DOMAIN book.receipts : h[n] = z
    <2>1. PICK p \in RowsOf("receipts") : z = Kept(p)
      BY <1>1
    <2>2. PICK n \in DOMAIN book.receipts : p = Place("receipts", n)
      BY PlacesAre
    <2> QED BY <2>1, <2>2 DEF KeptReceipt
  <1> HIDE DEF h
  <1>6. \A x \in DeliveriesFor(o) : h[x] \in DeliveriesTo(l)
    BY <1>2, <1>3, <1>4 DEF DeliveriesTo
  <1>7. \A x, y \in DeliveriesFor(o) : h[x] = h[y] => x = y
    <2>1. \A n, m : Place("receipts", n) = Place("receipts", m) => n = m
      <3>1. \A n : Place("receipts", n).n = n
        BY DEF Place
      <3> QED BY <3>1
    <2> QED BY <1>2, <1>4, <2>1
  <1>8. \A z \in DeliveriesTo(l) : \E x \in DeliveriesFor(o) : h[x] = z
    BY <1>3, <1>5 DEF DeliveriesTo
  <1> QED BY <1>6, <1>7, <1>8 DEF OneToOne, o, h

(* What they bring is what the analysis counted.                           *)
LEMMA StoredReceived ==
  ASSUME Delivering, NEW l \in LinesOf("purchase_orders")
  PROVE  /\ MapThenSumSet(Quantity, DeliveriesTo(l)) = Received(Row(l.place))
         /\ IsFiniteSet(DeliveriesTo(l))
         /\ DeliveriesTo(l) \subseteq LinesOf("receipts")
         /\ Received(Row(l.place)) \in Nat
  <1> DEFINE o == Row(l.place)
             h == KeptReceipt
             S == DeliveriesFor(o)
             T == DeliveriesTo(l)
             q == [d \in LinesOf("receipts") |-> Quantity(d)]
  <1>1. T \subseteq LinesOf("receipts") /\ "receipts" \in files /\ Saved /\ TypeOK
        /\ o \in book.orders /\ OneToOne(h, S, T)
    BY DeliveringFacts, StoredOrderIs, DeliveriesAreKept DEF DeliveriesTo
  <1>2. IsFiniteSet(S) /\ S \subseteq DOMAIN Deliveries
        /\ \A n \in S : Deliveries[n] \in Nat /\ n \in DOMAIN book.receipts
    BY <1>1, DeliveriesAreLines DEF Deliveries
  <1>3. ASSUME NEW n \in S PROVE Deliveries[n] = q[h[n]]
    <2>1. h[n] \in LinesOf("receipts")
      BY <1>1 DEF OneToOne
    <2>2. h[n].place = Place("receipts", n)
      BY <1>2, PlaceIsItself DEF KeptReceipt
    <2>3. Row(Place("receipts", n)) = book.receipts[n]
      BY <1>2, ReceiptRow
    <2>4. Quantity(h[n]) = book.receipts[n].quantity
      BY <2>2, <2>3 DEF Quantity
    <2> QED BY <1>2, <2>1, <2>4 DEF Deliveries
  <1>4. \A x \in T : q[x] = Quantity(x)
    BY <1>1
  <1> HIDE DEF S, T, q, h, o
  <1>5. SumOver(Deliveries, S) = SumOver(q, T) /\ IsFiniteSet(T)
    BY <1>1, <1>2, <1>3, SumMoves
  <1>6. MapThenSumSet(Quantity, T) = SumOver(q, T)
    BY <1>4, <1>5, QuantitySum
  <1>7. Received(o) = SumOver(Deliveries, S)
    BY <1>1, DeliveringFacts DEF S
  <1>8. SumOver(Deliveries, S) \in Nat
    BY <1>2, SumIsNat
  <1> QED BY <1>1, <1>5, <1>6, <1>7, <1>8 DEF T, o

(* The statuses of a stored order line.                                    *)
LEMMA StatusIs ==
  ASSUME Delivering, NEW l \in LinesOf("purchase_orders")
  PROVE  /\ StoredFulfilment(l) = Fulfilment(Row(l.place))
         /\ FulfilmentOf(l) = "NOT_RECEIVED" <=> Received(Row(l.place)) = 0
         /\ FulfilmentOf(l) = "FULLY_RECEIVED" <=> Received(Row(l.place)) = Quantity(l)
         /\ FulfilmentOf(l) = "OVER_RECEIVED" <=> Received(Row(l.place)) > Quantity(l)
  <1> DEFINE r == Received(Row(l.place))
             q == Quantity(l)
             sum == MapThenSumSet(Quantity, DeliveriesTo(l))
  <1>1. r \in Nat /\ q \in Nat \ {0} /\ q = Row(l.place).quantity /\ sum = r
    BY StoredReceived, StoredOrderIs
  <1>2. Fulfilment(Row(l.place)) =
            CASE r = 0 -> "NOT_RECEIVED"
              [] r > q -> "OVER_RECEIVED"
              [] 0 < r /\ r < q -> "PARTIALLY_RECEIVED"
              [] r = q -> "FULLY_RECEIVED"
    BY <1>1, Zenon DEF Fulfilment
  <1>3. StoredFulfilment(l) =
            IF sum = 0 THEN "NOT_RECEIVED"
            ELSE IF sum < q THEN "PARTIALLY_RECEIVED"
            ELSE IF sum > q THEN "OVER_RECEIVED" ELSE "FULLY_RECEIVED"
    BY Zenon DEF StoredFulfilment
  <1> HIDE DEF r, q, sum
  <1>4. StoredFulfilment(l) = Fulfilment(Row(l.place))
    <2>1. CASE r = 0
      BY <1>1, <1>2, <1>3, <2>1
    <2>2. CASE r > q
      BY <1>1, <1>2, <1>3, <2>2
    <2>3. CASE 0 < r /\ r < q
      BY <1>1, <1>2, <1>3, <2>3
    <2>4. CASE r = q
      BY <1>1, <1>2, <1>3, <2>4
    <2> QED BY <1>1, <2>1, <2>2, <2>3, <2>4
  <1>5. FulfilmentOf(l) = StoredFulfilment(l)
    BY <1>4 DEF FulfilmentOf
  <1>6. /\ StoredFulfilment(l) = "NOT_RECEIVED" <=> r = 0
        /\ StoredFulfilment(l) = "FULLY_RECEIVED" <=> r = q
        /\ StoredFulfilment(l) = "OVER_RECEIVED" <=> r > q
    BY <1>1, <1>3
  <1> QED BY <1>4, <1>5, <1>6 DEF r, q

(* A line with a delivery has received something.                          *)
LEMMA FirstDayTells ==
  ASSUME Delivering, NEW l \in LinesOf("purchase_orders")
  PROVE  DeliveriesTo(l) # {} <=> FulfilmentOf(l) # "NOT_RECEIVED"
  <1> DEFINE T == DeliveriesTo(l)
             q == [d \in LinesOf("receipts") |-> Quantity(d)]
             r == Received(Row(l.place))
  <1>1. /\ MapThenSumSet(Quantity, T) = r /\ IsFiniteSet(T) /\ r \in Nat
        /\ T \subseteq LinesOf("receipts")
    BY StoredReceived
  <1>2. \A d \in T : q[d] = Quantity(d) /\ q[d] \in Nat \ {0}
    BY <1>1, DeliveringFacts, AmountsAreNat
  <1> HIDE DEF T, q, r
  <1>3. SumOver(q, T) = r
    BY <1>1, <1>2, QuantitySum
  <1>4. ASSUME T # {} PROVE r # 0
    <2>1. PICK d : d \in T
      BY <1>4
    <2>2. SumOver(q, {d}) = q[d] /\ q[d] \in Nat \ {0}
      BY <1>2, <2>1, SumOfOne
    <2>3. {d} \in SUBSET T
      BY <2>1
    <2>4. SumOver(q, {d}) <= SumOver(q, T)
      BY <1>1, <1>2, <2>3, SumOfPart
    <2> QED BY <1>1, <1>3, <2>2, <2>4
  <1>5. T = {} => r = 0
    BY <1>3, SumOfNone
  <1>6. FulfilmentOf(l) = "NOT_RECEIVED" <=> r = 0
    BY StatusIs DEF r
  <1> QED BY <1>4, <1>5, <1>6 DEF T

(* A line with a day of full receipt has received all that was ordered.    *)
LEMMA FullDayTells ==
  ASSUME Delivering, NEW l \in LinesOf("purchase_orders")
  PROVE  FullDays(l) # {} <=> FulfilmentOf(l) \in {"FULLY_RECEIVED", "OVER_RECEIVED"}
  <1> DEFINE T == DeliveriesTo(l)
             q == [d \in LinesOf("receipts") |-> Quantity(d)]
             r == Received(Row(l.place))
  <1>1. /\ MapThenSumSet(Quantity, T) = r /\ IsFiniteSet(T) /\ r \in Nat
        /\ T \subseteq LinesOf("receipts") /\ Quantity(l) \in Nat \ {0}
    BY StoredReceived, StoredOrderIs
  <1>2. \A d \in T : q[d] = Quantity(d) /\ q[d] \in Nat
    BY <1>1, DeliveringFacts, AmountsAreNat
  <1>3. SumOver(q, T) = r
    <2> HIDE DEF T, q, r
    <2> QED BY <1>1, <1>2, QuantitySum
  <1>4. ASSUME NEW days \in FullDays(l) PROVE r >= Quantity(l)
    <2> DEFINE A == ArrivedBy(l, days)
    <2>1. A \in SUBSET T
      BY DEF ArrivedBy
    <2>2. MapThenSumSet(Quantity, A) >= Quantity(l)
      BY DEF FullDays
    <2>3. IsFiniteSet(A) /\ \A d \in A : q[d] = Quantity(d) /\ q[d] \in Nat
      BY <1>1, <1>2, <2>1, FS_Subset
    <2> HIDE DEF A, T, q, r
    <2>4. MapThenSumSet(Quantity, A) = SumOver(q, A)
      BY <2>3, QuantitySum
    <2>5. SumOver(q, A) <= SumOver(q, T)
      BY <1>1, <1>2, <2>1, SumOfPart
    <2>6. SumOver(q, A) \in Nat
      BY <2>3, SumIsNat
    <2> QED BY <1>1, <1>3, <2>2, <2>4, <2>5, <2>6
  <1>5. ASSUME r >= Quantity(l) PROVE FullDays(l) # {}
    <2> DEFINE date == [d \in T |-> Row(d.place).date]
               D == {date[d] : d \in T}
    <2>1. T # {}
      <3> HIDE DEF T, q, r
      <3>1. r # 0
        BY <1>1, <1>5
      <3> QED BY <1>3, <3>1, SumOfNone
    <2>2. ASSUME NEW d \in T PROVE date[d] \in Nat
      <3>1. "receipts" \in files /\ Saved /\ book.receipts \in Seq(ReceiptLine)
        BY DeliveringFacts
      <3>2. d \in LinesOf("receipts")
        BY <1>1
      <3>3. PICK p \in RowsOf("receipts") : d = Kept(p)
        BY <3>1, <3>2, SavedLines
      <3>4. PICK n \in DOMAIN book.receipts : p = Place("receipts", n)
        BY PlacesAre
      <3>5. d.place = p /\ Row(p) = book.receipts[n]
        BY <3>3, <3>4, ReceiptRow, PlaceIsItself
      <3>6. book.receipts[n] \in ReceiptLine
        BY <3>1
      <3>7. book.receipts[n].date \in Nat
        BY <3>6 DEF ReceiptLine
      <3> QED BY <3>5, <3>7
    <2>3. D \in SUBSET Nat /\ D # {}
      BY <2>1, <2>2
    <2>4. IsFiniteSet(D)
      <3>1. \A z \in D : \E d \in T : date[d] = z
        OBVIOUS
      <3> HIDE DEF D, date, T
      <3> QED BY <1>1, <3>1, ImageIsFinite
    <2>5. Max(D) \in D /\ \A x \in D : x <= Max(D)
      <3> HIDE DEF D
      <3> QED BY <2>3, <2>4, MaxExists
    <2>6. PICK latest \in T : \A d \in T : date[d] <= date[latest]
      <3>1. PICK z \in T : date[z] = Max(D)
        BY <2>5
      <3> QED BY <2>5, <3>1
    <2> DEFINE days == DaysTo(latest, l)
    <2>7. ArrivedBy(l, days) = T
      <3>1. Row(l.place).date \in Nat
        BY StoredOrderIs, DeliveringFacts DEF TypeOK, Book, OrderLine
      <3>2. ASSUME NEW d \in T PROVE DaysTo(d, l) <= days
        <4>1. date[d] \in Nat /\ date[latest] \in Nat /\ date[d] <= date[latest]
          BY <2>2, <2>6
        <4>2. date[d] = Row(d.place).date /\ date[latest] = Row(latest.place).date
          OBVIOUS
        <4> QED BY <3>1, <4>1, <4>2 DEF DaysTo
      <3> QED BY <3>2 DEF ArrivedBy
    <2>8. MapThenSumSet(Quantity, ArrivedBy(l, days)) >= Quantity(l)
      BY <1>1, <1>5, <2>7
    <2>9. days \in FullDays(l)
      <3>1. days \in {DaysTo(d, l) : d \in DeliveriesTo(l)}
        OBVIOUS
      <3> HIDE DEF days
      <3> QED BY <2>8, <3>1 DEF FullDays
    <2> QED BY <2>9
  <1>6. /\ FulfilmentOf(l) = "FULLY_RECEIVED" <=> r = Quantity(l)
        /\ FulfilmentOf(l) = "OVER_RECEIVED" <=> r > Quantity(l)
    BY StatusIs
  <1> HIDE DEF r
  <1>7. r >= Quantity(l) <=> r = Quantity(l) \/ r > Quantity(l)
    BY <1>1
  <1> QED BY <1>4, <1>5, <1>6, <1>7

-----------------------------------------------------------------------------
(* The pages of a run.                                                     *)

(* The sizes of two sets that are apart.                                   *)
LEMMA SizesJoin ==
  ASSUME NEW A, NEW B, NEW S, IsFiniteSet(S), A \cup B = S, A \cap B = {}
  PROVE  Cardinality(S) = Cardinality(A) + Cardinality(B)
         /\ Cardinality(A) \in Nat /\ Cardinality(B) \in Nat
  <1>1. A \in SUBSET S /\ B \in SUBSET S
    OBVIOUS
  <1>2. IsFiniteSet(A) /\ IsFiniteSet(B)
    BY <1>1, FS_Subset
  <1>3. Cardinality(A \cup B) = Cardinality(A) + Cardinality(B) - Cardinality(A \cap B)
    BY <1>2, FS_Union
  <1>4. Cardinality(A) \in Nat /\ Cardinality(B) \in Nat
    BY <1>2, FS_CardinalityType
  <1>5. Cardinality(A \cap B) = 0
    BY FS_EmptySet
  <1>6. Cardinality(A \cup B) = Cardinality(S)
    OBVIOUS
  <1> QED BY <1>3, <1>4, <1>5, <1>6

(* The lines of a supplier with receiving days are those received.         *)
LEMMA ReceivingDaysTell ==
  ASSUME Delivering, NEW code
  PROVE  LET S == SuppliedBy(code, "purchase_orders")
         IN  /\ FirstEligible(S) = Cardinality(S) - Receiving(S, "NOT_RECEIVED")
             /\ FullEligible(S) = Receiving(S, "FULLY_RECEIVED") + Receiving(S, "OVER_RECEIVED")
  <1> DEFINE S == SuppliedBy(code, "purchase_orders")
             A == {l \in S : DeliveriesTo(l) # {}}
             B == {l \in S : FulfilmentOf(l) = "NOT_RECEIVED"}
             F == {l \in S : FullDays(l) # {}}
             M == {l \in S : FulfilmentOf(l) = "FULLY_RECEIVED"}
             N == {l \in S : FulfilmentOf(l) = "OVER_RECEIVED"}
  <1>1. S \subseteq LinesOf("purchase_orders")
    BY DEF SuppliedBy
  <1>2. IsFiniteSet(S)
    <2>1. IsFiniteSet(LinesOf("purchase_orders"))
      BY DeliveringFacts, SavedLines
    <2> QED BY <1>1, <2>1, FS_Subset
  <1>3. A \cup B = S /\ A \cap B = {}
    <2>1. \A l \in S : DeliveriesTo(l) # {} <=> FulfilmentOf(l) # "NOT_RECEIVED"
      BY <1>1, FirstDayTells
    <2> QED BY <2>1
  <1>4. M \cup N = F /\ M \cap N = {}
    <2>1. \A l \in S : FullDays(l) # {} <=>
                FulfilmentOf(l) \in {"FULLY_RECEIVED", "OVER_RECEIVED"}
      BY <1>1, FullDayTells
    <2> QED BY <2>1
  <1>5. IsFiniteSet(F)
    BY <1>2, FS_Subset
  <1>6. /\ FirstEligible(S) = Cardinality(A) /\ Receiving(S, "NOT_RECEIVED") = Cardinality(B)
        /\ FullEligible(S) = Cardinality(F) /\ Receiving(S, "FULLY_RECEIVED") = Cardinality(M)
        /\ Receiving(S, "OVER_RECEIVED") = Cardinality(N)
    BY DEF FirstEligible, FullEligible, Receiving
  <1> HIDE DEF S, A, B, F, M, N
  <1>7. Cardinality(S) = Cardinality(A) + Cardinality(B)
        /\ Cardinality(A) \in Nat /\ Cardinality(B) \in Nat
    BY <1>2, <1>3, SizesJoin
  <1>8. Cardinality(F) = Cardinality(M) + Cardinality(N)
    BY <1>4, <1>5, SizesJoin
  <1>9. /\ FirstEligible(S) = Cardinality(S) - Receiving(S, "NOT_RECEIVED")
        /\ FullEligible(S) = Receiving(S, "FULLY_RECEIVED") + Receiving(S, "OVER_RECEIVED")
    BY <1>6, <1>7, <1>8
  <1> QED BY <1>9 DEF S

(* The lines of the suppliers, all of them or those in a state, are those  *)
(* of the run.                                                             *)
LEMMA ReceivingAddsUp ==
  ASSUME Saved, "purchase_orders" \in files, NEW s
  PROVE  Receiving(LinesOf("purchase_orders"), s) =
            Total([code \in SupplierCodes |-> Receiving(SuppliedBy(code, "purchase_orders"), s)])
  <1> DEFINE S == {l \in LinesOf("purchase_orders") : FulfilmentOf(l) = s}
  <1>1. \A code : S \cap SuppliedBy(code, "purchase_orders")
                    = {l \in SuppliedBy(code, "purchase_orders") : FulfilmentOf(l) = s}
    BY DEF SuppliedBy
  <1>2. \A code : Cardinality(S \cap SuppliedBy(code, "purchase_orders"))
                    = Receiving(SuppliedBy(code, "purchase_orders"), s)
    BY <1>1 DEF Receiving
  <1>3. Cardinality(S) = Receiving(LinesOf("purchase_orders"), s)
    BY DEF Receiving
  <1>4. S \subseteq LinesOf("purchase_orders")
    OBVIOUS
  <1> HIDE DEF S
  <1> QED BY <1>2, <1>3, <1>4, LinesAddUp

(* The order lines of a PO-receipt run that received too much: rows of its *)
(* report, and stored lines.                                               *)
LEMMA OverReceivedAre ==
  ASSUME Saved, mode = "PO_RECEIPT"
  PROVE  IssueCount(ReportRows, "OVER_RECEIVED")
            = Receiving(LinesOf("purchase_orders"), "OVER_RECEIVED")
  <1> DEFINE S == {o \in book.orders : Fulfilment(o) = "OVER_RECEIVED"}
             T == {l \in LinesOf("purchase_orders") : FulfilmentOf(l) = "OVER_RECEIVED"}
             h == [o \in S |-> Kept(OrderPlace(o.po, o.line))]
  <1>0. /\ book \in Books /\ "purchase_orders" \in files /\ ReportRows = book.orders
        /\ IsFiniteSet(book.orders)
    BY SavedFacts, BookAssumption DEF ReportRows
  <1>1. LinesOf("purchase_orders") = {Kept(p) : p \in RowsOf("purchase_orders")}
    BY <1>0, SavedLines
  <1>2. ASSUME NEW o \in book.orders
        PROVE  /\ Kept(OrderPlace(o.po, o.line)) \in LinesOf("purchase_orders")
               /\ Row(Kept(OrderPlace(o.po, o.line)).place) = o
    BY <1>0, <1>1, OrderRow, PlaceIsItself
  <1>3. \A l : FulfilmentOf(l) = Fulfilment(Row(l.place))
    BY DEF FulfilmentOf
  <1>4. IssueCount(ReportRows, "OVER_RECEIVED") = Cardinality(S)
    <2>1. {row \in ReportRows : "OVER_RECEIVED" \in IssuesIn(row)} = S
      BY <1>0 DEF IssuesIn
    <2> QED BY <2>1 DEF IssueCount
  <1>5. Receiving(LinesOf("purchase_orders"), "OVER_RECEIVED") = Cardinality(T)
    BY DEF Receiving
  <1>6. OneToOne(h, S, T)
    <2>1. \A x \in S : h[x] \in T
      BY <1>2, <1>3
    <2>2. \A x, y \in S : h[x] = h[y] => x = y
      BY <1>2
    <2>3. ASSUME NEW z \in T PROVE \E x \in S : h[x] = z
      <3>1. PICK p \in RowsOf("purchase_orders") : z = Kept(p)
        BY <1>1
      <3>2. PICK o \in book.orders : p = OrderPlace(o.po, o.line)
        BY PlacesAre
      <3>3. o \in S
        BY <1>2, <1>3, <3>1, <3>2
      <3> QED BY <3>1, <3>2, <3>3
    <2> QED BY <2>1, <2>2, <2>3 DEF OneToOne
  <1>7. IsFiniteSet(S)
    BY <1>0, FS_Subset
  <1> HIDE DEF S, T, h
  <1> QED BY <1>4, <1>5, <1>6, <1>7, SizeMoves

(* The issues of the run and of its rows.                                  *)
LEMMA RunIssuesAre ==
  ASSUME Saved, NEW i
  PROVE  RunIssueCount(i) + OnlyBySupplier(i) = IssueCount(ReportRows, i)
  <1>1. ASSUME mode # "PO_RECEIPT"
        PROVE  RunIssueCount(i) + OnlyBySupplier(i) = IssueCount(ReportRows, i)
    <2> DEFINE S == {row \in ReportRows : i \in IssuesIn(row)}
    <2>1. {k \in DOMAIN results : i \in results[k].issues} = S
      BY <1>1 DEF ReportRows, IssuesIn
    <2>2. RunIssueCount(i) = Cardinality(S) /\ OnlyBySupplier(i) = 0
      BY <1>1, <2>1 DEF RunIssueCount, OnlyBySupplier
    <2>3. IssueCount(ReportRows, i) = Cardinality(S)
      BY DEF IssueCount
    <2>4. IsFiniteSet(S)
      BY RowsAreNamed, FS_Subset
    <2> HIDE DEF S
    <2>5. Cardinality(S) \in Nat
      BY <2>4, FS_CardinalityType
    <2> QED BY <2>2, <2>3, <2>5
  <1>2. ASSUME mode = "PO_RECEIPT", i # "OVER_RECEIVED"
        PROVE  RunIssueCount(i) + OnlyBySupplier(i) = IssueCount(ReportRows, i)
    <2>1. RunIssueCount(i) = 0 /\ OnlyBySupplier(i) = 0
      BY <1>2 DEF RunIssueCount, OnlyBySupplier
    <2>2. {row \in ReportRows : i \in IssuesIn(row)} = {}
      BY <1>2 DEF IssuesIn
    <2>3. IssueCount(ReportRows, i) = 0
      BY <2>2, FS_EmptySet DEF IssueCount
    <2> QED BY <2>1, <2>3
  <1>3. ASSUME mode = "PO_RECEIPT", i = "OVER_RECEIVED"
        PROVE  RunIssueCount(i) + OnlyBySupplier(i) = IssueCount(ReportRows, i)
    <2>1. RunIssueCount(i) = 0 /\ OnlyBySupplier(i) = IssueCount(ReportRows, i)
      BY <1>3, OverReceivedAre DEF RunIssueCount, OnlyBySupplier
    <2>2. IssueCount(ReportRows, i) \in Nat
      <3>1. IsFiniteSet({row \in ReportRows : i \in IssuesIn(row)})
        BY RowsAreNamed, FS_Subset
      <3> QED BY <3>1, FS_CardinalityType DEF IssueCount
    <2> QED BY <2>1, <2>2
  <1> QED BY <1>1, <1>2, <1>3

(* The pages of a run agree with its report and with one another, for      *)
(* every set of files, every limit of what the database holds and every    *)
(* set of active suppliers: what a three-way run recomputes from stored    *)
(* rows is what the analysis counted; every supplier's lines, documents,   *)
(* money, reviews, issues and receiving states add up to those of the run; *)
(* and of the issues only OVER_RECEIVED, on the pages of a PO-receipt run, *)
(* is told by the suppliers alone.                                         *)
THEOREM PagesAgreeWithTheReport == ESpec => []PagesAgree
  <1>1. EInv /\ AllCounted => PagesAgree
    <2> SUFFICES ASSUME EInv, AllCounted, run = "saved" PROVE PagesAgree
      BY DEF PagesAgree
    <2>1. Saved
      BY DEF Saved
    <2>2. ASSUME NEW g \in {"REFERENCE", "DUPLICATE", "COMMERCIAL", "QUANTITY"}
          PROVE  FindingCount(g) =
                    Total([code \in SupplierCodes |-> CategoryCount(ReportedOn(code), g)])
                        + Cardinality({n \in DOMAIN orphans : Category(orphans[n]) = g})
      BY <2>1, CategoriesAddUp
    <2>3. ASSUME NEW i \in IssueCode
          PROVE  RunIssueCount(i) + OnlyBySupplier(i) =
                    Total([code \in SupplierCodes |-> IssueCount(ReportedOn(code), i)])
      BY <2>1, RunIssuesAre, IssuesAddUp
    <2>4. ASSUME "invoices" \in files
          PROVE  ReviewCount(DOMAIN results) =
                    Total([code \in SupplierCodes |-> ReviewCount(ReportedOn(code))])
      BY <2>1, <2>4, ReviewsAddUp
    <2>5. ASSUME NEW t \in files \ {"receipts"}
          PROVE  Cardinality(LinesOf(t)) =
                    Total([code \in SupplierCodes |-> Cardinality(SuppliedBy(code, t))])
      <3>1. \A code : LinesOf(t) \cap SuppliedBy(code, t) = SuppliedBy(code, t)
        BY DEF SuppliedBy
      <3>2. \A code : Cardinality(LinesOf(t) \cap SuppliedBy(code, t))
                        = Cardinality(SuppliedBy(code, t))
        BY <3>1
      <3>3. Cardinality(LinesOf(t)) =
                Total([code \in SupplierCodes |->
                        Cardinality(LinesOf(t) \cap SuppliedBy(code, t))])
        BY <2>1, LinesAddUp
      <3> HIDE DEF Saved
      <3> QED BY <3>2, <3>3
    <2>6. ASSUME NEW t \in files \ {"receipts"}
          PROVE  Documents(LinesOf(t)) =
                    Total([code \in SupplierCodes |-> Documents(SuppliedBy(code, t))])
      BY <2>1, DocumentsAddUp
    <2>7. ASSUME NEW t \in files \ {"receipts"},
                 NEW c \in {headers[h].currency : h \in DOMAIN headers}
          PROVE  Money(LinesOf(t), c) =
                    Total([code \in SupplierCodes |-> Money(SuppliedBy(code, t), c)])
      BY <2>1, MoneyAddsUp
    <2>8. ASSUME {"purchase_orders", "receipts"} \subseteq files
          PROVE  /\ \A l \in LinesOf("purchase_orders") :
                        StoredFulfilment(l) = Fulfilment(Row(l.place))
                 /\ \A s \in Statuses :
                        Receiving(LinesOf("purchase_orders"), s) =
                            Total([code \in SupplierCodes |->
                                    Receiving(SuppliedBy(code, "purchase_orders"), s)])
                 /\ \A code \in SupplierCodes :
                        LET S == SuppliedBy(code, "purchase_orders")
                        IN  /\ FirstEligible(S) = Cardinality(S) - Receiving(S, "NOT_RECEIVED")
                            /\ FullEligible(S) = Receiving(S, "FULLY_RECEIVED")
                                                    + Receiving(S, "OVER_RECEIVED")
      <3>1. Delivering
        BY <2>1, <2>8 DEF Delivering
      <3>2. \A s \in Statuses :
                Receiving(LinesOf("purchase_orders"), s) =
                    Total([code \in SupplierCodes |->
                            Receiving(SuppliedBy(code, "purchase_orders"), s)])
        BY <2>1, <2>8, ReceivingAddsUp
      <3> QED BY <3>1, <3>2, StatusIs, ReceivingDaysTell
    <2> QED BY <2>2, <2>3, <2>6, <2>7, <2>8, <2>4, <2>5, Zenon DEF PagesAgree
  <1> QED BY <1>1, EvidenceInvariant, SavingIsAnAnalysis, CountsHold, PTL
=============================================================================
