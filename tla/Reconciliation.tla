--------------------------- MODULE Reconciliation ---------------------------
(***************************************************************************)
(* The analyses of a set of files: three-way reconciliation                *)
(* (src/src/reconcile/reconciliation.py) and the two-way analyses          *)
(* (src/src/reconcile/analysis/), which share the invoice helpers.  One    *)
(* behaviour is one call; a step is one iteration of a loop: a receipt     *)
(* counted, a group of invoice lines begun, a line of the group analysed.  *)
(*                                                                         *)
(* Numbers stand for the texts and dates of the files: only their equality *)
(* and order matter.  Quantities are counted in units of 1/Scale and       *)
(* prices in the smallest money of a whole unit, so an amount, quantity    *)
(* times price, is counted in 1/Scale of the smallest money until it is    *)
(* rounded.  The files passed the loaders, which demand unique PO and      *)
(* receipt lines, positive quantities, and documents that agree with       *)
(* themselves.                                                             *)
(***************************************************************************)
EXTENDS Integers, Sequences, FiniteSetsExt

CONSTANTS
    Books,              \* the files the analyses may be given
    Scale,              \* quantities per whole unit
    ToleranceUp,        \* price_tolerance_rate = ToleranceUp / ToleranceDown
    ToleranceDown

Mode == {"INVOICE_PO", "INVOICE_RECEIPT", "PO_RECEIPT", "THREE_WAY"}

OrderLine == [po: Nat, line: Nat, supplier: Nat, date: Nat, currency: Nat, item: Nat,
              quantity: Nat \ {0}, price: Nat]
ReceiptLine == [receipt: Nat, line: Nat, po: Nat, poLine: Nat, date: Nat, item: Nat,
                quantity: Nat \ {0}]
InvoiceLine == [date: Nat, supplier: Nat, number: Nat, line: Nat, po: Nat, poLine: Nat,
                item: Nat, quantity: Nat \ {0}, price: Nat, currency: Nat]
Book == [orders: SUBSET OrderLine, receipts: Seq(ReceiptLine), invoices: Seq(InvoiceLine)]

(* _validate_identities and _validate_document_consistency                 *)
Loaded(b) ==
    /\ \A o, p \in b.orders :
        /\ o.po = p.po /\ o.line = p.line => o = p
        /\ o.po = p.po => /\ o.supplier = p.supplier /\ o.date = p.date
                          /\ o.currency = p.currency
    /\ \A n, m \in DOMAIN b.receipts :
        LET a == b.receipts[n]
            z == b.receipts[m]
        IN  a.receipt = z.receipt /\ a.line = z.line => n = m
    /\ \A k, j \in DOMAIN b.invoices :
        LET a == b.invoices[k]
            z == b.invoices[j]
        IN  a.supplier = z.supplier /\ a.number = z.number
            => a.date = z.date /\ a.currency = z.currency

(* A file has finitely many lines.                                         *)
ASSUME BookAssumption ==
    Books \subseteq Book /\ \A b \in Books : Loaded(b) /\ IsFiniteSet(b.orders)
ASSUME PolicyAssumption ==
    /\ Scale \in Nat \ {0}
    /\ ToleranceUp \in Nat /\ ToleranceDown \in Nat /\ ToleranceUp < ToleranceDown

(* The issues of a report.  The analysis gives OVER_RECEIVED to no line    *)
(* of an invoice or a receipt: an order line in that state gets it when    *)
(* the report is saved (Evidence).                                         *)
IssueCode == {"UNKNOWN_PO", "UNKNOWN_ITEM", "DUPLICATE_INVOICE", "SUPPLIER_MISMATCH",
              "CURRENCY_MISMATCH", "MISSING_RECEIPT", "QUANTITY_EXCEEDS_PO",
              "QUANTITY_EXCEEDS_RECEIPT", "PRICE_MISMATCH", "RECEIPT_ITEM_MISMATCH",
              "OVER_RECEIVED"}

FullExposureIssues == {"UNKNOWN_PO", "UNKNOWN_ITEM", "DUPLICATE_INVOICE",
                       "SUPPLIER_MISMATCH", "CURRENCY_MISMATCH"}

VARIABLES
    book,       \* the loaded files
    mode,       \* the analysis
    counted,    \* how many receipt lines have been counted
    totals,     \* received quantity by slot; 0 stands for an absent key
    orphans,    \* receipt lines no PO line takes, with the reason
    todo,       \* invoice lines of the groups not begun
    batch,      \* invoice lines of the current group not yet analysed
    largest,    \* the largest quantity and the largest exposure in the
                \* current group so far
    consumed,   \* quantity the earlier groups took, by slot
    results,    \* the result of each analysed invoice line
    exposures   \* disputed or unsupported amount of the summary, by currency

vars == <<book, mode, counted, totals, orphans, todo, batch, largest, consumed,
          results, exposures>>

Lines == DOMAIN book.invoices
Line(k) == book.invoices[k]
Result == [issues: SUBSET IssueCode, previous: Nat, supported: Nat, exposure: Nat]

(* What a receipt or an invoice line refers to.  The analyses that know    *)
(* the purchase orders key their totals by PO line, the invoice-receipt    *)
(* analysis by PO line and item.                                           *)
Reference(row) ==
    [po |-> row.po, line |-> row.poLine,
     item |-> IF mode = "INVOICE_RECEIPT" THEN row.item ELSE 0]
Slots == {Reference(Line(k)) : k \in Lines}
            \cup {Reference(book.receipts[n]) : n \in DOMAIN book.receipts}
Currencies == {Line(k).currency : k \in Lines}

TypeOK ==
    /\ book \in Book /\ mode \in Mode
    /\ counted \in 0..Len(book.receipts)
    /\ totals \in [Slots -> Nat]
    /\ DOMAIN orphans \subseteq 1..counted
    /\ \A n \in DOMAIN orphans : orphans[n] \in IssueCode
    /\ todo \subseteq Lines /\ batch \subseteq Lines
    /\ largest \in [quantity: Nat, exposure: Nat]
    /\ consumed \in [Slots -> Nat]
    /\ DOMAIN results \subseteq Lines
    /\ \A k \in DOMAIN results : results[k] \in Result
    /\ exposures \in [Currencies -> Nat]

-----------------------------------------------------------------------------
(* Purchase orders.                                                        *)

PoNumbers == {o.po : o \in book.orders}
OrdersAt(po, line) == {o \in book.orders : o.po = po /\ o.line = line}
OrderOf(row) == CHOOSE o \in book.orders : o.po = row.po /\ o.line = row.poLine

(* Broken variant: a receipt of another item is counted.                   *)
ReceiptIssues_AnyItem(row) ==
    IF row.po \notin PoNumbers THEN {"UNKNOWN_PO"}
    ELSE IF OrdersAt(row.po, row.poLine) = {} THEN {"UNKNOWN_ITEM"} ELSE {}

(* The reason a receipt line belongs to no PO line.                        *)
ReceiptIssues(row) ==
    IF row.po \notin PoNumbers THEN {"UNKNOWN_PO"}
    ELSE IF OrdersAt(row.po, row.poLine) = {} THEN {"UNKNOWN_ITEM"}
    ELSE IF OrderOf(row).item # row.item THEN {"RECEIPT_ITEM_MISMATCH"} ELSE {}

(* The reason an invoice line belongs to no PO line.                       *)
ReferenceIssues(row) ==
    IF row.po \notin PoNumbers THEN {"UNKNOWN_PO"}
    ELSE IF OrdersAt(row.po, row.poLine) = {} THEN {"UNKNOWN_ITEM"}
    ELSE IF OrderOf(row).item # row.item THEN {"UNKNOWN_ITEM"} ELSE {}

(* The loop over the receipts.  Only the PO-receipt analysis lists the     *)
(* lines it does not count; the three-way analysis drops them.             *)
CountReceipt ==
    LET n == counted + 1
        row == book.receipts[n]
        slot == Reference(row)
        reasons == IF mode = "INVOICE_RECEIPT" THEN {} ELSE ReceiptIssues(row)
    IN  /\ mode # "INVOICE_PO"
        /\ counted < Len(book.receipts)
        /\ counted' = n
        /\ IF reasons = {}
           THEN totals' = [totals EXCEPT ![slot] = @ + row.quantity] /\ UNCHANGED orphans
           ELSE /\ UNCHANGED totals
                /\ orphans' = IF mode # "PO_RECEIPT" THEN orphans
                              ELSE [m \in DOMAIN orphans \cup {n} |->
                                        IF m = n THEN CHOOSE i \in reasons : TRUE
                                        ELSE orphans[m]]
        /\ UNCHANGED <<book, mode, todo, batch, largest, consumed, results, exposures>>

ReceiptsCounted == mode = "INVOICE_PO" \/ counted = Len(book.receipts)

(* What the PO-receipt analysis says of a PO line.                         *)
Received(o) == LET slot == [po |-> o.po, line |-> o.line, item |-> 0]
               IN  IF slot \in Slots THEN totals[slot] ELSE 0
Fulfilment(o) ==
    CASE Received(o) = 0 -> "NOT_RECEIVED"
      [] Received(o) > o.quantity -> "OVER_RECEIVED"
      [] 0 < Received(o) /\ Received(o) < o.quantity -> "PARTIALLY_RECEIVED"
      [] Received(o) = o.quantity -> "FULLY_RECEIVED"

-----------------------------------------------------------------------------
(* The invoice lines, in groups of one identity.                           *)

Identity(k) == <<Line(k).supplier, Line(k).number, Line(k).line>>
Target(k) == <<Line(k).po, Line(k).poLine, Line(k).item>>
Group(k) == {j \in Lines : Identity(j) = Identity(k)}
Duplicate(k) == Group(k) # {k}
Ambiguous(k) == \E j \in Group(k) : Target(j) # Target(k)

SortKey(k) == LET l == Line(k)
              IN  <<l.date, l.supplier, l.number, l.line, l.po, l.poLine, l.item,
                    l.quantity, l.price, l.currency>>
Less(a, b) == \E n \in DOMAIN a : a[n] < b[n] /\ \A m \in 1..n-1 : a[m] = b[m]

(* Broken variant: the lines are analysed in the order of the file.        *)
Precedes_InFile(k, j) == k < j

(* sorted is stable: equal lines keep the order of the file.               *)
Precedes(k, j) ==
    Less(SortKey(k), SortKey(j)) \/ (SortKey(k) = SortKey(j) /\ k < j)

First(S) == {k \in S : \A j \in S \ {k} : Precedes(k, j)}

Init ==
    /\ book \in Books /\ mode \in Mode
    /\ counted = 0
    /\ totals = [s \in Slots |-> 0]
    /\ orphans = <<>>
    /\ todo = IF mode = "PO_RECEIPT" THEN {} ELSE Lines
    /\ batch = {}
    /\ largest = [quantity |-> 0, exposure |-> 0]
    /\ consumed = [s \in Slots |-> 0]
    /\ results = <<>>
    /\ exposures = [c \in Currencies |-> 0]

NextGroup ==
    /\ ReceiptsCounted
    /\ batch = {}
    /\ \E k \in First(todo) : batch' = Group(k) /\ todo' = todo \ Group(k)
    /\ largest' = [quantity |-> 0, exposure |-> 0]
    /\ UNCHANGED <<book, mode, counted, totals, orphans, consumed, results, exposures>>

Smaller(a, b) == IF a < b THEN a ELSE b
Larger(a, b) == IF a < b THEN b ELSE a
Distance(a, b) == IF a < b THEN b - a ELSE a - b

(* ROUND_HALF_UP to the smallest money, of an amount that is not negative  *)
Round(amount) == (2 * amount + Scale) \div (2 * Scale)

PriceFits(price, agreed) ==
    Distance(price, agreed) * ToleranceDown <= agreed * ToleranceUp

Resolves(k) == ReferenceIssues(Line(k)) = {}
(* What an analysis of invoices compares them with.                        *)
KnowsOrders == mode \in {"INVOICE_PO", "THREE_WAY"}
KnowsReceipts == mode \in {"INVOICE_RECEIPT", "THREE_WAY"}
Slot(k) == Reference(Line(k))

(* The quantity available to a slot before any invoice.                    *)
Capacity(k) ==
    IF ~KnowsOrders THEN totals[Slot(k)]
    ELSE IF ~Resolves(k) THEN 0
    ELSE IF ~KnowsReceipts THEN OrderOf(Line(k)).quantity
    ELSE Smaller(OrderOf(Line(k)).quantity, totals[Slot(k)])

OrderIssues(k, previous) ==
    LET l == Line(k)
        o == OrderOf(l)
    IN  IF ~Resolves(k) THEN ReferenceIssues(l)
        ELSE (IF l.supplier # o.supplier THEN {"SUPPLIER_MISMATCH"} ELSE {})
             \cup (IF l.currency # o.currency THEN {"CURRENCY_MISMATCH"} ELSE {})
             \cup (IF previous + l.quantity > o.quantity THEN {"QUANTITY_EXCEEDS_PO"} ELSE {})
             \cup (IF PriceFits(l.price, o.price) THEN {} ELSE {"PRICE_MISMATCH"})

(* Broken variant: the earlier invoices are forgotten.                     *)
Coverage_Alone(k, previous) ==
    IF totals[Slot(k)] = 0 THEN {"MISSING_RECEIPT"}
    ELSE IF Line(k).quantity > totals[Slot(k)] THEN {"QUANTITY_EXCEEDS_RECEIPT"} ELSE {}

(* Without a total there is no receipt.  The invoice-receipt analysis      *)
(* tells in addition whether another item was received on the PO line.     *)
Coverage(k, previous) ==
    LET l == Line(k) IN
    IF totals[Slot(k)] = 0 THEN {"MISSING_RECEIPT"}
    ELSE IF previous + l.quantity > totals[Slot(k)] THEN {"QUANTITY_EXCEEDS_RECEIPT"}
    ELSE {}
OtherItem(k) ==
    IF /\ totals[Slot(k)] = 0
       /\ \E n \in DOMAIN book.receipts :
            book.receipts[n].po = Line(k).po /\ book.receipts[n].poLine = Line(k).poLine
    THEN {"RECEIPT_ITEM_MISMATCH"} ELSE {}
ReceiptCoverage(k, previous) ==
    IF ~KnowsReceipts THEN {}
    ELSE IF ~KnowsOrders THEN Coverage(k, previous) \cup OtherItem(k)
    ELSE IF Resolves(k) THEN Coverage(k, previous) ELSE {}

Issues(k, previous) ==
    (IF Duplicate(k) THEN {"DUPLICATE_INVOICE"} ELSE {})
        \cup (IF KnowsOrders THEN OrderIssues(k, previous) ELSE {})
        \cup ReceiptCoverage(k, previous)

Supported(k, previous) ==
    IF Ambiguous(k) THEN 0
    ELSE Smaller(Line(k).quantity, Larger(Capacity(k) - previous, 0))

(* Broken variant: the supported quantity is valued at the invoice price.  *)
Disputed_AtInvoicePrice(k, supported, issues) ==
    LET l == Line(k) IN
    IF issues = {} THEN 0
    ELSE IF issues \cap FullExposureIssues # {} THEN Round(l.quantity * l.price)
    ELSE Round((l.quantity - supported) * l.price)

(* _disputed_amount                                                        *)
Disputed(k, supported, issues) ==
    LET l == Line(k)
        accepted == IF "PRICE_MISMATCH" \in issues THEN OrderOf(l).price ELSE l.price
    IN  IF issues = {} THEN 0
        ELSE IF issues \cap FullExposureIssues # {} THEN Round(l.quantity * l.price)
        ELSE Round(Larger(l.quantity * l.price - supported * accepted, 0))

Unsupported(k, supported) ==
    Round((IF Duplicate(k) THEN Line(k).quantity ELSE Line(k).quantity - supported)
            * Line(k).price)

(* A line that resolves to no PO line has no previous quantity in the      *)
(* analyses that know the orders.                                          *)
ResultOf(k) ==
    LET previous == IF KnowsOrders /\ ~Resolves(k) THEN 0 ELSE consumed[Slot(k)]
        issues == Issues(k, previous)
        supported == Supported(k, previous)
    IN  [issues |-> issues, previous |-> previous, supported |-> supported,
         exposure |-> IF KnowsOrders THEN Disputed(k, supported, issues)
                                     ELSE Unsupported(k, supported)]

(* Broken variant: the invoice of another supplier takes nothing.          *)
Claims_OwnSupplier(k) ==
    /\ ~Ambiguous(k)
    /\ IF KnowsOrders THEN Resolves(k) /\ OrderOf(Line(k)).supplier = Line(k).supplier
                      ELSE totals[Slot(k)] > 0

(* The group takes capacity when it has one target that exists.            *)
Claims(k) ==
    /\ ~Ambiguous(k)
    /\ IF KnowsOrders THEN Resolves(k) ELSE totals[Slot(k)] > 0

Widen(k, result) ==
    [quantity |-> Larger(largest.quantity, Line(k).quantity),
     exposure |-> Larger(largest.exposure, result.exposure)]

Charged(k, widened) == widened.exposure

(* One line; the last one closes its group.                                *)
Analyse(k) ==
    LET result == ResultOf(k)
        widened == Widen(k, result)
        last == batch = {k}
        c == Line(k).currency
    IN  /\ k \in First(batch)
        /\ results' = [j \in DOMAIN results \cup {k} |->
                            IF j = k THEN result ELSE results[j]]
        /\ batch' = batch \ {k}
        /\ largest' = widened
        /\ consumed' = IF last /\ Claims(k)
                       THEN [consumed EXCEPT ![Slot(k)] = @ + widened.quantity]
                       ELSE consumed
        /\ exposures' = IF last THEN [exposures EXCEPT ![c] = @ + Charged(k, widened)]
                                ELSE exposures
        /\ UNCHANGED <<book, mode, counted, totals, orphans, todo>>

Next == CountReceipt \/ NextGroup \/ \E k \in Lines : Analyse(k)

Spec == Init /\ [][Next]_vars

-----------------------------------------------------------------------------
(* Properties.                                                             *)

(* The units of its slot that a line is supported by, when the units of a  *)
(* slot are numbered in the order they are claimed.                        *)
Backed(k) == results[k].previous + 1 .. results[k].previous + results[k].supported

(* No two invoices are supported by the same ordered and received unit,    *)
(* and none by a unit that does not exist, whatever lines are duplicated,  *)
(* contradict one another or exceed their order: _consume_group_capacity   *)
(* keeps the groups apart.                                                 *)
NoUnitBackedTwice ==
    \A k \in DOMAIN results :
        /\ Backed(k) \subseteq 1..Capacity(k)
        /\ \A j \in DOMAIN results :
            Slot(j) = Slot(k) /\ Identity(j) # Identity(k) => Backed(j) \cap Backed(k) = {}

(* A line is matched only when it is supported in full, and a matched line *)
(* has no share in the disputed or unsupported amount.                     *)
MatchedIsBacked ==
    \A k \in DOMAIN results :
        results[k].issues = {} =>
            results[k].supported = Line(k).quantity /\ results[k].exposure = 0

(* The result of a line does not depend on the order of the lines in the   *)
(* file: what was invoiced before it is the sum of what the documents      *)
(* earlier in date, supplier, number and line take, a duplicated line      *)
(* counting once with its largest quantity.                                *)
Earlier(j, k) == Less(SubSeq(SortKey(j), 1, 4), SubSeq(SortKey(k), 1, 4))
Claim(G) == Max({Line(k).quantity : k \in G})
ClaimedBefore(k) ==
    MapThenSumSet(Claim, {Group(j) : j \in {i \in Lines : /\ Slot(i) = Slot(k)
                                                          /\ Earlier(i, k) /\ Claims(i)}})
PreviousIsEarlierClaims ==
    \A k \in DOMAIN results :
        results[k].previous = IF KnowsOrders /\ ~Resolves(k) THEN 0 ELSE ClaimedBefore(k)

(* The received quantity of a PO line is what was delivered of its item    *)
(* for it, and every other delivery is listed as an orphan: nothing that   *)
(* was received is lost or counted twice.                                  *)
Delivered(n) == book.receipts[n].quantity
DeliveriesFor(o) ==
    {n \in 1..counted : /\ book.receipts[n].po = o.po /\ book.receipts[n].poLine = o.line
                        /\ book.receipts[n].item = o.item}
EveryReceiptCounts ==
    mode = "PO_RECEIPT" =>
        /\ \A o \in book.orders : Received(o) = MapThenSumSet(Delivered, DeliveriesFor(o))
        /\ DOMAIN orphans = (1..counted) \ UNION {DeliveriesFor(o) : o \in book.orders}
        /\ \A o \in book.orders :
            Fulfilment(o) = "OVER_RECEIVED" <=>
                MapThenSumSet(Delivered, DeliveriesFor(o)) > o.quantity

(* What the summary leaves undisputed in a currency is covered by goods    *)
(* ordered (and received, when the analysis knows the receipts) at the     *)
(* agreed price and its tolerance.  Each group of lines may be rounded     *)
(* down by half of the smallest money; both sides are scaled.  And the     *)
(* summary never disputes more than the documents ask for, a document line *)
(* that was sent several times counting once.                              *)
Covered(o) ==
    2 * o.price * (ToleranceDown + ToleranceUp)
      * IF mode = "THREE_WAY" THEN Smaller(o.quantity, Received(o)) ELSE o.quantity
Invoiced(G) == 2 * ToleranceDown * Max({Line(k).quantity * Line(k).price : k \in G})
InvoiceGroups(c) == {Group(k) : k \in {j \in Lines : Line(j).currency = c}}
ExposureIsBounded ==
    \A c \in Currencies :
        /\ exposures[c] <=
            MapThenSumSet(LAMBDA G : Max({Round(Line(k).quantity * Line(k).price) : k \in G}),
                          InvoiceGroups(c))
        /\ KnowsOrders /\ batch = {} /\ todo = {} =>
            MapThenSumSet(Invoiced, InvoiceGroups(c)) - 2 * Scale * ToleranceDown * exposures[c]
              <= MapThenSumSet(Covered, {o \in book.orders : o.currency = c})
                    + Scale * ToleranceDown * Cardinality(InvoiceGroups(c))
=============================================================================
