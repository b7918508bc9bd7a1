------------------------------ MODULE Evidence ------------------------------
(***************************************************************************)
(* A saved analysis: when the report of Reconciliation is ready, one       *)
(* transaction (Runs.create) stores the rows of the files as evidence      *)
(* (persistence/imports.py), indexes what the report says of them as       *)
(* findings (persistence/findings.py) and freezes the report.  A step is   *)
(* one file or one row of the report.  What the intelligence pages answer  *)
(* about the run (persistence/intelligence.py) are functions of what was   *)
(* stored.                                                                 *)
(*                                                                         *)
(* A stored row is named by its place in its file: an invoice or receipt   *)
(* line by its position, an order line by PO and line number.              *)
(***************************************************************************)
EXTENDS Reconciliation, SequencesExt

CONSTANTS
    MaxNumber,          \* the largest line number the database can store
    UnstorableTexts,    \* texts it cannot encode: those with a NUL
    UnstorableAmounts,  \* amounts of more digits than NUMERIC has
    ActiveSuppliers     \* supplier codes with an ACTIVE master

ASSUME StorageAssumption ==
    /\ MaxNumber \in Nat /\ ActiveSuppliers \subseteq Nat
    /\ UnstorableTexts \subseteq Nat /\ UnstorableAmounts \subseteq Nat

SourceType == <<"purchase_orders", "receipts", "invoices">>
RequiredSources ==
    CASE mode = "INVOICE_PO"      -> {"purchase_orders", "invoices"}
      [] mode = "INVOICE_RECEIPT" -> {"receipts", "invoices"}
      [] mode = "PO_RECEIPT"      -> {"purchase_orders", "receipts"}
      [] mode = "THREE_WAY"       -> ToSet(SourceType)

Category(code) ==
    IF code \in {"UNKNOWN_PO", "UNKNOWN_ITEM", "RECEIPT_ITEM_MISMATCH"} THEN "REFERENCE"
    ELSE IF code = "DUPLICATE_INVOICE" THEN "DUPLICATE"
    ELSE IF code \in {"SUPPLIER_MISMATCH", "CURRENCY_MISMATCH", "PRICE_MISMATCH"}
         THEN "COMMERCIAL"
    ELSE "QUANTITY"

VARIABLES
    files,      \* source files stored by the transaction
    headers,    \* the document of each key, by file: supplier, date, currency
    lines,      \* stored lines: file, place, document and resolved PO line
    waiting,    \* unclaimed invoice lines by their ten columns: filled and
                \* emptied in file order, so a set stands for each queue
    findings,   \* findings added, in order
    unread,     \* invoice lines, order lines and orphans of the report that
                \* persist_findings has not reached
    run         \* the state of the run: none, saved, or refused

saving == <<files, headers, lines, waiting, findings, unread, run>>
everything == <<vars, saving>>

None == [table |-> "none"]
OrderPlace(po, line) == [table |-> "purchase_orders", po |-> po, line |-> line]
Place(type, n) == [table |-> type, n |-> n]

(* The rows of a file by place.                                            *)
RowsOf(type) ==
    CASE type = "purchase_orders" -> {OrderPlace(o.po, o.line) : o \in book.orders}
      [] type = "receipts" -> {Place(type, n) : n \in DOMAIN book.receipts}
      [] type = "invoices" -> {Place(type, k) : k \in Lines}
Row(place) ==
    CASE place.table = "purchase_orders" -> OrderOf([po |-> place.po, poLine |-> place.line])
      [] place.table = "receipts" -> book.receipts[place.n]
      [] place.table = "invoices" -> Line(place.n)

(* headers: the lines of one key share one document row.                   *)
DocumentKey(place) ==
    LET row == Row(place)
    IN  CASE place.table = "purchase_orders" -> <<row.po>>
          [] place.table = "receipts" -> <<row.receipt>>
          [] place.table = "invoices" -> <<row.supplier, row.number>>

DocumentOf(place) ==
    LET row == Row(place)
    IN  IF place.table = "receipts" THEN [supplier |-> 0, resolved |-> FALSE, currency |-> 0]
        ELSE [supplier |-> row.supplier, resolved |-> row.supplier \in ActiveSuppliers,
              currency |-> row.currency]

(* index.orders: the stored line of a PO line that names this item.        *)
OrderIndex(row) ==
    IF \E l \in lines : /\ l.place = OrderPlace(row.po, row.poLine)
                        /\ Row(l.place).item = row.item
    THEN OrderPlace(row.po, row.poLine) ELSE None

StoredLine(place) ==
    [place |-> place, document |-> DocumentKey(place),
     order |-> IF place.table = "purchase_orders" THEN None ELSE OrderIndex(Row(place))]

(* BIGINT, TEXT and NUMERIC hold less than the loaders accept.  Dates and  *)
(* currencies always fit; the description of an order line is left out.    *)
NumberColumns == {"line", "poLine"}
TextColumns == {"supplier", "po", "receipt", "number", "item"}
AmountColumns == {"quantity", "price"}
Fits(row) ==
    /\ \A c \in NumberColumns \cap DOMAIN row : row[c] <= MaxNumber
    /\ \A c \in TextColumns \cap DOMAIN row : row[c] \notin UnstorableTexts
    /\ \A c \in AmountColumns \cap DOMAIN row : row[c] \notin UnstorableAmounts

(* The types and the unique constraints of the evidence tables.  Only an   *)
(* invoice may have the same line number twice.                            *)
Storable(type, added) ==
    /\ \A l \in added : Fits(Row(l.place))
    /\ type # "invoices" =>
        \A l, m \in added :
            l.document = m.document /\ Row(l.place).line = Row(m.place).line => l = m

NextFile == SelectInSeq(SourceType, LAMBDA t : t \in RequiredSources \ files)

EInit ==
    /\ Init
    /\ files = {} /\ headers = <<>> /\ lines = {} /\ waiting = <<>> /\ findings = <<>>
    /\ unread = [results |-> {}, orders |-> {}, orphans |-> {}]
    /\ run = "none"

ReportReady == ReceiptsCounted /\ todo = {} /\ batch = {}

Analysis == Next /\ UNCHANGED saving

(* One turn of the loop of import_sources.  A row the tables do not take   *)
(* ends the transaction: nothing of it remains.  (A code the database      *)
(* cannot encode ends it before the loop, when the masters are looked up:  *)
(* here, when its file is stored.)                                         *)
Import ==
    /\ ReportReady /\ run = "none" /\ NextFile # 0
    /\ LET type == SourceType[NextFile]
           added == {StoredLine(p) : p \in RowsOf(type)}
       IN  IF Storable(type, added)
           THEN /\ files' = files \cup {type}
                /\ lines' = lines \cup added
                /\ headers' = [key \in DOMAIN headers \cup {<<type, l.document>> : l \in added} |->
                        IF key \in DOMAIN headers THEN headers[key]
                        ELSE DocumentOf((CHOOSE l \in added : l.document = key[2]).place)]
                /\ waiting' = IF type # "invoices" THEN waiting
                              ELSE [key \in {SortKey(k) : k \in Lines} |->
                                        {k \in Lines : SortKey(k) = key}]
                /\ unread' = IF files' # RequiredSources THEN unread
                             ELSE [results |-> DOMAIN results,
                                   orders  |-> IF mode = "PO_RECEIPT" THEN book.orders ELSE {},
                                   orphans |-> DOMAIN orphans]
                /\ UNCHANGED run
           ELSE /\ run' = "refused"
                /\ files' = {} /\ lines' = {} /\ headers' = <<>>
                /\ UNCHANGED <<waiting, unread>>
    /\ UNCHANGED <<vars, findings>>

Finding(code, invoice, order, receipt) ==
    [code |-> code, category |-> Category(code),
     invoice |-> invoice, order |-> order, receipt |-> receipt]

(* Broken variant: one line is kept for each row of ten columns.           *)
Claimed_OnePerRow(k) == Min({n \in Lines : SortKey(n) = SortKey(k)})

(* evidence.invoices[...].popleft()                                        *)
Claimed(k) == Min(waiting[SortKey(k)])

(* One row of the results, in the order of the report.                     *)
IndexInvoice ==
    /\ run = "none"
    /\ \E k \in First(unread.results) :
        LET order == OrderIndex(Line(k))
            cite(code) == Finding(code, Place("invoices", Claimed(k)), order, None)
        IN  /\ waiting[SortKey(k)] # {}
            /\ findings' = findings \o SetToSeq({cite(code) : code \in results[k].issues})
            /\ waiting' = [waiting EXCEPT ![SortKey(k)] = @ \ {Claimed(k)}]
            /\ unread' = [unread EXCEPT !.results = @ \ {k}]
    /\ UNCHANGED <<vars, files, headers, lines, run>>

IndexOrder ==
    /\ run = "none"
    /\ \E o \in unread.orders :
        /\ \A p \in unread.orders : ~Less(<<p.po, p.line>>, <<o.po, o.line>>)
        /\ findings' = findings \o
                IF Fulfilment(o) = "OVER_RECEIVED"
                THEN <<Finding("OVER_RECEIVED", None,
                               OrderIndex([po |-> o.po, poLine |-> o.line, item |-> o.item]),
                               None)>>
                ELSE <<>>
        /\ unread' = [unread EXCEPT !.orders = @ \ {o}]
    /\ UNCHANGED <<vars, files, headers, lines, waiting, run>>

(* report["orphan_receipts"], after the results.                           *)
ReceiptIndex(row) ==
    CHOOSE n \in DOMAIN book.receipts :
        /\ book.receipts[n].receipt = row.receipt /\ book.receipts[n].line = row.line
IndexOrphan ==
    /\ run = "none" /\ unread.orders = {}
    /\ unread.orphans # {}
    /\ LET n == Min(unread.orphans)
       IN  /\ findings' = Append(findings, Finding(orphans[n], None, None,
                                    Place("receipts", ReceiptIndex(book.receipts[n]))))
           /\ unread' = [unread EXCEPT !.orphans = @ \ {n}]
    /\ UNCHANGED <<vars, files, headers, lines, waiting, run>>

(* ck_findings_subject_required, then the commit with the snapshot.        *)
HasSubject(f) == f.invoice # None \/ f.order # None \/ f.receipt # None
Save ==
    /\ run = "none" /\ ReportReady /\ files = RequiredSources
    /\ unread = [results |-> {}, orders |-> {}, orphans |-> {}]
    /\ \A n \in DOMAIN findings : HasSubject(findings[n])
    /\ run' = "saved"
    /\ UNCHANGED <<vars, files, headers, lines, waiting, findings, unread>>

ENext == Analysis \/ Import \/ IndexInvoice \/ IndexOrder \/ IndexOrphan \/ Save

ESpec == EInit /\ [][ENext]_everything

-----------------------------------------------------------------------------
(* Intelligence about a saved run.  A supplier is a code of the stored     *)
(* documents; every count is over stored rows, except where the report is  *)
(* named.                                                                  *)

LinesOf(type) == {l \in lines : l.place.table = type}
HeaderOf(l) == headers[<<l.place.table, l.document>>]
SupplierCodes == {headers[h].supplier : h \in {g \in DOMAIN headers : g[1] # "receipts"}}
SuppliedBy(code, type) == {l \in LinesOf(type) : HeaderOf(l).supplier = code}

Quantity(l) == Row(l.place).quantity
Value(l) == Quantity(l) * Row(l.place).price

(* _document_counts, _money, and their columns by supplier.                *)
Documents(S) == Cardinality({l.document : l \in S})
Money(S, currency) == MapThenSumSet(Value, {l \in S : HeaderOf(l).currency = currency})

(* _source_fulfillment_rows and fulfillment_status: what the stored        *)
(* receipt lines bring to a stored order line.                             *)
DeliveriesTo(l) == {d \in LinesOf("receipts") : d.order = l.place}
StoredFulfilment(l) ==
    LET received == MapThenSumSet(Quantity, DeliveriesTo(l))
    IN  IF received = 0 THEN "NOT_RECEIVED"
        ELSE IF received < Quantity(l) THEN "PARTIALLY_RECEIVED"
        ELSE IF received > Quantity(l) THEN "OVER_RECEIVED" ELSE "FULLY_RECEIVED"

(* A PO-receipt run answers from its report, a three-way run from the rows.*)
FulfilmentOf(l) ==
    IF mode = "PO_RECEIPT" THEN Fulfilment(Row(l.place)) ELSE StoredFulfilment(l)
Receiving(S, status) == Cardinality({l \in S : FulfilmentOf(l) = status})

(* _supplier_timing: the days on which the deliveries of an order line     *)
(* arrived, and those on which they had reached what was ordered.          *)
DaysTo(d, l) == Row(d.place).date - Row(l.place).date
ArrivedBy(l, days) == {d \in DeliveriesTo(l) : DaysTo(d, l) <= days}

(* Broken variant: a delivery that completes the line is not enough.       *)
FullDays_MoreThanOrdered(l) ==
    {days \in {DaysTo(d, l) : d \in DeliveriesTo(l)} :
        MapThenSumSet(Quantity, ArrivedBy(l, days)) > Quantity(l)}

FullDays(l) ==
    {days \in {DaysTo(d, l) : d \in DeliveriesTo(l)} :
        MapThenSumSet(Quantity, ArrivedBy(l, days)) >= Quantity(l)}
FirstEligible(S) == Cardinality({l \in S : DeliveriesTo(l) # {}})
FullEligible(S) == Cardinality({l \in S : FullDays(l) # {}})

(* The rows of the report, as the supplier page reads them.                *)
ReportRows == IF mode = "PO_RECEIPT" THEN book.orders ELSE DOMAIN results
IssuesIn(row) ==
    IF mode # "PO_RECEIPT" THEN results[row].issues
    ELSE IF Fulfilment(row) = "OVER_RECEIVED" THEN {"OVER_RECEIVED"} ELSE {}
NamedIn(row) == IF mode = "PO_RECEIPT" THEN row.supplier ELSE Line(row).supplier
ReportedOn(code) == {row \in ReportRows : NamedIn(row) = code}
IssueCount(rows, code) == Cardinality({row \in rows : code \in IssuesIn(row)})
ReviewCount(rows) == Cardinality({k \in rows : results[k].issues # {}})
CategoryCount(rows, category) ==
    MapThenSumSet(LAMBDA row : Cardinality({i \in IssuesIn(row) : Category(i) = category}), rows)

(* The page of the run: its findings, and the issues its summary names.    *)
(* The summary of a PO-receipt analysis names none.                        *)
FindingCount(category) ==
    Cardinality({n \in DOMAIN findings : findings[n].category = category})
RunIssueCount(code) ==
    IF mode = "PO_RECEIPT" THEN 0
    ELSE Cardinality({k \in DOMAIN results : code \in results[k].issues})

-----------------------------------------------------------------------------
(* Properties.                                                             *)

(* A value of a file that the database cannot hold.                        *)
CannotBeHeld == \E t \in RequiredSources : \E p \in RowsOf(t) : ~Fits(Row(p))

ReportedFindings ==
    (UNION {{Finding(i, Place("invoices", k), OrderIndex(Line(k)), None) :
                i \in results[k].issues} : k \in DOMAIN results})
    \cup {Finding("OVER_RECEIVED", None, OrderPlace(o.po, o.line), None) :
            o \in {p \in book.orders : mode = "PO_RECEIPT" /\ Fulfilment(p) = "OVER_RECEIVED"}}
    \cup {Finding(orphans[n], None, None, Place("receipts", n)) : n \in DOMAIN orphans}

(* Files the loaders accept break no constraint of the tables: a run is    *)
(* refused exactly for a value the database cannot hold, a number out of   *)
(* range or a text it cannot encode (422 storage_capacity).  A saved run   *)
(* holds the lines and documents of its files, every stored order          *)
(* reference is an order line of the same item; and its findings say       *)
(* exactly what the report says, each of a file line its report row came   *)
(* from: of several equal invoice lines each is cited by a row of its own. *)
EvidenceMatchesTheReport ==
    /\ run = "refused" => CannotBeHeld
    /\ run = "none" => \A k \in unread.results : waiting[SortKey(k)] # {}
    /\ run = "saved" =>
        /\ ~CannotBeHeld
        /\ {l.place : l \in lines} = UNION {RowsOf(t) : t \in RequiredSources}
        /\ \A l \in lines :
            /\ l.place.table # "receipts" =>
                /\ HeaderOf(l).supplier = Row(l.place).supplier
                /\ HeaderOf(l).currency = Row(l.place).currency
            /\ l.order # None => Row(l.order).item = Row(l.place).item
        /\ ToSet(findings) = ReportedFindings
        /\ Len(findings) = Cardinality(ReportedFindings)
        /\ \A key \in DOMAIN waiting : waiting[key] = {}

(* The pages of a run agree with its report and with one another: what a   *)
(* three-way run recomputes from stored rows is what the analysis counted, *)
(* the issues of the suppliers and the orphans are the findings of the     *)
(* run, every supplier's lines, documents, money, reviews, issues and      *)
(* receiving states add up to those of the run, and the lines with         *)
(* receiving days are those received.  In one place they differ: the page  *)
(* of a PO-receipt run names no issue, where its suppliers have one        *)
(* OVER_RECEIVED for each order line the run's page counts as such.        *)
Total(f) == MapThenSumSet(LAMBDA code : f[code], SupplierCodes)
Statuses == {"FULLY_RECEIVED", "PARTIALLY_RECEIVED", "NOT_RECEIVED", "OVER_RECEIVED"}
OnlyBySupplier(code) ==
    IF mode = "PO_RECEIPT" /\ code = "OVER_RECEIVED"
    THEN Receiving(LinesOf("purchase_orders"), "OVER_RECEIVED") ELSE 0
PagesAgree ==
    run = "saved" =>
        /\ \A g \in {"REFERENCE", "DUPLICATE", "COMMERCIAL", "QUANTITY"} :
            FindingCount(g) =
                Total([code \in SupplierCodes |-> CategoryCount(ReportedOn(code), g)])
                    + Cardinality({n \in DOMAIN orphans : Category(orphans[n]) = g})
        /\ \A i \in IssueCode :
            RunIssueCount(i) + OnlyBySupplier(i) =
                Total([code \in SupplierCodes |-> IssueCount(ReportedOn(code), i)])
        /\ "invoices" \in files =>
            ReviewCount(DOMAIN results) =
                Total([code \in SupplierCodes |-> ReviewCount(ReportedOn(code))])
        /\ \A t \in files \ {"receipts"} :
            /\ Cardinality(LinesOf(t)) =
                    Total([code \in SupplierCodes |-> Cardinality(SuppliedBy(code, t))])
            /\ Documents(LinesOf(t)) =
                    Total([code \in SupplierCodes |-> Documents(SuppliedBy(code, t))])
            /\ \A c \in {headers[h].currency : h \in DOMAIN headers} :
                Money(LinesOf(t), c) =
                    Total([code \in SupplierCodes |-> Money(SuppliedBy(code, t), c)])
        /\ {"purchase_orders", "receipts"} \subseteq files =>
            /\ \A l \in LinesOf("purchase_orders") : StoredFulfilment(l) = Fulfilment(Row(l.place))
            /\ \A s \in Statuses :
                Receiving(LinesOf("purchase_orders"), s) =
                    Total([code \in SupplierCodes |->
                            Receiving(SuppliedBy(code, "purchase_orders"), s)])
            /\ \A code \in SupplierCodes :
                LET S == SuppliedBy(code, "purchase_orders")
                IN  /\ FirstEligible(S) = Cardinality(S) - Receiving(S, "NOT_RECEIVED")
                    /\ FullEligible(S) = Receiving(S, "FULLY_RECEIVED")
                                            + Receiving(S, "OVER_RECEIVED")
=============================================================================
