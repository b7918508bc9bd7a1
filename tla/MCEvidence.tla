----------------------------- MODULE MCEvidence -----------------------------
(***************************************************************************)
(* Finite instances of Evidence: a purchase order of one line, or two      *)
(* orders, up to three receipts and three invoice lines in any order, with *)
(* and without a value the database cannot hold.                           *)
(***************************************************************************)
EXTENDS Evidence

Order(po, line, item, quantity, price) ==
    [po |-> po, line |-> line, supplier |-> 1, date |-> 3, currency |-> 1, item |-> item,
     quantity |-> quantity, price |-> price]
Receipt(receipt, date, po, line, item, quantity) ==
    [receipt |-> receipt, line |-> 1, date |-> date, po |-> po, poLine |-> line,
     item |-> item, quantity |-> quantity]
Invoice(number, date, po, line, item, quantity, price) ==
    [date |-> date, supplier |-> 1, number |-> number, line |-> 1, po |-> po,
     poLine |-> line, item |-> item, quantity |-> quantity, price |-> price,
     currency |-> 1]

UpTo(n, S) == UNION {[1..m -> S] : m \in 1..n}
Books3(orders, receipts, bills) ==
    {b \in {[orders |-> o, receipts |-> r, invoices |-> i] :
                o \in orders, r \in receipts, i \in UpTo(3, bills)} : Loaded(b)}

(* Quantities: partial, exact and excess deliveries of one PO line; the    *)
(* lines of three documents, one of them sent in several versions.         *)
Quantities ==
    Books3({{Order(1, 1, 1, 5, 50)}},
           {<<>>, <<Receipt(1, 4, 1, 1, 1, 5)>>,
            <<Receipt(1, 5, 1, 1, 1, 2), Receipt(2, 4, 1, 1, 1, 4)>>,
            <<Receipt(1, 4, 1, 1, 2, 3), [Receipt(1, 4, 1, 1, 1, 1) EXCEPT !.line = 2]>>},
           {Invoice(1, 2, 1, 1, 1, 2, 50), Invoice(1, 2, 1, 1, 1, 4, 50),
            Invoice(1, 2, 1, 2, 1, 3, 50), Invoice(2, 1, 1, 1, 1, 2, 51),
            Invoice(2, 1, 1, 1, 1, 3, 40), Invoice(3, 3, 1, 1, 1, 1, 52),
            Invoice(3, 3, 1, 1, 1, 5, 60), Invoice(3, 3, 1, 1, 2, 2, 50)})

(* References: two orders of two suppliers and currencies, receipts and    *)
(* invoices of unknown orders, lines and items, foreign currency and       *)
(* supplier, an invoice number both suppliers use, a number too large to   *)
(* store.                                                                  *)
Foreign(l) == [l EXCEPT !.supplier = 2, !.currency = 2]
References ==
    Books3({{Order(1, 1, 1, 4, 30), Order(1, 2, 2, 2, 25), Foreign(Order(2, 1, 1, 2, 40))}},
           {<<Receipt(1, 4, 1, 1, 1, 3), Receipt(2, 4, 2, 1, 1, 3), Receipt(3, 4, 1, 3, 1, 1)>>,
            <<Receipt(1, 4, 1, 2, 1, 2), Receipt(2, 5, 9, 1, 1, 2), Receipt(3, 5, 2, 1, 1, 1)>>},
           {Invoice(1, 1, 1, 1, 1, 2, 30), Invoice(1, 1, 1, 2, 2, 2, 25),
            Invoice(2, 2, 1, 1, 1, 3, 30), Invoice(2, 2, 9, 1, 1, 1, 35),
            Foreign(Invoice(1, 2, 2, 1, 1, 2, 40)), Foreign(Invoice(2, 2, 1, 1, 1, 1, 30)),
            [Invoice(4, 2, 1, 1, 1, 1, 30) EXCEPT !.currency = 2],
            Invoice(3, 3, 2, 1, 1, 2, 41), Invoice(3, 3, 1, 5, 1, 1, 30),
            Invoice(3, 3, 1, 1, 2, 1, 30), Invoice(3, 3, 1, 1, 1, 2, 30)})

(* Values the database cannot hold: 7 stands for a text with a NUL, 70 for *)
(* an amount with too many digits.                                         *)
Unstorable ==
    Books3({{Order(1, 1, 1, 4, 30)}, {Order(1, 1, 1, 4, 30), Order(1, 2, 7, 2, 25)}},
           {<<>>, <<Receipt(1, 4, 1, 1, 1, 5)>>,
            <<Receipt(1, 4, 1, 1, 1, 3), Receipt(7, 4, 1, 1, 1, 1)>>},
           {Invoice(1, 1, 1, 1, 1, 2, 30), Invoice(7, 2, 1, 1, 1, 1, 30),
            Invoice(3, 3, 1, 1, 1, 1, 70)})
Files == Quantities \cup References \cup Unstorable
=============================================================================
