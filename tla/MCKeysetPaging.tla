--------------------------- MODULE MCKeysetPaging ---------------------------
(***************************************************************************)
(* Finite instances of KeysetPaging: a list of one table whose rows leave  *)
(* and enter the filter, the merged feed of immutable events, and the      *)
(* stock positions.                                                        *)
(***************************************************************************)
EXTENDS KeysetPaging

RunHistory == [table |-> [x \in Rows |-> 0], mutable |-> {1, 3},
               codes |-> None]
AuditFeed == [table |-> [x \in Rows |-> 1 + ((4 - x) % 3)], mutable |-> {},
              codes |-> None]
(* Three items at up to two locations, posted to in any order.             *)
Positions == [table |-> [x \in Rows |-> 0], mutable |-> {},
              codes |-> [x \in Rows |-> <<1 + (x % 3), 1 + (x \div 3)>>]]
All == {RunHistory, AuditFeed, Positions}
=============================================================================
