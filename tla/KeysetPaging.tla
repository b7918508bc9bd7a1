---------------------------- MODULE KeysetPaging ----------------------------
(***************************************************************************)
(* How the lists and timelines of the API are paged: the run history, the  *)
(* findings, a finding's timeline, the members and the invitations, each   *)
(* from one table, and the organization's audit feed, which merges three   *)
(* (Governance.audit in src/src/reconcile/auth/governance.py).             *)
(*                                                                         *)
(* A page holds the rows before the cursor, latest first by creation time, *)
(* then rank of the table, then id; the cursor of the next page names the  *)
(* last row shown.  The stock positions are shown by item and location     *)
(* code instead.  The server keeps nothing between pages.  Rows take       *)
(* their time when their transaction starts and appear when it commits, so *)
(* rows appear anywhere in the order while a client turns the pages; and a *)
(* change may take a row out of the list's filter or back into it.  The    *)
(* tables of the audit feed are read by statements of their own, the last  *)
(* one in a transaction of its own.                                        *)
(***************************************************************************)
EXTENDS Integers, Sequences, FiniteSets

CONSTANTS
    Rows,       \* ids of the rows, ordered as uuids are
    Lists,      \* the lists: each row's table, the rows whose columns change, and
                \* of stock positions the codes
    Limit,      \* rows on a page
    MaxTime,    \* bound: the last value of the clock
    None

(* A table is its rank in the merge.                                       *)
ASSUME RowAssumption == Rows \subseteq Nat /\ IsFiniteSet(Rows) /\ None \notin Nat
ASSUME ListAssumption ==
    Lists \subseteq [table: [Rows -> Nat], mutable: SUBSET Rows,
                     codes: [Rows -> Nat \X Nat] \cup {None}]
(* An item has one position at a location.                                 *)
ASSUME CodeAssumption ==
    \A l \in Lists : l.codes # None =>
        \A x, y \in Rows : l.codes[x] = l.codes[y] => x = y
ASSUME PageAssumption == Limit \in Nat \ {0} /\ MaxTime \in Nat

VARIABLES
    list,       \* the list that is paged
    clock,      \* the time
    time,       \* created_at of each row, None before its transaction starts
    committed,  \* the rows that are committed
    matching,   \* the rows whose columns fit the filter of the list
    todo,       \* the tables the current request has yet to read
    fetched,    \* the rows it has read
    cursor,     \* the row the cursor names; None for the first page
    pages,      \* the pages shown
    turning,    \* the client still turns pages
    steady      \* history: rows committed and matching since the client began

vars == <<list, clock, time, committed, matching, todo, fetched, cursor, pages, turning,
          steady>>
rows == <<clock, time, committed, matching, steady>>
client == <<todo, fetched, cursor, pages, turning>>

Tables == {list.table[x] : x \in Rows}

TypeOK ==
    /\ list \in Lists
    /\ clock \in 0..MaxTime
    /\ time \in [Rows -> (0..MaxTime) \cup {None}]
    /\ committed \subseteq Rows
    /\ matching \subseteq Rows
    /\ todo \subseteq Tables
    /\ fetched \subseteq Rows
    /\ cursor \in Rows \cup {None}
    /\ pages \in Seq(SUBSET Rows)
    /\ turning \in BOOLEAN
    /\ steady \subseteq committed

Init ==
    /\ list \in Lists
    /\ clock = 0
    /\ time = [x \in Rows |-> None]
    /\ committed = {}
    /\ matching = Rows
    /\ todo = {}
    /\ fetched = {}
    /\ cursor = None
    /\ pages = <<>>
    /\ turning = FALSE
    /\ steady = {}

-----------------------------------------------------------------------------
(* Positions, by item code, then location code: each names one row, so the *)
(* comparison of the ids that follows them in the code decides nothing.    *)
PositionFollows(p, q) ==
    \/ p[1] > q[1]
    \/ p[1] = q[1] /\ p[2] > q[2]

(* ORDER BY created_at DESC, id DESC, and the merge's sort key: row x is   *)
(* shown after row y.                                                      *)
Follows(x, y) ==
    IF list.codes # None THEN PositionFollows(list.codes[x], list.codes[y])
    ELSE \/ time[x] < time[y]
         \/ /\ time[x] = time[y]
            /\ \/ list.table[x] < list.table[y]
               \/ list.table[x] = list.table[y] /\ x < y

(* Broken variant: rows of one time are compared by id, whatever table     *)
(* they come from.                                                         *)
BeforeCursor_RankIgnored(x) ==
    cursor # None =>
        \/ time[x] < time[cursor]
        \/ time[x] = time[cursor] /\ x < cursor

(* The WHERE clause: _before_cursor, and the row comparison of the lists   *)
(* of one table.                                                           *)
BeforeCursor(x) == cursor # None => Follows(x, cursor)

(* LIMIT n                                                                 *)
FirstOf(S, n) == {x \in S : Cardinality({y \in S : Follows(x, y)}) < n}
LastOf(S) == CHOOSE x \in S : \A y \in S \ {x} : Follows(x, y)

(* The client opens the list.                                              *)
Open ==
    /\ ~turning /\ pages = <<>>
    /\ turning' = TRUE
    /\ todo' = Tables
    /\ steady' = committed \cap matching
    /\ UNCHANGED <<list, clock, time, committed, matching, fetched, cursor, pages>>

(* A SELECT, with one row more than the page shows.  RUN and WORKFLOW are  *)
(* read before GOVERNANCE, the table of the highest rank.                  *)
Fetch(t) ==
    LET visible == {x \in committed \cap matching : list.table[x] = t /\ BeforeCursor(x)}
    IN  /\ t \in todo /\ \A u \in todo : t <= u
        /\ fetched' = fetched \cup FirstOf(visible, Limit + 1)
        /\ todo' = todo \ {t}
        /\ UNCHANGED <<list, rows, cursor, pages, turning>>

(* The answer: the first rows of what was fetched, and a cursor when there *)
(* are more, with which the client asks for the next page.                 *)
Answer ==
    LET page == FirstOf(fetched, Limit)
        more == Cardinality(fetched) > Limit
    IN  /\ turning /\ todo = {}
        /\ pages' = Append(pages, page)
        /\ cursor' = IF more THEN LastOf(page) ELSE cursor
        /\ todo' = IF more THEN Tables ELSE {}
        /\ turning' = more
        /\ fetched' = {}
        /\ UNCHANGED <<list, rows>>

-----------------------------------------------------------------------------
(* Writers.                                                                *)

Begin(x) ==
    /\ time[x] = None
    /\ time' = [time EXCEPT ![x] = clock]
    /\ UNCHANGED <<list, clock, committed, matching, steady, client>>

Commit(x) ==
    /\ time[x] # None /\ x \notin committed
    /\ committed' = committed \cup {x}
    /\ UNCHANGED <<list, clock, time, matching, steady, client>>

(* An archive, a restore, another assignee ...                             *)
Change(x) ==
    /\ x \in committed \cap list.mutable
    /\ matching' = IF x \in matching THEN matching \ {x} ELSE matching \cup {x}
    /\ steady' = steady \ {x}
    /\ UNCHANGED <<list, clock, time, committed, client>>

Tick ==
    /\ clock < MaxTime
    /\ clock' = clock + 1
    /\ UNCHANGED <<list, time, committed, matching, steady, client>>

Next ==
    \/ Open \/ Answer \/ Tick
    \/ \E t \in Tables : Fetch(t)
    \/ \E x \in Rows : Begin(x) \/ Commit(x) \/ Change(x)

Spec == Init /\ [][Next]_vars

-----------------------------------------------------------------------------
(* Properties.                                                             *)

(* Turning the pages shows rows in the order of the list, none twice,      *)
(* whatever is written meanwhile; and when the client has seen the last    *)
(* page it has seen every row that was in the list all the time, however   *)
(* many rows of several tables carry the same time.                        *)
PagesAreComplete ==
    /\ \A k \in DOMAIN pages : \A n \in 1..k - 1 :
        \A x \in pages[k], y \in pages[n] : Follows(x, y)
    /\ pages # <<>> /\ ~turning => steady \subseteq UNION {pages[k] : k \in DOMAIN pages}
=============================================================================
