------------------------------- MODULE MCRuns -------------------------------
(***************************************************************************)
(* Finite instances of Runs.                                               *)
(***************************************************************************)
EXTENDS Runs, TLC

CONSTANTS mia, max, ned, t1, t2, r1, r2, r3, r4

Upload(actor) ==
    [kind |-> "CREATE", actor |-> actor, run |-> r1, seen |-> 0,
     title |-> Unchanged, note |-> Unchanged]
Change(kind, actor, seen) ==
    [Upload(actor) EXCEPT !.kind = kind, !.seen = seen]
Edit(actor, seen, title, note) ==
    [Change("EDIT", actor, seen) EXCEPT !.title = title, !.note = note]

Four(A, B, C, D) ==
    {(r1 :> a) @@ (r2 :> b) @@ (r3 :> c) @@ (r4 :> d) : a \in A, b \in B, c \in C, d \in D}

Manager == NewMembership("AP_MANAGER")
Clerk == NewMembership("MEMBER")
Gone == [Clerk EXCEPT !.status = "ARCHIVED"]
Team == [u \in Users |-> IF u = ned THEN Clerk ELSE Manager]
Unstable == [u \in Users |-> CASE u = max -> {Clerk, Manager}
                               [] u = ned -> {Clerk, Gone} [] OTHER -> {}]

(* A clerk uploads; two managers edit, archive and restore the run, from   *)
(* fresh or stale versions; and the client of a lost upload sends it again.*)
All ==
         Four({Upload(ned)}, {Edit(mia, 1, t1, Unchanged)},
              {Change("ARCHIVE", max, s) : s \in {1, 2}}, {Change("RESTORE", mia, s) : s \in {2, 3}})
    \cup Four({Upload(ned)}, {Change("ARCHIVE", mia, 1)}, {Change("ARCHIVE", max, s) : s \in {1, 2}},
              {Edit(max, 2, None, t2)})
    \cup Four({Upload(ned)}, {Upload(ned)}, {Edit(max, 1, t1, t2)},
              {Edit(ned, 1, t2, Unchanged), Change("ARCHIVE", max, 2)})
=============================================================================
