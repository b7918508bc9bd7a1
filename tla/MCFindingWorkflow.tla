------------------------- MODULE MCFindingWorkflow -------------------------
(***************************************************************************)
(* Finite instances of FindingWorkflow and of the dashboard on top of it.  *)
(***************************************************************************)
EXTENDS Dashboard, TLC

CONSTANTS f1, f2, mia, max, ned, d1, d2, n1, n2, r1, r2, r3, r4

Filler == [kind |-> "MANAGE", actor |-> mia, finding |-> f1, seen |-> 1,
           assignee |-> Unchanged, due |-> Unchanged, reminder |-> Unchanged,
           target |-> "OPEN", note |-> None]
Assign(actor, user, seen) ==
    [Filler EXCEPT !.actor = actor, !.assignee = user, !.seen = seen]
Plan(actor, user, due, reminder, seen) ==
    [Assign(actor, user, seen) EXCEPT !.due = due, !.reminder = reminder]
Move(actor, target, seen) ==
    [Filler EXCEPT !.kind = "TRANSITION", !.actor = actor, !.target = target, !.seen = seen]
Resolve(actor, note, seen) == [Move(actor, "RESOLVED", seen) EXCEPT !.note = note]
Say(actor, note) == [Filler EXCEPT !.kind = "COMMENT", !.actor = actor, !.note = note]

Four(A, B, C, D) ==
    {(r1 :> a) @@ (r2 :> b) @@ (r3 :> c) @@ (r4 :> d) : a \in A, b \in B, c \in C, d \in D}

Manager == NewMembership("AP_MANAGER")
Clerk == NewMembership("MEMBER")
Gone == [Clerk EXCEPT !.status = "ARCHIVED"]
Team == [u \in Users |-> IF u = ned THEN Clerk ELSE Manager]
Stable == [u \in Users |-> {}]
Unstable == [u \in Users |-> CASE u = mia -> {Clerk, Manager}
                               [] u = ned -> {Clerk, Gone} [] OTHER -> {}]

On2(body) == [body EXCEPT !.finding = f2]

(* Two managers and a clerk edit one finding: assignment, schedule,        *)
(* resolution, reopening, each possibly with a stale version.              *)
Editing ==
         Four({Plan(mia, ned, d1, d2, 1)}, {Resolve(ned, n1, 2)}, {Move(max, "OPEN", 3)},
              {Resolve(mia, n2, 4)})
    \cup Four({Plan(mia, ned, d1, d2, 1)}, {Resolve(max, n1, 1)}, {Assign(max, None, 2)},
              {Plan(max, Unchanged, d2, None, 2)})

(* A few editors and a comment.                                            *)
Deposing ==
    Four({Assign(max, ned, 1)}, {Resolve(ned, n1, 2)},
         {Say(ned, n2)}, {Resolve(mia, n1, 2), Move(ned, "IN_REVIEW", 2)})

(* An editor of each of two findings, and comments that wait for one.      *)
Waiting ==
    Four({Assign(mia, ned, 1)}, {Say(ned, n2)}, {On2(Resolve(max, n1, 1))},
         {Say(mia, n1)})

(* Two assignees, and a finding that is resolved and reopened.             *)
Sharing ==
    Four({Assign(mia, ned, 1)}, {On2(Assign(max, max, 1))},
         {On2(Resolve(max, n1, 2)), On2(Move(max, "IN_REVIEW", 2))},
         {On2(Move(max, "OPEN", 3)), Resolve(ned, n1, 2)})

(* Identifiers in an order of their own.                                   *)
Ids == [u \in Users |-> CASE u = mia -> 3 [] u = max -> 1 [] u = ned -> 2]

All == Editing \cup Deposing \cup Waiting \cup Sharing
=============================================================================
