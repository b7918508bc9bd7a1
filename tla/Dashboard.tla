------------------------------ MODULE Dashboard ------------------------------
(***************************************************************************)
(* What the manager's dashboard answers (persistence/dashboard.py, with    *)
(* the windows of dashboard_policy.py): functions of the findings and      *)
(* their events, each of the snapshot one statement sees.  The request has *)
(* read its clock before: "now" may be earlier than events it sees.        *)
(*                                                                         *)
(* Abstracted: the n-th event was created at hour n, and the findings at   *)
(* hour 0, as if the servers shared one clock.  Due dates, ages and issue  *)
(* codes, which are counted in the same way, are left out.                 *)
(***************************************************************************)
EXTENDS FindingWorkflow, FiniteSetsExt

CONSTANTS
    DayLength,  \* hours of a day
    Windows,    \* the reporting windows, in days
    UserId,     \* the order of the assignees' identifiers
    PageSize    \* assignees on a page of the workload

(* A run has finitely many findings and an organization finitely many      *)
(* members.                                                                *)
ASSUME DashboardAssumption ==
    /\ IsFiniteSet(Findings) /\ IsFiniteSet(Users)
    /\ DayLength \in Nat \ {0} /\ PageSize \in Nat \ {0}
    /\ Windows \subseteq Nat \ {0}
    /\ UserId \in [Users -> Nat \ {0}]
    /\ \A u, v \in Users : UserId[u] = UserId[v] => u = v

Unresolved == {f \in Findings : findings[f].status \in {"OPEN", "IN_REVIEW"}}
With(status, S) == {f \in S : findings[f].status = status}

(* Broken variant: a window of whole days that ends now.                   *)
PeriodStart_Rolling(days, now) == now - days * DayLength

(* Period.at: today so far, and the days before it.                        *)
PeriodStart(days, now) == ((now \div DayLength) - (days - 1)) * DayLength

(* event_activity                                                          *)
ActivityIn(S, start, end) == {n \in S : start <= n /\ n < end}
Resolutions == {n \in DOMAIN events : events[n].type = "RESOLVED"}
Reopenings == {n \in DOMAIN events : events[n].type = "REOPENED"}
NewIn(start, end) == IF start <= 0 /\ 0 < end THEN Cardinality(Findings) ELSE 0

Counts(start, end) ==
    [new |-> NewIn(start, end),
     resolutions |-> Cardinality(ActivityIn(Resolutions, start, end)),
     reopenings |-> Cardinality(ActivityIn(Reopenings, start, end))]

(* The counts are of the snapshot, the activity ends when the clock was    *)
(* read.                                                                   *)
Overview(days, now) ==
    [open |-> Cardinality(With("OPEN", Findings)),
     inReview |-> Cardinality(With("IN_REVIEW", Findings)),
     unresolved |-> Cardinality(Unresolved),
     resolved |-> Cardinality(With("RESOLVED", Findings)),
     unassigned |-> Cardinality({f \in Unresolved : findings[f].assignee = None}),
     activity |-> Counts(PeriodStart(days, now), now)]

(* The bucket of a day: what the grouped query returns for it.             *)
Trend(days, now, offset) ==
    LET start == PeriodStart(days, now)
        day == (start \div DayLength) + offset
        hours == (day * DayLength)..((day + 1) * DayLength - 1)
        inside(S) == Cardinality(ActivityIn(S, start, now) \cap hours)
    IN  [new |-> IF 0 \in hours THEN NewIn(start, now) ELSE 0,
         resolutions |-> inside(Resolutions), reopenings |-> inside(Reopenings)]

(* workload_query: the unassigned row, and a page of assignees.            *)
WorkOf(u) == {f \in Unresolved : findings[f].assignee = u}
Load(u) == [open |-> Cardinality(With("OPEN", WorkOf(u))),
            inReview |-> Cardinality(With("IN_REVIEW", WorkOf(u))),
            unresolved |-> Cardinality(WorkOf(u))]
Workload(cursor) ==
    LET later == {u \in Users : WorkOf(u) # {} /\ UserId[u] > cursor}
        place(u) == Cardinality({v \in later : UserId[v] <= UserId[u]})
        items == {u \in later : place(u) <= PageSize}
    IN  [items |-> items,
         next |-> IF items = later THEN 0 ELSE Max({UserId[u] : u \in items})]

(* The pages a client reads, following the cursors.                        *)
PagesRead ==
    LET pages[k \in 0..Cardinality(Users)] ==
            IF k = 0 THEN <<Workload(0)>>
            ELSE LET before == pages[k - 1]
                     last == before[Len(before)]
                 IN  IF last.next = 0 THEN before ELSE Append(before, Workload(last.next))
    IN  pages[Cardinality(Users)]

-----------------------------------------------------------------------------
(* Properties.                                                             *)

ResolvedBefore(hour) ==
    {f \in Findings :
        LET past == {n \in Moves(f) : n < hour}
        IN  past # {} /\ events[Latest(past)].type = "RESOLVED"}

(* The dashboard's figures agree with one another and with the history,    *)
(* also when findings move between the reading of the clock and the        *)
(* snapshot: in every window the resolutions less the reopenings are the   *)
(* change of the resolved backlog up to that reading, and the current      *)
(* backlog adds just the moves since; the days of the trend add up to the  *)
(* window's activity; and the pages of the workload show each assignee once*)
(* and, with the unassigned row, every unresolved finding.                 *)
DashboardAgrees ==
    /\ \A days \in Windows, now \in 0..(Len(events) + DayLength) :
        LET view == Overview(days, now)
            start == PeriodStart(days, now)
            since == Counts(now, Len(events) + 1)
            sum(Count(_)) == MapThenSumSet(LAMBDA o : Count(Trend(days, now, o)), 0..(days - 1))
        IN  /\ view.open + view.inReview = view.unresolved
            /\ view.unresolved + view.resolved = Cardinality(Findings)
            /\ view.activity.resolutions - view.activity.reopenings
                = Cardinality(ResolvedBefore(now)) - Cardinality(ResolvedBefore(start))
            /\ since.resolutions - since.reopenings
                = view.resolved - Cardinality(ResolvedBefore(now))
            /\ sum(LAMBDA t : t.new) = view.activity.new
            /\ sum(LAMBDA t : t.resolutions) = view.activity.resolutions
            /\ sum(LAMBDA t : t.reopenings) = view.activity.reopenings
    /\ LET shown == [k \in DOMAIN PagesRead |-> PagesRead[k].items]
           listed == UNION {shown[k] : k \in DOMAIN shown}
       IN  /\ \A j, k \in DOMAIN shown : j # k => shown[j] \cap shown[k] = {}
           /\ Load(None).unresolved + MapThenSumSet(LAMBDA u : Load(u).unresolved, listed)
                = Cardinality(Unresolved)
=============================================================================
