-------------------------- MODULE FindingWorkflow --------------------------
(***************************************************************************)
(* The workflow kept on top of saved findings: the service class Workflow  *)
(* (src/src/reconcile/persistence/workflow.py) on the findings and         *)
(* finding_events tables of migration 0004, for one organization.  A step  *)
(* is one statement, or a group of reads that the finding's row lock       *)
(* protects; transactions interleave at READ COMMITTED.                    *)
(*                                                                         *)
(* Around it, governance changes roles and archives memberships, and       *)
(* sessions end, at any moment: a request may wait for another editor's    *)
(* lock, and the world it was authorized in is gone when it continues.     *)
(*                                                                         *)
(* Abstracted: timestamps and texts are model values; the evidence of a    *)
(* finding, which nothing here changes, is left out.                       *)
(***************************************************************************)
EXTENDS Policy, Integers, Sequences, FiniteSets

CONSTANTS
    Findings,   \* findings of a saved run
    Users,      \* people with a membership row
    Dates,      \* due dates and reminders
    Notes,      \* resolution notes and comments
    None,       \* SQL NULL
    Seed,       \* the membership rows at the start
    Rows,       \* the rows governance may turn a user's membership into
    Leavers,    \* users whose session may end
    Requests,   \* HTTP requests, each handled once by one server thread
    Loads       \* the combinations of bodies the requests may carry

Unchanged == "UNCHANGED"    \* a field the body leaves out
Status == {"OPEN", "IN_REVIEW", "RESOLVED"}
Transitions ==
    [status \in Status |->
        CASE status = "OPEN" -> {"IN_REVIEW", "RESOLVED"}
          [] status = "IN_REVIEW" -> {"RESOLVED"}
          [] status = "RESOLVED" -> {"OPEN"}]

Kind == {"MANAGE", "TRANSITION", "COMMENT"}
Request == [kind: Kind, actor: Users, finding: Findings, seen: Nat,
            assignee: Users \cup {None, Unchanged}, due: Dates \cup {None, Unchanged},
            reminder: Dates \cup {None, Unchanged},
            target: Status, note: Notes \cup {None}]

ASSUME MembershipAssumption ==
    /\ Seed \in [Users -> Membership]
    /\ Rows \in [Users -> SUBSET Membership]
    /\ Leavers \subseteq Users
ASSUME ValueAssumption ==
    /\ None \notin Users \cup Dates \cup Notes
    /\ Unchanged \notin Users \cup Dates \cup {None}
ASSUME LoadAssumption == Loads \subseteq [Requests -> Request]

VARIABLES
    findings,   \* the workflow columns of the findings rows
    events,     \* committed finding_events, in order of commit
    members,    \* the organization_memberships rows
    signedIn,   \* users whose session is neither revoked nor expired
    request,    \* the body each request carries
    phase,      \* the next statement of each request's transaction
    loaded,     \* the finding each request has in its ORM session
    granted,    \* the permissions each request found after its lock wait
    locks,      \* the findings rows each transaction holds FOR UPDATE
    reply,      \* the answer each finished request received
    deposed     \* history: editors not entitled when they obtained their lock,
                \* nor at any time since

tables == <<findings, events>>
world == <<members, signedIn>>
vars == <<tables, world, request, phase, loaded, granted, locks, reply, deposed>>

Finding == [status: Status, assignee: Users \cup {None}, due: Dates \cup {None},
            reminder: Dates \cup {None}, resolver: Users \cup {None},
            note: Notes \cup {None}, version: Nat]
NewFinding == [status |-> "OPEN", assignee |-> None, due |-> None, reminder |-> None,
               resolver |-> None, note |-> None, version |-> 1]
EventType == {"COMMENT_ADDED", "ASSIGNEE_CHANGED", "DUE_DATE_CHANGED",
              "REMINDER_CHANGED", "STATUS_CHANGED", "RESOLVED", "REOPENED"}
(* value: the new value in the details; before, after: previous_version    *)
(* and new_version; message: the comment or the resolution note.           *)
Event == [finding: Findings, type: EventType, actor: Users,
          value: Users \cup Dates \cup Status \cup {None},
          before: Nat, after: Nat, message: Notes \cup {None}, by: Requests]
Phase == {"new", "lock", "recheck", "checks", "commit", "insert", "done"}
Reply == {"none", "ok", "rejected", "error", "lost"}

TypeOK ==
    /\ findings \in [Findings -> Finding]
    /\ events \in Seq(Event)
    /\ members \in [Users -> Membership]
    /\ signedIn \subseteq Users
    /\ request \in [Requests -> Request]
    /\ phase \in [Requests -> Phase]
    /\ loaded \in [Requests -> Finding]
    /\ granted \in [Requests -> SUBSET Permission]
    /\ locks \in [Requests -> SUBSET Findings]
    /\ reply \in [Requests -> Reply]
    /\ deposed \subseteq Requests

-----------------------------------------------------------------------------
PermissionFor(kind) ==
    CASE kind = "MANAGE" -> "MANAGE_FINDING"
      [] kind = "TRANSITION" -> "TRANSITION_ASSIGNED_FINDING"
      [] kind = "COMMENT" -> "COMMENT_FINDING"

Entitled(r) ==
    /\ request[r].actor \in signedIn
    /\ Permits(members[request[r].actor], PermissionFor(request[r].kind))

Free(f, r) == \A q \in Requests \ {r} : f \notin locks[q]

Goto(r, p) == phase' = [phase EXCEPT ![r] = p] /\ UNCHANGED <<locks, reply>>

(* Broken variant: an exception leaves the transaction open.               *)
Finish_KeepsLocks(r, answer) ==
    /\ phase' = [phase EXCEPT ![r] = "done"]
    /\ reply' = [reply EXCEPT ![r] = answer]
    /\ UNCHANGED locks

Finish(r, answer) ==
    /\ phase' = [phase EXCEPT ![r] = "done"]
    /\ reply' = [reply EXCEPT ![r] = answer]
    /\ locks' = [locks EXCEPT ![r] = {}]

Refuse(r) == Finish(r, "rejected") /\ UNCHANGED tables

Init ==
    /\ findings = [f \in Findings |-> NewFinding]
    /\ events = <<>>
    /\ members = Seed
    /\ signedIn = Users
    /\ request \in Loads
    /\ phase = [r \in Requests |-> "new"]
    /\ loaded = [r \in Requests |-> NewFinding]
    /\ granted = [r \in Requests |-> {}]
    /\ locks = [r \in Requests |-> {}]
    /\ reply = [r \in Requests |-> "none"]
    /\ deposed = {}

(* authorized_transaction: the session, then the membership as the tenant  *)
(* connection sees it.  A comment asks no more than that.                  *)
Arrive(r) ==
    /\ phase[r] = "new"
    /\ IF Entitled(r)
       THEN /\ Goto(r, IF request[r].kind = "COMMENT" THEN "insert" ELSE "lock")
            /\ UNCHANGED tables
       ELSE Refuse(r)
    /\ UNCHANGED <<world, request, loaded, granted, deposed>>

(* SELECT ... FROM findings ... FOR UPDATE                                 *)
LockFinding(r) ==
    LET f == request[r].finding IN
    /\ phase[r] = "lock"
    /\ Free(f, r)
    /\ phase' = [phase EXCEPT ![r] = "recheck"]
    /\ locks' = [locks EXCEPT ![r] = @ \cup {f}]
    /\ loaded' = [loaded EXCEPT ![r] = findings[f]]
    /\ deposed' = IF Entitled(r) THEN deposed ELSE deposed \cup {r}
    /\ UNCHANGED <<tables, world, request, granted, reply>>

(* Broken variant: the permissions of the moment of arrival are used.      *)
Recheck_AsArrived(r) ==
    /\ phase[r] = "recheck"
    /\ Goto(r, "checks")
    /\ granted' = [granted EXCEPT ![r] = RolePermissions[members[request[r].actor].role]]
    /\ UNCHANGED <<tables, world, request, loaded, deposed>>

(* _permissions_after_lock                                                 *)
Recheck(r) ==
    /\ phase[r] = "recheck"
    /\ IF Entitled(r)
       THEN /\ Goto(r, "checks")
            /\ granted' = [granted EXCEPT ![r] =
                                RolePermissions[members[request[r].actor].role]]
            /\ UNCHANGED tables
       ELSE Refuse(r) /\ UNCHANGED granted
    /\ UNCHANGED <<world, request, loaded, deposed>>

-----------------------------------------------------------------------------
(* What manage and transition check on the locked finding.                 *)

Given(field, old) == IF field = Unchanged THEN old ELSE field
Managed(m, row) ==
    [row EXCEPT !.assignee = Given(m.assignee, @), !.due = Given(m.due, @),
                !.reminder = Given(m.reminder, @)]

(* _validate_assignee reads the membership through the identity connection *)
(* and does not lock it.                                                   *)
AssigneeFits(m) ==
    m.assignee \in Users => members[m.assignee].status = "ACTIVE"

MayMove(r) ==
    \/ "TRANSITION_ANY_FINDING" \in granted[r]
    \/ loaded[r].assignee = request[r].actor

(* Broken variant: expected_version is not compared.                       *)
ServiceAllows_AnyVersion(r) ==
    LET m == request[r]
        row == loaded[r]
    IN  CASE m.kind = "MANAGE" -> AssigneeFits(m) /\ Managed(m, row) # row
          [] m.kind = "TRANSITION" ->
                /\ MayMove(r)
                /\ m.target \in Transitions[row.status]
                /\ m.target = "RESOLVED" <=> m.note # None

ServiceAllows(r) ==
    LET m == request[r]
        row == loaded[r]
    IN  /\ row.version = m.seen
        /\ CASE m.kind = "MANAGE" -> AssigneeFits(m) /\ Managed(m, row) # row
             [] m.kind = "TRANSITION" ->
                    /\ MayMove(r)
                    /\ m.target \in Transitions[row.status]
                    /\ m.target = "RESOLVED" <=> m.note # None

Check(r) ==
    /\ phase[r] = "checks"
    /\ IF ServiceAllows(r) THEN Goto(r, "commit") /\ UNCHANGED tables ELSE Refuse(r)
    /\ UNCHANGED <<world, request, loaded, granted, deposed>>

-----------------------------------------------------------------------------
(* The writes, computed from the loaded row, their events, and COMMIT.     *)

(* The resolution columns are set when the finding is resolved and cleared *)
(* when it is reopened; no other transition touches them.                  *)
Moved(m, row) ==
    [row EXCEPT !.status = m.target,
                !.resolver = IF m.target = "RESOLVED" THEN m.actor
                             ELSE IF row.status = "RESOLVED" THEN None ELSE @,
                !.note = IF m.target = "RESOLVED" THEN m.note
                         ELSE IF row.status = "RESOLVED" THEN None ELSE @]

EventOf(r, type, value, message) ==
    [finding |-> request[r].finding, type |-> type, actor |-> request[r].actor,
     value |-> value, before |-> request[r].seen, after |-> loaded[r].version + 1,
     message |-> message, by |-> r]

MoveEvent(r) ==
    LET m == request[r] IN
    EventOf(r, IF m.target = "RESOLVED" THEN "RESOLVED"
               ELSE IF loaded[r].status = "RESOLVED" THEN "REOPENED" ELSE "STATUS_CHANGED",
            m.target, IF m.target = "RESOLVED" THEN m.note ELSE None)

(* One event for each field that changes, in the order of their names.     *)
ManageEvents(r, new) ==
    LET old == loaded[r]
        when(changed, type, value) ==
            IF changed THEN <<EventOf(r, type, value, None)>> ELSE <<>>
    IN  when(new.assignee # old.assignee, "ASSIGNEE_CHANGED", new.assignee)
        \o when(new.due # old.due, "DUE_DATE_CHANGED", new.due)
        \o when(new.reminder # old.reminder, "REMINDER_CHANGED", new.reminder)

(* ck_findings_resolution_state                                            *)
ConstraintsAccept(row) ==
    IF row.status = "RESOLVED" THEN row.resolver # None /\ row.note # None
                               ELSE row.resolver = None /\ row.note = None

(* An ORM flush writes the columns that differ from the loaded row.        *)
Written(stored, old, new) ==
    [column \in DOMAIN stored |->
        IF new[column] = old[column] THEN stored[column] ELSE new[column]]

Commit(r) ==
    LET m == request[r]
        old == loaded[r]
        new == IF m.kind = "MANAGE" THEN Managed(m, old) ELSE Moved(m, old)
        bumped == [new EXCEPT !.version = @ + 1]
        row == Written(findings[m.finding], old, bumped)
    IN  /\ phase[r] = "commit"
        /\ IF ~ConstraintsAccept(row) THEN Finish(r, "error") /\ UNCHANGED tables
           ELSE /\ findings' = [findings EXCEPT ![m.finding] = row]
                /\ events' = events \o
                    (IF m.kind = "MANAGE" THEN ManageEvents(r, new) ELSE <<MoveEvent(r)>>)
                /\ Finish(r, "ok")
        /\ UNCHANGED <<world, request, loaded, granted, deposed>>

(* A comment takes the finding's key share lock with its foreign key, so   *)
(* it waits for an editor, and is then recorded without another look.      *)
Comment(r) ==
    LET f == request[r].finding
        event == [EventOf(r, "COMMENT_ADDED", None, request[r].note)
                    EXCEPT !.before = 0, !.after = 0]
    IN  /\ phase[r] = "insert"
        /\ Free(f, r)
        /\ events' = Append(events, event)
        /\ Finish(r, "ok")
        /\ UNCHANGED <<findings, world, request, loaded, granted, deposed>>

(* The connection or the worker is lost.                                   *)
Rollback(r) ==
    /\ phase[r] \notin {"new", "done"}
    /\ Finish(r, "lost")
    /\ UNCHANGED <<tables, world, request, loaded, granted, deposed>>

-----------------------------------------------------------------------------
(* The world: governance commits a new role or status, a session ends.     *)

Govern(u) ==
    /\ \E row \in Rows[u] \ {members[u]} : members' = [members EXCEPT ![u] = row]
    /\ deposed' = {r \in deposed :
                    ~(request[r].actor \in signedIn
                      /\ Permits(members'[request[r].actor],
                                 PermissionFor(request[r].kind)))}
    /\ UNCHANGED <<tables, signedIn, request, phase, loaded, granted, locks, reply>>

SignOut(u) ==
    /\ u \in signedIn \cap Leavers
    /\ signedIn' = signedIn \ {u}
    /\ UNCHANGED <<tables, members, request, phase, loaded, granted, locks, reply, deposed>>

Step(r) ==
    LockFinding(r) \/ Recheck(r) \/ Check(r) \/ Commit(r) \/ Comment(r)

Next ==
    \/ \E r \in Requests : Arrive(r) \/ Step(r) \/ Rollback(r)
    \/ \E u \in Users : Govern(u) \/ SignOut(u)

Spec == Init /\ [][Next]_vars

-----------------------------------------------------------------------------
(* Properties.                                                             *)

Of(f, types) == {n \in DOMAIN events : events[n].finding = f /\ events[n].type \in types}
Latest(S) == CHOOSE n \in S : \A k \in S : k <= n
LastValue(f, type, initial) ==
    IF Of(f, {type}) = {} THEN initial ELSE events[Latest(Of(f, {type}))].value
Moves(f) == Of(f, {"STATUS_CHANGED", "RESOLVED", "REOPENED"})
Edits(f) == Of(f, EventType \ {"COMMENT_ADDED"})

Successive(S) ==
    {pair \in S \X S : pair[1] < pair[2] /\ ~\E k \in S : pair[1] < k /\ k < pair[2]}
AssigneeBefore(f, n) ==
    LET past == {k \in Of(f, {"ASSIGNEE_CHANGED"}) : k < n}
    IN  IF past = {} THEN None ELSE events[Latest(past)].value
(* Nobody who ever had this membership may move the findings of others.    *)
MovesOwnOnly(u) ==
    \A row \in {Seed[u]} \cup Rows[u] :
        "TRANSITION_ANY_FINDING" \notin RolePermissions[row.role]

(* The timeline of a finding, read from the start, yields its assignee,    *)
(* its dates, its status and its resolution; its versions are a chain:     *)
(* each is the work of one request, which had seen the version before, so  *)
(* two editors never write the same version and none is skipped; its       *)
(* status moved along the allowed transitions, by a manager or by the user *)
(* it was assigned to at that moment; and no write failed in a constraint. *)
HistoryExplainsState ==
    /\ \A r \in Requests :
        /\ reply[r] # "error"
        /\ reply[r] = "ok" <=> \E n \in DOMAIN events : events[n].by = r
    /\ \A f \in Findings :
        LET row == findings[f]
            last == events[Latest(Moves(f))]
            resolved == Moves(f) # {} /\ last.type = "RESOLVED"
        IN  /\ row.assignee = LastValue(f, "ASSIGNEE_CHANGED", None)
            /\ row.due = LastValue(f, "DUE_DATE_CHANGED", None)
            /\ row.reminder = LastValue(f, "REMINDER_CHANGED", None)
            /\ row.status = IF Moves(f) = {} THEN "OPEN" ELSE last.value
            /\ row.resolver = IF resolved THEN last.actor ELSE None
            /\ row.note = IF resolved THEN last.message ELSE None
            /\ {events[n].after : n \in Edits(f)} = 2..row.version
            /\ \A a, b \in Edits(f) :
                /\ events[a].before = events[a].after - 1
                /\ events[a].after = events[b].after <=> events[a].by = events[b].by
                /\ a < b => events[a].after <= events[b].after
            /\ \A pair \in Successive(Moves(f)) :
                events[pair[2]].value \in Transitions[events[pair[1]].value]
            /\ \A n \in Moves(f) :
                MovesOwnOnly(events[n].actor) => AssigneeBefore(f, n) = events[n].actor

(* An editor who lost the role, the membership or the session while it     *)
(* waited for another editor changes nothing when its turn comes.          *)
DeposedAreRefused == \A r \in deposed : reply[r] \notin {"ok", "error"}
=============================================================================
