-------------------------------- MODULE Runs --------------------------------
(***************************************************************************)
(* Saved analysis runs: the service class Runs                             *)
(* (src/src/reconcile/persistence/runs.py) and the upload handler around   *)
(* it (src/src/reconcile/web/runs.py), on the analysis_runs and            *)
(* audit_events tables of migration 0003, for one organization.            *)
(*                                                                         *)
(* An upload is authorized when it arrives, analysed outside any           *)
(* transaction, which may take long, and authorized again by the           *)
(* transaction that saves the run with its sources, findings, snapshot and *)
(* audit event.  Edits, archives and restores lock the run's row, compare  *)
(* the version the client saw, and are not authorized again after the      *)
(* wait.  Meanwhile governance changes roles and memberships, sessions     *)
(* end, and the clocks of the worker processes disagree by up to Skew.     *)
(*                                                                         *)
(* Abstracted: the report and its evidence (module Reconciliation) are     *)
(* part of the run's row, which no later request changes; title and note   *)
(* are model values.  A session is bound to one organization, so another   *)
(* organization's runs are never in reach.                                 *)
(***************************************************************************)
EXTENDS Policy, Integers, Sequences, FiniteSets

CONSTANTS
    Users,      \* people with a membership row
    Texts,      \* titles and notes
    None,       \* SQL NULL
    Seed,       \* the membership rows at the start
    Rows,       \* the rows governance may turn a user's membership into
    Leavers,    \* users whose session may end
    Requests,   \* HTTP requests, each handled once by one server thread
    Loads,      \* the combinations of bodies the requests may carry
    MaxTime,    \* bound: the last value of the clock
    Skew        \* bound: how far the clock of a worker may be behind

Unchanged == "UNCHANGED"    \* a field the body leaves out
Changes == {"EDIT", "ARCHIVE", "RESTORE"}
Field == Texts \cup {None, Unchanged}
(* run: the upload whose run the request is about.                         *)
Request == [kind: Changes \cup {"CREATE"}, actor: Users, run: Requests, seen: Nat,
            title: Field, note: Field]

ASSUME MembershipAssumption ==
    /\ Seed \in [Users -> Membership]
    /\ Rows \in [Users -> SUBSET Membership]
    /\ Leavers \subseteq Users
ASSUME ValueAssumption == None \notin Texts \cup Nat /\ Unchanged \notin Texts \cup {None}
ASSUME LoadAssumption == Loads \subseteq [Requests -> Request]
ASSUME TimeAssumption == MaxTime \in Nat /\ Skew \in Nat

VARIABLES
    runs,       \* the analysis_runs rows, by the upload that saved them
    events,     \* committed audit_events, in order of commit
    members,    \* the organization_memberships rows
    signedIn,   \* users whose session is neither revoked nor expired
    clock,      \* the time
    request,    \* the body each request carries
    phase,      \* the next statement of each request
    loaded,     \* the run each request has in its ORM session
    locks,      \* the analysis_runs rows each transaction holds FOR UPDATE
    reply,      \* the answer each finished request received
    deposed     \* history: uploaders not entitled when their analysis ended,
                \* nor at any time since

tables == <<runs, events>>
world == <<members, signedIn, clock>>
vars == <<tables, world, request, phase, loaded, locks, reply, deposed>>

Run == [creator: Users, createdAt: Nat, title: Texts \cup {None}, note: Texts \cup {None},
        archivedAt: Nat \cup {None}, version: Nat]
ASSUME RowAssumption == None \notin Run
EventType == {"ANALYSIS_COMPLETED", "RUN_METADATA_UPDATED", "RUN_ARCHIVED", "RUN_RESTORED"}
Event == [run: Requests, type: EventType, actor: Users, before: Nat, after: Nat,
          fields: SUBSET {"title", "note", "archived_at"}]
Phase == {"new", "analyse", "authorize", "save", "lock", "checks", "commit", "done"}
Reply == {"none", "ok", "rejected", "error", "lost"}

TypeOK ==
    /\ runs \in [Requests -> Run \cup {None}]
    /\ events \in Seq(Event)
    /\ members \in [Users -> Membership]
    /\ signedIn \subseteq Users
    /\ clock \in 0..MaxTime
    /\ request \in [Requests -> Request]
    /\ phase \in [Requests -> Phase]
    /\ loaded \in [Requests -> Run \cup {None}]
    /\ locks \in [Requests -> SUBSET Requests]
    /\ reply \in [Requests -> Reply]
    /\ deposed \subseteq Requests

-----------------------------------------------------------------------------
PermissionFor(kind) ==
    CASE kind = "CREATE" -> "RUN_ANALYSIS"
      [] kind = "EDIT" -> "UPDATE_RUN_METADATA"
      [] kind \in {"ARCHIVE", "RESTORE"} -> "ARCHIVE_RUN"

Entitled(r) ==
    /\ request[r].actor \in signedIn
    /\ Permits(members[request[r].actor], PermissionFor(request[r].kind))

(* What a worker may read from its clock.                                  *)
Reading == {t \in 0..clock : clock - t <= Skew}

Free(n, r) == \A q \in Requests \ {r} : n \notin locks[q]

Goto(r, p) == phase' = [phase EXCEPT ![r] = p] /\ UNCHANGED <<locks, reply>>
Finish(r, answer) ==
    /\ phase' = [phase EXCEPT ![r] = "done"]
    /\ reply' = [reply EXCEPT ![r] = answer]
    /\ locks' = [locks EXCEPT ![r] = {}]

Init ==
    /\ runs = [n \in Requests |-> None]
    /\ events = <<>>
    /\ members = Seed
    /\ signedIn = Users
    /\ clock = 0
    /\ request \in Loads
    /\ phase = [r \in Requests |-> "new"]
    /\ loaded = [r \in Requests |-> None]
    /\ locks = [r \in Requests |-> {}]
    /\ reply = [r \in Requests |-> "none"]
    /\ deposed = {}

(* require_analysis and create_run authorize the upload in transactions of *)
(* their own; mutate authorizes in the transaction it continues.           *)
Arrive(r) ==
    /\ phase[r] = "new"
    /\ IF ~Entitled(r) THEN Finish(r, "rejected")
       ELSE Goto(r, IF request[r].kind = "CREATE" THEN "analyse" ELSE "lock")
    /\ UNCHANGED <<tables, world, request, loaded, deposed>>

-----------------------------------------------------------------------------
(* Saving a run.                                                           *)

(* The files are loaded, analysed and rendered; one may be too large or    *)
(* invalid.                                                                *)
Analyse(r) ==
    /\ phase[r] = "analyse"
    /\ Goto(r, "authorize") \/ Finish(r, "rejected")
    /\ deposed' = IF Entitled(r) THEN deposed ELSE deposed \cup {r}
    /\ UNCHANGED <<tables, world, request, loaded>>

(* Broken variant: the principal of the upload's arrival is used again.    *)
Authorize_OnArrivalOnly(r) ==
    /\ phase[r] = "authorize"
    /\ Goto(r, "save")
    /\ UNCHANGED <<tables, world, request, loaded, deposed>>

(* Runs.create opens an authorized transaction of its own.                 *)
Authorize(r) ==
    /\ phase[r] = "authorize"
    /\ IF Entitled(r) THEN Goto(r, "save") ELSE Finish(r, "rejected")
    /\ UNCHANGED <<tables, world, request, loaded, deposed>>

(* The INSERTs and COMMIT; or a value does not fit its column (DataError)  *)
(* and nothing is saved.                                                   *)
Save(r) ==
    LET m == request[r] IN
    /\ phase[r] = "save"
    /\ \/ /\ \E now \in Reading :
                runs' = [runs EXCEPT ![r] =
                            [creator |-> m.actor, createdAt |-> now, title |-> None,
                             note |-> None, archivedAt |-> None, version |-> 1]]
          /\ events' = Append(events, [run |-> r, type |-> "ANALYSIS_COMPLETED",
                                       actor |-> m.actor, before |-> 0, after |-> 1,
                                       fields |-> {}])
          /\ Finish(r, "ok")
       \/ Finish(r, "rejected") /\ UNCHANGED tables
    /\ UNCHANGED <<world, request, loaded, deposed>>

-----------------------------------------------------------------------------
(* Changing a run.                                                         *)

(* Broken variant: the row is read without FOR UPDATE.                     *)
LockRun_Plain(r) ==
    LET n == request[r].run IN
    /\ phase[r] = "lock"
    /\ loaded' = [loaded EXCEPT ![r] = runs[n]]
    /\ IF runs[n] = None THEN Finish(r, "rejected") ELSE Goto(r, "checks")
    /\ UNCHANGED <<tables, world, request, deposed>>

(* SELECT ... FROM analysis_runs ... FOR UPDATE                            *)
LockRun(r) ==
    LET n == request[r].run IN
    /\ phase[r] = "lock"
    /\ Free(n, r)
    /\ loaded' = [loaded EXCEPT ![r] = runs[n]]
    /\ IF runs[n] = None THEN Finish(r, "rejected")
       ELSE /\ phase' = [phase EXCEPT ![r] = "checks"]
            /\ locks' = [locks EXCEPT ![r] = {n}]
            /\ UNCHANGED reply
    /\ UNCHANGED <<tables, world, request, deposed>>

Check(r) ==
    /\ phase[r] = "checks"
    /\ IF loaded[r].version = request[r].seen THEN Goto(r, "commit")
                                              ELSE Finish(r, "rejected")
    /\ UNCHANGED <<tables, world, request, loaded, deposed>>

(* Broken variant: the clock of this worker alone.                         *)
ArchiveTime_Clock(row, now) == now

(* The worker that archives may be behind the one that created the run.    *)
ArchiveTime(row, now) == IF now < row.createdAt THEN row.createdAt ELSE now

Given(field, old) == IF field = Unchanged THEN old ELSE field
Changed(m, row, now) ==
    LET next == [row EXCEPT !.version = @ + 1] IN
    CASE m.kind = "EDIT" ->
            [next EXCEPT !.title = Given(m.title, @), !.note = Given(m.note, @)]
      [] m.kind = "ARCHIVE" -> [next EXCEPT !.archivedAt = ArchiveTime(row, now)]
      [] m.kind = "RESTORE" -> [next EXCEPT !.archivedAt = None]

ChangeEvent(r) ==
    LET m == request[r]
        fields == {f \in {"title", "note"} : m[f] # Unchanged}
    IN  [run |-> m.run, actor |-> m.actor, before |-> m.seen, after |-> loaded[r].version + 1,
         type |-> CASE m.kind = "EDIT" -> "RUN_METADATA_UPDATED"
                    [] m.kind = "ARCHIVE" -> "RUN_ARCHIVED"
                    [] m.kind = "RESTORE" -> "RUN_RESTORED",
         fields |-> IF m.kind = "EDIT" THEN fields ELSE {"archived_at"}]

(* ck_analysis_runs_archive_time                                           *)
ConstraintsAccept(row) == row.archivedAt # None => row.archivedAt >= row.createdAt

(* UPDATE, audit event and COMMIT.  Of the columns a flush writes, an EDIT *)
(* touches title and note and the others archived_at.                      *)
Commit(r) ==
    LET m == request[r] IN
    /\ phase[r] = "commit"
    /\ \E now \in Reading :
        LET new == Changed(m, loaded[r], now)
            row == [column \in DOMAIN new |->
                        IF new[column] = loaded[r][column] THEN runs[m.run][column]
                                                           ELSE new[column]]
        IN  IF ConstraintsAccept(row)
            THEN /\ runs' = [runs EXCEPT ![m.run] = row]
                 /\ events' = Append(events, ChangeEvent(r))
                 /\ Finish(r, "ok")
            ELSE Finish(r, "error") /\ UNCHANGED tables
    /\ UNCHANGED <<world, request, loaded, deposed>>

(* The connection or the worker is lost.                                   *)
Rollback(r) ==
    /\ phase[r] \notin {"new", "done"}
    /\ Finish(r, "lost")
    /\ UNCHANGED <<tables, world, request, loaded, deposed>>

-----------------------------------------------------------------------------
(* The world: time passes, governance commits a new role or status, a      *)
(* session ends (signed out, reset, or replaced by an organization switch).*)

StillDeposed(r) ==
    ~ /\ request[r].actor \in signedIn
      /\ Permits(members'[request[r].actor], PermissionFor(request[r].kind))

Govern(u) ==
    /\ \E row \in Rows[u] \ {members[u]} : members' = [members EXCEPT ![u] = row]
    /\ deposed' = {r \in deposed : StillDeposed(r)}
    /\ UNCHANGED <<tables, signedIn, clock, request, phase, loaded, locks, reply>>

SignOut(u) ==
    /\ u \in signedIn \cap Leavers
    /\ signedIn' = signedIn \ {u}
    /\ UNCHANGED <<tables, members, clock, request, phase, loaded, locks, reply, deposed>>

Tick ==
    /\ clock < MaxTime
    /\ clock' = clock + 1
    /\ UNCHANGED <<tables, members, signedIn, request, phase, loaded, locks, reply, deposed>>

Next ==
    \/ \E r \in Requests :
        \/ Arrive(r) \/ Analyse(r) \/ Authorize(r) \/ Save(r)
        \/ LockRun(r) \/ Check(r) \/ Commit(r) \/ Rollback(r)
    \/ \E u \in Users : Govern(u) \/ SignOut(u)
    \/ Tick

Spec == Init /\ [][Next]_vars

-----------------------------------------------------------------------------
(* Properties.                                                             *)

Of(n) == {k \in DOMAIN events : events[k].run = n}
Filed(n) == {k \in Of(n) : events[k].type \in {"RUN_ARCHIVED", "RUN_RESTORED"}}
Latest(S) == CHOOSE k \in S : \A j \in S : j <= k

(* The audit trail explains every run: it exists exactly when an analysis  *)
(* was recorded for it, once and before everything else, by its creator;   *)
(* its version counts the events, each of which moved it one on from the   *)
(* version its request had seen, so no edit, archive or restore is lost    *)
(* under another; and it is archived when that was the last decision.      *)
AuditExplainsRuns ==
    \A n \in Requests :
        /\ runs[n] = None <=> Of(n) = {}
        /\ runs[n] # None =>
            /\ runs[n].version = Cardinality(Of(n))
            /\ \A k \in Of(n) :
                LET earlier == {j \in Of(n) : j < k} IN
                /\ events[k].after = Cardinality(earlier) + 1
                /\ events[k].before = events[k].after - 1
                /\ earlier = {} <=> events[k].type = "ANALYSIS_COMPLETED"
                /\ earlier = {} => events[k].actor = runs[n].creator
            /\ runs[n].archivedAt # None <=>
                Filed(n) # {} /\ events[Latest(Filed(n))].type = "RUN_ARCHIVED"

(* Somebody who lost the role, the membership or the session while the     *)
(* files were analysed saves no run: create looks again.                   *)
DeposedSaveNothing == \A r \in deposed : runs[r] = None

(* No archive fails in the constraint that a run is archived after it was  *)
(* created, although two workers read the two times from their own clocks. *)
ArchivesSucceed == \A r \in Requests : reply[r] # "error"
=============================================================================
