----------------------- MODULE FindingWorkflowProofs -----------------------
(***************************************************************************)
(* What holds of the finding workflow, for any findings, people, bodies    *)
(* and whatever governance does to the memberships meanwhile.              *)
(*                                                                         *)
(* Who is deposed: a request is deposed at its lock, between the lock and  *)
(* the second look at its session and membership.  It can leave that spot  *)
(* only by the refusal of Recheck, as long as it is deposed; and whom      *)
(* governance entitles again is deposed no longer.                         *)
(*                                                                         *)
(* What the timeline tells: from its lock to its commit a request holds    *)
(* its finding alone, so the row it loaded is the stored one and the       *)
(* version it compared is the version its write follows; its events are    *)
(* then the latest of their types, and say what the row has become.        *)
(*                                                                         *)
(* Why the dashboard agrees: a finding is resolved at an hour when its     *)
(* last move before it says so, and the allowed transitions alternate, so  *)
(* hour by hour each resolution adds one such finding and each reopening   *)
(* takes one away, before the clock was read and after; the days of a      *)
(* window share out its hours; each page of the workload leaves exactly the*)
(* users behind its cursor, and there are no more pages than users.        *)
(***************************************************************************)
EXTENDS Dashboard, FiniteSetTheorems, NaturalsInduction, WellFoundedInduction, TLAPS

Shapes ==
    /\ request \in [Requests -> Request]
    /\ phase \in [Requests -> Phase]
    /\ reply \in [Requests -> Reply]
    /\ deposed \subseteq Requests

(* Only a finished request has been answered.                              *)
Answered == \A r \in Requests : reply[r] # "none" => phase[r] = "done"

Stopped ==
    \A r \in deposed :
        /\ ~Entitled(r) /\ phase[r] \in {"recheck", "done"}
        /\ reply[r] \notin {"ok", "error"}

IInv == Shapes /\ Answered /\ Stopped

-----------------------------------------------------------------------------
LEMMA InitInv == Init => IInv
  BY LoadAssumption DEF Init, IInv, Shapes, Answered, Stopped, Phase, Reply

(* A step of a request that is not deposed, in an unchanged world.         *)
LEMMA OthersStay ==
  ASSUME IInv, NEW r \in Requests \ deposed, UNCHANGED <<world, request, deposed>>,
         phase' \in [Requests -> Phase], reply' \in [Requests -> Reply],
         \A q \in Requests \ {r} : phase'[q] = phase[q] /\ reply'[q] = reply[q],
         reply'[r] # "none" => phase'[r] = "done"
  PROVE  IInv'
  BY DEF IInv, Shapes, Answered, Stopped, Entitled, world

LEMMA FinishEnds ==
  ASSUME IInv, NEW r \in Requests, NEW answer \in Reply, Finish(r, answer)
  PROVE  /\ phase' \in [Requests -> Phase] /\ reply' \in [Requests -> Reply]
         /\ \A q \in Requests \ {r} : phase'[q] = phase[q] /\ reply'[q] = reply[q]
         /\ phase'[r] = "done" /\ reply'[r] = answer
  BY DEF IInv, Shapes, Finish, Phase

LEMMA GotoMoves ==
  ASSUME IInv, NEW r \in Requests, NEW p \in Phase, Goto(r, p), phase[r] # "done"
  PROVE  /\ phase' \in [Requests -> Phase] /\ reply' \in [Requests -> Reply]
         /\ \A q \in Requests \ {r} : phase'[q] = phase[q] /\ reply'[q] = reply[q]
         /\ phase'[r] = p /\ reply'[r] = "none"
  BY DEF IInv, Shapes, Answered, Goto

(* Whoever ends without success does no harm, deposed or not.              *)
LEMMA RefusalInv ==
  ASSUME IInv, NEW r \in Requests, NEW answer \in {"rejected", "lost"}, Finish(r, answer),
         UNCHANGED <<world, request, deposed>>
  PROVE  IInv'
  <1>1. /\ phase' \in [Requests -> Phase] /\ reply' \in [Requests -> Reply]
        /\ \A q \in Requests \ {r} : phase'[q] = phase[q] /\ reply'[q] = reply[q]
        /\ phase'[r] = "done" /\ reply'[r] = answer
    BY FinishEnds DEF Reply
  <1> QED BY <1>1 DEF IInv, Shapes, Answered, Stopped, Entitled, world

(* The only request that moves on while it is deposed is one refused.      *)
LEMMA NotDeposed ==
  ASSUME IInv, NEW r \in Requests, phase[r] \notin {"recheck", "done"}
  PROVE  r \notin deposed
  BY DEF IInv, Stopped

LEMMA ArriveInv == ASSUME IInv, NEW r \in Requests, Arrive(r) PROVE IInv'
  <1> DEFINE next == IF request[r].kind = "COMMENT" THEN "insert" ELSE "lock"
  <1>1. r \in Requests \ deposed /\ phase[r] # "done" /\ next \in Phase
        /\ UNCHANGED <<world, request, deposed>>
    BY NotDeposed DEF Arrive, Phase
  <1>2. CASE Goto(r, next)
    <2> HIDE DEF next
    <2> QED BY <1>1, <1>2, GotoMoves, OthersStay
  <1>3. CASE Finish(r, "rejected")
    BY <1>1, <1>3, RefusalInv
  <1> QED BY <1>2, <1>3 DEF Arrive, Refuse

LEMMA LockFindingInv == ASSUME IInv, NEW r \in Requests, LockFinding(r) PROVE IInv'
  <1>1. /\ phase[r] = "lock" /\ phase' = [phase EXCEPT ![r] = "recheck"]
        /\ deposed' = IF Entitled(r) THEN deposed ELSE deposed \cup {r}
        /\ UNCHANGED <<world, request, reply>>
    BY DEF LockFinding
  <1>2. reply[r] = "none" /\ phase'[r] = "recheck"
        /\ \A q \in Requests \ {r} : phase'[q] = phase[q]
    BY <1>1 DEF IInv, Shapes, Answered
  <1>3. Shapes' /\ Answered'
    BY <1>1, <1>2 DEF IInv, Shapes, Answered, Phase
  <1>4. \A q \in Requests : Entitled(q)' <=> Entitled(q)
    BY <1>1 DEF Entitled, world
  <1>5. Stopped'
    BY <1>1, <1>2, <1>4 DEF IInv, Shapes, Stopped
  <1> QED BY <1>3, <1>5 DEF IInv

LEMMA RecheckInv == ASSUME IInv, NEW r \in Requests, Recheck(r) PROVE IInv'
  <1>1. phase[r] = "recheck" /\ UNCHANGED <<world, request, deposed>>
    BY DEF Recheck
  <1>2. CASE Entitled(r) /\ Goto(r, "checks")
    <2>1. r \in Requests \ deposed
      BY <1>2 DEF IInv, Stopped
    <2> QED BY <1>1, <1>2, <2>1, GotoMoves, OthersStay DEF Phase
  <1>3. CASE Finish(r, "rejected")
    BY <1>1, <1>3, RefusalInv
  <1> QED BY <1>2, <1>3 DEF Recheck, Refuse

LEMMA CheckInv == ASSUME IInv, NEW r \in Requests, Check(r) PROVE IInv'
  <1>1. phase[r] = "checks" /\ r \in Requests \ deposed /\ UNCHANGED <<world, request, deposed>>
    BY NotDeposed DEF Check
  <1>2. CASE Goto(r, "commit")
    BY <1>1, <1>2, GotoMoves, OthersStay DEF Phase
  <1>3. CASE Finish(r, "rejected")
    BY <1>1, <1>3, RefusalInv
  <1> QED BY <1>2, <1>3 DEF Check, Refuse

LEMMA WriteInv == ASSUME IInv, NEW r \in Requests, Commit(r) \/ Comment(r) PROVE IInv'
  <1>1. r \in Requests \ deposed /\ UNCHANGED <<world, request, deposed>>
    BY NotDeposed DEF Commit, Comment
  <1>2. \E answer \in Reply \ {"none"} : Finish(r, answer)
    BY DEF Commit, Comment, Reply
  <1> QED BY <1>1, <1>2, FinishEnds, OthersStay

(* Governance may take a right away, and may give it back: a request whose *)
(* user is entitled again is deposed no longer.                            *)
LEMMA GovernInv == ASSUME IInv, NEW u \in Users, Govern(u) PROVE IInv'
  <1>1. /\ deposed' = {r \in deposed : ~Entitled(r)'}
        /\ UNCHANGED <<request, phase, reply>>
    BY DEF Govern, Entitled
  <1> QED BY <1>1 DEF IInv, Shapes, Answered, Stopped

LEMMA SignOutInv == ASSUME IInv, NEW u \in Users, SignOut(u) PROVE IInv'
  <1>1. /\ signedIn' \subseteq signedIn
        /\ UNCHANGED <<members, request, phase, reply, deposed>>
    BY DEF SignOut
  <1> QED BY <1>1 DEF IInv, Shapes, Answered, Stopped, Entitled

LEMMA NextInv == ASSUME IInv, [Next]_vars PROVE IInv'
  <1>1. ASSUME NEW r \in Requests, Rollback(r) PROVE IInv'
    BY <1>1, RefusalInv DEF Rollback
  <1>2. CASE UNCHANGED vars
    BY <1>2 DEF vars, world, IInv, Shapes, Answered, Stopped, Entitled
  <1> QED BY <1>1, <1>2, ArriveInv, LockFindingInv, RecheckInv, CheckInv, WriteInv, GovernInv,
             SignOutInv DEF Next, Step

-----------------------------------------------------------------------------
(* The timeline of a finding explains it.                                  *)

(* The requests that hold a finding: from its lock to the commit.          *)
Holding(r) == phase[r] \in {"recheck", "checks", "commit"}
Held(r) == request[r].finding
LocksFit == \A r \in Requests : locks[r] = IF Holding(r) THEN {Held(r)} ELSE {}
OneHolder == \A q, r \in Requests : Holding(q) /\ Holding(r) /\ Held(q) = Held(r) => q = r
Commenting(r) == request[r].kind = "COMMENT"
KindsFit ==
    \A r \in Requests :
        /\ phase[r] = "insert" => Commenting(r)
        /\ phase[r] = "lock" \/ Holding(r) => ~Commenting(r)

(* The loaded row is the stored one as long as its lock is held.           *)
Current == \A r \in Requests : Holding(r) => loaded[r] = findings[Held(r)]

(* The memberships a user may have, and the permissions they may give.     *)
RowsOf(u) == {Seed[u]} \cup Rows[u]
Rights ==
    /\ \A u \in Users : members[u] \in RowsOf(u)
    /\ \A r \in Requests :
        phase[r] \in {"checks", "commit"} =>
            \E row \in RowsOf(request[r].actor) : granted[r] = RolePermissions[row.role]

(* What a request in front of its commit has checked on the loaded row.    *)
Allowed(m, row, permissions) ==
    /\ row.version = m.seen
    /\ m.kind = "MANAGE" => Managed(m, row) # row
    /\ m.kind = "TRANSITION" =>
        /\ "TRANSITION_ANY_FINDING" \in permissions \/ row.assignee = m.actor
        /\ m.target \in Transitions[row.status]
        /\ m.target = "RESOLVED" <=> m.note # None
Checked == \A r \in Requests : phase[r] = "commit" => Allowed(request[r], loaded[r], granted[r])

MoveTypes == {"STATUS_CHANGED", "RESOLVED", "REOPENED"}
(* The type of a move tells its value, and only what was moved before is   *)
(* reopened.                                                               *)
MoveFits(n) ==
    events[n].type \in MoveTypes =>
        /\ events[n].value \in Status
        /\ events[n].type = "RESOLVED" <=> events[n].value = "RESOLVED"
        /\ events[n].type = "REOPENED" <=> events[n].value = "OPEN"
        /\ events[n].value = "OPEN" => \E k \in Moves(events[n].finding) : k < n
EventsFit == \A n \in DOMAIN events : MoveFits(n)
ResolutionsFit == \A f \in Findings : ConstraintsAccept(findings[f]) /\ findings[f].version >= 1

(* A request is answered when it is done, and not before.                  *)
AnsweredAtEnd == \A r \in Requests : reply[r] # "none" <=> phase[r] = "done"

(* The inductive invariant of the timelines.                               *)
HistoryInv ==
    /\ TypeOK /\ AnsweredAtEnd
    /\ LocksFit /\ OneHolder /\ KindsFit /\ Current /\ Rights /\ Checked
    /\ EventsFit /\ ResolutionsFit
    /\ HistoryExplainsState

(* The parts of HistoryExplainsState.                                      *)
RepliesTold ==
    \A r \in Requests :
        /\ reply[r] # "error"
        /\ reply[r] = "ok" <=> \E n \in DOMAIN events : events[n].by = r
FieldsTold(f) ==
    /\ findings[f].assignee = LastValue(f, "ASSIGNEE_CHANGED", None)
    /\ findings[f].due = LastValue(f, "DUE_DATE_CHANGED", None)
    /\ findings[f].reminder = LastValue(f, "REMINDER_CHANGED", None)
StatusTold(f) ==
    LET last == events[Latest(Moves(f))]
        resolved == Moves(f) # {} /\ last.type = "RESOLVED"
    IN  /\ findings[f].status = IF Moves(f) = {} THEN "OPEN" ELSE last.value
        /\ findings[f].resolver = IF resolved THEN last.actor ELSE None
        /\ findings[f].note = IF resolved THEN last.message ELSE None
VersionsTold(f) ==
    /\ {events[n].after : n \in Edits(f)} = 2..findings[f].version
    /\ \A a, b \in Edits(f) :
        /\ events[a].before = events[a].after - 1
        /\ events[a].after = events[b].after <=> events[a].by = events[b].by
        /\ a < b => events[a].after <= events[b].after
MovesTold(f) ==
    /\ \A pair \in Successive(Moves(f)) :
        events[pair[2]].value \in Transitions[events[pair[1]].value]
    /\ \A n \in Moves(f) :
        MovesOwnOnly(events[n].actor) => AssigneeBefore(f, n) = events[n].actor
Told(f) == FieldsTold(f) /\ StatusTold(f) /\ VersionsTold(f) /\ MovesTold(f)

(* The property is what its parts say of each request and each finding.    *)
LEMMA HistoryParts == HistoryExplainsState <=> RepliesTold /\ \A f \in Findings : Told(f)
  BY DEF HistoryExplainsState, RepliesTold, Told, FieldsTold, StatusTold, VersionsTold, MovesTold

(* Events are only added, at the end.                                      *)
Grows ==
    /\ events \in Seq(Event) /\ events' \in Seq(Event)
    /\ Len(events) <= Len(events')
    /\ \A k \in 1..Len(events) : events'[k] = events[k]
Fresh == (Len(events) + 1)..Len(events')

(* The old events keep their numbers, the new ones come after them.        *)
LEMMA Growth ==
  ASSUME Grows
  PROVE  /\ Len(events) \in Nat /\ DOMAIN events = 1..Len(events)
         /\ DOMAIN events' = DOMAIN events \cup Fresh
         /\ \A n \in DOMAIN events : events'[n] = events[n]
         /\ \A n \in DOMAIN events, k \in Fresh : n \in Nat /\ k \in Nat /\ n < k
         /\ DOMAIN events \cap Fresh = {}
  <1>1. Len(events) \in Nat /\ Len(events') \in Nat
        /\ DOMAIN events = 1..Len(events) /\ DOMAIN events' = 1..Len(events')
    BY DEF Grows
  <1> QED BY <1>1 DEF Grows, Fresh

(* A set of natural numbers has a least element; so a set below a bound    *)
(* has a greatest.                                                         *)
LEMMA LeastExists ==
  ASSUME NEW S \in SUBSET Nat, S # {}
  PROVE  \E k \in S : \A j \in S : k <= j
  <1> DEFINE R == {pair \in Nat \X Nat : pair[1] < pair[2]}
  <1>1. IsWellFoundedOn(R, Nat)
    BY NatLessThanWellFounded DEF OpToRel
  <1>2. PICK k \in S : \A j \in S : <<j, k>> \notin R
    <2> HIDE DEF R
    <2> QED BY <1>1, WFMin
  <1>3. ASSUME NEW j \in S PROVE k <= j
    <2>1. j \in Nat /\ k \in Nat /\ <<j, k>> \notin R
      BY <1>2
    <2> QED BY <2>1
  <1> QED BY <1>3

(* Latest is what its name says, where there is one to choose.             *)
LEMMA LatestIs ==
  ASSUME NEW S \in SUBSET Nat, NEW k \in S, \A j \in S : j <= k
  PROVE  Latest(S) = k
  <1>1. \A i \in S : (\A j \in S : j <= i) => i = k
    OBVIOUS
  <1> QED BY <1>1 DEF Latest

(* A set below a bound has a greatest element.                             *)
LEMMA GreatestExists ==
  ASSUME NEW n \in Nat, NEW S \in SUBSET (1..n), S # {}
  PROVE  \E k \in S : \A j \in S : j <= k
  <1> DEFINE T == {n - k : k \in S}
  <1>1. T \in SUBSET Nat /\ T # {}
    <2>1. \A k \in S : n - k \in Nat
      OBVIOUS
    <2>2. PICK k : k \in S
      OBVIOUS
    <2>3. n - k \in T
      BY <2>2
    <2> QED BY <2>1, <2>3
  <1>2. PICK d \in T : \A c \in T : d <= c
    BY <1>1, LeastExists
  <1>3. PICK k \in S : d = n - k
    BY <1>2
  <1>4. ASSUME NEW j \in S PROVE j <= k
    <2>1. n - j \in T
      OBVIOUS
    <2>2. n - k <= n - j
      BY <1>2, <1>3, <2>1
    <2> QED BY <2>2
  <1> QED BY <1>4

(* Events that there are have a latest.                                    *)
LEMMA LatestExists ==
  ASSUME NEW n \in Nat, NEW S \in SUBSET (1..n), S # {}
  PROVE  Latest(S) \in S
  <1>1. PICK k \in S : \A j \in S : j <= k
    BY GreatestExists
  <1> QED BY <1>1, LatestIs

(* What the latest of some earlier events says is not changed by new ones; *)
(* a new event among them is the latest.                                   *)
LEMMA LatestKept ==
  ASSUME Grows, NEW S \in SUBSET (DOMAIN events), S # {}
  PROVE  events'[Latest(S)] = events[Latest(S)]
  BY Growth, LatestExists

(* A new event among earlier ones is the latest.                           *)
LEMMA LatestNew ==
  ASSUME Grows, NEW S \in SUBSET (DOMAIN events), NEW n \in Fresh
  PROVE  Latest(S \cup {n}) = n
  <1>1. S \cup {n} \in SUBSET Nat /\ \A j \in S \cup {n} : j <= n
    BY Growth
  <1> QED BY <1>1, LatestIs

(* One event at the end.                                                   *)
LEMMA OneMore ==
  ASSUME events \in Seq(Event), NEW e \in Event, events' = Append(events, e)
  PROVE  Grows /\ Fresh = {Len(events) + 1} /\ events'[Len(events) + 1] = e
  <1>1. /\ Len(events) \in Nat /\ Len(events') = Len(events) + 1 /\ events' \in Seq(Event)
        /\ events'[Len(events) + 1] = e
        /\ \A k \in 1..Len(events) : events'[k] = events[k]
    OBVIOUS
  <1> QED BY <1>1 DEF Grows, Fresh

(* The events of some types about a finding, as they grow.                 *)
LEMMA TrailGrows ==
  ASSUME Grows
  PROVE  \A f, types :
            Of(f, types)' = Of(f, types) \cup
                {n \in Fresh : events'[n].finding = f /\ events'[n].type \in types}
  BY Growth DEF Of

(* The events about a finding are events.                                  *)
LEMMA TrailInEvents ==
  ASSUME events \in Seq(Event)
  PROVE  \A f, types : Of(f, types) \subseteq DOMAIN events
  BY DEF Of

(* A finding of which nothing is told but comments.                        *)
LEMMA ToldKept ==
  ASSUME Grows, NEW f \in Findings, Told(f), findings'[f] = findings[f],
         \A n \in Fresh : events'[n].finding = f => events'[n].type = "COMMENT_ADDED"
  PROVE  Told(f)'
  <1>1. ASSUME NEW types, "COMMENT_ADDED" \notin types PROVE Of(f, types)' = Of(f, types)
    <2>1. Of(f, types)' = Of(f, types) \cup
              {n \in Fresh : events'[n].finding = f /\ events'[n].type \in types}
      BY TrailGrows
    <2>2. {n \in Fresh : events'[n].finding = f /\ events'[n].type \in types} = {}
      BY <1>1
    <2> QED BY <2>1, <2>2
  <1>2. /\ Of(f, {"ASSIGNEE_CHANGED"})' = Of(f, {"ASSIGNEE_CHANGED"})
        /\ Of(f, {"DUE_DATE_CHANGED"})' = Of(f, {"DUE_DATE_CHANGED"})
        /\ Of(f, {"REMINDER_CHANGED"})' = Of(f, {"REMINDER_CHANGED"})
        /\ Moves(f)' = Moves(f) /\ Edits(f)' = Edits(f)
    BY <1>1 DEF Moves, Edits
  <1>3. /\ Moves(f) \subseteq DOMAIN events /\ Edits(f) \subseteq DOMAIN events
        /\ \A types : Of(f, types) \subseteq DOMAIN events
        /\ \A n \in DOMAIN events : events'[n] = events[n]
    BY Growth, TrailInEvents DEF Grows, Moves, Edits
  <1>4. FieldsTold(f)'
    <2>1. ASSUME NEW type \in {"ASSIGNEE_CHANGED", "DUE_DATE_CHANGED", "REMINDER_CHANGED"}
          PROVE  LastValue(f, type, None)' = LastValue(f, type, None)
      BY <1>2, <1>3, <2>1, LatestKept DEF LastValue
    <2> QED BY <2>1 DEF Told, FieldsTold
  <1>5. StatusTold(f)'
    <2>1. Moves(f) # {} => events'[Latest(Moves(f))] = events[Latest(Moves(f))]
      BY <1>3, LatestKept
    <2> QED BY <1>2, <2>1 DEF Told, StatusTold
  <1>6. VersionsTold(f)'
    BY <1>2, <1>3 DEF Told, VersionsTold
  <1>7. MovesTold(f)'
    <2>1. ASSUME NEW n \in Moves(f) PROVE AssigneeBefore(f, n)' = AssigneeBefore(f, n)
      <3> DEFINE past == {k \in Of(f, {"ASSIGNEE_CHANGED"}) : k < n}
      <3>1. past \subseteq DOMAIN events
        BY <1>3
      <3>2. past # {} => events'[Latest(past)] = events[Latest(past)]
        BY <3>1, LatestKept
      <3> QED BY <1>2, <3>2 DEF AssigneeBefore
    <2>2. Successive(Moves(f)) \subseteq Moves(f) \X Moves(f)
      BY DEF Successive
    <2>3. \A pair \in Successive(Moves(f)) :
             events'[pair[1]] = events[pair[1]] /\ events'[pair[2]] = events[pair[2]]
      BY <1>3, <2>2
    <2>4. Successive(Moves(f))' = Successive(Moves(f))
      BY <1>2 DEF Successive
    <2> QED BY <1>2, <1>3, <2>1, <2>3, <2>4 DEF Told, MovesTold
  <1> QED BY <1>4, <1>5, <1>6, <1>7 DEF Told

(* What an edit's events have in common.                                   *)
EditEvents(f, r, v) ==
    /\ Fresh # {}
    /\ \A n \in Fresh :
        /\ events'[n].finding = f /\ events'[n].type \in EventType \ {"COMMENT_ADDED"}
        /\ events'[n].before = v /\ events'[n].after = v + 1 /\ events'[n].by = r

(* A new edit of one request, which had seen the version, makes the next.  *)
LEMMA VersionsGrow ==
  ASSUME Grows, NEW f \in Findings, NEW r, VersionsTold(f),
         findings[f].version \in Nat, findings[f].version >= 1,
         findings'[f].version = findings[f].version + 1,
         EditEvents(f, r, findings[f].version),
         \A n \in DOMAIN events : events[n].by # r
  PROVE  VersionsTold(f)'
  <1> PICK v \in Nat : v = findings[f].version
    OBVIOUS
  <1>1. Edits(f)' = Edits(f) \cup Fresh
    <2>1. Edits(f)' = Edits(f) \cup
              {n \in Fresh : events'[n].finding = f /\ events'[n].type \in EventType \ {"COMMENT_ADDED"}}
      BY TrailGrows DEF Edits
    <2> QED BY <2>1 DEF EditEvents
  <1>2. Edits(f) \subseteq DOMAIN events
    BY TrailInEvents DEF Edits, Grows
  <1>3. \A n \in Edits(f) :
           /\ events'[n] = events[n] /\ events[n].by # r
           /\ events[n].after \in 2..v /\ \A k \in Fresh : n < k /\ n \in Nat /\ k \in Nat
    BY <1>2, Growth DEF VersionsTold
  <1>4. \A n \in Fresh : events'[n].before = v /\ events'[n].after = v + 1 /\ events'[n].by = r
    BY DEF EditEvents
  <1>5. {events'[n].after : n \in Edits(f)'} = 2..findings'[f].version
    <2>1. {events'[n].after : n \in Edits(f)} = 2..v
      BY <1>3 DEF VersionsTold
    <2>2. {events'[n].after : n \in Fresh} = {v + 1}
      BY <1>4 DEF EditEvents
    <2>3. {events'[n].after : n \in Edits(f)'}
             = {events'[n].after : n \in Edits(f)} \cup {events'[n].after : n \in Fresh}
      BY <1>1
    <2>4. (2..v) \cup {v + 1} = 2..(v + 1)
      OBVIOUS
    <2> QED BY <2>1, <2>2, <2>3, <2>4
  <1>6. ASSUME NEW a \in Edits(f)', NEW b \in Edits(f)'
        PROVE  /\ events'[a].before = events'[a].after - 1
               /\ events'[a].after = events'[b].after <=> events'[a].by = events'[b].by
               /\ a < b => events'[a].after <= events'[b].after
    <2>1. CASE a \in Edits(f) /\ b \in Edits(f)
      BY <1>3, <2>1 DEF VersionsTold
    <2>2. CASE a \in Edits(f) /\ b \in Fresh
      BY <1>3, <1>4, <2>2 DEF VersionsTold
    <2>3. CASE a \in Fresh /\ b \in Edits(f)
      BY <1>3, <1>4, <2>3
    <2>4. CASE a \in Fresh /\ b \in Fresh
      BY <1>4, <2>4
    <2> QED BY <1>1, <2>1, <2>2, <2>3, <2>4
  <1> QED BY <1>5, <1>6 DEF VersionsTold

(* A field is told by its one new event, or as before.                     *)
TellsField(f, type, value) ==
    \E n \in Fresh :
        /\ events'[n].finding = f /\ events'[n].type = type /\ events'[n].value = value
        /\ \A k \in Fresh \ {n} : events'[k].type # type
LEMMA FieldTold ==
  ASSUME Grows, NEW f \in Findings, NEW type \in EventType, NEW value,
         TellsField(f, type, value)
  PROVE  LastValue(f, type, None)' = value
  <1> PICK n \in Fresh :
        /\ events'[n].finding = f /\ events'[n].type = type /\ events'[n].value = value
        /\ \A k \in Fresh \ {n} : events'[k].type # type
    BY DEF TellsField
  <1>1. Of(f, {type})' = Of(f, {type}) \cup {n}
    <2>1. Of(f, {type})' = Of(f, {type}) \cup
              {k \in Fresh : events'[k].finding = f /\ events'[k].type \in {type}}
      BY TrailGrows
    <2>2. {k \in Fresh : events'[k].finding = f /\ events'[k].type \in {type}} = {n}
      OBVIOUS
    <2> QED BY <2>1, <2>2
  <1>2. Latest(Of(f, {type}) \cup {n}) = n
    BY TrailInEvents, LatestNew DEF Grows
  <1> QED BY <1>1, <1>2 DEF LastValue

(* A field nothing new is told of.                                         *)
LEMMA FieldSilent ==
  ASSUME Grows, NEW f \in Findings, NEW type \in EventType,
         \A n \in Fresh : events'[n].type # type
  PROVE  LastValue(f, type, None)' = LastValue(f, type, None)
  <1>1. Of(f, {type})' = Of(f, {type})
    <2>1. Of(f, {type})' = Of(f, {type}) \cup
              {k \in Fresh : events'[k].finding = f /\ events'[k].type \in {type}}
      BY TrailGrows
    <2> QED BY <2>1
  <1>2. Of(f, {type}) \subseteq DOMAIN events
    BY TrailInEvents DEF Grows
  <1> QED BY <1>1, <1>2, LatestKept DEF LastValue

(* Who was assigned before an event stays what it was.                     *)
LEMMA BeforeKept ==
  ASSUME Grows, NEW f \in Findings, NEW n \in DOMAIN events
  PROVE  AssigneeBefore(f, n)' = AssigneeBefore(f, n)
  <1> DEFINE S == Of(f, {"ASSIGNEE_CHANGED"})
             T == {k \in Fresh : events'[k].finding = f /\ events'[k].type \in {"ASSIGNEE_CHANGED"}}
             past == {k \in S : k < n}
  <1>1. Of(f, {"ASSIGNEE_CHANGED"})' = S \cup T
    BY TrailGrows
  <1>2. {k \in S \cup T : k < n} = past
    BY Growth
  <1>3. past \subseteq DOMAIN events
    BY TrailInEvents DEF Grows
  <1>4. past # {} => events'[Latest(past)] = events[Latest(past)]
    BY <1>3, LatestKept
  <1> QED BY <1>1, <1>2, <1>4 DEF AssigneeBefore

(* A change of assignment or dates.                                        *)
ManageTypes == {"ASSIGNEE_CHANGED", "DUE_DATE_CHANGED", "REMINDER_CHANGED"}
FieldEvent(f, type, was, is) ==
    IF is = was THEN \A n \in Fresh : events'[n].type # type ELSE TellsField(f, type, is)

(* A finding after a change of its assignment or dates.                    *)
LEMMA ToldManaged ==
  ASSUME Grows, NEW f \in Findings, NEW r, Told(f),
         findings[f].version \in Nat, findings[f].version >= 1,
         findings'[f].version = findings[f].version + 1,
         findings'[f].status = findings[f].status,
         findings'[f].resolver = findings[f].resolver,
         findings'[f].note = findings[f].note,
         EditEvents(f, r, findings[f].version),
         \A n \in DOMAIN events : events[n].by # r,
         \A n \in Fresh : events'[n].type \in ManageTypes,
         FieldEvent(f, "ASSIGNEE_CHANGED", findings[f].assignee, findings'[f].assignee),
         FieldEvent(f, "DUE_DATE_CHANGED", findings[f].due, findings'[f].due),
         FieldEvent(f, "REMINDER_CHANGED", findings[f].reminder, findings'[f].reminder)
  PROVE  Told(f)'
  <1>1. VersionsTold(f)'
    BY VersionsGrow DEF Told
  <1>2. FieldsTold(f)'
    <2>1. ASSUME NEW type \in EventType, NEW was, NEW is, FieldEvent(f, type, was, is),
                 was = LastValue(f, type, None)
          PROVE  LastValue(f, type, None)' = is
      BY <2>1, FieldTold, FieldSilent DEF FieldEvent
    <2>2. findings'[f].assignee = LastValue(f, "ASSIGNEE_CHANGED", None)'
      BY <2>1 DEF Told, FieldsTold, EventType
    <2>3. findings'[f].due = LastValue(f, "DUE_DATE_CHANGED", None)'
      BY <2>1 DEF Told, FieldsTold, EventType
    <2>4. findings'[f].reminder = LastValue(f, "REMINDER_CHANGED", None)'
      BY <2>1 DEF Told, FieldsTold, EventType
    <2> QED BY <2>2, <2>3, <2>4 DEF FieldsTold
  <1>3. Moves(f)' = Moves(f) /\ Moves(f) \subseteq DOMAIN events
    <2>1. Moves(f)' = Moves(f) \cup
              {n \in Fresh : events'[n].finding = f
                             /\ events'[n].type \in {"STATUS_CHANGED", "RESOLVED", "REOPENED"}}
      BY TrailGrows DEF Moves
    <2>2. Moves(f) \subseteq DOMAIN events
      BY TrailInEvents DEF Moves, Grows
    <2> QED BY <2>1, <2>2 DEF ManageTypes
  <1>4. StatusTold(f)'
    <2>1. Moves(f) # {} => events'[Latest(Moves(f))] = events[Latest(Moves(f))]
      BY <1>3, LatestKept
    <2> QED BY <1>3, <2>1 DEF Told, StatusTold
  <1>5. MovesTold(f)'
    <2>1. \A n \in Moves(f) :
             events'[n] = events[n] /\ AssigneeBefore(f, n)' = AssigneeBefore(f, n)
      BY <1>3, Growth, BeforeKept
    <2>2. Successive(Moves(f))' = Successive(Moves(f))
      BY <1>3 DEF Successive
    <2>3. \A pair \in Successive(Moves(f)) : pair[1] \in Moves(f) /\ pair[2] \in Moves(f)
      BY DEF Successive
    <2> QED BY <1>3, <2>1, <2>2, <2>3 DEF Told, MovesTold
  <1> QED BY <1>1, <1>2, <1>4, <1>5 DEF Told

(* A change of status, by a manager or by the assignee.                    *)
MoveRow(f, e, row) ==
    /\ e.finding = f /\ e.type \in MoveTypes /\ e.value = row.status
    /\ e.value \in Transitions[findings[f].status]
    /\ MovesOwnOnly(e.actor) => findings[f].assignee = e.actor
    /\ IF e.type = "RESOLVED" THEN row.resolver = e.actor /\ row.note = e.message
                              ELSE row.resolver = None /\ row.note = None

(* A finding after a transition.                                           *)
LEMMA ToldMoved ==
  ASSUME Grows, NEW f \in Findings, NEW r, Told(f),
         findings[f].version \in Nat, findings[f].version >= 1,
         findings'[f].version = findings[f].version + 1,
         findings'[f].assignee = findings[f].assignee,
         findings'[f].due = findings[f].due,
         findings'[f].reminder = findings[f].reminder,
         EditEvents(f, r, findings[f].version),
         \A n \in DOMAIN events : events[n].by # r,
         NEW n \in Fresh, Fresh = {n}, MoveRow(f, events'[n], findings'[f])
  PROVE  Told(f)'
  <1>1. VersionsTold(f)'
    BY VersionsGrow DEF Told
  <1>2. FieldsTold(f)'
    <2>1. ASSUME NEW type \in {"ASSIGNEE_CHANGED", "DUE_DATE_CHANGED", "REMINDER_CHANGED"}
          PROVE  LastValue(f, type, None)' = LastValue(f, type, None)
      <3>1. type \in EventType /\ \A k \in Fresh : events'[k].type # type
        BY <2>1 DEF MoveRow, MoveTypes, EventType
      <3> QED BY <3>1, FieldSilent
    <2> QED BY <2>1 DEF Told, FieldsTold
  <1>3. Moves(f)' = Moves(f) \cup {n} /\ Moves(f) \subseteq DOMAIN events
    <2>1. Moves(f)' = Moves(f) \cup
              {k \in Fresh : events'[k].finding = f
                             /\ events'[k].type \in {"STATUS_CHANGED", "RESOLVED", "REOPENED"}}
      BY TrailGrows DEF Moves
    <2>2. Moves(f) \subseteq DOMAIN events
      BY TrailInEvents DEF Moves, Grows
    <2> QED BY <2>1, <2>2 DEF MoveRow, MoveTypes
  <1>4. Latest(Moves(f) \cup {n}) = n
    BY <1>3, LatestNew
  <1>5. StatusTold(f)'
    BY <1>3, <1>4 DEF StatusTold, MoveRow
  <1>6. \A k \in Moves(f) :
           events'[k] = events[k] /\ AssigneeBefore(f, k)' = AssigneeBefore(f, k) /\ k < n
           /\ k \in Nat /\ n \in Nat
    BY <1>3, Growth, BeforeKept
  <1>7. ASSUME NEW pair \in Successive(Moves(f))'
        PROVE  events'[pair[2]].value \in Transitions[events'[pair[1]].value]
    <2>1. /\ pair \in (Moves(f) \cup {n}) \X (Moves(f) \cup {n}) /\ pair[1] < pair[2]
          /\ ~\E k \in Moves(f) \cup {n} : pair[1] < k /\ k < pair[2]
      BY <1>3, <1>7 DEF Successive
    <2>2. CASE pair[1] \in Moves(f) /\ pair[2] \in Moves(f)
      <3>1. pair \in Successive(Moves(f))
        BY <2>1, <2>2 DEF Successive
      <3> QED BY <1>6, <2>2, <3>1 DEF Told, MovesTold
    <2>3. CASE pair[1] \in Moves(f) /\ pair[2] = n
      <3>1. \A k \in Moves(f) : k <= pair[1]
        BY <1>6, <2>1, <2>3
      <3>2. Moves(f) \in SUBSET Nat
        BY <1>6
      <3>3. Latest(Moves(f)) = pair[1]
        BY <2>3, <3>1, <3>2, LatestIs
      <3>4. findings[f].status = events[pair[1]].value
        BY <2>3, <3>3 DEF Told, StatusTold
      <3> QED BY <1>6, <2>3, <3>4 DEF MoveRow
    <2>4. pair[1] # n
      BY <1>6, <2>1
    <2> QED BY <2>1, <2>2, <2>3, <2>4
  <1>8. ASSUME NEW k \in Moves(f)', MovesOwnOnly(events'[k].actor)
        PROVE  AssigneeBefore(f, k)' = events'[k].actor
    <2>1. CASE k \in Moves(f)
      BY <1>6, <1>8, <2>1 DEF Told, MovesTold
    <2>2. CASE k = n
      <3> DEFINE S == Of(f, {"ASSIGNEE_CHANGED"})
                 T == {j \in Fresh : events'[j].finding = f /\ events'[j].type \in {"ASSIGNEE_CHANGED"}}
      <3>1. Of(f, {"ASSIGNEE_CHANGED"})' = S \cup T
        BY TrailGrows
      <3>2. T = {}
        BY DEF MoveRow, MoveTypes
      <3>3. S \subseteq DOMAIN events
        BY TrailInEvents DEF Grows
      <3>4. {j \in S : j < n} = S
        BY <3>3, Growth
      <3>5. S # {} => events'[Latest(S)] = events[Latest(S)]
        BY <3>3, LatestKept
      <3>6. AssigneeBefore(f, n)' = LastValue(f, "ASSIGNEE_CHANGED", None)
        BY <3>1, <3>2, <3>4, <3>5 DEF AssigneeBefore, LastValue
      <3>7. findings[f].assignee = LastValue(f, "ASSIGNEE_CHANGED", None)
        BY DEF Told, FieldsTold
      <3> QED BY <1>8, <2>2, <3>6, <3>7 DEF MoveRow
    <2> QED BY <1>3, <2>1, <2>2
  <1>9. MovesTold(f)'
    BY <1>7, <1>8 DEF MovesTold
  <1> QED BY <1>1, <1>2, <1>5, <1>9 DEF Told

(* New findings have no timeline and nothing to explain.                   *)
LEMMA InitHistory == Init => HistoryInv
  <1> SUFFICES ASSUME Init PROVE HistoryInv
    OBVIOUS
  <1>1. /\ findings = [f \in Findings |-> NewFinding] /\ events = <<>> /\ members = Seed
        /\ request \in Loads /\ phase = [r \in Requests |-> "new"]
        /\ loaded = [r \in Requests |-> NewFinding] /\ locks = [r \in Requests |-> {}]
        /\ reply = [r \in Requests |-> "none"] /\ granted = [r \in Requests |-> {}]
        /\ signedIn = Users /\ deposed = {}
    BY DEF Init
  <1>2. NewFinding \in Finding
    BY DEF NewFinding, Finding, Status
  <1>3. TypeOK
    BY <1>1, <1>2, MembershipAssumption, LoadAssumption DEF TypeOK, Phase, Reply
  <1>4. /\ AnsweredAtEnd /\ LocksFit /\ OneHolder /\ KindsFit /\ Current /\ Checked
        /\ EventsFit
    BY <1>1 DEF AnsweredAtEnd, LocksFit, OneHolder, KindsFit, Current, Checked, Holding, EventsFit
  <1>5. Rights
    BY <1>1 DEF Rights, RowsOf
  <1>6. ResolutionsFit
    BY <1>1 DEF ResolutionsFit, NewFinding, ConstraintsAccept
  <1>7. RepliesTold
    BY <1>1 DEF RepliesTold
  <1>8. ASSUME NEW f \in Findings PROVE Told(f)
    <2>1. \A types : Of(f, types) = {}
      BY <1>1 DEF Of
    <2>2. Moves(f) = {} /\ Edits(f) = {} /\ Successive({}) = {}
      BY <2>1 DEF Moves, Edits, Successive
    <2>3. findings[f] = NewFinding
      BY <1>1
    <2>4. FieldsTold(f)
      BY <2>1, <2>3 DEF FieldsTold, LastValue, NewFinding
    <2>5. StatusTold(f)
      BY <2>2, <2>3 DEF StatusTold, NewFinding
    <2>6. VersionsTold(f)
      <3>1. 2..1 = {}
        OBVIOUS
      <3>2. {events[n].after : n \in Edits(f)} = {}
        BY <2>2
      <3>3. findings[f].version = 1
        BY <2>3 DEF NewFinding
      <3> QED BY <2>2, <3>1, <3>2, <3>3 DEF VersionsTold
    <2>7. MovesTold(f)
      BY <2>2 DEF MovesTold
    <2> QED BY <2>4, <2>5, <2>6, <2>7 DEF Told
  <1>9. HistoryExplainsState
    BY <1>7, <1>8, HistoryParts
  <1> QED BY <1>3, <1>4, <1>5, <1>6, <1>9 DEF HistoryInv

(* A step that writes no table and succeeds in nothing.                    *)
LEMMA HistoryKept ==
  ASSUME HistoryInv, UNCHANGED tables,
         \A q \in Requests : reply'[q] = reply[q] \/ (reply[q] = "none" /\ reply'[q] \in {"rejected", "lost"})
  PROVE  HistoryExplainsState' /\ EventsFit' /\ ResolutionsFit'
  <1>1. RepliesTold /\ \A f \in Findings : Told(f)
    BY HistoryParts DEF HistoryInv
  <1>2. RepliesTold'
    BY <1>1 DEF RepliesTold, tables
  <1>3. UNCHANGED <<findings, events>>
    BY DEF tables
  <1>4. \A f \in Findings : Told(f)'
    <2> SUFFICES ASSUME NEW f \in Findings PROVE Told(f)'
      OBVIOUS
    <2>1. \A types : Of(f, types)' = Of(f, types)
      BY <1>3 DEF Of
    <2>2. Moves(f)' = Moves(f) /\ Edits(f)' = Edits(f)
      BY <2>1 DEF Moves, Edits
    <2>3. \A n : AssigneeBefore(f, n)' = AssigneeBefore(f, n)
      BY <1>3, <2>1 DEF AssigneeBefore
    <2>4. \A type : LastValue(f, type, None)' = LastValue(f, type, None)
      BY <1>3, <2>1 DEF LastValue
    <2>5. Successive(Moves(f))' = Successive(Moves(f))
      BY <2>2 DEF Successive
    <2> QED BY <1>1, <1>3, <2>2, <2>3, <2>4, <2>5
            DEF Told, FieldsTold, StatusTold, VersionsTold, MovesTold
  <1>5. HistoryExplainsState'
    <2>1. (HistoryExplainsState <=> RepliesTold /\ \A f \in Findings : Told(f))'
      BY HistoryParts, PTL
    <2> QED BY <1>2, <1>4, <2>1
  <1>6. EventsFit' /\ ResolutionsFit'
    BY <1>3 DEF HistoryInv, EventsFit, MoveFits, Moves, Of, ResolutionsFit
  <1> QED BY <1>5, <1>6

(* A request that ends without success.                                    *)
LEMMA FailureHistory ==
  ASSUME HistoryInv, NEW r \in Requests, phase[r] # "done",
         NEW answer \in {"rejected", "lost"}, Finish(r, answer),
         UNCHANGED <<tables, world, request, loaded, granted, deposed>>
  PROVE  HistoryInv'
  <1>1. TypeOK'
    BY DEF HistoryInv, TypeOK, Finish, Phase, Reply, tables, world
  <1>2. /\ phase'[r] = "done" /\ locks'[r] = {} /\ reply'[r] = answer
        /\ \A q \in Requests \ {r} : /\ phase'[q] = phase[q] /\ locks'[q] = locks[q]
                                     /\ reply'[q] = reply[q]
    BY DEF HistoryInv, TypeOK, Finish
  <1>3. reply[r] = "none"
    BY DEF HistoryInv, AnsweredAtEnd
  <1>4. HistoryExplainsState' /\ EventsFit' /\ ResolutionsFit'
    BY <1>2, <1>3, HistoryKept
  <1>5. AnsweredAtEnd' /\ LocksFit' /\ OneHolder' /\ KindsFit'
    BY <1>2 DEF HistoryInv, AnsweredAtEnd, LocksFit, OneHolder, KindsFit, Holding, Held, Commenting
  <1>6. Current' /\ Checked'
    BY <1>2 DEF HistoryInv, Current, Checked, Holding, Held, tables
  <1>7. Rights'
    BY <1>2 DEF HistoryInv, Rights, world
  <1> QED BY <1>1, <1>4, <1>5, <1>6, <1>7 DEF HistoryInv

(* What a request's move from one statement to the next leaves alone.      *)
LEMMA GotoPhase ==
  ASSUME HistoryInv, NEW r \in Requests, NEW p \in Phase, phase[r] # "done", p # "done", Goto(r, p)
  PROVE  /\ phase' \in [Requests -> Phase] /\ phase'[r] = p /\ UNCHANGED <<locks, reply>>
         /\ reply[r] = "none"
         /\ \A q \in Requests \ {r} : phase'[q] = phase[q]
  BY DEF HistoryInv, TypeOK, Goto, AnsweredAtEnd

(* A comment goes its own way, past the finding's lock.                    *)
LEMMA ArriveHistory == ASSUME HistoryInv, NEW r \in Requests, Arrive(r) PROVE HistoryInv'
  <1> DEFINE p == IF request[r].kind = "COMMENT" THEN "insert" ELSE "lock"
  <1>1. /\ phase[r] = "new" /\ p \in Phase /\ p # "done"
        /\ UNCHANGED <<tables, world, request, loaded, granted, deposed>>
    BY DEF Arrive, Phase, Refuse
  <1>2. CASE Finish(r, "rejected")
    BY <1>1, <1>2, FailureHistory
  <1>3. CASE Goto(r, p)
    <2> HIDE DEF p
    <2>1. /\ phase' \in [Requests -> Phase] /\ phase'[r] = p /\ UNCHANGED <<locks, reply>>
          /\ reply[r] = "none"
          /\ \A q \in Requests \ {r} : phase'[q] = phase[q]
      BY <1>1, <1>3, GotoPhase
    <2> USE DEF p
    <2>2. HistoryExplainsState' /\ EventsFit' /\ ResolutionsFit'
      BY <1>1, <2>1, HistoryKept
    <2>3. TypeOK'
      BY <1>1, <2>1 DEF HistoryInv, TypeOK, tables, world
    <2>4. AnsweredAtEnd' /\ LocksFit' /\ OneHolder' /\ KindsFit'
      BY <1>1, <2>1 DEF HistoryInv, AnsweredAtEnd, LocksFit, OneHolder, KindsFit, Holding, Held, Commenting
    <2>5. Current' /\ Checked' /\ Rights'
      BY <1>1, <2>1 DEF HistoryInv, Current, Checked, Rights, Holding, Held, tables, world
    <2> QED BY <2>2, <2>3, <2>4, <2>5 DEF HistoryInv
  <1> QED BY <1>2, <1>3 DEF Arrive, Refuse

(* To lock is to be alone with the finding, and to load what is stored.    *)
LEMMA LockFindingHistory == ASSUME HistoryInv, NEW r \in Requests, LockFinding(r) PROVE HistoryInv'
  <1>1. /\ phase[r] = "lock" /\ Free(request[r].finding, r)
        /\ phase' = [phase EXCEPT ![r] = "recheck"]
        /\ locks' = [locks EXCEPT ![r] = @ \cup {request[r].finding}]
        /\ loaded' = [loaded EXCEPT ![r] = findings[request[r].finding]]
        /\ deposed' \subseteq deposed \cup {r}
        /\ UNCHANGED <<tables, world, request, granted, reply>>
    BY DEF LockFinding
  <1>2. TypeOK
    BY DEF HistoryInv
  <1>3. request[r].finding \in Findings
    BY <1>2 DEF TypeOK, Request
  <1>4. /\ phase'[r] = "recheck" /\ locks'[r] = {Held(r)} /\ loaded'[r] = findings[Held(r)]
        /\ \A q \in Requests \ {r} : /\ phase'[q] = phase[q] /\ locks'[q] = locks[q]
                                     /\ loaded'[q] = loaded[q]
    BY <1>1, <1>2 DEF HistoryInv, LocksFit, Holding, TypeOK, Held
  <1>5. TypeOK'
    BY <1>1, <1>2, <1>3 DEF TypeOK, Phase, tables, world
  <1>6. HistoryExplainsState' /\ EventsFit' /\ ResolutionsFit'
    BY <1>1, HistoryKept
  <1>7. AnsweredAtEnd' /\ LocksFit' /\ KindsFit'
    <2>1. AnsweredAtEnd'
      BY <1>1, <1>4 DEF HistoryInv, AnsweredAtEnd
    <2>2. LocksFit'
      BY <1>1, <1>4 DEF HistoryInv, LocksFit, Holding, Held
    <2>3. KindsFit'
      BY <1>1, <1>4 DEF HistoryInv, KindsFit, Holding, Commenting
    <2> QED BY <2>1, <2>2, <2>3
  <1>8. OneHolder'
    <2>1. \A q \in Requests \ {r} : ~(Holding(q) /\ Held(q) = Held(r))
      BY <1>1 DEF HistoryInv, LocksFit, Free, Held
    <2> QED BY <1>1, <1>4, <2>1 DEF HistoryInv, OneHolder, Holding, Held
  <1>9. Current' /\ Checked' /\ Rights'
    BY <1>1, <1>4 DEF HistoryInv, Current, Checked, Rights, Holding, Held, tables, world
  <1> QED BY <1>5, <1>6, <1>7, <1>8, <1>9 DEF HistoryInv

(* The permissions found after the lock wait are those of a row the user   *)
(* has had.                                                                *)
LEMMA RecheckHistory == ASSUME HistoryInv, NEW r \in Requests, Recheck(r) PROVE HistoryInv'
  <1>1. phase[r] = "recheck" /\ UNCHANGED <<tables, world, request, loaded, deposed>>
    BY DEF Recheck, Refuse
  <1>2. CASE Finish(r, "rejected") /\ UNCHANGED granted
    BY <1>1, <1>2, FailureHistory
  <1>3. CASE /\ Goto(r, "checks")
             /\ granted' = [granted EXCEPT ![r] = RolePermissions[members[request[r].actor].role]]
    <2>1. TypeOK /\ request[r].actor \in Users
      BY DEF HistoryInv, TypeOK, Request
    <2>2. /\ phase' \in [Requests -> Phase] /\ phase'[r] = "checks" /\ UNCHANGED <<locks, reply>>
          /\ reply[r] = "none"
          /\ \A q \in Requests \ {r} : phase'[q] = phase[q]
      BY <1>1, <1>3, GotoPhase DEF Phase
    <2>3. HistoryExplainsState' /\ EventsFit' /\ ResolutionsFit'
      BY <1>1, <2>2, HistoryKept
    <2>4. RolePermissions \in [Roles -> SUBSET Permission]
      BY DEF RolePermissions, Permission, OrgAdminPermissions, ApManagerPermissions, MemberPermissions, Roles
    <2>5. TypeOK'
      <3>1. members[request[r].actor].role \in Roles
        BY <2>1 DEF TypeOK, Membership
      <3>2. granted' \in [Requests -> SUBSET Permission]
        BY <1>3, <2>1, <2>4, <3>1 DEF TypeOK
      <3> QED BY <1>1, <2>1, <2>2, <3>2 DEF TypeOK, tables, world
    <2>6. AnsweredAtEnd' /\ LocksFit' /\ OneHolder' /\ KindsFit'
      BY <1>1, <2>2 DEF HistoryInv, AnsweredAtEnd, LocksFit, OneHolder, KindsFit, Holding, Held, Commenting
    <2>7. Current' /\ Checked'
      BY <1>1, <1>3, <2>1, <2>2 DEF HistoryInv, TypeOK, Current, Checked, Holding, Held, tables
    <2>8. Rights'
      <3>1. granted'[r] = RolePermissions[members[request[r].actor].role]
            /\ \A q \in Requests \ {r} : granted'[q] = granted[q]
        BY <1>3, <2>1 DEF TypeOK
      <3>2. members[request[r].actor] \in RowsOf(request[r].actor)
        BY <2>1 DEF HistoryInv, Rights
      <3> QED BY <1>1, <2>2, <3>1, <3>2 DEF HistoryInv, Rights, world
    <2> QED BY <2>3, <2>5, <2>6, <2>7, <2>8 DEF HistoryInv
  <1> QED BY <1>2, <1>3 DEF Recheck, Refuse

(* The service's checks, on the row the request has locked, hold at its    *)
(* commit.                                                                 *)
LEMMA CheckHistory == ASSUME HistoryInv, NEW r \in Requests, Check(r) PROVE HistoryInv'
  <1>1. phase[r] = "checks" /\ UNCHANGED <<tables, world, request, loaded, granted, deposed>>
    BY DEF Check, Refuse
  <1>2. CASE Finish(r, "rejected")
    BY <1>1, <1>2, FailureHistory
  <1>3. CASE ServiceAllows(r) /\ Goto(r, "commit")
    <2>1. /\ phase' \in [Requests -> Phase] /\ phase'[r] = "commit" /\ UNCHANGED <<locks, reply>>
          /\ reply[r] = "none"
          /\ \A q \in Requests \ {r} : phase'[q] = phase[q]
      BY <1>1, <1>3, GotoPhase DEF Phase
    <2>2. HistoryExplainsState' /\ EventsFit' /\ ResolutionsFit'
      BY <1>1, <2>1, HistoryKept
    <2>3. TypeOK'
      BY <1>1, <2>1 DEF HistoryInv, TypeOK, tables, world
    <2>4. AnsweredAtEnd' /\ LocksFit' /\ OneHolder' /\ KindsFit'
      BY <1>1, <2>1 DEF HistoryInv, AnsweredAtEnd, LocksFit, OneHolder, KindsFit, Holding, Held, Commenting
    <2>5. Current' /\ Rights'
      BY <1>1, <2>1 DEF HistoryInv, Current, Rights, Holding, Held, tables, world
    <2>6. Allowed(request[r], loaded[r], granted[r])
      <3>1. request[r].kind \in {"MANAGE", "TRANSITION"}
        BY <1>1 DEF HistoryInv, TypeOK, Request, Kind, KindsFit, Commenting, Holding
      <3>2. CASE request[r].kind = "MANAGE"
        BY <1>3, <3>2 DEF ServiceAllows, Allowed
      <3>3. CASE request[r].kind = "TRANSITION"
        BY <1>3, <3>3 DEF ServiceAllows, Allowed, MayMove
      <3> QED BY <3>1, <3>2, <3>3
    <2>7. Checked'
      BY <1>1, <2>1, <2>6 DEF HistoryInv, Checked
    <2> QED BY <2>2, <2>3, <2>4, <2>5, <2>7 DEF HistoryInv
  <1> QED BY <1>2, <1>3 DEF Check, Refuse

(* The world around a finding may change whenever it likes.                *)
LEMMA WorldHistory ==
  ASSUME HistoryInv, NEW u \in Users, Govern(u) \/ SignOut(u)
  PROVE  HistoryInv'
  <1>1. /\ UNCHANGED <<tables, request, phase, loaded, granted, locks, reply>>
        /\ deposed' \subseteq deposed /\ signedIn' \subseteq signedIn
    BY DEF Govern, SignOut
  <1>2. /\ members' \in [Users -> Membership]
        /\ \A v \in Users : members'[v] \in RowsOf(v)
    <2>1. TypeOK /\ \A v \in Users : members[v] \in RowsOf(v) /\ Rows[v] \subseteq Membership
      BY MembershipAssumption DEF HistoryInv, Rights
    <2>2. CASE SignOut(u)
      BY <2>1, <2>2 DEF SignOut, TypeOK
    <2>3. CASE Govern(u)
      <3> PICK row \in Rows[u] : members' = [members EXCEPT ![u] = row]
        BY <2>3 DEF Govern
      <3> QED BY <2>1 DEF TypeOK, RowsOf
    <2> QED BY <2>2, <2>3
  <1>3. TypeOK'
    BY <1>1, <1>2 DEF HistoryInv, TypeOK, tables
  <1>4. HistoryExplainsState' /\ EventsFit' /\ ResolutionsFit'
    BY <1>1, HistoryKept
  <1>5. AnsweredAtEnd' /\ LocksFit' /\ OneHolder' /\ KindsFit' /\ Current' /\ Checked'
    BY <1>1 DEF HistoryInv, AnsweredAtEnd, LocksFit, OneHolder, KindsFit, Current, Checked,
                Holding, Held, Commenting, tables
  <1>6. Rights'
    BY <1>1, <1>2 DEF HistoryInv, Rights
  <1> QED BY <1>3, <1>4, <1>5, <1>6 DEF HistoryInv

(* What a flush of a current row writes.                                   *)
LEMMA WrittenAll ==
  ASSUME NEW row \in Finding, NEW new \in Finding
  PROVE  Written(row, row, new) = new
  <1>1. DOMAIN row = DOMAIN new /\ \A c \in DOMAIN row : new[c] = row[c] => row[c] = new[c]
    BY DEF Finding
  <1>2. Written(row, row, new) = [c \in DOMAIN new |-> new[c]]
    BY <1>1 DEF Written
  <1>3. [c \in DOMAIN new |-> new[c]] = new
    BY DEF Finding
  <1> QED BY <1>2, <1>3

(* A row, field by field.                                              *)
Row(s, a, d, e, u, n, v) ==
    [status |-> s, assignee |-> a, due |-> d, reminder |-> e, resolver |-> u, note |-> n,
     version |-> v]
(* A row is its columns.                                                   *)
LEMMA RowIs ==
  ASSUME NEW row \in Finding
  PROVE  row = Row(row.status, row.assignee, row.due, row.reminder, row.resolver, row.note,
                   row.version)
  BY DEF Row, Finding

(* The rows a managing request and a transition make, at a version.        *)
ManagedRow(m, row, v) ==
    Row(row.status, Given(m.assignee, row.assignee), Given(m.due, row.due),
        Given(m.reminder, row.reminder), row.resolver, row.note, v)
(* Managed and Moved make these rows, and the commit counts one version.   *)
LEMMA ManagedIs ==
  ASSUME NEW m \in Request, NEW row \in Finding
  PROVE  /\ Managed(m, row) = ManagedRow(m, row, row.version)
         /\ [Managed(m, row) EXCEPT !.version = @ + 1] = ManagedRow(m, row, row.version + 1)
         /\ ManagedRow(m, row, row.version + 1) \in Finding
  <1> DEFINE a == Given(m.assignee, row.assignee)
             d == Given(m.due, row.due)
             e == Given(m.reminder, row.reminder)
  <1>1. Managed(m, row) = [[[row EXCEPT !.assignee = a] EXCEPT !.due = d] EXCEPT !.reminder = e]
    BY DEF Managed
  <1>2. ManagedRow(m, row, row.version + 1) \in Finding
    BY DEF ManagedRow, Row, Finding, Request, Given
  <1>3. ManagedRow(m, row, row.version)
          = Row(row.status, a, d, e, row.resolver, row.note, row.version)
    BY DEF ManagedRow
  <1>4. ManagedRow(m, row, row.version + 1)
          = Row(row.status, a, d, e, row.resolver, row.note, row.version + 1)
    BY DEF ManagedRow
  <1> HIDE DEF a, d, e
  <1>5. Managed(m, row) = Row(row.status, a, d, e, row.resolver, row.note, row.version)
    <2>1. row = Row(row.status, row.assignee, row.due, row.reminder, row.resolver, row.note, row.version)
      BY RowIs
    <2>2. [Row(row.status, row.assignee, row.due, row.reminder, row.resolver, row.note, row.version)
              EXCEPT !.assignee = a]
            = Row(row.status, a, row.due, row.reminder, row.resolver, row.note, row.version)
      BY DEF Row
    <2>3. [Row(row.status, a, row.due, row.reminder, row.resolver, row.note, row.version)
              EXCEPT !.due = d]
            = Row(row.status, a, d, row.reminder, row.resolver, row.note, row.version)
      BY DEF Row
    <2>4. [Row(row.status, a, d, row.reminder, row.resolver, row.note, row.version)
              EXCEPT !.reminder = e]
            = Row(row.status, a, d, e, row.resolver, row.note, row.version)
      BY DEF Row
    <2> QED BY <1>1, <2>1, <2>2, <2>3, <2>4
  <1>6. [Managed(m, row) EXCEPT !.version = @ + 1]
          = Row(row.status, a, d, e, row.resolver, row.note, row.version + 1)
    <2>1. [Row(row.status, a, d, e, row.resolver, row.note, row.version) EXCEPT !.version = @ + 1]
            = Row(row.status, a, d, e, row.resolver, row.note, row.version + 1)
      BY DEF Row
    <2> QED BY <1>5, <2>1
  <1> QED BY <1>2, <1>3, <1>4, <1>5, <1>6

(* The row a transition makes.                                             *)
MovedRow(m, row, v) ==
    Row(m.target, row.assignee, row.due, row.reminder,
        IF m.target = "RESOLVED" THEN m.actor
        ELSE IF row.status = "RESOLVED" THEN None ELSE row.resolver,
        IF m.target = "RESOLVED" THEN m.note
        ELSE IF row.status = "RESOLVED" THEN None ELSE row.note,
        v)
LEMMA MovedIs ==
  ASSUME NEW m \in Request, NEW row \in Finding
  PROVE  /\ Moved(m, row) = MovedRow(m, row, row.version)
         /\ [Moved(m, row) EXCEPT !.version = @ + 1] = MovedRow(m, row, row.version + 1)
         /\ MovedRow(m, row, row.version + 1) \in Finding
  <1> DEFINE u == IF m.target = "RESOLVED" THEN m.actor
                  ELSE IF row.status = "RESOLVED" THEN None ELSE row.resolver
             n == IF m.target = "RESOLVED" THEN m.note
                  ELSE IF row.status = "RESOLVED" THEN None ELSE row.note
  <1>1. Moved(m, row) = [[[row EXCEPT !.status = m.target] EXCEPT !.resolver = u] EXCEPT !.note = n]
    BY DEF Moved
  <1>2. MovedRow(m, row, row.version + 1) \in Finding
    BY DEF MovedRow, Row, Finding, Request
  <1>3. MovedRow(m, row, row.version)
          = Row(m.target, row.assignee, row.due, row.reminder, u, n, row.version)
    BY DEF MovedRow
  <1>4. MovedRow(m, row, row.version + 1)
          = Row(m.target, row.assignee, row.due, row.reminder, u, n, row.version + 1)
    BY DEF MovedRow
  <1> HIDE DEF u, n
  <1>5. Moved(m, row) = Row(m.target, row.assignee, row.due, row.reminder, u, n, row.version)
    <2>1. row = Row(row.status, row.assignee, row.due, row.reminder, row.resolver, row.note, row.version)
      BY RowIs
    <2>2. [Row(row.status, row.assignee, row.due, row.reminder, row.resolver, row.note, row.version)
              EXCEPT !.status = m.target]
            = Row(m.target, row.assignee, row.due, row.reminder, row.resolver, row.note, row.version)
      BY DEF Row
    <2>3. [Row(m.target, row.assignee, row.due, row.reminder, row.resolver, row.note, row.version)
              EXCEPT !.resolver = u]
            = Row(m.target, row.assignee, row.due, row.reminder, u, row.note, row.version)
      BY DEF Row
    <2>4. [Row(m.target, row.assignee, row.due, row.reminder, u, row.note, row.version)
              EXCEPT !.note = n]
            = Row(m.target, row.assignee, row.due, row.reminder, u, n, row.version)
      BY DEF Row
    <2> QED BY <1>1, <2>1, <2>2, <2>3, <2>4
  <1>6. [Moved(m, row) EXCEPT !.version = @ + 1]
          = Row(m.target, row.assignee, row.due, row.reminder, u, n, row.version + 1)
    <2>1. [Row(m.target, row.assignee, row.due, row.reminder, u, n, row.version)
              EXCEPT !.version = @ + 1]
            = Row(m.target, row.assignee, row.due, row.reminder, u, n, row.version + 1)
      BY DEF Row
    <2> QED BY <1>5, <2>1
  <1> QED BY <1>2, <1>3, <1>4, <1>5, <1>6

(* An event, column by column.                                             *)
EventRow(r, type, value, before, after, message) ==
    [finding |-> request[r].finding, type |-> type, actor |-> request[r].actor,
     value |-> value, before |-> before, after |-> after, message |-> message, by |-> r]
(* The events of an edit carry the version it saw and the next.            *)
LEMMA EventRows ==
  ASSUME TypeOK, NEW r \in Requests, NEW type \in EventType, NEW message \in Notes \cup {None},
         NEW value \in Users \cup Dates \cup Status \cup {None}
  PROVE  /\ EventOf(r, type, value, message)
                = EventRow(r, type, value, request[r].seen, loaded[r].version + 1, message)
         /\ EventOf(r, type, value, message) \in Event
  <1>1. EventOf(r, type, value, message)
          = EventRow(r, type, value, request[r].seen, loaded[r].version + 1, message)
    BY DEF EventOf, EventRow
  <1>2. /\ request[r].seen \in Nat /\ loaded[r].version + 1 \in Nat
        /\ request[r].finding \in Findings /\ request[r].actor \in Users
    BY DEF TypeOK, Request, Finding
  <1>3. EventRow(r, type, value, request[r].seen, loaded[r].version + 1, message) \in Event
    BY <1>2 DEF EventRow, Event
  <1> QED BY <1>1, <1>3

(* The event of a comment has no versions.                                 *)
LEMMA CommentRow ==
  ASSUME TypeOK, NEW r \in Requests
  PROVE  LET row == EventRow(r, "COMMENT_ADDED", None, 0, 0, request[r].note)
         IN  /\ [EventOf(r, "COMMENT_ADDED", None, request[r].note) EXCEPT !.before = 0, !.after = 0]
                    = row
             /\ row \in Event
  <1> DEFINE note == request[r].note
             told == EventRow(r, "COMMENT_ADDED", None, request[r].seen, loaded[r].version + 1, note)
             half == EventRow(r, "COMMENT_ADDED", None, 0, loaded[r].version + 1, note)
             row == EventRow(r, "COMMENT_ADDED", None, 0, 0, note)
  <1>1. EventOf(r, "COMMENT_ADDED", None, note) = told
    BY DEF EventOf, EventRow
  <1>2. [told EXCEPT !.before = 0] = half
    BY DEF EventRow
  <1>3. [half EXCEPT !.after = 0] = row
    BY DEF EventRow
  <1>4. /\ request[r].finding \in Findings /\ request[r].actor \in Users
        /\ note \in Notes \cup {None}
    BY DEF TypeOK, Request
  <1>5. row \in Event
    BY <1>4 DEF EventRow, Event, EventType
  <1> HIDE DEF told, half, row
  <1>6. [EventOf(r, "COMMENT_ADDED", None, note) EXCEPT !.before = 0, !.after = 0] = row
    BY <1>1, <1>2, <1>3
  <1> USE DEF row
  <1> QED BY <1>5, <1>6

(* A request that succeeds, once its finding is told.                      *)
Success(r) ==
    /\ Grows /\ Fresh # {} /\ \A n \in Fresh : events'[n].by = r
    /\ phase[r] \in {"insert", "commit"} /\ Finish(r, "ok")
    /\ UNCHANGED <<world, request, loaded, granted, deposed>>
    /\ findings' \in [Findings -> Finding]
    /\ \A f \in Findings : findings'[f] = findings[f] \/ (Holding(r) /\ f = Held(r))
(* Then every conjunct of the invariant is kept.                           *)
LEMMA SuccessHistory ==
  ASSUME HistoryInv, NEW r \in Requests, Success(r), ResolutionsFit',
         \A n \in Fresh : MoveFits(n)',
         \A f \in Findings : Told(f)'
  PROVE  HistoryInv'
  <1>1. /\ TypeOK /\ phase[r] # "done" /\ reply[r] = "none"
        /\ RepliesTold
    BY HistoryParts DEF HistoryInv, AnsweredAtEnd, Success
  <1>2. /\ phase'[r] = "done" /\ locks'[r] = {} /\ reply'[r] = "ok"
        /\ \A q \in Requests \ {r} : /\ phase'[q] = phase[q] /\ locks'[q] = locks[q]
                                     /\ reply'[q] = reply[q]
    BY <1>1 DEF Success, Finish, TypeOK
  <1>3. TypeOK'
    BY <1>1 DEF Success, Grows, TypeOK, Finish, Phase, Reply, world
  <1>4. EventsFit'
    <2> SUFFICES ASSUME NEW n \in DOMAIN events' PROVE MoveFits(n)'
      BY DEF EventsFit
    <2>1. CASE n \in DOMAIN events
      <3>1. MoveFits(n) /\ events'[n] = events[n]
        BY <2>1, Growth DEF HistoryInv, EventsFit, Success
      <3>2. \A f : Moves(f) \subseteq Moves(f)'
        BY TrailGrows DEF Moves, Success
      <3> QED BY <3>1, <3>2 DEF MoveFits
    <2>2. CASE n \in Fresh
      BY <2>2
    <2> QED BY <2>1, <2>2, Growth DEF Success
  <1>5. RepliesTold'
    <2>1. \A q \in Requests \ {r} : (\E n \in DOMAIN events' : events'[n].by = q)
                <=> (\E n \in DOMAIN events : events[n].by = q)
      BY Growth DEF Success
    <2>2. \E n \in DOMAIN events' : events'[n].by = r
      BY Growth DEF Success
    <2> QED BY <1>1, <1>2, <2>1, <2>2 DEF RepliesTold
  <1>6. HistoryExplainsState'
    <2>1. (HistoryExplainsState <=> RepliesTold /\ \A f \in Findings : Told(f))'
      BY HistoryParts, PTL
    <2> QED BY <1>5, <2>1
  <1>7. AnsweredAtEnd'
    BY <1>2 DEF HistoryInv, AnsweredAtEnd
  <1>8. LocksFit' /\ OneHolder' /\ KindsFit'
    BY <1>2 DEF HistoryInv, Success, LocksFit, OneHolder, KindsFit, Holding, Held, Commenting
  <1>9. Current'
    <2> SUFFICES ASSUME NEW q \in Requests, Holding(q)' PROVE loaded'[q] = findings'[Held(q)']
      BY DEF Current
    <2>1. q # r /\ Holding(q) /\ Held(q)' = Held(q) /\ Held(q) \in Findings
      BY <1>1, <1>2 DEF Holding, Held, Success, TypeOK, Request
    <2>2. ~(Holding(r) /\ Held(q) = Held(r))
      BY <2>1 DEF HistoryInv, OneHolder
    <2>3. findings'[Held(q)] = findings[Held(q)]
      BY <2>1, <2>2 DEF Success
    <2> QED BY <2>1, <2>3 DEF HistoryInv, Current, Success
  <1>10. Checked'
    BY <1>2 DEF HistoryInv, Checked, Success
  <1>11. Rights'
    BY <1>2 DEF HistoryInv, Rights, Success, world
  <1> QED BY <1>3, <1>4, <1>6, <1>7, <1>8, <1>9, <1>10, <1>11 DEF HistoryInv

(* A comment adds to the timeline and tells nothing of the row.            *)
LEMMA CommentHistory == ASSUME HistoryInv, NEW r \in Requests, Comment(r) PROVE HistoryInv'
  <1> DEFINE note == request[r].note
             e == EventRow(r, "COMMENT_ADDED", None, 0, 0, note)
  <1>1. TypeOK /\ note \in Notes \cup {None}
    BY DEF HistoryInv, TypeOK, Request
  <1>2. e \in Event /\ events' = Append(events, e)
    <2>1. events' = Append(events, [EventOf(r, "COMMENT_ADDED", None, note)
                                        EXCEPT !.before = 0, !.after = 0])
      BY DEF Comment
    <2> QED BY <1>1, <2>1, CommentRow
  <1>3. e.type = "COMMENT_ADDED" /\ e.by = r
    BY DEF EventRow
  <1> HIDE DEF e
  <1>4. Grows /\ Fresh = {Len(events) + 1} /\ events'[Len(events) + 1] = e
    BY <1>1, <1>2, OneMore DEF TypeOK
  <1>5. Success(r)
    BY <1>1, <1>3, <1>4 DEF Success, Comment, TypeOK
  <1>6. \A f \in Findings : Told(f)'
    <2>1. \A f \in Findings : Told(f)
      BY HistoryParts DEF HistoryInv
    <2>2. \A f \in Findings : findings'[f] = findings[f]
      BY DEF Comment
    <2>3. \A n \in Fresh : events'[n].type = "COMMENT_ADDED"
      BY <1>3, <1>4
    <2> QED BY <1>4, <2>1, <2>2, <2>3, ToldKept
  <1>7. ResolutionsFit'
    BY DEF HistoryInv, ResolutionsFit, Comment
  <1>8. \A n \in Fresh : MoveFits(n)'
    BY <1>3, <1>4 DEF MoveTypes, MoveFits
  <1> QED BY <1>5, <1>6, <1>7, <1>8, SuccessHistory

(* A sequence of events at the end of the timeline.                        *)
LEMMA MoreEvents ==
  ASSUME events \in Seq(Event), NEW s \in Seq(Event), events' = events \o s
  PROVE  /\ Grows /\ Fresh = (Len(events) + 1)..(Len(events) + Len(s)) /\ Len(events) \in Nat
         /\ \A k \in 1..Len(s) : Len(events) + k \in Fresh /\ events'[Len(events) + k] = s[k]
         /\ \A n \in Fresh : n - Len(events) \in 1..Len(s) /\ events'[n] = s[n - Len(events)]
  <1>1. /\ Len(events) \in Nat /\ Len(s) \in Nat /\ Len(events') = Len(events) + Len(s)
        /\ events' \in Seq(Event)
        /\ \A k \in 1..Len(events) : events'[k] = events[k]
        /\ \A k \in 1..Len(s) : events'[Len(events) + k] = s[k]
    OBVIOUS
  <1>2. Grows /\ Fresh = (Len(events) + 1)..(Len(events) + Len(s))
    BY <1>1 DEF Grows, Fresh
  <1>3. \A n \in Fresh : n - Len(events) \in 1..Len(s) /\ n = Len(events) + (n - Len(events))
    BY <1>1, <1>2
  <1>4. \A k \in 1..Len(s) : Len(events) + k \in Fresh
    BY <1>1, <1>2
  <1> QED BY <1>1, <1>2, <1>3, <1>4

(* Two sequences, and what their concatenation holds where.                *)
LEMMA TwoParts ==
  ASSUME NEW a \in Seq(Event), NEW b \in Seq(Event)
  PROVE  /\ a \o b \in Seq(Event) /\ Len(a \o b) = Len(a) + Len(b)
         /\ \A k \in 1..Len(a) : (a \o b)[k] = a[k]
         /\ \A k \in 1..Len(b) : (a \o b)[Len(a) + k] = b[k]
         /\ Len(a) \in Nat /\ Len(b) \in Nat
  OBVIOUS

(* Three sequences of at most one event each.                              *)
LEMMA ThreeParts ==
  ASSUME NEW a \in Seq(Event), NEW b \in Seq(Event), NEW c \in Seq(Event)
  PROVE  LET s == a \o b \o c
         IN  /\ s \in Seq(Event) /\ Len(s) = Len(a) + Len(b) + Len(c)
             /\ \A k \in 1..Len(a) : s[k] = a[k]
             /\ \A k \in 1..Len(b) : s[Len(a) + k] = b[k]
             /\ \A k \in 1..Len(c) : s[Len(a) + Len(b) + k] = c[k]
  <1> DEFINE ab == a \o b
  <1>1. /\ ab \in Seq(Event) /\ Len(ab) = Len(a) + Len(b)
        /\ \A k \in 1..Len(a) : ab[k] = a[k]
        /\ \A k \in 1..Len(b) : ab[Len(a) + k] = b[k]
        /\ Len(a) \in Nat /\ Len(b) \in Nat /\ Len(c) \in Nat
    BY TwoParts
  <1> HIDE DEF ab
  <1>2. /\ ab \o c \in Seq(Event) /\ Len(ab \o c) = Len(ab) + Len(c)
        /\ \A k \in 1..Len(ab) : (ab \o c)[k] = ab[k]
        /\ \A k \in 1..Len(c) : (ab \o c)[Len(ab) + k] = c[k]
    BY <1>1, TwoParts
  <1>3. /\ \A k \in 1..Len(a) : (ab \o c)[k] = a[k]
        /\ \A k \in 1..Len(b) : (ab \o c)[Len(a) + k] = b[k]
        /\ \A k \in 1..Len(c) : (ab \o c)[Len(a) + Len(b) + k] = c[k]
    BY <1>1, <1>2
  <1> USE DEF ab
  <1> QED BY <1>1, <1>2, <1>3

(* A field that changes has one event, the others have none.               *)
OneEvent(s, type, was, is) ==
    IF is = was
    THEN \A k \in 1..Len(s) : s[k].type # type
    ELSE \E k \in 1..Len(s) :
            /\ s[k].type = type /\ s[k].value = is
            /\ \A j \in 1..Len(s) : s[j].type = type => j = k
(* The event of a field that changes.                                      *)
ManageRow(r, type, value) ==
    EventRow(r, type, value, request[r].seen, loaded[r].version + 1, None)

(* The events of a managing request: one for each field that changes.      *)
LEMMA ManageEventsAre ==
  ASSUME TypeOK, NEW r \in Requests, NEW new \in Finding
  PROVE  LET s == ManageEvents(r, new)
             old == loaded[r]
         IN  /\ s \in Seq(Event)
             /\ OneEvent(s, "ASSIGNEE_CHANGED", old.assignee, new.assignee)
             /\ OneEvent(s, "DUE_DATE_CHANGED", old.due, new.due)
             /\ OneEvent(s, "REMINDER_CHANGED", old.reminder, new.reminder)
             /\ \A k \in 1..Len(s) :
                    \E type \in ManageTypes : \E value : s[k] = ManageRow(r, type, value)
  <1> DEFINE old == loaded[r]
             a == IF new.assignee # old.assignee
                  THEN <<EventOf(r, "ASSIGNEE_CHANGED", new.assignee, None)>> ELSE <<>>
             b == IF new.due # old.due
                  THEN <<EventOf(r, "DUE_DATE_CHANGED", new.due, None)>> ELSE <<>>
             c == IF new.reminder # old.reminder
                  THEN <<EventOf(r, "REMINDER_CHANGED", new.reminder, None)>> ELSE <<>>
             ea == ManageRow(r, "ASSIGNEE_CHANGED", new.assignee)
             eb == ManageRow(r, "DUE_DATE_CHANGED", new.due)
             ec == ManageRow(r, "REMINDER_CHANGED", new.reminder)
             s == a \o b \o c
  <1>1. ManageEvents(r, new) = s
    BY DEF ManageEvents
  <1>2. /\ ea = EventOf(r, "ASSIGNEE_CHANGED", new.assignee, None) /\ ea \in Event
        /\ eb = EventOf(r, "DUE_DATE_CHANGED", new.due, None) /\ eb \in Event
        /\ ec = EventOf(r, "REMINDER_CHANGED", new.reminder, None) /\ ec \in Event
    <2>1. /\ {"ASSIGNEE_CHANGED", "DUE_DATE_CHANGED", "REMINDER_CHANGED"} \subseteq EventType
          /\ None \in Notes \cup {None}
          /\ {new.assignee, new.due, new.reminder} \subseteq Users \cup Dates \cup Status \cup {None}
      BY DEF EventType, Finding
    <2> QED BY <2>1, EventRows DEF ManageRow
  <1>3. /\ ea.type = "ASSIGNEE_CHANGED" /\ ea.value = new.assignee
        /\ eb.type = "DUE_DATE_CHANGED" /\ eb.value = new.due
        /\ ec.type = "REMINDER_CHANGED" /\ ec.value = new.reminder
    BY DEF ManageRow, EventRow
  <1> HIDE DEF ea, eb, ec
  <1>4. /\ a \in Seq(Event) /\ Len(a) = IF new.assignee # old.assignee THEN 1 ELSE 0
        /\ \A k \in 1..Len(a) : a[k] = ea
    BY <1>2
  <1>5. /\ b \in Seq(Event) /\ Len(b) = IF new.due # old.due THEN 1 ELSE 0
        /\ \A k \in 1..Len(b) : b[k] = eb
    BY <1>2
  <1>6. /\ c \in Seq(Event) /\ Len(c) = IF new.reminder # old.reminder THEN 1 ELSE 0
        /\ \A k \in 1..Len(c) : c[k] = ec
    BY <1>2
  <1> HIDE DEF a, b, c
  <1>7. /\ s \in Seq(Event) /\ Len(s) = Len(a) + Len(b) + Len(c)
        /\ \A k \in 1..Len(a) : s[k] = a[k]
        /\ \A k \in 1..Len(b) : s[Len(a) + k] = b[k]
        /\ \A k \in 1..Len(c) : s[Len(a) + Len(b) + k] = c[k]
    BY <1>4, <1>5, <1>6, ThreeParts
  <1> HIDE DEF s
  <1>8. /\ \A k \in 1..Len(a) : s[k] = ea
        /\ \A k \in (Len(a) + 1)..(Len(a) + Len(b)) : s[k] = eb
        /\ \A k \in (Len(a) + Len(b) + 1)..Len(s) : s[k] = ec
    <2>1. /\ Len(a) \in Nat /\ Len(b) \in Nat /\ Len(c) \in Nat
      BY <1>4, <1>5, <1>6
    <2>2. ASSUME NEW k \in (Len(a) + 1)..(Len(a) + Len(b)) PROVE s[k] = eb
      <3>1. k - Len(a) \in 1..Len(b) /\ Len(a) + (k - Len(a)) = k
        BY <2>1
      <3> QED BY <3>1, <1>5, <1>7
    <2>3. ASSUME NEW k \in (Len(a) + Len(b) + 1)..Len(s) PROVE s[k] = ec
      <3>1. /\ k - (Len(a) + Len(b)) \in 1..Len(c)
            /\ Len(a) + Len(b) + (k - (Len(a) + Len(b))) = k
        BY <2>1, <1>7
      <3> QED BY <3>1, <1>6, <1>7
    <2> QED BY <1>4, <1>7, <2>2, <2>3
  <1>9. \A k \in 1..Len(s) : \/ k \in 1..Len(a) \/ k \in (Len(a) + 1)..(Len(a) + Len(b))
                             \/ k \in (Len(a) + Len(b) + 1)..Len(s)
    BY <1>4, <1>5, <1>6, <1>7
  <1>10. OneEvent(s, "ASSIGNEE_CHANGED", old.assignee, new.assignee)
    <2>1. CASE new.assignee = old.assignee
      BY <1>3, <1>4, <1>8, <1>9, <2>1 DEF OneEvent
    <2>2. CASE new.assignee # old.assignee
      <3>1. 1 \in 1..Len(s) /\ s[1] = ea
        BY <1>4, <1>5, <1>6, <1>7, <1>8, <2>2
      <3>2. \A j \in 1..Len(s) : s[j].type = "ASSIGNEE_CHANGED" => j = 1
        BY <1>3, <1>4, <1>8, <1>9, <2>2
      <3> QED BY <1>3, <2>2, <3>1, <3>2 DEF OneEvent
    <2> QED BY <2>1, <2>2
  <1>11. OneEvent(s, "DUE_DATE_CHANGED", old.due, new.due)
    <2>1. CASE new.due = old.due
      BY <1>3, <1>4, <1>5, <1>8, <1>9, <2>1 DEF OneEvent
    <2>2. CASE new.due # old.due
      <3>1. Len(a) + 1 \in 1..Len(s) /\ s[Len(a) + 1] = eb
        BY <1>4, <1>5, <1>6, <1>7, <1>8, <2>2
      <3>2. \A j \in 1..Len(s) : s[j].type = "DUE_DATE_CHANGED" => j = Len(a) + 1
        BY <1>3, <1>4, <1>5, <1>8, <1>9, <2>2
      <3> QED BY <1>3, <2>2, <3>1, <3>2 DEF OneEvent
    <2> QED BY <2>1, <2>2
  <1>12. OneEvent(s, "REMINDER_CHANGED", old.reminder, new.reminder)
    <2>1. CASE new.reminder = old.reminder
      BY <1>3, <1>4, <1>5, <1>6, <1>7, <1>8, <1>9, <2>1 DEF OneEvent
    <2>2. CASE new.reminder # old.reminder
      <3>1. Len(s) \in 1..Len(s) /\ s[Len(s)] = ec
        BY <1>4, <1>5, <1>6, <1>7, <1>8, <2>2
      <3>2. \A j \in 1..Len(s) : s[j].type = "REMINDER_CHANGED" => j = Len(s)
        BY <1>3, <1>4, <1>5, <1>6, <1>7, <1>8, <1>9, <2>2
      <3> QED BY <1>3, <2>2, <3>1, <3>2 DEF OneEvent
    <2> QED BY <2>1, <2>2
  <1>13. \A k \in 1..Len(s) : \E type \in ManageTypes : \E value : s[k] = ManageRow(r, type, value)
    <2> SUFFICES ASSUME NEW k \in 1..Len(s) PROVE s[k] \in {ea, eb, ec}
      BY DEF ManageTypes, ea, eb, ec
    <2> QED BY <1>8, <1>9
  <1> QED BY <1>1, <1>7, <1>10, <1>11, <1>12, <1>13

(* What is so in front of a commit.                                        *)
LEMMA BeforeCommit ==
  ASSUME HistoryInv, NEW r \in Requests, phase[r] = "commit"
  PROVE  /\ TypeOK /\ Holding(r) /\ request[r] \in Request /\ Held(r) \in Findings
         /\ loaded[r] = findings[Held(r)] /\ findings[Held(r)] \in Finding
         /\ request[r].kind \in {"MANAGE", "TRANSITION"}
         /\ Allowed(request[r], loaded[r], granted[r])
         /\ ConstraintsAccept(findings[Held(r)]) /\ findings[Held(r)].version >= 1
         /\ Told(Held(r))
         /\ \A n \in DOMAIN events : events[n].by # r
  <1>1. TypeOK /\ Holding(r) /\ request[r] \in Request
    BY DEF HistoryInv, TypeOK, Holding
  <1>2. Held(r) \in Findings
    BY <1>1 DEF Request, Held
  <1>3. loaded[r] = findings[Held(r)] /\ findings[Held(r)] \in Finding
    BY <1>1, <1>2 DEF HistoryInv, Current, TypeOK
  <1>4. request[r].kind \in {"MANAGE", "TRANSITION"}
    BY <1>1 DEF HistoryInv, KindsFit, Commenting, Request, Kind
  <1>5. Told(Held(r)) /\ RepliesTold
    BY <1>2, HistoryParts DEF HistoryInv
  <1>6. \A n \in DOMAIN events : events[n].by # r
    BY <1>5 DEF HistoryInv, AnsweredAtEnd, RepliesTold
  <1> QED BY <1>1, <1>2, <1>3, <1>4, <1>5, <1>6 DEF HistoryInv, Checked, ResolutionsFit

(* A commit of a row and its events, whose finding is told.                *)
LEMMA CommitExplained ==
  ASSUME HistoryInv, NEW r \in Requests, phase[r] = "commit",
         NEW row \in Finding, ConstraintsAccept(row), row.version >= 1,
         findings' = [findings EXCEPT ![Held(r)] = row],
         Finish(r, "ok"), UNCHANGED <<world, request, loaded, granted, deposed>>,
         Grows, Fresh # {},
         \A n \in Fresh : events'[n].by = r /\ events'[n].finding = Held(r),
         \A n \in Fresh : MoveFits(n)',
         Told(Held(r))'
  PROVE  HistoryInv'
  <1>1. TypeOK /\ Holding(r) /\ Held(r) \in Findings
    BY BeforeCommit
  <1>2. /\ findings' \in [Findings -> Finding] /\ findings'[Held(r)] = row
        /\ \A f \in Findings \ {Held(r)} : findings'[f] = findings[f]
    BY <1>1 DEF TypeOK
  <1>3. Success(r)
    BY <1>1, <1>2 DEF Success
  <1>4. ResolutionsFit'
    <2>1. \A f \in Findings : ConstraintsAccept(findings'[f]) /\ findings'[f].version >= 1
      BY <1>2 DEF HistoryInv, ResolutionsFit
    <2> QED BY <2>1 DEF ResolutionsFit, ConstraintsAccept
  <1>5. ASSUME NEW f \in Findings PROVE Told(f)'
    <2>1. CASE f # Held(r)
      <3>1. Told(f)
        BY HistoryParts DEF HistoryInv
      <3> QED BY <1>2, <2>1, <3>1, ToldKept
    <2>2. CASE f = Held(r)
      <3> PICK h \in Findings : h = Held(r)
        BY <1>1
      <3>1. Held(r)' = h
        BY DEF Held
      <3> QED BY <2>2, <3>1 DEF Told, FieldsTold, StatusTold, VersionsTold, MovesTold
    <2> QED BY <2>1, <2>2
  <1> QED BY <1>3, <1>4, <1>5, SuccessHistory

(* Assignment and dates, under the finding's lock.                         *)
LEMMA ManageHistory ==
  ASSUME HistoryInv, NEW r \in Requests, Commit(r), request[r].kind = "MANAGE"
  PROVE  HistoryInv'
  <1> DEFINE m == request[r]
             old == loaded[r]
             new == Managed(m, old)
             bumped == [new EXCEPT !.version = @ + 1]
             row == ManagedRow(m, old, old.version + 1)
             s == ManageEvents(r, new)
  <1>1. phase[r] = "commit"
    BY DEF Commit
  <1>2. /\ TypeOK /\ Holding(r) /\ m \in Request /\ Held(r) \in Findings
        /\ old = findings[Held(r)] /\ old \in Finding
        /\ Allowed(m, old, granted[r])
        /\ ConstraintsAccept(old) /\ old.version >= 1
        /\ Told(Held(r))
        /\ \A n \in DOMAIN events : events[n].by # r
    BY <1>1, BeforeCommit
  <1>3. /\ new = ManagedRow(m, old, old.version) /\ bumped = row /\ row \in Finding
    BY <1>2, ManagedIs
  <1>4. Written(findings[Held(r)], old, bumped) = row
    <2> HIDE DEF old, bumped, row
    <2> QED BY <1>2, <1>3, WrittenAll
  <1>5. /\ row.status = old.status /\ row.resolver = old.resolver /\ row.note = old.note
        /\ row.version = old.version + 1
        /\ row.assignee = new.assignee /\ row.due = new.due /\ row.reminder = new.reminder
    BY <1>3 DEF ManagedRow, Row
  <1>6. new \in Finding
    BY <1>2, <1>3, <1>5 DEF ManagedRow, Row, Finding, Request, Given
  <1>7. ConstraintsAccept(row)
    <2> HIDE DEF row
    <2> QED BY <1>2, <1>5 DEF ConstraintsAccept
  <1>8. /\ findings' = [findings EXCEPT ![Held(r)] = row] /\ events' = events \o s
        /\ Finish(r, "ok") /\ UNCHANGED <<world, request, loaded, granted, deposed>>
    <2>1. IF ~ConstraintsAccept(Written(findings[Held(r)], old, bumped))
          THEN Finish(r, "error") /\ UNCHANGED tables
          ELSE /\ findings' = [findings EXCEPT ![Held(r)] = Written(findings[Held(r)], old, bumped)]
               /\ events' = events \o s
               /\ Finish(r, "ok")
      BY DEF Commit, Held
    <2>2. UNCHANGED <<world, request, loaded, granted, deposed>>
      BY DEF Commit
    <2> HIDE DEF row, bumped, old, s
    <2> QED BY <1>4, <1>7, <2>1, <2>2
  <1>9. /\ s \in Seq(Event)
        /\ OneEvent(s, "ASSIGNEE_CHANGED", old.assignee, new.assignee)
        /\ OneEvent(s, "DUE_DATE_CHANGED", old.due, new.due)
        /\ OneEvent(s, "REMINDER_CHANGED", old.reminder, new.reminder)
        /\ \A k \in 1..Len(s) : \E type \in ManageTypes : \E value : s[k] = ManageRow(r, type, value)
    BY <1>2, <1>6, ManageEventsAre
  <1> HIDE DEF s
  <1>10. /\ Grows /\ Fresh = (Len(events) + 1)..(Len(events) + Len(s)) /\ Len(events) \in Nat
         /\ \A k \in 1..Len(s) : Len(events) + k \in Fresh /\ events'[Len(events) + k] = s[k]
         /\ \A n \in Fresh : n - Len(events) \in 1..Len(s) /\ events'[n] = s[n - Len(events)]
    BY <1>2, <1>8, <1>9, MoreEvents DEF TypeOK
  <1>11. \A n \in Fresh : \E type \in ManageTypes : \E value : events'[n] = ManageRow(r, type, value)
    <2> SUFFICES ASSUME NEW n \in Fresh
                 PROVE  \E type \in ManageTypes : \E value : events'[n] = ManageRow(r, type, value)
      OBVIOUS
    <2> PICK k \in 1..Len(s) : events'[n] = s[k]
      BY <1>10
    <2> QED BY <1>9
  <1>12. ASSUME NEW n \in Fresh
         PROVE  /\ events'[n].finding = Held(r) /\ events'[n].type \in ManageTypes
                /\ events'[n].before = old.version /\ events'[n].after = old.version + 1
                /\ events'[n].by = r
    <2> PICK type \in ManageTypes : \E value : events'[n] = ManageRow(r, type, value)
      BY <1>11
    <2> PICK value : events'[n] = ManageRow(r, type, value)
      OBVIOUS
    <2>1. m.seen = old.version
      BY <1>2 DEF Allowed
    <2> QED BY <2>1 DEF ManageRow, EventRow, Held
  <1>13. ASSUME NEW type, NEW was, NEW is, OneEvent(s, type, was, is)
         PROVE  FieldEvent(Held(r), type, was, is)
    <2>1. CASE is = was
      <3>1. \A n \in Fresh : events'[n].type # type
        BY <1>10, <1>13, <2>1 DEF OneEvent
      <3> QED BY <2>1, <3>1 DEF FieldEvent
    <2>2. CASE is # was
      <3> PICK k \in 1..Len(s) :
            /\ s[k].type = type /\ s[k].value = is
            /\ \A j \in 1..Len(s) : s[j].type = type => j = k
        BY <1>13, <2>2 DEF OneEvent
      <3> PICK n \in Fresh : n = Len(events) + k /\ events'[n] = s[k]
        BY <1>10
      <3>1. events'[n].finding = Held(r)
        BY <1>12
      <3>2. \A j \in Fresh \ {n} : events'[j].type # type
        <4> SUFFICES ASSUME NEW j \in Fresh, events'[j].type = type PROVE j = n
          OBVIOUS
        <4>1. j - Len(events) = k
          BY <1>10
        <4>2. j \in Nat /\ k \in Nat
          BY <1>10
        <4> QED BY <1>10, <4>1, <4>2
      <3>3. TellsField(Held(r), type, is)
        BY <3>1, <3>2 DEF TellsField
      <3> QED BY <2>2, <3>3 DEF FieldEvent
    <2> QED BY <2>1, <2>2
  <1>14. Fresh # {}
    <2>1. \/ new.assignee # old.assignee \/ new.due # old.due \/ new.reminder # old.reminder
      <3>1. new # old
        BY <1>2 DEF Allowed
      <3>2. /\ new = Row(new.status, new.assignee, new.due, new.reminder, new.resolver, new.note, new.version)
            /\ old = Row(old.status, old.assignee, old.due, old.reminder, old.resolver, old.note, old.version)
        BY <1>2, <1>6, RowIs
      <3>3. /\ new.status = old.status /\ new.resolver = old.resolver
            /\ new.note = old.note /\ new.version = old.version
        BY <1>3 DEF ManagedRow, Row
      <3> HIDE DEF new, old
      <3> QED BY <3>1, <3>2, <3>3
    <2> HIDE DEF new, old
    <2>2. Len(s) # 0
      BY <1>9, <2>1 DEF OneEvent
    <2>3. 1 \in 1..Len(s)
      BY <1>9, <2>2
    <2> QED BY <1>10, <2>3
  <1>15. Told(Held(r))'
    <2> PICK f \in Findings : f = Held(r)
      BY <1>2
    <2>1. Held(r)' = f
      BY <1>8 DEF Held
    <2>2. /\ findings'[f] = row /\ findings[f] = old
      BY <1>2, <1>8 DEF TypeOK
    <2>3. EditEvents(f, r, findings[f].version)
      BY <1>12, <1>14, <2>2 DEF EditEvents, ManageTypes, EventType
    <2>4. /\ FieldEvent(f, "ASSIGNEE_CHANGED", findings[f].assignee, findings'[f].assignee)
          /\ FieldEvent(f, "DUE_DATE_CHANGED", findings[f].due, findings'[f].due)
          /\ FieldEvent(f, "REMINDER_CHANGED", findings[f].reminder, findings'[f].reminder)
      BY <1>5, <1>9, <1>13, <2>2
    <2>5. /\ findings[f].version \in Nat /\ findings[f].version >= 1
          /\ findings'[f].version = findings[f].version + 1
          /\ findings'[f].status = findings[f].status
          /\ findings'[f].resolver = findings[f].resolver
          /\ findings'[f].note = findings[f].note
      BY <1>2, <1>5, <2>2 DEF Finding
    <2>6. Told(f)'
      BY <1>2, <1>10, <1>12, <2>3, <2>4, <2>5, ToldManaged
    <2> QED BY <2>1, <2>6 DEF Told, FieldsTold, StatusTold, VersionsTold, MovesTold
  <1>16. \A n \in Fresh : MoveFits(n)'
    BY <1>12 DEF ManageTypes, MoveTypes, MoveFits
  <1>17. row.version >= 1
    BY <1>2, <1>5 DEF Finding
  <1> HIDE DEF row
  <1> QED BY <1>1, <1>3, <1>7, <1>8, <1>10, <1>12, <1>14, <1>15, <1>16, <1>17, CommitExplained

(* A transition, under the finding's lock.                                 *)
LEMMA MoveHistory ==
  ASSUME HistoryInv, NEW r \in Requests, Commit(r), request[r].kind = "TRANSITION"
  PROVE  HistoryInv'
  <1> DEFINE m == request[r]
             old == loaded[r]
             new == Moved(m, old)
             bumped == [new EXCEPT !.version = @ + 1]
             row == MovedRow(m, old, old.version + 1)
             type == IF m.target = "RESOLVED" THEN "RESOLVED"
                     ELSE IF old.status = "RESOLVED" THEN "REOPENED" ELSE "STATUS_CHANGED"
             message == IF m.target = "RESOLVED" THEN m.note ELSE None
             e == EventRow(r, type, m.target, m.seen, old.version + 1, message)
             n == Len(events) + 1
  <1>1. phase[r] = "commit"
    BY DEF Commit
  <1>2. /\ TypeOK /\ Holding(r) /\ m \in Request /\ Held(r) \in Findings
        /\ old = findings[Held(r)] /\ old \in Finding
        /\ Allowed(m, old, granted[r])
        /\ ConstraintsAccept(old) /\ old.version >= 1
        /\ Told(Held(r))
        /\ \A k \in DOMAIN events : events[k].by # r
    BY <1>1, BeforeCommit
  <1>3. /\ bumped = row /\ row \in Finding
    BY <1>2, MovedIs
  <1>4. Written(findings[Held(r)], old, bumped) = row
    <2> HIDE DEF old, bumped, row
    <2> QED BY <1>2, <1>3, WrittenAll
  <1>5. /\ m.seen = old.version /\ m.target \in Transitions[old.status]
        /\ m.target = "RESOLVED" <=> m.note # None
        /\ "TRANSITION_ANY_FINDING" \in granted[r] \/ old.assignee = m.actor
    BY <1>2 DEF Allowed
  <1>6. /\ row.status = m.target /\ row.assignee = old.assignee /\ row.due = old.due
        /\ row.reminder = old.reminder /\ row.version = old.version + 1
        /\ IF m.target = "RESOLVED" THEN row.resolver = m.actor /\ row.note = m.note
                                    ELSE row.resolver = None /\ row.note = None
    <2>1. /\ row.status = m.target /\ row.assignee = old.assignee /\ row.due = old.due
          /\ row.reminder = old.reminder /\ row.version = old.version + 1
          /\ row.resolver = IF m.target = "RESOLVED" THEN m.actor
                            ELSE IF old.status = "RESOLVED" THEN None ELSE old.resolver
          /\ row.note = IF m.target = "RESOLVED" THEN m.note
                        ELSE IF old.status = "RESOLVED" THEN None ELSE old.note
      BY DEF MovedRow, Row
    <2>2. old.status # "RESOLVED" => old.resolver = None /\ old.note = None
      BY <1>2 DEF ConstraintsAccept
    <2> HIDE DEF row, old, m
    <2> QED BY <2>1, <2>2
  <1>7. ConstraintsAccept(row)
    <2>1. m.actor # None
      BY <1>2, ValueAssumption DEF Request
    <2> HIDE DEF row, old
    <2> QED BY <1>5, <1>6, <2>1 DEF ConstraintsAccept
  <1>8. MoveEvent(r) = e /\ e \in Event
    <2>1. type \in EventType /\ message \in Notes \cup {None} /\ m.target \in Status
      BY <1>2 DEF EventType, Request
    <2>2. MoveEvent(r) = EventOf(r, type, m.target, message)
      BY DEF MoveEvent
    <2> HIDE DEF type, message
    <2> QED BY <1>2, <2>1, <2>2, EventRows
  <1>9. /\ findings' = [findings EXCEPT ![Held(r)] = row] /\ events' = events \o <<MoveEvent(r)>>
        /\ Finish(r, "ok") /\ UNCHANGED <<world, request, loaded, granted, deposed>>
    <2>1. IF ~ConstraintsAccept(Written(findings[Held(r)], old, bumped))
          THEN Finish(r, "error") /\ UNCHANGED tables
          ELSE /\ findings' = [findings EXCEPT ![Held(r)] = Written(findings[Held(r)], old, bumped)]
               /\ events' = events \o <<MoveEvent(r)>>
               /\ Finish(r, "ok")
      BY DEF Commit, Held
    <2>2. UNCHANGED <<world, request, loaded, granted, deposed>>
      BY DEF Commit
    <2> HIDE DEF row, bumped, old
    <2> QED BY <1>4, <1>7, <2>1, <2>2
  <1>10. /\ e.finding = Held(r) /\ e.type = type /\ e.value = m.target /\ e.actor = m.actor
         /\ e.before = m.seen /\ e.after = old.version + 1 /\ e.message = message /\ e.by = r
    BY DEF EventRow, Held
  <1> HIDE DEF e
  <1>11. /\ Grows /\ Fresh = {n} /\ n \in Fresh /\ events'[n] = e
    <2> DEFINE s == <<e>>
    <2>1. s \in Seq(Event) /\ Len(s) = 1 /\ s[1] = e /\ events' = events \o s /\ events \in Seq(Event)
      BY <1>2, <1>8, <1>9 DEF TypeOK
    <2> HIDE DEF s
    <2>2. /\ Grows /\ Fresh = (Len(events) + 1)..(Len(events) + Len(s)) /\ Len(events) \in Nat
          /\ \A k \in 1..Len(s) : Len(events) + k \in Fresh /\ events'[Len(events) + k] = s[k]
      BY <2>1, MoreEvents
    <2>3. Fresh = {n}
      BY <2>1, <2>2
    <2>4. 1 \in 1..Len(s)
      BY <2>1
    <2>5. events'[Len(events) + 1] = s[1]
      BY <2>2, <2>4
    <2> QED BY <2>1, <2>2, <2>3, <2>5
  <1>12. /\ type \in MoveTypes /\ type \in EventType \ {"COMMENT_ADDED"}
         /\ m.target \in Status
         /\ type = "RESOLVED" <=> m.target = "RESOLVED"
    BY <1>2 DEF MoveTypes, EventType, Request
  <1>13. MovesOwnOnly(m.actor) => old.assignee = m.actor
    <2> PICK held \in RowsOf(m.actor) : granted[r] = RolePermissions[held.role]
      BY <1>1 DEF HistoryInv, Rights
    <2> QED BY <1>5 DEF MovesOwnOnly, RowsOf
  <1>14. Told(Held(r))'
    <2> PICK f \in Findings : f = Held(r)
      BY <1>2
    <2> PICK k \in Fresh : k = n /\ Fresh = {k} /\ events'[k] = e
      BY <1>11
    <2>1. Held(r)' = f
      BY <1>9 DEF Held
    <2>2. /\ findings'[f] = row /\ findings[f] = old
      BY <1>2, <1>9 DEF TypeOK
    <2>3. EditEvents(f, r, findings[f].version)
      BY <1>5, <1>10, <1>12, <2>2 DEF EditEvents
    <2>4. MoveRow(f, events'[k], findings'[f])
      <3> HIDE DEF row, old, type, message
      <3>1. IF type = "RESOLVED" THEN row.resolver = e.actor /\ row.note = e.message
                                 ELSE row.resolver = None /\ row.note = None
        BY <1>6, <1>10, <1>12 DEF message
      <3> QED BY <1>5, <1>6, <1>10, <1>12, <1>13, <2>2, <3>1 DEF MoveRow
    <2>5. /\ findings[f].version \in Nat /\ findings[f].version >= 1
          /\ findings'[f].version = findings[f].version + 1
          /\ findings'[f].assignee = findings[f].assignee
          /\ findings'[f].due = findings[f].due
          /\ findings'[f].reminder = findings[f].reminder
      BY <1>2, <1>6, <2>2 DEF Finding
    <2>6. Told(f)'
      BY <1>2, <1>11, <2>3, <2>4, <2>5, ToldMoved
    <2> QED BY <2>1, <2>6 DEF Told, FieldsTold, StatusTold, VersionsTold, MovesTold
  <1>15. row.version >= 1
    BY <1>2, <1>6 DEF Finding
  <1>16. Fresh # {} /\ \A k \in Fresh : events'[k].by = r /\ events'[k].finding = Held(r)
    BY <1>10, <1>11
  <1>17. \A k \in Fresh : MoveFits(k)'
    <2> SUFFICES ASSUME NEW k \in Fresh PROVE MoveFits(k)'
      OBVIOUS
    <2>1. events'[k] = e /\ k = n
      BY <1>11
    <2>2. type = "REOPENED" <=> m.target = "OPEN"
      BY <1>2, <1>5 DEF Transitions, Finding, Status
    <2>3. m.target = "OPEN" => old.status = "RESOLVED"
      BY <1>2, <1>5 DEF Transitions, Finding, Status
    <2>4. m.target = "OPEN" => \E i \in Moves(Held(r)) : i < n
      <3> SUFFICES ASSUME m.target = "OPEN" PROVE \E i \in Moves(Held(r)) : i < n
        OBVIOUS
      <3>1. Moves(Held(r)) # {}
        BY <1>2, <2>3 DEF Told, StatusTold
      <3>2. Moves(Held(r)) \subseteq DOMAIN events
        BY <1>2, TrailInEvents DEF Moves, TypeOK
      <3> QED BY <1>11, <3>1, <3>2, Growth
    <2>5. \A f : Moves(f) \subseteq Moves(f)'
      BY <1>11, TrailGrows DEF Moves
    <2>6. e.finding = Held(r) /\ e.type = type /\ e.value = m.target
      BY <1>10
    <2> HIDE DEF type
    <2> QED BY <1>12, <2>1, <2>2, <2>4, <2>5, <2>6 DEF MoveFits
  <1> HIDE DEF row
  <1> QED BY <1>1, <1>3, <1>7, <1>9, <1>11, <1>14, <1>15, <1>16, <1>17, CommitExplained

(* Every step keeps the timelines complete.                                *)
LEMMA NextHistory == ASSUME HistoryInv, [Next]_vars PROVE HistoryInv'
  <1>1. ASSUME NEW r \in Requests, Commit(r) PROVE HistoryInv'
    BY <1>1, BeforeCommit, ManageHistory, MoveHistory DEF Commit
  <1>2. ASSUME NEW r \in Requests, Rollback(r) PROVE HistoryInv'
    BY <1>2, FailureHistory DEF Rollback
  <1>3. CASE UNCHANGED vars
    <2>1. UNCHANGED <<tables, world, request, phase, loaded, granted, locks, reply, deposed>>
      BY <1>3 DEF vars
    <2>2. HistoryExplainsState' /\ EventsFit' /\ ResolutionsFit'
      BY <2>1, HistoryKept
    <2>3. TypeOK'
      BY <2>1 DEF HistoryInv, TypeOK, tables, world
    <2>4. AnsweredAtEnd' /\ LocksFit' /\ OneHolder' /\ KindsFit' /\ Current' /\ Checked' /\ Rights'
      BY <2>1 DEF HistoryInv, AnsweredAtEnd, LocksFit, OneHolder, KindsFit, Current, Checked,
                  Rights, Holding, Held, Commenting, tables, world
    <2> QED BY <2>2, <2>3, <2>4 DEF HistoryInv
  <1> QED BY <1>1, <1>2, <1>3, ArriveHistory, LockFindingHistory, RecheckHistory, CheckHistory,
             CommentHistory, WorldHistory DEF Next, Step

-----------------------------------------------------------------------------
(* What follows for the service.                                           *)

(* An editor who was deposed while it waited for another editor's lock,    *)
(* and was not reinstated, is never answered with a success, nor by a      *)
(* constraint its write has met: it writes nothing.                        *)
THEOREM TheDeposedAreRefused == Spec => []DeposedAreRefused
  <1>1. IInv => DeposedAreRefused
    BY DEF IInv, Stopped, DeposedAreRefused
  <1> QED BY <1>1, InitInv, NextInv, PTL DEF Spec

(* Rows, events, transactions and answers keep their shape.                *)
THEOREM TypeCorrect == Spec => []TypeOK
  <1>1. HistoryInv => TypeOK
    BY DEF HistoryInv
  <1> QED BY <1>1, InitHistory, NextHistory, PTL DEF Spec

(* Whatever editors do at once, the timeline of a finding explains every   *)
(* field of it; its versions are a chain without gaps or forks, each the   *)
(* work of one request; its status moved along allowed transitions, by a   *)
(* manager or by whom it was assigned to at that moment; and no write      *)
(* failed in a constraint.                                                 *)
THEOREM TheTimelineIsComplete == Spec => []HistoryExplainsState
  <1>1. HistoryInv => HistoryExplainsState
    BY DEF HistoryInv
  <1> QED BY <1>1, InitHistory, NextHistory, PTL DEF Spec

-----------------------------------------------------------------------------
(* Sums of sizes.                                                          *)

(* The element a sum over s takes first.                                   *)
AnyOf(s) == CHOOSE x \in s : TRUE

(* g sums up the sizes of the parts P[x] of every subset of S.             *)
SumsUp(g, P, S) ==
    g = [s \in SUBSET S |-> IF s = {} THEN 0
                            ELSE Cardinality(P[AnyOf(s)]) + g[s \ {AnyOf(s)}]]

(* Parts of a finite set that have nothing in common.                      *)
Parts(P, S, U) ==
    /\ IsFiniteSet(S) /\ IsFiniteSet(U)
    /\ \A x \in S : P[x] \subseteq U
    /\ \A x, y \in S : x # y => P[x] \cap P[y] = {}
AllOf(P, s) == UNION {P[x] : x \in s}

(* A property that fails for a subset of a finite set fails for one all    *)
(* smaller subsets have it of.                                             *)
LEMMA SmallestSubset ==
  ASSUME NEW S, IsFiniteSet(S), NEW Bad \in SUBSET (SUBSET S), Bad # {}
  PROVE  \E s \in Bad : \A t \in Bad : Cardinality(s) <= Cardinality(t)
  <1> DEFINE sizes == {Cardinality(s) : s \in Bad}
  <1>1. \A s \in Bad : Cardinality(s) \in Nat
    BY FS_Subset, FS_CardinalityType
  <1>2. sizes \in SUBSET Nat /\ sizes # {}
    BY <1>1
  <1>3. PICK k \in sizes : \A j \in sizes : k <= j
    BY <1>2, LeastExists
  <1> QED BY <1>3

(* Two finite sets that have nothing in common.                            *)
LEMMA TwoApart ==
  ASSUME NEW A, NEW B, IsFiniteSet(A), IsFiniteSet(B), A \cap B = {}
  PROVE  /\ IsFiniteSet(A \cup B)
         /\ Cardinality(A \cup B) = Cardinality(A) + Cardinality(B)
         /\ Cardinality(A) \in Nat /\ Cardinality(B) \in Nat
  <1>1. Cardinality(A) \in Nat /\ Cardinality(B) \in Nat /\ Cardinality({}) = 0
    BY FS_CardinalityType, FS_EmptySet
  <1>2. /\ IsFiniteSet(A \cup B)
        /\ Cardinality(A \cup B) = Cardinality(A) + Cardinality(B) - Cardinality(A \cap B)
    BY FS_Union, Zenon
  <1>3. Cardinality(A \cap B) = 0
    BY <1>1, Zenon
  <1> QED
    BY <1>1, <1>2, <1>3

(* The parts of a set without one of its elements.                         *)
LEMMA OnePart ==
  ASSUME NEW P, NEW S, NEW U, NEW s \in SUBSET S, NEW x \in s, Parts(P, S, U)
  PROVE  /\ Cardinality(AllOf(P, s)) = Cardinality(P[x]) + Cardinality(AllOf(P, s \ {x}))
         /\ Cardinality(AllOf(P, s)) \in Nat
         /\ IsFiniteSet(s) /\ Cardinality(s) \in Nat
         /\ Cardinality(s \ {x}) \in Nat /\ Cardinality(s \ {x}) < Cardinality(s)
  <1> DEFINE rest == AllOf(P, s \ {x})
  <1>1. AllOf(P, s) = P[x] \cup rest /\ P[x] \cap rest = {}
    BY DEF AllOf, Parts
  <1>2. IsFiniteSet(P[x]) /\ IsFiniteSet(rest)
    BY FS_Subset DEF AllOf, Parts
  <1>3. Cardinality(P[x]) \in Nat /\ Cardinality(rest) \in Nat /\ Cardinality({}) = 0
    BY <1>2, FS_CardinalityType, FS_EmptySet
  <1>4. IsFiniteSet(s)
    BY FS_Subset DEF Parts
  <1>5. IsFiniteSet(s \ {x}) /\ Cardinality(s \ {x}) = Cardinality(s) - 1
    BY <1>4, FS_RemoveElement
  <1>6. Cardinality(s) \in Nat /\ Cardinality(s \ {x}) \in Nat
    BY <1>4, <1>5, FS_CardinalityType
  <1>7. Cardinality(AllOf(P, s)) = Cardinality(P[x]) + Cardinality(rest)
    <2> HIDE DEF rest
    <2> DEFINE part == P[x]
    <2>1. IsFiniteSet(part) /\ IsFiniteSet(rest) /\ part \cap rest = {}
      BY <1>1, <1>2
    <2> HIDE DEF part
    <2>2. Cardinality(part \cup rest) = Cardinality(part) + Cardinality(rest)
      BY <2>1, TwoApart, Zenon
    <2> QED BY <1>1, <2>2, Zenon DEF part
  <1> QED BY <1>3, <1>4, <1>5, <1>6, <1>7 DEF rest

(* The sizes of parts sum up to the size of the whole.                     *)
LEMMA SumIsSize ==
  ASSUME NEW P, NEW S, NEW U, NEW g, Parts(P, S, U), SumsUp(g, P, S)
  PROVE  g[S] = Cardinality(AllOf(P, S))
  <1> DEFINE Bad == {s \in SUBSET S : g[s] # Cardinality(AllOf(P, s))}
  <1>1. SUFFICES ASSUME Bad # {} PROVE FALSE
    <2>1. S \in SUBSET S
      OBVIOUS
    <2> QED BY <2>1
  <1>2. PICK s \in Bad : \A t \in Bad : Cardinality(s) <= Cardinality(t)
    <2>1. Bad \in SUBSET (SUBSET S)
      OBVIOUS
    <2> HIDE DEF Bad
    <2> QED BY <1>1, <2>1, SmallestSubset DEF Parts
  <1>3. s \in SUBSET S /\ g[s] # Cardinality(AllOf(P, s))
    OBVIOUS
  <1>4. g[s] = IF s = {} THEN 0 ELSE Cardinality(P[AnyOf(s)]) + g[s \ {AnyOf(s)}]
    BY <1>3, Zenon DEF SumsUp
  <1>5. CASE s = {}
    <2>1. AllOf(P, s) = {}
      BY <1>5 DEF AllOf
    <2> QED BY <1>3, <1>4, <1>5, <2>1, FS_EmptySet
  <1>6. CASE s # {}
    <2> DEFINE x == AnyOf(s)
               rest == s \ {x}
    <2>1. x \in s
      BY <1>6 DEF AnyOf
    <2>2. rest \in SUBSET S
      BY <1>3
    <2>3. /\ Cardinality(AllOf(P, s)) = Cardinality(P[x]) + Cardinality(AllOf(P, rest))
          /\ Cardinality(rest) \in Nat /\ Cardinality(s) \in Nat
          /\ Cardinality(rest) < Cardinality(s)
      <3> HIDE DEF x, Bad
      <3>1. /\ Cardinality(AllOf(P, s)) = Cardinality(P[x]) + Cardinality(AllOf(P, s \ {x}))
            /\ IsFiniteSet(s) /\ Cardinality(s) \in Nat
            /\ Cardinality(s \ {x}) \in Nat /\ Cardinality(s \ {x}) < Cardinality(s)
        BY <1>3, <2>1, OnePart
      <3> QED BY <3>1, Zenon DEF rest
    <2> HIDE DEF rest
    <2>4. rest \notin Bad
      <3> HIDE DEF Bad
      <3> QED BY <1>2, <2>3
    <2>5. g[rest] = Cardinality(AllOf(P, rest))
      BY <2>2, <2>4
    <2> QED BY <1>3, <1>4, <1>6, <2>3, <2>5 DEF rest
  <1> QED BY <1>5, <1>6

(* And there is such a sum.                                                *)
LEMMA SumExists ==
  ASSUME NEW P, NEW S, NEW U, Parts(P, S, U)
  PROVE  \E g : SumsUp(g, P, S)
  <1> DEFINE size(s) == Cardinality(AllOf(P, s))
             g == [s \in SUBSET S |-> size(s)]
  <1>1. ASSUME NEW s \in SUBSET S
        PROVE  size(s) = IF s = {} THEN 0 ELSE Cardinality(P[AnyOf(s)]) + g[s \ {AnyOf(s)}]
    <2>1. CASE s = {}
      <3>1. AllOf(P, s) = {}
        BY <2>1 DEF AllOf
      <3> QED BY <2>1, <3>1, FS_EmptySet
    <2>2. CASE s # {}
      <3>1. AnyOf(s) \in s
        BY <2>2 DEF AnyOf
      <3>2. size(s) = Cardinality(P[AnyOf(s)]) + size(s \ {AnyOf(s)})
        BY <3>1, OnePart
      <3>3. s \ {AnyOf(s)} \in SUBSET S
        OBVIOUS
      <3> HIDE DEF size
      <3> QED BY <2>2, <3>2, <3>3
    <2> QED BY <2>1, <2>2
  <1>2. g = [s \in SUBSET S |-> IF s = {} THEN 0 ELSE Cardinality(P[AnyOf(s)]) + g[s \ {AnyOf(s)}]]
    <2>1. g = [s \in SUBSET S |-> size(s)]
      OBVIOUS
    <2> HIDE DEF g, size
    <2> QED BY <1>1, <2>1
  <1> HIDE DEF g
  <1>3. SumsUp(g, P, S)
    BY <1>2, Zenon DEF SumsUp
  <1> QED BY <1>3

-----------------------------------------------------------------------------
(* The backlog of resolved findings, hour by hour.                         *)

Past(f, h) == {n \in Moves(f) : n < h}
Up(S, h) == {n \in S : n < h}
(* Before every hour there is one resolved finding for each resolution     *)
(* that no reopening followed.                                             *)
Balanced(h) ==
    Cardinality(ResolvedBefore(h)) + Cardinality(Up(Reopenings, h))
        = Cardinality(Up(Resolutions, h))

(* What the type says of events.                                           *)
LEMMA EventsAre ==
  ASSUME TypeOK
  PROVE  /\ Len(events) \in Nat /\ DOMAIN events = 1..Len(events)
         /\ \A n \in DOMAIN events : events[n].finding \in Findings
         /\ \A f : Moves(f) \in SUBSET (DOMAIN events)
         /\ \A f, h : Past(f, h) \in SUBSET (1..Len(events))
  <1>1. Len(events) \in Nat /\ DOMAIN events = 1..Len(events)
    BY DEF TypeOK
  <1>2. ASSUME NEW n \in DOMAIN events PROVE events[n].finding \in Findings
    <2>1. events[n] \in Event
      BY <1>2 DEF TypeOK
    <2> QED BY <2>1 DEF Event
  <1>3. \A f : Moves(f) \in SUBSET (DOMAIN events)
    BY DEF Moves, Of
  <1> QED BY <1>1, <1>2, <1>3 DEF Past

(* The property's set, by the moves that lie before the hour.              *)
LEMMA ResolvedBeforeIs ==
  ASSUME NEW h, NEW f \in Findings
  PROVE  f \in ResolvedBefore(h) <=>
             Past(f, h) # {} /\ events[Latest(Past(f, h))].type = "RESOLVED"
  BY DEF ResolvedBefore, Past

(* The moves of a finding up to a move of it, and the one before it.       *)
LEMMA PastMoves ==
  ASSUME TypeOK, NEW f \in Findings, NEW h \in Nat
  PROVE  /\ h \notin Moves(f) => Past(f, h + 1) = Past(f, h)
         /\ h \in Moves(f) => Past(f, h + 1) # {} /\ Latest(Past(f, h + 1)) = h
         /\ h \in Moves(f) /\ Past(f, h) # {} =>
                /\ Latest(Past(f, h)) \in Moves(f)
                /\ <<Latest(Past(f, h)), h>> \in Successive(Moves(f))
  <1>1. Moves(f) \in SUBSET Nat
    BY EventsAre
  <1>2. h \notin Moves(f) => Past(f, h + 1) = Past(f, h)
    BY <1>1 DEF Past
  <1>3. ASSUME h \in Moves(f)
        PROVE  Past(f, h + 1) # {} /\ Latest(Past(f, h + 1)) = h
    <2>1. /\ h \in Past(f, h + 1) /\ Past(f, h + 1) \in SUBSET Nat
          /\ \A j \in Past(f, h + 1) : j <= h
      BY <1>1, <1>3 DEF Past
    <2> QED BY <2>1, LatestIs
  <1>4. ASSUME h \in Moves(f), Past(f, h) # {}
        PROVE  /\ Latest(Past(f, h)) \in Moves(f)
               /\ <<Latest(Past(f, h)), h>> \in Successive(Moves(f))
    <2>1. PICK k \in Past(f, h) : \A j \in Past(f, h) : j <= k
      BY <1>4, EventsAre, GreatestExists
    <2>2. Latest(Past(f, h)) = k
      <3>1. Past(f, h) \in SUBSET Nat
        BY <1>1 DEF Past
      <3> QED BY <2>1, <3>1, LatestIs
    <2>3. k \in Moves(f) /\ k < h /\ k \in Nat
      BY <1>1, <2>1 DEF Past
    <2>4. ~ \E j \in Moves(f) : k < j /\ j < h
      BY <1>1, <2>1, <2>3 DEF Past
    <2> QED BY <1>4, <2>2, <2>3, <2>4 DEF Successive
  <1> QED BY <1>2, <1>3, <1>4

-----------------------------------------------------------------------------
(* What the history tells of the moves.                                    *)
MovesExplained ==
    /\ TypeOK /\ EventsFit
    /\ \A f \in Findings : StatusTold(f) /\ MovesTold(f)

(* It is part of what the timelines tell.                                  *)
LEMMA HistoryExplainsMoves == HistoryInv => MovesExplained
  BY HistoryParts DEF HistoryInv, MovesExplained, Told

(* What a move does to the finding it is about.                            *)
LEMMA OneMove ==
  ASSUME MovesExplained, NEW h \in DOMAIN events, events[h].type \in MoveTypes
  PROVE  LET f == events[h].finding IN
         /\ f \in Findings /\ h \in Moves(f) /\ h \in Nat
         /\ f \in ResolvedBefore(h) <=> events[h].type = "REOPENED"
         /\ f \in ResolvedBefore(h + 1) <=> events[h].type = "RESOLVED"
  <1> DEFINE f == events[h].finding
  <1>1. f \in Findings /\ h \in Moves(f) /\ h \in Nat
    BY EventsAre DEF MovesExplained, Moves, Of, MoveTypes
  <1>2. MoveFits(h)
    BY DEF MovesExplained, EventsFit
  <1> HIDE DEF f
  <1>3. Past(f, h + 1) # {} /\ Latest(Past(f, h + 1)) = h
    BY <1>1, PastMoves DEF MovesExplained
  <1>4. f \in ResolvedBefore(h + 1) <=> events[h].type = "RESOLVED"
    BY <1>1, <1>3, ResolvedBeforeIs
  <1>5. CASE Past(f, h) = {}
    <2>1. ~ \E k \in Moves(f) : k < h
      BY <1>5 DEF Past
    <2>2. events[h].type # "REOPENED"
      BY <1>2, <2>1 DEF MoveFits, f
    <2> QED BY <1>1, <1>4, <1>5, <2>2, ResolvedBeforeIs DEF f
  <1>6. CASE Past(f, h) # {}
    <2> DEFINE k == Latest(Past(f, h))
    <2>1. k \in Moves(f) /\ <<k, h>> \in Successive(Moves(f))
      BY <1>1, <1>6, PastMoves DEF MovesExplained
    <2>2. f \in ResolvedBefore(h) <=> events[k].type = "RESOLVED"
      BY <1>1, <1>6, ResolvedBeforeIs
    <2> HIDE DEF k
    <2>3. events[h].value \in Transitions[events[k].value]
      <3>1. \A pair \in Successive(Moves(f)) :
                events[pair[2]].value \in Transitions[events[pair[1]].value]
        BY <1>1 DEF MovesExplained, MovesTold
      <3>2. <<k, h>>[1] = k /\ <<k, h>>[2] = h
        OBVIOUS
      <3> QED BY <2>1, <3>1, <3>2
    <2>4. k \in DOMAIN events /\ events[k].type \in MoveTypes
      BY <2>1 DEF Moves, Of, MoveTypes
    <2>5. /\ events[k].value \in Status
          /\ events[k].type = "RESOLVED" <=> events[k].value = "RESOLVED"
      BY <2>4 DEF MovesExplained, EventsFit, MoveFits
    <2>6. events[h].value = "OPEN" <=> events[k].value = "RESOLVED"
      BY <2>3, <2>5 DEF Transitions, Status
    <2>7. events[h].type = "REOPENED" <=> events[h].value = "OPEN"
      BY <1>2 DEF MoveFits
    <2> QED BY <1>1, <1>4, <2>2, <2>5, <2>6, <2>7 DEF f
  <1> QED BY <1>5, <1>6

(* The resolved findings, from one hour to the next.                       *)
LEMMA NextHour ==
  ASSUME MovesExplained, NEW h \in Nat
  PROVE  LET now == ResolvedBefore(h)
             then == ResolvedBefore(h + 1)
             f == events[h].finding
         IN  /\ h \in Resolutions => f \notin now /\ then = now \cup {f}
             /\ h \in Reopenings => f \in now /\ then = now \ {f}
             /\ h \notin Resolutions \cup Reopenings => then = now
  <1>1. ASSUME NEW g \in Findings, h \notin Moves(g)
        PROVE  g \in ResolvedBefore(h + 1) <=> g \in ResolvedBefore(h)
    <2>1. Past(g, h + 1) = Past(g, h)
      BY <1>1, PastMoves DEF MovesExplained
    <2> QED BY <2>1, ResolvedBeforeIs
  <1>2. \A g : g \in ResolvedBefore(h) \/ g \in ResolvedBefore(h + 1) => g \in Findings
    BY DEF ResolvedBefore
  <1>3. CASE h \in DOMAIN events /\ events[h].type \in MoveTypes
    <2> DEFINE f == events[h].finding
    <2>1. /\ f \in Findings
          /\ f \in ResolvedBefore(h) <=> events[h].type = "REOPENED"
          /\ f \in ResolvedBefore(h + 1) <=> events[h].type = "RESOLVED"
      BY <1>3, OneMove
    <2>2. \A g \in Findings : g # f => h \notin Moves(g)
      BY DEF Moves, Of
    <2>3. h \in Resolutions <=> events[h].type = "RESOLVED"
      BY <1>3 DEF Resolutions
    <2>4. h \in Reopenings <=> events[h].type = "REOPENED"
      BY <1>3 DEF Reopenings
    <2> HIDE DEF f
    <2>5. \A g \in Findings : g # f =>
              (g \in ResolvedBefore(h + 1) <=> g \in ResolvedBefore(h))
      BY <1>1, <2>2
    <2> DEFINE now == ResolvedBefore(h)
               then == ResolvedBefore(h + 1)
    <2>6. /\ \A g : g # f => (g \in then <=> g \in now)
          /\ f \in now <=> h \in Reopenings
          /\ f \in then <=> h \in Resolutions
      BY <1>2, <2>1, <2>3, <2>4, <2>5
    <2> HIDE DEF now, then
    <2>7. h \in Resolutions => h \notin Reopenings
      BY <2>3, <2>4
    <2>8. h \in Resolutions => f \notin now /\ then = now \cup {f}
      BY <2>6, <2>7
    <2>9. h \in Reopenings => f \in now /\ then = now \ {f}
      BY <2>6, <2>7
    <2>10. h \notin Resolutions \cup Reopenings => then = now
      BY <2>6
    <2> QED BY <2>8, <2>9, <2>10 DEF f, now, then
  <1>4. CASE ~(h \in DOMAIN events /\ events[h].type \in MoveTypes)
    <2>1. \A g : h \notin Moves(g)
      BY <1>4 DEF Moves, Of, MoveTypes
    <2>2. h \notin Resolutions \cup Reopenings
      BY <1>4 DEF Resolutions, Reopenings, MoveTypes
    <2> QED BY <1>1, <1>2, <2>1, <2>2
  <1> QED BY <1>3, <1>4

(* The resolutions and the reopenings are events, and not the same ones.   *)
LEMMA EventSets ==
  ASSUME TypeOK
  PROVE  /\ Resolutions \in SUBSET (1..Len(events)) /\ IsFiniteSet(Resolutions)
         /\ Reopenings \in SUBSET (1..Len(events)) /\ IsFiniteSet(Reopenings)
         /\ Resolutions \cap Reopenings = {}
  <1>1. Len(events) \in Nat /\ DOMAIN events = 1..Len(events)
    BY EventsAre
  <1>2. IsFiniteSet(1..Len(events))
    BY <1>1, FS_Interval
  <1>3. Resolutions \in SUBSET (1..Len(events)) /\ Reopenings \in SUBSET (1..Len(events))
    BY <1>1 DEF Resolutions, Reopenings
  <1>4. Resolutions \cap Reopenings = {}
    BY DEF Resolutions, Reopenings
  <1> QED BY <1>2, <1>3, <1>4, FS_Subset

(* What an hour adds to those before it.                                   *)
LEMMA UpTo ==
  ASSUME NEW S \in SUBSET Nat, IsFiniteSet(S), NEW h \in Nat
  PROVE  /\ IsFiniteSet(Up(S, h)) /\ Cardinality(Up(S, h)) \in Nat
         /\ h \in S => Cardinality(Up(S, h + 1)) = Cardinality(Up(S, h)) + 1
         /\ h \notin S => Cardinality(Up(S, h + 1)) = Cardinality(Up(S, h))
  <1>1. IsFiniteSet(Up(S, h)) /\ Cardinality(Up(S, h)) \in Nat
    BY FS_Subset, FS_CardinalityType DEF Up
  <1>2. h \in S => Up(S, h + 1) = Up(S, h) \cup {h}
    <2>1. \A n \in S : n < h + 1 <=> n < h \/ n = h
      OBVIOUS
    <2>2. ASSUME h \in S PROVE \A n : n \in Up(S, h + 1) <=> n \in Up(S, h) \/ n = h
      BY <2>1, <2>2 DEF Up
    <2> QED BY <2>2
  <1>3. h \notin S => Up(S, h + 1) = Up(S, h)
    <2>1. \A n \in S : n # h => (n < h + 1 <=> n < h)
      OBVIOUS
    <2> QED BY <2>1 DEF Up
  <1>4. h \notin Up(S, h)
    BY DEF Up
  <1>5. Cardinality(Up(S, h) \cup {h}) = Cardinality(Up(S, h)) + 1
    BY <1>1, <1>4, FS_AddElement
  <1> QED BY <1>1, <1>2, <1>3, <1>5

(* The balance of every hour.                                              *)
LEMMA BacklogBalances ==
  ASSUME MovesExplained
  PROVE  \A h \in Nat : Balanced(h)
  <1> DEFINE Bad == {h \in Nat : ~Balanced(h)}
  <1>1. SUFFICES ASSUME Bad # {} PROVE FALSE
    OBVIOUS
  <1>2. PICK h \in Bad : \A k \in Bad : h <= k
    BY <1>1, LeastExists
  <1>3. TypeOK
    BY DEF MovesExplained
  <1>4. h # 0
    <2>1. Up(Resolutions, 0) = {} /\ Up(Reopenings, 0) = {}
      BY <1>3, EventSets DEF Up
    <2>2. ResolvedBefore(0) = {}
      <3>1. \A f \in Findings : Past(f, 0) = {}
        BY <1>3, EventsAre DEF Past
      <3> QED BY <3>1 DEF ResolvedBefore, Past
    <2>3. Balanced(0)
      BY <2>1, <2>2, FS_EmptySet DEF Balanced
    <2> QED BY <2>3
  <1>5. PICK k \in Nat : h = k + 1
    <2>1. h - 1 \in Nat /\ h = (h - 1) + 1
      BY <1>4
    <2> QED BY <2>1
  <1>6. Balanced(k)
    <2>1. k \notin Bad
      BY <1>2, <1>5
    <2> QED BY <2>1
  <1> HIDE DEF Bad
  <1>7. IsFiniteSet(ResolvedBefore(k)) /\ Cardinality(ResolvedBefore(k)) \in Nat
    <2>1. ResolvedBefore(k) \subseteq Findings
      BY DEF ResolvedBefore
    <2> QED BY <2>1, DashboardAssumption, FS_Subset, FS_CardinalityType
  <1>8. /\ Cardinality(Up(Resolutions, k)) \in Nat
        /\ k \in Resolutions =>
              Cardinality(Up(Resolutions, k + 1)) = Cardinality(Up(Resolutions, k)) + 1
        /\ k \notin Resolutions =>
              Cardinality(Up(Resolutions, k + 1)) = Cardinality(Up(Resolutions, k))
    <2>1. Resolutions \in SUBSET Nat /\ IsFiniteSet(Resolutions)
      BY <1>3, EventsAre, EventSets
    <2> QED BY <2>1, UpTo
  <1>9. /\ Cardinality(Up(Reopenings, k)) \in Nat
        /\ k \in Reopenings =>
              Cardinality(Up(Reopenings, k + 1)) = Cardinality(Up(Reopenings, k)) + 1
        /\ k \notin Reopenings =>
              Cardinality(Up(Reopenings, k + 1)) = Cardinality(Up(Reopenings, k))
    <2>1. Reopenings \in SUBSET Nat /\ IsFiniteSet(Reopenings)
      BY <1>3, EventsAre, EventSets
    <2> QED BY <2>1, UpTo
  <1>10. Balanced(k + 1)
    <2> DEFINE f == events[k].finding
    <2>1. CASE k \in Resolutions
      <3>1. /\ f \notin ResolvedBefore(k) /\ ResolvedBefore(k + 1) = ResolvedBefore(k) \cup {f}
            /\ k \notin Reopenings
        BY <1>3, <2>1, NextHour, EventSets
      <3>2. Cardinality(ResolvedBefore(k + 1)) = Cardinality(ResolvedBefore(k)) + 1
        BY <1>7, <3>1, FS_AddElement
      <3> QED BY <1>6, <1>7, <1>8, <1>9, <2>1, <3>1, <3>2 DEF Balanced
    <2>2. CASE k \in Reopenings
      <3>1. /\ f \in ResolvedBefore(k) /\ ResolvedBefore(k + 1) = ResolvedBefore(k) \ {f}
            /\ k \notin Resolutions
        BY <1>3, <2>2, NextHour, EventSets
      <3>2. Cardinality(ResolvedBefore(k + 1)) = Cardinality(ResolvedBefore(k)) - 1
        BY <1>7, <3>1, FS_RemoveElement
      <3> QED BY <1>6, <1>7, <1>8, <1>9, <2>2, <3>1, <3>2 DEF Balanced
    <2>3. CASE k \notin Resolutions \cup Reopenings
      <3>1. ResolvedBefore(k + 1) = ResolvedBefore(k)
        BY <2>3, NextHour
      <3> QED BY <1>6, <1>8, <1>9, <2>3, <3>1 DEF Balanced
    <2> QED BY <2>1, <2>2, <2>3
  <1> QED BY <1>2, <1>5, <1>10 DEF Bad

-----------------------------------------------------------------------------
(* Days and their hours.                                                   *)

(* Division, as the provers use it.                                        *)
LEMMA DayOfHour ==
  ASSUME NEW n \in Int, NEW d \in Nat \ {0}
  PROVE  n \div d \in Int /\ (n \div d) * d <= n /\ n < ((n \div d) + 1) * d
  <1> DEFINE q == n \div d
             r == n % d
  <1>1. q \in Int /\ r \in 0..(d - 1)
    OBVIOUS
  <1>2. n = q * d + r
    OBVIOUS
  <1> HIDE DEF q, r
  <1>3. (q + 1) * d = q * d + d
    BY <1>1
  <1>4. q * d \in Int
    BY <1>1
  <1>5. q * d <= n /\ n < (q + 1) * d
    BY <1>1, <1>2, <1>3, <1>4
  <1> QED BY <1>1, <1>5 DEF q

(* Later days begin later.                                                 *)
LEMMA DaysOrdered ==
  ASSUME NEW d \in Nat \ {0}, NEW x \in Int, NEW y \in Int, x <= y
  PROVE  x * d \in Int /\ y * d \in Int /\ x * d <= y * d
  <1>1. PICK z \in Nat : y = x + z
    <2>1. y - x \in Nat /\ y = x + (y - x)
      OBVIOUS
    <2> QED BY <2>1
  <1>2. y * d = x * d + z * d
    BY <1>1
  <1>3. z * d \in Nat
    OBVIOUS
  <1>4. x * d \in Int /\ y * d \in Int
    OBVIOUS
  <1> QED BY <1>2, <1>3, <1>4

(* A day begins in itself.                                                 *)
LEMMA DayBegins ==
  ASSUME NEW d \in Nat \ {0}, NEW b \in Int
  PROVE  (b * d) \div d = b
  <1> DEFINE q == (b * d) \div d
  <1>1. b * d \in Int
    OBVIOUS
  <1>2. q \in Int /\ q * d <= b * d /\ b * d < (q + 1) * d
    BY <1>1, DayOfHour
  <1> HIDE DEF q
  <1>3. ~(b < q)
    <2>1. SUFFICES ASSUME b + 1 <= q PROVE FALSE
      BY <1>2
    <2>2. (b + 1) * d <= q * d
      BY <1>2, <2>1, DaysOrdered
    <2>3. (b + 1) * d = b * d + d
      OBVIOUS
    <2>4. q * d \in Int
      BY <1>2
    <2> QED BY <1>1, <1>2, <2>2, <2>3, <2>4
  <1>4. ~(q < b)
    <2>1. SUFFICES ASSUME q + 1 <= b PROVE FALSE
      BY <1>2
    <2>2. (q + 1) * d <= b * d
      BY <1>2, <2>1, DaysOrdered
    <2>3. (q + 1) * d \in Int
      BY <1>2
    <2> QED BY <1>1, <1>2, <2>2, <2>3
  <1> QED BY <1>2, <1>3, <1>4 DEF q

FirstDay(days, now) == (now \div DayLength) - (days - 1)
HoursOf(day) == (day * DayLength)..((day + 1) * DayLength - 1)

(* An hour is in one day.                                                  *)
LEMMA HourInDay ==
  ASSUME NEW n \in Int
  PROVE  /\ n \div DayLength \in Int
         /\ \A day \in Int : n \in HoursOf(day) <=> day = n \div DayLength
  <1> DEFINE d == DayLength
             q == n \div d
  <1>1. d \in Nat \ {0}
    BY DashboardAssumption
  <1>2. q \in Int /\ q * d <= n /\ n < (q + 1) * d
    BY <1>1, DayOfHour
  <1> HIDE DEF d, q
  <1>3. n \in HoursOf(q)
    <2>1. q * d \in Int /\ (q + 1) * d \in Int
      BY <1>1, <1>2
    <2> QED BY <1>2, <2>1 DEF HoursOf, d
  <1>4. ASSUME NEW day \in Int, n \in HoursOf(day) PROVE day = q
    <2>1. day * d \in Int /\ (day + 1) * d \in Int /\ q * d \in Int /\ (q + 1) * d \in Int
      BY <1>1, <1>2
    <2>2. day * d <= n /\ n < (day + 1) * d
      BY <1>4, <2>1 DEF HoursOf, d
    <2>3. ~(q + 1 <= day)
      <3>1. q + 1 <= day => (q + 1) * d <= day * d
        BY <1>1, <1>2, DaysOrdered
      <3> QED BY <1>2, <2>1, <2>2, <3>1
    <2>4. ~(day + 1 <= q)
      <3>1. day + 1 <= q => (day + 1) * d <= q * d
        BY <1>1, <1>2, DaysOrdered
      <3> QED BY <1>2, <2>1, <2>2, <3>1
    <2> QED BY <1>2, <2>3, <2>4
  <1> QED BY <1>2, <1>3, <1>4 DEF q, d

(* The days of a window hold its hours, each once.                         *)
LEMMA WindowDays ==
  ASSUME NEW days \in Nat \ {0}, NEW now \in Int
  PROVE  LET b == FirstDay(days, now)
             start == PeriodStart(days, now)
         IN  /\ b \in Int /\ start \in Int /\ start <= now
             /\ start \div DayLength = b
             /\ \A n \in Int : start <= n /\ n < now =>
                    \E o \in 0..(days - 1) : n \in HoursOf(b + o)
  <1> DEFINE d == DayLength
             b == FirstDay(days, now)
             Q == now \div d
             start == PeriodStart(days, now)
  <1>1. d \in Nat \ {0}
    BY DashboardAssumption
  <1>2. Q \in Int /\ Q * d <= now /\ now < (Q + 1) * d
    BY <1>1, DayOfHour
  <1>3. b = Q - (days - 1) /\ start = b * d
    BY DEF FirstDay, PeriodStart
  <1> HIDE DEF d, b, Q, start
  <1>4. b \in Int /\ b <= Q /\ start \in Int
    BY <1>1, <1>2, <1>3
  <1>5. start <= now
    <2>1. b * d <= Q * d /\ b * d \in Int /\ Q * d \in Int
      BY <1>1, <1>2, <1>4, DaysOrdered
    <2> QED BY <1>2, <1>3, <2>1
  <1>6. start \div d = b
    BY <1>1, <1>3, <1>4, DayBegins
  <1>7. ASSUME NEW n \in Int, start <= n, n < now
        PROVE  \E o \in 0..(days - 1) : n \in HoursOf(b + o)
    <2> DEFINE q == n \div d
    <2>1. q \in Int /\ q * d <= n /\ n < (q + 1) * d
      BY <1>1, DayOfHour
    <2>2. n \in HoursOf(q)
      BY <2>1, HourInDay DEF d
    <2> HIDE DEF q
    <2>3. q * d \in Int /\ (q + 1) * d \in Int /\ (Q + 1) * d \in Int
      BY <1>1, <1>2, <2>1
    <2>4. ~(q + 1 <= b)
      <3>1. q + 1 <= b => (q + 1) * d <= b * d
        BY <1>1, <1>4, <2>1, DaysOrdered
      <3> QED BY <1>3, <1>4, <1>7, <2>1, <2>3, <3>1
    <2>5. ~(Q + 1 <= q)
      <3>1. Q + 1 <= q => (Q + 1) * d <= q * d
        BY <1>1, <1>2, <2>1, DaysOrdered
      <3> QED BY <1>2, <1>7, <2>1, <2>3, <3>1
    <2>6. q - b \in 0..(days - 1) /\ b + (q - b) = q
      BY <1>2, <1>3, <1>4, <2>1, <2>4, <2>5
    <2> QED BY <2>2, <2>6
  <1> QED BY <1>4, <1>5, <1>6, <1>7 DEF d, b, start

-----------------------------------------------------------------------------
(* The windows of the overview.                                            *)

(* Before the first hour nothing is resolved; after the last event the     *)
(* resolved findings are those whose status says so.                       *)
LEMMA BacklogAtEnds ==
  ASSUME MovesExplained
  PROVE  /\ \A h \in Int : h <= 0 =>
              ResolvedBefore(h) = {} /\ Up(Resolutions, h) = {} /\ Up(Reopenings, h) = {}
         /\ \A h \in Int : Len(events) < h =>
              /\ ResolvedBefore(h) = With("RESOLVED", Findings)
              /\ Up(Resolutions, h) = Resolutions /\ Up(Reopenings, h) = Reopenings
  <1>1. /\ TypeOK /\ Len(events) \in Nat /\ DOMAIN events = 1..Len(events)
        /\ \A f : Moves(f) \in SUBSET (DOMAIN events)
        /\ Resolutions \in SUBSET (1..Len(events)) /\ Reopenings \in SUBSET (1..Len(events))
    BY EventsAre, EventSets DEF MovesExplained
  <1>2. ASSUME NEW h \in Int, h <= 0
        PROVE  ResolvedBefore(h) = {} /\ Up(Resolutions, h) = {} /\ Up(Reopenings, h) = {}
    <2>1. \A f : Past(f, h) = {}
      BY <1>1, <1>2 DEF Past
    <2>2. ResolvedBefore(h) = {}
      BY <2>1, ResolvedBeforeIs DEF ResolvedBefore
    <2>3. \A n \in 1..Len(events) : ~(n < h)
      BY <1>1, <1>2
    <2>4. Up(Resolutions, h) = {} /\ Up(Reopenings, h) = {}
      BY <1>1, <2>3 DEF Up
    <2> QED BY <2>2, <2>4
  <1>3. ASSUME NEW h \in Int, Len(events) < h
        PROVE  /\ ResolvedBefore(h) = With("RESOLVED", Findings)
               /\ Up(Resolutions, h) = Resolutions /\ Up(Reopenings, h) = Reopenings
    <2>1. \A n \in 1..Len(events) : n < h
      BY <1>1, <1>3
    <2>2. \A f : Past(f, h) = Moves(f)
      BY <1>1, <2>1 DEF Past
    <2>3. ASSUME NEW f \in Findings
          PROVE  f \in ResolvedBefore(h) <=> findings[f].status = "RESOLVED"
      <3> DEFINE last == events[Latest(Moves(f))]
      <3>1. findings[f].status = IF Moves(f) = {} THEN "OPEN" ELSE last.value
        BY DEF MovesExplained, StatusTold
      <3>2. f \in ResolvedBefore(h) <=> Moves(f) # {} /\ last.type = "RESOLVED"
        BY <2>2, ResolvedBeforeIs
      <3>3. Moves(f) # {} => (last.type = "RESOLVED" <=> last.value = "RESOLVED")
        <4>1. SUFFICES ASSUME Moves(f) # {} PROVE last.type = "RESOLVED" <=> last.value = "RESOLVED"
          OBVIOUS
        <4>2. Latest(Moves(f)) \in Moves(f)
          BY <1>1, <4>1, LatestExists
        <4>3. Latest(Moves(f)) \in DOMAIN events /\ last.type \in MoveTypes
          BY <4>2 DEF Moves, Of, MoveTypes
        <4> QED BY <4>3 DEF MovesExplained, EventsFit, MoveFits
      <3> HIDE DEF last
      <3> QED BY <3>1, <3>2, <3>3
    <2>4. ResolvedBefore(h) = With("RESOLVED", Findings)
      BY <2>3 DEF With, ResolvedBefore
    <2> QED BY <1>1, <2>1, <2>4 DEF Up
  <1> QED BY <1>2, <1>3

(* The balance holds before the first hour too.                            *)
LEMMA BalancedAlways ==
  ASSUME MovesExplained
  PROVE  \A h \in Int : Balanced(h)
  <1> SUFFICES ASSUME NEW h \in Int PROVE Balanced(h)
    OBVIOUS
  <1>1. CASE h \in Nat
    BY <1>1, BacklogBalances
  <1>2. CASE h \notin Nat
    <2>1. h <= 0
      BY <1>2
    <2>2. ResolvedBefore(h) = {} /\ Up(Resolutions, h) = {} /\ Up(Reopenings, h) = {}
      BY <2>1, BacklogAtEnds
    <2> QED BY <2>2, FS_EmptySet DEF Balanced
  <1> QED BY <1>1, <1>2

(* Activity is what was there at the end less what was there before.       *)
LEMMA ActivityLeft ==
  ASSUME NEW S \in SUBSET Nat, IsFiniteSet(S), NEW start \in Int, NEW end \in Int,
         start <= end
  PROVE  /\ Cardinality(ActivityIn(S, start, end)) \in Nat
         /\ Cardinality(Up(S, start)) \in Nat
         /\ Cardinality(Up(S, end))
                = Cardinality(Up(S, start)) + Cardinality(ActivityIn(S, start, end))
  <1> DEFINE A == Up(S, start)
             B == ActivityIn(S, start, end)
             C == Up(S, end)
  <1>1. C = A \cup B /\ A \cap B = {} /\ A \subseteq S /\ B \subseteq S
    <2>1. A \subseteq S /\ B \subseteq S /\ C \subseteq S
      BY DEF Up, ActivityIn
    <2>2. \A n \in S : n \in C <=> n \in A \/ n \in B
      BY DEF Up, ActivityIn
    <2>3. \A n \in S : ~(n \in A /\ n \in B)
      BY DEF Up, ActivityIn
    <2> HIDE DEF A, B, C
    <2> QED BY <2>1, <2>2, <2>3
  <1> HIDE DEF A, B, C
  <1>2. IsFiniteSet(A) /\ IsFiniteSet(B)
    BY <1>1, FS_Subset
  <1>3. Cardinality(A \cup B) = Cardinality(A) + Cardinality(B)
        /\ Cardinality(A) \in Nat /\ Cardinality(B) \in Nat
    BY <1>1, <1>2, TwoApart
  <1>4. Cardinality(C) = Cardinality(A) + Cardinality(B)
    BY <1>1, <1>3, Zenon
  <1> QED BY <1>3, <1>4 DEF A, B, C

(* Resolutions less reopenings are the change of the resolved backlog.     *)
LEMMA BacklogTold ==
  ASSUME MovesExplained, NEW start \in Int, NEW end \in Int, start <= end
  PROVE  Cardinality(ActivityIn(Resolutions, start, end))
            - Cardinality(ActivityIn(Reopenings, start, end))
            = Cardinality(ResolvedBefore(end)) - Cardinality(ResolvedBefore(start))
  <1>1. /\ Resolutions \in SUBSET Nat /\ IsFiniteSet(Resolutions)
        /\ Reopenings \in SUBSET Nat /\ IsFiniteSet(Reopenings)
    BY EventsAre, EventSets DEF MovesExplained
  <1>2. /\ Cardinality(ResolvedBefore(start)) + Cardinality(Up(Reopenings, start))
              = Cardinality(Up(Resolutions, start))
        /\ Cardinality(ResolvedBefore(end)) + Cardinality(Up(Reopenings, end))
              = Cardinality(Up(Resolutions, end))
    BY BalancedAlways, Zenon DEF Balanced
  <1>3. /\ Cardinality(ActivityIn(Resolutions, start, end)) \in Nat
        /\ Cardinality(Up(Resolutions, start)) \in Nat
        /\ Cardinality(Up(Resolutions, end)) = Cardinality(Up(Resolutions, start))
              + Cardinality(ActivityIn(Resolutions, start, end))
    BY <1>1, ActivityLeft
  <1>4. /\ Cardinality(ActivityIn(Reopenings, start, end)) \in Nat
        /\ Cardinality(Up(Reopenings, start)) \in Nat
        /\ Cardinality(Up(Reopenings, end)) = Cardinality(Up(Reopenings, start))
              + Cardinality(ActivityIn(Reopenings, start, end))
    BY <1>1, ActivityLeft
  <1>5. /\ Cardinality(ResolvedBefore(start)) \in Nat
        /\ Cardinality(ResolvedBefore(end)) \in Nat
    <2>1. ResolvedBefore(start) \subseteq Findings /\ ResolvedBefore(end) \subseteq Findings
      BY DEF ResolvedBefore
    <2> QED BY <2>1, DashboardAssumption, FS_Subset, FS_CardinalityType
  <1> DEFINE new == Cardinality(ActivityIn(Resolutions, start, end))
             again == Cardinality(ActivityIn(Reopenings, start, end))
             old == Cardinality(Up(Resolutions, start))
             undone == Cardinality(Up(Reopenings, start))
             before == Cardinality(ResolvedBefore(start))
             after == Cardinality(ResolvedBefore(end))
             all == Cardinality(Up(Resolutions, end))
             back == Cardinality(Up(Reopenings, end))
  <1>6. /\ before \in Nat /\ after \in Nat /\ before + undone = old /\ after + back = all
        /\ new \in Nat /\ old \in Nat /\ all = old + new
        /\ again \in Nat /\ undone \in Nat /\ back = undone + again
    BY <1>2, <1>3, <1>4, <1>5
  <1> HIDE DEF new, again, old, undone, before, after, all, back
  <1>7. new - again = after - before
    BY <1>6
  <1> QED BY <1>7 DEF new, again, after, before

(* What moved since the clock was read is what the current backlog adds.   *)
LEMMA SinceTold ==
  ASSUME MovesExplained, NEW now \in Int
  PROVE  Cardinality(ActivityIn(Resolutions, now, Len(events) + 1))
            - Cardinality(ActivityIn(Reopenings, now, Len(events) + 1))
            = Cardinality(With("RESOLVED", Findings)) - Cardinality(ResolvedBefore(now))
  <1>1. /\ Len(events) \in Nat
        /\ Resolutions \in SUBSET (1..Len(events)) /\ Reopenings \in SUBSET (1..Len(events))
    BY EventsAre, EventSets DEF MovesExplained
  <1>2. CASE now <= Len(events) + 1
    <2>1. ResolvedBefore(Len(events) + 1) = With("RESOLVED", Findings)
      BY <1>1, BacklogAtEnds
    <2> QED BY <1>1, <1>2, <2>1, BacklogTold
  <1>3. CASE Len(events) < now
    <2>1. ResolvedBefore(now) = With("RESOLVED", Findings)
      BY <1>3, BacklogAtEnds
    <2>2. \A n \in 1..Len(events) : ~(now <= n)
      BY <1>1, <1>3
    <2>3. /\ Cardinality(ActivityIn(Resolutions, now, Len(events) + 1)) = 0
          /\ Cardinality(ActivityIn(Reopenings, now, Len(events) + 1)) = 0
      <3>1. /\ ActivityIn(Resolutions, now, Len(events) + 1) = {}
            /\ ActivityIn(Reopenings, now, Len(events) + 1) = {}
        BY <1>1, <2>2 DEF ActivityIn
      <3> QED BY <3>1, FS_EmptySet
    <2>4. Cardinality(With("RESOLVED", Findings)) \in Nat
      <3>1. With("RESOLVED", Findings) \subseteq Findings
        BY DEF With
      <3> QED BY <3>1, DashboardAssumption, FS_Subset, FS_CardinalityType
    <2> QED BY <2>1, <2>3, <2>4
  <1> QED BY <1>1, <1>2, <1>3

(* The states of the findings add up.                                      *)
LEMMA StatesAddUp ==
  ASSUME TypeOK
  PROVE  /\ Cardinality(With("OPEN", Findings)) + Cardinality(With("IN_REVIEW", Findings))
              = Cardinality(Unresolved)
         /\ Cardinality(Unresolved) + Cardinality(With("RESOLVED", Findings))
              = Cardinality(Findings)
  <1> DEFINE A == With("OPEN", Findings)
             B == With("IN_REVIEW", Findings)
             C == With("RESOLVED", Findings)
  <1>1. \A f \in Findings : findings[f].status \in Status
    BY DEF TypeOK, Finding
  <1>2. A \cap B = {} /\ A \cup B = Unresolved
    BY DEF With, Unresolved
  <1>3. Unresolved \cap C = {} /\ Unresolved \cup C = Findings
    BY <1>1 DEF With, Unresolved, Status
  <1> HIDE DEF A, B, C
  <1>4. IsFiniteSet(A) /\ IsFiniteSet(B) /\ IsFiniteSet(C) /\ IsFiniteSet(Unresolved)
    BY <1>2, <1>3, DashboardAssumption, FS_Subset
  <1>5. Cardinality(A \cup B) = Cardinality(A) + Cardinality(B)
    BY <1>2, <1>4, TwoApart
  <1>6. Cardinality(Unresolved \cup C) = Cardinality(Unresolved) + Cardinality(C)
    BY <1>3, <1>4, TwoApart
  <1>7. Cardinality(A) + Cardinality(B) = Cardinality(Unresolved)
    BY <1>2, <1>5, Zenon
  <1>8. Cardinality(Unresolved) + Cardinality(C) = Cardinality(Findings)
    BY <1>3, <1>6, Zenon
  <1> QED BY <1>7, <1>8 DEF A, B, C

-----------------------------------------------------------------------------
(* The days of the trend.                                                  *)

(* A bucket of the trend holds the hours of one day of the window.         *)
LEMMA TrendIs ==
  ASSUME NEW days \in Nat \ {0}, NEW now \in Int, NEW o \in 0..(days - 1)
  PROVE  LET start == PeriodStart(days, now)
             hours == HoursOf(FirstDay(days, now) + o)
         IN  /\ Trend(days, now, o).new = IF 0 \in hours THEN NewIn(start, now) ELSE 0
             /\ Trend(days, now, o).resolutions
                    = Cardinality(ActivityIn(Resolutions, start, now) \cap hours)
             /\ Trend(days, now, o).reopenings
                    = Cardinality(ActivityIn(Reopenings, start, now) \cap hours)
  <1>1. PeriodStart(days, now) \div DayLength = FirstDay(days, now)
    BY WindowDays
  <1> QED BY <1>1 DEF Trend, HoursOf

(* What the days of a window share out: the hours of the window.           *)
DaysOf(days, now, S) ==
    [o \in 0..(days - 1) |-> S \cap HoursOf(FirstDay(days, now) + o)]

(* The days of a window share out its hours.                               *)
LEMMA DaysShare ==
  ASSUME NEW days \in Nat \ {0}, NEW now \in Int, NEW S \in SUBSET Int, IsFiniteSet(S),
         \A n \in S : PeriodStart(days, now) <= n /\ n < now
  PROVE  /\ Parts(DaysOf(days, now, S), 0..(days - 1), S)
         /\ AllOf(DaysOf(days, now, S), 0..(days - 1)) = S
  <1> DEFINE b == FirstDay(days, now)
             P == DaysOf(days, now, S)
             O == 0..(days - 1)
  <1>1. b \in Int /\ \A n \in S : \E o \in O : n \in HoursOf(b + o)
    BY WindowDays
  <1>2. \A o \in O : P[o] = S \cap HoursOf(b + o)
    BY DEF DaysOf
  <1> HIDE DEF b, P
  <1>3. ASSUME NEW x \in O, NEW y \in O, x # y PROVE P[x] \cap P[y] = {}
    <2>1. ASSUME NEW n \in S, n \in HoursOf(b + x), n \in HoursOf(b + y) PROVE FALSE
      <3>1. b + x \in Int /\ b + y \in Int /\ b + x # b + y
        BY <1>1, <1>3
      <3> QED BY <2>1, <3>1, HourInDay
    <2> QED BY <1>2, <2>1
  <1>4. IsFiniteSet(O)
    BY FS_Interval
  <1>5. \A n \in S : \E o \in O : n \in P[o]
    BY <1>1, <1>2
  <1>6. \A o \in O : P[o] \subseteq S
    BY <1>2
  <1> HIDE DEF O
  <1>7. Parts(P, O, S)
    BY <1>3, <1>4, <1>6 DEF Parts
  <1>8. AllOf(P, O) = S
    BY <1>5, <1>6 DEF AllOf
  <1> QED BY <1>7, <1>8 DEF P, O

(* The sums DashboardAgrees names, over some days or assignees.            *)
NewOver(days, now, S) ==
    MapThenSumSet(LAMBDA x : Trend(days, now, x).new, S)

(* New findings, summed over the days.                                     *)
LEMMA NewSum ==
  ASSUME NEW P, NEW S, NEW U, NEW days, NEW now, Parts(P, S, U),
         \A x \in S : Trend(days, now, x).new = Cardinality(P[x])
  PROVE  NewOver(days, now, S) = Cardinality(AllOf(P, S))
  <1> DEFINE Is(g) == g = [s \in SUBSET S |->
                              IF s = {} THEN 0
                              ELSE Trend(days, now, CHOOSE x \in s : TRUE).new
                                     + g[s \ {CHOOSE x \in s : TRUE}]]
  <1>1. ASSUME NEW g PROVE Is(g) <=> SumsUp(g, P, S)
    <2>1. ASSUME NEW s \in SUBSET S, s # {}
          PROVE  Trend(days, now, AnyOf(s)).new = Cardinality(P[AnyOf(s)])
      <3>1. AnyOf(s) \in S
        BY <2>1 DEF AnyOf
      <3> QED BY <3>1
    <2> QED BY <2>1 DEF SumsUp, AnyOf
  <1> DEFINE t == CHOOSE g : Is(g)
  <1>2. Is(t)
    <2>1. PICK u : SumsUp(u, P, S)
      BY SumExists
    <2>2. Is(u)
      BY <1>1, <2>1
    <2> HIDE DEF Is
    <2> QED BY <2>2
  <1>3. NewOver(days, now, S) = t[S]
    BY Zenon DEF NewOver, MapThenSumSet, MapThenFoldSet
  <1>4. SumsUp(t, P, S)
    BY <1>1, <1>2
  <1> HIDE DEF t, Is
  <1>5. t[S] = Cardinality(AllOf(P, S))
    BY <1>4, SumIsSize
  <1> QED BY <1>3, <1>5

(* The same of the resolutions.                                            *)
ResolutionOver(days, now, S) ==
    MapThenSumSet(LAMBDA x : Trend(days, now, x).resolutions, S)

(* Resolutions, summed over the days.                                      *)
LEMMA ResolutionSum ==
  ASSUME NEW P, NEW S, NEW U, NEW days, NEW now, Parts(P, S, U),
         \A x \in S : Trend(days, now, x).resolutions = Cardinality(P[x])
  PROVE  ResolutionOver(days, now, S) = Cardinality(AllOf(P, S))
  <1> DEFINE Is(g) == g = [s \in SUBSET S |->
                              IF s = {} THEN 0
                              ELSE Trend(days, now, CHOOSE x \in s : TRUE).resolutions
                                     + g[s \ {CHOOSE x \in s : TRUE}]]
  <1>1. ASSUME NEW g PROVE Is(g) <=> SumsUp(g, P, S)
    <2>1. ASSUME NEW s \in SUBSET S, s # {}
          PROVE  Trend(days, now, AnyOf(s)).resolutions = Cardinality(P[AnyOf(s)])
      <3>1. AnyOf(s) \in S
        BY <2>1 DEF AnyOf
      <3> QED BY <3>1
    <2> QED BY <2>1 DEF SumsUp, AnyOf
  <1> DEFINE t == CHOOSE g : Is(g)
  <1>2. Is(t)
    <2>1. PICK u : SumsUp(u, P, S)
      BY SumExists
    <2>2. Is(u)
      BY <1>1, <2>1
    <2> HIDE DEF Is
    <2> QED BY <2>2
  <1>3. ResolutionOver(days, now, S) = t[S]
    BY Zenon DEF ResolutionOver, MapThenSumSet, MapThenFoldSet
  <1>4. SumsUp(t, P, S)
    BY <1>1, <1>2
  <1> HIDE DEF t, Is
  <1>5. t[S] = Cardinality(AllOf(P, S))
    BY <1>4, SumIsSize
  <1> QED BY <1>3, <1>5

(* The same of the reopenings.                                             *)
ReopeningOver(days, now, S) ==
    MapThenSumSet(LAMBDA x : Trend(days, now, x).reopenings, S)

(* Reopenings, summed over the days.                                       *)
LEMMA ReopeningSum ==
  ASSUME NEW P, NEW S, NEW U, NEW days, NEW now, Parts(P, S, U),
         \A x \in S : Trend(days, now, x).reopenings = Cardinality(P[x])
  PROVE  ReopeningOver(days, now, S) = Cardinality(AllOf(P, S))
  <1> DEFINE Is(g) == g = [s \in SUBSET S |->
                              IF s = {} THEN 0
                              ELSE Trend(days, now, CHOOSE x \in s : TRUE).reopenings
                                     + g[s \ {CHOOSE x \in s : TRUE}]]
  <1>1. ASSUME NEW g PROVE Is(g) <=> SumsUp(g, P, S)
    <2>1. ASSUME NEW s \in SUBSET S, s # {}
          PROVE  Trend(days, now, AnyOf(s)).reopenings = Cardinality(P[AnyOf(s)])
      <3>1. AnyOf(s) \in S
        BY <2>1 DEF AnyOf
      <3> QED BY <3>1
    <2> QED BY <2>1 DEF SumsUp, AnyOf
  <1> DEFINE t == CHOOSE g : Is(g)
  <1>2. Is(t)
    <2>1. PICK u : SumsUp(u, P, S)
      BY SumExists
    <2>2. Is(u)
      BY <1>1, <2>1
    <2> HIDE DEF Is
    <2> QED BY <2>2
  <1>3. ReopeningOver(days, now, S) = t[S]
    BY Zenon DEF ReopeningOver, MapThenSumSet, MapThenFoldSet
  <1>4. SumsUp(t, P, S)
    BY <1>1, <1>2
  <1> HIDE DEF t, Is
  <1>5. t[S] = Cardinality(AllOf(P, S))
    BY <1>4, SumIsSize
  <1> QED BY <1>3, <1>5

(* The same of the loads of assignees.                                     *)
LoadOver(S) ==
    MapThenSumSet(LAMBDA x : Load(x).unresolved, S)

(* Unresolved findings, summed over the assignees.                         *)
LEMMA LoadSum ==
  ASSUME NEW P, NEW S, NEW U, Parts(P, S, U),
         \A x \in S : Load(x).unresolved = Cardinality(P[x])
  PROVE  LoadOver(S) = Cardinality(AllOf(P, S))
  <1> DEFINE Is(g) == g = [s \in SUBSET S |->
                              IF s = {} THEN 0
                              ELSE Load(CHOOSE x \in s : TRUE).unresolved
                                     + g[s \ {CHOOSE x \in s : TRUE}]]
  <1>1. ASSUME NEW g PROVE Is(g) <=> SumsUp(g, P, S)
    <2>1. ASSUME NEW s \in SUBSET S, s # {}
          PROVE  Load(AnyOf(s)).unresolved = Cardinality(P[AnyOf(s)])
      <3>1. AnyOf(s) \in S
        BY <2>1 DEF AnyOf
      <3> QED BY <3>1
    <2> QED BY <2>1 DEF SumsUp, AnyOf
  <1> DEFINE t == CHOOSE g : Is(g)
  <1>2. Is(t)
    <2>1. PICK u : SumsUp(u, P, S)
      BY SumExists
    <2>2. Is(u)
      BY <1>1, <2>1
    <2> HIDE DEF Is
    <2> QED BY <2>2
  <1>3. LoadOver(S) = t[S]
    BY Zenon DEF LoadOver, MapThenSumSet, MapThenFoldSet
  <1>4. SumsUp(t, P, S)
    BY <1>1, <1>2
  <1> HIDE DEF t, Is
  <1>5. t[S] = Cardinality(AllOf(P, S))
    BY <1>4, SumIsSize
  <1> QED BY <1>3, <1>5

-----------------------------------------------------------------------------
(* The windows of the dashboard.                                           *)

(* The days' resolutions and reopenings add up.                            *)
LEMMA ActivityAddsUp ==
  ASSUME TypeOK, NEW days \in Nat \ {0}, NEW now \in Int
  PROVE  LET start == PeriodStart(days, now) IN
         /\ ResolutionOver(days, now, 0..(days - 1))
                = Cardinality(ActivityIn(Resolutions, start, now))
         /\ ReopeningOver(days, now, 0..(days - 1))
                = Cardinality(ActivityIn(Reopenings, start, now))
  <1> DEFINE start == PeriodStart(days, now)
             O == 0..(days - 1)
  <1>1. /\ Resolutions \in SUBSET Int /\ IsFiniteSet(Resolutions)
        /\ Reopenings \in SUBSET Int /\ IsFiniteSet(Reopenings)
    BY EventsAre, EventSets
  <1>2. ASSUME NEW S \in SUBSET Int, IsFiniteSet(S)
        PROVE  LET A == ActivityIn(S, start, now)
                   P == DaysOf(days, now, A)
               IN  /\ Parts(P, O, A) /\ AllOf(P, O) = A
                   /\ \A o \in O : P[o] = A \cap HoursOf(FirstDay(days, now) + o)
    <2> DEFINE A == ActivityIn(S, start, now)
    <2>1. A \in SUBSET Int /\ IsFiniteSet(A) /\ \A n \in A : start <= n /\ n < now
      BY <1>2, FS_Subset DEF ActivityIn
    <2> HIDE DEF A
    <2>2. Parts(DaysOf(days, now, A), O, A) /\ AllOf(DaysOf(days, now, A), O) = A
      BY <2>1, DaysShare
    <2> QED BY <2>2 DEF DaysOf, A
  <1>3. ResolutionOver(days, now, O)
            = Cardinality(ActivityIn(Resolutions, start, now))
    <2> DEFINE A == ActivityIn(Resolutions, start, now)
               P == DaysOf(days, now, A)
    <2>1. /\ Parts(P, O, A) /\ AllOf(P, O) = A
          /\ \A o \in O : P[o] = A \cap HoursOf(FirstDay(days, now) + o)
      BY <1>1, <1>2
    <2>2. \A o \in O : Trend(days, now, o).resolutions = Cardinality(P[o])
      BY <2>1, TrendIs
    <2> HIDE DEF A, P, O
    <2>3. ResolutionOver(days, now, O)
              = Cardinality(AllOf(P, O))
      BY <2>1, <2>2, ResolutionSum
    <2> QED BY <2>1, <2>3 DEF A
  <1>4. ReopeningOver(days, now, O)
            = Cardinality(ActivityIn(Reopenings, start, now))
    <2> DEFINE A == ActivityIn(Reopenings, start, now)
               P == DaysOf(days, now, A)
    <2>1. /\ Parts(P, O, A) /\ AllOf(P, O) = A
          /\ \A o \in O : P[o] = A \cap HoursOf(FirstDay(days, now) + o)
      BY <1>1, <1>2
    <2>2. \A o \in O : Trend(days, now, o).reopenings = Cardinality(P[o])
      BY <2>1, TrendIs
    <2> HIDE DEF A, P, O
    <2>3. ReopeningOver(days, now, O)
              = Cardinality(AllOf(P, O))
      BY <2>1, <2>2, ReopeningSum
    <2> QED BY <2>1, <2>3 DEF A
  <1> QED BY <1>3, <1>4

(* The findings are new on the day they were created, and on no other.     *)
LEMMA NewAddsUp ==
  ASSUME NEW days \in Nat \ {0}, NEW now \in Int
  PROVE  NewOver(days, now, 0..(days - 1))
            = NewIn(PeriodStart(days, now), now)
  <1> DEFINE start == PeriodStart(days, now)
             b == FirstDay(days, now)
             O == 0..(days - 1)
             inside == start <= 0 /\ 0 < now
             P == [o \in O |-> IF 0 \in HoursOf(b + o) /\ inside THEN Findings ELSE {}]
  <1>1. b \in Int /\ (inside => \E o \in O : 0 \in HoursOf(b + o))
    BY WindowDays
  <1>2. ASSUME NEW o \in O PROVE Trend(days, now, o).new = Cardinality(P[o])
    <2>1. Trend(days, now, o).new = IF 0 \in HoursOf(b + o) THEN NewIn(start, now) ELSE 0
      BY TrendIs
    <2>2. P[o] = IF 0 \in HoursOf(b + o) /\ inside THEN Findings ELSE {}
      OBVIOUS
    <2>3. NewIn(start, now) = IF inside THEN Cardinality(Findings) ELSE 0
      BY DEF NewIn
    <2> HIDE DEF P, b, inside, start
    <2>4. CASE 0 \in HoursOf(b + o) /\ inside
      BY <2>1, <2>2, <2>3, <2>4
    <2>5. CASE ~(0 \in HoursOf(b + o) /\ inside)
      BY <2>1, <2>2, <2>3, <2>5, FS_EmptySet
    <2> QED BY <2>4, <2>5
  <1>3. ASSUME NEW x \in O, NEW y \in O, x # y PROVE P[x] \cap P[y] = {}
    <2>1. b + x \in Int /\ b + y \in Int /\ b + x # b + y
      BY <1>1, <1>3
    <2>2. ~(0 \in HoursOf(b + x) /\ 0 \in HoursOf(b + y))
      <3> HIDE DEF b
      <3> QED BY <2>1, HourInDay
    <2>3. P[x] = {} \/ P[y] = {}
      <3> HIDE DEF b, inside
      <3> QED BY <2>2
    <2> HIDE DEF P
    <2> QED BY <2>3
  <1>4. IsFiniteSet(O)
    BY FS_Interval
  <1>5. \A o \in O : P[o] \subseteq Findings
    <2> HIDE DEF b, inside
    <2> QED OBVIOUS
  <1>6. AllOf(P, O) = IF inside THEN Findings ELSE {}
    <2>1. CASE inside
      <3>1. PICK o \in O : 0 \in HoursOf(b + o)
        BY <1>1, <2>1
      <3>2. P[o] = Findings
        BY <2>1, <3>1
      <3> HIDE DEF P, O, inside
      <3> QED BY <1>5, <2>1, <3>2 DEF AllOf
    <2>2. CASE ~inside
      <3>1. \A o \in O : P[o] = {}
        BY <2>2
      <3> HIDE DEF P, O, inside
      <3> QED BY <2>2, <3>1 DEF AllOf
    <2> QED BY <2>1, <2>2
  <1>7. Cardinality(AllOf(P, O)) = NewIn(start, now)
    <2>1. CASE inside
      BY <1>6, <2>1 DEF NewIn
    <2>2. CASE ~inside
      BY <1>6, <2>2, FS_EmptySet DEF NewIn
    <2> QED BY <2>1, <2>2
  <1> HIDE DEF P, O
  <1>8. Parts(P, O, Findings)
    BY <1>3, <1>4, <1>5, DashboardAssumption DEF Parts
  <1>9. NewOver(days, now, O) = Cardinality(AllOf(P, O))
    BY <1>2, <1>8, NewSum
  <1> QED BY <1>7, <1>9 DEF O

(* What DashboardAgrees says of a window.                                  *)
WindowAgrees(days, now) ==
    LET view == Overview(days, now)
        start == PeriodStart(days, now)
        since == Counts(now, Len(events) + 1)
        sum(Count(_)) == MapThenSumSet(LAMBDA o : Count(Trend(days, now, o)), 0..(days - 1))
    IN  /\ view.open + view.inReview = view.unresolved
        /\ view.unresolved + view.resolved = Cardinality(Findings)
        /\ view.activity.resolutions - view.activity.reopenings
            = Cardinality(ResolvedBefore(now)) - Cardinality(ResolvedBefore(start))
        /\ since.resolutions - since.reopenings
            = view.resolved - Cardinality(ResolvedBefore(now))
        /\ sum(LAMBDA t : t.new) = view.activity.new
        /\ sum(LAMBDA t : t.resolutions) = view.activity.resolutions
        /\ sum(LAMBDA t : t.reopenings) = view.activity.reopenings

(* The windows agree.                                                      *)
LEMMA WindowsAgree ==
  ASSUME MovesExplained, NEW days \in Windows,
         NEW now \in 0..(Len(events) + DayLength)
  PROVE  WindowAgrees(days, now)
  <1> DEFINE view == Overview(days, now)
             start == PeriodStart(days, now)
             since == Counts(now, Len(events) + 1)
             O == 0..(days - 1)
  <1>1. days \in Nat \ {0} /\ TypeOK /\ now \in Int /\ Len(events) \in Nat
    BY DashboardAssumption, EventsAre DEF MovesExplained
  <1>2. start \in Int /\ start <= now
    BY <1>1, WindowDays
  <1>3. /\ view.open = Cardinality(With("OPEN", Findings))
        /\ view.inReview = Cardinality(With("IN_REVIEW", Findings))
        /\ view.unresolved = Cardinality(Unresolved)
        /\ view.resolved = Cardinality(With("RESOLVED", Findings))
        /\ view.activity.new = NewIn(start, now)
        /\ view.activity.resolutions = Cardinality(ActivityIn(Resolutions, start, now))
        /\ view.activity.reopenings = Cardinality(ActivityIn(Reopenings, start, now))
        /\ since.resolutions = Cardinality(ActivityIn(Resolutions, now, Len(events) + 1))
        /\ since.reopenings = Cardinality(ActivityIn(Reopenings, now, Len(events) + 1))
    BY DEF Overview, Counts
  <1>4. /\ view.open + view.inReview = view.unresolved
        /\ view.unresolved + view.resolved = Cardinality(Findings)
    <2> HIDE DEF view
    <2> QED BY <1>1, <1>3, StatesAddUp
  <1>5. /\ view.activity.resolutions - view.activity.reopenings
            = Cardinality(ResolvedBefore(now)) - Cardinality(ResolvedBefore(start))
        /\ since.resolutions - since.reopenings
            = view.resolved - Cardinality(ResolvedBefore(now))
    <2> HIDE DEF view, start, since
    <2> QED BY <1>1, <1>2, <1>3, BacklogTold, SinceTold
  <1>6. NewOver(days, now, O) = view.activity.new
    <2> HIDE DEF view
    <2> QED BY <1>1, <1>3, NewAddsUp
  <1>7. /\ ResolutionOver(days, now, O)
              = view.activity.resolutions
        /\ ReopeningOver(days, now, O)
              = view.activity.reopenings
    <2> HIDE DEF view
    <2> QED BY <1>1, <1>3, ActivityAddsUp
  <1> HIDE DEF view, start, since
  <1> QED BY <1>4, <1>5, <1>6, <1>7, Zenon DEF WindowAgrees, view, start, since, NewOver, ResolutionOver, ReopeningOver

-----------------------------------------------------------------------------
(* The pages of the workload.                                              *)

Active == {u \in Users : WorkOf(u) # {}}
Later(cursor) == {u \in Users : WorkOf(u) # {} /\ UserId[u] > cursor}
PlaceIn(S, u) == Cardinality({v \in S : UserId[v] <= UserId[u]})
Page == [items : SUBSET Users, next : Nat]

(* The answer, by the operators above.                                     *)
LEMMA WorkloadIs ==
  ASSUME NEW c
  PROVE  /\ Workload(c).items = {u \in Later(c) : PlaceIn(Later(c), u) <= PageSize}
         /\ Workload(c).next = IF Workload(c).items = Later(c) THEN 0
                               ELSE Max({UserId[u] : u \in Workload(c).items})
  BY DEF Workload, Later, PlaceIn

(* The first of some users in the order of the identifiers.                *)
LEMMA LeastUser ==
  ASSUME NEW S \in SUBSET Users, S # {}
  PROVE  \E u \in S : \A v \in S : UserId[u] <= UserId[v]
  <1> DEFINE ids == {UserId[u] : u \in S}
  <1>1. ids \in SUBSET Nat /\ ids # {}
    BY DashboardAssumption
  <1>2. PICK i \in ids : \A j \in ids : i <= j
    <2> HIDE DEF ids
    <2> QED BY <1>1, LeastExists
  <1> QED BY <1>2

(* A page holds whoever comes before someone on it, and is not empty when  *)
(* there is someone to show.                                               *)
LEMMA PageIsPrefix ==
  ASSUME NEW S \in SUBSET Users
  PROVE  LET items == {u \in S : PlaceIn(S, u) <= PageSize} IN
         /\ \A u \in items, v \in S : UserId[v] <= UserId[u] => v \in items
         /\ S # {} => items # {}
  <1> DEFINE items == {u \in S : PlaceIn(S, u) <= PageSize}
             upto(u) == {v \in S : UserId[v] <= UserId[u]}
  <1>1. PageSize \in Nat \ {0} /\ \A u \in S : UserId[u] \in Nat
    BY DashboardAssumption
  <1>2. IsFiniteSet(S)
    BY DashboardAssumption, FS_Subset
  <1>3. \A u : IsFiniteSet(upto(u)) /\ Cardinality(upto(u)) \in Nat
    <2>1. \A u : upto(u) \subseteq S
      OBVIOUS
    <2> HIDE DEF upto
    <2> QED BY <1>2, <2>1, FS_Subset, FS_CardinalityType
  <1>4. ASSUME NEW u \in items, NEW v \in S, UserId[v] <= UserId[u] PROVE v \in items
    <2>1. upto(v) \subseteq upto(u)
      BY <1>1, <1>4
    <2>2. Cardinality(upto(u)) <= PageSize
      BY DEF PlaceIn
    <2>3. Cardinality(upto(v)) <= PageSize
      <3> HIDE DEF upto
      <3>1. Cardinality(upto(v)) <= Cardinality(upto(u))
        BY <1>3, <2>1, FS_Subset
      <3> QED BY <1>1, <1>3, <2>2, <3>1
    <2> QED BY <2>3 DEF PlaceIn
  <1>5. ASSUME S # {} PROVE items # {}
    <2>1. PICK u \in S : \A v \in S : UserId[u] <= UserId[v]
      BY <1>5, LeastUser
    <2>2. \A v \in S : UserId[v] <= UserId[u] => v = u
      BY <1>1, <2>1, DashboardAssumption
    <2>3. upto(u) = {u}
      BY <1>1, <2>2
    <2>4. Cardinality(upto(u)) = 1
      <3> HIDE DEF upto
      <3> QED BY <2>3, FS_Singleton
    <2>5. u \in items
      BY <1>1, <2>4 DEF PlaceIn
    <2> QED BY <2>5
  <1> QED BY <1>4, <1>5

(* What a page leaves for the next one.                                    *)
LEMMA OnePage ==
  ASSUME NEW c \in Nat
  PROVE  LET w == Workload(c) IN
         /\ w \in Page /\ w.items \subseteq Later(c)
         /\ w.next = 0 => w.items = Later(c)
         /\ w.next # 0 => w.items # {} /\ Later(w.next) = Later(c) \ w.items
  <1> DEFINE w == Workload(c)
             S == Later(c)
             items == {u \in S : PlaceIn(S, u) <= PageSize}
             ids == {UserId[u] : u \in items}
  <1>1. w.items = items /\ w.next = IF items = S THEN 0 ELSE Max(ids)
    BY WorkloadIs
  <1>2. S \in SUBSET Users /\ items \subseteq S
    BY DEF Later
  <1>3. w = [items |-> w.items, next |-> w.next]
    BY DEF Workload
  <1> HIDE DEF w
  <1>4. /\ \A u \in items, v \in S : UserId[v] <= UserId[u] => v \in items
        /\ S # {} => items # {}
    BY <1>2, PageIsPrefix
  <1>5. \A u \in Users : UserId[u] \in Nat \ {0}
    BY DashboardAssumption
  <1>6. \A n, u : u \in Later(n) <=> u \in Users /\ WorkOf(u) # {} /\ UserId[u] > n
    BY DEF Later
  <1> HIDE DEF S, items
  <1>7. CASE items = S
    <2>1. w.next = 0 /\ w.items = S
      BY <1>1, <1>7
    <2> QED BY <1>2, <1>3, <2>1 DEF Page, S, w
  <1>8. CASE items # S
    <2>1. PICK z \in S : z \notin items
      BY <1>2, <1>8
    <2>2. \A u \in items : UserId[u] \in 1..UserId[z]
      BY <1>2, <1>4, <1>5, <2>1
    <2>3. PICK m \in ids : \A j \in ids : j <= m
      <3>1. ids \in SUBSET (1..UserId[z]) /\ ids # {}
        BY <1>4, <2>1, <2>2
      <3>2. UserId[z] \in Nat
        BY <1>2, <1>5
      <3> HIDE DEF ids
      <3> QED BY <3>1, <3>2, GreatestExists
    <2>4. ids \in SUBSET Nat
      BY <1>2, <1>5
    <2>5. Max(ids) = m
      <3> HIDE DEF ids
      <3>1. m \in ids /\ \A y \in ids : m >= y
        BY <2>3, <2>4
      <3>2. \A x \in ids : (\A y \in ids : x >= y) => x = m
        BY <2>3, <2>4
      <3> QED BY <3>1, <3>2 DEF Max
    <2>6. PICK top \in items : UserId[top] = m
      BY <2>3
    <2>7. w.next = m /\ m \in Nat \ {0} /\ m > c /\ w.items = items /\ items # {}
      BY <1>1, <1>2, <1>5, <1>6, <1>8, <2>5, <2>6 DEF S
    <2>8. ASSUME NEW v PROVE v \in Later(m) <=> v \in S /\ v \notin items
      <3>1. v \in Later(m) => v \in S
        <4>1. v \in Users /\ UserId[v] > m => UserId[v] > c
          BY <1>5, <2>7
        <4> QED BY <1>6, <4>1 DEF S
      <3>2. v \in Later(m) => v \notin items
        <4>1. v \in items => UserId[v] <= m
          BY <2>3
        <4> QED BY <1>5, <1>6, <2>7, <4>1
      <3>3. v \in S /\ v \notin items => v \in Later(m)
        <4>1. v \in S /\ v \notin items => ~(UserId[v] <= m)
          BY <1>4, <2>6
        <4>2. v \in S => v \in Users /\ WorkOf(v) # {} /\ UserId[v] \in Nat
          BY <1>5, <1>6 DEF S
        <4> QED BY <1>6, <2>7, <4>1, <4>2
      <3> QED BY <3>1, <3>2, <3>3
    <2>9. Later(m) = S \ items
      BY <2>8
    <2> QED BY <1>2, <1>3, <2>7, <2>9 DEF Page, S, w
  <1> QED BY <1>7, <1>8

-----------------------------------------------------------------------------
(* Following the cursors.                                                  *)

Follow(before) ==
    LET last == before[Len(before)]
    IN  IF last.next = 0 THEN before ELSE Append(before, Workload(last.next))
Reading(f, n) == f = [k \in 0..n |-> IF k = 0 THEN <<Workload(0)>> ELSE Follow(f[k - 1])]

(* A client can read on as often as it likes.                              *)
LEMMA ReadingExists ==
  ASSUME NEW N \in Nat
  PROVE  \E f : Reading(f, N)
  <1> DEFINE Bad == {n \in Nat : ~ \E f : Reading(f, n)}
  <1>1. SUFFICES ASSUME Bad # {} PROVE FALSE
    OBVIOUS
  <1>2. PICK n \in Bad : \A k \in Bad : n <= k
    BY <1>1, LeastExists
  <1>3. n # 0
    <2> DEFINE f == [k \in 0..0 |-> <<Workload(0)>>]
    <2>1. \A k \in 0..0 : k = 0
      OBVIOUS
    <2>2. Reading(f, 0)
      BY <2>1 DEF Reading
    <2> HIDE DEF f
    <2> QED BY <2>2
  <1>4. PICK m \in Nat : n = m + 1
    <2>1. n - 1 \in Nat /\ n = (n - 1) + 1
      BY <1>3
    <2> QED BY <2>1
  <1>5. PICK f : Reading(f, m)
    <2>1. m \notin Bad
      BY <1>2, <1>4
    <2> QED BY <2>1
  <1> DEFINE g == [k \in 0..n |-> IF k = n THEN Follow(f[m]) ELSE f[k]]
  <1> HIDE DEF Bad
  <1>6. ASSUME NEW k \in 0..n
        PROVE  g[k] = IF k = 0 THEN <<Workload(0)>> ELSE Follow(g[k - 1])
    <2>1. CASE k = n
      <3>1. k # 0 /\ k - 1 = m /\ m \in 0..n /\ m # n
        BY <1>4, <2>1
      <3>2. g[k] = Follow(f[m]) /\ g[m] = f[m]
        BY <2>1, <3>1
      <3> QED BY <3>1, <3>2
    <2>2. CASE k # n
      <3>1. k \in 0..m
        BY <1>4, <2>2
      <3>2. f[k] = IF k = 0 THEN <<Workload(0)>> ELSE Follow(f[k - 1])
        BY <1>5, <3>1, Zenon DEF Reading
      <3>3. g[k] = f[k]
        BY <2>2
      <3>4. k # 0 => k - 1 \in 0..n /\ k - 1 # n
        BY <1>4, <3>1
      <3>5. k # 0 => g[k - 1] = f[k - 1]
        BY <3>4
      <3> HIDE DEF g
      <3> QED BY <3>2, <3>3, <3>5
    <2> QED BY <2>1, <2>2
  <1>7. Reading(g, n)
    <2>1. g = [k \in 0..n |-> g[k]]
      OBVIOUS
    <2> HIDE DEF g
    <2>2. [k \in 0..n |-> g[k]]
            = [k \in 0..n |-> IF k = 0 THEN <<Workload(0)>> ELSE Follow(g[k - 1])]
      BY <1>6
    <2> QED BY <2>1, <2>2 DEF Reading
  <1> HIDE DEF g
  <1>8. n \notin Bad
    BY <1>7 DEF Bad
  <1> QED BY <1>2, <1>8

(* What the property reads is such a reading.                              *)
LEMMA PagesReadIs ==
  \E f : Reading(f, Cardinality(Users)) /\ PagesRead = f[Cardinality(Users)]
  <1> DEFINE N == Cardinality(Users)
             f == CHOOSE g : Reading(g, N)
  <1>1. N \in Nat
    BY DashboardAssumption, FS_CardinalityType
  <1> HIDE DEF N
  <1>2. Reading(f, N)
    BY <1>1, ReadingExists
  <1>3. PagesRead = f[N]
    BY Zenon DEF PagesRead, Reading, Follow, N
  <1> HIDE DEF f
  <1> QED BY <1>2, <1>3 DEF N

(* The pages read so far share out the active assignees up to the last     *)
(* cursor, and there are at least as many as pages.                        *)
Shown(s) == UNION {s[i].items : i \in 1..Len(s)}
ReadWell(s, k) ==
    /\ s \in Seq(Page) /\ s # <<>>
    /\ \A i, j \in 1..Len(s) : i # j => s[i].items \cap s[j].items = {}
    /\ Shown(s) \subseteq Active
    /\ s[Len(s)].next = 0 => Shown(s) = Active
    /\ s[Len(s)].next # 0 =>
        /\ Later(s[Len(s)].next) = Active \ Shown(s)
        /\ Cardinality(Shown(s)) > k

(* The first page.                                                         *)
LEMMA FirstPage == ReadWell(<<Workload(0)>>, 0)
  <1> DEFINE w == Workload(0)
             s == <<w>>
  <1>1. /\ w \in Page /\ w.items \subseteq Later(0)
        /\ w.next = 0 => w.items = Later(0)
        /\ w.next # 0 => w.items # {} /\ Later(w.next) = Later(0) \ w.items
    BY OnePage
  <1>2. Later(0) = Active
    BY DashboardAssumption DEF Later, Active
  <1> HIDE DEF w
  <1>3. s \in Seq(Page) /\ s # <<>> /\ Len(s) = 1 /\ s[1] = w
    BY <1>1
  <1> HIDE DEF s
  <1>4. Shown(s) = w.items
    BY <1>3 DEF Shown
  <1>5. w.items # {} => Cardinality(w.items) > 0
    <2>1. IsFiniteSet(w.items)
      BY <1>1, <1>2, DashboardAssumption, FS_Subset DEF Active
    <2> QED BY <2>1, FS_EmptySet, FS_CardinalityType
  <1>6. \A i, j \in 1..Len(s) : i # j => s[i].items \cap s[j].items = {}
    BY <1>3
  <1>7. ReadWell(s, 0)
    BY <1>1, <1>2, <1>3, <1>4, <1>5, <1>6 DEF ReadWell
  <1> QED BY <1>7 DEF s, w

(* Every further page.                                                     *)
LEMMA NextPage ==
  ASSUME NEW s, NEW k \in Nat, ReadWell(s, k)
  PROVE  ReadWell(Follow(s), k + 1)
  <1> DEFINE c == s[Len(s)].next
             w == Workload(c)
             t == Append(s, w)
  <1>1. s \in Seq(Page) /\ s # <<>> /\ Len(s) \in Nat \ {0} /\ s[Len(s)] \in Page
    BY DEF ReadWell
  <1>2. CASE c = 0
    BY <1>2, Zenon DEF ReadWell, Follow
  <1>3. CASE c # 0
    <2>1. c \in Nat /\ Follow(s) = t
      BY <1>1, <1>3 DEF Page, Follow
    <2> HIDE DEF c
    <2>2. /\ w \in Page /\ w.items \subseteq Later(c)
          /\ w.next = 0 => w.items = Later(c)
          /\ w.next # 0 => w.items # {} /\ Later(w.next) = Later(c) \ w.items
      BY <2>1, OnePage
    <2>3. /\ Later(c) = Active \ Shown(s) /\ Shown(s) \subseteq Active
          /\ Cardinality(Shown(s)) > k
      BY <1>3 DEF ReadWell, c
    <2> HIDE DEF w
    <2>4. /\ t \in Seq(Page) /\ t # <<>> /\ Len(t) = Len(s) + 1 /\ t[Len(t)] = w
          /\ \A i \in 1..Len(s) : t[i] = s[i]
      BY <1>1, <2>2
    <2> HIDE DEF t
    <2>5. 1..Len(t) = (1..Len(s)) \cup {Len(t)}
      BY <1>1, <2>4
    <2>6. Shown(t) = Shown(s) \cup w.items
      BY <2>4, <2>5 DEF Shown
    <2>7. \A i \in 1..Len(s) : s[i].items \subseteq Shown(s)
      BY DEF Shown
    <2>8. \A i, j \in 1..Len(t) : i # j => t[i].items \cap t[j].items = {}
      <3>1. \A i, j \in 1..Len(s) : i # j => s[i].items \cap s[j].items = {}
        BY DEF ReadWell
      <3>2. \A i \in 1..Len(s) : t[i].items \cap w.items = {}
        BY <2>2, <2>3, <2>4, <2>7
      <3> QED BY <2>4, <2>5, <3>1, <3>2
    <2>9. Shown(s) \cap w.items = {} /\ Shown(t) \subseteq Active
      BY <2>2, <2>3, <2>6
    <2>10. w.next = 0 => Shown(t) = Active
      BY <2>2, <2>3, <2>6
    <2>11. w.next # 0 => Later(w.next) = Active \ Shown(t)
      BY <2>2, <2>3, <2>6
    <2>12. w.next # 0 => Cardinality(Shown(t)) > k + 1
      <3>1. IsFiniteSet(Shown(s)) /\ IsFiniteSet(w.items)
        BY <2>2, <2>3, DashboardAssumption, FS_Subset DEF Active
      <3>2. /\ Cardinality(Shown(s) \cup w.items) = Cardinality(Shown(s)) + Cardinality(w.items)
            /\ Cardinality(Shown(s)) \in Nat /\ Cardinality(w.items) \in Nat
        BY <2>9, <3>1, TwoApart
      <3>3. w.next # 0 => Cardinality(w.items) # 0
        BY <2>2, <3>1, FS_EmptySet
      <3>4. Cardinality(Shown(t)) = Cardinality(Shown(s)) + Cardinality(w.items)
        BY <2>6, <3>2, Zenon
      <3> QED BY <2>3, <3>2, <3>3, <3>4
    <2>13. ReadWell(t, k + 1)
      BY <2>4, <2>8, <2>9, <2>10, <2>11, <2>12, Zenon DEF ReadWell
    <2> QED BY <2>1, <2>13
  <1> QED BY <1>2, <1>3

(* All of them.                                                            *)
LEMMA AllPagesWell ==
  ASSUME NEW N \in Nat, NEW f, Reading(f, N)
  PROVE  \A k \in 0..N : ReadWell(f[k], k)
  <1> DEFINE Bad == {k \in 0..N : ~ReadWell(f[k], k)}
  <1>1. SUFFICES ASSUME Bad # {} PROVE FALSE
    OBVIOUS
  <1>2. PICK k \in Bad : \A j \in Bad : k <= j
    <2>1. Bad \in SUBSET Nat
      OBVIOUS
    <2> HIDE DEF Bad
    <2> QED BY <1>1, <2>1, LeastExists
  <1>3. f[k] = IF k = 0 THEN <<Workload(0)>> ELSE Follow(f[k - 1])
    BY Zenon DEF Reading
  <1>4. CASE k = 0
    BY <1>3, <1>4, FirstPage
  <1>5. CASE k # 0
    <2>1. k - 1 \in 0..N /\ k - 1 \in Nat /\ ~(k <= k - 1) /\ (k - 1) + 1 = k
      BY <1>5
    <2>2. ReadWell(f[k - 1], k - 1)
      BY <1>2, <2>1
    <2>3. ReadWell(Follow(f[k - 1]), (k - 1) + 1)
      BY <2>1, <2>2, NextPage
    <2> QED BY <1>3, <1>5, <2>1, <2>3
  <1> QED BY <1>4, <1>5

(* There are no more pages than users, so the last page read is the last.  *)
LEMMA EveryPageRead ==
  /\ PagesRead \in Seq(Page)
  /\ \A i, j \in 1..Len(PagesRead) :
        i # j => PagesRead[i].items \cap PagesRead[j].items = {}
  /\ Shown(PagesRead) = Active
  <1> DEFINE N == Cardinality(Users)
  <1>1. N \in Nat
    BY DashboardAssumption, FS_CardinalityType
  <1>2. PICK f : Reading(f, N) /\ PagesRead = f[N]
    BY PagesReadIs
  <1> HIDE DEF N
  <1>3. ReadWell(PagesRead, N)
    <2>1. N \in 0..N
      BY <1>1
    <2> QED BY <1>1, <1>2, <2>1, AllPagesWell
  <1>4. ~(Cardinality(Shown(PagesRead)) > N)
    <2>1. Shown(PagesRead) \subseteq Users
      BY <1>3 DEF ReadWell, Active
    <2>2. /\ Cardinality(Shown(PagesRead)) <= Cardinality(Users)
          /\ Cardinality(Shown(PagesRead)) \in Nat
      BY <2>1, DashboardAssumption, FS_Subset, FS_CardinalityType
    <2> QED BY <1>1, <2>2 DEF N
  <1> QED BY <1>3, <1>4 DEF ReadWell

-----------------------------------------------------------------------------
(* What DashboardAgrees says of the workload.                              *)
WorkloadAgrees ==
    LET shown == [k \in DOMAIN PagesRead |-> PagesRead[k].items]
        listed == UNION {shown[k] : k \in DOMAIN shown}
    IN  /\ \A j, k \in DOMAIN shown : j # k => shown[j] \cap shown[k] = {}
        /\ Load(None).unresolved + MapThenSumSet(LAMBDA u : Load(u).unresolved, listed)
            = Cardinality(Unresolved)

(* The unassigned row and the assignees share out the unresolved findings. *)
LEMMA LoadsAddUp ==
  ASSUME TypeOK
  PROVE  Load(None).unresolved + LoadOver(Active) = Cardinality(Unresolved)
  <1> DEFINE P == [u \in Active |-> WorkOf(u)]
             A == WorkOf(None)
             B == AllOf(P, Active)
  <1>1. \A u : Load(u).unresolved = Cardinality(WorkOf(u)) /\ WorkOf(u) \subseteq Unresolved
    BY DEF Load, WorkOf
  <1>2. \A f \in Unresolved : findings[f].assignee \in Users \cup {None}
    BY DEF TypeOK, Finding, Unresolved
  <1>3. IsFiniteSet(Unresolved) /\ IsFiniteSet(Active)
    BY DashboardAssumption, FS_Subset DEF Unresolved, Active
  <1>4. \A u \in Active : P[u] = WorkOf(u)
    OBVIOUS
  <1> HIDE DEF P
  <1>5. Parts(P, Active, Unresolved)
    <2>1. \A u, v \in Active : u # v => WorkOf(u) \cap WorkOf(v) = {}
      BY DEF WorkOf
    <2> QED BY <1>1, <1>3, <1>4, <2>1 DEF Parts
  <1>6. LoadOver(Active) = Cardinality(B)
    BY <1>1, <1>4, <1>5, LoadSum
  <1>7. A \cup B = Unresolved /\ A \cap B = {}
    <2>1. \A f \in Unresolved : findings[f].assignee # None => f \in B
      <3> SUFFICES ASSUME NEW f \in Unresolved, findings[f].assignee # None PROVE f \in B
        OBVIOUS
      <3> DEFINE u == findings[f].assignee
      <3>1. u \in Users /\ f \in WorkOf(u)
        BY <1>2 DEF WorkOf
      <3>2. u \in Active
        BY <3>1 DEF Active
      <3> QED BY <1>4, <3>1, <3>2 DEF AllOf
    <2>2. \A f \in B : f \in Unresolved /\ findings[f].assignee \in Users
      BY <1>4 DEF AllOf, WorkOf, Active
    <2>3. \A f : f \in A <=> f \in Unresolved /\ findings[f].assignee = None
      BY DEF WorkOf
    <2>4. None \notin Users
      BY ValueAssumption
    <2> HIDE DEF A, B
    <2> QED BY <2>1, <2>2, <2>3, <2>4
  <1> HIDE DEF A, B
  <1>8. IsFiniteSet(A) /\ IsFiniteSet(B)
    BY <1>3, <1>7, FS_Subset
  <1>9. Cardinality(A \cup B) = Cardinality(A) + Cardinality(B)
    BY <1>7, <1>8, TwoApart
  <1>10. Cardinality(Unresolved) = Cardinality(A) + Cardinality(B)
    BY <1>7, <1>9, Zenon
  <1> QED BY <1>1, <1>6, <1>10 DEF A

(* The workload agrees.                                                    *)
LEMMA TheWorkloadAgrees ==
  ASSUME TypeOK
  PROVE  WorkloadAgrees
  <1> DEFINE shown == [k \in DOMAIN PagesRead |-> PagesRead[k].items]
             listed == UNION {shown[k] : k \in DOMAIN shown}
  <1>1. DOMAIN PagesRead = 1..Len(PagesRead)
    BY EveryPageRead
  <1>2. DOMAIN shown = 1..Len(PagesRead) /\ \A k \in DOMAIN shown : shown[k] = PagesRead[k].items
    BY <1>1
  <1>3. \A j, k \in DOMAIN shown : j # k => shown[j] \cap shown[k] = {}
    <2> HIDE DEF shown
    <2> QED BY <1>2, EveryPageRead
  <1>4. listed = Active
    <2> HIDE DEF shown
    <2> QED BY <1>2, EveryPageRead DEF Shown
  <1>5. Load(None).unresolved + LoadOver(listed) = Cardinality(Unresolved)
    <2> HIDE DEF listed
    <2> QED BY <1>4, LoadsAddUp
  <1> HIDE DEF listed, shown
  <1> QED BY <1>3, <1>5, Zenon DEF WorkloadAgrees, LoadOver, listed, shown

(* Every figure of the dashboard follows from the history.                 *)
LEMMA HistoryAgrees == HistoryInv => DashboardAgrees
  <1>1. SUFFICES ASSUME HistoryInv PROVE DashboardAgrees
    OBVIOUS
  <1>2. MovesExplained /\ TypeOK
    BY <1>1, HistoryExplainsMoves DEF HistoryInv
  <1>3. \A days \in Windows, now \in 0..(Len(events) + DayLength) :
            WindowAgrees(days, now)
    BY <1>2, WindowsAgree
  <1>4. WorkloadAgrees
    BY <1>2, TheWorkloadAgrees
  <1> QED BY <1>3, <1>4, Zenon DEF DashboardAgrees, WindowAgrees, WorkloadAgrees

(* The figures of the dashboard agree with one another and with the        *)
(* history, in every window of days and over all pages of the workload.    *)
THEOREM TheDashboardAgrees == Spec => []DashboardAgrees
  BY InitHistory, NextHistory, HistoryAgrees, PTL DEF Spec
=============================================================================
