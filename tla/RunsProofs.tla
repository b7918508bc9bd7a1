----------------------------- MODULE RunsProofs -----------------------------
(***************************************************************************)
(* What holds of every organization's runs, for any people, requests,      *)
(* governance and clocks.                                                  *)
(*                                                                         *)
(* The argument: the row lock keeps the run a request has loaded the one   *)
(* that is stored (Fresh), from the comparison of versions to the commit;  *)
(* and somebody in deposed is not entitled, so the second authorization of *)
(* an upload stops it (Stopped).                                           *)
(***************************************************************************)
EXTENDS Runs, FiniteSetTheorems, WellFoundedInduction, TLAPS

(* Where an upload and a change can be.                                    *)
Fits(r) ==
    /\ phase[r] \in {"analyse", "authorize", "save"} => request[r].kind = "CREATE"
    /\ phase[r] \in {"lock", "checks", "commit"} => request[r].kind \in Changes
    /\ runs[r] # None => phase[r] = "done"
PhaseFits == \A r \in Requests : Fits(r)

Locking(r) == phase[r] \in {"checks", "commit"}
LocksHeld ==
    \A r \in Requests : locks[r] = IF Locking(r) THEN {request[r].run} ELSE {}
LocksExclusive ==
    \A q, r \in Requests :
        q # r /\ Locking(q) /\ Locking(r) => request[q].run # request[r].run

(* What a request works on is the row that is stored, at the version its   *)
(* client saw.                                                             *)
Fresh ==
    \A r \in Requests :
        /\ Locking(r) => loaded[r] # None /\ loaded[r] = runs[request[r].run]
        /\ phase[r] = "commit" => loaded[r].version = request[r].seen

InOrder == \A n \in Requests : runs[n] # None => ConstraintsAccept(runs[n])

(* An uploader in deposed is not entitled, and is before the second        *)
(* authorization or stopped.                                               *)
Stopped ==
    \A r \in deposed : ~Entitled(r) /\ phase[r] \in {"authorize", "done"}

IInv ==
    /\ TypeOK /\ PhaseFits /\ LocksHeld /\ LocksExclusive /\ Fresh /\ InOrder /\ Stopped
    /\ AuditExplainsRuns /\ DeposedSaveNothing /\ ArchivesSucceed

-----------------------------------------------------------------------------
(* The first state.                                                        *)

LEMMA InitInv == Init => IInv
  <1> SUFFICES ASSUME Init PROVE IInv
    OBVIOUS
  <1>1. TypeOK
    BY MembershipAssumption, LoadAssumption, TimeAssumption DEF Init, TypeOK, Phase, Reply
  <1>2. PhaseFits /\ LocksHeld /\ LocksExclusive /\ Fresh /\ InOrder /\ Stopped
    BY DEF Init, PhaseFits, Fits, LocksHeld, LocksExclusive, Fresh, InOrder, Stopped, Locking
  <1>3. AuditExplainsRuns
    <2>1. \A n \in Requests : runs[n] = None /\ Of(n) = {}
      BY DEF Init, Of
    <2> QED BY <2>1 DEF AuditExplainsRuns
  <1>4. DeposedSaveNothing /\ ArchivesSucceed
    BY DEF Init, DeposedSaveNothing, ArchivesSucceed
  <1> QED BY <1>1, <1>2, <1>3, <1>4 DEF IInv

-----------------------------------------------------------------------------
(* Steps that write no table.                                              *)

LEMMA TablesKept ==
  ASSUME AuditExplainsRuns, InOrder, UNCHANGED tables
  PROVE  AuditExplainsRuns' /\ InOrder'
  <1>1. runs' = runs /\ events' = events
    BY DEF tables
  <1>2. \A n : Of(n)' = Of(n) /\ Filed(n)' = Filed(n)
    BY <1>1 DEF Of, Filed
  <1>3. AuditExplainsRuns'
    BY <1>1, <1>2, Zenon DEF AuditExplainsRuns
  <1> QED BY <1>1, <1>3 DEF InOrder, ConstraintsAccept

LEMMA ArriveInv == ASSUME IInv, NEW r \in Requests, Arrive(r) PROVE IInv'
  <1> USE DEF IInv
  <1>1. AuditExplainsRuns' /\ InOrder'
    BY TablesKept DEF Arrive
  <1>2. TypeOK'
    BY DEF Arrive, TypeOK, tables, world, Finish, Goto, Phase, Reply
  <1>3. PhaseFits'
    BY DEF Arrive, PhaseFits, Fits, TypeOK, tables, world, Finish, Goto, Changes, Request
  <1>4. LocksHeld' /\ LocksExclusive' /\ Fresh'
    <2>1. LocksHeld'
      BY DEF Arrive, LocksHeld, Locking, TypeOK, tables, world, Finish, Goto
    <2>2. LocksExclusive'
      BY DEF Arrive, LocksExclusive, Locking, TypeOK, tables, world, Finish, Goto
    <2>3. Fresh'
      BY DEF Arrive, Fresh, Locking, TypeOK, tables, world, Finish, Goto
    <2> QED BY <2>1, <2>2, <2>3
  <1>5. Stopped'
    BY DEF Arrive, Stopped, TypeOK, tables, world, Finish, Goto, Entitled
  <1>6. DeposedSaveNothing' /\ ArchivesSucceed'
    BY DEF Arrive, DeposedSaveNothing, ArchivesSucceed, TypeOK, tables, world, Finish, Goto
  <1> QED BY <1>1, <1>2, <1>3, <1>4, <1>5, <1>6

LEMMA AnalyseInv == ASSUME IInv, NEW r \in Requests, Analyse(r) PROVE IInv'
  <1> USE DEF IInv
  <1>1. AuditExplainsRuns' /\ InOrder'
    BY TablesKept DEF Analyse
  <1>2. TypeOK'
    BY DEF Analyse, TypeOK, tables, world, Finish, Goto, Phase, Reply
  <1>3. PhaseFits'
    BY DEF Analyse, PhaseFits, Fits, TypeOK, tables, world, Finish, Goto
  <1>4. LocksHeld' /\ LocksExclusive' /\ Fresh'
    <2>1. LocksHeld'
      BY DEF Analyse, LocksHeld, Locking, TypeOK, tables, world, Finish, Goto
    <2>2. LocksExclusive'
      BY DEF Analyse, LocksExclusive, Locking, TypeOK, tables, world, Finish, Goto
    <2>3. Fresh'
      BY DEF Analyse, Fresh, Locking, TypeOK, tables, world, Finish, Goto
    <2> QED BY <2>1, <2>2, <2>3
  <1>5. Stopped'
    BY DEF Analyse, Stopped, TypeOK, tables, world, Finish, Goto, Entitled
  <1>6. DeposedSaveNothing' /\ ArchivesSucceed'
    BY DEF Analyse, DeposedSaveNothing, ArchivesSucceed, Stopped, PhaseFits, Fits,
           TypeOK, tables, world, Finish, Goto
  <1> QED BY <1>1, <1>2, <1>3, <1>4, <1>5, <1>6

LEMMA AuthorizeInv == ASSUME IInv, NEW r \in Requests, Authorize(r) PROVE IInv'
  <1> USE DEF IInv
  <1>1. AuditExplainsRuns' /\ InOrder'
    BY TablesKept DEF Authorize
  <1>2. TypeOK'
    BY DEF Authorize, TypeOK, tables, world, Finish, Goto, Phase, Reply
  <1>3. PhaseFits'
    BY DEF Authorize, PhaseFits, Fits, TypeOK, tables, world, Finish, Goto
  <1>4. LocksHeld' /\ LocksExclusive' /\ Fresh'
    <2>1. LocksHeld'
      BY DEF Authorize, LocksHeld, Locking, TypeOK, tables, world, Finish, Goto
    <2>2. LocksExclusive'
      BY DEF Authorize, LocksExclusive, Locking, TypeOK, tables, world, Finish, Goto
    <2>3. Fresh'
      BY DEF Authorize, Fresh, Locking, TypeOK, tables, world, Finish, Goto
    <2> QED BY <2>1, <2>2, <2>3
  <1>5. Stopped'
    BY DEF Authorize, Stopped, TypeOK, tables, world, Finish, Goto, Entitled
  <1>6. DeposedSaveNothing' /\ ArchivesSucceed'
    BY DEF Authorize, DeposedSaveNothing, ArchivesSucceed, Stopped, PhaseFits, Fits,
           TypeOK, tables, world, Finish, Goto
  <1> QED BY <1>1, <1>2, <1>3, <1>4, <1>5, <1>6

LEMMA CheckInv == ASSUME IInv, NEW r \in Requests, Check(r) PROVE IInv'
  <1> USE DEF IInv
  <1>1. AuditExplainsRuns' /\ InOrder'
    BY TablesKept DEF Check
  <1>2. TypeOK'
    BY DEF Check, TypeOK, tables, world, Finish, Goto, Phase, Reply
  <1>3. PhaseFits'
    BY DEF Check, PhaseFits, Fits, TypeOK, tables, world, Finish, Goto
  <1>4. LocksHeld' /\ LocksExclusive' /\ Fresh'
    <2>1. LocksHeld'
      BY DEF Check, LocksHeld, Locking, TypeOK, tables, world, Finish, Goto
    <2>2. LocksExclusive'
      BY DEF Check, LocksExclusive, Locking, TypeOK, tables, world, Finish, Goto
    <2>3. Fresh'
      BY DEF Check, Fresh, Locking, TypeOK, tables, world, Finish, Goto
    <2> QED BY <2>1, <2>2, <2>3
  <1>5. Stopped'
    BY DEF Check, Stopped, TypeOK, tables, world, Finish, Goto, Entitled
  <1>6. DeposedSaveNothing' /\ ArchivesSucceed'
    BY DEF Check, DeposedSaveNothing, ArchivesSucceed, Stopped, PhaseFits, Fits,
           TypeOK, tables, world, Finish, Goto
  <1> QED BY <1>1, <1>2, <1>3, <1>4, <1>5, <1>6

LEMMA RollbackInv == ASSUME IInv, NEW r \in Requests, Rollback(r) PROVE IInv'
  <1> USE DEF IInv
  <1>1. AuditExplainsRuns' /\ InOrder'
    BY TablesKept DEF Rollback
  <1>2. TypeOK'
    BY DEF Rollback, TypeOK, tables, world, Finish, Goto, Phase, Reply
  <1>3. PhaseFits'
    BY DEF Rollback, PhaseFits, Fits, TypeOK, tables, world, Finish, Goto
  <1>4. LocksHeld' /\ LocksExclusive' /\ Fresh'
    <2>1. LocksHeld'
      BY DEF Rollback, LocksHeld, Locking, TypeOK, tables, world, Finish, Goto
    <2>2. LocksExclusive'
      BY DEF Rollback, LocksExclusive, Locking, TypeOK, tables, world, Finish, Goto
    <2>3. Fresh'
      BY DEF Rollback, Fresh, Locking, TypeOK, tables, world, Finish, Goto
    <2> QED BY <2>1, <2>2, <2>3
  <1>5. Stopped'
    BY DEF Rollback, Stopped, TypeOK, tables, world, Finish, Goto, Entitled
  <1>6. DeposedSaveNothing' /\ ArchivesSucceed'
    BY DEF Rollback, DeposedSaveNothing, ArchivesSucceed, Stopped, PhaseFits, Fits,
           TypeOK, tables, world, Finish, Goto
  <1> QED BY <1>1, <1>2, <1>3, <1>4, <1>5, <1>6

LEMMA LockRunInv == ASSUME IInv, NEW r \in Requests, LockRun(r) PROVE IInv'
  <1> USE DEF IInv
  <1> DEFINE n == request[r].run
  <1>1. AuditExplainsRuns' /\ InOrder'
    BY TablesKept DEF LockRun
  <1>2. n \in Requests /\ runs[n] \in Run \cup {None}
    BY DEF TypeOK, Request
  <1>3. TypeOK'
    <2>1. UNCHANGED <<tables, world, request, deposed>> /\ loaded' = [loaded EXCEPT ![r] = runs[n]]
      BY DEF LockRun
    <2>2. /\ phase' \in [Requests -> Phase] /\ reply' \in [Requests -> Reply]
          /\ locks' \in [Requests -> SUBSET Requests]
      <3>1. CASE runs[n] = None
        BY <3>1 DEF LockRun, TypeOK, Finish, Phase, Reply
      <3>2. CASE runs[n] # None
        BY <1>2, <3>2 DEF LockRun, TypeOK, Phase, Reply
      <3> QED BY <3>1, <3>2
    <2> QED BY <1>2, <2>1, <2>2 DEF TypeOK, tables, world
  <1>4. PhaseFits'
    BY DEF LockRun, PhaseFits, Fits, TypeOK, tables, world, Finish, Goto
  <1>5. LocksHeld'
    <2>1. CASE runs[n] = None
      BY <2>1 DEF LockRun, LocksHeld, Locking, TypeOK, world, Finish
    <2>2. CASE runs[n] # None
      BY <2>2 DEF LockRun, LocksHeld, Locking, TypeOK, world
    <2> QED BY <2>1, <2>2
  <1>6. LocksExclusive'
    <2>1. \A q \in Requests \ {r} : Locking(q) => request[q].run # n
      BY DEF LockRun, Free, LocksHeld
    <2> QED BY <2>1 DEF LockRun, LocksExclusive, Locking, TypeOK, world, Finish
  <1>7. Fresh'
    BY DEF LockRun, Fresh, Locking, TypeOK, tables, world, Finish
  <1>8. Stopped'
    BY DEF LockRun, Stopped, TypeOK, tables, world, Finish, Entitled
  <1>9. DeposedSaveNothing' /\ ArchivesSucceed'
    BY DEF LockRun, DeposedSaveNothing, ArchivesSucceed, TypeOK, tables, world, Finish
  <1> QED BY <1>1, <1>3, <1>4, <1>5, <1>6, <1>7, <1>8, <1>9

-----------------------------------------------------------------------------
(* Steps of the world.                                                     *)

LEMMA GovernInv == ASSUME IInv, NEW u \in Users, Govern(u) PROVE IInv'
  <1> USE DEF IInv
  <1>1. AuditExplainsRuns' /\ InOrder'
    BY TablesKept DEF Govern
  <1>2. TypeOK'
    BY MembershipAssumption DEF Govern, TypeOK, tables
  <1>3. PhaseFits' /\ LocksHeld' /\ LocksExclusive' /\ Fresh'
    BY DEF Govern, PhaseFits, Fits, LocksHeld, LocksExclusive, Fresh, Locking, tables
  <1>4. Stopped'
    BY DEF Govern, Stopped, StillDeposed, Entitled
  <1>5. DeposedSaveNothing' /\ ArchivesSucceed'
    BY DEF Govern, DeposedSaveNothing, ArchivesSucceed, tables
  <1> QED BY <1>1, <1>2, <1>3, <1>4, <1>5

LEMMA SignOutInv == ASSUME IInv, NEW u \in Users, SignOut(u) PROVE IInv'
  <1> USE DEF IInv
  <1>1. AuditExplainsRuns' /\ InOrder'
    BY TablesKept DEF SignOut
  <1>2. TypeOK'
    BY DEF SignOut, TypeOK, tables
  <1>3. PhaseFits' /\ LocksHeld' /\ LocksExclusive' /\ Fresh'
    BY DEF SignOut, PhaseFits, Fits, LocksHeld, LocksExclusive, Fresh, Locking, tables
  <1>4. Stopped'
    BY DEF SignOut, Stopped, Entitled
  <1>5. DeposedSaveNothing' /\ ArchivesSucceed'
    BY DEF SignOut, DeposedSaveNothing, ArchivesSucceed, tables
  <1> QED BY <1>1, <1>2, <1>3, <1>4, <1>5

LEMMA TickInv == ASSUME IInv, Tick PROVE IInv'
  <1> USE DEF IInv
  <1>1. AuditExplainsRuns' /\ InOrder'
    BY TablesKept DEF Tick
  <1>2. TypeOK'
    BY TimeAssumption DEF Tick, TypeOK, tables
  <1>3. PhaseFits' /\ LocksHeld' /\ LocksExclusive' /\ Fresh'
    BY DEF Tick, PhaseFits, Fits, LocksHeld, LocksExclusive, Fresh, Locking, tables
  <1>4. Stopped' /\ DeposedSaveNothing' /\ ArchivesSucceed'
    BY DEF Tick, Stopped, Entitled, DeposedSaveNothing, ArchivesSucceed, tables
  <1> QED BY <1>1, <1>2, <1>3, <1>4

-----------------------------------------------------------------------------
(* Steps that write a run and its audit event.                             *)

LEMMA EventAdded ==
  ASSUME TypeOK, NEW e \in Event, events' = Append(events, e)
  PROVE  LET new == Len(events) + 1 IN
         /\ events'[new] = e
         /\ \A k \in 1..Len(events) : events'[k] = events[k]
         /\ Of(e.run)' = Of(e.run) \cup {new}
         /\ \A n : n # e.run => Of(n)' = Of(n)
  <1>1. Len(events) \in Nat /\ events \in Seq(Event)
    BY DEF TypeOK
  <1>2. /\ Len(events') = Len(events) + 1
        /\ events'[Len(events) + 1] = e
        /\ \A k \in 1..Len(events) : events'[k] = events[k]
    BY <1>1
  <1>3. DOMAIN events = 1..Len(events) /\ DOMAIN events' = 1..(Len(events) + 1)
    BY <1>1
  <1> QED BY <1>1, <1>2, <1>3 DEF Of

LEMMA EventsAreFinite ==
  ASSUME TypeOK, NEW n, NEW S \in SUBSET Of(n)
  PROVE  /\ S \subseteq 1..Len(events) /\ Len(events) \in Nat
         /\ IsFiniteSet(S) /\ Cardinality(S) \in Nat
  <1>1. S \subseteq 1..Len(events) /\ Len(events) \in Nat
    BY DEF TypeOK, Of
  <1>2. IsFiniteSet(1..Len(events))
    BY <1>1, FS_Interval
  <1> QED BY <1>1, <1>2, FS_Subset, FS_CardinalityType

LEMMA LatestIs ==
  ASSUME NEW S \in SUBSET Nat, NEW k \in S, \A j \in S : j <= k
  PROVE  Latest(S) = k
  <1>1. \A i \in S : (\A j \in S : j <= i) => i = k
    OBVIOUS
  <1> QED BY <1>1 DEF Latest

(* A set of natural numbers has a least element; so a set below a bound has*)
(* a greatest.                                                             *)
LEMMA LeastExists ==
  ASSUME NEW S \in SUBSET Nat, S # {}
  PROVE  \E k \in S : \A j \in S : k <= j
  <1> DEFINE R == {pair \in Nat \X Nat : pair[1] < pair[2]}
  <1>1. IsWellFoundedOn(R, Nat)
    BY NatLessThanWellFounded DEF OpToRel
  <1>2. PICK k \in S : \A j \in S : <<j, k>> \notin R
    <2> HIDE DEF R
    <2> QED BY <1>1, WFMin
  <1>3. ASSUME NEW j \in S PROVE k <= j
    <2>1. j \in Nat /\ k \in Nat /\ <<j, k>> \notin R
      BY <1>2
    <2> QED BY <2>1
  <1> QED BY <1>3

LEMMA LatestExists ==
  ASSUME NEW n \in Nat, NEW S \in SUBSET (1..n), S # {}
  PROVE  Latest(S) \in S
  <1> DEFINE T == {n - k : k \in S}
  <1>1. T \in SUBSET Nat /\ T # {}
    <2>1. \A k \in S : n - k \in Nat
      OBVIOUS
    <2>2. PICK k : k \in S
      OBVIOUS
    <2>3. n - k \in T
      BY <2>2
    <2> QED BY <2>1, <2>3
  <1>2. PICK d \in T : \A c \in T : d <= c
    BY <1>1, LeastExists
  <1>3. PICK k \in S : d = n - k
    BY <1>2
  <1>4. ASSUME NEW j \in S PROVE j <= k
    <2>1. n - j \in T
      OBVIOUS
    <2>2. n - k <= n - j
      BY <1>2, <1>3, <2>1
    <2> QED BY <2>2
  <1> QED BY <1>4, LatestIs

LEMMA AuditStep ==
  ASSUME TypeOK, AuditExplainsRuns,
         NEW e \in Event, NEW row \in Run,
         runs' = [runs EXCEPT ![e.run] = row],
         events' = Append(events, e),
         row.version = IF runs[e.run] = None THEN 1 ELSE runs[e.run].version + 1,
         e.after = row.version, e.before = e.after - 1,
         runs[e.run] = None <=> e.type = "ANALYSIS_COMPLETED",
         IF runs[e.run] = None THEN row.creator = e.actor
                               ELSE row.creator = runs[e.run].creator,
         row.archivedAt # None <=>
            \/ e.type = "RUN_ARCHIVED"
            \/ e.type = "RUN_METADATA_UPDATED" /\ runs[e.run].archivedAt # None
  PROVE  AuditExplainsRuns'
  <1> DEFINE n == e.run
             new == Len(events) + 1
             Explained(m) ==
                /\ runs[m] = None <=> Of(m) = {}
                /\ runs[m] # None =>
                    /\ runs[m].version = Cardinality(Of(m))
                    /\ \A k \in Of(m) :
                        LET earlier == {j \in Of(m) : j < k} IN
                        /\ events[k].after = Cardinality(earlier) + 1
                        /\ events[k].before = events[k].after - 1
                        /\ earlier = {} <=> events[k].type = "ANALYSIS_COMPLETED"
                        /\ earlier = {} => events[k].actor = runs[m].creator
                    /\ runs[m].archivedAt # None <=>
                        Filed(m) # {} /\ events[Latest(Filed(m))].type = "RUN_ARCHIVED"
  <1>1. n \in Requests /\ Len(events) \in Nat
    BY DEF Event, TypeOK
  <1>2. \A m \in Requests : Explained(m)
    BY DEF AuditExplainsRuns
  <1>3. /\ events'[new] = e /\ \A k \in 1..Len(events) : events'[k] = events[k]
        /\ Of(n)' = Of(n) \cup {new} /\ \A m : m # n => Of(m)' = Of(m)
    BY EventAdded
  <1>4. \A m : Of(m) \subseteq 1..Len(events)
    BY EventsAreFinite
  <1>5. row # None /\ runs'[n] = row
    BY <1>1, RowAssumption DEF TypeOK
  <1>6. ASSUME NEW m \in Requests, m # n PROVE Explained(m)'
    <2>1. Of(m)' = Of(m) /\ runs'[m] = runs[m]
      BY <1>3, <1>6 DEF TypeOK
    <2>2. \A k \in Of(m) : events'[k] = events[k]
      BY <1>3, <1>4
    <2>3. Filed(m)' = Filed(m) /\ Filed(m) \subseteq Of(m)
      BY <2>1, <2>2 DEF Filed
    <2>4. Explained(m)
      BY <1>2, <1>6
    <2>5. /\ (runs[m] = None <=> Of(m) = {})'
          /\ runs'[m] # None => runs'[m].version = Cardinality(Of(m)')
      BY <2>1, <2>4
    <2>6. ASSUME runs'[m] # None, NEW k \in Of(m)'
          PROVE  LET earlier == {j \in Of(m)' : j < k} IN
                 /\ events'[k].after = Cardinality(earlier) + 1
                 /\ events'[k].before = events'[k].after - 1
                 /\ earlier = {} <=> events'[k].type = "ANALYSIS_COMPLETED"
                 /\ earlier = {} => events'[k].actor = runs'[m].creator
      <3>1. k \in Of(m) /\ events'[k] = events[k] /\ runs[m] # None
        BY <2>1, <2>2, <2>6
      <3>2. {j \in Of(m)' : j < k} = {j \in Of(m) : j < k}
        BY <2>1
      <3> QED BY <2>1, <2>4, <3>1, <3>2
    <2>7. ASSUME runs'[m] # None
          PROVE  runs'[m].archivedAt # None <=>
                    Filed(m)' # {} /\ events'[Latest(Filed(m)')].type = "RUN_ARCHIVED"
      <3>1. CASE Filed(m) = {}
        BY <2>1, <2>3, <2>4, <2>7, <3>1
      <3>2. CASE Filed(m) # {}
        <4>1. Latest(Filed(m)) \in Filed(m)
          BY <1>1, <1>4, <2>3, <3>2, LatestExists
        <4> QED BY <2>1, <2>2, <2>3, <2>4, <2>7, <4>1
      <3> QED BY <3>1, <3>2
    <2> QED BY <2>5, <2>6, <2>7
  <1>7. Explained(n)'
    <2> DEFINE seen == Cardinality(Of(n))
    <2>1. Explained(n) /\ Of(n) \subseteq 1..Len(events) /\ seen \in Nat
      BY <1>1, <1>2, EventsAreFinite
    <2>2. seen = IF runs[n] = None THEN 0 ELSE runs[n].version
      BY <2>1, FS_EmptySet
    <2>3. IsFiniteSet(Of(n))
      BY EventsAreFinite
    <2>4. new \notin Of(n) /\ Of(n)' # {} /\ Cardinality(Of(n)') = seen + 1
      <3>1. new \notin Of(n) /\ Of(n)' = Of(n) \cup {new}
        BY <1>1, <1>3, <2>1
      <3>2. Cardinality(Of(n) \cup {new}) = seen + 1
        BY <2>3, <3>1, FS_AddElement
      <3> QED BY <3>1, <3>2
    <2>5. row.version = seen + 1 /\ row \in Run
      BY <2>2
    <2>6. (runs[n] = None <=> Of(n) = {})' /\ runs'[n].version = Cardinality(Of(n)')
      BY <1>5, <2>4, <2>5
    <2>7. ASSUME NEW k \in Of(n)'
          PROVE  LET earlier == {j \in Of(n)' : j < k} IN
                 /\ events'[k].after = Cardinality(earlier) + 1
                 /\ events'[k].before = events'[k].after - 1
                 /\ earlier = {} <=> events'[k].type = "ANALYSIS_COMPLETED"
                 /\ earlier = {} => events'[k].actor = runs'[n].creator
      <3> DEFINE earlier == {j \in Of(n)' : j < k}
      <3>1. CASE k = new
        <4>1. earlier = Of(n)
          BY <1>1, <1>3, <2>1, <3>1
        <4>2. events'[k] = e
          BY <1>3, <3>1
        <4>3. Of(n) = {} <=> runs[n] = None
          BY <2>1
        <4> QED BY <1>5, <2>5, <4>1, <4>2, <4>3
      <3>2. CASE k # new
        <4>1. k \in Of(n) /\ k \in 1..Len(events) /\ events'[k] = events[k]
          BY <1>3, <2>1, <3>2
        <4>2. earlier = {j \in Of(n) : j < k}
          BY <1>1, <1>3, <4>1
        <4>3. runs[n] # None /\ row.creator = runs[n].creator
          BY <2>1, <4>1
        <4> QED BY <1>5, <2>1, <4>1, <4>2, <4>3
      <3> QED BY <3>1, <3>2
    <2>8. runs'[n].archivedAt # None <=>
            Filed(n)' # {} /\ events'[Latest(Filed(n)')].type = "RUN_ARCHIVED"
      <3>1. Filed(n) \subseteq Of(n) /\ \A k \in Of(n) : events'[k] = events[k]
        BY <1>3, <2>1 DEF Filed
      <3>2. CASE e.type \in {"RUN_ARCHIVED", "RUN_RESTORED"}
        <4>1. Filed(n)' = Filed(n) \cup {new}
          BY <1>3, <3>1, <3>2 DEF Filed
        <4>2. Latest(Filed(n)') = new
          <5>1. /\ Filed(n)' \in SUBSET Nat /\ new \in Filed(n)'
                /\ \A j \in Filed(n)' : j <= new
            BY <1>1, <2>1, <3>1, <4>1
          <5> QED BY <5>1, LatestIs
        <4> QED BY <1>3, <1>5, <3>2, <4>1, <4>2
      <3>3. CASE e.type \notin {"RUN_ARCHIVED", "RUN_RESTORED"}
        <4>1. Filed(n)' = Filed(n)
          BY <1>3, <2>1, <2>4, <3>1, <3>3 DEF Filed
        <4>2. CASE Filed(n) = {}
          BY <1>5, <2>1, <3>3, <4>1, <4>2
        <4>3. CASE Filed(n) # {}
          <5>1. Latest(Filed(n)) \in Filed(n)
            BY <1>1, <2>1, <3>1, <4>3, LatestExists
          <5>2. runs[n] # None /\ e.type = "RUN_METADATA_UPDATED"
            BY <2>1, <3>1, <3>3, <4>3 DEF Event, EventType
          <5>3. events'[Latest(Filed(n)')].type = events[Latest(Filed(n))].type
            BY <3>1, <4>1, <5>1
          <5> QED BY <1>5, <2>1, <4>1, <4>3, <5>2, <5>3
        <4> QED BY <4>2, <4>3
      <3> QED BY <3>2, <3>3
    <2> QED BY <2>6, <2>7, <2>8
  <1>8. \A m \in Requests : Explained(m)'
    <2> HIDE DEF Explained
    <2> QED BY <1>6, <1>7
  <1> QED BY <1>8, Zenon DEF AuditExplainsRuns

LEMMA SaveInv == ASSUME IInv, NEW r \in Requests, Save(r) PROVE IInv'
  <1> USE DEF IInv
  <1>1. CASE UNCHANGED tables /\ Finish(r, "rejected")
    <2>1. AuditExplainsRuns' /\ InOrder'
      BY <1>1, TablesKept
    <2>2. TypeOK'
      BY <1>1 DEF Save, TypeOK, tables, world, Finish, Phase, Reply
    <2>3. PhaseFits' /\ LocksHeld' /\ LocksExclusive' /\ Fresh'
      BY <1>1 DEF Save, PhaseFits, Fits, LocksHeld, LocksExclusive, Fresh, Locking, TypeOK,
                  tables, world, Finish
    <2>4. Stopped' /\ DeposedSaveNothing' /\ ArchivesSucceed'
      BY <1>1 DEF Save, Stopped, Entitled, DeposedSaveNothing, ArchivesSucceed, TypeOK,
                  tables, world, Finish
    <2> QED BY <2>1, <2>2, <2>3, <2>4
  <1>2. CASE ~(UNCHANGED tables /\ Finish(r, "rejected"))
    <2> DEFINE e == [run |-> r, type |-> "ANALYSIS_COMPLETED", actor |-> request[r].actor,
                     before |-> 0, after |-> 1, fields |-> {}]
               row(now) == [creator |-> request[r].actor, createdAt |-> now, title |-> None,
                            note |-> None, archivedAt |-> None, version |-> 1]
    <2>1. PICK now \in Reading : runs' = [runs EXCEPT ![r] = row(now)]
      BY <1>2, Zenon DEF Save
    <2>2. events' = Append(events, e) /\ Finish(r, "ok") /\ phase[r] = "save"
          /\ UNCHANGED <<world, request, loaded, deposed>>
      BY <1>2, Zenon DEF Save
    <2>3. row(now) \in Run /\ e \in Event
      BY DEF Run, Event, EventType, TypeOK, Reading, Request
    <2>4. runs[r] = None /\ r \notin deposed /\ ~Locking(r)
      BY <2>2 DEF PhaseFits, Fits, Stopped, Locking
    <2> HIDE DEF e
    <2>5. e.run = r
      BY DEF e
    <2>6. AuditExplainsRuns'
      <3>1. /\ row(now).version = 1 /\ e.after = 1 /\ e.before = 0
            /\ e.type = "ANALYSIS_COMPLETED" /\ e.actor = row(now).creator
            /\ row(now).archivedAt = None
        BY DEF e
      <3> HIDE DEF row
      <3>2. /\ runs' = [runs EXCEPT ![e.run] = row(now)] /\ runs[e.run] = None
            /\ e.after - 1 = 0
        BY <2>1, <2>4, <2>5, <3>1
      <3> QED BY <2>2, <2>3, <3>1, <3>2, AuditStep
    <2>7. TypeOK'
      BY <2>1, <2>2, <2>3 DEF TypeOK, world, Finish, Phase, Reply
    <2>8. PhaseFits'
      BY <2>1, <2>2 DEF PhaseFits, Fits, TypeOK, Finish
    <2>9. LocksHeld' /\ LocksExclusive'
      BY <2>2 DEF LocksHeld, LocksExclusive, Locking, TypeOK, Finish
    <2>10. Fresh'
      BY <2>1, <2>2, <2>4 DEF Fresh, Locking, TypeOK, Finish, Request
    <2>11. InOrder'
      BY <2>1 DEF InOrder, ConstraintsAccept, TypeOK
    <2>12. Stopped' /\ DeposedSaveNothing' /\ ArchivesSucceed'
      BY <2>1, <2>2, <2>4 DEF Stopped, Entitled, DeposedSaveNothing, ArchivesSucceed, TypeOK,
                              world, Finish
    <2> QED BY <2>6, <2>7, <2>8, <2>9, <2>10, <2>11, <2>12
  <1> QED BY <1>1, <1>2

(* The row a change writes is the row it computed: the loaded one is the   *)
(* stored one.                                                             *)
LEMMA CommitWrites ==
  ASSUME IInv, NEW r \in Requests, Commit(r)
  PROVE  \E now \in Reading :
            LET row == Changed(request[r], loaded[r], now)
                n == request[r].run
            IN  /\ n \in Requests /\ runs[n] # None /\ runs[n] \in Run /\ row \in Run
                /\ row.version = runs[n].version + 1 /\ runs[n].version = request[r].seen
                /\ row.creator = runs[n].creator
                /\ row.archivedAt = CASE request[r].kind = "EDIT" -> runs[n].archivedAt
                                      [] request[r].kind = "ARCHIVE" -> ArchiveTime(runs[n], now)
                                      [] request[r].kind = "RESTORE" -> None
                /\ ConstraintsAccept(row)
                /\ runs' = [runs EXCEPT ![n] = row]
                /\ events' = Append(events, ChangeEvent(r))
                /\ Finish(r, "ok")
  <1> USE DEF IInv
  <1> DEFINE m == request[r]
             n == m.run
             old == loaded[r]
             new(now) == Changed(m, old, now)
             row(now) == [column \in DOMAIN new(now) |->
                            IF new(now)[column] = old[column] THEN runs[n][column]
                                                              ELSE new(now)[column]]
  <1>1. /\ phase[r] = "commit" /\ m \in Request /\ n \in Requests /\ m.kind \in Changes
        /\ old = runs[n] /\ old \in Run /\ old # None /\ old.version = m.seen
    BY DEF Commit, TypeOK, PhaseFits, Fits, Fresh, Locking, Request
  <1>2. ASSUME NEW now \in Reading
        PROVE  /\ new(now) \in Run /\ new(now).version = old.version + 1
               /\ new(now).creator = old.creator /\ new(now).createdAt = old.createdAt
               /\ new(now).archivedAt = CASE m.kind = "EDIT" -> old.archivedAt
                                          [] m.kind = "ARCHIVE" -> ArchiveTime(old, now)
                                          [] m.kind = "RESTORE" -> None
    <2> DEFINE next == [old EXCEPT !.version = @ + 1]
    <2>1. /\ next \in Run /\ next.version = old.version + 1 /\ next.creator = old.creator
          /\ next.createdAt = old.createdAt /\ next.archivedAt = old.archivedAt
      BY <1>1 DEF Run
    <2>2. now \in Nat /\ ArchiveTime(old, now) \in Nat
      BY <1>1 DEF Reading, TypeOK, ArchiveTime, Run
    <2> HIDE DEF next
    <2>3. CASE m.kind = "EDIT"
      <3>1. new(now) = [next EXCEPT !.title = Given(m.title, @), !.note = Given(m.note, @)]
        BY <2>3 DEF Changed, next
      <3>2. Given(m.title, next.title) \in Texts \cup {None} /\ Given(m.note, next.note) \in Texts \cup {None}
        BY <1>1, <2>1 DEF Given, Request, Field, Run
      <3> QED BY <2>1, <2>3, <3>1, <3>2 DEF Run
    <2>4. CASE m.kind = "ARCHIVE"
      <3>1. new(now) = [next EXCEPT !.archivedAt = ArchiveTime(old, now)]
        BY <2>4 DEF Changed, next
      <3> QED BY <2>1, <2>2, <2>4, <3>1 DEF Run
    <2>5. CASE m.kind = "RESTORE"
      <3>1. new(now) = [next EXCEPT !.archivedAt = None]
        BY <2>5 DEF Changed, next
      <3> QED BY <2>1, <2>5, <3>1 DEF Run
    <2> QED BY <1>1, <2>3, <2>4, <2>5 DEF Changes
  <1>3. ASSUME NEW now \in Reading PROVE ConstraintsAccept(new(now))
    <2>1. ConstraintsAccept(old)
      BY <1>1 DEF InOrder
    <2>2. now \in Nat /\ old.createdAt \in Nat /\ new(now).createdAt = old.createdAt
      BY <1>1, <1>2 DEF Reading, TypeOK, Run
    <2>3. ArchiveTime(old, now) >= old.createdAt
      BY <2>2 DEF ArchiveTime
    <2> HIDE DEF new
    <2> QED BY <1>1, <1>2, <2>1, <2>2, <2>3 DEF ConstraintsAccept, Changes
  <1>4. ASSUME NEW now \in Reading PROVE row(now) = new(now)
    <2>1. new(now) = [column \in DOMAIN new(now) |-> new(now)[column]]
      BY <1>2 DEF Run
    <2> QED BY <1>1, <2>1
  <1>5. PICK now \in Reading :
            IF ConstraintsAccept(row(now))
            THEN /\ runs' = [runs EXCEPT ![n] = row(now)]
                 /\ events' = Append(events, ChangeEvent(r))
                 /\ Finish(r, "ok")
            ELSE Finish(r, "error") /\ UNCHANGED tables
    BY Zenon DEF Commit
  <1> HIDE DEF row, new
  <1>6. ConstraintsAccept(new(now)) /\ row(now) = new(now)
    BY <1>3, <1>4
  <1>7. runs' = [runs EXCEPT ![n] = new(now)] /\ events' = Append(events, ChangeEvent(r))
        /\ Finish(r, "ok")
    BY <1>5, <1>6
  <1> QED BY <1>1, <1>2, <1>6, <1>7 DEF new

LEMMA CommitInv == ASSUME IInv, NEW r \in Requests, Commit(r) PROVE IInv'
  <1> USE DEF IInv
  <1> DEFINE m == request[r]
             n == m.run
             e == ChangeEvent(r)
  <1>1. PICK now \in Reading :
            LET row == Changed(m, loaded[r], now)
            IN  /\ n \in Requests /\ runs[n] # None /\ runs[n] \in Run /\ row \in Run
                /\ row.version = runs[n].version + 1 /\ runs[n].version = m.seen
                /\ row.creator = runs[n].creator
                /\ row.archivedAt = CASE m.kind = "EDIT" -> runs[n].archivedAt
                                      [] m.kind = "ARCHIVE" -> ArchiveTime(runs[n], now)
                                      [] m.kind = "RESTORE" -> None
                /\ ConstraintsAccept(row)
                /\ runs' = [runs EXCEPT ![n] = row]
                /\ events' = Append(events, e)
                /\ Finish(r, "ok")
    BY CommitWrites
  <1> DEFINE row == Changed(m, loaded[r], now)
  <1>2. /\ phase[r] = "commit" /\ m \in Request /\ m.kind \in Changes
        /\ loaded[r] = runs[n] /\ Locking(r)
        /\ UNCHANGED <<world, request, loaded, deposed>>
    BY DEF Commit, TypeOK, PhaseFits, Fits, Fresh, Locking
  <1>3. /\ e.run = n /\ e.before = m.seen /\ e.after = runs[n].version + 1
        /\ e.type = CASE m.kind = "EDIT" -> "RUN_METADATA_UPDATED"
                      [] m.kind = "ARCHIVE" -> "RUN_ARCHIVED"
                      [] m.kind = "RESTORE" -> "RUN_RESTORED"
        /\ e \in Event
    BY <1>1, <1>2 DEF ChangeEvent, Event, EventType, Request, Run, Changes
  <1>4. ArchiveTime(runs[n], now) # None
    BY <1>1, ValueAssumption DEF ArchiveTime, Reading, TypeOK, Run
  <1> HIDE DEF row, e
  <1>5. AuditExplainsRuns'
    <2>1. /\ runs' = [runs EXCEPT ![e.run] = row] /\ runs[e.run] # None
          /\ row \in Run /\ events' = Append(events, e)
          /\ row.version = runs[e.run].version + 1 /\ e.after = row.version
          /\ e.before = e.after - 1 /\ row.creator = runs[e.run].creator
      BY <1>1, <1>3 DEF row, Run
    <2>2. e.type # "ANALYSIS_COMPLETED"
      BY <1>2, <1>3 DEF Changes
    <2>3. row.archivedAt # None <=>
            \/ e.type = "RUN_ARCHIVED"
            \/ e.type = "RUN_METADATA_UPDATED" /\ runs[e.run].archivedAt # None
      BY <1>1, <1>2, <1>3, <1>4 DEF Changes, row
    <2> QED BY <1>3, <2>1, <2>2, <2>3, AuditStep
  <1>6. TypeOK'
    <2>1. runs' \in [Requests -> Run \cup {None}] /\ events' \in Seq(Event)
      BY <1>1, <1>3 DEF TypeOK, row
    <2> QED BY <1>1, <1>2, <2>1 DEF TypeOK, world, Finish, Phase, Reply
  <1>7. PhaseFits'
    BY <1>1, <1>2 DEF PhaseFits, Fits, TypeOK, Finish
  <1>8. LocksHeld' /\ LocksExclusive'
    BY <1>1, <1>2 DEF LocksHeld, LocksExclusive, Locking, TypeOK, Finish
  <1>9. Fresh'
    <2>1. \A q \in Requests \ {r} : Locking(q) => request[q].run # n
      BY <1>2 DEF LocksExclusive
    <2> QED BY <1>1, <1>2, <2>1 DEF Fresh, Locking, TypeOK, Finish
  <1>10. InOrder'
    <2>1. ConstraintsAccept(row) /\ runs' = [runs EXCEPT ![n] = row]
      BY <1>1 DEF row
    <2> QED BY <1>1, <2>1 DEF InOrder, TypeOK, ConstraintsAccept
  <1>11. Stopped' /\ ArchivesSucceed'
    BY <1>1, <1>2 DEF Stopped, Entitled, ArchivesSucceed, TypeOK, world, Finish
  <1>12. DeposedSaveNothing'
    <2>1. n \notin deposed
      BY <1>1 DEF DeposedSaveNothing
    <2> QED BY <1>1, <1>2, <2>1 DEF DeposedSaveNothing, TypeOK
  <1> QED BY <1>5, <1>6, <1>7, <1>8, <1>9, <1>10, <1>11, <1>12

-----------------------------------------------------------------------------
(* Every behaviour.                                                        *)

LEMMA NextInv == ASSUME IInv, [Next]_vars PROVE IInv'
  <1>1. CASE UNCHANGED vars
    <2>1. UNCHANGED tables /\ AuditExplainsRuns /\ InOrder
      BY <1>1 DEF vars, IInv
    <2>2. AuditExplainsRuns' /\ InOrder'
      BY <2>1, TablesKept
    <2>3. TypeOK'
      BY <1>1 DEF IInv, TypeOK, vars, tables, world
    <2>4. (PhaseFits /\ LocksHeld /\ LocksExclusive /\ Fresh)'
      BY <1>1 DEF IInv, PhaseFits, Fits, LocksHeld, LocksExclusive, Fresh, Locking, vars, tables,
                  world
    <2>5. (Stopped /\ DeposedSaveNothing /\ ArchivesSucceed)'
      BY <1>1 DEF IInv, Stopped, Entitled, DeposedSaveNothing, ArchivesSucceed, vars, tables, world
    <2> QED BY <2>2, <2>3, <2>4, <2>5 DEF IInv
  <1>2. ASSUME NEW r \in Requests,
               \/ Arrive(r) \/ Analyse(r) \/ Authorize(r) \/ Save(r)
               \/ LockRun(r) \/ Check(r) \/ Commit(r) \/ Rollback(r)
        PROVE  IInv'
    BY <1>2, ArriveInv, AnalyseInv, AuthorizeInv, SaveInv, LockRunInv, CheckInv, CommitInv,
       RollbackInv
  <1>3. ASSUME NEW u \in Users, Govern(u) \/ SignOut(u) PROVE IInv'
    BY <1>3, GovernInv, SignOutInv
  <1> QED BY <1>1, <1>2, <1>3, TickInv DEF Next

(* The inductive invariant: the locks are exclusive, what a request works  *)
(* on is what is stored, and nobody in deposed gets past the second        *)
(* authorization.                                                          *)
THEOREM RunsInvariant == Spec => []IInv
  <1>1. IInv /\ [Next]_vars => IInv'
    BY NextInv
  <1> QED BY InitInv, <1>1, PTL DEF Spec

(* Every variable has its type.                                            *)
THEOREM TypeCorrect == Spec => []TypeOK
  <1>1. IInv => TypeOK
    BY DEF IInv
  <1> QED BY RunsInvariant, <1>1, PTL

(* The audit trail explains every run, whoever edits it when.              *)
THEOREM RunsAreExplained == Spec => []AuditExplainsRuns
  <1>1. IInv => AuditExplainsRuns
    BY DEF IInv
  <1> QED BY RunsInvariant, <1>1, PTL

(* An uploader who lost the right during the analysis saves no run.        *)
THEOREM TheDeposedSaveNothing == Spec => []DeposedSaveNothing
  <1>1. IInv => DeposedSaveNothing
    BY DEF IInv
  <1> QED BY RunsInvariant, <1>1, PTL

(* No archive fails, however far the clocks of the workers are apart.      *)
THEOREM NoArchiveFails == Spec => []ArchivesSucceed
  <1>1. IInv => ArchivesSucceed
    BY DEF IInv
  <1> QED BY RunsInvariant, <1>1, PTL
=============================================================================
