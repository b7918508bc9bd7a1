------------------------------- MODULE Server -------------------------------
(***************************************************************************)
(* One worker process: concurrent requests and its two bounded pools of    *)
(* database connections (persistence/session.py).  A request is what its   *)
(* handler does with connections and with the rows that the transactions   *)
(* of both pools lock; what the statements compute is in the modules of    *)
(* the services.  The database finds a circle of row locks, but not one    *)
(* that passes through a pool: there only pool_timeout would end it.       *)
(*                                                                         *)
(* Abstracted: one organization, one finding; rows that only transactions  *)
(* of one pool lock (Accounts, Inventory and FindingWorkflow show that     *)
(* those never wait in a circle); the key of the actor's membership, which *)
(* events and governance share; the events of one edit are one.            *)
(***************************************************************************)
EXTENDS Integers, Sequences, FiniteSets

CONSTANTS
    Requests,
    Mixes,                  \* what the requests may ask, together
    IdentityConnections, TenantConnections      \* pool_size, max_overflow = 0

Pool == {"identity", "tenant"}
Row == {"organization", "finding"}
Size(pool) == IF pool = "identity" THEN IdentityConnections ELSE TenantConnections

(* What a handler does next: connections are taken and returned, and a row *)
(* is locked by the transaction of a pool, to be released with it.         *)
Take(pool) == [do |-> "take", pool |-> pool]
Return(pool) == [do |-> "return", pool |-> pool]
Lock(row, mode, pool) == [do |-> "lock", row |-> row, mode |-> mode, pool |-> pool]

(* Sessions.authenticate ends its transaction before authorized_transaction*)
(* opens the tenant's.                                                     *)
Authenticate == <<Take("identity"), Return("identity")>>
(* Broken variant: the session's transaction stays open around the tenant's.*)
Authorized_Nested(body) ==
    <<Take("identity"), Take("tenant")>> \o body \o <<Return("tenant"), Return("identity")>>
Authorized(body) == Authenticate \o <<Take("tenant")>> \o body \o <<Return("tenant")>>
(* member_labels, _active_members: a second connection inside the first.   *)
ReadLabels == <<Take("identity"), Return("identity")>>
(* A new event locks the keys it refers to, in the order in which the      *)
(* migration creates the constraints: those of the table first, and last   *)
(* the organization's, which is declared with its column.                  *)
FindingKey == Lock("finding", "share", "tenant")
OrganizationKey == Lock("organization", "share", "tenant")
(* Broken variant: the organization's constraint is created first.         *)
EventKeys_OrganizationFirst == <<OrganizationKey, FindingKey>>
EventKeys == <<FindingKey, OrganizationKey>>

(* A read that labels its rows with the names of members.                  *)
List == Authorized(ReadLabels)

(* The finding is locked; session and role are read again, the assignee is *)
(* looked up, and the events are written.                                  *)
Manage ==
    Authorized(<<Lock("finding", "update", "tenant")>> \o Authenticate \o ReadLabels
               \o EventKeys)
Comment == Authorized(EventKeys)
Post == Authorized(<<OrganizationKey>>)

(* _authorized(lock_organization=True): all in the identity database.      *)
Govern ==
    Authenticate \o <<Take("identity"), Lock("organization", "update", "identity"),
                      Return("identity")>>
Audit == Authorized(<<>>) \o Authenticate \o <<Take("identity"), Return("identity")>>

(* The gate, create_run and Runs.create each authorize.                    *)
Upload == Authorized(<<>>) \o Authorized(<<>>) \o Authorized(<<OrganizationKey>>)

Handlers ==
    [account |-> Authenticate, list |-> List, manage |-> Manage, comment |-> Comment,
     post |-> Post, govern |-> Govern, audit |-> Audit, upload |-> Upload]
Kind == DOMAIN Handlers

ASSUME PoolAssumption ==
    /\ IdentityConnections \in Nat \ {0} /\ TenantConnections \in Nat \ {0}
    /\ Mixes \subseteq [Requests -> Kind]

VARIABLES
    kind,       \* what each request asks
    at,         \* how many steps of its program it has done
    held,       \* the connections it holds
    locks,      \* the rows its transactions have locked
    reply       \* its answer

svars == <<kind, at, held, locks, reply>>

STypeOK ==
    /\ kind \in [Requests -> Kind]
    /\ at \in [Requests -> Nat]
    /\ held \in [Requests -> SUBSET Pool]
    /\ locks \in [Requests -> SUBSET [row: Row, mode: {"share", "update"}, pool: Pool]]
    /\ reply \in [Requests -> {"none", "answered", "error"}]

Active == {r \in Requests : reply[r] = "none"}
Holders(pool) == {r \in Requests : pool \in held[r]}
HasRoom(pool) == Cardinality(Holders(pool)) < Size(pool)

SInit ==
    /\ kind \in Mixes
    /\ at = [r \in Requests |-> 0]
    /\ held = [r \in Requests |-> {}]
    /\ locks = [r \in Requests |-> {}]
    /\ reply = [r \in Requests |-> "none"]

Remaining(r) == Len(Handlers[kind[r]]) > at[r]
Current(r) == Handlers[kind[r]][at[r] + 1]
Doing(r, what) == r \in Active /\ Remaining(r) /\ Current(r).do = what

TakeConnection(r) ==
    /\ Doing(r, "take")
    /\ HasRoom(Current(r).pool)
    /\ held' = [held EXCEPT ![r] = @ \cup {Current(r).pool}]
    /\ at' = [at EXCEPT ![r] = @ + 1]
    /\ UNCHANGED <<kind, locks, reply>>

(* The end of a transaction releases its locks with its connection.        *)
ReturnConnection(r) ==
    /\ Doing(r, "return")
    /\ held' = [held EXCEPT ![r] = @ \ {Current(r).pool}]
    /\ locks' = [locks EXCEPT ![r] = {l \in @ : l.pool # Current(r).pool}]
    /\ at' = [at EXCEPT ![r] = @ + 1]
    /\ UNCHANGED <<kind, reply>>

(* FOR KEY SHARE is shared, FOR UPDATE is not.                             *)
Blockers(r) ==
    {q \in Requests \ {r} : \E l \in locks[q] :
        l.row = Current(r).row /\ "update" \in {l.mode, Current(r).mode}}

LockRow(r) ==
    /\ Doing(r, "lock")
    /\ Blockers(r) = {}
    /\ locks' = [locks EXCEPT ![r] = @ \cup
            {[row |-> Current(r).row, mode |-> Current(r).mode, pool |-> Current(r).pool]}]
    /\ at' = [at EXCEPT ![r] = @ + 1]
    /\ UNCHANGED <<kind, held, reply>>

(* The handler is left, by its end or by an exception: every transaction   *)
(* it is in is ended.                                                      *)
Leave(r, answer) ==
    /\ reply' = [reply EXCEPT ![r] = answer]
    /\ at' = [at EXCEPT ![r] = 0]
    /\ held' = [held EXCEPT ![r] = {}]
    /\ locks' = [locks EXCEPT ![r] = {}]
    /\ UNCHANGED kind

Respond(r) == r \in Active /\ ~Remaining(r) /\ Leave(r, "answered")

(* A service or a database refuses, once a statement has run.              *)
Refuse(r) == r \in Active /\ held[r] # {} /\ ~Doing(r, "lock") /\ Leave(r, "answered")

(* pool_timeout: SafeErrorsMiddleware answers the exception with 500.      *)
PoolTimeout(r) ==
    /\ Doing(r, "take")
    /\ ~HasRoom(Current(r).pool)
    /\ Leave(r, "error")

Advance(r) == TakeConnection(r) \/ ReturnConnection(r) \/ LockRow(r) \/ Respond(r)

SNext == \E r \in Requests : Advance(r) \/ Refuse(r) \/ PoolTimeout(r)

(* Threads run their handlers on: while some request can go on, one does.  *)
(* A wait for a connection may end with a timeout, but nothing relies on   *)
(* one.                                                                    *)
Fairness == WF_svars(\E r \in Requests : Advance(r))

SSpec == SInit /\ [][SNext]_svars /\ Fairness

-----------------------------------------------------------------------------
(* Properties.                                                             *)

(* Every admitted request is answered without anybody having to time out,  *)
(* though a manager holds a finding, on the tenants' connection, while it  *)
(* takes identity connections, and administrators hold these while they    *)
(* wait for the organization, whose key commenters hold.                   *)
EveryRequestEnds == <>[](Active = {})

(* The request waits: for a connection, or for a row.                      *)
Waits(r) ==
    \/ Doing(r, "take") /\ ~HasRoom(Current(r).pool)
    \/ Doing(r, "lock") /\ Blockers(r) # {}

(* The requests of a process never all wait for one another, however few   *)
(* connections there are: no circle of waits passes through the pools.     *)
SomebodyGoesOn == Active # {} => \E r \in Active : ~Waits(r)
=============================================================================
