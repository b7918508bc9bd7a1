# Invoice and purchase-order reconciliation: the verification project

TLA+ models, TLC runs and TLAPS proofs for the repository in `src/`: a Python
service (`src/src/reconcile`: FastAPI, SQLAlchemy, PostgreSQL with row-level
security), its schema (`src/migrations`), and a Next.js client
(`src/frontend`).  `PROJECT.json` holds the same facts for machines: the
components, the runs, the mutants that show each property can fail, the source
lines behind every definition, the hazards, and the theorems.

Contents: [the system](#1-the-system), [inventory of
components](#2-inventory-of-components), [hard
behaviours](#3-hard-behaviours), [modules](#4-modules), [how the modules
follow the code](#5-how-the-modules-follow-the-code), [runs](#6-runs),
[fairness and deadlock](#7-fairness-and-deadlock), [proofs](#8-proofs),
[what is not modelled](#9-what-is-not-modelled), [plan](#10-plan).

## 1. The system

A tenant uploads purchase orders, goods receipts and invoices as CSV files.
The service compares them (four *analysis modes*), stores the result as a
*run* with its *findings*, and lets people work on the findings: assign,
schedule, resolve, comment.  A second product keeps an *inventory ledger* of
items and locations.  Both belong to an *organization*, which administrators
govern by roles and invitations; people sign in with accounts and sessions.

One FastAPI process, or several behind nginx, serves requests, each on its own
thread, with two connection pools: an *identity* pool for accounts, sessions
and organizations, and a *tenant* pool whose transactions carry the
organization in a PostgreSQL setting that row-level security filters by.
Nothing is kept in memory between requests.  All coordination is done by
transactions at READ COMMITTED level, row locks (`FOR UPDATE`), one advisory
lock, unique indexes and triggers; a statement of one transaction may run
between any two statements of another.

How the parts meet:

```
 browser ── web/*.py ── auth/sessions.py (authenticate, authorize) ─┐
                │                                                   │ auth/policy.py
                ├── auth/accounts.py + throttle.py ── mail          │
                ├── auth/governance.py ── mail                      │
                ├── persistence/runs.py ── analysis/, reconciliation.py, imports.py, findings.py
                ├── persistence/workflow.py (findings of a run, assignees of governance)
                ├── persistence/inventory.py
                └── persistence/dashboard.py, intelligence.py (reads)
 command line ── cli.py ── loaders.py, reconciliation.py, reporting.py
```

They interact only through tables.  Governance writes `organization_memberships`,
which every service reads once to authorize a request, and `Workflow` and
`Governance` read again after waiting for a lock.  `Accounts` and `Sessions`
write `auth_sessions`, which every request reads.  `Runs` writes the findings
that `Workflow` edits.  Dashboards read everything and write nothing.

## 2. Inventory of components

For each: its state, its operations, and what makes it correct.

**Accounts, sessions and throttle** (`auth/accounts.py`, `sessions.py`,
`throttle.py`).  State: `users`, `user_credentials`, `email_tokens`,
`auth_sessions`, `auth_throttles`.  Operations: register, login, forgot,
resend, verify, reset, me, select organization, logout.  Correct when a
password is changed only by a link mailed to its address; a link works once
and only while it is the newest; no session survives a reset; a sign-in has one
open session that ends at its absolute deadline; a bucket admits no more
attempts than its limit.

**Permission policy** (`auth/policy.py`).  Pure: role → permissions.

**Organization governance** (`auth/governance.py`).  State: `organizations`,
`organization_memberships`, `organization_invitations`,
`organization_events`.  Operations: rename, update a member, invite, revoke,
accept, register invited; lists and the audit feed.  Correct when an active
administrator always remains; each change is made by somebody entitled when it
takes effect; an invitation is used at most once, by its addressee, in time; the
audit explains the state.

**Inventory ledger** (`persistence/inventory.py`, migration 0007).  State:
`items`, `inventory_locations`, `inventory_operations` with their movements
(append-only; a balance is a sum).  Operations: create, update, archive and restore a
master; opening balance, receipt, issue, two adjustments, transfer, reversal.
Correct when nothing is ever short; a key names one operation and a retry is
answered with it; a reversal is exact and happens once; an opening balance
comes first; an archived master holds nothing and receives nothing; units are
frozen by the first movement.

**Reconciliation and analysis modes** (`reconciliation.py`,
`invoice_helpers.py`, `analysis/`).  Pure and sequential: loops with running
allocations.  Correct when no ordered or received unit supports two invoices,
results do not depend on the order of the file, deliveries are neither lost nor
counted twice, and the undisputed amount is covered by goods.

**Source import and finding index** (`persistence/imports.py`, `findings.py`).  State: the
evidence tables (files, documents, lines) and `findings`, written once, inside the
transaction that saves a run.  Operations: import a file, index a row of the report.  Correct
when files the loaders accept are refused only for a value the database cannot hold (a number or an
amount out of range, a text it cannot encode), nothing remains of a refused run, and the findings are those of the report, each citing the line its
row came from.

**Intelligence pages** (`persistence/intelligence.py`).  Reads only.  Correct when what they
recompute from stored rows is what the analysis counted, and the suppliers add up to the run.

**Saved runs and run audit** (`persistence/runs.py`, `audit.py`).  State:
`analysis_runs`, `audit_events`.  Operations: upload-analyse-save, edit,
archive, restore.  Correct when a run exists exactly if its analysis is in the
audit trail, no edit is lost, and an uploader deposed during a long analysis
saves nothing.

**Finding workflow** (`persistence/workflow.py`).  State: `findings`,
`finding_events`.  Operations: manage (assignee, due date, reminder),
transition, comment.  Correct when status moves along the allowed transitions by
somebody allowed to, the timeline explains the state, no version is written
twice, and somebody deposed while waiting for a lock changes nothing.

**Dashboard** (`persistence/dashboard.py`, `dashboard_policy.py`).  Reads only, after it has read its
clock.  Correct when its windows, its daily trend, its workload and the timeline of the findings
agree, also when findings move between that reading and the snapshot.

**Lists, timelines and the audit feed.**  Keyset pagination with a stateless
cursor.  Correct when no row is shown twice and none that was always there is
skipped.

**Inventory screen of the browser** (`inventory-page.tsx`, `lib/api/inventory.ts`).
State: the pending posting and reversal with their keys, the feedback panel,
the lists and the forms of master data.  Operations: post, retry, discard,
reverse, save, refresh.  Correct when a posting is recorded once however often
its answer is lost, the retry is offered as long as a key is kept, and a save
replaces what its author was looking at.

**Connection pools** (`persistence/session.py`, `member_labels.py`, and every handler).  State: the
connections and row locks each request holds.  Correct when every request is answered, although
requests wait for each other through the pools, where no database would see a circle.

Partly modelled: the CSV loaders, as an assumption; the evidence tables, without row-level
security; the intelligence pages and the dashboard, without medians, ages and due dates.  Not modelled, with
the reasons in section 9: report rendering, command line, web application shell,
authentication settings and mail transport, the other screens of the browser client, deployment and
scripts.

## 3. Hard behaviours

- **Interleaving of statements.**  Two outbound postings, two reversals, a
  posting and an archive, a unit change and a first movement; two
  administrators demoting each other; a reset and a sign-in; a registration and
  an invited registration of one address.
- **State read before a wait and used after it.**  Every service authorizes
  first and then waits for a row lock.  Governance and workflow look again, the
  inventory does not, and runs authorize twice around a long analysis.
- **Retries of lost answers.**  A posting with its idempotency key; a link
  posted twice; an upload sent again (there the code keeps no key).
- **Two bounded pools.**  A handler takes an identity connection while it holds a tenant
  connection and row locks; administrators hold identity connections while they wait for a row
  that a tenant transaction has locked.
- **The same thing computed twice.**  What was received, from the report while it allocates and from stored
  lines; what happened, from the columns of a finding and from its events; equal lines of a file,
  told apart only by their order.
- **Time.**  Idle and absolute deadlines, link and invitation expiry, a
  throttle window, times read before a wait and recorded after it, clocks of two
  workers that disagree.
- **Lock order.**  Key → item → locations by id; organization → invitation;
  finding → memberships; user → session, and a sign-in that replaces the cookie
  of *another* account.
- **A screen of its own.**  Answers and refreshes arrive while another action of
  the same screen is under way, in any order, and share one panel.
- **Arithmetic at boundaries.**  Rounding, tolerance, quantities beyond an order,
  duplicated and contradicting lines.

`PROJECT.json` lists 40 hazards, each at its line, with the properties that
would catch it or the reason no property does.

## 4. Modules

| module | part | kind |
|---|---|---|
| `Policy` | permission policy | pure operators, extended by the service modules |
| `Inventory` | inventory ledger | detailed: one step per SQL statement |
| `StockLedger` | inventory ledger | abstract contract: one step per recorded operation |
| `InventoryRefinement` | | the first implements the second |
| `InventoryProofs` | | theorems about `Inventory`, and that it implements `StockLedger` |
| `Governance` | organization governance | detailed: one step per statement |
| `Roster` | organization governance | abstract contract: one step per act of an administrator or invitee |
| `GovernanceRefinement` | | the first implements the second |
| `GovernanceProofs` | | theorems about `Governance`, and that it implements `Roster` |
| `FindingWorkflow` | finding workflow | detailed |
| `FindingWorkflowProofs` | | theorems about `FindingWorkflow` and `Dashboard` |
| `Dashboard` | dashboard | extends `FindingWorkflow`: what its pages answer, as operators over the rows |
| `Reconciliation` | the four analyses | one step per loop iteration |
| `ReconciliationProofs` | | theorems about `Reconciliation` |
| `Evidence` | source import, finding index, intelligence pages | extends `Reconciliation`: the analysis, then the transaction that stores it, one step per file or row of the report; the pages as operators |
| `Accounts` | accounts, sessions, throttle | detailed |
| `AccountsProofs` | | theorems about `Accounts` |
| `Runs` | saved runs and their audit | detailed |
| `RunsProofs` | | theorems about `Runs` |
| `Server` | connection pools | requests as programs of connections and locks |
| `KeysetPaging` | lists and the audit feed | client and server together |
| `ServingProofs` | | theorems about `Server` and `KeysetPaging`, which share nothing but the module |
| `InventoryPage` | inventory screen of the browser | the page with an external service and gateway |
| `InventoryPageProofs` | | theorems about `InventoryPage` |
| `MC...` | | finite instances: the bodies the requests may carry |

`Evidence` and `Dashboard` compose: the first continues the behaviours of `Reconciliation`
with the transaction that saves the report, the second reads what the editors of `FindingWorkflow`
have written, at every state they can reach.  `Server` composes the handlers of all services, each
reduced to what it does with connections and with the rows that two pools lock.  The other service
modules do not extend each other: the only shared state is the
membership and session rows, and the modules other than `Governance` and
`Accounts` contain the world that may change those rows as actions of its own
(`Govern`, `SignOut`), with every outcome those services can produce for the
rows in question.

## 5. How the modules follow the code

The service modules share one shape, so that reading one is reading all:

- A *request* is one HTTP request with a body from a finite set (`Loads`,
  `Starts`); it is handled once.  A retry is another request with the same body.
- `phase[r]` is the next statement of request `r`.  A step is one SQL
  statement, or a group of reads made under a lock that no writer of those rows
  can pass.  Everything between two phases of one request may be interleaved with
  everything of the others.
- The variables without an index are the committed tables.  A transaction's own
  uncommitted rows appear in the tables at `Commit`, which is what READ
  COMMITTED shows to the others.
- `locks[r]` is what `r` holds until commit or rollback: row locks and, in the
  inventory, the transaction's advisory lock.  A statement that needs a lock is
  enabled when no other request holds it.
- `loaded`, `now`, `granted` and the like are what the code keeps in local
  variables or in the ORM session, and may be stale.
- `reply[r]` is what the client is told: `ok`, `replayed`, `rejected` (a 4xx the
  service chose), `error` (a constraint or trigger fired: a 500) or `lost`.
- `Rollback(r)` is the loss of connection or worker at any statement.

**Inventory.**  `Arrive` is the request's validation and authorization;
`LockKey` the advisory lock on the idempotency key; `Lookup` the search for an
earlier operation under it (replay or conflict); `ReadOriginal` the reversal's
look at its target; `LockItem`, `LockLocation` the `FOR UPDATE`s, locations by
ascending id; `found` the rows this SELECT saw when it began, so that a location created while it
waits is not locked and the count of rows refuses the request (404); `Check` the service's rules under the locks; `Insert` the INSERT
with the unique indexes and the movement trigger, checked against what is
committed *and* against what other transactions have inserted and not committed
(an index entry makes the second insert wait); `Commit` the deferred shape
trigger and the commit.  `ApplyMaster` and `Create` are the master-data writers, which take
no advisory lock.  Quantities are integers of the smallest quantum; a
location id is a number because the code sorts ids.

**Governance.**  `Authenticate`, then `LockOrganization` and `Recheck` for an
administrator; `LockOrganization` and `LockInvitation` for the holder of a
token, whose organization the first, unlocked look at the token named; `Check`;
one operator per operation inside `Commit`, and after it `Deliver`, the mail
that may be lost.  An address and its account are one user; a token is its invitation's
number, known once mailed.

**FindingWorkflow.**  `LockFinding`, `Recheck` (session, membership and
permission, again), `Check`, `Commit`.  A flush writes only the columns that
differ from what the ORM loaded, which `Written` models, so a missing lock would
show as a mixture of two editors' rows.

**Accounts.**  The throttle has its own transaction (`ReadBucket`, `Charge`);
`LockUser` serializes everything about one account; `ReplaceSession` revokes the
cookie a sign-in brought along; `FindSession`, `TouchSession`, `StillOpen`,
`LockSession` and `CommitSelect` are the reads of a request's cookie and the switch of
organization.  Wall-clock time is `clock`; `now[r]` is what a request read.

**Reconciliation.**  A behaviour is one call on one `book`.  `CountReceipt`
is an iteration over the receipts, `NextGroup` begins the next group of equal
document identity in canonical order, `Analyse(k)` is one line of the group.
`totals`, `consumed`, `largest`, `results` and `exposures` are the dictionaries and
accumulators of the code.  Quantities are counted in 1/`Scale`; an amount is
rounded half up exactly where the code rounds it.

A line carries its item, date, receipt and PO line, so that the books are all files the loaders
accept (`Loaded`).

**Evidence.**  `Analysis` is a step of `Reconciliation`; when the report is ready, `Import` stores
the next required file (a row that breaks a unique constraint, or holds a value its columns cannot,
ends the transaction), `IndexInvoice`, `IndexOrder` and `IndexOrphan` are a row of the report each, in its order, and `Save`
commits.  `waiting` are, per key, the invoice lines not yet paired with an equal row of the report: the code's queues are
filled in file order and popped from the left, so the set and its smallest place say the same.
`Fits` is what the columns hold: a `BIGINT` up to `MaxNumber`, a `TEXT` not among `UnstorableTexts` (a NUL,
which the loaders accept and PostgreSQL does not encode), a `NUMERIC` not among `UnstorableAmounts`; `create_run`
answers the `DataError` of each alike.  `Documents`, `Money`, `Receiving`, `FullDays`,
`IssueCount` and so on are the queries of the intelligence pages over `lines` and `headers`; `RunIssueCount` is
what the run's own page shows of an issue, which for a PO-receipt run is nothing, since its summary has no issue counts.

**Dashboard.**  `PeriodStart` is the UTC midnight a window starts at, `Overview`, `Trend` and `Workload`
the three answers, `PagesRead` the workload as a client reads it by its cursor.  The handlers read the clock
and then the snapshot, so `now` ranges over every hour from the first to a day past the last event: visible
events may be later than `now`, and then the counts have them and the activity has not.  The `n`-th event
happens at hour `n`, as on a clock shared by the servers, which puts events on both sides of a midnight.
A resolution without an event does not occur: nothing wrote the status before migration 0004, whose
`ck_findings_resolution_state` would refuse such a row.

**Server.**  `Handlers` gives each kind of request its program: `Take` and `Return` a connection, `Lock`
a row in the transaction of a pool.  `EventKeys` are the rows a new event refers to, locked in the order in which
migration 0004 creates the constraints of `finding_events`: the finding's with the table, the organization's,
which is declared with its column, last.  `TakeConnection`, `ReturnConnection`, `LockRow` and `Respond` advance a
program by one step, `Refuse` is a service's refusal, `PoolTimeout` gives up a wait for a connection.  A
pool `HasRoom` while fewer requests than its size hold its connections.

**Runs.**  `Arrive` (two authorizations), `Analyse` outside any
transaction, `Authorize` again, `Save`; or `LockRun`, `Check`, `Commit`.  A worker's
clock may be up to `Skew` behind.

**KeysetPaging.**  `Begin` takes a row's time, `Commit` makes it visible,
`Change` moves it out of or into the list's filter; the client's `Open` starts a
list, `Fetch(t)` reads up to `Limit` + 1 rows of one table, `Answer` merges them,
cuts the page and turns it.

**InventoryPage.**  A step is one event of the browser: a button (`Post`,
`RetryPosting`, `DiscardPosting`, `Reverse`, `RetryReversal`, `SaveMaster`,
`PressRefresh`, each enabled as the button is rendered and enabled), an answer
(`Confirmed`, `Answered`), no readable answer (`Lost`, status 0 in the code), the
gateway's own answer (`GatewayAnswers`), the lists (`LoadArrives`).  `sends` are
the writes on the wire; `Executes` and `Refuses` are the service, which may act on a
write long after the page has given it up.  `wish` is the posting the user has in
mind, which the code cannot see: after an error the user may press Post for the same
one again.  `draft` is the version a form's values come from; React makes a new form
when the key, which contains the version, changes.

**Abstract contracts.**  `StockLedger` has balances that change by whole
entries with fresh keys, and masters; no requests, phases or locks.  `Roster`
has members, offers and a name; each act names the administrator who is
entitled to it *at that step*.  The refinement mappings read the abstract state
off the committed tables (the balances are sums over the ledger; the offers are
the PENDING invitations).

## 6. Runs

| run | states | checks |
|---|---|---|
| `inventory_stock` | stock and retry races, opposite transfers, locations absent or created meanwhile | `NeverNegative`, `ReversalsAreExact`, `OpeningComesFirst`, `OneOperationPerKey`, `AnswersAreTrue`, `NoCircularWait`, `ImplementsStockLedger` |
| `inventory_masters` | masters against movements | `ArchivedHoldsNothing`, `DatabaseGuardsStaySilent`, `LedgerFitsItsMasters`, `NoLostUpdate` |
| `governance` | administrators and invitations | `AnAdminRemains`, `InvitationsAreForOutsiders`, `AuditExplainsState`, `OnlyAddressRacesFail`, `NoCircularWait`, `ImplementsRoster` |
| `workflow` | editors, a deposed manager, comments, and the dashboard over them | `HistoryExplainsState`, `DeposedAreRefused`, `DashboardAgrees` |
| `reconciliation` | all files of up to three invoice lines, analysed, stored and read | `NoUnitBackedTwice`, `MatchedIsBacked`, `PreviousIsEarlierClaims`, `EveryReceiptCounts`, `ExposureIsBounded`, `EvidenceMatchesTheReport`, `PagesAgree` |
| `accounts` | links and passwords, sign-ins over another's cookie, deadlines, tabs, attempts | `LinksWorkOnce`, `OpenSessionsKnowThePassword`, `OneOpenSessionPerSignIn`, `AttemptsAreLimited`, `NoCircularWait` |
| `server` | an editor, a commenter and as many administrators as identity connections; crowds that need both pools | `EveryRequestEnds`, `SomebodyGoesOn` |
| `runs` | upload, edits, archives | `AuditExplainsRuns`, `DeposedSaveNothing`, `ArchivesSucceed` |
| `paging` | one table, three merged, and stock positions | `PagesAreComplete` |
| `page` | three writes of one user | `LostAnswersDoNotDuplicate`, `NoBlindOverwrite` |
| `page_retry_offered` | the same | `RetryIsOffered`, **violated** |
| `page_server_error` | two writes | `RetriesDoNotDuplicate`, **violated** |

Every property of the passing runs has a mutant: a definition changed as a plausible
bug would change it (a `FOR UPDATE` left out, a recheck dropped, locations locked in the
order of the request, a comparison with the worker's own clock) for which TLC
finds the property violated under the same configuration.  The mutants stand
before the definition they change, as `Name_Variant`.

What the runs say, and what they assume:

- **Inventory.**  Two locks do the work: the key's advisory lock makes
  retries safe, the item lock with the location locks makes balances safe.
  `DatabaseGuardsStaySilent` says that the unique indexes and triggers never fire for
  a legal client; they are a second line of defence and not the mechanism.
- **Governance.**  The organization's row lock with the second look at the
  actor's membership is what keeps an administrator.  `OnlyAddressRacesFail` names the one
  request that may end in a constraint: an invited registration whose address
  registers otherwise meanwhile.  The expiry of an invitation is compared with
  the time the request read *before* it waited; the commit may be later, and nothing
  promises otherwise.  `AuditExplainsState` shows that times
  read before the wait still order the events of one member, invitation or name, on one clock: that the servers
share it is an idealisation.  What clocks that disagree do is checked in `runs`.
- **Workflow.**  `HistoryExplainsState` reads the timeline from its start and must find the row: its values, a
  chain of versions, allowed transitions, and at each move the right of its actor at that
  moment.  `DashboardAgrees` relates four queries and the timeline, whatever moves between the clock and the
  snapshot: the activity explains the backlog up to the clock, and the moves since explain the rest of what
  is counted now (`docs/dashboard-metrics.md` says that the counts may be newer).  A comment takes no lock on the finding it is written to
  beyond its foreign key, and waits for an editor because of it.
- **Accounts.**  `OpenSessionsKnowThePassword` includes sign-ins and switches
  that verified the old password or cookie before the reset and commit after
  it.  A logout that races an organization switch leaves the successor session
  open; the code behaves so and no document promises otherwise, so nothing is checked.
- **Evidence.**  `EvidenceMatchesTheReport` says that the loaders' checks imply the tables' constraints, so that a
  run is refused exactly when a value cannot be held (422 `storage_capacity`), that no queue runs dry or keeps
  a line, and that the findings are exactly what the report says.  `PagesAgree` compares the pages of a saved run
  with the report, and the suppliers with the whole: categories, issues, review lines, lines, documents, money and
  receiving states.  One figure does not add up, and is stated as it is: the page of a PO-receipt run takes
  its `issues.by_code` from a summary without issue counts and shows `{}` (`intelligence.py:274`), while the suppliers' pages
  count an `OVER_RECEIVED` for each order line in that state (`intelligence.py:594`).  `docs/intelligence-metrics.md:89`
  describes the second; its line 62 reads an empty object as "no recorded issues".
- **Server.**  A manager holds a finding, on a tenant connection, and asks for an identity connection; administrators
  hold identity connections while they wait for the organization's row, which their `FOR UPDATE` cannot share with
  the key a new event or posting locks.  Were that key held by somebody who waits for the finding, as many
  administrators as identity connections would close a circle of which PostgreSQL sees only a part.  It is not:
  an event locks the finding's key first and the organization's last, and a transaction that has the latter only ends.
  So some request can always go on (`SomebodyGoesOn`; with the organization's constraint created first, its
  mutant, the circle is there), and all are answered without a timeout (`EveryRequestEnds`).  The reads that label
  members while they hold a tenant connection never stop each other, because nobody waits for a
  tenant connection while holding an identity one; a session's transaction left open around the tenant's (the other mutant) would
  do just that.
- **Reconciliation.**  `ExposureIsBounded` ties the summary to the goods: what it
  leaves undisputed is at most what was ordered (and received), at the agreed
  price and tolerance, up to half a unit of money for each group.
- **Inventory screen.**  While answers are only lost, a wish is recorded once
  (`LostAnswersDoNotDuplicate`), also when the first copy is executed after the retry.
  Two answers make the page forget the key of a posting that may be recorded: a
  500 or 503, and the refusal of a retry that overtook the first copy; the property
  excludes those wishes, and the second violation shows the first case.

  *Finding 1* (`page_retry_offered`): a posting's answer is lost; another action of the
  screen ends in a 409; its Refresh button clears the error, and with it the panel that
  holds Retry and Discard, while the posting form stays disabled.
  `docs/inventory-ledger.md` promises the retry.

  *Finding 2* (`page_server_error`): nginx answers 503 after 30 seconds, or the server
  500 after its commit; the page reads that as a refusal, drops the key, and the next
  press of Post records the wish again.  `README.md` and `docs/product-phase-7-report.md`
  say that a retry after a lost or ambiguous response does not duplicate inventory.
- **Paging.**  A row that appears or moves while pages are turned may be missed;
  a row that was there all along may not, and none appears twice.

**Bounds, and why they are enough.**  `Requests` has four members: every
conflict of these services is between two transactions, a third can invalidate
what the second has checked, and the fourth is a retry, a reversal or a reader
of what came out.  `Loads` pairs exactly the bodies that share a row; bodies that
share no row and no lock cannot affect each other.  Quantities of 1 and 2 make a
balance sufficient for one writer and not for two.  `Locations = {1, 2}` and two
items give both orders of two locks.  `MaxTime` 1 with `InvitationSeconds` 1 puts the
clock on both sides of an expiry; `Horizon` 3 with `IdleTime` 2 and `AbsoluteTime` 3
lets a session be touched, outlive its first idle deadline and meet the
absolute one.  `LoginAttempts` 2 with three guesses crosses the limit, and
`LoginWindow` 2 its window.  `Skew` 1 lets an archive be stamped before the creation.
Three invoice lines hold a duplicate, a contradiction and a third document in
any order; `Scale` 4 makes rounding happen and `ToleranceUp/ToleranceDown` is the code's 2 %.
An order line of five with up to two deliveries is partly, exactly and over received; two orders of two
suppliers and currencies with unknown references resolve every reference both ways; `MaxNumber` 4, the text 7
(in an order, a receipt or an invoice) and the amount 70 are a value of each type that does not fit.  `DayLength` 2 with windows of 1 and 3 days puts five events before, on and after
a midnight; `PageSize` 1 gives the workload a page for each of two assignees.  Five requests and two connections of each
pool are an editor and a commenter of one finding, two administrators, who can hold all identity connections, and one
request more; or as many users of both pools as fill them twice.  The pools of the code have five.
Three writes (`MaxSends`) are a first copy, its
retry and one action in between or after; three refreshes (`MaxLoads` bounds the pressed
ones) let an older list arrive after a newer one.  Five rows with `Limit` 2 give three pages, the last one short; time 0..1 and equal codes force ties.

The bounds are named in the modules: `MaxTime`, `Skew`, `Horizon`, `Limit`, `MaxSends`, `MaxLoads`, `MaxEdits`, and
the finite constants.  Everything else (versions, ledger length, events) is bounded because
each request is handled once.  Symmetry is not used: the requests are distinguished
by their bodies.

## 7. Fairness and deadlock

`Server` states liveness: its specification has `WF_svars(\E r : Advance(r))`, the weak fairness of *some* request
going on.  The threads of a process keep executing their statements, a connection that is free is handed out, and PostgreSQL
grants a lock that is free.  Nothing says that a given thread or waiter has its turn; but while
something can be done, something is.  `Refuse` and `PoolTimeout` have no fairness: nothing forces a service to refuse, and no
request is answered only because another times out.  `EveryRequestEnds` (`<>[](Active = {})`) then says that all requests admitted are
answered.  It fails as soon as a request takes its tenant connection inside the transaction of its session (its mutant).

`Inventory`, `Governance` and `Accounts` state the same concern, inside one database, as an invariant.
`WaitsFor(r, q)` says that the next statement of `r` needs a row that `q` has locked.  `NoCircularWait`: every group of
requests under way has a member that waits for nobody in the group, nor for a row that a request which has ended, or
not begun, left locked.  So the group goes on as soon as others than the group have ended.  Requests that waited for each
other in a circle would be left alone in the end, and then nobody could move.  PostgreSQL's
deadlock detector, which would abort one of them, is not modelled: the property is that it
has nothing to do.  The form is in terms of locks alone, without `ENABLED`, so that it is both checked and proved (section 8).
Those modules assume a connection is there; `Server` is about the connections, and its `SomebodyGoesOn` says
that not all requests wait (`Waits(r)`) at an exhausted pool or a locked row.

`CHECK_DEADLOCK FALSE` stands in every configuration because every request is handled once and
an analysis ends (the screen's user stops after `MaxSends` writes): the final state has no
successor.  Circular waits are
what `NoCircularWait`, `SomebodyGoesOn` and `EveryRequestEnds` are for.

## 8. Proofs

Eight modules hold theorems, of every value of the constants that the named `ASSUME`s allow.  Each states an
inductive invariant (`IInv`, or a second one on top of it), one lemma per action that the action keeps it, and
the properties as its consequences.

**Inventory** (`InventoryProofs`: any items, locations, keys, actors, units and requests, any bodies, any start
allowed by `StartAssumption`).

- `InventoryInvariant`: `Spec => []IInv`, with `IInv == TypeOK /\ PhaseFits /\ LocksExclusive /\ CommitReady /\ Sums /\
  NeverNegative /\ OneOperationPerKey /\ ReversalsAreExact /\ OpeningComesFirst /\ AnswersAreTrue`; `TypeCorrect`,
  `NothingIsEverShort`, `KeysAreIdempotent`, `ReversalsCancelOnce`, `OpeningsComeFirst`, `AnswersAreRecorded` follow.
- `GuardsHold`: `Spec => []GuardInv`, with `GuardInv == IInv /\ Guarded /\ LedgerIsShaped /\ MovedHaveUnits /\
  ArchivedHoldsNothing /\ DatabaseGuardsStaySilent`; `ArchivedIsEmpty` and `ChecksAreEnough` follow, and of the steps
  `LedgerRestsOnMasters` (`LedgerFitsItsMasters`) and `NoUpdateIsLost` (`NoLostUpdate`).
- `StockLedgerImplemented`: `Spec => ImplementsStockLedger`, the refinement.
- `CirclesDoNotForm`: `Spec => []NoCircularWait`, from `InLockOrder` and `EndedBlockNobody`: what a request holds and asks for next follows
  the key, the item and the locations by id.  In a group where everybody waits for somebody, the one that waits for the
  greatest location would wait for a request that waits for a greater one (`GreatestLocation`).

The properties are not inductive: that a commit leaves no balance negative depends on a check made statements
earlier.  `CommitReady` carries it: between `Insert` and `Commit` a request holds the locks of its locations, the
unique indexes accept its row, no two waiting commits collide in an index, and the balance plus its delta is not
negative.  It survives the steps of others because of `LocksExclusive`: two requests in front of their commits
have disjoint locations (`CommitsApart`).  `Sums` says that a balance *is* the sum of its movements: that the
ledger has exactly one function of running sums, which each `Append` extends (`LongerLedger`).  `Guarded` carries
what a request has read of the masters under their locks; stock moves only under the locks of its item and its
location, and a master row changes only under its own.  An archive looks at a *summed* balance: that a sum of
natural numbers is zero only if each of them is needs a law about sums, and finitely many masters
(`MastersAreFinite`).  With `GuardInv`, a commit is one step of `StockLedger` and every other statement a stutter.

**Governance** (`GovernanceProofs`: any people, names, requests and life of an invitation, any start
`SeedAssumption` allows).

- `GovernanceInvariant`: `Spec => []IInv`, with `IInv == TypeOK /\ PhaseFits /\ LocksHeld /\ OneHolder /\ Ready /\
  AnAdminRemains /\ InvitationsAreForOutsiders /\ OnlyAddressRacesFail`; `TypeCorrect`, `AnAdminAlwaysRemains`,
  `PendingAreForOutsiders` and `OnlyRacesFail` follow.
- `RosterImplemented`: `Spec => ImplementsRoster`, the refinement.
- `TrailIsComplete` (`AuditExplainsState`), from `TrailInv == SeenInOrder /\ EventsFit /\ RowsFit /\ AuditExplainsState`.
- `CirclesDoNotForm` (`NoCircularWait`): everybody who holds a lock holds the organization's (`LocksBehindIt`), so a request that waits waits for its
  one holder, and that one waits for nobody.

That a demotion leaves an administrator depends on a count made a statement before the commit.  `Ready` carries
what each request relies on (the membership it has loaded, another administrator, no pending invitation, the
invitation still pending) from its checks to its commit.  It survives the others because whoever writes a
membership or an invitation holds the organization's row lock (`LocksHeld`, `Guarded`), which one request holds at a time
(`OneHolder`).  Only an ordinary registration takes no such lock, and it writes a row of `users` only: that is
why an invited registration can still meet a unique constraint, and why nothing else can.  The trail is the same argument
once more: the row a commit writes is the loaded one with one change, and the event names that change.

**Finding workflow and dashboard** (`FindingWorkflowProofs`: any findings, people and bodies, whatever governance does).

- `TheDeposedAreRefused` (`DeposedAreRefused`): a request is deposed between its lock and the second look, leaves that spot
  only by `Recheck`'s refusal while it is deposed, and is deposed no longer once its user is entitled again.
- `TypeCorrect` and `TheTimelineIsComplete` (`HistoryExplainsState`), from `HistoryInv`: from its lock to its commit a request
  holds its finding alone (`LocksFit`, `OneHolder`), so the row it loaded is the stored one (`Current`) and what it
  checked still holds (`Checked`); its events are then the latest of their types.  Manage adds up to three events at
  once: `ManageEventsAre` says which.
- `TheDashboardAgrees` (`DashboardAgrees`).  A finding is resolved at an hour when its last move before it says so.  The
  allowed transitions alternate, so hour by hour a resolution adds one such finding, a reopening takes one away, and
  nothing else does either (`OneMove`, `NextHour`, `BacklogBalances`).  That holds up to any hour, so both for the window,
  which ends when the clock was read (`BacklogTold`), and for the hours from there to the snapshot (`SinceTold`).  The calendar days of a window share out its hours
  (`WindowDays`, by the laws of division), so the buckets of the trend are disjoint parts of the window's activity, and the sizes of
  disjoint parts sum up to the size of the whole (`SumIsSize`).  A page of the workload is a prefix in the order of the identifiers and
  leaves exactly the users behind its cursor (`OnePage`); each page but the last adds a user, so following the cursors
  as often as there are users ends on the last page (`EveryPageRead`).  Findings and users are finite (`DashboardAssumption`).

**Reconciliation** (`ReconciliationProofs`: books with any number of lines, accepted by the loaders, any tolerance below 1).

- `AnalysisInvariant`: `Spec => []IInv`, with `IInv == TypeOK /\ Apart /\ Underway /\ Accounted /\ Separate /\ MatchedIsBacked`;
  `AnalysisTypes`, `NoDoubleSupport` (`NoUnitBackedTwice`), `MatchedLinesAreBacked` (`MatchedIsBacked`) follow.
- `ReceiptsAreCounted` (`EveryReceiptCounts`), `PreviousIsTheEarlier` (`PreviousIsEarlierClaims`), `ExposureIsCovered` (`ExposureIsBounded`).

For `NoUnitBackedTwice` each line is given the interval `previous + 1 .. previous + supported` of its slot.  `Accounted` says that the
interval lies inside the capacity and, once its group is closed, below `consumed`; `Separate` that the intervals of different
documents in one slot are ordered, hence disjoint.  `Apart` and `Underway` describe the progress of the loops.
The other three are about sums over sets.  `SumOver` names the recursive function behind `MapThenSumSet`, and its laws
(`SumIsNat`, `SumAdds`, `SumGrows`, `SumOfPart`) are proved of the smallest set a law could fail of.  `ClaimInv` says that
groups are analysed in the order of date, supplier, number and line (`InOrder`), so what is consumed of a slot
is the sum of what the earlier lines claim (`ClaimsAddUp`).  `ExposureInv` says that what a closed group asks for is charged, or it is
a single line of which one order covers the rest at the agreed price and its tolerance (`GroupIsCovered`), so with every closed group both
sides of the bound grow alike (`Balance`).  A file has finitely many orders (`BookAssumption`).

**Evidence** (in the same module, of `ESpec`, the analysis and the transaction that saves it; files of any length).

- `SavingIsAnAnalysis`: `ESpec => Spec`, so what is proved of the analysis holds of what is saved.
- `EvidenceInvariant`: `ESpec => []EInv`, with `EInv == IInv /\ OrderInv /\ StoredInv /\ ReadInv /\ RunInv`; `EvidenceIsTheReport`
  (`EvidenceMatchesTheReport`) and `PagesAgreeWithTheReport` (`PagesAgree`) follow.

`StoredInv` says what each import has added: the rows of its file, each with the order line it resolves to in the *complete* run
(`Kept`), which it can already name because the orders are stored first.  Rows of the report are read in the order of the
groups and lines of the file in their own: `WaitingFits` says that a queue holds just the lines of its key whose row has not been
read, so a row finds its own line in front.  A file is refused only if `CannotBeHeld` (`RefusedCannotBeHeld`), and what was stored fits
(`ValuesFit`).  The findings list, each once (`IsListing`), what the rows read so far say (`SoFar`).
For the pages a saved run is a copy of its file: `Kept` is one to one, so sizes and sums over the stored rows are those
of the places (`SizeMoves`, `SumMoves`), suppliers share out the documents, so totals add up by supplier (`SizeByKey`, `SumByKey`), the issues of the
report's rows add up like its lines (`IssuesAddUp`), with `OVER_RECEIVED` of a PO-receipt run on the suppliers' side alone (`RunIssuesAre`), and
an order line is full on some day exactly if it is on the day of its last delivery, when all that ever arrived is counted.

**Accounts** (`AccountsProofs`: any addresses, passwords, requests, lifetimes, windows and limits).

- `AccountsInvariant`: `Spec => []IInv`, with `IInv == TypeOK /\ Own /\ Exclusive /\ Rooted /\ Counted /\ Linked /\
  OpenSessionsKnowThePassword /\ OneOpenSessionPerSignIn`; `TypeCorrect`, `SessionsKnowThePassword`
  (`OpenSessionsKnowThePassword`), `SignInsKeepOneSession` (`OneOpenSessionPerSignIn`), `AttemptsStayLimited`
  (`AttemptsAreLimited`), and the action property `LinksTakeEffectOnce` (`LinksWorkOnce`) follow.
- `CirclesDoNotForm` (`NoCircularWait`), from `LockOrder`: user, link, sessions, bucket.  Waiting leads to a later `Rank`, so a row of requests that wait
  for one another has at most four members.  An UPDATE of several sessions takes its rows in one step of the model.

`Holds(r)` (a part of `Own`) is what a transaction knows under its locks: the account it has read is the
stored one, the password it verified is the account's, its bucket is the stored one, its link is not consumed, its cookie is open,
and, for a reset, *every* open session of the account is among its locks.  Each step that writes is shown to be of a common form:
`Grows` (rows stay; nothing is reopened) and `Writes(r)` (a password is written, a session opened
and a link consumed under the lock of that account's user row; a bucket under its own; a session is revoked while no one else has
locked it).  From these two alone `OthersOwn` concludes that all other requests still know what they knew, so each
statement has to be looked at once and not once per pair.  A session opened by a sign-in or a switch (`Opens`) then has
the password of the account, because the reset that would have changed it waits for the same user row.
`Counted` bounds the attempts admitted by the stored count; `Linked` says that
of the links of one account and purpose only the last issued may be unconsumed.

**Saved runs** (`RunsProofs`: any people, requests, clocks and skew).

- `RunsInvariant`: `Spec => []IInv`; its parts are `PhaseFits`, `LocksHeld`, `LocksExclusive`, `Fresh`, `InOrder`, `Stopped`
  and the properties; `TypeCorrect`, `RunsAreExplained` (`AuditExplainsRuns`), `TheDeposedSaveNothing` (`DeposedSaveNothing`),
  `NoArchiveFails` (`ArchivesSucceed`) follow.

The run's row lock keeps what a request has loaded equal to what is stored until its commit (`Fresh`), so
each commit adds one version and one event.  Somebody in `deposed` is not entitled and has not passed
the second authorization (`Stopped`).  No archive time precedes its creation although clocks differ, because the code takes the
later of the two (`InOrder`).  `RowAssumption` says that the absent row is none of the rows.

**Paging** (`ServingProofs`: any number of rows and tables, any page size).

- `PagingInvariant`: `Spec => []IInv`, with `IInv == TypeOK /\ Seen /\ Underway /\ Apart /\ InOrder /\ Complete`;
  `NoRowIsMissed` (`PagesAreComplete`) follows.

Rows that have their time are in a strict total order that no writer changes (`FollowsIsAnOrder`; an item has one position at
a location, `CodeAssumption`), and the cursor separates what was shown from what is still read (`Apart`).  A row that was there all the time,
of a table that was read, was fetched, or more rows than fit on the page come before it (`Reached`, by `FirstAreEnough`); so the
merged page ends before it and the next cursor does not pass it over.

**Connection pools** (`ServingProofs`: any number of requests of the eight kinds, any two pools of at least one connection).

- `PoolInvariant`: `SSpec => []SInv`, with `SInv == STypeOK /\ InProgram /\ Compatible`: a request holds exactly the
  connections and row locks its program has taken so far and not given back, and a row has one writer or only readers.
- `NobodyNeedsTheTimeout` (`SomebodyGoesOn`): the requests of a process never all wait for one another.
- `NoStepIsRepeated` (`EveryStepCounts`): each step, refusals and timeouts included, takes one request nearer to its answer.

What a program may do with connections and rows is `WellPlaced`, shown of each handler's sequence
(`HandlersAreDisciplined`): an identity connection is returned at once, except by governance, which locks the organization
in between; a row is locked under a connection that is held; who has locked the organization ends next; who has
locked the finding by its key locks the organization next, and ends.  Suppose everybody waited.  Then nobody waits for the organization,
since its holders are about to return their connection (`LockHolders`, `WaitersAt`); so nobody holds an identity connection, because its
holders are there or about to return it (`IdentityHolders`), and the identity pool has room.  Everybody therefore waits for
the finding or for a tenant connection.  Who holds the finding holds a tenant connection and is not at a take of one, so
it is at a lock: at the organization's, or behind nobody.  So nobody waits for the finding either, no tenant connection is
held, and nobody waits (`NotAllWait`).  `NobodyNeedsTheTimeout`, `NoStepIsRepeated` and the
fairness of `SSpec` are together the reason for `EveryRequestEnds`: the sum of the steps left falls as
long as a request is under way.  That last step needs `ENABLED` and is left to TLC.  `PoolAssumption` is used: with no connection at all everybody would wait.

**Inventory screen** (`InventoryPageProofs`: any number of requests, refreshes and edits, any history of operations).

- `PageInvariant`: `Spec => []IInv`, with `IInv == TypeOK /\ Fresh /\ Bounded /\ Waiting /\ Keyed /\ Kept /\ Single`; `PageTypes`,
  `LostAnswersAreHarmless` (`LostAnswersDoNotDuplicate`), `NoSaveIsBlind` (`NoBlindOverwrite`) follow.

A key is named after the write that first carried it, so it stands for one request (`Keyed`) and the ledger has one entry per
key.  What could record a wish twice are two keys under which it is recorded or still on its way (`LiveKeys`); as long as
the user has a wish in mind they are the one the page keeps (`Single`, `Kept`), and the page awaits one answer at a time
(`Waiting`).  The form always holds the version shown (`Fresh`), so the version a save names is the one its values came from.

Assumptions used: the named `ASSUME`s of the modules, all evaluated by TLC in the runs, and none beyond.

*Induction.*  The library's induction theorems take an operator as a parameter, which the provers cannot instantiate.  Where
an argument is by induction (sums, the greatest element of a bounded set, the hours of the backlog, the pages read), it is made of the least counterexample:
the order of the natural numbers is well founded, so a set of them that is not empty has a least element (`LeastExists`,
`SmallestSubset`).  A recursive function of a property is shown to exist before anything is said about it (`SumExists`,
`ReadingExists`).

Only model-checked: `EveryRequestEnds`, which is liveness under fairness and outside the prover's reach; every other
property of a passing run is stated by a theorem.  No module uses a RECURSIVE operator.

## 9. What is not modelled

| part | why |
|---|---|
| CSV loaders | only their guarantees, as `BookAssumption` |
| tenant isolation | row-level security, column grants, and the trigger that freezes a snapshot: each module treats one organization |
| medians and inventory windows of the intelligence pages; ages, due dates and issue codes of the dashboard | aggregates over one snapshot, counted like those that are modelled |
| report rendering | formatting, no state |
| command line | sequential, one call of the analysis; its replacement of two output files is planned |
| web shell | stateless validation of one request: upload limits, CSRF, cookies; `Server` maps an exhausted pool to its 500 |
| settings, hashing, mail transport | configuration and external libraries; a mail is delivered, lost or late |
| other screens of the browser | planned; the server modules assume nothing of the client |
| deployment, scripts, tests | not part of the running program |

Inside the modelled parts: texts are model values or left out; the lists of the
services appear only in `KeysetPaging` and `Dashboard`; summary counts of an analysis are left out; PostgreSQL
itself (locks, READ COMMITTED, indexes, triggers) is modelled by what the code relies on.

## 10. Plan

Done, in this order: `Inventory` with `StockLedger` and its proofs; `Governance` with
`Policy` and `Roster`; `FindingWorkflow`; `Reconciliation` and its proofs; `Accounts`; `Runs`; `KeysetPaging`; `InventoryPage`; `Evidence`; `Dashboard`; `Server`; then the proofs about `Runs`, `Governance`, `FindingWorkflow` and `Accounts`;
then both refinements, the audit trail and the timeline, the masters of the inventory, the sums of the analyses, paging, the inventory screen and the dashboard;
then the transaction that saves a run with the pages that read it, the order of the locks, and the connection pools.

Next, models:

1. `CliOutput`: two files replaced one after the other, with a failure in between.
2. The other screens: answers that arrive after the page has moved on (`use-reconciliation.ts`,
   `use-run-resource.ts`, `auth-provider.tsx`).

Nothing is left to prove of the properties checked that the provers reach.  A model added next brings its own
runs, and its theorems belong into the module of the component it extends.
