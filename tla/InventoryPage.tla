---------------------------- MODULE InventoryPage ----------------------------
(***************************************************************************)
(* The inventory screen of the browser (InventoryPage of                   *)
(* src/frontend/src/components/inventory/inventory-page.tsx with           *)
(* src/frontend/src/lib/api/inventory.ts) against the inventory service.   *)
(* One user works on one screen; a step is one event the browser handles:  *)
(* a button, an answer, a failure.  The service is external here: it does  *)
(* what module Inventory shows of it, at some time after a request was     *)
(* sent or never, and the answer may be lost, unreadable, an error of the  *)
(* server after its commit, or the gateway's own answer given while the    *)
(* service is still at work.                                               *)
(*                                                                         *)
(* Abstracted: the lists shown are the version of one master row and the   *)
(* operations that may be reversed; a form's content is the version its    *)
(* values were taken from; focus, texts and roles are left out.            *)
(***************************************************************************)
EXTENDS Integers, Sequences, FiniteSets

CONSTANTS
    Operations,     \* operations of the history with a Reverse button
    None,           \* null
    MaxSends,       \* bound: writes the page sends
    MaxLoads,       \* bound: refreshes the page starts
    MaxEdits        \* bound: changes other clients make to the master row

VARIABLES
    (* the service                                                         *)
    ledger,         \* recorded operations: key, and what was wished
    stored,         \* the version of the master row
    overwritten,    \* history: version replaced and version written over, per save
    (* the wire                                                            *)
    sends,          \* every write sent, with what became of it
    loads,          \* every refresh started
    (* the page                                                            *)
    awaited,        \* the write whose answer is awaited, 0 when none is
    busy, error, message, conflict, ambiguousPosting, pendingPosting, pendingReversal,
    shown,          \* the version of the master row on the screen, 0 before the first load
    draft,          \* the version the values in its form were taken from
    (* the user                                                            *)
    wish,           \* number of the posting the user has in mind
    content,        \* it was confirmed, or given up
    failed          \* history: wishes of which one copy failed and another may be recorded

service == <<ledger, stored, overwritten>>
flags == <<busy, error, message, conflict>>
kept == <<ambiguousPosting, pendingPosting, pendingReversal>>
form == <<shown, draft>>
user == <<wish, content, failed>>
vars == <<service, sends, loads, awaited, flags, kept, form, user>>

(* A key is named after the write that first carried it.                   *)
Keys == 1..MaxSends
Wish == 1..MaxSends
Posting == [kind: {"post"}, key: Keys, wish: Wish]
Reversal == [kind: {"reverse"}, key: Keys, wish: Operations]
Save == [kind: {"save"}, seen: 1..(MaxEdits + MaxSends + 1), base: 1..(MaxEdits + MaxSends + 1)]
Fate == {"open", "ok", "conflict", "refused", "failed"}
Load == [own: BOOLEAN, read: 0..(MaxEdits + MaxSends + 1), over: BOOLEAN]

(* What the user has in mind is numbered, an operation of the history is   *)
(* not; and null is no request.                                            *)
ASSUME PageAssumption ==
    /\ MaxSends \in Nat /\ MaxLoads \in Nat /\ MaxEdits \in Nat
    /\ Operations \cap Wish = {}
    /\ None \notin Posting \cup Reversal

TypeOK ==
    /\ ledger \in Seq([key: Keys, wish: Wish \cup Operations])
    /\ stored \in 1..(MaxEdits + MaxSends + 1)
    /\ sends \in Seq([body: Posting \cup Reversal \cup Save, fate: Fate])
    /\ loads \in Seq(Load)
    /\ awaited \in 0..Len(sends)
    /\ {busy, error, message, conflict, ambiguousPosting, content} \subseteq BOOLEAN
    /\ pendingPosting \in Posting \cup {None}
    /\ pendingReversal \in Reversal \cup {None}
    /\ shown \in 0..stored /\ draft \in 0..stored
    /\ wish \in 0..MaxSends /\ failed \subseteq Wish

-----------------------------------------------------------------------------
(* The feedback panel carries the Refresh, Retry and Discard buttons.      *)
Panel == error \/ message

(* refresh: setLoading(true), setError(null), setConflict(false), then the *)
(* four GETs, which nothing cancels.                                       *)
Refresh(own) ==
    /\ loads' = Append(loads, [own |-> own, read |-> 0, over |-> FALSE])
    /\ error' = FALSE /\ conflict' = FALSE

(* The screen is opened: its effect starts the first refresh.              *)
Init ==
    /\ ledger = <<>> /\ stored = 1 /\ overwritten = {}
    /\ sends = <<>> /\ loads = <<[own |-> FALSE, read |-> 0, over |-> FALSE]>>
    /\ awaited = 0
    /\ busy = FALSE /\ error = FALSE /\ message = FALSE /\ conflict = FALSE
    /\ ambiguousPosting = FALSE /\ pendingPosting = None /\ pendingReversal = None
    /\ shown = 0 /\ draft = 0
    /\ wish = 0 /\ content = TRUE /\ failed = {}

(* sendPosting, reverse and mutate up to their await.                      *)
Send(body) ==
    /\ ~busy /\ Len(sends) < MaxSends
    /\ sends' = Append(sends, [body |-> body, fate |-> "open"])
    /\ awaited' = Len(sends) + 1
    /\ busy' = TRUE /\ error' = FALSE /\ message' = FALSE /\ conflict' = FALSE
    /\ UNCHANGED <<service, loads, form>>

NewKey == Len(sends) + 1

-----------------------------------------------------------------------------
(* What the user presses.                                                  *)

(* submitPosting.  After an error the user may want the same posting       *)
(* still; a confirmed or discarded one is followed by another.             *)
Post ==
    /\ ~ambiguousPosting /\ shown # 0
    /\ \E w \in {wish, wish + 1} :
        /\ content => w = wish + 1
        /\ LET intent == IF pendingPosting # None THEN pendingPosting
                         ELSE [kind |-> "post", key |-> NewKey, wish |-> w]
           IN  /\ pendingPosting' = intent
               /\ wish' = intent.wish
               /\ Send(intent)
    /\ content' = FALSE
    /\ UNCHANGED <<ambiguousPosting, pendingReversal, failed>>

RetryPosting ==
    /\ Panel /\ ambiguousPosting /\ pendingPosting # None
    /\ Send(pendingPosting)
    /\ UNCHANGED <<kept, user>>

DiscardPosting ==
    /\ Panel /\ ambiguousPosting /\ pendingPosting # None /\ ~busy
    /\ pendingPosting' = None /\ ambiguousPosting' = FALSE
    /\ content' = TRUE
    /\ UNCHANGED <<service, sends, loads, awaited, flags, pendingReversal, form, wish, failed>>

Reverse(op) ==
    /\ pendingReversal = None /\ shown # 0
    /\ Send([kind |-> "reverse", key |-> NewKey, wish |-> op])
    /\ UNCHANGED <<kept, user>>

RetryReversal ==
    /\ Panel /\ pendingReversal # None
    /\ Send(pendingReversal)
    /\ UNCHANGED <<kept, user>>

(* The form of a master row sends the version on the screen with all of    *)
(* its values; creations, archives and restores go the same way.           *)
SaveMaster ==
    /\ shown # 0
    /\ Send([kind |-> "save", seen |-> shown, base |-> draft])
    /\ UNCHANGED <<kept, user>>

PressRefresh ==
    /\ Panel /\ conflict /\ Len(loads) < MaxLoads
    /\ Refresh(FALSE)
    /\ UNCHANGED <<service, sends, awaited, busy, message, kept, form, user>>

-----------------------------------------------------------------------------
(* The service (external): a key is recorded once and replayed, an         *)
(* operation is reversed once, a row is changed at the version seen.       *)

Recorded(field, x) == \E n \in DOMAIN ledger : ledger[n][field] = x

Becomes(n, fate) == sends' = [sends EXCEPT ![n].fate = fate]

(* ok, or an error after the commit: its acknowledgement was lost.         *)
Executes(n) ==
    LET m == sends[n].body IN
    /\ sends[n].fate = "open"
    /\ \E fate \in {"ok", "failed"} : Becomes(n, fate)
    /\ \/ /\ m.kind = "save" /\ m.seen = stored
          /\ stored' = stored + 1
          /\ overwritten' = overwritten \cup {<<stored, m.base>>}
          /\ UNCHANGED ledger
       \/ /\ m.kind # "save" /\ Recorded("key", m.key)
          /\ UNCHANGED service
       \/ /\ m.kind # "save" /\ ~Recorded("key", m.key)
          /\ m.kind = "reverse" => ~Recorded("wish", m.wish)
          /\ ledger' = Append(ledger, [key |-> m.key, wish |-> m.wish])
          /\ UNCHANGED <<stored, overwritten>>
    /\ UNCHANGED <<loads, awaited, flags, kept, form, user>>

Refuses(n) ==
    LET m == sends[n].body IN
    /\ sends[n].fate = "open"
    /\ m.kind # "save" => ~Recorded("key", m.key)
    /\ \E fate \in {"conflict", "refused", "failed"} : Becomes(n, fate)
    /\ UNCHANGED <<service, loads, awaited, flags, kept, form, user>>

ReadsLists(k) ==
    /\ ~loads[k].over /\ loads[k].read = 0
    /\ loads' = [loads EXCEPT ![k].read = stored]
    /\ UNCHANGED <<service, sends, awaited, flags, kept, form, user>>

OtherClientSaves ==
    /\ stored <= MaxEdits
    /\ stored' = stored + 1
    /\ UNCHANGED <<ledger, overwritten, sends, loads, awaited, flags, kept, form, user>>

-----------------------------------------------------------------------------
(* What reaches the page.                                                  *)

(* Success: the message, and a refresh of its own until which it is busy.  *)
Confirmed(n) ==
    LET m == sends[n].body IN
    /\ awaited = n /\ sends[n].fate = "ok"
    /\ awaited' = 0
    /\ message' = TRUE
    /\ Refresh(TRUE)
    /\ IF m.kind = "post"
       THEN pendingPosting' = None /\ ambiguousPosting' = FALSE /\ content' = TRUE
       ELSE UNCHANGED <<pendingPosting, ambiguousPosting, content>>
    /\ pendingReversal' = IF m.kind = "reverse" THEN None ELSE pendingReversal
    /\ UNCHANGED <<service, sends, busy, form, wish, failed>>

(* Broken variant: no failure is taken for ambiguous.                      *)
KeepsKey_Never(status) == FALSE

(* The key is kept when no answer could be read: InventoryRequestError     *)
(* with status 0.                                                          *)
KeepsKey(status) == status = 0

(* A write was answered before an earlier copy of it was executed.         *)
Overtook(n) ==
    \/ Recorded("key", sends[n].body.key)
    \/ \E k \in 1..(n - 1) : sends[k].body = sends[n].body /\ sends[k].fate = "open"

(* The catch blocks.                                                       *)
Fails(n, status) ==
    LET m == sends[n].body IN
    /\ awaited = n
    /\ awaited' = 0 /\ busy' = FALSE
    /\ error' = TRUE /\ conflict' = (status = 409)
    /\ IF m.kind = "post"
       THEN /\ ambiguousPosting' = KeepsKey(status)
            /\ pendingPosting' = IF KeepsKey(status) THEN pendingPosting ELSE None
            /\ failed' = IF status >= 500 \/ (status > 0 /\ Overtook(n))
                         THEN failed \cup {m.wish} ELSE failed
       ELSE UNCHANGED <<ambiguousPosting, pendingPosting, failed>>
    /\ pendingReversal' = IF m.kind # "reverse" THEN pendingReversal
                          ELSE IF KeepsKey(status) THEN m ELSE None
    /\ UNCHANGED <<service, sends, loads, message, form, wish, content>>

(* The service's own answer: 409, another refusal, or its 500.             *)
Answered(n) ==
    \/ sends[n].fate = "conflict" /\ Fails(n, 409)
    \/ sends[n].fate = "refused" /\ Fails(n, 422)
    \/ sends[n].fate = "failed" /\ Fails(n, 500)

(* fetch rejects, or the body is no JSON the page accepts; the service may *)
(* have executed the write, may do so later, or never sees it.             *)
Lost(n) == Fails(n, 0)

(* nginx stops waiting for the service and answers 503 itself.             *)
GatewayAnswers(n) == sends[n].fate = "open" /\ Fails(n, 503)

(* Broken variant: the form is keyed by the row's id alone and keeps what  *)
(* was typed when a newer version arrives.                                 *)
DraftOf_Kept(version) == IF shown = 0 THEN version ELSE draft

(* The form's key contains the version: another version makes a new form.  *)
DraftOf(version) == IF version = shown THEN draft ELSE version

LoadArrives(k) ==
    /\ ~loads[k].over
    /\ loads' = [loads EXCEPT ![k].over = TRUE]
    /\ busy' = (busy /\ ~loads[k].own)
    /\ \/ /\ loads[k].read # 0
          /\ shown' = loads[k].read /\ draft' = DraftOf(loads[k].read)
          /\ UNCHANGED error
       \/ error' = TRUE /\ UNCHANGED form
    /\ UNCHANGED <<service, sends, awaited, message, conflict, kept, user>>

-----------------------------------------------------------------------------
Next ==
    \/ Post \/ RetryPosting \/ DiscardPosting
    \/ \E op \in Operations : Reverse(op)
    \/ RetryReversal \/ SaveMaster \/ PressRefresh
    \/ OtherClientSaves
    \/ \E n \in DOMAIN sends :
        Executes(n) \/ Refuses(n) \/ Confirmed(n) \/ Answered(n) \/ Lost(n) \/ GatewayAnswers(n)
    \/ \E k \in DOMAIN loads : ReadsLists(k) \/ LoadArrives(k)

Spec == Init /\ [][Next]_vars

-----------------------------------------------------------------------------
(* Properties.                                                             *)

RecordedFor(w) == {n \in DOMAIN ledger : ledger[n].wish = w}

(* A posting whose answers were lost on the way is recorded once, however  *)
(* often the user sends it again.  Only two answers make the page forget   *)
(* the key of a posting that may still be recorded: a 500 or 503, which    *)
(* comes from the gateway or after the commit, and the refusal of a retry  *)
(* that overtook the first copy.                                           *)
LostAnswersDoNotDuplicate ==
    \A w \in Wish \ failed : Cardinality(RecordedFor(w)) <= 1

(* A save that is accepted replaces the version its author was looking at  *)
(* while typing, although lists arrive while a form is being filled in and *)
(* not in the order they were asked for.                                   *)
NoBlindOverwrite == \A pair \in overwritten : pair[1] = pair[2]

(* docs/inventory-ledger.md: "The browser keeps the UUID after an          *)
(* ambiguous network failure and offers an explicit retry with the same    *)
(* key."  Once the page is idle, a kept key has its Retry button.          *)
RetryIsOffered ==
    (ambiguousPosting \/ pendingReversal # None) /\ ~busy => Panel

(* README.md: "Each posting requires a stable idempotency UUID, so an      *)
(* explicit retry after a lost response does not duplicate inventory."     *)
RetriesDoNotDuplicate == \A w \in Wish : Cardinality(RecordedFor(w)) <= 1
=============================================================================
