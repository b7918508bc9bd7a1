-------------------------- MODULE InventoryPageProofs --------------------------
(***************************************************************************)
(* Proofs about InventoryPage: its types, that a posting is recorded once  *)
(* when only its answers were lost, and that no save is blind, for every   *)
(* number of requests, refreshes and edits and every history of            *)
(* operations.                                                             *)
(*                                                                         *)
(* The argument.  A key is named after the write that first carried it, so *)
(* a key stands for one request (Keyed) and the ledger has one entry per   *)
(* key.  What could record a wish twice are two keys under which it is     *)
(* recorded or a copy is still on its way: LiveKeys.  The page waits for   *)
(* one answer at a time, that of the last write (Waiting), and as long as  *)
(* the user has a wish in mind all its live keys are the one the page      *)
(* keeps (Single, Kept).  It forgets that key only when the wish is        *)
(* confirmed or given up, after a refusal that left no live key, or after  *)
(* an answer that hides a recorded posting; the last is what "failed"      *)
(* collects.                                                               *)
(*                                                                         *)
(* For saves: the form always holds the version shown (Fresh), because a   *)
(* newer version makes a new form; so the version a save names is the one  *)
(* its values came from, and the service accepts no other.                 *)
(***************************************************************************)
EXTENDS InventoryPage, FiniteSetTheorems, TLAPS

-----------------------------------------------------------------------------
(* The inductive invariant.                                                *)

(* Every save is sent from the version on the screen.                      *)
Fresh ==
    /\ draft = shown
    /\ \A n \in DOMAIN sends : LET m == sends[n].body
                               IN  m.kind = "save" => m.seen = m.base
    /\ NoBlindOverwrite

(* The writes that were answered by the service or given up by it.         *)
Settled == {n \in DOMAIN sends : sends[n].fate # "open"}

(* A version is made by another client or by a settled write.              *)
Bounded ==
    /\ stored <= MaxEdits + 1 + Cardinality(Settled)
    /\ Len(sends) <= MaxSends
    /\ wish <= Len(sends)
    /\ \A k \in DOMAIN loads : loads[k].read <= stored

(* One write is awaited, the last one sent; and the page is busy until it  *)
(* fails or the refresh that follows it is over.                           *)
Owned(k) == loads[k].own /\ ~loads[k].over
Waiting ==
    /\ awaited # 0 => busy /\ awaited = Len(sends)
    /\ \A k \in DOMAIN loads : Owned(k) => busy /\ awaited = 0
    /\ \A j, k \in DOMAIN loads : Owned(j) /\ Owned(k) => j = k

(* A key is new when it is first sent, and stands for one request.         *)
Writes == {n \in DOMAIN sends : sends[n].body.kind # "save"}
Keyed ==
    /\ \A n \in Writes : sends[n].body.key <= n
    /\ \A j, k \in Writes : sends[j].body.key = sends[k].body.key => sends[j].body = sends[k].body
    /\ \A i \in DOMAIN ledger : \E n \in Writes :
            sends[n].body.key = ledger[i].key /\ sends[n].body.wish = ledger[i].wish
    /\ \A i, j \in DOMAIN ledger : ledger[i].key = ledger[j].key => i = j

(* What the page keeps was sent, for the wish the user has in mind.        *)
Kept ==
    /\ pendingPosting # None =>
            /\ ~content /\ pendingPosting.wish = wish
            /\ \E n \in DOMAIN sends : sends[n].body = pendingPosting
    /\ ~content => wish # 0
    /\ pendingReversal # None => \E n \in DOMAIN sends : sends[n].body = pendingReversal
    /\ awaited # 0 => (sends[awaited].body.kind = "post" =>
                            pendingPosting = sends[awaited].body)
    /\ \A n \in DOMAIN sends : sends[n].body.kind = "post" => sends[n].body.wish <= wish

(* The keys under which a wish is recorded or may still be.                *)
LiveKeys(w) ==
    {k \in Keys : \E n \in DOMAIN sends :
        /\ sends[n].body.kind = "post" /\ sends[n].body.key = k /\ sends[n].body.wish = w
        /\ sends[n].fate = "open" \/ Recorded("key", k)}

(* A wish that did not fail lives under one key at most, under the one the *)
(* page keeps as long as the user has it in mind.                          *)
Single ==
    \A w \in Wish \ failed :
        /\ \A j, k \in LiveKeys(w) : j = k
        /\ w = wish /\ ~content =>
                LiveKeys(w) \subseteq IF pendingPosting = None THEN {} ELSE {pendingPosting.key}

(* The inductive invariant.                                                *)
IInv == TypeOK /\ Fresh /\ Bounded /\ Waiting /\ Keyed /\ Kept /\ Single

-----------------------------------------------------------------------------
(* Requests.                                                               *)

(* What a request may carry.                                               *)
Body == Posting \cup Reversal \cup Save

(* What a request of each kind carries.                                    *)
LEMMA BodyType ==
  ASSUME NEW m \in Body
  PROVE  /\ m.kind \in {"post", "reverse", "save"}
         /\ m.kind = "post" => m \in Posting /\ m.key \in Keys /\ m.wish \in Wish
         /\ m.kind = "reverse" => m \in Reversal /\ m.key \in Keys /\ m.wish \in Operations
         /\ m.kind = "save" => m \in Save
  BY DEF Body, Posting, Reversal, Save

(* The requests sent and their fates.                                      *)
LEMMA SendsType ==
  ASSUME TypeOK
  PROVE  /\ sends \in Seq([body: Body, fate: Fate]) /\ Len(sends) \in Nat
         /\ DOMAIN sends = 1..Len(sends)
         /\ \A n \in DOMAIN sends : /\ sends[n] \in [body: Body, fate: Fate]
                                    /\ sends[n].body \in Body /\ sends[n].fate \in Fate
  <1>1. sends \in Seq([body: Body, fate: Fate])
    BY DEF TypeOK, Body
  <1> DEFINE T == [body: Body, fate: Fate]
  <1>2. \A t \in T : t.body \in Body /\ t.fate \in Fate
    OBVIOUS
  <1>3. sends \in Seq(T)
    BY <1>1
  <1> HIDE DEF T
  <1>4. /\ Len(sends) \in Nat /\ DOMAIN sends = 1..Len(sends)
        /\ \A n \in DOMAIN sends : sends[n] \in T
    BY <1>3
  <1> QED BY <1>1, <1>2, <1>4 DEF T

(* A request that is sent comes last; the others keep their places.        *)
LEMMA SentLast ==
  ASSUME TypeOK, NEW m \in Body, sends' = Append(sends, [body |-> m, fate |-> "open"])
  PROVE  /\ sends' \in Seq([body: Body, fate: Fate])
         /\ Len(sends') = Len(sends) + 1 /\ DOMAIN sends' = DOMAIN sends \cup {Len(sends) + 1}
         /\ Len(sends) + 1 \notin DOMAIN sends
         /\ sends'[Len(sends) + 1].body = m /\ sends'[Len(sends) + 1].fate = "open"
         /\ \A n \in DOMAIN sends : sends'[n] = sends[n]
  <1>1. [body |-> m, fate |-> "open"] \in [body: Body, fate: Fate]
    BY DEF Fate
  <1>2. sends \in Seq([body: Body, fate: Fate])
    BY SendsType
  <1> QED BY <1>1, <1>2

(* Only the fate of one request changes.                                   *)
LEMMA FateChanges ==
  ASSUME TypeOK, NEW n \in DOMAIN sends, NEW fate \in Fate, Becomes(n, fate)
  PROVE  /\ sends' \in Seq([body: Body, fate: Fate]) /\ Len(sends') = Len(sends)
         /\ DOMAIN sends' = DOMAIN sends
         /\ \A k \in DOMAIN sends : sends'[k].body = sends[k].body
         /\ \A k \in DOMAIN sends \ {n} : sends'[k] = sends[k]
         /\ sends'[n].fate = fate
  <1>1. sends \in Seq([body: Body, fate: Fate]) /\ sends[n] \in [body: Body, fate: Fate]
    BY SendsType
  <1>2. sends' = [sends EXCEPT ![n] = [sends[n] EXCEPT !.fate = fate]]
    BY DEF Becomes
  <1>3. [sends[n] EXCEPT !.fate = fate] \in [body: Body, fate: Fate]
    BY <1>1
  <1>4. /\ [sends[n] EXCEPT !.fate = fate].fate = fate
        /\ [sends[n] EXCEPT !.fate = fate].body = sends[n].body
    BY <1>1
  <1> QED BY <1>1, <1>2, <1>3, <1>4

(* The settled requests are finitely many.                                 *)
LEMMA SettledType ==
  ASSUME TypeOK
  PROVE  /\ IsFiniteSet(Settled) /\ Cardinality(Settled) \in Nat
         /\ Cardinality(Settled) <= Len(sends)
  <1>1. Settled \subseteq 1..Len(sends) /\ Len(sends) \in Nat
    BY SendsType DEF Settled
  <1>2. IsFiniteSet(1..Len(sends)) /\ Cardinality(1..Len(sends)) = Len(sends)
    <2>1. IsFiniteSet(1..Len(sends))
      BY <1>1, FS_Interval
    <2>2. Cardinality(1..Len(sends)) = IF 1 > Len(sends) THEN 0 ELSE Len(sends) - 1 + 1
      BY <1>1, FS_Interval
    <2> QED BY <1>1, <2>1, <2>2
  <1> QED BY <1>1, <1>2, FS_Subset, FS_CardinalityType

(* The screen as it is opened.                                             *)
LEMMA InitInv == Init => IInv
  <1> SUFFICES ASSUME Init PROVE IInv
    OBVIOUS
  <1>1. sends = <<>> /\ ledger = <<>> /\ DOMAIN sends = {} /\ DOMAIN ledger = {}
        /\ Len(sends) = 0
    BY DEF Init
  <1>2. TypeOK
    <2>1. loads \in Seq(Load)
      <3>1. [own |-> FALSE, read |-> 0, over |-> FALSE] \in Load
        BY PageAssumption DEF Load
      <3> QED BY <3>1 DEF Init
    <2>2. /\ ledger \in Seq([key: Keys, wish: Wish \cup Operations])
          /\ sends \in Seq([body: Posting \cup Reversal \cup Save, fate: Fate])
      BY <1>1
    <2>3. /\ stored \in 1..(MaxEdits + MaxSends + 1) /\ awaited \in 0..Len(sends)
          /\ shown \in 0..stored /\ draft \in 0..stored /\ wish \in 0..MaxSends
      BY <1>1, PageAssumption DEF Init
    <2> QED BY <2>1, <2>2, <2>3 DEF Init, TypeOK
  <1>3. Fresh /\ Keyed /\ Kept
    BY <1>1 DEF Init, Fresh, NoBlindOverwrite, Keyed, Writes, Kept
  <1>4. Bounded
    <2>1. Settled = {}
      BY <1>1 DEF Settled
    <2> QED BY <1>1, <2>1, FS_EmptySet, PageAssumption DEF Init, Bounded
  <1>5. Waiting
    BY DEF Init, Waiting, Owned
  <1>6. Single
    BY <1>1 DEF Init, Single, LiveKeys
  <1> QED BY <1>2, <1>3, <1>4, <1>5, <1>6 DEF IInv

-----------------------------------------------------------------------------
(* A request is sent.                                                      *)

(* The five buttons that send a request: it carries a new key, or a        *)
(* request that was sent before, which for a posting is the one the page   *)
(* keeps or one of a wish the user has in mind.                            *)
LEMMA SendStep ==
  ASSUME IInv, NEW m \in Body, Send(m), UNCHANGED <<ambiguousPosting, pendingReversal, failed>>,
         m.kind = "save" => m.seen = m.base,
         m.kind # "save" => m.key = NewKey \/ \E n \in DOMAIN sends : sends[n].body = m,
         m.kind = "post" => pendingPosting' = m,
         \/ UNCHANGED <<pendingPosting, wish, content>>
         \/ /\ m.kind = "post" /\ content' = FALSE /\ wish' = m.wish
            /\ \/ pendingPosting = m
               \/ /\ pendingPosting = None /\ m.key = NewKey
                  /\ m.wish = wish + 1 \/ (~content /\ m.wish = wish)
  PROVE  IInv'
  <1> DEFINE last == Len(sends) + 1
  <1>1. /\ TypeOK /\ ~busy /\ Len(sends) < MaxSends
        /\ sends' = Append(sends, [body |-> m, fate |-> "open"])
        /\ awaited' = Len(sends) + 1 /\ busy' = TRUE /\ error' = FALSE /\ message' = FALSE
        /\ conflict' = FALSE
        /\ ledger' = ledger /\ stored' = stored /\ overwritten' = overwritten
        /\ loads' = loads /\ shown' = shown /\ draft' = draft
        /\ ambiguousPosting' = ambiguousPosting /\ pendingReversal' = pendingReversal
        /\ failed' = failed
    BY DEF IInv, Send, service, form
  <1>2. /\ sends' \in Seq([body: Body, fate: Fate])
        /\ Len(sends') = last /\ DOMAIN sends' = DOMAIN sends \cup {last}
        /\ last \notin DOMAIN sends /\ sends'[last].body = m /\ sends'[last].fate = "open"
        /\ \A n \in DOMAIN sends : sends'[n] = sends[n]
    BY <1>1, SentLast
  <1>3. /\ Len(sends) \in Nat /\ DOMAIN sends = 1..Len(sends) /\ MaxSends \in Nat
        /\ \A n \in DOMAIN sends : n \in Nat /\ n < last /\ sends[n].body \in Body
    <2>1. /\ Len(sends) \in Nat /\ DOMAIN sends = 1..Len(sends) /\ MaxSends \in Nat
          /\ \A n \in DOMAIN sends : sends[n].body \in Body
      BY <1>1, SendsType, PageAssumption
    <2> QED BY <2>1
  <1>4. /\ m.kind \in {"post", "reverse", "save"}
        /\ m.kind = "post" => m \in Posting /\ m # None /\ m.key \in Keys /\ m.wish \in 1..MaxSends
        /\ m.kind # "save" => m.key \in 1..MaxSends
    <2>1. /\ m.kind \in {"post", "reverse", "save"}
          /\ m.kind = "post" => m \in Posting /\ m.key \in Keys /\ m.wish \in Wish
          /\ m.kind # "save" => m.key \in Keys
      BY BodyType
    <2> QED BY <2>1, PageAssumption DEF Wish, Keys
  <1>5. wish \in Nat /\ wish <= Len(sends)
    BY <1>1 DEF TypeOK, IInv, Bounded
  <1>6. m.kind = "post" /\ pendingPosting = m => m.wish = wish /\ ~content
    BY <1>4 DEF IInv, Kept
  <1>7. /\ m.kind = "post" => m.wish <= wish' /\ content' = FALSE
        /\ wish <= wish' /\ wish' <= last /\ wish' \in 0..MaxSends
    <2>1. CASE UNCHANGED <<pendingPosting, wish, content>>
      BY <1>1, <1>3, <1>4, <1>5, <1>6, <2>1 DEF IInv, TypeOK
    <2>2. CASE ~UNCHANGED <<pendingPosting, wish, content>>
      BY <1>1, <1>3, <1>4, <1>5, <1>6, <2>2
    <2> QED BY <2>1, <2>2
  <1>8. TypeOK'
    <2>1. sends' \in Seq([body: Posting \cup Reversal \cup Save, fate: Fate])
      BY <1>2 DEF Body
    <2>2. awaited' \in 0..Len(sends')
      BY <1>1, <1>2, <1>3
    <2>3. pendingPosting' \in Posting \cup {None} /\ content' \in BOOLEAN
      BY <1>1, <1>4 DEF TypeOK
    <2> QED BY <1>1, <1>7, <2>1, <2>2, <2>3 DEF TypeOK
  <1>9. Fresh'
    BY <1>1, <1>2 DEF IInv, Fresh, NoBlindOverwrite
  <1>10. Bounded'
    <2>1. Settled' = Settled
      BY <1>2 DEF Settled
    <2> QED BY <1>1, <1>2, <1>3, <1>7, <2>1 DEF IInv, Bounded
  <1>11. Waiting'
    BY <1>1, <1>2 DEF IInv, Waiting, Owned
  <1>12. /\ Writes' = IF m.kind = "save" THEN Writes ELSE Writes \cup {last}
         /\ Writes \subseteq DOMAIN sends
    BY <1>2 DEF Writes
  <1>13. Keyed'
    <2>1. ASSUME NEW n \in Writes'
          PROVE  sends'[n].body.key <= n
      <3>1. CASE n \in Writes
        BY <1>2, <1>12, <3>1 DEF IInv, Keyed
      <3>2. CASE n \notin Writes
        <4>1. n = last /\ m.kind # "save"
          BY <1>12, <2>1, <3>2
        <4>2. CASE m.key = NewKey
          BY <1>2, <1>3, <4>1, <4>2 DEF NewKey
        <4>3. CASE m.key # NewKey
          <5>1. PICK k \in DOMAIN sends : sends[k].body = m
            BY <4>1, <4>3
          <5>2. m.key <= k
            BY <4>1, <5>1 DEF IInv, Keyed, Writes
          <5> QED BY <1>2, <1>3, <1>4, <4>1, <5>1, <5>2
        <4> QED BY <4>2, <4>3
      <3> QED BY <3>1, <3>2
    <2>2. ASSUME m.kind # "save", NEW k \in Writes, sends[k].body.key = m.key
          PROVE  sends[k].body = m
      <3>1. k \in DOMAIN sends /\ sends[k].body.key <= k
        BY <1>12 DEF IInv, Keyed
      <3>2. m.key # NewKey
        BY <1>3, <1>4, <2>2, <3>1 DEF NewKey
      <3>3. PICK i \in DOMAIN sends : sends[i].body = m
        BY <2>2, <3>2
      <3> QED BY <2>2, <3>3 DEF IInv, Keyed, Writes
    <2>3. \A j, k \in Writes' :
            sends'[j].body.key = sends'[k].body.key => sends'[j].body = sends'[k].body
      <3> TAKE j \in Writes', k \in Writes'
      <3>1. CASE j \in Writes /\ k \in Writes
        BY <1>2, <1>12, <3>1 DEF IInv, Keyed
      <3>2. CASE j \notin Writes /\ k \in Writes
        BY <1>2, <1>12, <2>2, <3>2
      <3>3. CASE j \in Writes /\ k \notin Writes
        BY <1>2, <1>12, <2>2, <3>3
      <3>4. CASE j \notin Writes /\ k \notin Writes
        BY <1>12, <3>4
      <3> QED BY <3>1, <3>2, <3>3, <3>4
    <2>4. \A i \in DOMAIN ledger' : \E n \in Writes' :
            sends'[n].body.key = ledger'[i].key /\ sends'[n].body.wish = ledger'[i].wish
      <3> TAKE i \in DOMAIN ledger'
      <3>1. PICK n \in Writes : sends[n].body.key = ledger[i].key
                                /\ sends[n].body.wish = ledger[i].wish
        BY <1>1 DEF IInv, Keyed
      <3>2. n \in Writes' /\ sends'[n] = sends[n]
        BY <1>2, <1>12
      <3> QED BY <1>1, <3>1, <3>2
    <2> QED BY <1>1, <2>1, <2>3, <2>4 DEF IInv, Keyed
  <1>14. Kept'
    <2>1. pendingPosting' # None =>
              /\ ~content' /\ pendingPosting'.wish = wish'
              /\ \E n \in DOMAIN sends' : sends'[n].body = pendingPosting'
      <3>1. CASE UNCHANGED <<pendingPosting, wish, content>>
        BY <1>2, <3>1 DEF IInv, Kept
      <3>2. CASE ~UNCHANGED <<pendingPosting, wish, content>>
        BY <1>2, <3>2
      <3> QED BY <3>1, <3>2
    <2>2. ~content' => wish' # 0
      BY <1>4 DEF IInv, Kept
    <2>3. pendingReversal' # None => \E n \in DOMAIN sends' : sends'[n].body = pendingReversal'
      BY <1>1, <1>2 DEF IInv, Kept
    <2>4. sends'[awaited'].body.kind = "post" => pendingPosting' = sends'[awaited'].body
      BY <1>1, <1>2
    <2>5. ASSUME NEW n \in DOMAIN sends', sends'[n].body.kind = "post"
          PROVE  sends'[n].body.wish <= wish'
      <3>1. CASE n \in DOMAIN sends
        <4>1. sends[n].body.wish <= wish /\ sends[n].body.wish \in Wish
          BY <1>2, <1>3, <2>5, <3>1, BodyType DEF IInv, Kept
        <4>2. sends'[n].body.wish = sends[n].body.wish /\ sends[n].body.wish \in Nat
          BY <1>2, <3>1, <4>1 DEF Wish
        <4> QED BY <1>5, <1>7, <4>1, <4>2
      <3>2. CASE n \notin DOMAIN sends
        <4>1. n = last
          BY <1>2, <2>5, <3>2
        <4> QED BY <1>2, <1>7, <2>5, <4>1
      <3> QED BY <3>1, <3>2
    <2> QED BY <2>1, <2>2, <2>3, <2>4, <2>5 DEF Kept
  <1>15. \A k : Recorded("key", k)' <=> Recorded("key", k)
    BY <1>1 DEF Recorded
  <1>16. ASSUME NEW w \in Wish
         PROVE  LiveKeys(w)' \subseteq LiveKeys(w) \cup
                    (IF m.kind = "post" /\ m.wish = w THEN {m.key} ELSE {})
    <2> SUFFICES ASSUME NEW k \in LiveKeys(w)', k \notin LiveKeys(w)
                 PROVE  m.kind = "post" /\ m.wish = w /\ k = m.key
      OBVIOUS
    <2>1. PICK n \in DOMAIN sends' :
              /\ sends'[n].body.kind = "post" /\ sends'[n].body.key = k
              /\ sends'[n].body.wish = w /\ k \in Keys
              /\ sends'[n].fate = "open" \/ Recorded("key", k)
      BY <1>15 DEF LiveKeys
    <2>2. n \notin DOMAIN sends
      BY <1>2, <2>1 DEF LiveKeys
    <2> QED BY <1>2, <2>1, <2>2
  <1>17. Single'
    <2> SUFFICES ASSUME NEW w \in Wish \ failed
                 PROVE  /\ \A j, k \in LiveKeys(w)' : j = k
                        /\ w = wish' /\ ~content' =>
                             LiveKeys(w)' \subseteq IF pendingPosting' = None THEN {}
                                                    ELSE {pendingPosting'.key}
      BY <1>1 DEF Single
    <2>1. /\ \A j, k \in LiveKeys(w) : j = k
          /\ w = wish /\ ~content =>
                LiveKeys(w) \subseteq IF pendingPosting = None THEN {} ELSE {pendingPosting.key}
      BY DEF IInv, Single
    <2>2. CASE m.kind = "post" /\ m.wish = w
      <3>1. LiveKeys(w) \subseteq {m.key}
        <4>1. CASE pendingPosting = m
          BY <1>4, <1>6, <2>1, <2>2, <4>1
        <4>2. CASE pendingPosting # m /\ ~content /\ m.wish = wish
          BY <2>1, <2>2, <4>2
        <4>3. CASE m.wish = wish + 1
          <5> SUFFICES ASSUME NEW k \in LiveKeys(w) PROVE FALSE
            OBVIOUS
          <5>1. PICK n \in DOMAIN sends : sends[n].body.kind = "post" /\ sends[n].body.wish = w
            BY DEF LiveKeys
          <5>2. w <= wish
            BY <5>1 DEF IInv, Kept
          <5> QED BY <1>5, <2>2, <4>3, <5>2
        <4> QED BY <2>2, <4>1, <4>2, <4>3
      <3>2. LiveKeys(w)' \subseteq {m.key}
        BY <1>16, <2>2, <3>1
      <3>3. pendingPosting' = m /\ m # None
        BY <1>4, <2>2
      <3> QED BY <3>2, <3>3
    <2>3. CASE ~(m.kind = "post" /\ m.wish = w)
      <3>1. LiveKeys(w)' \subseteq LiveKeys(w)
        BY <1>16, <2>3
      <3>2. w = wish' => UNCHANGED <<pendingPosting, wish, content>>
        BY <2>3
      <3> QED BY <2>1, <3>1, <3>2
    <2> QED BY <2>2, <2>3
  <1> QED BY <1>8, <1>9, <1>10, <1>11, <1>13, <1>14, <1>17 DEF IInv

(* submitPosting.                                                          *)
LEMMA PostStep == ASSUME IInv, Post PROVE IInv'
  <1>1. TypeOK /\ ~ambiguousPosting /\ shown # 0
        /\ UNCHANGED <<ambiguousPosting, pendingReversal, failed>> /\ content' = FALSE
    BY DEF IInv, Post
  <1>2. PICK w \in {wish, wish + 1} :
          /\ content => w = wish + 1
          /\ LET intent == IF pendingPosting # None THEN pendingPosting
                           ELSE [kind |-> "post", key |-> NewKey, wish |-> w]
             IN  /\ pendingPosting' = intent
                 /\ wish' = intent.wish
                 /\ Send(intent)
    BY DEF Post
  <1> DEFINE m == IF pendingPosting # None THEN pendingPosting
                  ELSE [kind |-> "post", key |-> NewKey, wish |-> w]
  <1>3. pendingPosting' = m /\ wish' = m.wish /\ Send(m)
    BY <1>2
  <1>4. Len(sends) \in Nat /\ Len(sends) < MaxSends /\ MaxSends \in Nat
        /\ wish \in Nat /\ wish <= Len(sends) /\ NewKey = Len(sends) + 1
    BY <1>1, <1>3, SendsType, PageAssumption DEF Send, IInv, Bounded, TypeOK, NewKey
  <1>5. CASE pendingPosting # None
    <2>1. m = pendingPosting /\ m \in Posting /\ m \in Body /\ m.kind = "post"
      BY <1>1, <1>5 DEF TypeOK, Body, Posting
    <2>2. \E n \in DOMAIN sends : sends[n].body = m
      BY <1>5, <2>1 DEF IInv, Kept
    <2> HIDE DEF m
    <2> QED BY <1>1, <1>3, <2>1, <2>2, SendStep
  <1>6. CASE pendingPosting = None
    <2>1. /\ m = [kind |-> "post", key |-> NewKey, wish |-> w]
          /\ m.kind = "post" /\ m.key = NewKey /\ m.wish = w
      BY <1>6
    <2>2. w \in Wish
      <3>1. w \in Nat /\ w <= MaxSends
        BY <1>2, <1>4
      <3>2. w # 0
        BY <1>2, <1>4 DEF IInv, Kept
      <3> QED BY <1>4, <3>1, <3>2 DEF Wish
    <2>3. m \in Body
      BY <1>4, <2>1, <2>2 DEF Body, Posting, Keys
    <2>4. m.wish = wish + 1 \/ (~content /\ m.wish = wish)
      BY <1>1, <1>2, <2>1 DEF TypeOK
    <2> HIDE DEF m
    <2> QED BY <1>1, <1>3, <1>6, <2>1, <2>3, <2>4, SendStep
  <1> QED BY <1>5, <1>6

(* "Retry same posting".                                                   *)
LEMMA RetryPostingStep == ASSUME IInv, RetryPosting PROVE IInv'
  <1>1. TypeOK /\ pendingPosting # None /\ Send(pendingPosting)
        /\ UNCHANGED <<ambiguousPosting, pendingPosting, pendingReversal, wish, content, failed>>
    BY DEF IInv, RetryPosting, kept, user
  <1>2. pendingPosting \in Body /\ pendingPosting.kind = "post"
    BY <1>1 DEF TypeOK, Body, Posting
  <1>3. \E n \in DOMAIN sends : sends[n].body = pendingPosting
    BY <1>1 DEF IInv, Kept
  <1>4. pendingPosting' = pendingPosting
    BY <1>1
  <1> QED BY <1>1, <1>2, <1>3, <1>4, SendStep

(* reverse.                                                                *)
LEMMA ReverseStep == ASSUME IInv, NEW op \in Operations, Reverse(op) PROVE IInv'
  <1> DEFINE m == [kind |-> "reverse", key |-> NewKey, wish |-> op]
  <1>1. TypeOK /\ Send(m)
        /\ UNCHANGED <<ambiguousPosting, pendingPosting, pendingReversal, wish, content, failed>>
    BY DEF IInv, Reverse, kept, user
  <1>2. Len(sends) \in Nat /\ Len(sends) < MaxSends /\ MaxSends \in Nat
    BY <1>1, SendsType, PageAssumption DEF Send
  <1>3. m.kind = "reverse" /\ m.key = NewKey
    OBVIOUS
  <1>4. m \in Body
    BY <1>2 DEF Body, Reversal, Keys, NewKey
  <1> HIDE DEF m
  <1> QED BY <1>1, <1>3, <1>4, SendStep

(* "Retry same reversal".                                                  *)
LEMMA RetryReversalStep == ASSUME IInv, RetryReversal PROVE IInv'
  <1>1. TypeOK /\ pendingReversal # None /\ Send(pendingReversal)
        /\ UNCHANGED <<ambiguousPosting, pendingPosting, pendingReversal, wish, content, failed>>
    BY DEF IInv, RetryReversal, kept, user
  <1>2. pendingReversal \in Body /\ pendingReversal.kind = "reverse"
    BY <1>1 DEF TypeOK, Body, Reversal
  <1>3. \E n \in DOMAIN sends : sends[n].body = pendingReversal
    BY <1>1 DEF IInv, Kept
  <1> QED BY <1>1, <1>2, <1>3, SendStep

(* The form of a master row.                                               *)
LEMMA SaveMasterStep == ASSUME IInv, SaveMaster PROVE IInv'
  <1> DEFINE m == [kind |-> "save", seen |-> shown, base |-> draft]
  <1>1. TypeOK /\ Send(m) /\ shown # 0
        /\ UNCHANGED <<ambiguousPosting, pendingPosting, pendingReversal, wish, content, failed>>
    BY DEF IInv, SaveMaster, kept, user
  <1>2. m.kind = "save" /\ m.seen = shown /\ m.base = draft
    OBVIOUS
  <1>3. draft = shown
    BY DEF IInv, Fresh
  <1>4. shown \in 1..(MaxEdits + MaxSends + 1)
    BY <1>1, PageAssumption DEF TypeOK
  <1>5. m \in Body
    BY <1>3, <1>4 DEF Body, Save
  <1> HIDE DEF m
  <1> QED BY <1>1, <1>2, <1>3, <1>5, SendStep

-----------------------------------------------------------------------------
(* The service is at work.                                                 *)

(* What lies in an interval has at most its size.                          *)
LEMMA IntervalSubset ==
  ASSUME NEW k \in Nat, NEW S, S \subseteq 1..k
  PROVE  IsFiniteSet(S) /\ Cardinality(S) \in Nat /\ Cardinality(S) <= k
  <1>1. IsFiniteSet(1..k)
    BY FS_Interval
  <1>2. Cardinality(1..k) = IF 1 > k THEN 0 ELSE k - 1 + 1
    BY FS_Interval
  <1>3. Cardinality(1..k) = k
    BY <1>2
  <1> QED BY <1>1, <1>3, FS_Subset, FS_CardinalityType

(* A request is settled: it changed nothing, it was a save that made a     *)
(* version, or it was recorded under a key the ledger did not have.        *)
LEMMA FateStep ==
  ASSUME IInv, NEW n \in DOMAIN sends, sends[n].fate = "open",
         NEW fate \in Fate \ {"open"}, Becomes(n, fate),
         UNCHANGED <<loads, awaited, flags, kept, form, user>>,
         \/ UNCHANGED service
         \/ /\ sends[n].body.kind = "save" /\ sends[n].body.seen = stored
            /\ stored' = stored + 1
            /\ overwritten' = overwritten \cup {<<stored, sends[n].body.base>>}
            /\ UNCHANGED ledger
         \/ /\ sends[n].body.kind # "save" /\ ~Recorded("key", sends[n].body.key)
            /\ ledger' = Append(ledger, [key |-> sends[n].body.key, wish |-> sends[n].body.wish])
            /\ UNCHANGED <<stored, overwritten>>
  PROVE  IInv'
  <1> DEFINE m == sends[n].body
  <1>1. /\ TypeOK /\ loads' = loads /\ awaited' = awaited /\ busy' = busy /\ error' = error
        /\ message' = message /\ conflict' = conflict
        /\ ambiguousPosting' = ambiguousPosting /\ pendingPosting' = pendingPosting
        /\ pendingReversal' = pendingReversal /\ shown' = shown /\ draft' = draft
        /\ wish' = wish /\ content' = content /\ failed' = failed
    BY DEF IInv, flags, kept, form, user
  <1>2. /\ sends' \in Seq([body: Body, fate: Fate]) /\ Len(sends') = Len(sends)
        /\ DOMAIN sends' = DOMAIN sends
        /\ \A k \in DOMAIN sends : sends'[k].body = sends[k].body
        /\ \A k \in DOMAIN sends \ {n} : sends'[k] = sends[k]
        /\ sends'[n].fate = fate /\ fate # "open"
    BY <1>1, FateChanges
  <1>3. /\ Len(sends) \in Nat /\ DOMAIN sends = 1..Len(sends)
        /\ MaxSends \in Nat /\ MaxEdits \in Nat /\ m \in Body
    BY <1>1, SendsType, PageAssumption
  <1>4. \/ ledger' = ledger
        \/ /\ m.kind # "save" /\ ~Recorded("key", m.key)
           /\ ledger' = Append(ledger, [key |-> m.key, wish |-> m.wish])
    BY DEF service
  <1>5. stored \in Nat /\ stored' \in {stored, stored + 1}
    BY <1>1 DEF TypeOK, service
  <1>6. ledger' \in Seq([key: Keys, wish: Wish \cup Operations])
    <2> DEFINE T == [key: Keys, wish: Wish \cup Operations]
               e == [key |-> m.key, wish |-> m.wish]
    <2>1. m.kind # "save" => e \in T
      BY <1>3, BodyType
    <2>2. ledger \in Seq(T)
      BY <1>1 DEF TypeOK
    <2>3. ledger' = ledger \/ (m.kind # "save" /\ ledger' = Append(ledger, e))
      BY <1>4
    <2> HIDE DEF T, e
    <2>4. ledger' \in Seq(T)
      BY <2>1, <2>2, <2>3
    <2> QED BY <2>4 DEF T
  <1>7. Cardinality(Settled') = Cardinality(Settled) + 1
    <2>1. Settled' = Settled \cup {n} /\ n \notin Settled
      BY <1>2 DEF Settled
    <2> QED BY <1>1, <2>1, SettledType, FS_AddElement
  <1>8. Bounded'
    <2>1. stored' <= MaxEdits + 1 + Cardinality(Settled')
      BY <1>1, <1>3, <1>5, <1>7, SettledType DEF IInv, Bounded
    <2>2. \A k \in DOMAIN loads : loads[k].read \in Nat
      <3> DEFINE T == Load
      <3>1. \A t \in T : t.read \in Nat
        BY <1>3 DEF Load
      <3>2. loads \in Seq(T)
        BY <1>1 DEF TypeOK
      <3> HIDE DEF T
      <3>3. \A k \in DOMAIN loads : loads[k] \in T
        BY <3>2
      <3> QED BY <3>1, <3>3
    <2>3. \A k \in DOMAIN loads' : loads'[k].read <= stored'
      BY <1>1, <1>5, <2>2 DEF IInv, Bounded
    <2> QED BY <1>1, <1>2, <2>1, <2>3 DEF IInv, Bounded
  <1>9. TypeOK'
    <2>1. Settled' \subseteq 1..Len(sends)
      BY <1>2, <1>3 DEF Settled
    <2>2. Cardinality(Settled') <= Len(sends)
      BY <1>3, <2>1, IntervalSubset
    <2>3. stored' \in 1..(MaxEdits + MaxSends + 1)
      <3>1. Cardinality(Settled') \in Nat
        BY <1>3, <2>1, IntervalSubset
      <3>2. stored' <= MaxEdits + 1 + Cardinality(Settled') /\ Len(sends) <= MaxSends
        BY <1>1, <1>2, <1>8 DEF Bounded
      <3>3. stored \in 1..(MaxEdits + MaxSends + 1)
        BY <1>1 DEF TypeOK
      <3> QED BY <1>3, <1>5, <2>2, <3>1, <3>2, <3>3
    <2>4. shown' \in 0..stored' /\ draft' \in 0..stored'
      BY <1>1, <1>5 DEF TypeOK
    <2>5. sends' \in Seq([body: Posting \cup Reversal \cup Save, fate: Fate])
      BY <1>2 DEF Body
    <2> QED BY <1>1, <1>2, <1>6, <2>3, <2>4, <2>5 DEF TypeOK
  <1>10. Fresh'
    <2>1. overwritten' = overwritten \/ overwritten' = overwritten \cup {<<stored, stored>>}
      <3>1. m.kind = "save" => m.seen = m.base
        BY DEF IInv, Fresh
      <3> QED BY <3>1 DEF service
    <2>2. NoBlindOverwrite'
      BY <2>1 DEF IInv, Fresh, NoBlindOverwrite
    <2> QED BY <1>1, <1>2, <2>2 DEF IInv, Fresh
  <1>11. Waiting'
    BY <1>1, <1>2 DEF IInv, Waiting, Owned
  <1>12. Writes' = Writes
    BY <1>2 DEF Writes
  <1>13. /\ \A k : Recorded("key", k) => Recorded("key", k)'
         /\ \A k : Recorded("key", k)' => Recorded("key", k) \/ (k = m.key /\ m.kind # "save")
         /\ \A i \in DOMAIN ledger' :
                \/ i \in DOMAIN ledger /\ ledger'[i] = ledger[i]
                \/ /\ m.kind # "save" /\ ~Recorded("key", m.key) /\ i = Len(ledger) + 1
                   /\ ledger'[i] = [key |-> m.key, wish |-> m.wish]
    <2>1. CASE ledger' = ledger
      BY <2>1 DEF Recorded
    <2>2. CASE ledger' # ledger
      <3>1. /\ m.kind # "save" /\ ~Recorded("key", m.key)
            /\ ledger' = Append(ledger, [key |-> m.key, wish |-> m.wish])
        BY <1>4, <2>2
      <3>2. /\ DOMAIN ledger' = DOMAIN ledger \cup {Len(ledger) + 1}
            /\ ledger'[Len(ledger) + 1] = [key |-> m.key, wish |-> m.wish]
            /\ \A i \in DOMAIN ledger : ledger'[i] = ledger[i]
        <4> DEFINE T == [key: Keys, wish: Wish \cup Operations]
                   e == [key |-> m.key, wish |-> m.wish]
        <4>1. ledger \in Seq(T) /\ ledger' = Append(ledger, e)
          BY <1>1, <3>1 DEF TypeOK
        <4> HIDE DEF T, e
        <4>2. /\ DOMAIN ledger' = DOMAIN ledger \cup {Len(ledger) + 1}
              /\ ledger'[Len(ledger) + 1] = e
              /\ \A i \in DOMAIN ledger : ledger'[i] = ledger[i]
          BY <4>1
        <4> QED BY <4>2 DEF e
      <3> QED BY <3>1, <3>2 DEF Recorded
    <2> QED BY <2>1, <2>2
  <1>14. Keyed'
    <2>1. \A i \in DOMAIN ledger' : \E k \in Writes' :
            sends'[k].body.key = ledger'[i].key /\ sends'[k].body.wish = ledger'[i].wish
      <3> TAKE i \in DOMAIN ledger'
      <3>1. CASE i \in DOMAIN ledger /\ ledger'[i] = ledger[i]
        BY <1>2, <1>12, <3>1 DEF IInv, Keyed, Writes
      <3>2. CASE m.kind # "save" /\ ledger'[i] = [key |-> m.key, wish |-> m.wish]
        BY <1>2, <1>12, <3>2 DEF Writes
      <3> QED BY <1>13, <3>1, <3>2
    <2>2. \A i, j \in DOMAIN ledger' : ledger'[i].key = ledger'[j].key => i = j
      <3>1. \A i \in DOMAIN ledger : ~Recorded("key", m.key) => ledger[i].key # m.key
        BY DEF Recorded
      <3> QED BY <1>13, <3>1 DEF IInv, Keyed
    <2>3. \A k \in Writes : sends'[k].body = sends[k].body
      BY <1>2 DEF Writes
    <2> QED BY <1>12, <2>1, <2>2, <2>3 DEF IInv, Keyed
  <1>15. Kept'
    <2>1. /\ pendingPosting' # None =>
                /\ ~content' /\ pendingPosting'.wish = wish'
                /\ \E k \in DOMAIN sends' : sends'[k].body = pendingPosting'
          /\ ~content' => wish' # 0
          /\ pendingReversal' # None => \E k \in DOMAIN sends' : sends'[k].body = pendingReversal'
      BY <1>1, <1>2 DEF IInv, Kept
    <2>2. awaited # 0 => awaited \in DOMAIN sends
      BY <1>1, <1>3 DEF TypeOK
    <2>3. awaited' # 0 => (sends'[awaited'].body.kind = "post" =>
                              pendingPosting' = sends'[awaited'].body)
      BY <1>1, <1>2, <2>2 DEF IInv, Kept
    <2>4. \A k \in DOMAIN sends' : sends'[k].body.kind = "post" => sends'[k].body.wish <= wish'
      BY <1>1, <1>2 DEF IInv, Kept
    <2> QED BY <2>1, <2>3, <2>4 DEF Kept
  <1>16. ASSUME NEW w \in Wish
         PROVE  LiveKeys(w)' \subseteq LiveKeys(w)
    <2> SUFFICES ASSUME NEW k \in LiveKeys(w)' PROVE k \in LiveKeys(w)
      OBVIOUS
    <2>1. PICK i \in DOMAIN sends' :
              /\ sends'[i].body.kind = "post" /\ sends'[i].body.key = k
              /\ sends'[i].body.wish = w /\ k \in Keys
              /\ sends'[i].fate = "open" \/ Recorded("key", k)'
      BY DEF LiveKeys
    <2>2. /\ i \in DOMAIN sends /\ k \in Keys /\ sends[i].body.kind = "post"
          /\ sends[i].body.key = k /\ sends[i].body.wish = w
      BY <1>2, <2>1
    <2>3. CASE sends'[i].fate = "open"
      BY <1>2, <2>2, <2>3 DEF LiveKeys
    <2>4. CASE Recorded("key", k)
      BY <2>2, <2>4 DEF LiveKeys
    <2>5. CASE k = m.key /\ m.kind # "save"
      <3>1. sends[n].body = sends[i].body
        BY <2>2, <2>5 DEF IInv, Keyed, Writes
      <3> QED BY <2>2, <3>1 DEF LiveKeys
    <2> QED BY <1>13, <2>1, <2>3, <2>4, <2>5
  <1>17. Single'
    BY <1>1, <1>16 DEF IInv, Single
  <1> QED BY <1>8, <1>9, <1>10, <1>11, <1>14, <1>15, <1>17 DEF IInv

(* The service executes a request.                                         *)
LEMMA ExecutesStep == ASSUME IInv, NEW n \in DOMAIN sends, Executes(n) PROVE IInv'
  <1>1. /\ sends[n].fate = "open" /\ UNCHANGED <<loads, awaited, flags, kept, form, user>>
        /\ \/ UNCHANGED service
           \/ /\ sends[n].body.kind = "save" /\ sends[n].body.seen = stored
              /\ stored' = stored + 1
              /\ overwritten' = overwritten \cup {<<stored, sends[n].body.base>>}
              /\ UNCHANGED ledger
           \/ /\ sends[n].body.kind # "save" /\ ~Recorded("key", sends[n].body.key)
              /\ ledger' = Append(ledger, [key |-> sends[n].body.key, wish |-> sends[n].body.wish])
              /\ UNCHANGED <<stored, overwritten>>
    BY DEF Executes
  <1>2. PICK fate \in {"ok", "failed"} : Becomes(n, fate)
    BY DEF Executes
  <1>3. fate \in Fate \ {"open"}
    BY DEF Fate
  <1> QED BY <1>1, <1>2, <1>3, FateStep

(* The service refuses or fails.                                           *)
LEMMA RefusesStep == ASSUME IInv, NEW n \in DOMAIN sends, Refuses(n) PROVE IInv'
  <1>1. /\ sends[n].fate = "open" /\ UNCHANGED <<loads, awaited, flags, kept, form, user>>
        /\ UNCHANGED service
    BY DEF Refuses
  <1>2. PICK fate \in {"conflict", "refused", "failed"} : Becomes(n, fate)
    BY DEF Refuses
  <1>3. fate \in Fate \ {"open"}
    BY DEF Fate
  <1> QED BY <1>1, <1>2, <1>3, FateStep

-----------------------------------------------------------------------------
(* Answers and lists reach the page.                                       *)

(* The refreshes started.                                                  *)
LEMMA LoadsType ==
  ASSUME TypeOK
  PROVE  /\ Len(loads) \in Nat /\ DOMAIN loads = 1..Len(loads)
         /\ \A k \in DOMAIN loads :
                loads[k] \in Load /\ loads[k].own \in BOOLEAN /\ loads[k].over \in BOOLEAN
                /\ loads[k].read \in 0..(MaxEdits + MaxSends + 1)
  <1> DEFINE T == Load
  <1>1. \A t \in T : /\ t.own \in BOOLEAN /\ t.over \in BOOLEAN
                     /\ t.read \in 0..(MaxEdits + MaxSends + 1)
    BY DEF Load
  <1>2. loads \in Seq(T)
    BY DEF TypeOK
  <1> HIDE DEF T
  <1>3. /\ Len(loads) \in Nat /\ DOMAIN loads = 1..Len(loads)
        /\ \A k \in DOMAIN loads : loads[k] \in T
    BY <1>2
  <1> QED BY <1>1, <1>3 DEF T

(* A refresh that is started comes last.                                   *)
LEMMA RefreshStarted ==
  ASSUME TypeOK, NEW own \in BOOLEAN, Refresh(own)
  PROVE  /\ loads' \in Seq(Load)
         /\ DOMAIN loads' = DOMAIN loads \cup {Len(loads) + 1}
         /\ \A k \in DOMAIN loads : loads'[k] = loads[k]
         /\ loads'[Len(loads) + 1].own = own /\ loads'[Len(loads) + 1].read = 0
         /\ loads'[Len(loads) + 1].over = FALSE
  <1> DEFINE T == Load
             e == [own |-> own, read |-> 0, over |-> FALSE]
  <1>1. e \in T /\ e.own = own /\ e.read = 0 /\ e.over = FALSE
    BY PageAssumption DEF Load
  <1>2. loads \in Seq(T) /\ loads' = Append(loads, e)
    BY DEF TypeOK, Refresh
  <1> HIDE DEF T, e
  <1>3. /\ loads' \in Seq(T) /\ DOMAIN loads' = DOMAIN loads \cup {Len(loads) + 1}
        /\ \A k \in DOMAIN loads : loads'[k] = loads[k]
        /\ loads'[Len(loads) + 1] = e
    BY <1>1, <1>2
  <1> QED BY <1>1, <1>3 DEF T

(* One refresh changes.                                                    *)
LEMMA LoadChanges ==
  ASSUME TypeOK, NEW k \in DOMAIN loads, NEW e \in Load, loads' = [loads EXCEPT ![k] = e]
  PROVE  /\ loads' \in Seq(Load) /\ DOMAIN loads' = DOMAIN loads
         /\ loads'[k] = e /\ \A j \in DOMAIN loads \ {k} : loads'[j] = loads[j]
  <1> DEFINE T == Load
  <1>1. loads \in Seq(T) /\ e \in T
    BY DEF TypeOK
  <1> HIDE DEF T
  <1>2. /\ loads' \in Seq(T) /\ DOMAIN loads' = DOMAIN loads
        /\ loads'[k] = e /\ \A j \in DOMAIN loads \ {k} : loads'[j] = loads[j]
    BY <1>1
  <1> QED BY <1>2 DEF T

(* The keys of a wish rest on the wire and the ledger alone.               *)
LEMMA StaysLive ==
  ASSUME UNCHANGED <<sends, ledger>>, NEW w
  PROVE  LiveKeys(w)' = LiveKeys(w)
  BY DEF LiveKeys, Recorded

(* So does what the keys stand for.                                        *)
LEMMA StaysKeyed == ASSUME Keyed, UNCHANGED <<sends, ledger>> PROVE Keyed'
  BY DEF Keyed, Writes

(* A success reaches the page, which forgets the key; the user is content. *)
LEMMA ConfirmedStep == ASSUME IInv, NEW n \in DOMAIN sends, Confirmed(n) PROVE IInv'
  <1> DEFINE m == sends[n].body
  <1>1. /\ TypeOK /\ awaited = n /\ awaited' = 0 /\ message' = TRUE /\ Refresh(TRUE)
        /\ error' = FALSE /\ conflict' = FALSE
        /\ ledger' = ledger /\ stored' = stored /\ overwritten' = overwritten
        /\ sends' = sends /\ busy' = busy /\ shown' = shown /\ draft' = draft
        /\ wish' = wish /\ failed' = failed
    BY DEF IInv, Confirmed, Refresh, service, form
  <1>2. \/ pendingPosting' = None /\ ambiguousPosting' = FALSE /\ content' = TRUE
        \/ UNCHANGED <<pendingPosting, ambiguousPosting, content>>
    BY DEF Confirmed
  <1>3. pendingReversal' = None \/ pendingReversal' = pendingReversal
    BY DEF Confirmed
  <1>4. n \in Nat /\ n # 0
    BY <1>1, SendsType
  <1>5. /\ loads' \in Seq(Load) /\ DOMAIN loads' = DOMAIN loads \cup {Len(loads) + 1}
        /\ \A k \in DOMAIN loads : loads'[k] = loads[k]
        /\ loads'[Len(loads) + 1].read = 0
    BY <1>1, RefreshStarted
  <1>6. TypeOK'
    <2>1. awaited' \in 0..Len(sends')
      BY <1>1, SendsType
    <2> QED BY <1>1, <1>2, <1>3, <1>5, <2>1 DEF TypeOK
  <1>7. Fresh'
    BY <1>1 DEF IInv, Fresh, NoBlindOverwrite
  <1>8. Bounded'
    <2>1. Settled' = Settled
      BY <1>1 DEF Settled
    <2>2. stored \in Nat
      BY <1>1 DEF TypeOK
    <2> QED BY <1>1, <1>5, <2>1, <2>2 DEF IInv, Bounded
  <1>9. Waiting'
    <2>1. busy /\ \A k \in DOMAIN loads : ~Owned(k)
      BY <1>1, <1>4 DEF IInv, Waiting
    <2>2. \A k \in DOMAIN loads' : Owned(k)' => k = Len(loads) + 1
      BY <1>5, <2>1 DEF Owned
    <2> QED BY <1>1, <2>1, <2>2 DEF Waiting
  <1>10. Keyed'
    BY <1>1, StaysKeyed DEF IInv
  <1>11. Kept'
    BY <1>1, <1>2, <1>3 DEF IInv, Kept
  <1>12. Single'
    <2>1. \A w : LiveKeys(w)' = LiveKeys(w)
      BY <1>1, StaysLive
    <2> QED BY <1>1, <1>2, <2>1 DEF IInv, Single
  <1> QED BY <1>6, <1>7, <1>8, <1>9, <1>10, <1>11, <1>12 DEF IInv

(* A failure reaches the page. With status 0 the key is kept; an answer    *)
(* that may hide a recorded posting puts its wish among the failed; after  *)
(* a refusal of the only copy no key of the wish lives.                    *)
LEMMA FailsStep ==
  ASSUME IInv, NEW n \in DOMAIN sends, NEW status \in {0, 409, 422, 500, 503},
         status \in {409, 422} => sends[n].fate # "open", Fails(n, status)
  PROVE  IInv'
  <1> DEFINE m == sends[n].body
  <1>1. /\ TypeOK /\ awaited = n /\ awaited' = 0 /\ busy' = FALSE /\ error' = TRUE
        /\ conflict' \in BOOLEAN
        /\ ledger' = ledger /\ stored' = stored /\ overwritten' = overwritten
        /\ sends' = sends /\ loads' = loads /\ message' = message
        /\ shown' = shown /\ draft' = draft /\ wish' = wish /\ content' = content
    BY DEF IInv, Fails, service, form
  <1>2. /\ n \in Nat /\ n # 0 /\ n = Len(sends) /\ m \in Body
        /\ DOMAIN sends = 1..Len(sends) /\ Len(sends) \in Nat
    BY <1>1, SendsType DEF IInv, Waiting
  <1>3. m.kind = "post" => m \in Posting /\ m.wish \in Wish /\ m.key \in Keys
    BY <1>2, BodyType
  <1>4. m.kind = "reverse" => m \in Reversal
    BY <1>2, BodyType
  <1>5. /\ ambiguousPosting' \in BOOLEAN
        /\ pendingPosting' = None \/ pendingPosting' = pendingPosting
        /\ failed \subseteq failed' /\ failed' \subseteq Wish
    <2>1. CASE m.kind = "post"
      <3>1. /\ ambiguousPosting' = (status = 0)
            /\ pendingPosting' = IF status = 0 THEN pendingPosting ELSE None
            /\ failed' = failed \cup {m.wish} \/ failed' = failed
        BY <2>1 DEF Fails, KeepsKey
      <3> QED BY <1>1, <1>3, <2>1, <3>1 DEF TypeOK
    <2>2. CASE m.kind # "post"
      <3>1. UNCHANGED <<ambiguousPosting, pendingPosting, failed>>
        BY <2>2 DEF Fails
      <3> QED BY <1>1, <3>1 DEF TypeOK
    <2> QED BY <2>1, <2>2
  <1>6. \/ pendingReversal' \in {None, pendingReversal}
        \/ m.kind = "reverse" /\ pendingReversal' = m
    BY DEF Fails
  <1>7. TypeOK'
    <2>1. awaited' \in 0..Len(sends')
      BY <1>1, <1>2
    <2>2. pendingPosting' \in Posting \cup {None} /\ pendingReversal' \in Reversal \cup {None}
      BY <1>1, <1>4, <1>5, <1>6 DEF TypeOK
    <2> QED BY <1>1, <1>5, <2>1, <2>2 DEF TypeOK
  <1>8. Fresh'
    BY <1>1 DEF IInv, Fresh, NoBlindOverwrite
  <1>9. Bounded'
    <2>1. Settled' = Settled
      BY <1>1 DEF Settled
    <2> QED BY <1>1, <2>1 DEF IInv, Bounded
  <1>10. Waiting'
    BY <1>1, <1>2 DEF IInv, Waiting, Owned
  <1>11. Keyed'
    BY <1>1, StaysKeyed DEF IInv
  <1>12. Kept'
    BY <1>1, <1>5, <1>6 DEF IInv, Kept
  <1>13. Single'
    <2> SUFFICES ASSUME NEW w \in Wish \ failed'
                 PROVE  /\ \A j, k \in LiveKeys(w) : j = k
                        /\ w = wish /\ ~content =>
                             LiveKeys(w) \subseteq IF pendingPosting' = None THEN {}
                                                   ELSE {pendingPosting'.key}
      <3>1. \A w : LiveKeys(w)' = LiveKeys(w)
        BY <1>1, StaysLive
      <3> QED BY <1>1, <3>1 DEF Single
    <2>1. /\ \A j, k \in LiveKeys(w) : j = k
          /\ w = wish /\ ~content =>
                LiveKeys(w) \subseteq IF pendingPosting = None THEN {} ELSE {pendingPosting.key}
      BY <1>5 DEF IInv, Single
    <2>2. CASE pendingPosting' = pendingPosting
      BY <2>1, <2>2
    <2>3. CASE pendingPosting' # pendingPosting
      <3>1. /\ m.kind = "post" /\ status # 0 /\ pendingPosting' = None
            /\ failed' = IF status >= 500 \/ (status > 0 /\ Overtook(n))
                         THEN failed \cup {m.wish} ELSE failed
        BY <2>3 DEF Fails, KeepsKey
      <3>2. m = pendingPosting /\ m # None /\ m.wish = wish
        BY <1>1, <1>2, <1>3, <3>1, PageAssumption DEF IInv, Kept
      <3>3. CASE w # wish
        BY <2>1, <3>3
      <3>4. CASE w = wish
        <4>1. status \in {409, 422} /\ ~Overtook(n)
          <5>1. ~(status >= 500 \/ (status > 0 /\ Overtook(n)))
            BY <3>1, <3>2, <3>4
          <5> QED BY <3>1, <5>1
        <4>2. ~Recorded("key", m.key)
              /\ \A k \in 1..(n - 1) : sends[k].body = m => sends[k].fate # "open"
          BY <4>1 DEF Overtook
        <4>3. m.key \notin LiveKeys(w)
          <5> SUFFICES ASSUME m.key \in LiveKeys(w) PROVE FALSE
            OBVIOUS
          <5>1. PICK i \in DOMAIN sends : /\ sends[i].body.kind = "post"
                                          /\ sends[i].body.key = m.key /\ sends[i].fate = "open"
            BY <4>2 DEF LiveKeys
          <5>2. sends[i].body = m
            BY <3>1, <5>1 DEF IInv, Keyed, Writes
          <5>3. i # n
            BY <4>1, <5>1
          <5> QED BY <1>2, <4>2, <5>1, <5>2, <5>3
        <4>4. ~content => LiveKeys(w) = {}
          BY <2>1, <3>2, <3>4, <4>3
        <4> QED BY <2>1, <3>1, <4>4
      <3> QED BY <3>3, <3>4
    <2> QED BY <2>2, <2>3
  <1> QED BY <1>7, <1>8, <1>9, <1>10, <1>11, <1>12, <1>13 DEF IInv

(* The service's own refusal or failure.                                   *)
LEMMA AnsweredStep == ASSUME IInv, NEW n \in DOMAIN sends, Answered(n) PROVE IInv'
  <1>1. CASE sends[n].fate = "conflict" /\ Fails(n, 409)
    BY <1>1, FailsStep
  <1>2. CASE sends[n].fate = "refused" /\ Fails(n, 422)
    BY <1>2, FailsStep
  <1>3. CASE sends[n].fate = "failed" /\ Fails(n, 500)
    BY <1>3, FailsStep
  <1> QED BY <1>1, <1>2, <1>3 DEF Answered

(* No answer can be read.                                                  *)
LEMMA LostStep == ASSUME IInv, NEW n \in DOMAIN sends, Lost(n) PROVE IInv'
  BY FailsStep DEF Lost

(* The gateway's own 503.                                                  *)
LEMMA GatewayAnswersStep == ASSUME IInv, NEW n \in DOMAIN sends, GatewayAnswers(n) PROVE IInv'
  BY FailsStep DEF GatewayAnswers

(* "Discard retry".                                                        *)
LEMMA DiscardPostingStep == ASSUME IInv, DiscardPosting PROVE IInv'
  <1>1. /\ TypeOK /\ pendingPosting' = None /\ ambiguousPosting' = FALSE /\ content' = TRUE
        /\ ledger' = ledger /\ stored' = stored /\ overwritten' = overwritten
        /\ sends' = sends /\ loads' = loads /\ awaited' = awaited /\ busy' = busy /\ ~busy
        /\ error' = error /\ message' = message /\ conflict' = conflict
        /\ pendingReversal' = pendingReversal /\ shown' = shown /\ draft' = draft
        /\ wish' = wish /\ failed' = failed
    BY DEF IInv, DiscardPosting, service, flags, form
  <1>2. TypeOK'
    BY <1>1 DEF TypeOK
  <1>3. Fresh' /\ Keyed'
    BY <1>1, StaysKeyed DEF IInv, Fresh, NoBlindOverwrite
  <1>4. Bounded'
    <2>1. Settled' = Settled
      BY <1>1 DEF Settled
    <2> QED BY <1>1, <2>1 DEF IInv, Bounded
  <1>5. Waiting'
    BY <1>1 DEF IInv, Waiting, Owned
  <1>6. Kept'
    <2>1. awaited = 0
      BY <1>1 DEF IInv, Waiting
    <2> QED BY <1>1, <2>1 DEF IInv, Kept
  <1>7. Single'
    <2>1. \A w : LiveKeys(w)' = LiveKeys(w)
      BY <1>1, StaysLive
    <2> QED BY <1>1, <2>1 DEF IInv, Single
  <1> QED BY <1>2, <1>3, <1>4, <1>5, <1>6, <1>7 DEF IInv

(* "Refresh".                                                              *)
LEMMA PressRefreshStep == ASSUME IInv, PressRefresh PROVE IInv'
  <1>1. /\ TypeOK /\ Refresh(FALSE) /\ error' = FALSE /\ conflict' = FALSE
        /\ ledger' = ledger /\ stored' = stored /\ overwritten' = overwritten
        /\ sends' = sends /\ awaited' = awaited /\ busy' = busy /\ message' = message
        /\ ambiguousPosting' = ambiguousPosting /\ pendingPosting' = pendingPosting
        /\ pendingReversal' = pendingReversal /\ shown' = shown /\ draft' = draft
        /\ wish' = wish /\ content' = content /\ failed' = failed
    BY DEF IInv, PressRefresh, Refresh, service, kept, form, user
  <1>2. /\ loads' \in Seq(Load) /\ DOMAIN loads' = DOMAIN loads \cup {Len(loads) + 1}
        /\ \A k \in DOMAIN loads : loads'[k] = loads[k]
        /\ loads'[Len(loads) + 1].own = FALSE /\ loads'[Len(loads) + 1].read = 0
    BY <1>1, RefreshStarted
  <1>3. TypeOK'
    BY <1>1, <1>2 DEF TypeOK
  <1>4. Fresh' /\ Keyed'
    BY <1>1, StaysKeyed DEF IInv, Fresh, NoBlindOverwrite
  <1>5. Bounded'
    <2>1. Settled' = Settled
      BY <1>1 DEF Settled
    <2>2. stored \in Nat
      BY <1>1 DEF TypeOK
    <2> QED BY <1>1, <1>2, <2>1, <2>2 DEF IInv, Bounded
  <1>6. Waiting'
    <2>1. \A k \in DOMAIN loads' : Owned(k)' => k \in DOMAIN loads /\ Owned(k)
      BY <1>2 DEF Owned
    <2> QED BY <1>1, <2>1 DEF IInv, Waiting
  <1>7. Kept'
    BY <1>1 DEF IInv, Kept
  <1>8. Single'
    <2>1. \A w : LiveKeys(w)' = LiveKeys(w)
      BY <1>1, StaysLive
    <2> QED BY <1>1, <2>1 DEF IInv, Single
  <1> QED BY <1>3, <1>4, <1>5, <1>6, <1>7, <1>8 DEF IInv

(* Another client changes the row.                                         *)
LEMMA OtherClientSavesStep == ASSUME IInv, OtherClientSaves PROVE IInv'
  <1>1. /\ TypeOK /\ stored <= MaxEdits /\ stored' = stored + 1
        /\ ledger' = ledger /\ overwritten' = overwritten /\ loads' = loads
        /\ sends' = sends /\ awaited' = awaited /\ busy' = busy /\ error' = error
        /\ message' = message /\ conflict' = conflict
        /\ ambiguousPosting' = ambiguousPosting /\ pendingPosting' = pendingPosting
        /\ pendingReversal' = pendingReversal /\ shown' = shown /\ draft' = draft
        /\ wish' = wish /\ content' = content /\ failed' = failed
    BY DEF IInv, OtherClientSaves, flags, kept, form, user
  <1>2. MaxEdits \in Nat /\ MaxSends \in Nat /\ stored \in Nat
    BY <1>1, PageAssumption DEF TypeOK
  <1>3. TypeOK'
    <2>1. stored' \in 1..(MaxEdits + MaxSends + 1)
      BY <1>1, <1>2
    <2>2. shown' \in 0..stored' /\ draft' \in 0..stored'
      BY <1>1, <1>2 DEF TypeOK
    <2> QED BY <1>1, <2>1, <2>2 DEF TypeOK
  <1>4. Fresh' /\ Keyed'
    BY <1>1, StaysKeyed DEF IInv, Fresh, NoBlindOverwrite
  <1>5. Bounded'
    <2>1. Settled' = Settled
      BY <1>1 DEF Settled
    <2>2. Cardinality(Settled) \in Nat
      BY <1>1, SettledType
    <2>3. stored' <= MaxEdits + 1 + Cardinality(Settled')
      BY <1>1, <1>2, <2>1, <2>2
    <2>4. \A k \in DOMAIN loads : loads[k].read \in Nat
      BY <1>1, <1>2, LoadsType
    <2>5. \A k \in DOMAIN loads' : loads'[k].read <= stored'
      BY <1>1, <1>2, <2>4 DEF IInv, Bounded
    <2> QED BY <1>1, <2>3, <2>5 DEF IInv, Bounded
  <1>6. Waiting'
    BY <1>1 DEF IInv, Waiting, Owned
  <1>7. Kept'
    BY <1>1 DEF IInv, Kept
  <1>8. Single'
    <2>1. \A w : LiveKeys(w)' = LiveKeys(w)
      BY <1>1, StaysLive
    <2> QED BY <1>1, <2>1 DEF IInv, Single
  <1> QED BY <1>3, <1>4, <1>5, <1>6, <1>7, <1>8 DEF IInv

(* The service answers a refresh.                                          *)
LEMMA ReadsListsStep == ASSUME IInv, NEW k \in DOMAIN loads, ReadsLists(k) PROVE IInv'
  <1> DEFINE e == [loads[k] EXCEPT !.read = stored]
  <1>1. /\ TypeOK /\ loads' = [loads EXCEPT ![k] = e]
        /\ ledger' = ledger /\ stored' = stored /\ overwritten' = overwritten
        /\ sends' = sends /\ awaited' = awaited /\ busy' = busy /\ error' = error
        /\ message' = message /\ conflict' = conflict
        /\ ambiguousPosting' = ambiguousPosting /\ pendingPosting' = pendingPosting
        /\ pendingReversal' = pendingReversal /\ shown' = shown /\ draft' = draft
        /\ wish' = wish /\ content' = content /\ failed' = failed
    BY DEF IInv, ReadsLists, service, flags, kept, form, user
  <1>2. /\ e \in Load /\ e.own = loads[k].own /\ e.over = loads[k].over /\ e.read = stored
        /\ stored \in Nat
    <2>1. loads[k] \in Load /\ stored \in 0..(MaxEdits + MaxSends + 1) /\ stored \in Nat
      BY <1>1, PageAssumption, LoadsType DEF TypeOK
    <2> QED BY <2>1 DEF Load
  <1> HIDE DEF e
  <1>3. /\ loads' \in Seq(Load) /\ DOMAIN loads' = DOMAIN loads
        /\ loads'[k] = e /\ \A j \in DOMAIN loads \ {k} : loads'[j] = loads[j]
    BY <1>1, <1>2, LoadChanges
  <1>4. TypeOK'
    BY <1>1, <1>3 DEF TypeOK
  <1>5. Fresh' /\ Keyed'
    BY <1>1, StaysKeyed DEF IInv, Fresh, NoBlindOverwrite
  <1>6. Bounded'
    <2>1. Settled' = Settled
      BY <1>1 DEF Settled
    <2>2. \A j \in DOMAIN loads' : loads'[j].read <= stored'
      BY <1>1, <1>2, <1>3 DEF IInv, Bounded
    <2> QED BY <1>1, <2>1, <2>2 DEF IInv, Bounded
  <1>7. Waiting'
    <2>1. \A j \in DOMAIN loads : Owned(j)' <=> Owned(j)
      BY <1>2, <1>3 DEF Owned
    <2> QED BY <1>1, <1>3, <2>1 DEF IInv, Waiting
  <1>8. Kept'
    BY <1>1 DEF IInv, Kept
  <1>9. Single'
    <2>1. \A w : LiveKeys(w)' = LiveKeys(w)
      BY <1>1, StaysLive
    <2> QED BY <1>1, <2>1 DEF IInv, Single
  <1> QED BY <1>4, <1>5, <1>6, <1>7, <1>8, <1>9 DEF IInv

(* A refresh is over: its lists are shown, or it failed.                   *)
LEMMA LoadArrivesStep == ASSUME IInv, NEW k \in DOMAIN loads, LoadArrives(k) PROVE IInv'
  <1> DEFINE e == [loads[k] EXCEPT !.over = TRUE]
  <1>1. /\ TypeOK /\ ~loads[k].over /\ loads' = [loads EXCEPT ![k] = e]
        /\ busy' = (busy /\ ~loads[k].own)
        /\ ledger' = ledger /\ stored' = stored /\ overwritten' = overwritten
        /\ sends' = sends /\ awaited' = awaited
        /\ message' = message /\ conflict' = conflict
        /\ ambiguousPosting' = ambiguousPosting /\ pendingPosting' = pendingPosting
        /\ pendingReversal' = pendingReversal
        /\ wish' = wish /\ content' = content /\ failed' = failed
    BY DEF IInv, LoadArrives, service, kept, user
  <1>2. \/ /\ shown' = loads[k].read
           /\ draft' = IF loads[k].read = shown THEN draft ELSE loads[k].read
           /\ error' = error
        \/ error' = TRUE /\ shown' = shown /\ draft' = draft
    BY DEF LoadArrives, DraftOf, form
  <1>3. /\ e \in Load /\ e.own = loads[k].own /\ e.over = TRUE /\ e.read = loads[k].read
        /\ stored \in Nat /\ loads[k].read \in 0..stored
        /\ loads[k].own \in BOOLEAN /\ loads[k].over \in BOOLEAN
    <2>1. /\ loads[k] \in Load /\ loads[k].read \in Nat /\ stored \in Nat
          /\ loads[k].own \in BOOLEAN /\ loads[k].over \in BOOLEAN
      BY <1>1, PageAssumption, LoadsType DEF TypeOK
    <2>2. loads[k].read <= stored
      BY DEF IInv, Bounded
    <2>3. e \in Load /\ e.own = loads[k].own /\ e.over = TRUE /\ e.read = loads[k].read
      BY <2>1 DEF Load
    <2> QED BY <2>1, <2>2, <2>3
  <1> HIDE DEF e
  <1>4. /\ loads' \in Seq(Load) /\ DOMAIN loads' = DOMAIN loads
        /\ loads'[k] = e /\ \A j \in DOMAIN loads \ {k} : loads'[j] = loads[j]
    BY <1>1, <1>3, LoadChanges
  <1>5. TypeOK'
    <2>1. shown' \in 0..stored' /\ draft' \in 0..stored'
      BY <1>1, <1>2, <1>3 DEF TypeOK
    <2>2. busy' \in BOOLEAN /\ error' \in BOOLEAN
      BY <1>1, <1>2 DEF TypeOK
    <2> QED BY <1>1, <1>4, <2>1, <2>2 DEF TypeOK
  <1>6. Fresh' /\ Keyed'
    BY <1>1, <1>2, StaysKeyed DEF IInv, Fresh, NoBlindOverwrite
  <1>7. Bounded'
    <2>1. Settled' = Settled
      BY <1>1 DEF Settled
    <2>2. \A j \in DOMAIN loads' : loads'[j].read <= stored'
      BY <1>1, <1>3, <1>4 DEF IInv, Bounded
    <2> QED BY <1>1, <2>1, <2>2 DEF IInv, Bounded
  <1>8. Waiting'
    <2>1. /\ \A j \in DOMAIN loads : Owned(j)' => Owned(j) /\ j # k
          /\ loads[k].own => Owned(k)
      BY <1>1, <1>3, <1>4 DEF Owned
    <2>2. loads[k].own => awaited = 0 /\ \A j \in DOMAIN loads : ~Owned(j)'
      BY <2>1 DEF IInv, Waiting
    <2> QED BY <1>1, <1>4, <2>1, <2>2 DEF IInv, Waiting
  <1>9. Kept'
    BY <1>1 DEF IInv, Kept
  <1>10. Single'
    <2>1. \A w : LiveKeys(w)' = LiveKeys(w)
      BY <1>1, StaysLive
    <2> QED BY <1>1, <2>1 DEF IInv, Single
  <1> QED BY <1>5, <1>6, <1>7, <1>8, <1>9, <1>10 DEF IInv

-----------------------------------------------------------------------------
(* The theorems.                                                           *)

(* Nothing changes.                                                        *)
LEMMA StutterStep == ASSUME IInv, UNCHANGED vars PROVE IInv'
  <1>1. /\ ledger' = ledger /\ stored' = stored /\ overwritten' = overwritten
        /\ sends' = sends /\ loads' = loads /\ awaited' = awaited /\ busy' = busy
        /\ error' = error /\ message' = message /\ conflict' = conflict
        /\ ambiguousPosting' = ambiguousPosting /\ pendingPosting' = pendingPosting
        /\ pendingReversal' = pendingReversal /\ shown' = shown /\ draft' = draft
        /\ wish' = wish /\ content' = content /\ failed' = failed
    BY DEF vars, service, flags, kept, form, user
  <1>2. TypeOK' /\ Fresh' /\ Keyed' /\ Kept'
    BY <1>1, StaysKeyed DEF IInv, TypeOK, Fresh, NoBlindOverwrite, Kept
  <1>3. Bounded' /\ Waiting'
    <2>1. Settled' = Settled
      BY <1>1 DEF Settled
    <2> QED BY <1>1, <2>1 DEF IInv, Bounded, Waiting, Owned
  <1>4. Single'
    <2>1. \A w : LiveKeys(w)' = LiveKeys(w)
      BY <1>1, StaysLive
    <2> QED BY <1>1, <2>1 DEF IInv, Single
  <1> QED BY <1>2, <1>3, <1>4 DEF IInv

(* Every step keeps the invariant.                                         *)
LEMMA NextInv == IInv /\ [Next]_vars => IInv'
  <1> SUFFICES ASSUME IInv, [Next]_vars PROVE IInv'
    OBVIOUS
  <1>1. CASE Post \/ RetryPosting \/ DiscardPosting
    BY <1>1, PostStep, RetryPostingStep, DiscardPostingStep
  <1>2. CASE \E op \in Operations : Reverse(op)
    BY <1>2, ReverseStep
  <1>3. CASE RetryReversal \/ SaveMaster
    BY <1>3, RetryReversalStep, SaveMasterStep
  <1>4. CASE PressRefresh \/ OtherClientSaves
    BY <1>4, PressRefreshStep, OtherClientSavesStep
  <1>5. ASSUME NEW n \in DOMAIN sends,
               \/ Executes(n) \/ Refuses(n) \/ Confirmed(n)
               \/ Answered(n) \/ Lost(n) \/ GatewayAnswers(n)
        PROVE  IInv'
    BY <1>5, ExecutesStep, RefusesStep, ConfirmedStep, AnsweredStep, LostStep, GatewayAnswersStep
  <1>6. ASSUME NEW k \in DOMAIN loads, ReadsLists(k) \/ LoadArrives(k)
        PROVE  IInv'
    BY <1>6, ReadsListsStep, LoadArrivesStep
  <1>7. CASE UNCHANGED vars
    BY <1>7, StutterStep
  <1> QED BY <1>1, <1>2, <1>3, <1>4, <1>5, <1>6, <1>7 DEF Next

(* The inductive invariant holds at all times.                             *)
THEOREM PageInvariant == Spec => []IInv
  BY InitInv, NextInv, PTL DEF Spec

(* What is recorded for a wish is recorded under one of its live keys.     *)
LEMMA RecordedIsLive ==
  ASSUME IInv, NEW w \in Wish, NEW i \in RecordedFor(w)
  PROVE  ledger[i].key \in LiveKeys(w)
  <1>1. i \in DOMAIN ledger /\ ledger[i].wish = w
    BY DEF RecordedFor
  <1>2. PICK n \in Writes : sends[n].body.key = ledger[i].key /\ sends[n].body.wish = w
    BY <1>1 DEF IInv, Keyed
  <1>3. n \in DOMAIN sends /\ sends[n].body \in Body /\ sends[n].body.kind # "save"
    BY <1>2, SendsType DEF IInv, Writes
  <1>4. sends[n].body.kind = "post" /\ sends[n].body.key \in Keys
    BY <1>2, <1>3, BodyType, PageAssumption
  <1> QED BY <1>1, <1>2, <1>3, <1>4 DEF LiveKeys, Recorded

(* One live key and one entry per key: one entry per wish.                 *)
LEMMA OnceRecorded == IInv => LostAnswersDoNotDuplicate
  <1> SUFFICES ASSUME IInv, NEW w \in Wish \ failed
               PROVE  Cardinality(RecordedFor(w)) <= 1
    BY DEF LostAnswersDoNotDuplicate
  <1>1. \A i, j \in RecordedFor(w) : i = j
    <2> TAKE i \in RecordedFor(w), j \in RecordedFor(w)
    <2>1. ledger[i].key = ledger[j].key
      BY RecordedIsLive DEF IInv, Single
    <2> QED BY <2>1 DEF RecordedFor, IInv, Keyed
  <1>2. CASE RecordedFor(w) = {}
    BY <1>2, FS_EmptySet
  <1>3. CASE RecordedFor(w) # {}
    <2>1. PICK i \in RecordedFor(w) : RecordedFor(w) = {i}
      BY <1>1, <1>3
    <2>2. Cardinality({i}) = 1
      BY FS_Singleton
    <2> QED BY <2>1, <2>2
  <1> QED BY <1>2, <1>3

(* Type correctness: in particular the version counter stays within the    *)
(* edits of other clients and the writes of this page, and what is shown   *)
(* exists.                                                                 *)
THEOREM PageTypes == Spec => []TypeOK
  BY PageInvariant, PTL DEF IInv

(* However often a posting is sent again after answers that were lost on   *)
(* the way, with other postings, reversals, saves and refreshes in         *)
(* between, it is recorded at most once (submitPosting, sendPosting and    *)
(* the two Retry buttons).                                                 *)
THEOREM LostAnswersAreHarmless == Spec => []LostAnswersDoNotDuplicate
  BY PageInvariant, OnceRecorded, PTL

(* Whatever arrives while a form is being filled in and in whatever order, *)
(* an accepted save replaces the version its author was looking at         *)
(* (MasterItems, MasterLocations).                                         *)
THEOREM NoSaveIsBlind == Spec => []NoBlindOverwrite
  <1>1. IInv => NoBlindOverwrite
    BY DEF IInv, Fresh
  <1> QED BY <1>1, PageInvariant, PTL
=============================================================================
