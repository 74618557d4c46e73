-------------------------- MODULE SupplierExportProofs --------------------------
(***************************************************************************)
(* Proofs about SupplierExport, for any number of dry runs and sends at    *)
(* once, payments and edits: no voucher is posted to Fortnox twice, what   *)
(* may have arrived is not sent again, and a post implements a claimed     *)
(* effect. An undone payment that is sent, one that stands beside another  *)
(* in Fortnox, a number that is another payment's: each is traced to a dry *)
(* run that was stored after the undo, and to nothing else.                *)
(***************************************************************************)
EXTENDS SupplierExport, SequenceTheorems, FiniteSetTheorems, FunctionTheorems, TLAPS

Row  == [state : States, attempt : BOOLEAN, id : Nat]
Call == [at : {"idle", "checked", "read", "built", "sending", "sent"},
         of : Voucher, ok : BOOLEAN, new : BOOLEAN, mine : BOOLEAN]
Made == [of : Voucher, intact : BOOLEAN]

Unlocked   == Unsent \cup {"REFUSED"}
InBooks(v) == \E i \in Numbers : Entry(i).of = v
Posts(p, v)  == call[p].at = "sending" /\ call[p].of = v
Posted(p, v) == call[p].at = "sent" /\ call[p].of = v
Away(p, v)   == Posts(p, v) \/ Posted(p, v)

\* A post is under way, on the wire or in Fortnox, and once only.
Inv ==
    /\ SentIsLocked
    /\ NeverTwice
    /\ \A p \in Proc : \A v \in Voucher : (Posts(p, v) => ~InBooks(v)) /\ (Posted(p, v) => InBooks(v))
    /\ \A v \in wire : ~InBooks(v) /\ \A p \in Proc : ~Away(p, v)
    /\ \A p, q \in Proc : \A v \in Voucher : Away(p, v) /\ Away(q, v) => p = q

Good == TypeOK /\ Inv

-----------------------------------------------------------------------------
(* Types. *)

LEMMA VoucherTypes ==
    /\ Receipt \in Voucher /\ Cancellation \in Voucher
    /\ \A k \in Leg : Payment(k) \in Voucher /\ Undo(k) \in Voucher
    /\ \A v \in Voucher : v.kind = "payment" => v.leg \in Leg /\ v = Payment(v.leg)
<1>1. Receipt \in Voucher /\ Cancellation \in Voucher
  BY DEF Voucher
<1>2. \A k \in Leg : Payment(k) \in Voucher /\ Undo(k) \in Voucher
  BY DEF Voucher
<1>3. ASSUME NEW v \in Voucher, v.kind = "payment"
      PROVE  v.leg \in Leg /\ v = Payment(v.leg)
  <2>1. v = Receipt \/ v = Cancellation \/ (\E k \in Leg : v = Payment(k)) \/ (\E k \in Leg : v = Undo(k))
    BY DEF Voucher
  <2>2. \A k : Undo(k).kind = "undo" /\ Payment(k).leg = k
    BY DEF Undo, Payment
  <2>3. Receipt.kind = "receipt" /\ Cancellation.kind = "cancel"
    BY DEF Receipt, Cancellation
  <2>. QED
    BY <1>3, <2>1, <2>2, <2>3
<1>. QED
  BY <1>1, <1>2, <1>3

LEMMA NumberOfIs ==
    ASSUME NEW v, InBooks(v)
    PROVE  NumberOf(v) \in Numbers /\ Entry(NumberOf(v)).of = v
  BY DEF NumberOf, InBooks

\* A voucher more in the invoice, and what becomes of one row.
LEMMA InvoiceTypes ==
    ASSUME TypeOK, Invoice
    PROVE  TypeOK' /\ UNCHANGED <<fortnox, wire, call, late>>
           /\ \A v \in Voucher : row'[v].state \in Unlocked => row[v].state \in Unlocked
<1>1. ASSUME NEW v \in Voucher, Book(v), row' = row
      PROVE  TypeOK'
  BY <1>1 DEF TypeOK, Book, Numbers
<1>2. ASSUME NEW v \in Voucher, NEW w \in Voucher, Book(v), Withdraw(w)
      PROVE  TypeOK' /\ \A u \in Voucher : row'[u].state \in Unlocked => row[u].state \in Unlocked
  <2>1. CASE row' = row
    BY <1>1, <1>2, <2>1
  <2>2. CASE row[w].state = "DRY_RUN_READY" /\ row' = [row EXCEPT ![w].state = "BLOCKED"]
    BY <1>2, <2>2 DEF TypeOK, Book, Numbers, States, Unsent, Unlocked
  <2>. QED
    BY <1>2, <2>1, <2>2 DEF Withdraw
<1>3. CASE MarkPaid
  BY <1>1, <1>3, VoucherTypes DEF MarkPaid, Book
<1>4. CASE UndoPayment
  BY <1>2, <1>4, VoucherTypes DEF UndoPayment, Book
<1>5. CASE Cancel
  BY <1>2, <1>5, VoucherTypes DEF Cancel, Book
<1>. QED
  BY <1>3, <1>4, <1>5 DEF Invoice

\* A state that changes in one row, and one call that goes on.
LEMMA StateTypes ==
    ASSUME TypeOK, UNCHANGED <<booked, fortnox>>, wire' \subseteq Voucher, late' \subseteq Leg,
           NEW p \in Proc, NEW c \in Call, call' = call \/ Goes(p, c),
           NEW v \in Voucher, NEW s \in States, NEW a \in BOOLEAN,
           \/ row' = row
           \/ row' = [row EXCEPT ![v].state = s]
           \/ row' = [row EXCEPT ![v].state = s, ![v].attempt = a]
    PROVE  TypeOK'
<1>1. Numbers' = Numbers
  BY DEF Numbers
<1>2. call' \in [Proc -> Call]
  BY DEF TypeOK, Goes, Call
<1>3. row' \in [Voucher -> Row] /\ \A w \in Voucher : row'[w].id = row[w].id
  <2>1. row \in [Voucher -> Row]
    BY DEF TypeOK, Row
  <2>2. CASE row' = [row EXCEPT ![v].state = s]
    BY <2>1, <2>2 DEF Row
  <2>3. CASE row' = [row EXCEPT ![v].state = s, ![v].attempt = a]
    <3>1. row' = [row EXCEPT ![v] = [row[v] EXCEPT !.state = s, !.attempt = a]]
      BY <2>1, <2>3
    <3>2. [row[v] EXCEPT !.state = s, !.attempt = a] \in Row
          /\ [row[v] EXCEPT !.state = s, !.attempt = a].id = row[v].id
      BY <2>1 DEF Row
    <3>. QED
      BY <2>1, <3>1, <3>2
  <2>. QED
    BY <2>1, <2>2, <2>3
<1>. QED
  BY <1>1, <1>2, <1>3 DEF TypeOK, Call, Row

LEMMA CallIs ==
    ASSUME TypeOK, NEW p \in Proc
    PROVE  /\ call[p] \in Call /\ call[p].of \in Voucher /\ Idle \in Call
           /\ \A at \in {"built", "sending", "sent"} : [call[p] EXCEPT !.at = at] \in Call
<1>1. call[p] \in Call /\ Idle \in Call
  BY VoucherTypes DEF TypeOK, Call, Idle
<1>. QED
  BY <1>1 DEF Call

LEMMA StoreIs ==
    ASSUME TypeOK, NEW v \in Voucher, NEW new, NEW s, Store(v, new, s)
    PROVE  row' = row \/ (row[v].state \in Unsent /\ row' = [row EXCEPT ![v].state = s])
  BY DEF Store, Unsent

LEMMA DryRunTypes ==
    ASSUME TypeOK, NEW p \in Proc, NEW v \in Voucher, DryRun(p, v)
    PROVE  TypeOK'
<1>. DEFINE c == [Idle EXCEPT !.at = "checked", !.of = v, !.ok = Exportable(v),
                              !.new = row[v].state = "NONE"]
<1>1. Exportable(v) \in BOOLEAN
  BY DEF Exportable
<1>2. c \in Call
  BY <1>1 DEF Idle, Call
<1>3. Goes(p, c) /\ row' = row /\ UNCHANGED <<booked, fortnox, wire, late>>
  BY DEF DryRun
<1>. HIDE DEF c
<1>. QED
  BY <1>2, <1>3, StateTypes DEF TypeOK

LEMMA StoreTypes ==
    ASSUME TypeOK, NEW p \in Proc, StoreDryRun(p)
    PROVE  TypeOK'
<1>. DEFINE s == IF call[p].ok THEN "DRY_RUN_READY" ELSE "BLOCKED"
<1>1. s \in States
  BY DEF States
<1>2. row' = row \/ row' = [row EXCEPT ![call[p].of].state = s]
  BY StoreIs, CallIs DEF StoreDryRun
<1>3. late' \subseteq Leg
  BY CallIs, VoucherTypes DEF TypeOK, StoreDryRun
<1>4. Goes(p, Idle) /\ UNCHANGED <<booked, fortnox, wire>>
  BY DEF StoreDryRun
<1>. HIDE DEF s
<1>. QED
  BY <1>1, <1>2, <1>3, <1>4, CallIs, StateTypes DEF TypeOK

\* A claim is its call's, and no other call's of the same export.
LEMMA ClaimIs ==
    ASSUME TypeOK, NEW p \in Proc, Claim(p), row[call[p].of].state = "DRY_RUN_READY"
    PROVE  /\ call' \in [Proc -> Call] /\ call'[p].at = "sending"
           /\ \A q \in Proc : /\ call'[q].of = call[q].of
                              /\ q # p => call'[q].at = call[q].at
<1>. DEFINE v == call[p].of
<1>1. call \in [Proc -> Call]
  BY DEF TypeOK, Call
<1>2. call' = [q \in Proc |->
          IF q = p THEN [call[q] EXCEPT !.at = "sending", !.mine = TRUE]
          ELSE IF call[q].of = v THEN [call[q] EXCEPT !.mine = FALSE] ELSE call[q]]
  BY DEF Claim
<1>3. \A q \in Proc : /\ [call[q] EXCEPT !.at = "sending", !.mine = TRUE] \in Call
                      /\ [call[q] EXCEPT !.at = "sending", !.mine = TRUE].at = "sending"
                      /\ [call[q] EXCEPT !.at = "sending", !.mine = TRUE].of = call[q].of
                      /\ [call[q] EXCEPT !.mine = FALSE] \in Call
                      /\ [call[q] EXCEPT !.mine = FALSE].at = call[q].at
                      /\ [call[q] EXCEPT !.mine = FALSE].of = call[q].of
  BY <1>1 DEF Call
<1>. HIDE DEF v
<1>. QED
  BY <1>1, <1>2, <1>3

LEMMA SendTypes ==
    ASSUME TypeOK, NEW p \in Proc, (\E v \in Voucher : Send(p, v)) \/ Rebuild(p) \/ Claim(p)
    PROVE  TypeOK'
<1>1. ASSUME NEW v \in Voucher, Send(p, v)
      PROVE  TypeOK'
  BY <1>1 DEF TypeOK, Send, Goes, Idle, Numbers
<1>2. CASE Rebuild(p)
  BY <1>2, VoucherTypes DEF TypeOK, Rebuild, Goes, Idle, Numbers
<1>3. CASE Claim(p)
  <2>. DEFINE v == call[p].of
  <2>1. v \in Voucher /\ UNCHANGED <<booked, fortnox, wire, late>>
    BY <1>3, CallIs DEF Claim
  <2>2. CASE row[v].state = "DRY_RUN_READY"
    <3>1. row' = [row EXCEPT ![v].state = "SENDING", ![v].attempt = TRUE]
      BY <1>3, <2>2 DEF Claim
    <3>2. row' \in [Voucher -> Row] /\ \A w \in Voucher : row'[w].id = row[w].id
      BY <2>1, <3>1 DEF TypeOK, Row, States
    <3>3. call' \in [Proc -> Call]
      BY <1>3, <2>2, ClaimIs
    <3>. QED
      BY <2>1, <3>2, <3>3 DEF TypeOK, Row, Call, Numbers
  <2>3. CASE row[v].state # "DRY_RUN_READY"
    <3>1. Goes(p, Idle) /\ row' = row
      BY <1>3, <2>3 DEF Claim
    <3>. QED
      BY <2>1, <3>1, CallIs, StateTypes DEF TypeOK, States
  <2>. QED
    BY <2>2, <2>3
<1>. QED
  BY <1>1, <1>2, <1>3

LEMMA AnswerTypes ==
    ASSUME TypeOK, NEW p \in Proc, NotSent(p) \/ Refused(p) \/ Unknown(p) \/ Dies(p)
    PROVE  TypeOK'
<1>1. {"DRY_RUN_READY", "REFUSED", "REJECTED", "UNKNOWN"} \subseteq States
  BY DEF States
<1>2. CASE NotSent(p)
  BY <1>1, <1>2, CallIs, StateTypes DEF TypeOK, NotSent
<1>3. CASE Refused(p)
  BY <1>1, <1>3, CallIs, StateTypes DEF TypeOK, Refused, Lock
<1>4. CASE Unknown(p)
  <2>1. wire' \subseteq Voucher /\ late' \subseteq Leg
    BY <1>4, CallIs DEF TypeOK, Unknown, Abandon
  <2>. QED
    BY <1>1, <1>4, <2>1, CallIs, StateTypes DEF Unknown, Lock
<1>5. CASE Dies(p)
  <2>1. wire' \subseteq Voucher /\ late' \subseteq Leg
    BY <1>5, CallIs DEF TypeOK, Dies, Abandon
  <2>. QED
    BY <1>1, <1>5, <2>1, CallIs, StateTypes DEF Dies
<1>. QED
  BY <1>2, <1>3, <1>4, <1>5

\* What a voucher that is made leaves of the earlier ones.
LEMMA MakeIs ==
    ASSUME TypeOK, NEW v \in Voucher, Make(v)
    PROVE  /\ fortnox' \in Seq([of : Voucher, intact : BOOLEAN])
           /\ Len(fortnox) \in Nat /\ Len(fortnox') = Len(fortnox) + 1
           /\ Numbers' = Numbers \cup {Len(fortnox) + 1} /\ Len(fortnox) + 1 \notin Numbers
           /\ fortnox'[Len(fortnox) + 1].of = v
           /\ \A i \in Numbers : Entry(i)' = Entry(i)
<1>. DEFINE e == [of |-> v, intact |-> TRUE]
<1>1. e \in Made /\ e.of = v /\ fortnox \in Seq(Made) /\ fortnox' = Append(fortnox, e)
  BY DEF TypeOK, Make, Made
<1>. HIDE DEF e
<1>2. /\ fortnox' \in Seq(Made) /\ Len(fortnox) \in Nat /\ Len(fortnox') = Len(fortnox) + 1
      /\ \A i \in 1..Len(fortnox) : fortnox'[i] = fortnox[i]
      /\ fortnox'[Len(fortnox) + 1] = e
  BY <1>1, AppendProperties
<1>3. Numbers' = Numbers \cup {Len(fortnox) + 1} /\ Len(fortnox) + 1 \notin Numbers
  BY <1>2 DEF Numbers
<1>4. fortnox'[Len(fortnox) + 1].of = v
  BY <1>1, <1>2
<1>5. \A i \in Numbers : Entry(i)' = Entry(i)
  BY <1>2 DEF Entry, Numbers
<1>. QED
  BY <1>2, <1>3, <1>4, <1>5 DEF Made

LEMMA DeliverTypes ==
    ASSUME TypeOK, NEW p \in Proc, Deliver(p)
    PROVE  TypeOK'
<1>1. Make(call[p].of) /\ Goes(p, [call[p] EXCEPT !.at = "sent"]) /\ UNCHANGED <<booked, row, wire, late>>
  BY DEF Deliver
<1>2. call' \in [Proc -> Call]
  BY <1>1, CallIs DEF TypeOK, Goes, Call
<1>. QED
  BY <1>1, <1>2, CallIs, MakeIs DEF TypeOK, Call

LEMMA LateTypes ==
    ASSUME TypeOK, NEW v \in Voucher, DeliverLate(v)
    PROVE  TypeOK'
  BY MakeIs DEF TypeOK, DeliverLate

LEMMA ReceiptTypes ==
    ASSUME TypeOK, NEW p \in Proc, TakeReceipt(p), InBooks(call[p].of)
    PROVE  TypeOK'
<1>. DEFINE v == call[p].of  i == NumberOf(v)
<1>1. i \in Numbers /\ Numbers \subseteq Nat
  BY NumberOfIs DEF Numbers
<1>2. v \in Voucher /\ Idle \in Call
  BY CallIs
<1>3. Goes(p, Idle) /\ UNCHANGED <<booked, fortnox, wire, late>>
  BY DEF TakeReceipt
<1>4. {"UNKNOWN", "RECEIPT_IDENTIFIED"} \subseteq States
  BY DEF States
<1>5. CASE row' = row \/ row' = [row EXCEPT ![v].state = "UNKNOWN"]
  BY <1>2, <1>3, <1>4, <1>5, StateTypes DEF TypeOK
<1>6. CASE row' = [row EXCEPT ![v].state = "RECEIPT_IDENTIFIED", ![v].id = i]
  <2>1. call' \in [Proc -> Call]
    BY <1>2, <1>3 DEF TypeOK, Goes, Call
  <2>2. row' \in [Voucher -> [state : States, attempt : BOOLEAN, id : Nat]]
        /\ \A w \in Voucher : row'[w].id \in {0} \cup Numbers
    BY <1>1, <1>2, <1>4, <1>6 DEF TypeOK
  <2>. QED
    BY <1>3, <2>1, <2>2 DEF TypeOK, Call, Numbers
<1>. QED
  BY <1>5, <1>6 DEF TakeReceipt

LEMMA RowTypes ==
    ASSUME TypeOK, NEW v \in Voucher, ExpireLease(v) \/ Verify(v) \/ Reconcile(v) \/ ReleaseRejected(v)
    PROVE  TypeOK'
<1>1. ASSUME NEW r, r \in [state : States, attempt : BOOLEAN, id : Nat],
             r.id \in {0} \cup Numbers, Update(v, r)
      PROVE  TypeOK'
  BY <1>1 DEF TypeOK, Update, Numbers
<1>2. row[v] \in [state : States, attempt : BOOLEAN, id : Nat]
      /\ row[v].id \in {0} \cup Numbers /\ Numbers \subseteq Nat
  BY DEF TypeOK, Numbers
<1>3. CASE ExpireLease(v)
  BY <1>1, <1>2, <1>3 DEF ExpireLease, States
<1>4. CASE Verify(v)
  BY <1>1, <1>2, <1>4 DEF Verify, States
<1>5. CASE Reconcile(v)
  BY <1>1, <1>2, <1>5 DEF Reconcile, States
<1>6. CASE ReleaseRejected(v)
  BY <1>1, <1>2, <1>6 DEF ReleaseRejected, States
<1>. QED
  BY <1>3, <1>4, <1>5, <1>6

\* A voucher that is changed stays the voucher it was.
LEMMA EditIs ==
    ASSUME TypeOK, Edit
    PROVE  /\ TypeOK' /\ Numbers' = Numbers
           /\ \A i \in Numbers : Entry(i)'.of = Entry(i).of
<1>1. PICK i \in Numbers : fortnox' = [fortnox EXCEPT ![i].intact = FALSE]
  BY DEF Edit
<1>. DEFINE e == [fortnox[i] EXCEPT !.intact = FALSE]
<1>2. fortnox \in Seq(Made) /\ i \in 1..Len(fortnox) /\ fortnox[i] \in Made
  <2>1. fortnox \in Seq(Made)
    BY DEF TypeOK, Made
  <2>2. i \in 1..Len(fortnox)
    BY DEF Numbers
  <2>. QED
    BY <2>1, <2>2
<1>3. e \in Made /\ e.of = fortnox[i].of /\ fortnox' = [fortnox EXCEPT ![i] = e]
  BY <1>1, <1>2 DEF Made
<1>. HIDE DEF e
<1>4. /\ fortnox' \in Seq(Made) /\ Len(fortnox') = Len(fortnox)
      /\ \A j \in 1..Len(fortnox) : fortnox'[j] = IF j = i THEN e ELSE fortnox[j]
  BY <1>2, <1>3, ExceptSeq
<1>5. ASSUME NEW j \in Numbers
      PROVE  Entry(j)'.of = Entry(j).of
  BY <1>3, <1>4 DEF Numbers, Entry
<1>. QED
  BY <1>4, <1>5 DEF TypeOK, Edit, Numbers, Made
-----------------------------------------------------------------------------
(* Sent once. *)

\* What neither posts nor gives up a post.
LEMMA QuietInv ==
    ASSUME TypeOK, Inv, fortnox' = fortnox, wire' = wire,
           \A p \in Proc : call'[p] = call[p] \/ call'[p].at \notin {"sending", "sent"},
           \A v \in Voucher : row'[v].state \in Unlocked => row[v].state \in Unlocked \/ ~MayBeThere(v)'
    PROVE  Inv'
<1>1. \A v : InBooks(v)' <=> InBooks(v)
  BY DEF InBooks, Numbers, Entry
<1>2. \A p \in Proc : \A v : (Posts(p, v)' => Posts(p, v)) /\ (Posted(p, v)' => Posted(p, v))
  BY DEF Posts, Posted
<1>3. \A v : MayBeThere(v)' => MayBeThere(v)
  BY <1>1, <1>2 DEF MayBeThere, InBooks, Posts, Posted
<1>5. SentIsLocked'
  BY <1>3 DEF Inv, SentIsLocked, Unlocked
<1>6. NeverTwice'
  BY DEF Inv, NeverTwice, Numbers, Entry
<1>8. \A q \in Proc : \A w \in Voucher : (Posts(q, w)' => ~InBooks(w)') /\ (Posted(q, w)' => InBooks(w)')
  BY <1>1, <1>2 DEF Inv
<1>. QED
  BY <1>1, <1>2, <1>5, <1>6, <1>8 DEF Inv, Away

LEMMA OtherCalls ==
    ASSUME TypeOK, NEW p \in Proc, NEW c \in Call, Goes(p, c)
    PROVE  call'[p] = c /\ \A q \in Proc \ {p} : call'[q] = call[q]
  BY DEF TypeOK, Goes

LEMMA OverCalls ==
    ASSUME TypeOK, NEW p \in Proc, Goes(p, Idle)
    PROVE  call'[p].at = "idle" /\ \A q \in Proc \ {p} : call'[q] = call[q]
<1>1. call'[p] = Idle /\ \A q \in Proc \ {p} : call'[q] = call[q]
  BY CallIs, OtherCalls
<1>. QED
  BY <1>1 DEF Idle

LEMMA InvoiceInv ==
    ASSUME TypeOK, Inv, Invoice
    PROVE  Inv'
  BY InvoiceTypes, QuietInv

LEMMA DryRunInv ==
    ASSUME TypeOK, Inv, NEW p \in Proc, (\E v \in Voucher : DryRun(p, v)) \/ StoreDryRun(p)
    PROVE  Inv'
<1>1. ASSUME NEW v \in Voucher, NEW new, NEW s, Store(v, new, s)
      PROVE  \A w \in Voucher : row'[w].state \in Unlocked => row[w].state \in Unlocked
  BY <1>1, StoreIs DEF TypeOK, Unlocked
<1>2. fortnox' = fortnox /\ wire' = wire
  BY DEF DryRun, StoreDryRun
<1>3. \A q \in Proc : call'[q] = call[q] \/ call'[q].at \notin {"sending", "sent"}
  <2>1. call' = call \/ \E c \in Call : c.at \notin {"sending", "sent"} /\ Goes(p, c)
    <3>1. ASSUME NEW v \in Voucher, DryRun(p, v)
          PROVE  call' = call \/ Goes(p, [Idle EXCEPT !.at = "checked", !.of = v, !.ok = Exportable(v),
                                                     !.new = row[v].state = "NONE"])
      BY <3>1 DEF DryRun
    <3>2. ASSUME NEW v \in Voucher
          PROVE  [Idle EXCEPT !.at = "checked", !.of = v, !.ok = Exportable(v),
                              !.new = row[v].state = "NONE"] \in {c \in Call : c.at = "checked"}
      <4>1. Exportable(v) \in BOOLEAN
        BY DEF Exportable
      <4>. QED
        BY <4>1 DEF Idle, Call
    <3>3. StoreDryRun(p) => Goes(p, Idle)
      BY DEF StoreDryRun
    <3>4. Idle \in Call /\ Idle.at = "idle"
      BY CallIs DEF Idle
    <3>. QED
      BY <3>1, <3>2, <3>3, <3>4
  <2>. QED
    BY <2>1, OtherCalls
<1>4. \A w \in Voucher : row'[w].state \in Unlocked => row[w].state \in Unlocked
  BY <1>1, CallIs DEF DryRun, StoreDryRun
<1>. QED
  BY <1>2, <1>3, <1>4, QuietInv

LEMMA SendInv ==
    ASSUME TypeOK, Inv, NEW p \in Proc, (\E v \in Voucher : Send(p, v)) \/ Rebuild(p)
    PROVE  Inv'
<1>1. fortnox' = fortnox /\ wire' = wire /\ row' = row
  BY DEF Send, Rebuild
<1>2. \A q \in Proc : call'[q] = call[q] \/ call'[q].at \notin {"sending", "sent"}
  <2>1. \E c \in Call : c.at \notin {"sending", "sent"} /\ Goes(p, c)
    <3>1. ASSUME NEW v \in Voucher
          PROVE  /\ [Idle EXCEPT !.at = "read", !.of = v] \in Call
                 /\ [Idle EXCEPT !.at = "read", !.of = v].at = "read"
      BY DEF Idle, Call
    <3>2. [call[p] EXCEPT !.at = "built"] \in Call /\ [call[p] EXCEPT !.at = "built"].at = "built"
          /\ Idle \in Call /\ Idle.at = "idle"
      BY CallIs DEF Call, Idle
    <3>. QED
      BY <3>1, <3>2 DEF Send, Rebuild
  <2>. QED
    BY <2>1, OtherCalls
<1>. QED
  BY <1>1, <1>2, QuietInv

\* A voucher that is claimed is not in Fortnox nor on its way there.
LEMMA ClaimInv ==
    ASSUME TypeOK, Inv, NEW p \in Proc, Claim(p)
    PROVE  Inv'
<1>. DEFINE v == call[p].of
<1>1. CASE row[v].state # "DRY_RUN_READY"
  <2>1. fortnox' = fortnox /\ wire' = wire /\ row' = row
    BY <1>1 DEF Claim
  <2>2. \A q \in Proc : call'[q] = call[q] \/ call'[q].at \notin {"sending", "sent"}
    BY <1>1 DEF Claim, Goes, Idle, TypeOK
  <2>. QED
    BY <2>1, <2>2, QuietInv
<1>2. CASE row[v].state = "DRY_RUN_READY"
  <2>1. v \in Voucher
    BY CallIs
  <2>2. v \notin wire /\ ~InBooks(v) /\ \A q \in Proc : ~Away(q, v)
    BY <1>2, <2>1 DEF Inv, SentIsLocked, MayBeThere, Unsent, InBooks, Away, Posts, Posted
  <2>3. /\ fortnox' = fortnox /\ wire' = wire
        /\ row' = [row EXCEPT ![v].state = "SENDING", ![v].attempt = TRUE]
    BY <1>2 DEF Claim
  <2>4. /\ call'[p].at = "sending" /\ call'[p].of = v
        /\ \A q \in Proc \ {p} : call'[q].at = call[q].at /\ call'[q].of = call[q].of
        /\ row'[v].state = "SENDING" /\ \A w \in Voucher \ {v} : row'[w] = row[w]
    <3>1. row \in [Voucher -> Row] /\ call \in [Proc -> Call]
      BY DEF TypeOK, Row, Call
    <3>2. row'[v].state = "SENDING" /\ \A w \in Voucher \ {v} : row'[w] = row[w]
      BY <2>1, <2>3, <3>1 DEF Row
    <3>3. /\ call'[p].at = "sending" /\ call'[p].of = v
          /\ \A q \in Proc \ {p} : call'[q].at = call[q].at /\ call'[q].of = call[q].of
      BY <1>2, ClaimIs
    <3>. QED
      BY <3>2, <3>3
  <2>. HIDE DEF v
  <2>5. \A w : InBooks(w)' <=> InBooks(w)
    BY <2>3 DEF InBooks, Numbers, Entry
  <2>6. /\ \A w : ~Posted(p, w)' /\ (Posts(p, w)' => w = v)
        /\ \A q \in Proc \ {p} : \A w : (Posts(q, w)' <=> Posts(q, w)) /\ (Posted(q, w)' <=> Posted(q, w))
    BY <2>4 DEF Posts, Posted
  <2>7. SentIsLocked'
    <3>1. ASSUME NEW w \in Voucher, MayBeThere(w)', w # v
          PROVE  row'[w].state \notin Unsent \cup {"REFUSED"}
      <4>1. w \in wire \/ InBooks(w) \/ \E q \in Proc : Away(q, w)
        BY <2>3, <2>5, <2>6, <3>1 DEF MayBeThere, InBooks, Away, Posts, Posted
      <4>2. MayBeThere(w)
        BY <4>1 DEF MayBeThere, InBooks, Away, Posts, Posted
      <4>. QED
        BY <2>4, <3>1, <4>2 DEF Inv, SentIsLocked
    <3>. QED
      BY <2>4, <3>1 DEF SentIsLocked, Unsent
  <2>8. NeverTwice'
    BY <2>3 DEF Inv, NeverTwice, Numbers, Entry
  <2>9. \A q \in Proc : \A w \in Voucher : (Posts(q, w)' => ~InBooks(w)') /\ (Posted(q, w)' => InBooks(w)')
    BY <2>2, <2>5, <2>6 DEF Inv
  <2>10. \A w \in wire' : ~InBooks(w)' /\ \A q \in Proc : ~Away(q, w)'
    BY <2>2, <2>3, <2>5, <2>6 DEF Inv, Away
  <2>11. \A q, r \in Proc : \A w \in Voucher : Away(q, w)' /\ Away(r, w)' => q = r
    BY <2>2, <2>6 DEF Inv, Away
  <2>. QED
    BY <2>7, <2>8, <2>9, <2>10, <2>11 DEF Inv
<1>. QED
  BY <1>1, <1>2

\* The arrival of a post that is under way and of no other.
LEMMA MakeInv ==
    ASSUME TypeOK, Inv, NEW v \in Voucher, Make(v), ~InBooks(v), MayBeThere(v), row' = row,
           v \notin wire', wire' \subseteq wire,
           \A q \in Proc : \/ call'[q] = call[q] /\ ~Away(q, v)
                           \/ call'[q].at = "sent" /\ call'[q].of = v /\ Away(q, v)
    PROVE  Inv'
<1>1. \A w : InBooks(w)' <=> InBooks(w) \/ w = v
  BY MakeIs DEF InBooks, Entry
<1>2. \A q \in Proc : \A w : /\ Away(q, w)' <=> Away(q, w)
                             /\ w # v => (Posts(q, w)' <=> Posts(q, w)) /\ (Posted(q, w)' <=> Posted(q, w))
                             /\ ~Posts(q, v)'
  BY DEF Away, Posts, Posted
<1>3. SentIsLocked'
  <2>1. ASSUME NEW w \in Voucher, MayBeThere(w)'
        PROVE  MayBeThere(w)
    BY <1>1, <1>2, <2>1 DEF MayBeThere, InBooks, Away, Posts, Posted
  <2>. QED
    BY <2>1 DEF Inv, SentIsLocked
<1>4. NeverTwice'
  <2>1. \A i \in Numbers : Entry(i).of # v
    BY DEF InBooks
  <2>. QED
    BY <2>1, MakeIs DEF Inv, NeverTwice, Entry
<1>5. \A q \in Proc : \A w \in Voucher : (Posts(q, w)' => ~InBooks(w)') /\ (Posted(q, w)' => InBooks(w)')
  BY <1>1, <1>2 DEF Inv
<1>6. \A w \in wire' : ~InBooks(w)' /\ \A q \in Proc : ~Away(q, w)'
  BY <1>1, <1>2 DEF Inv
<1>7. \A q, r \in Proc : \A w \in Voucher : Away(q, w)' /\ Away(r, w)' => q = r
  BY <1>2 DEF Inv
<1>. QED
  BY <1>3, <1>4, <1>5, <1>6, <1>7 DEF Inv

LEMMA DeliverInv ==
    ASSUME TypeOK, Inv, NEW p \in Proc, Deliver(p)
    PROVE  Inv'
<1>. DEFINE v == call[p].of
<1>0. v \in Voucher /\ Posts(p, v) /\ Away(p, v)
  BY CallIs DEF Deliver, Posts, Away
<1>1. ~InBooks(v) /\ v \notin wire /\ MayBeThere(v) /\ \A q \in Proc \ {p} : ~Away(q, v)
  BY <1>0 DEF Inv, MayBeThere, Posts
<1>2. Make(v) /\ row' = row /\ wire' = wire
  BY DEF Deliver
<1>3. call'[p].at = "sent" /\ call'[p].of = v /\ \A q \in Proc \ {p} : call'[q] = call[q]
  BY DEF TypeOK, Deliver, Goes
<1>. HIDE DEF v
<1>. QED
  BY <1>0, <1>1, <1>2, <1>3, MakeInv

LEMMA DeliverLateInv ==
    ASSUME TypeOK, Inv, NEW v \in Voucher, DeliverLate(v)
    PROVE  Inv'
<1>1. ~InBooks(v) /\ MayBeThere(v) /\ \A q \in Proc : ~Away(q, v)
  BY DEF Inv, DeliverLate, MayBeThere
<1>2. Make(v) /\ row' = row /\ call' = call /\ v \notin wire' /\ wire' \subseteq wire
  BY DEF DeliverLate
<1>. QED
  BY <1>1, <1>2, MakeInv

\* A post that fails for certain frees its voucher; no other speaks of it.
LEMMA FreedInv ==
    ASSUME TypeOK, Inv, NEW p \in Proc, NEW v \in Voucher, Posts(p, v), Goes(p, Idle),
           fortnox' = fortnox, wire' = wire
    PROVE  ~MayBeThere(v)'
<1>1. Away(p, v) /\ ~InBooks(v) /\ v \notin wire
      /\ \A q \in Proc \ {p} : ~Away(q, v)
  BY DEF Away, Inv
<1>2. call'[p].at = "idle" /\ \A q \in Proc \ {p} : call'[q] = call[q]
  BY OverCalls
<1>3. ~InBooks(v)'
  BY <1>1 DEF InBooks, Numbers, Entry
<1>. QED
  BY <1>1, <1>2, <1>3 DEF MayBeThere, InBooks, Away, Posts, Posted

LEMMA LeavesInv ==
    ASSUME TypeOK, Inv, NEW p \in Proc, Goes(p, Idle), fortnox' = fortnox,
           Abandon(p), \A v \in Voucher : row'[v].state \in Unlocked => row[v].state \in Unlocked
    PROVE  Inv'
<1>1. call'[p].at = "idle" /\ \A q \in Proc \ {p} : call'[q] = call[q]
  BY OverCalls
<1>2. \A q \in Proc : call'[q] = call[q] \/ call'[q].at \notin {"sending", "sent"}
  BY <1>1
<1>3. CASE UNCHANGED wire
  BY <1>2, <1>3, QuietInv
<1>4. CASE call[p].at = "sending" /\ wire' = wire \cup {call[p].of}
  <2>. DEFINE v == call[p].of
  <2>0. v \in Voucher /\ Posts(p, v) /\ Away(p, v)
    BY <1>4, CallIs DEF Posts, Away
  <2>1. v \in Voucher /\ Away(p, v) /\ ~InBooks(v) /\ \A q \in Proc \ {p} : ~Away(q, v)
    BY <2>0 DEF Inv
  <2>2. wire' = wire \cup {v}
    BY <1>4
  <2>. HIDE DEF v
  <2>3. \A w : InBooks(w)' <=> InBooks(w)
    BY DEF InBooks, Numbers, Entry
  <2>4. /\ \A w : ~Posts(p, w)' /\ ~Posted(p, w)'
        /\ \A q \in Proc \ {p} : \A w : (Posts(q, w)' <=> Posts(q, w)) /\ (Posted(q, w)' <=> Posted(q, w))
    BY <1>1 DEF Posts, Posted
  <2>5. SentIsLocked'
    <3>1. ASSUME NEW w \in Voucher, MayBeThere(w)'
          PROVE  MayBeThere(w)
      <4>1. w \in wire \/ w = v \/ InBooks(w) \/ \E q \in Proc : Away(q, w)
        BY <2>2, <2>3, <2>4, <3>1 DEF MayBeThere, InBooks, Away, Posts, Posted
      <4>. QED
        BY <2>1, <4>1 DEF MayBeThere, InBooks, Away, Posts, Posted
    <3>. QED
      BY <3>1 DEF Inv, SentIsLocked, Unlocked
  <2>6. NeverTwice'
    BY DEF Inv, NeverTwice, Numbers, Entry
  <2>7. \A q \in Proc : \A w \in Voucher : (Posts(q, w)' => ~InBooks(w)') /\ (Posted(q, w)' => InBooks(w)')
    BY <2>3, <2>4 DEF Inv
  <2>8. \A w \in wire' : ~InBooks(w)' /\ \A q \in Proc : ~Away(q, w)'
    BY <2>1, <2>2, <2>3, <2>4 DEF Inv, Away
  <2>9. \A q, r \in Proc : \A w \in Voucher : Away(q, w)' /\ Away(r, w)' => q = r
    BY <2>4 DEF Inv, Away
  <2>. QED
    BY <2>5, <2>6, <2>7, <2>8, <2>9 DEF Inv
<1>. QED
  BY <1>3, <1>4 DEF Abandon

\* What a call that is over has made of its row.
LEMMA OneRow ==
    ASSUME TypeOK, NEW v \in Voucher, NEW s,
           row' = row \/ row' = [row EXCEPT ![v].state = s]
                      \/ row' = [row EXCEPT ![v].state = s, ![v].attempt = FALSE]
    PROVE  \A w \in Voucher : row'[w].state = row[w].state \/ (w = v /\ row'[w].state = s)
<1>1. row \in [Voucher -> Row]
  BY DEF TypeOK, Row
<1>. QED
  BY <1>1 DEF Row

LEMMA AnswerInv ==
    ASSUME TypeOK, Inv, NEW p \in Proc,
           NotSent(p) \/ Refused(p) \/ Unknown(p) \/ TakeReceipt(p) \/ Dies(p)
    PROVE  Inv'
<1>0. PICK v \in Voucher : v = call[p].of
  BY CallIs
<1>1. fortnox' = fortnox /\ Goes(p, Idle)
  BY DEF NotSent, Refused, Unknown, TakeReceipt, Dies
<1>2. \A q \in Proc : call'[q] = call[q] \/ call'[q].at \notin {"sending", "sent"}
  BY <1>1, OverCalls
<1>3. CASE NotSent(p)
  <2>1. ~MayBeThere(v)' /\ wire' = wire
    BY <1>0, <1>1, <1>3, FreedInv DEF NotSent, Posts
  <2>2. \A w \in Voucher : row'[w].state = row[w].state \/ w = v
    BY <1>1, <1>3, <1>0, OneRow DEF NotSent
  <2>. QED
    BY <1>1, <1>2, <2>1, <2>2, QuietInv
<1>4. CASE Refused(p)
  <2>1. CASE call[p].at = "sending" /\ Lock(p, "REFUSED")
    <3>1. ~MayBeThere(v)' /\ wire' = wire
      BY <1>0, <1>1, <1>4, <2>1, FreedInv DEF Refused, Posts
    <3>2. \A w \in Voucher : row'[w].state = row[w].state \/ w = v
      BY <1>1, <2>1, <1>0, OneRow DEF Lock
    <3>. QED
      BY <1>1, <1>2, <3>1, <3>2, QuietInv
  <2>2. CASE Lock(p, "REJECTED")
    <3>1. \A w \in Voucher : row'[w].state = row[w].state \/ row'[w].state = "REJECTED"
      BY <1>1, <2>2, <1>0, OneRow DEF Lock
    <3>2. wire' = wire
      BY <1>4 DEF Refused
    <3>. QED
      BY <1>1, <1>2, <3>1, <3>2, QuietInv DEF Unlocked, Unsent
  <2>. QED
    BY <1>4, <2>1, <2>2 DEF Refused
<1>5. CASE Unknown(p)
  <2>1. \A w \in Voucher : row'[w].state = row[w].state \/ row'[w].state = "UNKNOWN"
    BY <1>1, <1>5, <1>0, OneRow DEF Unknown, Lock
  <2>. QED
    <3>1. \A w \in Voucher : row'[w].state \in Unlocked => row[w].state \in Unlocked
      BY <2>1 DEF Unlocked, Unsent
    <3>2. Abandon(p)
      BY <1>5 DEF Unknown
    <3>. QED
      BY <1>1, <3>1, <3>2, LeavesInv
<1>6. CASE TakeReceipt(p)
  <2>1. \A w \in Voucher : \/ row'[w].state = row[w].state
                           \/ row'[w].state \in {"UNKNOWN", "RECEIPT_IDENTIFIED"}
    <3>1. row \in [Voucher -> Row]
      BY DEF TypeOK, Row
    <3>2. CASE row' = row \/ row' = [row EXCEPT ![v].state = "UNKNOWN"]
      <4>1. \A w \in Voucher : row'[w].state = row[w].state \/ (w = v /\ row'[w].state = "UNKNOWN")
        BY <3>2, OneRow
      <4>. QED
        BY <4>1
    <3>3. CASE row' = [row EXCEPT ![v].state = "RECEIPT_IDENTIFIED", ![v].id = NumberOf(v)]
      BY <1>0, <3>1, <3>3 DEF Row
    <3>. QED
      BY <1>0, <1>6, <3>2, <3>3 DEF TakeReceipt
  <2>2. wire' = wire
    BY <1>6 DEF TakeReceipt
  <2>. QED
    BY <1>1, <1>2, <2>1, <2>2, QuietInv DEF Unlocked, Unsent
<1>7. CASE Dies(p)
  BY <1>1, <1>7, LeavesInv DEF Dies
<1>. QED
  BY <1>3, <1>4, <1>5, <1>6, <1>7

LEMMA RowInv ==
    ASSUME TypeOK, Inv, NEW v \in Voucher, ExpireLease(v) \/ Verify(v) \/ Reconcile(v) \/ ReleaseRejected(v)
    PROVE  Inv'
<1>0. \E r : Update(v, r) /\ (r.state \in Unlocked => row[v].state \in Unlocked)
  <2>1. \A s : [row[v] EXCEPT !.state = s].state = s
    BY DEF TypeOK
  <2>2. \A i : [row[v] EXCEPT !.state = "CONFIRMED", !.id = i].state = "CONFIRMED"
    BY DEF TypeOK
  <2>. QED
    BY <2>1, <2>2 DEF ExpireLease, Verify, Reconcile, ReleaseRejected, Unlocked, Unsent
<1>1. PICK r : Update(v, r) /\ (r.state \in Unlocked => row[v].state \in Unlocked)
  BY <1>0
<1>2. fortnox' = fortnox /\ wire' = wire /\ call' = call /\ row'[v] = r
      /\ \A w \in Voucher \ {v} : row'[w] = row[w]
  BY <1>1 DEF Update, TypeOK
<1>. QED
  BY <1>1, <1>2, QuietInv

LEMMA EditInv ==
    ASSUME TypeOK, Inv, Edit
    PROVE  Inv'
<1>1. \A v : InBooks(v)' <=> InBooks(v)
  BY EditIs DEF InBooks
<1>2. wire' = wire /\ call' = call /\ row' = row
  BY DEF Edit
<1>3. \A v : MayBeThere(v)' <=> MayBeThere(v)
  BY <1>1, <1>2 DEF MayBeThere, InBooks
<1>4. NeverTwice'
  BY EditIs DEF Inv, NeverTwice
<1>. QED
  BY <1>1, <1>2, <1>3, <1>4 DEF Inv, SentIsLocked, Away, Posts, Posted

LEMMA NextGood ==
    ASSUME Good, [Next]_vars
    PROVE  Good'
<1>1. CASE Invoice
  BY <1>1, InvoiceTypes, InvoiceInv DEF Good
<1>2. CASE Edit
  BY <1>2, EditIs, EditInv DEF Good
<1>3. ASSUME NEW p \in Proc, Work(p)
      PROVE  Good'
  <2>1. TakeReceipt(p) => InBooks(call[p].of)
    BY CallIs DEF Good, Inv, TakeReceipt, Posted
  <2>. QED
    BY <1>3, <2>1, DryRunTypes, StoreTypes, SendTypes, AnswerTypes, DeliverTypes, ReceiptTypes,
       DryRunInv, SendInv, ClaimInv, DeliverInv, AnswerInv, VoucherTypes DEF Good, Work
<1>4. ASSUME NEW v \in Voucher, Export(v)
      PROVE  Good'
  BY <1>4, LateTypes, RowTypes, DeliverLateInv, RowInv DEF Good, Export
<1>5. CASE UNCHANGED vars
  <2>1. TypeOK'
    BY <1>5 DEF vars, Good, TypeOK, Numbers
  <2>2. Inv'
    BY <1>5, QuietInv DEF vars, Good, MayBeThere
  <2>. QED
    BY <2>1, <2>2 DEF Good
<1>. QED
  BY <1>1, <1>2, <1>3, <1>4, <1>5 DEF Next

LEMMA GoodHolds == Spec => []Good
<1>1. Init => TypeOK
  BY VoucherTypes, EmptySeq DEF Init, TypeOK, NoRow, Idle, States, Numbers
<1>2. Init => Inv
  BY DEF Init, Inv, SentIsLocked, NeverTwice, MayBeThere, InBooks, Away, Posts, Posted, Numbers, Idle
<1>. QED
  BY <1>1, <1>2, NextGood, PTL DEF Spec, Good

-----------------------------------------------------------------------------
(* What follows. *)

\* Every row's state is one of the code's and every number it bears is one that
\* Fortnox has given.
THEOREM ExportTypes == Spec => []TypeOK
  BY GoodHolds, PTL DEF Good

\* send, expireLeases, recordReceipt, reconcile: a voucher that is in Fortnox, or may
\* come there by a post nobody waits for, is never free to be sent.
THEOREM ExportLocked == Spec => []SentIsLocked
<1>1. Good => SentIsLocked
  BY DEF Good, Inv
<1>. QED
  BY <1>1, GoodHolds, PTL

\* The same: however many sends, dry runs and reconciliations meet, whatever answers
\* are lost or late, Fortnox makes one voucher of one.
THEOREM ExportOnce == Spec => []NeverTwice
<1>1. Good => NeverTwice
  BY DEF Good, Inv
<1>. QED
  BY <1>1, GoodHolds, PTL

\* The conditional updates: no late answer, dry run, lease or release moves an
\* export that is confirmed.
THEOREM ConfirmedForGood == Spec => ConfirmedStays
<1>. DEFINE Firm == \A v \in Voucher : Confirmed(v) => row'[v] = row[v]
<1>1. ASSUME TypeOK, NEW v \in Voucher, row[v].state # "CONFIRMED", NEW s, NEW a,
             \/ row' = row
             \/ row' = [row EXCEPT ![v].state = s]
             \/ row' = [row EXCEPT ![v].state = s, ![v].attempt = a]
             \/ row' = [row EXCEPT ![v].state = s, ![v].id = a]
      PROVE  Firm
  <2>1. \A w \in Voucher \ {v} : row'[w] = row[w]
    BY <1>1 DEF TypeOK
  <2>. QED
    BY <1>1, <2>1 DEF Confirmed
<1>2. ASSUME row' = row
      PROVE  Firm
  BY <1>2
<1>3. ASSUME TypeOK, Invoice
      PROVE  Firm
  <2>1. ASSUME NEW w \in Voucher, Withdraw(w)
        PROVE  Firm
    <3>1. CASE row[w].state = "DRY_RUN_READY"
      BY <1>1, <1>3, <2>1, <3>1 DEF Withdraw
    <3>2. CASE row[w].state # "DRY_RUN_READY"
      BY <1>2, <2>1, <3>2 DEF Withdraw
    <3>. QED
      BY <3>1, <3>2
  <2>. HIDE DEF Firm
  <2>. QED
    BY <1>2, <1>3, <2>1, VoucherTypes DEF Invoice, MarkPaid, UndoPayment, Cancel
<1>4. ASSUME TypeOK, NEW p \in Proc, NEW v \in Voucher, DryRun(p, v) \/ StoreDryRun(p)
      PROVE  Firm
  <2>1. ASSUME NEW w \in Voucher, NEW new, NEW s, Store(w, new, s)
        PROVE  Firm
    <3>1. CASE row[w].state \in Unsent
      <4>1. row[w].state # "CONFIRMED"
        BY <3>1 DEF Unsent
      <4>. QED
        BY <1>1, <1>4, <2>1, <4>1, StoreIs
    <3>2. CASE row[w].state \notin Unsent
      BY <1>2, <1>4, <2>1, <3>2, StoreIs
    <3>. QED
      BY <3>1, <3>2
  <2>. HIDE DEF Firm
  <2>. QED
    BY <1>2, <1>4, <2>1, CallIs DEF DryRun, StoreDryRun
<1>5. ASSUME TypeOK, NEW p \in Proc, Claim(p) \/ NotSent(p) \/ Refused(p) \/ Unknown(p) \/ TakeReceipt(p)
      PROVE  Firm
  <2>. DEFINE v == call[p].of
  <2>1. v \in Voucher
    BY <1>5, CallIs
  <2>2. \/ row' = row
        \/ /\ row[v].state \in {"DRY_RUN_READY", "SENDING", "UNKNOWN"}
           /\ \E s, a : \/ row' = [row EXCEPT ![v].state = s]
                        \/ row' = [row EXCEPT ![v].state = s, ![v].attempt = a]
                        \/ row' = [row EXCEPT ![v].state = s, ![v].id = a]
    <3>1. Claim(p) => \/ row' = row
                      \/ /\ row[v].state = "DRY_RUN_READY"
                         /\ row' = [row EXCEPT ![v].state = "SENDING", ![v].attempt = TRUE]
      BY DEF Claim
    <3>2. NotSent(p) => \/ row' = row
                        \/ /\ row[v].state = "SENDING"
                           /\ row' = [row EXCEPT ![v].state = "DRY_RUN_READY", ![v].attempt = FALSE]
      BY DEF NotSent, Mine
    <3>3. ASSUME NEW s, Lock(p, s)
          PROVE  row' = row \/ (row[v].state = "SENDING" /\ row' = [row EXCEPT ![v].state = s])
      BY <3>3 DEF Lock, Mine
    <3>4. TakeReceipt(p) => \/ row' = row
                            \/ /\ row[v].state \in {"SENDING", "UNKNOWN"}
                               /\ \/ row' = [row EXCEPT ![v].state = "UNKNOWN"]
                                  \/ row' = [row EXCEPT ![v].state = "RECEIPT_IDENTIFIED", ![v].id = NumberOf(v)]
      BY DEF TakeReceipt, Mine
    <3>5. Refused(p) \/ Unknown(p) => \E s \in {"REFUSED", "REJECTED", "UNKNOWN"} : Lock(p, s)
      BY DEF Refused, Unknown
    <3>. HIDE DEF v
    <3>. QED
      BY <1>5, <3>1, <3>2, <3>3, <3>4, <3>5
  <2>. HIDE DEF v
  <2>3. CASE row' = row
    BY <1>2, <2>3
  <2>4. CASE row[v].state \in {"DRY_RUN_READY", "SENDING", "UNKNOWN"}
    <3>1. row[v].state # "CONFIRMED"
      BY <2>4
    <3>. HIDE DEF Firm
    <3>. QED
      BY <1>1, <1>2, <1>5, <2>1, <2>2, <3>1
  <2>. QED
    BY <2>2, <2>3, <2>4
<1>6. ASSUME TypeOK, NEW v \in Voucher, ExpireLease(v) \/ Verify(v) \/ Reconcile(v) \/ ReleaseRejected(v)
      PROVE  Firm
  <2>1. row[v].state # "CONFIRMED" /\ \E r : row' = [row EXCEPT ![v] = r]
    BY <1>6 DEF ExpireLease, Verify, Reconcile, ReleaseRejected, Update, Locked
  <2>2. \A w \in Voucher \ {v} : row'[w] = row[w]
    BY <1>6, <2>1 DEF TypeOK
  <2>. QED
    BY <2>1, <2>2 DEF Confirmed
<1>7. ASSUME Good, [Next]_vars
      PROVE  Firm
  <2>. HIDE DEF Firm
  <2>1. ASSUME NEW p \in Proc, Work(p)
        PROVE  Firm
    <3>1. ASSUME NEW v \in Voucher, DryRun(p, v)
          PROVE  Firm
      BY <1>4, <1>7, <3>1 DEF Good
    <3>2. CASE StoreDryRun(p)
      BY <1>4, <1>7, <3>2, VoucherTypes DEF Good
    <3>3. CASE (\E v \in Voucher : Send(p, v)) \/ Rebuild(p) \/ Deliver(p) \/ Dies(p)
      BY <1>2, <3>3 DEF Send, Rebuild, Deliver, Dies
    <3>4. CASE Claim(p) \/ NotSent(p) \/ Refused(p) \/ Unknown(p) \/ TakeReceipt(p)
      BY <1>5, <1>7, <3>4 DEF Good
    <3>. QED
      BY <2>1, <3>1, <3>2, <3>3, <3>4 DEF Work
  <2>2. ASSUME NEW v \in Voucher, Export(v)
        PROVE  Firm
    <3>1. CASE DeliverLate(v)
      BY <1>2, <3>1 DEF DeliverLate
    <3>2. CASE ~DeliverLate(v)
      BY <1>6, <1>7, <2>2, <3>2 DEF Export, Good
    <3>. QED
      BY <3>1, <3>2
  <2>3. Edit \/ UNCHANGED vars => row' = row
    BY DEF Edit, vars
  <2>. QED
    BY <1>2, <1>3, <1>7, <2>1, <2>2, <2>3 DEF Next, Good
<1>. QED
  BY <1>7, GoodHolds, PTL DEF Spec, ConfirmedStays

\* The history grows, and only where a dry run is stored.
LEMMA LateIs ==
    ASSUME [Next]_vars
    PROVE  late \subseteq late' /\ (late' = late \/ \E p \in Proc : StoreDryRun(p))
<1>1. \A p \in Proc : StoreDryRun(p) => late \subseteq late'
  BY DEF StoreDryRun
<1>2. Next => late' = late \/ \E p \in Proc : StoreDryRun(p)
  BY DEF Next, Invoice, MarkPaid, UndoPayment, Cancel, Book, Edit, Work, DryRun, Send, Rebuild, Claim,
         NotSent, Deliver, Refused, Unknown, TakeReceipt, Dies, Export, DeliverLate, ExpireLease,
         Verify, Reconcile, ReleaseRejected, Update
<1>. QED
  BY <1>1, <1>2 DEF vars

LEMMA WithdrawnNext ==
    ASSUME Good, ReversedNotSent, [Next]_vars
    PROVE  ReversedNotSent'
<1>. DEFINE Kept == booked' = booked /\ late' = late /\ \A v \in Voucher :
                       row'[v].state \in {"DRY_RUN_READY", "SENDING"} =>
                           row[v].state \in {"DRY_RUN_READY", "SENDING"}
<1>1. Kept => ReversedNotSent'
  BY VoucherTypes DEF ReversedNotSent, Undone
<1>. HIDE DEF Kept
<1>2. CASE Invoice
  <2>1. late' = late
    BY <1>2 DEF Invoice, MarkPaid, UndoPayment, Cancel, Book
  <2>2. ASSUME NEW v \in Voucher, Book(v), v.kind # "undo", NEW w \in Voucher, Withdraw(w) \/ row' = row
        PROVE  ReversedNotSent'
    <3>1. \A u \in Voucher : row'[u].state \in {"DRY_RUN_READY", "SENDING"} =>
              row[u].state \in {"DRY_RUN_READY", "SENDING"}
      BY <2>2 DEF Withdraw, Good, TypeOK
    <3>2. \A k \in Leg : Undone(k)' => Undone(k)
      BY <2>2 DEF Undone, Undo, Book
    <3>. QED
      BY <2>1, <3>1, <3>2, VoucherTypes DEF ReversedNotSent
  <2>3. CASE MarkPaid
    <3>1. PICK k \in Leg : Book(Payment(k)) /\ row' = row
      BY <2>3 DEF MarkPaid
    <3>2. Payment(k) \in Voucher /\ Payment(k).kind # "undo"
      BY VoucherTypes DEF Payment
    <3>. QED
      BY <2>2, <3>1, <3>2, VoucherTypes
  <2>4. CASE Cancel
    <3>1. Cancellation \in Voucher /\ Cancellation.kind # "undo" /\ Receipt \in Voucher
      BY VoucherTypes DEF Cancellation
    <3>2. Book(Cancellation) /\ Withdraw(Receipt)
      BY <2>4 DEF Cancel
    <3>. QED
      BY <2>2, <3>1, <3>2, VoucherTypes
  <2>5. CASE UndoPayment
    <3>1. PICK k \in Leg : /\ row[Payment(k)].state \in Unsent \cup {"REFUSED", "CONFIRMED"}
                           /\ Book(Undo(k)) /\ Withdraw(Payment(k))
      BY <2>5 DEF UndoPayment
    <3>2. \A w \in Voucher : row'[w].state \in {"DRY_RUN_READY", "SENDING"} =>
              row[w].state \in {"DRY_RUN_READY", "SENDING"}
      BY <3>1 DEF Withdraw, Good, TypeOK
    <3>3. row'[Payment(k)].state \notin {"DRY_RUN_READY", "SENDING"}
      BY <3>1, VoucherTypes DEF Withdraw, Good, TypeOK, Unsent
    <3>4. \A l \in Leg : Undone(l)' => Undone(l) \/ l = k
      BY <3>1 DEF Undone, Undo, Book
    <3>5. ASSUME NEW l \in Leg \ late', Undone(l)'
          PROVE  row'[Payment(l)].state \notin {"DRY_RUN_READY", "SENDING"}
      <4>1. CASE l = k
        BY <3>3, <4>1
      <4>2. CASE Undone(l)
        BY <2>1, <3>2, <4>2, VoucherTypes DEF ReversedNotSent
      <4>. QED
        BY <3>4, <3>5, <4>1, <4>2
    <3>. QED
      BY <3>5 DEF ReversedNotSent
  <2>. QED
    BY <1>2, <2>3, <2>4, <2>5 DEF Invoice
<1>3. ASSUME NEW p \in Proc, StoreDryRun(p)
      PROVE  ReversedNotSent'
  <2>1. PICK v \in Voucher : v = call[p].of
    BY CallIs DEF Good
  <2>2. PICK s \in {"DRY_RUN_READY", "BLOCKED"} : Store(v, call[p].new, s)
    BY <1>3, <2>1 DEF StoreDryRun
  <2>3. /\ booked' = booked
        /\ late' = IF v.kind = "payment" /\ Undone(v.leg) /\ row'[v].state = "DRY_RUN_READY"
                   THEN late \cup {v.leg} ELSE late
    BY <1>3, <2>1 DEF StoreDryRun
  <2>4. \A w \in Voucher : row'[w].state = row[w].state \/ (w = v /\ row'[w].state = s)
    <3>1. TypeOK /\ (row' = row \/ row' = [row EXCEPT ![v].state = s])
      BY <2>2, StoreIs DEF Good
    <3>. QED
      BY <3>1, OneRow
  <2>5. ASSUME NEW k \in Leg \ late', Undone(k)'
        PROVE  row'[Payment(k)].state \notin {"DRY_RUN_READY", "SENDING"}
    <3>1. Undone(k) /\ Payment(k) \in Voucher /\ k \notin late
      BY <2>3, <2>5, VoucherTypes DEF Undone
    <3>2. row[Payment(k)].state \notin {"DRY_RUN_READY", "SENDING"}
      BY <3>1 DEF ReversedNotSent
    <3>3. Payment(k) = v => row'[v].state # "DRY_RUN_READY"
      <4>1. Payment(k).kind = "payment" /\ Payment(k).leg = k
        BY DEF Payment
      <4>. QED
        BY <2>3, <2>5, <3>1, <4>1
    <3>. QED
      BY <2>2, <2>4, <3>1, <3>2, <3>3
  <2>. QED
    BY <2>5 DEF ReversedNotSent
<1>4. ASSUME NEW p \in Proc, \/ \E v \in Voucher : Send(p, v) \/ DryRun(p, v)
                            \/ Rebuild(p) \/ Deliver(p) \/ Dies(p)
      PROVE  ReversedNotSent'
  BY <1>1, <1>4 DEF Kept, Send, DryRun, Rebuild, Deliver, Dies
<1>5. ASSUME NEW p \in Proc, Claim(p) \/ NotSent(p) \/ Refused(p) \/ Unknown(p) \/ TakeReceipt(p)
      PROVE  ReversedNotSent'
  <2>1. PICK v \in Voucher : v = call[p].of
    BY CallIs DEF Good
  <2>2. booked' = booked /\ late' = late
    BY <1>5 DEF Claim, NotSent, Refused, Unknown, TakeReceipt
  <2>4. \/ row' = row
        \/ /\ row[v].state \in {"DRY_RUN_READY", "SENDING"}
           /\ \E s : row' = [row EXCEPT ![v] = s]
        \/ \E s \in {"REFUSED", "REJECTED", "UNKNOWN"} : row' = [row EXCEPT ![v].state = s]
        \/ row' = [row EXCEPT ![v].state = "RECEIPT_IDENTIFIED", ![v].id = NumberOf(v)]
    <3>1. row \in [Voucher -> Row]
      BY DEF Good, TypeOK, Row
    <3>2. CASE Claim(p)
      <4>1. CASE row[v].state = "DRY_RUN_READY"
        <5>1. row' = [row EXCEPT ![v].state = "SENDING", ![v].attempt = TRUE]
          BY <2>1, <3>2, <4>1 DEF Claim
        <5>2. row' = [row EXCEPT ![v] = row'[v]]
          BY <3>1, <5>1
        <5>. QED
          BY <4>1, <5>2
      <4>. QED
        BY <2>1, <3>2, <4>1 DEF Claim
    <3>3. CASE NotSent(p)
      <4>1. CASE Mine(p, {"SENDING"})
        <5>1. row' = [row EXCEPT ![v].state = "DRY_RUN_READY", ![v].attempt = FALSE]
          BY <2>1, <3>3, <4>1 DEF NotSent
        <5>2. row' = [row EXCEPT ![v] = row'[v]]
          BY <3>1, <5>1
        <5>. QED
          BY <2>1, <4>1, <5>2 DEF Mine
      <4>. QED
        BY <3>3, <4>1 DEF NotSent
    <3>4. CASE Refused(p) \/ Unknown(p)
      <4>1. \E s \in {"REFUSED", "REJECTED", "UNKNOWN"} : Lock(p, s)
        BY <3>4 DEF Refused, Unknown
      <4>. QED
        BY <2>1, <4>1 DEF Lock
    <3>5. CASE TakeReceipt(p)
      BY <2>1, <3>5 DEF TakeReceipt
    <3>. QED
      BY <1>5, <3>2, <3>3, <3>4, <3>5
  <2>5. Kept
    <3>1. row \in [Voucher -> Row]
      BY DEF Good, TypeOK, Row
    <3>2. CASE row' = [row EXCEPT ![v].state = "RECEIPT_IDENTIFIED", ![v].id = NumberOf(v)]
      <4>1. \A w \in Voucher : row'[w].state = row[w].state \/ row'[w].state = "RECEIPT_IDENTIFIED"
        BY <3>1, <3>2 DEF Row
      <4>. QED
        BY <2>2, <4>1 DEF Kept
    <3>3. ASSUME NEW s \in {"REFUSED", "REJECTED", "UNKNOWN"}, row' = [row EXCEPT ![v].state = s]
          PROVE  Kept
      <4>1. \A w \in Voucher : row'[w].state = row[w].state \/ (w = v /\ row'[w].state = s)
        BY <3>3, OneRow DEF Good
      <4>. QED
        BY <2>2, <3>3, <4>1 DEF Kept
    <3>4. ASSUME row[v].state \in {"DRY_RUN_READY", "SENDING"}, NEW s, row' = [row EXCEPT ![v] = s]
          PROVE  Kept
      <4>1. \A w \in Voucher : w # v => row'[w] = row[w]
        BY <3>1, <3>4
      <4>. QED
        BY <2>2, <3>4, <4>1 DEF Kept
    <3>5. CASE row' = row
      BY <2>2, <3>5 DEF Kept
    <3>. QED
      BY <2>4, <3>2, <3>3, <3>4, <3>5
  <2>. QED
    BY <1>1, <2>5
<1>6. ASSUME NEW v \in Voucher, Export(v)
      PROVE  ReversedNotSent'
  <2>1. booked' = booked /\ late' = late
    BY <1>6 DEF Export, DeliverLate, ExpireLease, Verify, Reconcile, ReleaseRejected, Update
  <2>2. CASE DeliverLate(v)
    BY <1>1, <2>1, <2>2 DEF DeliverLate, Kept
  <2>3. CASE ~DeliverLate(v)
    <3>1. \E r : Update(v, r) /\ r.state \notin {"DRY_RUN_READY", "SENDING"}
      <4>1. \A s : [row[v] EXCEPT !.state = s].state = s
        BY DEF Good, TypeOK
      <4>2. \A i : [row[v] EXCEPT !.state = "CONFIRMED", !.id = i].state = "CONFIRMED"
        BY DEF Good, TypeOK
      <4>. QED
        <5>1. CASE ExpireLease(v)
          <6>1. Update(v, [row[v] EXCEPT !.state = "UNKNOWN"])
            BY <5>1 DEF ExpireLease
          <6>. WITNESS [row[v] EXCEPT !.state = "UNKNOWN"]
          <6>. QED
            BY <4>1, <6>1
        <5>2. CASE Verify(v)
          <6>1. PICK s \in {"CONFIRMED", "RECEIPT_MISMATCH"} : Update(v, [row[v] EXCEPT !.state = s])
            BY <5>2 DEF Verify
          <6>. WITNESS [row[v] EXCEPT !.state = s]
          <6>. QED
            BY <4>1, <6>1
        <5>3. CASE Reconcile(v)
          <6>1. PICK i \in Numbers : Update(v, [row[v] EXCEPT !.state = "CONFIRMED", !.id = i])
            BY <5>3 DEF Reconcile
          <6>. WITNESS [row[v] EXCEPT !.state = "CONFIRMED", !.id = i]
          <6>. QED
            BY <4>2, <6>1
        <5>4. CASE ReleaseRejected(v)
          <6>1. Update(v, [row[v] EXCEPT !.state = "BLOCKED"])
            BY <5>4 DEF ReleaseRejected
          <6>. WITNESS [row[v] EXCEPT !.state = "BLOCKED"]
          <6>. QED
            BY <4>1, <6>1
        <5>. QED
          BY <1>6, <2>3, <5>1, <5>2, <5>3, <5>4 DEF Export
    <3>2. PICK r : row' = [row EXCEPT ![v] = r] /\ r.state \notin {"DRY_RUN_READY", "SENDING"}
      BY <3>1 DEF Update
    <3>3. \A w \in Voucher : row'[w] = IF w = v THEN r ELSE row[w]
      BY <3>2 DEF Good, TypeOK
    <3>4. Kept
      BY <2>1, <3>2, <3>3 DEF Kept
    <3>. QED
      BY <1>1, <3>4
  <2>. QED
    BY <2>2, <2>3
<1>7. CASE Edit \/ UNCHANGED vars
  BY <1>1, <1>7 DEF Edit, vars, Kept
<1>8. ASSUME NEW p \in Proc, Work(p)
       PROVE  ReversedNotSent'
  BY <1>3, <1>4, <1>5, <1>8 DEF Work
<1>. QED
  BY <1>2, <1>6, <1>7, <1>8 DEF Next

\* undoPayment, createReversalEntry and send: either the undo or the claim of the send
\* comes first and the other is refused; a payment that was taken back waits for a
\* send or is sent only if a dry run was stored after its undo.
THEOREM UndoneIsNotSent == Spec => []ReversedNotSent
<1>1. Init => ReversedNotSent
  BY VoucherTypes DEF Init, ReversedNotSent, NoRow
<1>. QED
  BY <1>1, GoodHolds, WithdrawnNext, PTL DEF Spec

-----------------------------------------------------------------------------
(* What a step makes of one export, of the calls, the invoice and Fortnox. *)

Numbered(v) == row'[v].id = row[v].id
Same(v)     == row'[v].attempt = row[v].attempt /\ Numbered(v)

LEMMA RowBecomes ==
    ASSUME TypeOK, NEW w \in Voucher, NEW v \in Voucher, NEW s, NEW a,
           \/ row' = [row EXCEPT ![w].state = s]
           \/ row' = [row EXCEPT ![w].state = s, ![w].attempt = a]
    PROVE  /\ v # w => row'[v] = row[v]
           /\ v = w => row'[v].state = s /\ Numbered(v)
           /\ v = w /\ row' = [row EXCEPT ![w].state = s] => Same(v)
<1>1. row \in [Voucher -> Row]
  BY DEF TypeOK, Row
<1>. QED
  BY <1>1 DEF Row, Same, Numbered

Redone(v) ==
    /\ row[v].state \in Unsent /\ row'[v].state \in {"DRY_RUN_READY", "BLOCKED"} /\ Same(v)
Claimed(v) ==
    /\ row[v].state = "DRY_RUN_READY" /\ row'[v].state = "SENDING" /\ Numbered(v)
    /\ \E p \in Proc : call[p].at = "built" /\ call[p].of = v
Answered(v) ==
    /\ row[v].state \in {"SENDING", "UNKNOWN"}
    /\ row'[v].state \in {"DRY_RUN_READY", "REFUSED", "REJECTED", "UNKNOWN"} /\ Numbered(v)
Identified(v) ==
    /\ row[v].state \in {"SENDING", "UNKNOWN"} /\ row'[v].state = "RECEIPT_IDENTIFIED"
    /\ row'[v].id \in Numbers /\ Entry(row'[v].id).of = v
    /\ \A w \in Voucher : row[w].id # row'[v].id
Verified(v) ==
    /\ row[v].state = "RECEIPT_IDENTIFIED" /\ row'[v].state \in {"CONFIRMED", "RECEIPT_MISMATCH"}
    /\ Same(v)
Reconciled(v) ==
    /\ row[v].state \in Locked /\ row'[v].state = "CONFIRMED"
    /\ row'[v].id \in Numbers /\ Alike(v, row'[v].id)
    /\ \A w \in Voucher \ {v} : row[w].id # row'[v].id
Released(v) == row[v].state = "REFUSED" /\ row'[v].state = "BLOCKED" /\ Numbered(v)

RowMoves(v) ==
    \/ row'[v] = row[v] \/ Redone(v) \/ Claimed(v) \/ Answered(v) \/ Identified(v)
    \/ Verified(v) \/ Reconciled(v) \/ Released(v)

LEMMA RowIs ==
    ASSUME Good, [Next]_vars, NEW v \in Voucher
    PROVE  RowMoves(v)
<1>0. TypeOK
  BY DEF Good
<1>1. ASSUME row' = row
      PROVE  RowMoves(v)
  BY <1>1 DEF RowMoves
<1>2. ASSUME NEW w \in Voucher, row[w].state \in Unsent,
             NEW s \in {"DRY_RUN_READY", "BLOCKED"}, row' = [row EXCEPT ![w].state = s]
      PROVE  RowMoves(v)
  BY <1>0, <1>2, RowBecomes DEF RowMoves, Redone
<1>3. CASE Invoice
  <2>1. ASSUME NEW w \in Voucher, Withdraw(w)
        PROVE  RowMoves(v)
    <3>1. CASE row[w].state = "DRY_RUN_READY"
      BY <1>2, <2>1, <3>1 DEF Withdraw, Unsent
    <3>2. CASE row[w].state # "DRY_RUN_READY"
      BY <1>1, <2>1, <3>2 DEF Withdraw
    <3>. QED
      BY <3>1, <3>2
  <2>. QED
    BY <1>1, <1>3, <2>1, VoucherTypes DEF Invoice, MarkPaid, UndoPayment, Cancel
<1>4. ASSUME NEW p \in Proc, Work(p)
      PROVE  RowMoves(v)
  <2>0. row \in [Voucher -> Row]
    BY <1>0 DEF TypeOK, Row
  <2>1. PICK w \in Voucher : w = call[p].of
    BY <1>0, CallIs
  <2>2. CASE StoreDryRun(p)
    <3>1. PICK s \in {"DRY_RUN_READY", "BLOCKED"} : Store(w, call[p].new, s)
      BY <2>1, <2>2 DEF StoreDryRun
    <3>. QED
      BY <1>0, <1>1, <1>2, <3>1, StoreIs
  <2>3. CASE Claim(p)
    <3>1. CASE row[w].state = "DRY_RUN_READY"
      <4>1. row' = [row EXCEPT ![w].state = "SENDING", ![w].attempt = TRUE] /\ call[p].at = "built"
        BY <2>1, <2>3, <3>1 DEF Claim
      <4>2. (v # w => row'[v] = row[v]) /\ (v = w => row'[v].state = "SENDING" /\ Numbered(v))
        BY <2>0, <4>1 DEF Row, Numbered
      <4>. QED
        BY <2>1, <3>1, <4>1, <4>2 DEF RowMoves, Claimed
    <3>. QED
      BY <1>1, <2>1, <2>3, <3>1 DEF Claim
  <2>4. ASSUME NEW s \in {"DRY_RUN_READY", "REFUSED", "REJECTED", "UNKNOWN"},
               row[w].state \in {"SENDING", "UNKNOWN"},
               \/ row' = [row EXCEPT ![w].state = s]
               \/ row' = [row EXCEPT ![w].state = s, ![w].attempt = FALSE]
        PROVE  RowMoves(v)
    BY <1>0, <2>4, RowBecomes DEF RowMoves, Answered
  <2>5. CASE NotSent(p)
    BY <1>1, <2>1, <2>4, <2>5 DEF NotSent, Mine
  <2>6. CASE Refused(p) \/ Unknown(p)
    BY <1>1, <2>1, <2>4, <2>6 DEF Refused, Unknown, Lock, Mine
  <2>7. CASE TakeReceipt(p)
    <3>1. CASE /\ row' = [row EXCEPT ![w].state = "RECEIPT_IDENTIFIED", ![w].id = NumberOf(w)]
               /\ Mine(p, {"SENDING", "UNKNOWN"}) /\ ~Held(NumberOf(w))
      <4>1. InBooks(w)
        BY <2>1, <2>7 DEF Good, Inv, TakeReceipt, Posted
      <4>2. NumberOf(w) \in Numbers /\ Entry(NumberOf(w)).of = w
        BY <4>1, NumberOfIs
      <4>3. /\ v # w => row'[v] = row[v]
            /\ v = w => row'[v].state = "RECEIPT_IDENTIFIED" /\ row'[v].id = NumberOf(w)
        BY <2>0, <3>1 DEF Row
      <4>. QED
        BY <2>1, <3>1, <4>2, <4>3 DEF RowMoves, Identified, Mine, Held
    <3>. QED
      BY <1>1, <2>1, <2>4, <2>7, <3>1 DEF TakeReceipt, Mine
  <2>8. CASE (\E u \in Voucher : DryRun(p, u) \/ Send(p, u)) \/ Rebuild(p) \/ Deliver(p) \/ Dies(p)
    BY <1>1, <2>8 DEF DryRun, Send, Rebuild, Deliver, Dies
  <2>. QED
    BY <1>4, <2>2, <2>3, <2>5, <2>6, <2>7, <2>8 DEF Work
<1>5. ASSUME NEW w \in Voucher, Export(w)
      PROVE  RowMoves(v)
  <2>0. row[w] \in Row /\ row \in [Voucher -> Row]
    BY <1>0 DEF TypeOK, Row
  <2>1. ASSUME NEW r, Update(w, r)
        PROVE  row'[v] = IF v = w THEN r ELSE row[v]
    BY <2>0, <2>1 DEF Update
  <2>2. \A s : /\ [row[w] EXCEPT !.state = s].state = s
               /\ [row[w] EXCEPT !.state = s].attempt = row[w].attempt
               /\ [row[w] EXCEPT !.state = s].id = row[w].id
    BY <2>0 DEF Row
  <2>3. CASE DeliverLate(w)
    BY <1>1, <2>3 DEF DeliverLate
  <2>4. CASE ExpireLease(w)
    BY <2>1, <2>2, <2>4 DEF ExpireLease, RowMoves, Answered, Numbered
  <2>5. CASE Verify(w)
    <3>1. PICK s \in {"CONFIRMED", "RECEIPT_MISMATCH"} : Update(w, [row[w] EXCEPT !.state = s])
      BY <2>5 DEF Verify
    <3>2. row[w].state = "RECEIPT_IDENTIFIED"
      BY <2>5 DEF Verify
    <3>3. row'[v] = IF v = w THEN [row[w] EXCEPT !.state = s] ELSE row[v]
      BY <2>1, <3>1
    <3>. QED
      BY <2>2, <3>2, <3>3 DEF RowMoves, Verified, Same, Numbered
  <2>6. CASE Reconcile(w)
    <3>1. PICK i \in Numbers : /\ Alike(w, i) /\ \A u \in Voucher \ {w} : row[u].id # i
                              /\ Update(w, [row[w] EXCEPT !.state = "CONFIRMED", !.id = i])
      BY <2>6 DEF Reconcile
    <3>2. /\ [row[w] EXCEPT !.state = "CONFIRMED", !.id = i].state = "CONFIRMED"
          /\ [row[w] EXCEPT !.state = "CONFIRMED", !.id = i].id = i
      BY <2>0 DEF Row
    <3>3. row'[v] = IF v = w THEN [row[w] EXCEPT !.state = "CONFIRMED", !.id = i] ELSE row[v]
      BY <2>1, <3>1
    <3>4. row[w].state \in Locked
      BY <2>6 DEF Reconcile
    <3>. QED
      BY <3>1, <3>2, <3>3, <3>4 DEF RowMoves, Reconciled
  <2>7. CASE ReleaseRejected(w)
    BY <2>1, <2>2, <2>7 DEF ReleaseRejected, RowMoves, Released, Numbered
  <2>. QED
    BY <1>5, <2>3, <2>4, <2>5, <2>6, <2>7 DEF Export
<1>. QED
  BY <1>1, <1>3, <1>4, <1>5 DEF Next, Edit, vars

LEMMA BookedIs ==
    ASSUME Good, [Next]_vars
    PROVE  /\ booked \subseteq booked'
           /\ Cancelled' => /\ Cancelled \/ \A k \in Leg : Paid(k) => Finished(k)
                            /\ \A k \in Leg : Paid(k)' => Paid(k)
<1>1. CASE booked' = booked
  BY <1>1 DEF Cancelled, Paid
<1>2. CASE Invoice
  <2>1. \A k, l : Payment(k) # Cancellation /\ Undo(k) # Cancellation /\ Undo(k) # Payment(l)
    BY DEF Payment, Undo, Cancellation
  <2>2. CASE MarkPaid
    BY <2>1, <2>2 DEF MarkPaid, Book, Cancelled
  <2>3. CASE UndoPayment
    BY <2>1, <2>3 DEF UndoPayment, Book, Cancelled
  <2>4. CASE Cancel
    BY <2>1, <2>4 DEF Cancel, Book, Paid
  <2>. QED
    BY <1>2, <2>2, <2>3, <2>4 DEF Invoice
<1>3. Next => Invoice \/ booked' = booked
  BY DEF Next, Edit, Work, DryRun, Send, StoreDryRun, Rebuild, Claim, NotSent, Deliver, Refused, Unknown,
         TakeReceipt, Dies, Export, DeliverLate, ExpireLease, Verify, Reconcile, ReleaseRejected, Update
<1>. QED
  BY <1>1, <1>2, <1>3 DEF vars

\* Fortnox's vouchers stay, and one more comes of a post that was under way.
LEMMA FortnoxIs ==
    ASSUME Good, [Next]_vars
    PROVE  /\ Numbers \subseteq Numbers' /\ \A i \in Numbers : Entry(i)'.of = Entry(i).of
           /\ \A i \in Numbers' \ Numbers :
                  /\ i = Len(fortnox) + 1
                  /\ \E v \in Voucher : Entry(i)'.of = v /\ MayBeThere(v) /\ ~InBooks(v)
<1>1. CASE fortnox' = fortnox
  BY <1>1 DEF Numbers, Entry
<1>2. CASE Edit
  BY <1>2, EditIs DEF Good
<1>3. ASSUME NEW v \in Voucher, Make(v), MayBeThere(v), ~InBooks(v)
      PROVE  /\ Numbers \subseteq Numbers' /\ \A i \in Numbers : Entry(i)'.of = Entry(i).of
             /\ \A i \in Numbers' \ Numbers :
                    /\ i = Len(fortnox) + 1
                    /\ \E w \in Voucher : Entry(i)'.of = w /\ MayBeThere(w) /\ ~InBooks(w)
  <2>1. /\ Numbers' = Numbers \cup {Len(fortnox) + 1}
        /\ fortnox'[Len(fortnox) + 1].of = v
        /\ \A i \in Numbers : Entry(i)' = Entry(i)
    BY <1>3, MakeIs DEF Good
  <2>. QED
    BY <1>3, <2>1 DEF Entry
<1>4. ASSUME NEW p \in Proc, Deliver(p)
      PROVE  \E v \in Voucher : Make(v) /\ MayBeThere(v) /\ ~InBooks(v)
  <2>1. call[p].of \in Voucher
    BY CallIs DEF Good
  <2>. QED
    BY <1>4, <2>1 DEF Deliver, Good, Inv, MayBeThere, Posts
<1>5. ASSUME NEW v \in Voucher, DeliverLate(v)
      PROVE  Make(v) /\ MayBeThere(v) /\ ~InBooks(v)
  BY <1>5 DEF DeliverLate, Good, Inv, MayBeThere
<1>6. Next => \/ fortnox' = fortnox \/ Edit \/ (\E p \in Proc : Deliver(p)) \/ (\E v \in Voucher : DeliverLate(v))
  BY DEF Next, Invoice, MarkPaid, UndoPayment, Cancel, Book, Work, DryRun, Send, StoreDryRun, Rebuild, Claim, NotSent, Refused, Unknown,
         TakeReceipt, Dies, Export, ExpireLease, Verify, Reconcile, ReleaseRejected, Update
<1>. QED
  BY <1>1, <1>2, <1>3, <1>4, <1>5, <1>6 DEF vars

\* Rows and vouchers in Fortnox do not change at once, nor do two rows.
LEMMA OneMoves ==
    ASSUME Good, [Next]_vars
    PROVE  \/ row' = row
           \/ fortnox' = fortnox /\ \E w \in Voucher : \A v \in Voucher \ {w} : row'[v] = row[v]
<1>. DEFINE One == \E w \in Voucher : \A v \in Voucher \ {w} : row'[v] = row[v]
<1>0. row \in [Voucher -> Row] /\ \A p \in Proc : call[p].of \in Voucher
  BY CallIs DEF Good, TypeOK, Row
<1>1. ASSUME NEW w \in Voucher, NEW s, NEW a,
             \/ row' = row
             \/ row' = [row EXCEPT ![w] = s]
             \/ row' = [row EXCEPT ![w].state = s]
             \/ row' = [row EXCEPT ![w].state = s, ![w].attempt = a]
             \/ row' = [row EXCEPT ![w].state = s, ![w].id = a]
      PROVE  One
  <2>1. \A v \in Voucher \ {w} : row'[v] = row[v]
    BY <1>0, <1>1
  <2>. QED
    BY <2>1
<1>. HIDE DEF One
<1>2. CASE Invoice
  <2>1. \A w \in Voucher : Withdraw(w) => One
    BY <1>1 DEF Withdraw
  <2>. QED
    BY <1>2, <2>1, VoucherTypes DEF Invoice, MarkPaid, UndoPayment, Cancel, Book, One
<1>3. ASSUME NEW p \in Proc, Work(p), row' # row
      PROVE  One /\ fortnox' = fortnox
  <2>1. PICK w \in Voucher : w = call[p].of
    BY <1>0
  <2>2. CASE StoreDryRun(p)
    BY <1>1, <2>1, <2>2 DEF StoreDryRun, Store
  <2>3. CASE Claim(p) \/ NotSent(p)
    BY <1>1, <2>1, <2>3 DEF Claim, NotSent
  <2>4. CASE Refused(p) \/ Unknown(p)
    BY <1>1, <2>1, <2>4 DEF Refused, Unknown, Lock
  <2>5. CASE TakeReceipt(p)
    BY <1>1, <2>1, <2>5 DEF TakeReceipt
  <2>. QED
    BY <1>3, <2>2, <2>3, <2>4, <2>5 DEF Work, DryRun, Send, Rebuild, Deliver, Dies
<1>4. ASSUME NEW w \in Voucher, Export(w), row' # row
      PROVE  One /\ fortnox' = fortnox
  BY <1>1, <1>4 DEF Export, DeliverLate, ExpireLease, Verify, Reconcile, ReleaseRejected, Update
<1>. QED
  BY <1>2, <1>3, <1>4 DEF Next, Invoice, MarkPaid, UndoPayment, Cancel, Book, Edit, vars, One

-----------------------------------------------------------------------------
(* What a voucher stands on. *)

\* What a voucher needed when it was found exportable and keeps for good: of what
\* build asks, all but that the voucher is not reversed. An earlier payment stays
\* over unless a dry run lets it out again.
Closed(k) == Finished(k) \/ k \in late
Grounds(v) ==
    /\ v \in booked
    /\ v = Cancellation => Confirmed(Receipt)
    /\ v.kind = "payment" => Confirmed(Receipt) /\ \A k \in 1..(v.leg - 1) : Closed(k)
    /\ v.kind = "undo" => Confirmed(Payment(v.leg))

\* The same in Fortnox, by the order of the numbers.
Before(v, i) == \E j \in 1..(i - 1) : Entry(j).of = v
Over(k, i)   == k \in late \/ NeverSent(Payment(k)) \/ Before(Undo(k), i)
Stands(i, v) ==
    /\ v # Receipt => Before(Receipt, i)
    /\ v.kind = "undo" => Confirmed(Payment(v.leg)) /\ row[Payment(v.leg)].id < i
    /\ v.kind = "payment" => \A k \in 1..(v.leg - 1) : Over(k, i)
    /\ v = Cancellation => \A k \in Leg : Over(k, i)

Grounded ==
    /\ \A p \in Proc : call[p].at = "built" => Grounds(call[p].of)
    /\ \A v \in Voucher : ~NeverSent(v) => Grounds(v)
Owned ==
    \A v \in Voucher : row[v].state \in {"RECEIPT_IDENTIFIED", "CONFIRMED"} =>
        /\ row[v].id \in Numbers /\ Entry(row[v].id).of.kind = v.kind
        /\ v.kind # "payment" \/ late = {} => Entry(row[v].id).of = v
Distinct  == \A v, w \in Voucher : row[v].id # 0 /\ row[v].id = row[w].id => v = w
Ended     == Cancelled => \A k \in Leg : Paid(k) => Closed(k)
Ordered   == \A i \in Numbers : Stands(i, Entry(i).of)
Untouched == \A v \in Voucher : row[v].state = "NONE" => ~row[v].attempt

GroundInv ==
    ReversedNotSent /\ Untouched /\ Grounded /\ Owned /\ Distinct /\ Ended /\ Ordered

LEMMA Kinds ==
    /\ Receipt.kind = "receipt" /\ Cancellation.kind = "cancel"
    /\ \A k : /\ Payment(k).kind = "payment" /\ Payment(k).leg = k
             /\ Undo(k).kind = "undo" /\ Undo(k).leg = k
    /\ \A v \in Voucher : \/ v = Receipt \/ v = Cancellation
                          \/ \E k \in Leg : v = Payment(k) \/ v = Undo(k)
  BY DEF Receipt, Cancellation, Payment, Undo, Voucher

LEMMA Legs ==
    /\ Leg \subseteq Nat
    /\ \A k \in Leg : \A j \in 1..(k - 1) : j \in Leg /\ j < k
    /\ \A k, l \in Leg : k # l => k \in 1..(l - 1) \/ l \in 1..(k - 1)
  BY BoundAssumption DEF Leg

\* A row that was never sent is at rest, and what is in Fortnox was sent.
LEMMA SentIs ==
    ASSUME Good, NEW v \in Voucher
    PROVE  /\ MayBeThere(v) => ~NeverSent(v)
           /\ InBooks(v) => MayBeThere(v)
           /\ row[v].state \notin Unsent => ~NeverSent(v)
           /\ Confirmed(v) => ~NeverSent(v)
  BY DEF Good, Inv, SentIsLocked, NeverSent, Unsent, Confirmed, MayBeThere, InBooks

LEMMA ConfirmedStep ==
    ASSUME Good, [Next]_vars, NEW v \in Voucher, Confirmed(v)
    PROVE  Confirmed(v)' /\ row'[v] = row[v]
  BY RowIs DEF RowMoves, Redone, Claimed, Answered, Identified, Verified, Reconciled, Released,
         Confirmed, Unsent, Locked

\* An export that was never sent becomes one that was by a claim alone.
LEMMA NeverStep ==
    ASSUME Good, Untouched, [Next]_vars, NEW v \in Voucher, NeverSent(v)
    PROVE  NeverSent(v)' \/ Claimed(v)
<1>1. ~row[v].attempt /\ row[v].state \in Unsent
  BY DEF NeverSent, Untouched, Unsent
<1>2. row'[v] = row[v] \/ Redone(v) \/ Claimed(v)
  BY <1>1, RowIs DEF RowMoves, Answered, Identified, Verified, Reconciled, Released, Locked, Unsent
<1>. QED
  BY <1>1, <1>2 DEF NeverSent, Redone, Same

\* One that was undone is not claimed, and so never sent for good.
LEMMA ClosedStep ==
    ASSUME Good, ReversedNotSent, Untouched, [Next]_vars, NEW k \in Leg, Closed(k)
    PROVE  /\ Closed(k)'
           /\ Finished(k) /\ NeverSent(Payment(k)) => k \in late \/ NeverSent(Payment(k))'
<1>1. Payment(k) \in Voucher /\ Undo(k) \in Voucher /\ late \subseteq late'
  BY VoucherTypes, LateIs
<1>2. CASE k \in late
  BY <1>1, <1>2 DEF Closed
<1>3. CASE k \notin late
  <2>1. Undone(k)' /\ row[Payment(k)].state # "DRY_RUN_READY"
    BY <1>3, BookedIs DEF Closed, Finished, Undone, ReversedNotSent
  <2>2. NeverSent(Payment(k)) => NeverSent(Payment(k))'
    BY <1>1, <2>1, NeverStep DEF Claimed
  <2>. QED
    BY <1>1, <1>3, <2>1, <2>2, ConfirmedStep DEF Closed, Finished
<1>. QED
  BY <1>2, <1>3

LEMMA GroundsStep ==
    ASSUME Good, ReversedNotSent, Untouched, [Next]_vars, NEW v \in Voucher, Grounds(v)
    PROVE  Grounds(v)'
<1>1. v \in booked'
  BY BookedIs DEF Grounds
<1>2. v = Cancellation => Confirmed(Receipt)'
  BY VoucherTypes, ConfirmedStep DEF Grounds
<1>3. v.kind = "payment" => Confirmed(Receipt)' /\ \A k \in 1..(v.leg - 1) : Closed(k)'
  BY VoucherTypes, Legs, ConfirmedStep, ClosedStep DEF Grounds
<1>4. v.kind = "undo" => Confirmed(Payment(v.leg))'
  <2>1. v.kind = "undo" => v.leg \in Leg
    BY Kinds
  <2>. QED
    BY <2>1, VoucherTypes, ConfirmedStep DEF Grounds
<1>. QED
  BY <1>1, <1>2, <1>3, <1>4 DEF Grounds

\* A voucher in Fortnox like the frozen draft and held by no other export is the
\* draft's own: of two payments the earlier was over when the later was sent, and
\* stayed so while no dry run was late.
LEMMA OwnNumber ==
    ASSUME Good, GroundInv, NEW v \in Voucher, row[v].state \in Locked, NEW i \in Numbers,
           Alike(v, i), \A w \in Voucher \ {v} : row[w].id # i, v.kind # "payment" \/ late = {}
    PROVE  Entry(i).of = v
<1>. SUFFICES ASSUME Entry(i).of # v
              PROVE  FALSE
  OBVIOUS
<1>. DEFINE w == Entry(i).of
<1>1. w \in Voucher
  <2>1. fortnox \in Seq(Made) /\ i \in 1..Len(fortnox)
    BY DEF Good, TypeOK, Numbers, Made
  <2>2. fortnox[i] \in Made
    BY <2>1
  <2>. QED
    BY <2>2 DEF Entry, Made
<1>2. v.kind = "payment" /\ w.kind = "payment" /\ late = {}
  BY DEF Alike
<1>3. PICK k \in Leg, l \in Leg : v = Payment(k) /\ w = Payment(l) /\ k # l
  BY <1>1, <1>2, VoucherTypes
<1>4. ~NeverSent(v) /\ ~NeverSent(w) /\ ~Confirmed(v)
  <2>1. InBooks(w)
    BY DEF InBooks
  <2>. QED
    BY <1>1, <2>1, SentIs DEF Locked, Unsent, Confirmed
<1>5. Grounds(v) /\ Grounds(w)
  BY <1>1, <1>4 DEF GroundInv, Grounded
<1>6. CASE l \in 1..(k - 1)
  <2>1. Confirmed(w)
    BY <1>2, <1>3, <1>4, <1>5, <1>6, Kinds DEF Grounds, Closed, Finished
  <2>2. row[w].id \in Numbers /\ Entry(row[w].id).of = w
    BY <1>1, <1>2, <2>1 DEF GroundInv, Owned, Confirmed
  <2>3. row[w].id = i
    BY <2>2 DEF Good, Inv, NeverTwice
  <2>. QED
    BY <1>1, <2>3
<1>7. CASE k \in 1..(l - 1)
  BY <1>2, <1>3, <1>4, <1>5, <1>7, Kinds DEF Grounds, Closed, Finished
<1>. QED
  BY <1>3, <1>6, <1>7, Legs

LEMMA OwnedNext ==
    ASSUME Good, GroundInv, [Next]_vars
    PROVE  Owned'
<1>1. ASSUME NEW v \in Voucher, row'[v].state \in {"RECEIPT_IDENTIFIED", "CONFIRMED"}
      PROVE  /\ row'[v].id \in Numbers /\ Entry(row'[v].id).of.kind = v.kind
             /\ v.kind # "payment" \/ late = {} => Entry(row'[v].id).of = v
  <2>1. CASE row'[v] = row[v] \/ Verified(v)
    <3>1. row[v].state \in {"RECEIPT_IDENTIFIED", "CONFIRMED"} /\ row'[v].id = row[v].id
      BY <1>1, <2>1 DEF Verified, Same, Numbered
    <3>. QED
      BY <3>1 DEF GroundInv, Owned
  <2>2. CASE Identified(v)
    BY <2>2 DEF Identified
  <2>3. CASE Reconciled(v)
    BY <2>3, OwnNumber DEF Reconciled, Alike
  <2>. QED
    BY <1>1, <2>1, <2>2, <2>3, RowIs DEF RowMoves, Redone, Claimed, Answered, Released
<1>2. late' = {} => late = {}
  BY LateIs
<1>. QED
  BY <1>1, <1>2, FortnoxIs DEF Owned

LEMMA DistinctNext ==
    ASSUME Good, Distinct, [Next]_vars
    PROVE  Distinct'
<1>1. ASSUME NEW v \in Voucher, NEW w \in Voucher, v # w, row'[v].id = row'[w].id, row'[w] = row[w]
      PROVE  row'[v].id = 0
  <2>1. Numbered(v) \/ row'[v].id # row[w].id
    BY <1>1, RowIs DEF RowMoves, Redone, Claimed, Answered, Identified, Verified, Reconciled, Released,
           Same, Numbered
  <2>. QED
    BY <1>1, <2>1 DEF Distinct, Numbered
<1>2. \A v, w \in Voucher : row'[v] = row[v] \/ row'[w] = row[w] \/ v = w
  BY OneMoves
<1>. QED
  BY <1>1, <1>2 DEF Distinct

\* A call that is built has been found exportable in this step or before.
LEMMA BuiltIs ==
    ASSUME Good, [Next]_vars, NEW p \in Proc, call'[p].at = "built"
    PROVE  call'[p].of = call[p].of /\ (call[p].at = "built" \/ Exportable(call[p].of))
<1>1. ASSUME call'[p] = call[p]
      PROVE  call'[p].of = call[p].of /\ call[p].at = "built"
  BY <1>1
<1>2. call \in [Proc -> Call] /\ Idle.at = "idle"
  BY DEF Good, TypeOK, Call, Idle
<1>3. ASSUME NEW q \in Proc, NEW c, Goes(q, c), p # q \/ c.at # "built"
      PROVE  call'[p] = call[p]
  BY <1>2, <1>3 DEF Goes
<1>4. ASSUME NEW q \in Proc, Work(q)
      PROVE  call'[p].of = call[p].of /\ (call[p].at = "built" \/ Exportable(call[p].of))
  <2>1. \A v : /\ [Idle EXCEPT !.at = "checked", !.of = v, !.ok = Exportable(v),
                                !.new = row[v].state = "NONE"].at = "checked"
               /\ [Idle EXCEPT !.at = "read", !.of = v].at = "read"
    BY DEF Idle
  <2>2. /\ [call[q] EXCEPT !.at = "sending"].at = "sending" /\ [call[q] EXCEPT !.at = "sent"].at = "sent"
        /\ [call[q] EXCEPT !.at = "built"].of = call[q].of
    BY <1>2 DEF Call
  <2>3. CASE Rebuild(q)
    <3>1. CASE q = p /\ Exportable(call[q].of)
      <4>1. Goes(q, [call[q] EXCEPT !.at = "built"])
        BY <2>3, <3>1 DEF Rebuild
      <4>2. call'[q] = [call[q] EXCEPT !.at = "built"]
        BY <1>2, <4>1 DEF Goes
      <4>. QED
        BY <2>2, <2>3, <3>1, <4>2
    <3>2. CASE q # p \/ ~Exportable(call[q].of)
      BY <1>1, <1>2, <1>3, <2>3, <3>2 DEF Rebuild
    <3>. QED
      BY <3>1, <3>2
  <2>4. CASE \E v \in Voucher : DryRun(q, v) \/ Send(q, v)
    BY <1>1, <1>3, <2>1, <2>4 DEF DryRun, Send
  <2>5. CASE StoreDryRun(q) \/ NotSent(q) \/ Refused(q) \/ Unknown(q) \/ TakeReceipt(q) \/ Dies(q)
    BY <1>1, <1>2, <1>3, <2>5 DEF StoreDryRun, NotSent, Refused, Unknown, TakeReceipt, Dies
  <2>6. CASE Claim(q)
    <3>1. CASE row[call[q].of].state = "DRY_RUN_READY"
      <4>1. /\ call'[q].at = "sending"
            /\ call'[p].of = call[p].of /\ (p # q => call'[p].at = call[p].at)
        BY <2>6, <3>1, ClaimIs DEF Good
      <4>. QED
        BY <4>1
    <3>2. CASE row[call[q].of].state # "DRY_RUN_READY"
      BY <1>1, <1>2, <1>3, <2>6, <3>2 DEF Claim
    <3>. QED
      BY <3>1, <3>2
  <2>7. CASE Deliver(q)
    BY <1>1, <1>2, <1>3, <2>2, <2>7 DEF Deliver
  <2>. QED
    BY <1>4, <2>3, <2>4, <2>5, <2>6, <2>7 DEF Work
<1>5. Next => call' = call \/ \E q \in Proc : Work(q)
  BY DEF Next, Invoice, MarkPaid, UndoPayment, Cancel, Book, Edit, Export, DeliverLate, ExpireLease,
         Verify, Reconcile, ReleaseRejected, Update
<1>. QED
  BY <1>1, <1>4, <1>5 DEF vars

LEMMA GroundedNext ==
    ASSUME Good, GroundInv, [Next]_vars
    PROVE  Grounded'
<1>1. ASSUME NEW v \in Voucher, ~NeverSent(v)'
      PROVE  Grounds(v)'
  <2>1. CASE ~NeverSent(v)
    BY <2>1, GroundsStep DEF GroundInv, Grounded
  <2>2. CASE NeverSent(v)
    <3>1. Claimed(v)
      BY <1>1, <2>2, NeverStep DEF GroundInv
    <3>. QED
      BY <3>1, GroundsStep DEF Claimed, GroundInv, Grounded
  <2>. QED
    BY <2>1, <2>2
<1>2. ASSUME NEW p \in Proc, call'[p].at = "built", NEW v, v = call'[p].of
      PROVE  Grounds(v)'
  <2>1. call'[p].of = call[p].of /\ (call[p].at = "built" \/ Exportable(call[p].of))
    BY <1>2, BuiltIs
  <2>2. call[p].of \in Voucher
    BY CallIs DEF Good
  <2>3. Grounds(call[p].of)
    BY <1>2, <2>1, <2>2 DEF GroundInv, Grounded, Grounds, Closed, Exportable
  <2>4. v = call[p].of
    BY <1>2, <2>1
  <2>. QED
    BY <2>2, <2>3, <2>4, GroundsStep DEF GroundInv
<1>3. ASSUME NEW p \in Proc, call'[p].at = "built"
      PROVE  Grounds(call[p].of)'
  <2>1. \A v : v = call'[p].of => Grounds(v)'
    BY <1>2, <1>3
  <2>2. \A v : v = call'[p].of => (Grounds(v)' <=> Grounds(call[p].of)')
    BY DEF Grounds
  <2>. QED
    BY <2>1, <2>2
<1>. QED
  BY <1>1, <1>3 DEF Grounded

LEMMA EndedNext ==
    ASSUME Good, GroundInv, [Next]_vars
    PROVE  Ended'
<1>1. ASSUME Cancelled', NEW k \in Leg, Paid(k)'
      PROVE  Closed(k)'
  <2>1. Closed(k)
    BY <1>1, BookedIs DEF GroundInv, Ended, Closed
  <2>. QED
    BY <2>1, ClosedStep DEF GroundInv
<1>. QED
  BY <1>1 DEF Ended

\* A payment that is over, or that a cancellation found unpaid, was never sent and
\* is not, or its undo is in Fortnox.
LEMMA OverStep ==
    ASSUME Good, GroundInv, [Next]_vars, NEW k \in Leg,
           Closed(k) \/ (~Paid(k) /\ ~MayBeThere(Payment(k)))
    PROVE  k \in late' \/ NeverSent(Payment(k))' \/ InBooks(Undo(k))
<1>1. Payment(k) \in Voucher /\ Undo(k) \in Voucher /\ late \subseteq late'
  BY VoucherTypes, LateIs
<1>2. CASE Closed(k)
  <2>1. k \in late \/ NeverSent(Payment(k)) \/ Confirmed(Undo(k))
    BY <1>2 DEF Closed, Finished
  <2>2. Confirmed(Undo(k)) => InBooks(Undo(k))
    <3>1. Undo(k).kind # "payment"
      BY DEF Undo
    <3>. QED
      BY <1>1, <3>1 DEF GroundInv, Owned, Confirmed, InBooks
  <2>. QED
    BY <1>1, <1>2, <2>1, <2>2, ClosedStep DEF Closed, GroundInv
<1>3. CASE ~Paid(k)
  <2>1. ~Grounds(Payment(k))
    BY <1>3 DEF Grounds, Paid
  <2>2. NeverSent(Payment(k)) /\ ~Claimed(Payment(k))
    BY <1>1, <2>1 DEF GroundInv, Grounded, Claimed
  <2>. QED
    BY <1>1, <2>2, NeverStep DEF GroundInv
<1>. QED
  BY <1>2, <1>3

\* A voucher that comes finds in Fortnox what it stands on, and takes nothing from
\* under those that are there.
LEMMA OrderedNext ==
    ASSUME Good, GroundInv, [Next]_vars
    PROVE  Ordered'
<1>1. \A v \in Voucher : InBooks(v) \/ MayBeThere(v) => Grounds(v)
  BY SentIs DEF GroundInv, Grounded
<1>2. \A v \in Voucher : Confirmed(v) /\ v.kind # "payment" => InBooks(v)
  BY DEF GroundInv, Owned, Confirmed, InBooks
<1>3. /\ Numbers \subseteq Numbers' /\ \A i \in Numbers : Entry(i)'.of = Entry(i).of
      /\ \A i \in Numbers' \ Numbers :
             /\ i = Len(fortnox) + 1
             /\ \E v \in Voucher : Entry(i)'.of = v /\ MayBeThere(v) /\ ~InBooks(v)
  BY FortnoxIs
<1>4. Len(fortnox) \in Nat /\ Numbers = 1..Len(fortnox)
  BY DEF Good, TypeOK, Numbers
<1>5. \A v, i : i \in Numbers /\ Before(v, i) => Before(v, i)'
  BY <1>3, <1>4 DEF Before
<1>6. \A v, i : i = Len(fortnox) + 1 /\ InBooks(v) => Before(v, i)'
  BY <1>3, <1>4 DEF Before, InBooks
<1>7. ASSUME NEW v \in Voucher, Grounds(v), v # Receipt
      PROVE  InBooks(Receipt)
  <2>1. ASSUME NEW k \in Leg, Confirmed(Payment(k))
        PROVE  Confirmed(Receipt)
    <3>1. Grounds(Payment(k))
      BY <2>1, SentIs, VoucherTypes DEF GroundInv, Grounded
    <3>. QED
      BY <3>1, Kinds DEF Grounds
  <2>2. Confirmed(Receipt)
    BY <1>7, <2>1, Kinds DEF Grounds
  <2>. QED
    BY <1>2, <2>2, VoucherTypes, Kinds
\* What a payment or a cancellation finds over stays so.
<1>8. ASSUME NEW v \in Voucher, Grounds(v), NEW k \in Leg,
             v = Cancellation \/ (v.kind = "payment" /\ k \in 1..(v.leg - 1))
      PROVE  k \in late' \/ NeverSent(Payment(k))' \/ InBooks(Undo(k))
  <2>1. CASE Closed(k)
    BY <2>1, OverStep
  <2>2. CASE ~Closed(k)
    <3>1. v = Cancellation
      BY <1>8, <2>2 DEF Grounds
    <3>2. ~Paid(k)
      BY <1>8, <2>2, <3>1 DEF Grounds, Cancelled, GroundInv, Ended
    <3>3. ~MayBeThere(Payment(k))
      BY <1>1, <3>2, VoucherTypes DEF Grounds, Paid
    <3>. QED
      BY <3>2, <3>3, OverStep
  <2>. QED
    BY <2>1, <2>2
<1>9. ASSUME NEW v \in Voucher, Grounds(v), v.kind = "undo"
      PROVE  /\ Confirmed(Payment(v.leg)) /\ Confirmed(Payment(v.leg))'
             /\ row'[Payment(v.leg)] = row[Payment(v.leg)] /\ row[Payment(v.leg)].id \in Numbers
  <2>1. v.leg \in Leg
    BY <1>9, Kinds
  <2>2. Confirmed(Payment(v.leg)) /\ Payment(v.leg) \in Voucher
    BY <1>9, <2>1, VoucherTypes DEF Grounds
  <2>. QED
    BY <2>2, ConfirmedStep DEF GroundInv, Owned, Confirmed
<1>10. ASSUME NEW i \in Numbers, NEW v, v = Entry(i).of
       PROVE  Stands(i, v)'
  <2>1. v \in Voucher /\ InBooks(v) /\ Stands(i, v)
    <3>1. fortnox \in Seq(Made) /\ i \in 1..Len(fortnox)
      BY DEF Good, TypeOK, Numbers, Made
    <3>2. fortnox[i] \in Made
      BY <3>1
    <3>. QED
      BY <1>10, <3>2 DEF Entry, Made, InBooks, GroundInv, Ordered
  <2>2. Grounds(v)
    BY <1>1, <2>1
  <2>3. ASSUME NEW k \in Leg, v = Cancellation \/ (v.kind = "payment" /\ k \in 1..(v.leg - 1)),
               Over(k, i)
        PROVE  Over(k, i)'
    <3>1. CASE k \in late \/ Before(Undo(k), i)
      BY <1>5, <3>1, LateIs DEF Over
    <3>2. CASE NeverSent(Payment(k)) /\ k \notin late
      <4>1. Undone(k) \/ ~Paid(k)
        BY <2>2, <2>3, <3>2 DEF Grounds, Closed, Finished, Cancelled, GroundInv, Ended
      <4>2. ~Claimed(Payment(k))
        BY <3>2, <4>1, VoucherTypes DEF Claimed, GroundInv, ReversedNotSent, Grounded, Grounds, Paid
      <4>. QED
        BY <3>2, <4>2, NeverStep, VoucherTypes DEF Over, GroundInv
    <3>. QED
      BY <2>3, <3>1, <3>2 DEF Over
  <2>4. v.kind = "payment" => \A k \in 1..(v.leg - 1) : k \in Leg
    BY <2>1, VoucherTypes, Legs
  <2>5. v.kind = "undo" => Confirmed(Payment(v.leg))' /\ row'[Payment(v.leg)].id < i
    BY <1>9, <2>1, <2>2 DEF Stands
  <2>. QED
    BY <1>5, <2>1, <2>3, <2>4, <2>5 DEF Stands
<1>11. ASSUME NEW i \in Numbers' \ Numbers, NEW v, v = Entry(i)'.of
       PROVE  Stands(i, v)'
  <2>1. i = Len(fortnox) + 1 /\ v \in Voucher /\ MayBeThere(v) /\ Grounds(v)
    BY <1>1, <1>3, <1>11
  <2>2. v # Receipt => Before(Receipt, i)'
    BY <1>6, <1>7, <2>1
  <2>3. v.kind = "undo" => Confirmed(Payment(v.leg))' /\ row'[Payment(v.leg)].id < i
    BY <1>4, <1>9, <2>1
  <2>4. \A k \in Leg : v = Cancellation \/ (v.kind = "payment" /\ k \in 1..(v.leg - 1)) => Over(k, i)'
    BY <1>6, <1>8, <2>1 DEF Over
  <2>5. v.kind = "payment" => \A k \in 1..(v.leg - 1) : k \in Leg
    BY <2>1, VoucherTypes, Legs
  <2>. QED
    BY <2>2, <2>3, <2>4, <2>5 DEF Stands
<1>12. ASSUME NEW i \in Numbers'
       PROVE  Stands(i, Entry(i).of)'
  <2>1. \A v : v = Entry(i)'.of => Stands(i, v)'
    BY <1>3, <1>10, <1>11
  <2>2. \A v : v = Entry(i)'.of => (Stands(i, v)' <=> Stands(i, Entry(i).of)')
    BY DEF Stands
  <2>. QED
    BY <2>1, <2>2
<1>. QED
  BY <1>12 DEF Ordered

LEMMA GroundNext ==
    ASSUME Good, GroundInv, [Next]_vars
    PROVE  GroundInv'
<1>1. ReversedNotSent'
  BY WithdrawnNext DEF GroundInv
<1>2. Untouched'
  <2>1. ASSUME NEW v \in Voucher, row'[v].state = "NONE"
        PROVE  ~row'[v].attempt
    BY <2>1, RowIs DEF RowMoves, Redone, Claimed, Answered, Identified, Verified, Reconciled, Released,
           GroundInv, Untouched
  <2>. QED
    BY <2>1 DEF Untouched
<1>. QED
  BY <1>1, <1>2, OwnedNext, GroundedNext, DistinctNext, EndedNext, OrderedNext DEF GroundInv

LEMMA GroundHolds == Spec => []GroundInv
<1>1. Init => GroundInv
  <2>. SUFFICES ASSUME Init
                PROVE  GroundInv
    OBVIOUS
  <2>1. \A v \in Voucher : row[v].state = "NONE" /\ ~row[v].attempt /\ row[v].id = 0
    BY DEF Init, NoRow
  <2>2. ReversedNotSent /\ Untouched /\ Owned /\ Distinct /\ \A v \in Voucher : NeverSent(v)
    BY <2>1, VoucherTypes DEF ReversedNotSent, Untouched, Owned, Distinct, NeverSent
  <2>3. Grounded
    BY <2>2 DEF Grounded, Init, Idle
  <2>4. Ended /\ Ordered
    BY Kinds DEF Ended, Ordered, Init, Cancelled, Numbers
  <2>. QED
    BY <2>2, <2>3, <2>4 DEF GroundInv
<1>. QED
  BY <1>1, GoodHolds, GroundNext, PTL DEF Spec

\* compareVoucher leaves the provenance out and the payments of an invoice have one
\* text. A confirmed export still bears a number of its own kind that no other bears;
\* and as of two payments the earlier is over before the later is sent, the number is
\* its own voucher's in every history without a dry run that was late.
THEOREM ConfirmedOwn == Spec => []ConfirmedIsThere
<1>1. Good /\ GroundInv => ConfirmedIsThere
  <2>. SUFFICES ASSUME Good, GroundInv, NEW v \in Voucher, Confirmed(v)
                PROVE  /\ row[v].id \in Numbers /\ Entry(row[v].id).of.kind = v.kind
                       /\ \A w \in Voucher \ {v} : Confirmed(w) => row[w].id # row[v].id
                       /\ v.kind # "payment" \/ late = {} => Entry(row[v].id).of = v
    BY DEF ConfirmedIsThere
  <2>1. /\ row[v].id \in Numbers /\ Entry(row[v].id).of.kind = v.kind
        /\ v.kind # "payment" \/ late = {} => Entry(row[v].id).of = v
    BY DEF GroundInv, Owned, Confirmed
  <2>2. row[v].id # 0
    BY <2>1 DEF Numbers
  <2>. QED
    BY <2>1, <2>2 DEF GroundInv, Distinct
<1>. QED
  BY <1>1, GoodHolds, GroundHolds, PTL

\* The undos among Fortnox's first vouchers, and the payments their exports name.
LEMMA UndosHavePayments ==
    ASSUME Good, GroundInv, NEW n \in Numbers, NEW i \in Upto(n, "undo")
    PROVE  LET k == Entry(i).of.leg
               j == row[Payment(k)].id
           IN  /\ k \in Leg /\ Entry(i).of = Undo(k)
               /\ j \in 1..(i - 1) /\ j \in Upto(n, "payment")
               /\ late = {} => Entry(j).of = Payment(k)
<1>. DEFINE k == Entry(i).of.leg  j == row[Payment(k)].id
<1>1. i \in Numbers /\ i \in 1..n /\ Entry(i).of.kind = "undo"
  BY DEF Upto, Good, TypeOK, Numbers
<1>2. Entry(i).of \in Voucher
  <2>1. fortnox \in Seq(Made) /\ i \in 1..Len(fortnox)
    BY <1>1 DEF Good, TypeOK, Numbers, Made
  <2>2. fortnox[i] \in Made
    BY <2>1
  <2>. QED
    BY <2>2 DEF Entry, Made
<1>3. k \in Leg /\ Entry(i).of = Undo(k) /\ Payment(k) \in Voucher
  BY <1>1, <1>2, Kinds, VoucherTypes
<1>4. Confirmed(Payment(k)) /\ j < i
  BY <1>1, <1>3, Kinds DEF GroundInv, Ordered, Stands
<1>5. /\ j \in Numbers /\ Entry(j).of.kind = "payment"
      /\ late = {} => Entry(j).of = Payment(k)
  BY <1>3, <1>4, Kinds DEF GroundInv, Owned, Confirmed
<1>6. j \in 1..(i - 1) /\ j \in 1..n
  BY <1>1, <1>4, <1>5 DEF Good, TypeOK, Numbers
<1>. HIDE DEF j
<1>7. j \in Upto(n, "payment")
  BY <1>5, <1>6 DEF Upto
<1>. QED
  BY <1>3, <1>5, <1>6, <1>7 DEF j

LEMMA NoMoreUndos ==
    ASSUME Good, GroundInv, NEW n \in Numbers
    PROVE  Cardinality(Upto(n, "undo")) <= Cardinality(Upto(n, "payment"))
<1>. DEFINE U == Upto(n, "undo")  P == Upto(n, "payment")
            f == [i \in U |-> row[Payment(Entry(i).of.leg)].id]
<1>1. \A i \in U : f[i] \in P
  BY UndosHavePayments
<1>2. ASSUME NEW i \in U, NEW j \in U, f[i] = f[j]
      PROVE  i = j
  <2>1. Entry(i).of.leg \in Leg /\ Entry(i).of = Undo(Entry(i).of.leg)
        /\ Entry(j).of.leg \in Leg /\ Entry(j).of = Undo(Entry(j).of.leg)
        /\ f[i] \in Numbers
    BY <1>1, UndosHavePayments DEF Upto, Good, TypeOK, Numbers
  <2>2. f[i] # 0
    BY <2>1 DEF Numbers
  <2>3. Payment(Entry(i).of.leg) = Payment(Entry(j).of.leg)
    BY <1>2, <2>1, <2>2, VoucherTypes DEF GroundInv, Distinct
  <2>4. Entry(i).of = Entry(j).of
    BY <2>1, <2>3, Kinds
  <2>5. i \in Numbers /\ j \in Numbers
    BY DEF Upto, Good, TypeOK, Numbers
  <2>. QED
    BY <2>4, <2>5 DEF Good, Inv, NeverTwice
<1>3. n \in Nat /\ 1..n \subseteq Int /\ IsFiniteSet(1..n)
  BY FS_Interval DEF Numbers, Good, TypeOK
<1>4. IsFiniteSet(P)
  BY <1>3, FS_Subset DEF Upto
<1>. HIDE DEF U, P
<1>5. f \in [U -> P]
  BY <1>1
<1>. HIDE DEF f
<1>6. f \in Injection(U, P)
  BY <1>2, <1>5 DEF Injection, IsInjective
<1>7. Cardinality(U) <= Cardinality(P)
  BY <1>4, <1>6, FS_Injection
<1>. QED
  BY <1>7 DEF U, P

\* build and the order it lets vouchers be sent in: after each number that Fortnox
\* gives, what is received, paid and taken back there is what some state of the
\* invoice leaves, but for payments that a late dry run let out after their undo.
THEOREM BooksInOrder == Spec => []BooksAgree
<1>1. ASSUME Good, GroundInv, NEW n \in Numbers
      PROVE  /\ Upto(n, "receipt") # {}
             /\ Cardinality(Upto(n, "undo")) <= Cardinality(Upto(n, "payment"))
             /\ late = {} => \A i \in Upto(n, "undo") :
                                 \E j \in 1..(i - 1) : Entry(j).of = Payment(Entry(i).of.leg)
             /\ LET open == {k \in Leg \ late : /\ \E i \in 1..n : Entry(i).of = Payment(k)
                                                /\ ~\E i \in 1..n : Entry(i).of = Undo(k)}
                IN  /\ \A k, l \in open : k = l
                    /\ Upto(n, "cancel") # {} => open = {}
  <2>. DEFINE open == {k \in Leg \ late : /\ \E i \in 1..n : Entry(i).of = Payment(k)
                                          /\ ~\E i \in 1..n : Entry(i).of = Undo(k)}
  <2>1. n \in Nat /\ n \in 1..n /\ 1..n \subseteq Numbers /\ \A i \in 1..n : 1..(i - 1) \subseteq 1..n
    BY <1>1 DEF Good, TypeOK, Numbers
  <2>2. \A i \in 1..n : Stands(i, Entry(i).of) /\ Entry(i).of \in Voucher
    <3>1. fortnox \in Seq(Made) /\ \A i \in 1..n : i \in 1..Len(fortnox)
      BY <1>1, <2>1 DEF Good, TypeOK, Numbers, Made
    <3>2. \A i \in 1..n : fortnox[i] \in Made
      BY <3>1
    <3>. QED
      BY <1>1, <2>1, <3>2 DEF Entry, Made, GroundInv, Ordered
  <2>3. Upto(n, "receipt") # {}
    <3>1. Entry(n).of = Receipt \/ Before(Receipt, n)
      BY <2>1, <2>2 DEF Stands
    <3>. QED
      BY <2>1, <3>1, Kinds DEF Upto, Before
  <2>4. late = {} => \A i \in Upto(n, "undo") :
                         \E j \in 1..(i - 1) : Entry(j).of = Payment(Entry(i).of.leg)
    BY <1>1, UndosHavePayments
  <2>5. ASSUME NEW k \in open, NEW i \in 1..n
        PROVE  ~Over(k, i)
    <3>1. InBooks(Payment(k)) /\ Payment(k) \in Voucher /\ k \notin late
      BY <2>1, <2>5, VoucherTypes DEF InBooks
    <3>2. ~NeverSent(Payment(k))
      BY <1>1, <3>1, SentIs
    <3>. QED
      BY <2>1, <2>5, <3>1, <3>2 DEF Over, Before
  <2>6. ASSUME NEW k \in open, NEW l \in open, k \in 1..(l - 1)
        PROVE  FALSE
    <3>1. PICK i \in 1..n : Entry(i).of = Payment(l)
      BY <2>6
    <3>2. Over(k, i)
      BY <2>2, <2>6, <3>1, Kinds DEF Stands
    <3>. QED
      BY <2>5, <3>2
  <2>7. \A k, l \in open : k = l
    BY <2>6, Legs
  <2>8. Upto(n, "cancel") # {} => open = {}
    <3>1. ASSUME NEW i \in 1..n, Entry(i).of.kind = "cancel"
          PROVE  Entry(i).of = Cancellation
      BY <2>2, <3>1, Kinds
    <3>. QED
      BY <2>2, <2>5, <3>1 DEF Upto, Stands
  <2>9. Cardinality(Upto(n, "undo")) <= Cardinality(Upto(n, "payment"))
    BY <1>1, NoMoreUndos
  <2>. QED
    BY <2>3, <2>4, <2>7, <2>8, <2>9
<1>2. Good /\ GroundInv => BooksAgree
  BY <1>1 DEF BooksAgree
<1>. QED
  BY <1>2, GoodHolds, GroundHolds, PTL

-----------------------------------------------------------------------------
(* A post as a claimed effect. *)

\* What is there once at most is counted so.
LEMMA CountedOnce ==
    ASSUME NEW s, NEW S, NEW v, \A i, j \in S : s[i].of = s[j].of => i = j
    PROVE  Cardinality({i \in S : s[i].of = v}) = IF \E i \in S : s[i].of = v THEN 1 ELSE 0
<1>1. CASE ~\E i \in S : s[i].of = v
  <2>1. {i \in S : s[i].of = v} = {}
    BY <1>1
  <2>. QED
    BY <1>1, <2>1, FS_EmptySet
<1>2. ASSUME NEW i \in S, s[i].of = v
      PROVE  Cardinality({j \in S : s[j].of = v}) = 1
  <2>1. {j \in S : s[j].of = v} = {i}
    BY <1>2
  <2>. QED
    BY <2>1, FS_Singleton
<1>. QED
  BY <1>1, <1>2

LEMMA TimesAre ==
    ASSUME NeverTwice, NeverTwice', NEW v
    PROVE  /\ TimesMade(v) = IF InBooks(v) THEN 1 ELSE 0
           /\ TimesMade(v)' = IF InBooks(v)' THEN 1 ELSE 0
<1>1. \A i, j \in Numbers : fortnox[i].of = fortnox[j].of => i = j
  BY DEF NeverTwice, Entry
<1>2. \A i, j \in Numbers' : fortnox'[i].of = fortnox'[j].of => i = j
  BY DEF NeverTwice, Entry
<1>3. Cardinality({i \in Numbers : fortnox[i].of = v}) =
        IF \E i \in Numbers : fortnox[i].of = v THEN 1 ELSE 0
  BY <1>1, CountedOnce
<1>4. Cardinality({i \in Numbers' : fortnox'[i].of = v}) =
        IF \E i \in Numbers' : fortnox'[i].of = v THEN 1 ELSE 0
  BY <1>2, CountedOnce
<1>. QED
  BY <1>3, <1>4 DEF TimesMade, InBooks, Entry

LEMMA QuietPost ==
    ASSUME NeverTwice, NeverTwice',
           \A v \in Voucher : /\ row'[v].state \in Unsent <=> row[v].state \in Unsent
                              /\ Said(v)' = Said(v)
                              /\ InBooks(v)' <=> InBooks(v)
    PROVE  UNCHANGED Post!vars
<1>1. \A v \in Voucher : TimesMade(v)' = TimesMade(v)
  BY TimesAre
<1>2. [v \in Voucher |-> TimesMade(v)]' = [v \in Voucher |-> TimesMade(v)]
  BY <1>1
<1>3. [v \in Voucher |-> Said(v)]' = [v \in Voucher |-> Said(v)]
  OBVIOUS
<1>4. {v \in Voucher : row[v].state \notin Unsent}' = {v \in Voucher : row[v].state \notin Unsent}
  OBVIOUS
<1>. QED
  BY <1>2, <1>3, <1>4 DEF Post!vars

\* A voucher comes to Fortnox of an export that is claimed, and nothing is said of it.
LEMMA FortnoxPost ==
    ASSUME Good, Good', Owned, [Next]_vars, row' = row
    PROVE  Post!Next \/ UNCHANGED Post!vars
<1>1. NeverTwice /\ NeverTwice'
  BY DEF Good, Inv
<1>2. \A v \in Voucher : Said(v)' = Said(v)
  BY DEF Said, Confirmed
<1>3. CASE \A v \in Voucher : InBooks(v)' <=> InBooks(v)
  BY <1>1, <1>2, <1>3, QuietPost
<1>4. CASE ~\A v \in Voucher : InBooks(v)' <=> InBooks(v)
  <2>1. \E v \in Voucher : MayBeThere(v) /\ ~InBooks(v) /\ InBooks(v)'
                           /\ \A w \in Voucher \ {v} : InBooks(w)' <=> InBooks(w)
    BY <1>4, FortnoxIs DEF InBooks
  <2>2. PICK v \in Voucher : MayBeThere(v) /\ ~InBooks(v) /\ InBooks(v)'
                             /\ \A w \in Voucher \ {v} : InBooks(w)' <=> InBooks(w)
    BY <2>1
  <2>3. row[v].state \notin Unsent /\ Said(v) = "nothing"
    BY <2>2 DEF Good, Inv, SentIsLocked, Owned, InBooks, Said, Confirmed
  <2>4. TimesMade(v) = 0 /\ TimesMade(v)' = 1 /\ \A w \in Voucher \ {v} : TimesMade(w)' = TimesMade(w)
    BY <1>1, <2>2, TimesAre
  <2>5. [w \in Voucher |-> TimesMade(w)]' = [[w \in Voucher |-> TimesMade(w)] EXCEPT ![v] = 1]
    BY <2>4
  <2>6. Post!Happen(v)
    BY <1>2, <2>3, <2>4, <2>5 DEF Post!Happen
  <2>. QED
    BY <2>6 DEF Post!Next
<1>. QED
  BY <1>3, <1>4

\* What one row's step is of the claimed effect.
LEMMA RowPost ==
    ASSUME Good, Good', GroundInv, Owned', [Next]_vars, fortnox' = fortnox,
           NEW w \in Voucher, \A v \in Voucher \ {w} : row'[v] = row[v]
    PROVE  Post!Next \/ UNCHANGED Post!vars
<1>1. NeverTwice /\ NeverTwice' /\ SentIsLocked /\ SentIsLocked'
  BY DEF Good, Inv
<1>2. \A v : (InBooks(v)' <=> InBooks(v)) /\ TimesMade(v)' = TimesMade(v)
  BY DEF InBooks, TimesMade, Numbers, Entry
<1>3. \A v \in Voucher \ {w} : Said(v)' = Said(v)
  BY DEF Said, Confirmed
<1>. DEFINE Out == row[w].state \notin Unsent  Out1 == row'[w].state \notin Unsent
<1>4. CASE (Out1 <=> Out) /\ Said(w)' = Said(w)
  BY <1>1, <1>2, <1>3, <1>4, QuietPost
<1>5. CASE ~Out /\ Out1 /\ Said(w)' = Said(w) /\ ~InBooks(w)
  <2>1. TimesMade(w) = 0
    BY <1>1, <1>5, TimesAre
  <2>2. Post!Claim(w)
    BY <1>2, <1>3, <1>5, <2>1 DEF Post!Claim
  <2>. QED
    BY <2>2 DEF Post!Next
<1>6. CASE Out /\ ~Out1 /\ Said(w)' = "nothing" /\ ~InBooks(w)
  <2>1. TimesMade(w) = 0
    BY <1>1, <1>6, TimesAre
  <2>2. [v \in Voucher |-> Said(v)]' = [[v \in Voucher |-> Said(v)] EXCEPT ![w] = "nothing"]
    BY <1>3, <1>6
  <2>3. {v \in Voucher : row[v].state \notin Unsent}' = {v \in Voucher : row[v].state \notin Unsent} \ {w}
    BY <1>6
  <2>4. [v \in Voucher |-> TimesMade(v)]' = [v \in Voucher |-> TimesMade(v)]
    BY <1>2
  <2>5. Post!GiveBack(w)
    BY <1>6, <2>1, <2>2, <2>3, <2>4 DEF Post!GiveBack
  <2>. QED
    BY <2>5 DEF Post!Next
<1>7. CASE /\ Out /\ Out1 /\ Said(w) = "nothing"
           /\ Said(w)' = IF InBooks(w) THEN "happened" ELSE "did not"
  <2>. DEFINE word == IF TimesMade(w) = 1 THEN "happened" ELSE "did not"
  <2>1. (TimesMade(w) = 1) <=> InBooks(w)
    <3>1. TimesMade(w) = IF InBooks(w) THEN 1 ELSE 0
      BY <1>1, TimesAre
    <3>. QED
      BY <3>1
  <2>2. Said(w)' = word
    BY <1>7, <2>1
  <2>. HIDE DEF word
  <2>3. [v \in Voucher |-> Said(v)]' = [[v \in Voucher |-> Said(v)] EXCEPT ![w] = word]
    BY <1>3, <2>2
  <2>4. Post!Tell(w)
    BY <1>2, <1>3, <1>7, <2>3 DEF Post!Tell, word
  <2>. QED
    BY <2>4 DEF Post!Next
\* What is unsent or refused is not there, and what is confirmed is, if it is told of.
<1>8. /\ row[w].state \in Unlocked => ~InBooks(w)
      /\ row'[w].state \in Unlocked => ~InBooks(w)
  BY <1>1, <1>2 DEF SentIsLocked, MayBeThere, InBooks, Unlocked
<1>9. w.kind # "payment" /\ row'[w].state = "CONFIRMED" => InBooks(w)
  BY <1>2 DEF Owned, InBooks
<1>. HIDE DEF Out, Out1
<1>10. CASE row'[w] = row[w] \/ Redone(w)
  BY <1>4, <1>10 DEF Redone, Out, Out1, Said, Confirmed, Unsent
<1>11. CASE Claimed(w)
  BY <1>5, <1>8, <1>11 DEF Claimed, Out, Out1, Said, Confirmed, Unsent, Unlocked
<1>12. CASE Answered(w)
  BY <1>4, <1>6, <1>7, <1>8, <1>12 DEF Answered, Out, Out1, Said, Confirmed, Unsent, Unlocked
<1>13. CASE Identified(w)
  BY <1>4, <1>13 DEF Identified, Out, Out1, Said, Confirmed, Unsent
<1>14. CASE Verified(w) \/ Reconciled(w)
  <2>1. CASE w.kind = "payment"
    BY <1>4, <1>14, <2>1 DEF Verified, Reconciled, Out, Out1, Said, Unsent, Locked
  <2>2. CASE w.kind # "payment"
    BY <1>4, <1>7, <1>8, <1>9, <1>14, <2>2 DEF Verified, Reconciled, Out, Out1, Said, Confirmed, Unsent, Unlocked, Locked
  <2>. QED
    BY <2>1, <2>2
<1>15. CASE Released(w)
  BY <1>6, <1>8, <1>15 DEF Released, Out, Out1, Said, Confirmed, Unsent, Unlocked
<1>. QED
  BY RowIs, <1>10, <1>11, <1>12, <1>13, <1>14, <1>15 DEF RowMoves

\* The send, its answers, the lease, verify, reconcile and release implement a claimed
\* effect: Fortnox makes a voucher only of a claimed export and once, a claim is given
\* back only if there is none, and CONFIRMED and a proven refusal tell the truth of
\* every voucher that is not like another of its invoice.
THEOREM ExportImplements == Spec => PostIsClaimed
<1>1. Init => Post!Init
  <2>. SUFFICES ASSUME Init
                PROVE  Post!Init
    OBVIOUS
  <2>1. \A v \in Voucher : row[v].state = "NONE" /\ Said(v) = "nothing"
    BY DEF Init, NoRow, Said, Confirmed
  <2>2. \A v \in Voucher : TimesMade(v) = 0
    <3>1. Numbers = {}
      BY DEF Init, Numbers
    <3>2. \A v : {i \in Numbers : Entry(i).of = v} = {}
      BY <3>1
    <3>. QED
      BY <3>2, FS_EmptySet DEF TimesMade
  <2>. QED
    BY <2>1, <2>2 DEF Post!Init, Unsent
<1>2. Good /\ Good' /\ GroundInv /\ GroundInv' /\ [Next]_vars => [Post!Next]_(Post!vars)
  <2>. SUFFICES ASSUME Good, Good', GroundInv, GroundInv', [Next]_vars
                PROVE  Post!Next \/ UNCHANGED Post!vars
    OBVIOUS
  <2>1. Owned /\ Owned'
    BY DEF GroundInv
  <2>. QED
    BY <2>1, OneMoves, FortnoxPost, RowPost
<1>. QED
  BY <1>1, <1>2, GoodHolds, GroundHolds, PTL DEF Spec, PostIsClaimed, Post!Spec
=============================================================================
