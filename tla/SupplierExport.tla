---------------------------- MODULE SupplierExport ----------------------------
(***************************************************************************)
(* The vouchers of one supplier invoice and their export to Fortnox.       *)
(*                                                                         *)
(* Operators pay the invoice, take the payment back and cancel it; each is *)
(* one transaction under the invoice's row lock. Every voucher has at most *)
(* one export row, which dry runs, sends and reconciliations change by     *)
(* conditional updates. A voucher that is posted may arrive, be refused,   *)
(* or arrive while nobody hears of it; the program may end at any point.   *)
(***************************************************************************)
EXTENDS Integers, Sequences, FiniteSets

CONSTANTS
    Proc,       \* calls under way at once: sends,
    DryRunner,  \* and those of them that may be dry runs
    MaxLegs,    \* payments of the invoice in a behaviour
    MaxEdits    \* vouchers changed by hand in Fortnox in a behaviour

ASSUME CallAssumption  == DryRunner \subseteq Proc
ASSUME BoundAssumption == MaxLegs \in Nat /\ MaxEdits \in Nat

Leg          == 1..MaxLegs
Receipt      == [kind |-> "receipt", leg |-> 0]
Cancellation == [kind |-> "cancel", leg |-> 0]
Payment(k)   == [kind |-> "payment", leg |-> k]
Undo(k)      == [kind |-> "undo", leg |-> k]
Voucher      == {Receipt, Cancellation} \cup {Payment(k) : k \in Leg} \cup {Undo(k) : k \in Leg}

VARIABLES
    booked,     \* the invoice's vouchers in Eveno
    row,        \* FortnoxVoucherExport of each voucher
    fortnox,    \* the vouchers Fortnox has made of them, in the order of their numbers
    wire,       \* posts nobody waits for that may still arrive
    call,       \* what each dry run or send is at
    late        \* history: the legs whose payment a dry run made READY after its undo

\* The code keeps no such set as late: no guard reads it, the properties do.
vars == <<booked, row, fortnox, wire, call, late>>

\* REFUSED is REJECTED with a stored status and code that prove a refusal of the
\* content, REJECTED is any other.
States == {"NONE", "DRY_RUN_READY", "BLOCKED", "SENDING", "UNKNOWN", "REJECTED", "REFUSED",
           "RECEIPT_IDENTIFIED", "RECEIPT_MISMATCH", "CONFIRMED"}
Unsent == {"NONE", "DRY_RUN_READY", "BLOCKED"}
Locked == {"UNKNOWN", "REJECTED", "REFUSED", "RECEIPT_MISMATCH"}

\* Every claim writes an attempt id nobody had before: of a row it is kept whether
\* there is one, of a call whether it is its own.
NoRow == [state |-> "NONE", attempt |-> FALSE, id |-> 0]
Idle  == [at |-> "idle", of |-> Receipt, ok |-> FALSE, new |-> FALSE, mine |-> FALSE]

Init ==
    /\ booked = {Receipt}
    /\ row = [v \in Voucher |-> NoRow]
    /\ fortnox = <<>> /\ wire = {}
    /\ call = [p \in Proc |-> Idle]
    /\ late = {}

Confirmed(v) == row[v].state = "CONFIRMED"
Cancelled    == Cancellation \in booked
Paid(k)      == Payment(k) \in booked
Undone(k)    == Undo(k) \in booked
OpenLeg(k)   == Paid(k) /\ ~Undone(k)

Entry(i)     == fortnox[i]
Numbers      == 1..Len(fortnox)
Held(i)      == \E v \in Voucher : row[v].id = i

-----------------------------------------------------------------------------
(* Which voucher may be exported. *)

NeverSent(v) ==
    row[v].state = "NONE" \/ (~row[v].attempt /\ row[v].state \in {"DRY_RUN_READY", "BLOCKED"})

\* Mutant: a payment that was undone is over, whatever became of its export.
Finished_Undone(k) == Undone(k)

\* A payment that was taken back is over in both books.
Finished(k) ==
    /\ Undone(k)
    /\ NeverSent(Payment(k)) \/ (Confirmed(Payment(k)) /\ Confirmed(Undo(k)))

\* build: a voucher that was reversed is not exported, and none before the voucher
\* it builds upon is confirmed.
Exportable(v) ==
    /\ v \in booked
    /\ v = Receipt => ~Cancelled
    /\ v = Cancellation => Confirmed(Receipt)
    /\ v.kind = "payment" =>
           ~Undone(v.leg) /\ Confirmed(Receipt) /\ \A k \in 1..(v.leg - 1) : Finished(k)
    /\ v.kind = "undo" => Confirmed(Payment(v.leg))

-----------------------------------------------------------------------------
(* The supplier invoice. *)

Book(v) == booked' = booked \cup {v} /\ UNCHANGED <<fortnox, wire, call, late>>

\* Mutant: the export that waits for a send is left as it is.
Withdraw_Not(v) == UNCHANGED row

\* An export that waits for a send is withdrawn with its voucher.
Withdraw(v) ==
    row' = IF row[v].state = "DRY_RUN_READY" THEN [row EXCEPT ![v].state = "BLOCKED"] ELSE row

MarkPaid ==
    /\ ~Cancelled /\ ~\E k \in Leg : OpenLeg(k)
    /\ \E k \in Leg : ~Paid(k) /\ (\A i \in 1..(k - 1) : Paid(i)) /\ Book(Payment(k))
    /\ UNCHANGED row

UndoPayment ==
    \E k \in Leg :
        /\ ~Cancelled /\ OpenLeg(k)
        /\ row[Payment(k)].state \in Unsent \cup {"REFUSED", "CONFIRMED"}
        /\ Book(Undo(k)) /\ Withdraw(Payment(k))

Cancel ==
    /\ ~Cancelled /\ \A k \in Leg : Paid(k) => Finished(k)
    /\ Book(Cancellation) /\ Withdraw(Receipt)

-----------------------------------------------------------------------------
(* Dry runs. *)

Goes(p, c) == call' = [call EXCEPT ![p] = c]

\* The row is not there yet, or it is READY or BLOCKED when it is written.
Store(v, new, state) ==
    row' = IF (IF new THEN row[v].state = "NONE" ELSE row[v].state \in {"DRY_RUN_READY", "BLOCKED"})
           THEN [row EXCEPT ![v].state = state] ELSE row

DryRun(p, v) ==
    /\ p \in DryRunner /\ call[p] = Idle /\ v \in booked /\ row[v].state \in Unsent
    /\ Goes(p, [Idle EXCEPT !.at = "checked", !.of = v, !.ok = Exportable(v),
                            !.new = row[v].state = "NONE"])
    /\ UNCHANGED <<booked, row, fortnox, wire, late>>

StoreDryRun(p) ==
    LET v == call[p].of IN
    /\ call[p].at = "checked"
    /\ Store(v, call[p].new, IF call[p].ok THEN "DRY_RUN_READY" ELSE "BLOCKED")
    /\ late' = IF v.kind = "payment" /\ Undone(v.leg) /\ row'[v].state = "DRY_RUN_READY"
               THEN late \cup {v.leg} ELSE late
    /\ Goes(p, Idle) /\ UNCHANGED <<booked, fortnox, wire>>

-----------------------------------------------------------------------------
(* Sending. *)

Send(p, v) ==
    /\ call[p] = Idle /\ row[v].state = "DRY_RUN_READY"
    /\ Goes(p, [Idle EXCEPT !.at = "read", !.of = v])
    /\ UNCHANGED <<booked, row, fortnox, wire, late>>

Rebuild(p) ==
    /\ call[p].at = "read"
    /\ Goes(p, IF Exportable(call[p].of) THEN [call[p] EXCEPT !.at = "built"] ELSE Idle)
    /\ UNCHANGED <<booked, row, fortnox, wire, late>>

Claim(p) ==
    LET v == call[p].of IN
    /\ call[p].at = "built"
    /\ IF row[v].state = "DRY_RUN_READY"
       THEN /\ row' = [row EXCEPT ![v].state = "SENDING", ![v].attempt = TRUE]
            /\ call' = [q \in Proc |->
                   IF q = p THEN [call[q] EXCEPT !.at = "sending", !.mine = TRUE]
                   ELSE IF call[q].of = v THEN [call[q] EXCEPT !.mine = FALSE] ELSE call[q]]
       ELSE Goes(p, Idle) /\ UNCHANGED row
    /\ UNCHANGED <<booked, fortnox, wire, late>>

Mine(p, S) == call[p].mine /\ row[call[p].of].state \in S

\* The token, the connection or the transport fails before anything is sent.
NotSent(p) ==
    LET v == call[p].of IN
    /\ call[p].at = "sending"
    /\ row' = IF Mine(p, {"SENDING"})
              THEN [row EXCEPT ![v].state = "DRY_RUN_READY", ![v].attempt = FALSE] ELSE row
    /\ Goes(p, Idle) /\ UNCHANGED <<booked, fortnox, wire, late>>

Make(v) == fortnox' = Append(fortnox, [of |-> v, intact |-> TRUE])

Deliver(p) ==
    /\ call[p].at = "sending"
    /\ Make(call[p].of)
    /\ Goes(p, [call[p] EXCEPT !.at = "sent"])
    /\ UNCHANGED <<booked, row, wire, late>>

DeliverLate(v) ==
    /\ v \in wire
    /\ Make(v) /\ wire' = wire \ {v}
    /\ UNCHANGED <<booked, row, call, late>>

Lock(p, state) ==
    row' = IF Mine(p, {"SENDING"}) THEN [row EXCEPT ![call[p].of].state = state] ELSE row

Refused(p) ==
    /\ \/ call[p].at = "sending" /\ Lock(p, "REFUSED")
       \/ call[p].at \in {"sending", "sent"} /\ Lock(p, "REJECTED")
    /\ Goes(p, Idle) /\ UNCHANGED <<booked, fortnox, wire, late>>

\* What is under way when nobody waits any longer may arrive.
Abandon(p) ==
    \/ UNCHANGED wire
    \/ call[p].at = "sending" /\ wire' = wire \cup {call[p].of}

\* Mutant: what was not answered is sent again.
Unknown_Retry(p) ==
    /\ call[p].at \in {"sending", "sent"} /\ Lock(p, "DRY_RUN_READY")
    /\ Goes(p, Idle) /\ Abandon(p) /\ UNCHANGED <<booked, fortnox, late>>

\* No answer in time, an answer that tells nothing, one without an identity.
Unknown(p) ==
    /\ call[p].at \in {"sending", "sent"} /\ Lock(p, "UNKNOWN")
    /\ Goes(p, Idle) /\ Abandon(p) /\ UNCHANGED <<booked, fortnox, late>>

NumberOf(v) == CHOOSE i \in Numbers : Entry(i).of = v

\* Mutant: a receipt of the attempt is recorded whatever the row's state.
TakeReceipt_Any(p) ==
    LET v == call[p].of
        i == NumberOf(v) IN
    /\ call[p].at = "sent"
    /\ row' = IF ~call[p].mine THEN row
              ELSE IF Held(i) THEN [row EXCEPT ![v].state = "UNKNOWN"]
              ELSE [row EXCEPT ![v].state = "RECEIPT_IDENTIFIED", ![v].id = i]
    /\ Goes(p, Idle) /\ UNCHANGED <<booked, fortnox, wire, late>>

\* recordReceipt: an identity another export holds is left to it.
TakeReceipt(p) ==
    LET v == call[p].of
        i == NumberOf(v) IN
    /\ call[p].at = "sent"
    /\ row' = IF ~Mine(p, {"SENDING", "UNKNOWN"}) THEN row
              ELSE IF Held(i) THEN [row EXCEPT ![v].state = "UNKNOWN"]
              ELSE [row EXCEPT ![v].state = "RECEIPT_IDENTIFIED", ![v].id = i]
    /\ Goes(p, Idle) /\ UNCHANGED <<booked, fortnox, wire, late>>

\* The end of the process, an error after the claim.
Dies(p) ==
    /\ call[p] # Idle
    /\ Goes(p, Idle) /\ Abandon(p) /\ UNCHANGED <<booked, row, fortnox, late>>

-----------------------------------------------------------------------------
(* What becomes of an export. *)

Update(v, r) == row' = [row EXCEPT ![v] = r] /\ UNCHANGED <<booked, fortnox, wire, call, late>>

ExpireLease(v) == row[v].state = "SENDING" /\ Update(v, [row[v] EXCEPT !.state = "UNKNOWN"])

\* compareVoucher: year, series and number, date, text and rows. The provenance
\* is not among them, and the payments of an invoice have the same text.
Alike(v, i) ==
    /\ Entry(i).intact
    /\ Entry(i).of = v \/ (v.kind = "payment" /\ Entry(i).of.kind = "payment")

Verify(v) ==
    /\ row[v].state = "RECEIPT_IDENTIFIED"
    /\ Update(v, [row[v] EXCEPT !.state = IF Alike(v, row[v].id) THEN "CONFIRMED"
                                          ELSE "RECEIPT_MISMATCH"])

\* Mutant: no unique index on the external identity.
Reconcile_Shared(v) ==
    /\ row[v].state \in Locked
    /\ \E i \in Numbers : Alike(v, i) /\ Update(v, [row[v] EXCEPT !.state = "CONFIRMED", !.id = i])

\* reconcile with the number the operator names, or reconcileScan with the one it
\* finds: like the frozen draft and held by no other export.
Reconcile(v) ==
    /\ row[v].state \in Locked
    /\ \E i \in Numbers :
           /\ Alike(v, i) /\ \A w \in Voucher \ {v} : row[w].id # i
           /\ Update(v, [row[v] EXCEPT !.state = "CONFIRMED", !.id = i])

ReleaseRejected(v) ==
    /\ row[v].state = "REFUSED" /\ \A i \in Numbers : Entry(i).of # v
    /\ Update(v, [row[v] EXCEPT !.state = "BLOCKED"])

\* A bookkeeper changes a voucher in Fortnox; one whose export is confirmed is not
\* compared again.
Edit ==
    /\ Cardinality({i \in Numbers : ~Entry(i).intact}) < MaxEdits
    /\ \E i \in Numbers : /\ \A v \in Voucher : Confirmed(v) => row[v].id # i
                         /\ fortnox' = [fortnox EXCEPT ![i].intact = FALSE]
    /\ UNCHANGED <<booked, row, wire, call, late>>

-----------------------------------------------------------------------------

Invoice == MarkPaid \/ UndoPayment \/ Cancel

Work(p) ==
    \/ \E v \in Voucher : DryRun(p, v) \/ Send(p, v)
    \/ StoreDryRun(p) \/ Rebuild(p) \/ Claim(p)
    \/ NotSent(p) \/ Deliver(p) \/ Refused(p) \/ Unknown(p) \/ TakeReceipt(p) \/ Dies(p)

Export(v) == DeliverLate(v) \/ ExpireLease(v) \/ Verify(v) \/ Reconcile(v) \/ ReleaseRejected(v)

Next == Invoice \/ Edit \/ (\E p \in Proc : Work(p)) \/ (\E v \in Voucher : Export(v))

Spec == Init /\ [][Next]_vars

-----------------------------------------------------------------------------
(* Properties. *)

TypeOK ==
    /\ booked \subseteq Voucher /\ wire \subseteq Voucher /\ late \subseteq Leg
    /\ row \in [Voucher -> [state : States, attempt : BOOLEAN, id : Nat]]
    /\ \A v \in Voucher : row[v].id \in {0} \cup Numbers
    /\ fortnox \in Seq([of : Voucher, intact : BOOLEAN])
    /\ call \in [Proc -> [at : {"idle", "checked", "read", "built", "sending", "sent"},
                          of : Voucher, ok : BOOLEAN, new : BOOLEAN, mine : BOOLEAN]]

\* A voucher that is in Fortnox, or may come there, is neither free to be sent
\* nor taken for one that was not.
MayBeThere(v) ==
    \/ v \in wire
    \/ \E i \in Numbers : Entry(i).of = v
    \/ \E p \in Proc : call[p].at \in {"sending", "sent"} /\ call[p].of = v
SentIsLocked == \A v \in Voucher : MayBeThere(v) => row[v].state \notin Unsent \cup {"REFUSED"}

\* No voucher is in Fortnox twice.
NeverTwice == \A i, j \in Numbers : Entry(i).of = Entry(j).of => i = j

\* A confirmed export bears the number of a voucher that is in Fortnox, of its own
\* kind, and no two bear the same; and it is its own, unless a dry run that was
\* stored after an undo let a payment out again.
ConfirmedIsThere ==
    \A v \in Voucher : Confirmed(v) =>
        /\ row[v].id \in Numbers /\ Entry(row[v].id).of.kind = v.kind
        /\ \A w \in Voucher \ {v} : Confirmed(w) => row[w].id # row[v].id
        /\ v.kind # "payment" \/ late = {} => Entry(row[v].id).of = v

\* At every number the debt in Fortnox is what some state of the invoice leaves:
\* nothing is paid or cancelled that was not received, no more is taken back than
\* was paid, and none by the undo of another payment; no payment stands beside
\* another or beside a cancellation. A payment that a late dry run let out after
\* its undo is the exception, and the only one.
Upto(n, kind) == {i \in 1..n : Entry(i).of.kind = kind}
BooksAgree ==
    \A n \in Numbers :
        /\ Upto(n, "receipt") # {}
        /\ Cardinality(Upto(n, "undo")) <= Cardinality(Upto(n, "payment"))
        /\ late = {} => \A i \in Upto(n, "undo") :
                            \E j \in 1..(i - 1) : Entry(j).of = Payment(Entry(i).of.leg)
        /\ LET open == {k \in Leg \ late : /\ \E i \in 1..n : Entry(i).of = Payment(k)
                                           /\ ~\E i \in 1..n : Entry(i).of = Undo(k)}
           IN  /\ \A k, l \in open : k = l
               /\ Upto(n, "cancel") # {} => open = {}

\* An undone payment is not sent: either the undo or the claim of the send comes
\* first, and the other is refused; what comes between them is only a dry run that
\* asked before the undo and is stored after it.
ReversedNotSent ==
    \A k \in Leg \ late :
        Undone(k) => row[Payment(k)].state \notin {"DRY_RUN_READY", "SENDING"}

\* What the correction's comment says of the same, without the exception.
ReversedNeverSent == \A k \in Leg : Undone(k) => row[Payment(k)].state # "SENDING"

\* Once an export is confirmed, no late answer and no later call moves it.
ConfirmedStays == [][\A v \in Voucher : Confirmed(v) => row'[v] = row[v]]_vars

\* A post is a claimed effect: Fortnox makes a voucher only of an export that is
\* claimed, an export is freed only if there is none, and CONFIRMED and a proven
\* refusal tell the truth, whatever answers are lost or late. What is said of a
\* payment is left to ConfirmedIsThere: its content is that of the other payments.
TimesMade(v) == Cardinality({i \in Numbers : Entry(i).of = v})
Said(v) == IF v.kind = "payment" THEN "nothing"
           ELSE IF Confirmed(v) THEN "happened"
           ELSE IF row[v].state = "REFUSED" THEN "did not" ELSE "nothing"
Post == INSTANCE ClaimedEffect WITH
            Item  <- Voucher,
            held  <- {v \in Voucher : row[v].state \notin Unsent},
            times <- [v \in Voucher |-> TimesMade(v)],
            told  <- [v \in Voucher |-> Said(v)]
PostIsClaimed == Post!Spec
=============================================================================
