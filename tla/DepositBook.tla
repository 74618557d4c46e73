----------------------------- MODULE DepositBook ------------------------------
(***************************************************************************)
(* The deposit of one lease and its notice, paid by hand or from the bank, *)
(* cancelled, unmatched, refunded.                                         *)
(*                                                                         *)
(* Every command is one transaction at READ COMMITTED, modelled statement  *)
(* by statement: a read sees what is committed, an update whose condition  *)
(* matches waits for the row's lock and looks again, and what a            *)
(* transaction has written shows at its commit. The bank locks the notice  *)
(* before the deposit, a payment by hand and a cancellation the deposit    *)
(* before the notice: PostgreSQL ends the circle by a rollback, which may  *)
(* also come at any other point.                                           *)
(***************************************************************************)
EXTENDS Naturals, FiniteSets

CONSTANTS
    Proc,       \* requests under way at once
    Row         \* bank rows that may pay the notice

None == "none"
ASSUME NameAssumption == None \notin Proc /\ Row \cap {"accrual", "reversal", "manual", "refund"} = {}
ASSUME RowAssumption  == {"deposit", "notice"} \cap Row = {} /\ IsFiniteSet(Row)

VARIABLES
    notice,     \* OPEN is any status a payment may reach
    deposit,    \* SETTLED is REFUNDED, PARTIALLY_REFUNDED or FORFEITED
    book,       \* the vouchers that stand; a bank row's also is its allocation
    holder,     \* who has locked a table row
    tx,         \* what each request is at, what it has read and written
    over        \* history: whether a flag was written over a deposit that was not PAID any more

\* The code keeps no such thing as over: no guard reads it, the properties do.
vars == <<notice, deposit, book, holder, tx, over>>

Notices  == {"OPEN", "PAID", "CANCELLED"}
Deposits == {"NONE", "PENDING", "PAID", "REFUND_PENDING", "SETTLED"}
Vouchers == {"accrual", "reversal", "manual", "refund"} \cup Row
Locks    == {"deposit", "notice"} \cup Row
Kinds    == {"none", "create", "pay", "match", "unmatch", "cancel", "refund", "flag"}

Idle == [kind |-> "none", at |-> "idle", row |-> None, reopen |-> FALSE,
         n |-> None, d |-> None, add |-> {}, del |-> {}]

Init ==
    /\ notice = "OPEN" /\ deposit = "NONE" /\ book = {}
    /\ holder = [r \in Locks |-> None]
    /\ tx = [p \in Proc |-> Idle]
    /\ over = FALSE

\* Money that was received for the deposit and not taken back.
Received == book \cap (Row \cup {"manual"})

Begin(p, kind, row) ==
    /\ tx[p] = Idle
    /\ tx' = [tx EXCEPT ![p] = [Idle EXCEPT !.kind = kind, !.at = "begun", !.row = row]]
    /\ UNCHANGED <<notice, deposit, book, holder, over>>

Stands(p, kind, at) == tx[p].kind = kind /\ tx[p].at = at
Free(p, r)          == holder[r] \in {None, p}
Takes(p, r)         == Free(p, r) /\ holder' = [holder EXCEPT ![r] = p]
Released(p)         == [r \in Locks |-> IF holder[r] = p THEN None ELSE holder[r]]
Stored              == UNCHANGED <<notice, deposit, book, over>>

Goes(p, t)  == tx' = [tx EXCEPT ![p] = t] /\ Stored
Rollback(p) == Goes(p, Idle) /\ holder' = Released(p)

\* A deadlock, a timeout, the end of the process.
Fails(p) == tx[p] # Idle /\ Rollback(p)

FlagsOver(p) == tx[p].kind = "flag" /\ deposit # "PAID"

Commit(p) ==
    /\ tx[p].at = "done"
    /\ notice' = IF tx[p].n = None THEN notice ELSE tx[p].n
    /\ deposit' = IF tx[p].d = None THEN deposit ELSE tx[p].d
    /\ book' = (book \ tx[p].del) \cup tx[p].add
    /\ over' = (over \/ FlagsOver(p))
    /\ tx' = [tx EXCEPT ![p] = Idle] /\ holder' = Released(p)

-----------------------------------------------------------------------------
(* The deposit is created with its accrual, for a notice that may be older. *)

AskCreate(p) == deposit = "NONE" /\ Begin(p, "create", None)

Create(p) ==
    /\ Stands(p, "create", "begun")
    /\ \/ /\ deposit = "NONE" /\ Takes(p, "deposit")
          /\ Goes(p, [tx[p] EXCEPT !.at = "done", !.d = "PENDING", !.add = {"accrual"}])
       \/ deposit # "NONE" /\ Rollback(p)

-----------------------------------------------------------------------------
(* Payment by hand: claim the deposit, then the notice. *)

AskPay(p) == deposit = "PENDING" /\ Begin(p, "pay", None)

Claim(p) ==
    /\ Stands(p, "pay", "begun")
    /\ \/ /\ deposit = "PENDING" /\ Takes(p, "deposit")
          /\ Goes(p, [tx[p] EXCEPT !.at = "claimed", !.d = "PAID"])
       \/ deposit # "PENDING" /\ Rollback(p)

SeeNotice(p) ==
    /\ Stands(p, "pay", "claimed")
    /\ IF notice = "CANCELLED" THEN Rollback(p)
       ELSE Goes(p, [tx[p] EXCEPT !.at = "booked", !.add = {"manual"}]) /\ UNCHANGED holder

PayNotice(p) ==
    /\ Stands(p, "pay", "booked")
    /\ \/ /\ notice = "OPEN" /\ Takes(p, "notice")
          /\ Goes(p, [tx[p] EXCEPT !.at = "done", !.n = "PAID"])
       \/ notice = "PAID" /\ Goes(p, [tx[p] EXCEPT !.at = "done"]) /\ UNCHANGED holder
       \/ notice = "CANCELLED" /\ Rollback(p)

-----------------------------------------------------------------------------
(* Cancellation: lock the deposit, then claim the notice. *)

AskCancel(p) == notice = "OPEN" /\ Begin(p, "cancel", None)

\* A deposit that is not there is not locked.
LockDeposit(p) ==
    /\ Stands(p, "cancel", "begun")
    /\ Goes(p, [tx[p] EXCEPT !.at = IF deposit = "NONE" THEN "bare" ELSE "locked"])
    /\ IF deposit = "NONE" THEN UNCHANGED holder ELSE Takes(p, "deposit")

CancelNotice(p) ==
    /\ tx[p].kind = "cancel" /\ tx[p].at \in {"bare", "locked"}
    /\ \/ /\ notice = "OPEN" /\ Takes(p, "notice")
          /\ Goes(p, [tx[p] EXCEPT !.at = "done", !.n = "CANCELLED",
                 !.add = IF tx[p].at = "locked" /\ deposit = "PENDING" THEN {"reversal"} ELSE {}])
       \/ notice # "OPEN" /\ Rollback(p)

-----------------------------------------------------------------------------
(* Match: lock the bank row, then the notice, then update the deposit. *)

AskMatch(p, r) == r \notin book /\ Begin(p, "match", r)

LockRow(p) ==
    /\ Stands(p, "match", "begun")
    /\ \/ /\ tx[p].row \notin book /\ Takes(p, tx[p].row)
          /\ Goes(p, [tx[p] EXCEPT !.at = "row"])
       \/ tx[p].row \in book /\ Free(p, tx[p].row) /\ Rollback(p)

\* Mutant: the notice is read without its lock.
LockNotice_Read(p) ==
    /\ Stands(p, "match", "row")
    /\ IF notice = "OPEN" THEN Goes(p, [tx[p] EXCEPT !.at = "notice"]) /\ UNCHANGED holder
       ELSE Rollback(p)

LockNotice(p) ==
    /\ Stands(p, "match", "row")
    /\ \/ notice = "OPEN" /\ Takes(p, "notice") /\ Goes(p, [tx[p] EXCEPT !.at = "notice"])
       \/ notice # "OPEN" /\ Free(p, "notice") /\ Rollback(p)

SeeDeposit(p) ==
    /\ Stands(p, "match", "notice")
    /\ IF deposit # "PENDING" \/ book \cap Row # {} THEN Rollback(p)
       ELSE Goes(p, [tx[p] EXCEPT !.at = "seen", !.add = {tx[p].row}]) /\ UNCHANGED holder

WriteNotice(p) ==
    /\ Stands(p, "match", "seen")
    /\ Takes(p, "notice")
    /\ Goes(p, [tx[p] EXCEPT !.at = "written", !.n = IF notice = "OPEN" THEN "PAID" ELSE None])

\* The number of updated rows is not looked at.
PayDeposit(p) ==
    /\ Stands(p, "match", "written")
    /\ \/ /\ deposit = "PENDING" /\ Takes(p, "deposit")
          /\ Goes(p, [tx[p] EXCEPT !.at = "done", !.d = "PAID"])
       \/ deposit # "PENDING" /\ Goes(p, [tx[p] EXCEPT !.at = "done"]) /\ UNCHANGED holder

-----------------------------------------------------------------------------
(* Unmatch: lock the bank row, then write the notice, then the deposit. *)

AskUnmatch(p, r) == r \in book /\ Begin(p, "unmatch", r)

\* Who asked twice finds nothing to take back; the notice may look paid all the same.
ReadAllocations(p) ==
    /\ Stands(p, "unmatch", "begun") /\ Takes(p, tx[p].row)
    /\ Goes(p, [tx[p] EXCEPT !.at = "read", !.del = {tx[p].row} \cap book,
                             !.reopen = notice = "PAID" /\ book \cap Row \subseteq {tx[p].row}])

ReopenNotice(p) ==
    /\ Stands(p, "unmatch", "read") /\ Takes(p, "notice")
    /\ Goes(p, [tx[p] EXCEPT !.at = "reopened", !.n = IF tx[p].reopen THEN "OPEN" ELSE None])

\* Mutant: the deposit is reset whatever has become of it.
TakeBack_Any(p) ==
    /\ Stands(p, "unmatch", "reopened")
    /\ IF tx[p].del = {} THEN Goes(p, [tx[p] EXCEPT !.at = "done"]) /\ UNCHANGED holder
       ELSE /\ Takes(p, "deposit")
            /\ Goes(p, [tx[p] EXCEPT !.at = "done", !.d = "PENDING"])

TakeBack(p) ==
    /\ Stands(p, "unmatch", "reopened")
    /\ IF tx[p].del = {} THEN Goes(p, [tx[p] EXCEPT !.at = "done"]) /\ UNCHANGED holder
       ELSE \/ /\ deposit = "PAID" /\ Takes(p, "deposit")
               /\ Goes(p, [tx[p] EXCEPT !.at = "done", !.d = "PENDING"])
            \/ deposit # "PAID" /\ Rollback(p)

-----------------------------------------------------------------------------
(* Refund. *)

AskRefund(p) == deposit \in {"PAID", "REFUND_PENDING"} /\ Begin(p, "refund", None)

Refund(p) ==
    /\ Stands(p, "refund", "begun")
    /\ \/ /\ deposit \in {"PAID", "REFUND_PENDING"} /\ Takes(p, "deposit")
          /\ Goes(p, [tx[p] EXCEPT !.at = "done", !.d = "SETTLED", !.add = {"refund"}])
       \/ deposit \notin {"PAID", "REFUND_PENDING"} /\ Rollback(p)

\* Mutant: the sweep does not look at the deposit's status.
Sweep_All ==
    /\ deposit # "NONE" /\ holder["deposit"] = None
    /\ deposit' = "REFUND_PENDING" /\ UNCHANGED <<notice, book, holder, tx, over>>

\* The daily sweep is one statement.
Sweep ==
    /\ deposit = "PAID" /\ holder["deposit"] = None
    /\ deposit' = "REFUND_PENDING" /\ UNCHANGED <<notice, book, holder, tx, over>>

\* The end of a lease reads the deposit and writes it in a second statement, by its
\* id and without a condition, whatever has become of it.
AskFlag(p) == deposit = "PAID" /\ Begin(p, "flag", None)

Flag(p) ==
    /\ Stands(p, "flag", "begun") /\ Takes(p, "deposit")
    /\ Goes(p, [tx[p] EXCEPT !.at = "done", !.d = "REFUND_PENDING"])

-----------------------------------------------------------------------------

Ask(p) ==
    \/ AskCreate(p) \/ AskPay(p) \/ AskCancel(p) \/ AskRefund(p) \/ AskFlag(p)
    \/ \E r \in Row : AskMatch(p, r) \/ AskUnmatch(p, r)

Step(p) ==
    \/ Create(p) \/ Claim(p) \/ SeeNotice(p) \/ PayNotice(p) \/ LockDeposit(p) \/ CancelNotice(p)
    \/ LockRow(p) \/ LockNotice(p) \/ SeeDeposit(p) \/ WriteNotice(p) \/ PayDeposit(p)
    \/ ReadAllocations(p) \/ ReopenNotice(p) \/ TakeBack(p) \/ Refund(p) \/ Flag(p)
    \/ Commit(p) \/ Fails(p)

Next == Sweep \/ \E p \in Proc : Ask(p) \/ Step(p)

Spec == Init /\ [][Next]_vars

-----------------------------------------------------------------------------
(* Properties. *)

TypeOK ==
    /\ notice \in Notices /\ deposit \in Deposits /\ book \subseteq Vouchers
    /\ holder \in [Locks -> Proc \cup {None}] /\ over \in BOOLEAN
    /\ tx \in [Proc -> [kind : Kinds,
                        at : {"idle", "begun", "claimed", "booked", "bare", "locked", "row", "notice",
                              "seen", "written", "read", "reopened", "done"},
                        row : Row \cup {None}, reopen : BOOLEAN,
                        n : Notices \cup {None}, d : Deposits \cup {None},
                        add : SUBSET Vouchers, del : SUBSET Vouchers]]

\* The comments on the lock order (avisering.service.ts:2489, reconciliation
\* .service.ts:2549, deposits.service.ts:576): however a payment by hand, matches
\* and a cancellation meet, the receivable is cleared by one of them only.
ClearedOnce ==
    Cardinality(Received) + Cardinality(book \cap {"reversal"}) <= Cardinality(book \cap {"accrual"})

\* Money that was received is never forgotten, and a deposit is PAID only with its
\* money. It is to be refunded, or was settled, only if it was received, and the one
\* way to lose that is a flag written over a deposit whose payment was unmatched
\* after the flag had read it.
Kept == {"PAID", "REFUND_PENDING", "SETTLED"}
KeptIsReceived ==
    /\ Received # {} => deposit \in Kept
    /\ deposit = "PAID" => Received # {}
    /\ deposit \in Kept => Received # {} \/ over

\* A deposit that was settled with the tenant is not kept, claimed or settled again,
\* but by the commit of a flag that had read it before.
SettledStays ==
    [][deposit = "SETTLED" => \/ deposit' = "SETTLED"
                              \/ \E p \in Proc : FlagsOver(p) /\ Commit(p)]_vars

-----------------------------------------------------------------------------
(* What comments in the code claim and the code does not keep. *)

\* refund's answer to who comes second: "already settled".
SettledForGood == [][deposit = "SETTLED" => deposit' = "SETTLED"]_vars

\* cancelNotice: without the reversal "the receivable and the debt stood open after a
\* cancellation" - but the deposit may be created after it.
CancelledLeavesNoClaim == notice = "CANCELLED" => ("accrual" \in book => "reversal" \in book)
=============================================================================
