------------------------------ MODULE RentLedger ------------------------------
(***************************************************************************)
(* The rent receivable of one tenant: rent notices (RentNotice), the bank  *)
(* rows (BankTransaction) matched against them, the claim ladder (reminder *)
(* fee, interest, collection, credit, bad debt) and the balance the        *)
(* vouchers leave on accounts 1510 and 1515.                               *)
(*                                                                         *)
(* A database transaction that locks the rows it reads is one action. A    *)
(* value read before the lock, or without one, is a state of its own: the  *)
(* read is one action, the write another, and whatever other operators and *)
(* cron jobs do may come between. PostgreSQL runs at READ COMMITTED, so    *)
(* nobody sees the deletions of an unmatch before it commits.              *)
(*                                                                         *)
(* All notices carry the tenant's one OCR number and are RENT notices.     *)
(* Amounts are whole kronor.                                               *)
(***************************************************************************)
EXTENDS Integers, FiniteSets, Sequences, Functions

CONSTANTS
    Notice,       \* the tenant's notices; the number is the due-date order
    Payment,      \* the tenant's bank rows
    Total,        \* capital of each notice; it carries no other charges
    Amount,       \* amount of each bank row
    Fee,          \* statutory reminder fee of the organisation, 0 = turned off
    Tol,          \* the tolerance of one krona of every bank matching path
    MaxInterest,  \* bound on the interest a notice accrues
    Cash,         \* amounts an operator registers by hand
    Rebate,       \* amounts an operator credits
    Opening,      \* notices that are historical debt from an opening package
    Unbooked,     \* notices whose accrual voucher could not be written
    Uncertain,    \* bank rows imported with an undecided identity
    Command       \* what the operators and cron jobs of the instance do

Commands == {"send", "fail", "match", "auto", "pour", "spread", "unmatch", "ignore",
             "cash", "cancel", "strike", "remind", "inkasso", "interest",
             "credit", "writedown", "writeoff"}

ASSUME NoticeAssumption ==
    /\ Notice \subseteq Nat /\ IsFiniteSet(Notice)
    /\ Opening \subseteq Notice /\ Unbooked \subseteq Notice \ Opening
ASSUME PaymentAssumption == Uncertain \subseteq Payment
ASSUME AmountAssumption ==
    /\ Total \in [Notice -> Nat \ {0}]
    /\ Amount \in [Payment -> Nat \ {0}]
    /\ Fee \in Nat /\ Tol \in Nat /\ MaxInterest \in Nat
    /\ Cash \subseteq Nat \ {0} /\ Rebate \subseteq Nat \ {0}
ASSUME CommandAssumption == Command \subseteq Commands

VARIABLES
    status,      \* RentNotice.status
    stage,       \* RentNotice.collectionStage
    dispatch,    \* sentAt / sendError: "unsent", "sent" or "failed"
    paidAmount,  \* RentNotice.paidAmount, the mirror of the allocations
    received,    \* sum of the committed RentNoticePayment rows of the notice
    fee,         \* RentNotice.reminderFeeAmount
    interest,    \* RentNotice.interestAccruedAmount
    credited,    \* sum of the RentNoticeCredit rows
    probable,    \* amount of the probable-loss voucher, 0 = probableLossAt null
    writtenOff,  \* writtenOffAt is set
    accrual,     \* voucher rent-notice:<id>
    feeVoucher,  \* voucher reminder-fee:<id>
    ar,          \* what the notice's vouchers leave on 1510
    doubtful,    \* what they leave on 1515
    bank,        \* BankTransaction.status
    excluded,    \* autoMatchExcludedAt is set
    review,      \* identityReviewAt is set
    alloc,       \* alloc[p][n]: RentNoticePayment rows from the bank
    queued,      \* bank rows an automatic run read and has not handled yet
    pour,        \* a waterfall that has read its candidates, not yet their locks
    unwind,      \* the unmatch that is under way, if any
    cleared,     \* commands whose unlocked preflight let them through
    raced        \* history: notices on which a write overtook another's read;
                 \* no action asks for it, only the properties do

claimVars  == <<fee, interest, credited, probable, writtenOff>>
ledgerVars == <<accrual, feeVoucher, ar, doubtful>>
bankVars   == <<bank, excluded, review, alloc>>
flightVars == <<queued, pour, unwind, cleared>>
vars == <<status, stage, dispatch, paidAmount, received, claimVars, ledgerVars, bankVars,
          flightVars, raced>>

Status  == {"PENDING", "SENT", "PAID", "OVERDUE", "CANCELLED", "FAILED", "OPENING"}
Stage   == {"NONE", "REMINDED", "INKASSO_READY", "WRITTEN_OFF"}
Voucher == {"none", "booked", "reversed"}
Stepped == {"cancel", "strike", "remind", "inkasso", "interest", "writedown"}

Payable       == {"SENT", "PENDING", "OVERDUE", "FAILED"}

\* Mutant: every status but PAID, as a "not paid" filter would say.
ManualPayable_AllButPaid == Status \ {"PAID"}

ManualPayable == Payable \cup {"OPENING"}
Sendable      == {"PENDING", "FAILED", "OVERDUE"}
Settled       == {"PAID", "CANCELLED"}
Race          == [strike : SUBSET Notice, remind : SUBSET Notice, undo : SUBSET Notice]

Nothing    == [n \in Notice |-> 0]
NoPour     == [order |-> <<>>, charged |-> {}, human |-> FALSE]
NoUnwind   == [row |-> {}, left |-> Nothing, reopen |-> {}]
NoRace     == [strike |-> {}, remind |-> {}, undo |-> {}]

-----------------------------------------------------------------------------
(* The debt of a notice, always recomputed from its rows. *)

AtLeastZero(x) == IF x > 0 THEN x ELSE 0

\* What remains of the part the tenant's OCR number collects; may be negative.
Owed(n) == Total[n] + fee[n] - credited[n] - received[n]
OcrOutstanding(n) == AtLeastZero(Owed(n))
Outstanding(n)    == AtLeastZero(Owed(n) + interest[n])

HistoricalDebtOpen == \E n \in Notice : status[n] = "OPENING"

\* Automatic claim steps hold the shared advisory lock: none runs while an
\* unmatch holds the exclusive one, nor while a row waits for a human.
UnderReview(p)   == review[p] /\ bank[p] = "UNMATCHED"
EffectsAllowed   == unwind = NoUnwind /\ \A p \in Payment : ~UnderReview(p)

Locked(p) == pour[p] # NoPour \/ p \in unwind.row

\* Mutant: the existing allocations of the row are not asked for.
Unspent_NotAsked(p) == ~Locked(p)

\* Under the bank row's lock: no allocation of the row exists yet.
Unspent(p) == ~Locked(p) /\ alloc[p] = Nothing

\* Mutant: the first allocation of the row stands for all of them.
Touched_First(p) ==
    {n \in Notice : alloc[p][n] > 0 /\ \A k \in Notice : alloc[p][k] > 0 => n <= k}

\* The notices an unmatch of row p takes money back from, and what each of them
\* has left.
Touched(p) == {n \in Notice : alloc[p][n] > 0}

\* Mutant: the sum is taken before the allocation is deleted.
Left_BeforeDelete(p, n) == received[n]

Left(p, n) == received[n] - alloc[p][n]

\* Mutant: the debt is computed before the allocation is deleted.
Reopens_BeforeDelete(p) == {n \in Touched(p) : status[n] = "PAID" /\ Owed(n) > 0}

Reopens(p) == {n \in Touched(p) : status[n] = "PAID" /\ Owed(n) + alloc[p][n] > 0}

-----------------------------------------------------------------------------
(* History: the three ways in which a write overtakes what another has read. *)

\* An unmatch has read notice n, which it does not lock, and not yet written it.
BeingUnwound(n) == \E p \in unwind.row : n \in Touched(p)

\* A waterfall has counted the fee of n in, or what came in leaves no room to
\* strike it any more, though the preflight found that it did.
StrikeIsLate(n) ==
    \/ received[n] + credited[n] > Total[n]
    \/ \E p \in Payment : n \in pour[p].charged

\* A waterfall has read n and has not counted in the fee that comes now.
ReminderIsLate(n) == fee[n] < Fee /\ \E p \in Payment : n \in Range(pour[p].order)

\* The notices in S race with another's read, in way w.
Races(w, S) == raced' = [raced EXCEPT ![w] = @ \cup S]

-----------------------------------------------------------------------------

Init ==
    /\ status = [n \in Notice |-> IF n \in Opening THEN "OPENING" ELSE "PENDING"]
    /\ stage = [n \in Notice |-> "NONE"]
    /\ dispatch = [n \in Notice |-> "unsent"]
    /\ paidAmount = Nothing /\ received = Nothing
    /\ fee = Nothing /\ interest = Nothing /\ credited = Nothing /\ probable = Nothing
    /\ writtenOff = [n \in Notice |-> FALSE]
    /\ accrual = [n \in Notice |-> IF n \in Unbooked THEN "none" ELSE "booked"]
    /\ feeVoucher = [n \in Notice |-> "none"]
    /\ ar = [n \in Notice |-> IF n \in Unbooked THEN 0 ELSE Total[n]]
    /\ doubtful = Nothing
    /\ bank = [p \in Payment |-> "UNMATCHED"]
    /\ excluded = [p \in Payment |-> FALSE]
    /\ review = [p \in Payment |-> p \in Uncertain]
    /\ alloc = [p \in Payment |-> Nothing]
    /\ queued = {}
    /\ pour = [p \in Payment |-> NoPour]
    /\ unwind = NoUnwind
    /\ cleared = [n \in Notice |-> {}]
    /\ raced = NoRace

-----------------------------------------------------------------------------
(* Dispatch and the passing of the due date. *)

\* skrivUtskicksstatus('SENT'): only a notice that is still open and unsent.
SendOk(n) ==
    /\ "send" \in Command
    /\ status[n] \in Sendable /\ dispatch[n] # "sent"
    /\ status' = [status EXCEPT ![n] = "SENT"]
    /\ dispatch' = [dispatch EXCEPT ![n] = "sent"]
    /\ UNCHANGED <<stage, paidAmount, received, claimVars, ledgerVars, bankVars, flightVars, raced>>

\* skrivUtskicksstatus('FAILED').
SendFails(n) ==
    /\ "fail" \in Command
    /\ status[n] \in Sendable /\ dispatch[n] # "sent"
    /\ status' = [status EXCEPT ![n] = "FAILED"]
    /\ dispatch' = [dispatch EXCEPT ![n] = "failed"]
    /\ UNCHANGED <<stage, paidAmount, received, claimVars, ledgerVars, bankVars, flightVars, raced>>

\* checkAndMarkOverdue, once the due date of the notice has passed.
MarkOverdue(n) ==
    /\ status[n] \in {"PENDING", "SENT"}
    /\ status' = [status EXCEPT ![n] = "OVERDUE"]
    /\ UNCHANGED <<stage, dispatch, paidAmount, received, claimVars, ledgerVars, bankVars,
                   flightVars, raced>>

-----------------------------------------------------------------------------
(* Bank matching. *)

\* autoMatchAll and the import read the rows once, then work through them.
PickUp(p) ==
    /\ "auto" \in Command
    /\ bank[p] = "UNMATCHED" /\ ~excluded[p] /\ ~review[p] /\ p \notin queued
    /\ queued' = queued \cup {p}
    /\ UNCHANGED <<status, stage, dispatch, paidAmount, received, claimVars, ledgerVars,
                   bankVars, pour, unwind, cleared, raced>>

\* The run found no match for the row it had read.
PassBy(p) ==
    /\ p \in queued /\ ~Locked(p)
    /\ queued' = queued \ {p}
    /\ UNCHANGED <<status, stage, dispatch, paidAmount, received, claimVars, ledgerVars,
                   bankVars, pour, unwind, cleared, raced>>

\* markeraHistoriskSkuld: old debt makes the amount ambiguous, a human decides.
FlagForReview(p) ==
    /\ p \in queued /\ ~Locked(p) /\ unwind = NoUnwind
    /\ \A n \in Notice : "interest" \notin cleared[n]
    /\ HistoricalDebtOpen
    /\ queued' = queued \ {p}
    /\ review' = [review EXCEPT ![p] = @ \/ bank[p] = "UNMATCHED"]
    /\ UNCHANGED <<status, stage, dispatch, paidAmount, received, claimVars, ledgerVars,
                   bank, excluded, alloc, pour, unwind, cleared, raced>>

\* What every match of row p leaves behind: d[n] goes to notice n, and the
\* notices in `paid` are settled by it. A mirror in `kept` is not refreshed.
Allocate(p, d, paid, kept) ==
    /\ alloc' = [alloc EXCEPT ![p] = [n \in Notice |-> @[n] + d[n]]]
    /\ received' = [n \in Notice |-> received[n] + d[n]]
    /\ paidAmount' = [n \in Notice |->
            IF d[n] > 0 /\ n \notin kept THEN received[n] + d[n] ELSE paidAmount[n]]
    /\ status' = [n \in Notice |-> IF n \in paid THEN "PAID" ELSE status[n]]
    /\ stage' = [n \in Notice |-> IF n \in paid THEN "NONE" ELSE stage[n]]
    /\ ar' = [n \in Notice |-> ar[n] - d[n]]
    /\ bank' = [bank EXCEPT ![p] = "MATCHED"]
    /\ Races("undo", {n \in Notice : d[n] > 0 /\ BeingUnwound(n)})

\* applyMatchToRentNotice, RENT branch: bank row and notice locked, all reread.
MatchOne(p, n, byHuman, allowPartial) ==
    LET due == OcrOutstanding(n)
        full == Amount[p] \in due - Tol .. due + Tol
    IN  /\ Unspent(p)
        /\ status[n] \in IF byHuman THEN ManualPayable ELSE Payable
        /\ ~byHuman => ~HistoricalDebtOpen
        /\ due > 0
        /\ full \/ (allowPartial /\ Amount[p] < due - Tol)
        /\ accrual[n] # "none"
        /\ Allocate(p, [Nothing EXCEPT ![n] = IF full THEN due ELSE Amount[p]],
                    IF full THEN {n} ELSE {}, {})
        /\ UNCHANGED <<dispatch, claimVars, accrual, feeVoucher, doubtful, excluded, review,
                       pour, unwind, cleared>>

ManualMatch(p, n) ==
    /\ "match" \in Command
    /\ MatchOne(p, n, TRUE, TRUE) /\ UNCHANGED queued

\* matchTransaction: by OCR or a number in the text a part payment is accepted,
\* by a guess on the amount it is not.
AutoMatch(p, n, allowPartial) ==
    /\ p \in queued
    /\ MatchOne(p, n, FALSE, allowPartial) /\ queued' = queued \ {p}

Orders(S) == {f \in [1 .. Cardinality(S) -> S] : \A i, j \in DOMAIN f : f[i] = f[j] => i = j}
Sorted(f) == \A i, j \in DOMAIN f : i < j => f[i] < f[j]

\* applyWaterfallToRentNotices reads the candidates, with their status and fee,
\* before it locks them: automatically every open notice of the OCR number, by
\* hand the notices the operator chose, in his order.
PourRead(p, f, byHuman) ==
    /\ Unspent(p)
    /\ Len(f) >= 2
    /\ \A n \in Range(f) : status[n] \in IF byHuman THEN ManualPayable ELSE Payable
    /\ ~byHuman => ~HistoricalDebtOpen
    /\ pour' = [pour EXCEPT ![p] =
            [order |-> f, charged |-> {n \in Range(f) : fee[n] > 0}, human |-> byHuman]]
    /\ UNCHANGED <<status, stage, dispatch, paidAmount, received, claimVars, ledgerVars,
                   bankVars, unwind, cleared, raced>>

AutoPour(p) ==
    /\ "pour" \in Command /\ p \in queued
    /\ \E f \in Orders({n \in Notice : status[n] \in Payable}) :
            Sorted(f) /\ PourRead(p, f, FALSE)
    /\ queued' = queued \ {p}

ManualPour(p) ==
    /\ "spread" \in Command
    /\ \E S \in SUBSET Notice : \E f \in Orders(S) : PourRead(p, f, TRUE)
    /\ UNCHANGED queued

\* Mutant: the allocations are not read again under the locks.
Remaining_ReadWithCandidates(n, r) ==
    AtLeastZero(Total[n] + (IF n \in r.charged THEN Fee ELSE 0) - credited[n])

\* Under the locks only the allocations and the credits are read again; the fee
\* is the one read with the candidates.
Remaining(n, r) ==
    AtLeastZero(Total[n] + (IF n \in r.charged THEN Fee ELSE 0) - credited[n] - received[n])
Rest(r) == SelectSeq(r.order, LAMBDA n : Remaining(n, r) > 0)

\* The distributions a waterfall over `rest` can make: no notice gets more than
\* it lacks, and nothing reaches a notice before those ahead of it are full.
Waterfall(rest, r, budget) ==
    {d \in [Notice -> 0 .. budget] :
        /\ \A n \in Notice : d[n] <= IF n \in Range(r.order) THEN Remaining(n, r) ELSE 0
        /\ \A i, j \in DOMAIN rest : i < j /\ d[rest[j]] > 0 => d[rest[i]] = Remaining(rest[i], r)
        /\ SumFunction(d) = budget}

PourCommit(p) ==
    LET r == pour[p]
        rest == Rest(r)
        total == SumFunction([i \in DOMAIN rest |-> Remaining(rest[i], r)])
        budget == IF total \in Amount[p] - Tol .. Amount[p] + Tol THEN total ELSE Amount[p]
    IN  /\ r # NoPour
        /\ Len(rest) >= 2
        /\ Amount[p] <= total + Tol
        /\ Amount[p] > Remaining(rest[1], r) + Tol
        /\ \E d \in Waterfall(rest, r, budget) :
             LET full == {n \in Notice : d[n] > 0 /\ d[n] = Remaining(n, r)}
                 open == {n \in Notice : status[n] \in IF r.human THEN ManualPayable ELSE Payable}
             IN  /\ Cardinality({n \in Notice : d[n] > 0}) >= 2
                 /\ \A n \in Notice : d[n] > 0 => accrual[n] # "none"
                 /\ Allocate(p, d, full \cap open, full \ open)
        /\ pour' = [pour EXCEPT ![p] = NoPour]
        /\ UNCHANGED <<dispatch, claimVars, accrual, feeVoucher, doubtful, excluded, review,
                       queued, unwind, cleared>>

\* The waterfall does not fit, or a voucher is missing: the transaction rolls back.
PourAbort(p) ==
    /\ pour[p] # NoPour
    /\ pour' = [pour EXCEPT ![p] = NoPour]
    /\ UNCHANGED <<status, stage, dispatch, paidAmount, received, claimVars, ledgerVars,
                   bankVars, queued, unwind, cleared, raced>>

\* ignoreTransaction: the status of the row is not looked at.
Ignore(p) ==
    /\ "ignore" \in Command /\ ~Locked(p)
    /\ bank' = [bank EXCEPT ![p] = "IGNORED"]
    /\ UNCHANGED <<status, stage, dispatch, paidAmount, received, claimVars, ledgerVars,
                   excluded, review, alloc, flightVars, raced>>

\* unmatchTransaction, up to the write: it locks the bank row but not the
\* notices, deletes the allocations and computes what each notice has left. The
\* check that the row is matched, made just before the lock, is one step with it.
UnmatchRead(p) ==
    /\ "unmatch" \in Command
    /\ bank[p] = "MATCHED" /\ ~Locked(p) /\ unwind = NoUnwind
    /\ \A n \in Notice : "interest" \notin cleared[n]
    /\ unwind' = [row |-> {p},
                  left |-> [n \in Notice |-> IF n \in Touched(p) THEN Left(p, n) ELSE 0],
                  reopen |-> Reopens(p)]
    /\ UNCHANGED <<status, stage, dispatch, paidAmount, received, claimVars, ledgerVars,
                   bankVars, queued, pour, cleared, raced>>

\* Mutant: historical debt is not told apart.
Reopened_NoHistory(n) ==
    CASE dispatch[n] = "sent" -> "SENT"
      [] dispatch[n] = "failed" -> "FAILED"
      [] dispatch[n] = "unsent" -> "PENDING"

\* From what is known of the dispatch, never from a guess.
Reopened(n) ==
    IF n \in Opening THEN "OPENING"
    ELSE CASE dispatch[n] = "sent" -> "SENT"
           [] dispatch[n] = "failed" -> "FAILED"
           [] dispatch[n] = "unsent" -> "PENDING"

UnmatchCommit(p) ==
    LET back == [n \in Notice |-> IF n \in Touched(p) THEN alloc[p][n] ELSE 0]
    IN  /\ p \in unwind.row
        /\ alloc' = [alloc EXCEPT ![p] = [n \in Notice |-> @[n] - back[n]]]
        /\ received' = [n \in Notice |-> received[n] - back[n]]
        /\ paidAmount' = [n \in Notice |->
                IF n \in Touched(p) THEN unwind.left[n] ELSE paidAmount[n]]
        /\ status' = [n \in Notice |-> IF n \in unwind.reopen THEN Reopened(n) ELSE status[n]]
        /\ ar' = [n \in Notice |-> ar[n] + back[n]]
        /\ bank' = [bank EXCEPT ![p] = "UNMATCHED"]
        /\ excluded' = [excluded EXCEPT ![p] = TRUE]
        /\ unwind' = NoUnwind
        /\ UNCHANGED <<stage, dispatch, claimVars, accrual, feeVoucher, doubtful, review,
                       queued, pour, cleared, raced>>

-----------------------------------------------------------------------------
(* Commands of the operator on one notice. *)

\* markAsPaid: a payment registered by hand, within the debt, no tolerance.
MarkAsPaid(n, a) ==
    /\ "cash" \in Command
    /\ status[n] \in Payable /\ accrual[n] # "none"
    /\ a <= OcrOutstanding(n)
    /\ received' = [received EXCEPT ![n] = @ + a]
    /\ paidAmount' = [paidAmount EXCEPT ![n] = received[n] + a]
    /\ IF a = OcrOutstanding(n)
         THEN /\ status' = [status EXCEPT ![n] = "PAID"]
              /\ stage' = [stage EXCEPT ![n] = "NONE"]
         ELSE UNCHANGED <<status, stage>>
    /\ ar' = [ar EXCEPT ![n] = @ - a]
    /\ Races("undo", {k \in {n} : BeingUnwound(k)})
    /\ UNCHANGED <<dispatch, claimVars, accrual, feeVoucher, doubtful, bankVars, flightVars>>

\* createCredit, under the notice's lock: never on money already received.
CreateCredit(n, c) ==
    /\ "credit" \in Command
    /\ n \notin Opening /\ status[n] \notin Settled /\ accrual[n] # "none"
    /\ probable[n] = 0 /\ ~writtenOff[n]
    /\ received[n] = 0
    /\ c <= OcrOutstanding(n)
    /\ credited' = [credited EXCEPT ![n] = @ + c]
    /\ ar' = [ar EXCEPT ![n] = @ - c]
    /\ stage' = [stage EXCEPT ![n] = IF c = OcrOutstanding(n) /\ @ # "WRITTEN_OFF"
                                       THEN "NONE" ELSE @]
    /\ UNCHANGED <<status, dispatch, paidAmount, received, fee, interest, probable, writtenOff,
                   accrual, feeVoucher, doubtful, bankVars, flightVars, raced>>

\* What cancelNotice asks of the notice, before the transaction and in its claim.
CancelClaim(n) ==
    status[n] \notin Settled /\ probable[n] = 0 /\ ~writtenOff[n] /\ credited[n] = 0

\* Mutant: the claim does not repeat the status.
StepClaim_StageOnly(n, from) == EffectsAllowed /\ stage[n] = from

\* The claim of a step up the ladder, inside its transaction.
StepClaim(n, from) == EffectsAllowed /\ status[n] = "OVERDUE" /\ stage[n] = from

\* Mutant: the reversal does not ask whether the voucher is reversed already.
FeeOnLedger_Always(n) == Fee

\* What the fee's voucher still carries on 1510.
FeeOnLedger(n) == IF feeVoucher[n] = "booked" THEN Fee ELSE 0

\* Mutant: the debt of the day, not what was moved to 1515.
LossAmount_OfToday(n) == Outstanding(n)

\* What a confirmed loss takes off 1515: the debit of the probable-loss voucher.
LossAmount(n) == probable[n]

\* The checks a command makes before its transaction, on unlocked reads.
Preflight(c, n) ==
    \/ /\ c = "cancel"
       /\ n \notin Opening /\ paidAmount[n] = 0 /\ CancelClaim(n)
    \/ /\ c = "strike"
       /\ fee[n] > 0 /\ probable[n] = 0 /\ ~writtenOff[n]
       /\ received[n] <= Total[n] - credited[n]
    \/ /\ c = "remind"
       /\ status[n] = "OVERDUE" /\ stage[n] = "NONE" /\ OcrOutstanding(n) > 0
    \/ /\ c = "inkasso"
       /\ status[n] = "OVERDUE" /\ stage[n] = "REMINDED" /\ dispatch[n] = "sent"
       /\ OcrOutstanding(n) > 0
    \/ /\ c = "interest"
       /\ EffectsAllowed /\ stage[n] = "REMINDED" /\ status[n] \notin Settled
       /\ Total[n] > credited[n] /\ interest[n] < MaxInterest
    \/ /\ c = "writedown"
       /\ n \notin Opening /\ stage[n] = "INKASSO_READY" /\ status[n] \notin Settled
       /\ probable[n] = 0

Clear(c, n) ==
    /\ c \in Command /\ c \notin cleared[n] /\ Preflight(c, n)
    /\ cleared' = [cleared EXCEPT ![n] = @ \cup {c}]
    /\ UNCHANGED <<status, stage, dispatch, paidAmount, received, claimVars, ledgerVars,
                   bankVars, queued, pour, unwind, raced>>

\* The claim of the command missed, or its transaction failed: nothing happened.
GiveUp(c, n) ==
    /\ c \in cleared[n]
    /\ cleared' = [cleared EXCEPT ![n] = @ \ {c}]
    /\ UNCHANGED <<status, stage, dispatch, paidAmount, received, claimVars, ledgerVars,
                   bankVars, queued, pour, unwind, raced>>

Claim(c, n) ==
    /\ c \in cleared[n]
    /\ cleared' = [cleared EXCEPT ![n] = @ \ {c}]
    /\ UNCHANGED <<dispatch, paidAmount, received, bankVars, queued, pour, unwind>>

\* cancelNotice: the claim repeats every preflight check but the one on money
\* received; accrual, fee and interest are reversed.
Cancel(n) ==
    /\ Claim("cancel", n) /\ CancelClaim(n)
    /\ status' = [status EXCEPT ![n] = "CANCELLED"]
    /\ stage' = [stage EXCEPT ![n] = "NONE"]
    /\ ar' = [ar EXCEPT ![n] = @ - interest[n]
                              - (IF accrual[n] = "booked" THEN Total[n] ELSE 0)
                              - FeeOnLedger(n)]
    /\ accrual' = [accrual EXCEPT ![n] = IF @ = "booked" THEN "reversed" ELSE @]
    /\ feeVoucher' = [feeVoucher EXCEPT ![n] = IF @ = "booked" THEN "reversed" ELSE @]
    /\ UNCHANGED <<claimVars, doubtful, raced>>

\* reverseReminderFee: the claim compares the fee, not the money received.
StrikeFee(n) ==
    /\ Claim("strike", n)
    /\ fee[n] > 0 /\ probable[n] = 0 /\ ~writtenOff[n]
    /\ fee' = [fee EXCEPT ![n] = 0]
    /\ feeVoucher' = [feeVoucher EXCEPT ![n] = IF @ = "booked" THEN "reversed" ELSE @]
    /\ ar' = [ar EXCEPT ![n] = @ - FeeOnLedger(n)]
    /\ Races("strike", {k \in {n} : StrikeIsLate(k)})
    /\ UNCHANGED <<status, stage, interest, credited, probable, writtenOff, accrual, doubtful>>

\* escalateNoticeToReminded: bookReminderFee is keyed on the notice and returns
\* the voucher it finds, reversed or not.
Remind(n) ==
    /\ Claim("remind", n) /\ StepClaim(n, "NONE")
    /\ stage' = [stage EXCEPT ![n] = "REMINDED"]
    /\ fee' = [fee EXCEPT ![n] = Fee]
    /\ feeVoucher' = [feeVoucher EXCEPT ![n] = IF Fee > 0 /\ @ = "none" THEN "booked" ELSE @]
    /\ ar' = [ar EXCEPT ![n] = @ + (IF feeVoucher[n] = "none" THEN Fee ELSE 0)]
    /\ Races("remind", {k \in {n} : ReminderIsLate(k)})
    /\ UNCHANGED <<status, interest, credited, probable, writtenOff, accrual, doubtful>>

\* escalateNoticeToInkassoReady.
MakeInkassoReady(n) ==
    /\ Claim("inkasso", n) /\ StepClaim(n, "REMINDED")
    /\ stage' = [stage EXCEPT ![n] = "INKASSO_READY"]
    /\ UNCHANGED <<status, claimVars, ledgerVars, raced>>

\* crystallizeInterest: the notice was read without a lock, the write is not
\* conditional. The amount depends on the day; it only grows.
CrystallizeInterest(n, i) ==
    /\ Claim("interest", n)
    /\ i > interest[n]
    /\ interest' = [interest EXCEPT ![n] = i]
    /\ ar' = [ar EXCEPT ![n] = @ + (i - interest[n])]
    /\ UNCHANGED <<status, stage, fee, credited, probable, writtenOff, accrual, feeVoucher,
                   doubtful, raced>>

\* reclassifyToProbableLoss: the amount is read under the notice's lock.
WriteDown(n) ==
    /\ Claim("writedown", n)
    /\ probable[n] = 0 /\ status[n] \notin Settled /\ accrual[n] # "none"
    /\ Outstanding(n) > 0
    /\ probable' = [probable EXCEPT ![n] = Outstanding(n)]
    /\ ar' = [ar EXCEPT ![n] = @ - Outstanding(n)]
    /\ doubtful' = [doubtful EXCEPT ![n] = @ + Outstanding(n)]
    /\ UNCHANGED <<status, stage, fee, interest, credited, writtenOff, accrual, feeVoucher, raced>>

\* confirmLoss: the amount is the one the probable-loss voucher moved to 1515.
WriteOff(n) ==
    /\ "writeoff" \in Command
    /\ stage[n] # "WRITTEN_OFF" /\ probable[n] > 0 /\ ~writtenOff[n]
    /\ writtenOff' = [writtenOff EXCEPT ![n] = TRUE]
    /\ stage' = [stage EXCEPT ![n] = "WRITTEN_OFF"]
    /\ doubtful' = [doubtful EXCEPT ![n] = @ - LossAmount(n)]
    /\ UNCHANGED <<status, dispatch, paidAmount, received, fee, interest, credited, probable,
                   accrual, feeVoucher, ar, bankVars, flightVars, raced>>

-----------------------------------------------------------------------------

BankStep(p) ==
    \/ PickUp(p) \/ PassBy(p) \/ FlagForReview(p)
    \/ \E n \in Notice : ManualMatch(p, n) \/ \E part \in BOOLEAN : AutoMatch(p, n, part)
    \/ AutoPour(p) \/ ManualPour(p) \/ PourCommit(p) \/ PourAbort(p)
    \/ Ignore(p) \/ UnmatchRead(p) \/ UnmatchCommit(p)

NoticeStep(n) ==
    \/ SendOk(n) \/ SendFails(n) \/ MarkOverdue(n)
    \/ \E a \in Cash : MarkAsPaid(n, a)
    \/ \E c \in Rebate : CreateCredit(n, c)
    \/ \E c \in Stepped : Clear(c, n) \/ GiveUp(c, n)
    \/ Cancel(n) \/ StrikeFee(n) \/ Remind(n) \/ MakeInkassoReady(n)
    \/ \E i \in 1 .. MaxInterest : CrystallizeInterest(n, i)
    \/ WriteDown(n) \/ WriteOff(n)

Next == (\E p \in Payment : BankStep(p)) \/ (\E n \in Notice : NoticeStep(n))

Spec == Init /\ [][Next]_vars

-----------------------------------------------------------------------------
(* Properties. *)

TypeOK ==
    /\ status \in [Notice -> Status] /\ stage \in [Notice -> Stage]
    /\ dispatch \in [Notice -> {"unsent", "sent", "failed"}]
    /\ paidAmount \in [Notice -> Int] /\ received \in [Notice -> Int]
    /\ fee \in [Notice -> {0, Fee}] /\ interest \in [Notice -> 0 .. MaxInterest]
    /\ credited \in [Notice -> Nat] /\ probable \in [Notice -> Nat]
    /\ writtenOff \in [Notice -> BOOLEAN]
    /\ accrual \in [Notice -> Voucher] /\ feeVoucher \in [Notice -> Voucher]
    /\ ar \in [Notice -> Int] /\ doubtful \in [Notice -> Int]
    /\ bank \in [Payment -> {"UNMATCHED", "MATCHED", "IGNORED"}]
    /\ excluded \in [Payment -> BOOLEAN] /\ review \in [Payment -> BOOLEAN]
    /\ alloc \in [Payment -> [Notice -> Nat]]
    /\ queued \subseteq Payment
    /\ pour \in [Payment -> [order : Seq(Notice), charged : SUBSET Notice, human : BOOLEAN]]
    /\ unwind \in [row : SUBSET Payment, left : [Notice -> Int], reopen : SUBSET Notice]
    /\ cleared \in [Notice -> SUBSET Stepped]
    /\ raced \in Race

\* A bank row is spent at most once: it carries allocations exactly while it is
\* not free, and never more than its amount and the tolerance (the prior-
\* allocation check under the bank row's lock in every matching path).
BankRowSpentOnce ==
    \A p \in Payment :
        /\ bank[p] = "UNMATCHED" => alloc[p] = Nothing
        /\ bank[p] = "MATCHED" => alloc[p] # Nothing
        /\ SumFunction(alloc[p]) <= Amount[p] + Tol

\* The claim ladder holds no notice that is paid, cancelled or not yet sent out
\* as overdue: whatever settles a notice also takes it off the ladder.
LadderOnlyOnOpenDebt ==
    \A n \in Notice : stage[n] \in {"REMINDED", "INKASSO_READY"} =>
        status[n] \in {"SENT", "OVERDUE", "FAILED"}

\* Money and credits never exceed what the notice has asked for.
NoOverpayment == \A n \in Notice : received[n] + credited[n] <= Total[n] + fee[n]

\* The general ledger agrees with the subledger: what a live, booked notice has
\* on 1510, on 1515 and as confirmed loss is the debt computeRentDebt computes,
\* as long as the fee it asks for has its voucher (see FeeHasVoucher).
FeeBacked(n) == fee[n] > 0 => feeVoucher[n] = "booked"
LedgerMatchesSubledger ==
    \A n \in Notice : accrual[n] = "booked" /\ FeeBacked(n) =>
        ar[n] + doubtful[n] + (IF writtenOff[n] THEN probable[n] ELSE 0)
            = Owed(n) + interest[n]

\* 1515 holds the amount written down until the loss is confirmed and nets to
\* zero then, whatever was paid in between.
DoubtfulNetsToZero ==
    \A n \in Notice : doubtful[n] = IF writtenOff[n] THEN 0 ELSE probable[n]

\* A cancelled notice was never credited and never written down: 1510 is not
\* credited a second time for the same claim, however the commands interleave.
CancelledIsNotCreditedTwice ==
    \A n \in Notice : status[n] = "CANCELLED" =>
        credited[n] = 0 /\ probable[n] = 0 /\ ~writtenOff[n]

\* Nothing is overpaid on a notice whose fee was not struck late: no mix of
\* matches, waterfalls read earlier, cash, credits and unmatches lets two of them
\* spend the same debt.
WithinDebtUnlessStruck == \A n \in Notice \ raced.strike : Owed(n) >= 0

\* A paid notice has nothing left that the OCR number collects, unless it was
\* reminded behind a waterfall or its unmatch was overtaken.
SettledUnlessRaced ==
    \A n \in Notice \ (raced.remind \cup raced.undo) : status[n] = "PAID" => Owed(n) <= 0

\* A paid notice is paid to the krona and no notice is overpaid, whatever races
\* happen on the other notices.
DebtExactUnlessRaced == WithinDebtUnlessStruck /\ SettledUnlessRaced

\* paidAmount is what the allocations of a notice in force sum to, although a
\* waterfall and an unmatch write it from earlier reads, unless one of the three
\* races happened on this notice.
MirrorExactUnlessRaced ==
    \A n \in Notice \ (raced.strike \cup raced.remind \cup raced.undo) :
        status[n] # "CANCELLED" => paidAmount[n] = received[n]

\* Historical debt is only ever open or paid: it is not sent, dunned, credited,
\* cancelled or written down, also after an unmatch.
HistoryStaysHistory ==
    \A n \in Opening :
        /\ status[n] \in {"OPENING", "PAID"} /\ stage[n] = "NONE"
        /\ fee[n] = 0 /\ credited[n] = 0 /\ probable[n] = 0

\* A settled notice opens again only by taking received money back, and a
\* cancelled one never.
SettledOpensOnlyByUnmatch ==
    [][\A n \in Notice : status[n] \in Settled /\ status'[n] # status[n] =>
          status[n] = "PAID" /\ received'[n] < received[n]]_vars

\* The bank rows implement the payment book: every step of every operator and
\* every automatic run spends a whole free row, takes a whole row back, or
\* leaves the allocations alone.
Book == INSTANCE PaymentBook WITH spent <- alloc,
            Budget <- [p \in Payment |-> Amount[p] + Tol]
ImplementsPaymentBook == Book!Spec

-----------------------------------------------------------------------------
(* What comments in the code claim and the code does not keep. *)

\* cancelNotice: "a partly paid notice must not be cancelled" - its check of the
\* money received is outside the transaction and not part of the claim.
CancelledTookNoMoney == \A n \in Notice : status[n] = "CANCELLED" => received[n] = 0

\* A paid notice has nothing left that the OCR number collects: the plain form of
\* DebtExactUnlessRaced, which the races break.
PaidIsSettled == \A n \in Notice : status[n] = "PAID" => Owed(n) <= 0

\* INV-A: no fee is demanded without its voucher.
FeeHasVoucher == \A n \in Notice : status[n] # "CANCELLED" => FeeBacked(n)

===============================================================================
