--------------------------- MODULE DepositBookProofs ---------------------------
(***************************************************************************)
(* Proofs about DepositBook, for any requests and any bank rows: its types *)
(* and that a deposit's receivable is cleared once, that what was received *)
(* is not forgotten, and that a deposit is kept without its money, or kept *)
(* again after it was settled, only by a flag that was written over it.    *)
(***************************************************************************)
EXTENDS DepositBook, FiniteSetTheorems, TLAPS

(* What each request has written at each statement. *)

At(t, kind, at)        == t.kind = kind /\ t.at = at
Wrote(t, n, d, add, del) == t.n = n /\ t.d = d /\ t.add = add /\ t.del = del
Reopens(t)             == IF t.reopen THEN "OPEN" ELSE None

Shape(t) ==
    \/ t = Idle
    \/ t.kind # "none" /\ t.at = "begun" /\ Wrote(t, None, None, {}, {})
    \/ At(t, "create", "done") /\ Wrote(t, None, "PENDING", {"accrual"}, {})
    \/ At(t, "pay", "claimed") /\ Wrote(t, None, "PAID", {}, {})
    \/ At(t, "pay", "booked") /\ Wrote(t, None, "PAID", {"manual"}, {})
    \/ At(t, "pay", "done") /\ Wrote(t, "PAID", "PAID", {"manual"}, {})
    \/ t.kind = "cancel" /\ t.at \in {"bare", "locked"} /\ Wrote(t, None, None, {}, {})
    \/ At(t, "cancel", "done") /\ \/ Wrote(t, "CANCELLED", None, {}, {})
                                  \/ Wrote(t, "CANCELLED", None, {"reversal"}, {})
    \/ t.kind = "match" /\ t.at \in {"row", "notice"} /\ Wrote(t, None, None, {}, {})
    \/ At(t, "match", "seen") /\ Wrote(t, None, None, {t.row}, {})
    \/ At(t, "match", "written") /\ Wrote(t, "PAID", None, {t.row}, {})
    \/ At(t, "match", "done") /\ \/ Wrote(t, "PAID", "PAID", {t.row}, {})
                                 \/ Wrote(t, "PAID", None, {t.row}, {})
    \/ /\ t.kind = "unmatch" /\ t.del \in {{}, {t.row}}
       /\ \/ t.at = "read" /\ Wrote(t, None, None, {}, t.del)
          \/ t.at = "reopened" /\ Wrote(t, Reopens(t), None, {}, t.del)
          \/ t.at = "done" /\ Wrote(t, Reopens(t), IF t.del = {} THEN None ELSE "PENDING", {}, t.del)
    \/ At(t, "refund", "done") /\ Wrote(t, None, "SETTLED", {"refund"}, {})
    \/ At(t, "flag", "done") /\ Wrote(t, None, "REFUND_PENDING", {}, {})

\* The locks a request holds.
Held(p, t) ==
    /\ t.d # None \/ t.at = "locked" \/ "reversal" \in t.add => holder["deposit"] = p
    /\ t.n # None \/ (t.kind = "match" /\ t.at \in {"notice", "seen", "written", "done"})
           => holder["notice"] = p
    /\ t.kind \in {"match", "unmatch"} /\ t.at # "begun" => holder[t.row] = p

\* What a request has seen and still stands, by its locks.
Knows(t) ==
    /\ At(t, "create", "done") => deposit = "NONE"
    /\ t.kind = "pay" /\ t.at \in {"claimed", "booked", "done"} => deposit = "PENDING"
    /\ t.kind = "pay" /\ t.at \in {"booked", "done"} => "reversal" \notin book
    /\ At(t, "pay", "done") => notice = "OPEN"
    /\ At(t, "cancel", "done") => notice = "OPEN" /\ ("reversal" \in t.add => deposit = "PENDING")
    /\ t.kind = "match" /\ t.at \in {"notice", "seen", "written", "done"} => notice = "OPEN"
    /\ t.kind = "match" /\ t.at \in {"seen", "written", "done"} => deposit # "NONE" /\ Received = {}
    /\ At(t, "match", "done") =>
           IF t.d = "PAID" THEN deposit = "PENDING" ELSE deposit \in {"REFUND_PENDING", "SETTLED"}
    /\ t.kind = "unmatch" /\ t.at \in {"read", "reopened", "done"} =>
           /\ t.del # {} => t.row \in book /\ t.reopen
           /\ t.del = {} /\ t.reopen => "manual" \in book
    /\ At(t, "unmatch", "done") /\ t.del # {} => deposit = "PAID"
    /\ At(t, "refund", "done") => deposit \in {"PAID", "REFUND_PENDING"}
    /\ t.kind = "flag" => deposit # "NONE"

\* What is committed.
Booked ==
    /\ "accrual" \in book <=> deposit # "NONE"
    /\ KeptIsReceived
    /\ \A v, w \in Received : v = w
    /\ "reversal" \in book => notice = "CANCELLED" /\ Received = {} /\ "accrual" \in book
    /\ book \cap Row # {} => notice = "PAID"
    /\ notice = "PAID" => Received # {}

Inv == Booked /\ \A p \in Proc : Shape(tx[p]) /\ Held(p, tx[p]) /\ Knows(tx[p])

-----------------------------------------------------------------------------
(* Types. *)

Tx == [kind : Kinds,
       at : {"idle", "begun", "claimed", "booked", "bare", "locked", "row", "notice",
             "seen", "written", "read", "reopened", "done"},
       row : Row \cup {None}, reopen : BOOLEAN,
       n : Notices \cup {None}, d : Deposits \cup {None},
       add : SUBSET Vouchers, del : SUBSET Vouchers]

\* Who matches or unmatches has a bank row.
WithRow == \A p \in Proc : tx[p].kind \in {"match", "unmatch"} => tx[p].row \in Row

Typed == TypeOK /\ WithRow

\* What a statement and a lock leave of the types.
LEMMA GoesTypes ==
    ASSUME Typed, NEW p \in Proc, NEW t \in Tx, t.kind = tx[p].kind, t.row = tx[p].row,
           Goes(p, t), NEW r, Takes(p, r) \/ holder' = holder
    PROVE  Typed'
  BY DEF Typed, TypeOK, WithRow, Goes, Stored, Takes, Tx

LEMMA IdleTyped == Idle \in Tx /\ Idle.kind = "none"
  BY DEF Idle, Tx, Kinds, Vouchers

LEMMA RollbackTypes ==
    ASSUME Typed, NEW p \in Proc, Rollback(p)
    PROVE  Typed'
  BY IdleTyped DEF Typed, TypeOK, WithRow, Rollback, Goes, Stored, Released, Tx

LEMMA BeginTypes ==
    ASSUME Typed, NEW p \in Proc, NEW kind \in Kinds, NEW row \in Row \cup {None},
           kind \in {"match", "unmatch"} => row \in Row, Begin(p, kind, row)
    PROVE  Typed'
<1>. DEFINE t == [Idle EXCEPT !.kind = kind, !.at = "begun", !.row = row]
<1>1. t \in Tx /\ t.kind = kind /\ t.row = row
  BY DEF Idle, Tx, Kinds, Vouchers
<1>2. tx' = [tx EXCEPT ![p] = t] /\ UNCHANGED <<notice, deposit, book, holder, over>>
  BY DEF Begin
<1>. HIDE DEF t
<1>. QED
  BY <1>1, <1>2 DEF Typed, TypeOK, WithRow, Tx

LEMMA CommitTypes ==
    ASSUME Typed, NEW p \in Proc, Commit(p)
    PROVE  Typed'
<1>1. over' \in BOOLEAN
  BY DEF Commit
<1>. QED
  BY <1>1, IdleTyped DEF Typed, TypeOK, WithRow, Commit, Released, Tx

LEMMA StepTypes ==
    ASSUME Typed, NEW p \in Proc, Step(p)
    PROVE  Typed'
<1>1. tx[p] \in Tx
  BY DEF Typed, TypeOK, Tx
<1>2. CASE Create(p)
  <2>. DEFINE t == [tx[p] EXCEPT !.at = "done", !.d = "PENDING", !.add = {"accrual"}]
  <2>1. /\ t \in Tx /\ t.kind = tx[p].kind /\ t.row = tx[p].row
    BY <1>1 DEF Tx, Notices, Deposits, Vouchers
  <2>2. Rollback(p) \/ Goes(p, t)
    BY <1>2 DEF Create
  <2>3. Rollback(p) \/ holder' = holder \/ \E r \in Locks \cup {None} : Takes(p, r)
    BY <1>2, <1>1 DEF Create, Locks, Tx
  <2>. HIDE DEF t
  <2>. QED
    BY <2>1, <2>2, <2>3, GoesTypes, RollbackTypes
<1>3. CASE Claim(p)
  <2>. DEFINE t == [tx[p] EXCEPT !.at = "claimed", !.d = "PAID"]
  <2>1. /\ t \in Tx /\ t.kind = tx[p].kind /\ t.row = tx[p].row
    BY <1>1 DEF Tx, Notices, Deposits, Vouchers
  <2>2. Rollback(p) \/ Goes(p, t)
    BY <1>3 DEF Claim
  <2>3. Rollback(p) \/ holder' = holder \/ \E r \in Locks \cup {None} : Takes(p, r)
    BY <1>3, <1>1 DEF Claim, Locks, Tx
  <2>. HIDE DEF t
  <2>. QED
    BY <2>1, <2>2, <2>3, GoesTypes, RollbackTypes
<1>4. CASE SeeNotice(p)
  <2>. DEFINE t == [tx[p] EXCEPT !.at = "booked", !.add = {"manual"}]
  <2>1. /\ t \in Tx /\ t.kind = tx[p].kind /\ t.row = tx[p].row
    BY <1>1 DEF Tx, Notices, Deposits, Vouchers
  <2>2. Rollback(p) \/ Goes(p, t)
    BY <1>4 DEF SeeNotice
  <2>3. Rollback(p) \/ holder' = holder \/ \E r \in Locks \cup {None} : Takes(p, r)
    BY <1>4, <1>1 DEF SeeNotice, Locks, Tx
  <2>. HIDE DEF t
  <2>. QED
    BY <2>1, <2>2, <2>3, GoesTypes, RollbackTypes
<1>5. CASE PayNotice(p)
  <2>. DEFINE t1 == [tx[p] EXCEPT !.at = "done", !.n = "PAID"]
  <2>. DEFINE t2 == [tx[p] EXCEPT !.at = "done"]
  <2>1. /\ t1 \in Tx /\ t1.kind = tx[p].kind /\ t1.row = tx[p].row
        /\ t2 \in Tx /\ t2.kind = tx[p].kind /\ t2.row = tx[p].row
    BY <1>1 DEF Tx, Notices, Deposits, Vouchers
  <2>2. Rollback(p) \/ Goes(p, t1) \/ Goes(p, t2)
    BY <1>5 DEF PayNotice
  <2>3. Rollback(p) \/ holder' = holder \/ \E r \in Locks \cup {None} : Takes(p, r)
    BY <1>5, <1>1 DEF PayNotice, Locks, Tx
  <2>. HIDE DEF t1, t2
  <2>. QED
    BY <2>1, <2>2, <2>3, GoesTypes, RollbackTypes
<1>6. CASE LockDeposit(p)
  <2>. DEFINE t == [tx[p] EXCEPT !.at = IF deposit = "NONE" THEN "bare" ELSE "locked"]
  <2>1. /\ t \in Tx /\ t.kind = tx[p].kind /\ t.row = tx[p].row
    BY <1>1 DEF Tx, Notices, Deposits, Vouchers
  <2>2. Rollback(p) \/ Goes(p, t)
    BY <1>6 DEF LockDeposit
  <2>3. Rollback(p) \/ holder' = holder \/ \E r \in Locks \cup {None} : Takes(p, r)
    BY <1>6, <1>1 DEF LockDeposit, Locks, Tx
  <2>. HIDE DEF t
  <2>. QED
    BY <2>1, <2>2, <2>3, GoesTypes, RollbackTypes
<1>7. CASE CancelNotice(p)
  <2>. DEFINE t == [tx[p] EXCEPT !.at = "done", !.n = "CANCELLED",
                         !.add = IF tx[p].at = "locked" /\ deposit = "PENDING" THEN {"reversal"} ELSE {}]
  <2>1. /\ t \in Tx /\ t.kind = tx[p].kind /\ t.row = tx[p].row
    BY <1>1 DEF Tx, Notices, Deposits, Vouchers
  <2>2. Rollback(p) \/ Goes(p, t)
    BY <1>7 DEF CancelNotice
  <2>3. Rollback(p) \/ holder' = holder \/ \E r \in Locks \cup {None} : Takes(p, r)
    BY <1>7, <1>1 DEF CancelNotice, Locks, Tx
  <2>. HIDE DEF t
  <2>. QED
    BY <2>1, <2>2, <2>3, GoesTypes, RollbackTypes
<1>8. CASE LockRow(p)
  <2>. DEFINE t == [tx[p] EXCEPT !.at = "row"]
  <2>1. /\ t \in Tx /\ t.kind = tx[p].kind /\ t.row = tx[p].row
    BY <1>1 DEF Tx, Notices, Deposits, Vouchers
  <2>2. Rollback(p) \/ Goes(p, t)
    BY <1>8 DEF LockRow
  <2>3. Rollback(p) \/ holder' = holder \/ \E r \in Locks \cup {None} : Takes(p, r)
    BY <1>8, <1>1 DEF LockRow, Locks, Tx
  <2>. HIDE DEF t
  <2>. QED
    BY <2>1, <2>2, <2>3, GoesTypes, RollbackTypes
<1>9. CASE LockNotice(p)
  <2>. DEFINE t == [tx[p] EXCEPT !.at = "notice"]
  <2>1. /\ t \in Tx /\ t.kind = tx[p].kind /\ t.row = tx[p].row
    BY <1>1 DEF Tx, Notices, Deposits, Vouchers
  <2>2. Rollback(p) \/ Goes(p, t)
    BY <1>9 DEF LockNotice
  <2>3. Rollback(p) \/ holder' = holder \/ \E r \in Locks \cup {None} : Takes(p, r)
    BY <1>9, <1>1 DEF LockNotice, Locks, Tx
  <2>. HIDE DEF t
  <2>. QED
    BY <2>1, <2>2, <2>3, GoesTypes, RollbackTypes
<1>10. CASE SeeDeposit(p)
  <2>. DEFINE t == [tx[p] EXCEPT !.at = "seen", !.add = {tx[p].row}]
  <2>1. /\ t \in Tx /\ t.kind = tx[p].kind /\ t.row = tx[p].row
    BY <1>1, <1>10 DEF Tx, Notices, Deposits, Vouchers, Stands, WithRow, Typed, SeeDeposit
  <2>2. Rollback(p) \/ Goes(p, t)
    BY <1>10 DEF SeeDeposit
  <2>3. Rollback(p) \/ holder' = holder \/ \E r \in Locks \cup {None} : Takes(p, r)
    BY <1>10, <1>1 DEF SeeDeposit, Locks, Tx
  <2>. HIDE DEF t
  <2>. QED
    BY <2>1, <2>2, <2>3, GoesTypes, RollbackTypes
<1>11. CASE WriteNotice(p)
  <2>. DEFINE t == [tx[p] EXCEPT !.at = "written", !.n = IF notice = "OPEN" THEN "PAID" ELSE None]
  <2>1. /\ t \in Tx /\ t.kind = tx[p].kind /\ t.row = tx[p].row
    BY <1>1 DEF Tx, Notices, Deposits, Vouchers
  <2>2. Rollback(p) \/ Goes(p, t)
    BY <1>11 DEF WriteNotice
  <2>3. Rollback(p) \/ holder' = holder \/ \E r \in Locks \cup {None} : Takes(p, r)
    BY <1>11, <1>1 DEF WriteNotice, Locks, Tx
  <2>. HIDE DEF t
  <2>. QED
    BY <2>1, <2>2, <2>3, GoesTypes, RollbackTypes
<1>12. CASE PayDeposit(p)
  <2>. DEFINE t1 == [tx[p] EXCEPT !.at = "done", !.d = "PAID"]
  <2>. DEFINE t2 == [tx[p] EXCEPT !.at = "done"]
  <2>1. /\ t1 \in Tx /\ t1.kind = tx[p].kind /\ t1.row = tx[p].row
        /\ t2 \in Tx /\ t2.kind = tx[p].kind /\ t2.row = tx[p].row
    BY <1>1 DEF Tx, Notices, Deposits, Vouchers
  <2>2. Rollback(p) \/ Goes(p, t1) \/ Goes(p, t2)
    BY <1>12 DEF PayDeposit
  <2>3. Rollback(p) \/ holder' = holder \/ \E r \in Locks \cup {None} : Takes(p, r)
    BY <1>12, <1>1 DEF PayDeposit, Locks, Tx
  <2>. HIDE DEF t1, t2
  <2>. QED
    BY <2>1, <2>2, <2>3, GoesTypes, RollbackTypes
<1>13. CASE ReadAllocations(p)
  <2>. DEFINE b == notice = "PAID" /\ book \cap Row \subseteq {tx[p].row}
              D == {tx[p].row} \cap book
              t == [tx[p] EXCEPT !.at = "read", !.del = D, !.reopen = b]
  <2>1. Goes(p, t) /\ Takes(p, tx[p].row)
    BY <1>13 DEF ReadAllocations
  <2>2. b \in BOOLEAN
    OBVIOUS
  <2>3. D \in SUBSET Vouchers
    BY DEF Typed, TypeOK
  <2>. HIDE DEF b, D
  <2>4. t \in Tx /\ t.kind = tx[p].kind /\ t.row = tx[p].row
    BY <1>1, <2>2, <2>3 DEF Tx
  <2>. QED
    BY <2>1, <2>4, GoesTypes
<1>14. CASE ReopenNotice(p)
  <2>. DEFINE t == [tx[p] EXCEPT !.at = "reopened", !.n = IF tx[p].reopen THEN "OPEN" ELSE None]
  <2>1. /\ t \in Tx /\ t.kind = tx[p].kind /\ t.row = tx[p].row
    BY <1>1 DEF Tx, Notices, Deposits, Vouchers
  <2>2. Rollback(p) \/ Goes(p, t)
    BY <1>14 DEF ReopenNotice
  <2>3. Rollback(p) \/ holder' = holder \/ \E r \in Locks \cup {None} : Takes(p, r)
    BY <1>14, <1>1 DEF ReopenNotice, Locks, Tx
  <2>. HIDE DEF t
  <2>. QED
    BY <2>1, <2>2, <2>3, GoesTypes, RollbackTypes
<1>15. CASE TakeBack(p)
  <2>. DEFINE t1 == [tx[p] EXCEPT !.at = "done"]
  <2>. DEFINE t2 == [tx[p] EXCEPT !.at = "done", !.d = "PENDING"]
  <2>1. /\ t1 \in Tx /\ t1.kind = tx[p].kind /\ t1.row = tx[p].row
        /\ t2 \in Tx /\ t2.kind = tx[p].kind /\ t2.row = tx[p].row
    BY <1>1 DEF Tx, Notices, Deposits, Vouchers
  <2>2. Rollback(p) \/ Goes(p, t1) \/ Goes(p, t2)
    BY <1>15 DEF TakeBack
  <2>3. Rollback(p) \/ holder' = holder \/ \E r \in Locks \cup {None} : Takes(p, r)
    BY <1>15, <1>1 DEF TakeBack, Locks, Tx
  <2>. HIDE DEF t1, t2
  <2>. QED
    BY <2>1, <2>2, <2>3, GoesTypes, RollbackTypes
<1>16. CASE Refund(p)
  <2>. DEFINE t == [tx[p] EXCEPT !.at = "done", !.d = "SETTLED", !.add = {"refund"}]
  <2>1. /\ t \in Tx /\ t.kind = tx[p].kind /\ t.row = tx[p].row
    BY <1>1 DEF Tx, Notices, Deposits, Vouchers
  <2>2. Rollback(p) \/ Goes(p, t)
    BY <1>16 DEF Refund
  <2>3. Rollback(p) \/ holder' = holder \/ \E r \in Locks \cup {None} : Takes(p, r)
    BY <1>16, <1>1 DEF Refund, Locks, Tx
  <2>. HIDE DEF t
  <2>. QED
    BY <2>1, <2>2, <2>3, GoesTypes, RollbackTypes
<1>17. CASE Flag(p)
  <2>. DEFINE t == [tx[p] EXCEPT !.at = "done", !.d = "REFUND_PENDING"]
  <2>1. /\ t \in Tx /\ t.kind = tx[p].kind /\ t.row = tx[p].row
    BY <1>1 DEF Tx, Notices, Deposits, Vouchers
  <2>2. Rollback(p) \/ Goes(p, t)
    BY <1>17 DEF Flag
  <2>3. Rollback(p) \/ holder' = holder \/ \E r \in Locks \cup {None} : Takes(p, r)
    BY <1>17, <1>1 DEF Flag, Locks, Tx
  <2>. HIDE DEF t
  <2>. QED
    BY <2>1, <2>2, <2>3, GoesTypes, RollbackTypes
<1>18. CASE Commit(p)
  BY <1>18, CommitTypes
<1>19. CASE Fails(p)
  BY <1>19, RollbackTypes DEF Fails
<1>. QED
  BY <1>2, <1>3, <1>4, <1>5, <1>6, <1>7, <1>8, <1>9, <1>10, <1>11, <1>12, <1>13, <1>14, <1>15, <1>16, <1>17, <1>18, <1>19 DEF Step

LEMMA NextTypes ==
    ASSUME Typed, [Next]_vars
    PROVE  Typed'
<1>1. ASSUME NEW p \in Proc, Ask(p)
      PROVE  Typed'
  BY <1>1, BeginTypes DEF Ask, AskCreate, AskPay, AskCancel, AskRefund, AskFlag, AskMatch, AskUnmatch, Kinds
<1>2. CASE Sweep
  BY <1>2 DEF Sweep, Typed, TypeOK, WithRow, Deposits
<1>3. CASE UNCHANGED vars
  BY <1>3 DEF vars, Typed, TypeOK, WithRow
<1>. QED
  BY <1>1, <1>2, <1>3, StepTypes DEF Next

LEMMA TypesHold == Spec => []Typed
<1>1. Init => Typed
  BY IdleTyped DEF Init, Typed, TypeOK, WithRow, Tx, Notices, Deposits, Locks
<1>. QED
  BY <1>1, NextTypes, PTL DEF Spec

\* The schema's statuses and what a request keeps between two statements.
THEOREM DepositTypes == Spec => []TypeOK
  BY TypesHold, PTL DEF Typed

-----------------------------------------------------------------------------
(* The locks keep what was seen. *)

\* A statement of p changes p's record and may take a lock.
LEMMA GoesInv ==
    ASSUME Typed, Inv, NEW p \in Proc, NEW t \in Tx, Goes(p, t),
           NEW r \in Locks, Takes(p, r) \/ holder' = holder,
           Shape(t), Knows(t), Held(p, t)'
    PROVE  Inv'
<1>1. tx' = [tx EXCEPT ![p] = t] /\ notice' = notice /\ deposit' = deposit /\ book' = book /\ over' = over
  BY DEF Goes, Stored
<1>2. Booked'
  BY <1>1 DEF Inv, Booked, KeptIsReceived, Received
<1>3. Shape(tx[p])' /\ Held(p, tx[p])' /\ Knows(tx[p])'
  BY <1>1 DEF Typed, TypeOK, Knows, Received, Held, Shape, At, Wrote, Reopens
<1>4. ASSUME NEW q \in Proc \ {p}
      PROVE  Shape(tx[q])' /\ Held(q, tx[q])' /\ Knows(tx[q])'
  <2>1. tx'[q] = tx[q]
    BY <1>1 DEF Typed, TypeOK
  <2>2. \A l \in Locks : holder[l] = q => holder'[l] = q
    BY NameAssumption DEF Takes, Free, Typed, TypeOK
  <2>3. Shape(tx[q])' /\ Knows(tx[q])'
    BY <1>1, <2>1 DEF Inv, Knows, Received, Shape, At, Wrote, Reopens
  <2>4. Held(q, tx[q])'
    BY <2>1, <2>2 DEF Inv, Held, Locks, Typed, WithRow
  <2>. QED
    BY <2>3, <2>4
<1>. QED
  BY <1>2, <1>3, <1>4 DEF Inv

LEMMA RollbackInv ==
    ASSUME Typed, Inv, NEW p \in Proc, Rollback(p)
    PROVE  Inv'
<1>1. tx' = [tx EXCEPT ![p] = Idle] /\ notice' = notice /\ deposit' = deposit /\ book' = book /\ over' = over
      /\ holder' = Released(p)
  BY DEF Rollback, Goes, Stored
<1>2. Booked'
  BY <1>1 DEF Inv, Booked, KeptIsReceived, Received
<1>3. Shape(tx[p])' /\ Held(p, tx[p])' /\ Knows(tx[p])'
  BY <1>1 DEF Typed, TypeOK, Knows, Received, Held, Shape, At, Idle
<1>4. ASSUME NEW q \in Proc \ {p}
      PROVE  Shape(tx[q])' /\ Held(q, tx[q])' /\ Knows(tx[q])'
  <2>1. tx'[q] = tx[q]
    BY <1>1 DEF Typed, TypeOK
  <2>2. \A l \in Locks : holder[l] = q => holder'[l] = q
    BY <1>1 DEF Released, Typed, TypeOK
  <2>3. Shape(tx[q])' /\ Knows(tx[q])'
    BY <1>1, <2>1 DEF Inv, Knows, Received, Shape, At, Wrote, Reopens
  <2>4. Held(q, tx[q])'
    BY <2>1, <2>2 DEF Inv, Held, Locks, Typed, WithRow
  <2>. QED
    BY <2>3, <2>4
<1>. QED
  BY <1>2, <1>3, <1>4 DEF Inv

LEMMA BeginInv ==
    ASSUME Typed, Inv, NEW p \in Proc, NEW kind \in Kinds \ {"none"}, NEW row \in Row \cup {None},
           Begin(p, kind, row), kind = "flag" => deposit # "NONE"
    PROVE  Inv'
<1>. DEFINE t == [Idle EXCEPT !.kind = kind, !.at = "begun", !.row = row]
<1>1. t \in Tx
  BY DEF Idle, Tx, Kinds, Vouchers
<1>2. Goes(p, t) /\ holder' = holder /\ "deposit" \in Locks
  BY DEF Begin, Goes, Stored, Locks
<1>3. Shape(t) /\ Knows(t) /\ Held(p, t)'
  BY DEF Shape, Wrote, Knows, At, Held, Idle
<1>. HIDE DEF t
<1>. QED
  BY <1>1, <1>2, <1>3, GoesInv

\* What a request knows when it is its turn.
KnownOf(p) == Shape(tx[p]) /\ Knows(tx[p]) /\ Held(p, tx[p]) /\ Booked /\ tx[p] \in Tx

LEMMA Known ==
    ASSUME Typed, Inv, NEW p \in Proc
    PROVE  KnownOf(p)
  BY DEF KnownOf, Inv, Typed, TypeOK, Tx

LEMMA CreateInv ==
    ASSUME Typed, Inv, NEW p \in Proc, Create(p)
    PROVE  Inv'
<1>1. KnownOf(p) /\ (tx[p].kind \in {"match", "unmatch"} => tx[p].row \in Row)
  BY Known DEF Typed, WithRow
<1>2. Wrote(tx[p], None, None, {}, {})
  BY <1>1 DEF Create, KnownOf, Shape, Stands, Idle, At, Wrote
<1>3. ASSUME Goes(p, [tx[p] EXCEPT !.at = "done", !.d = "PENDING", !.add = {"accrual"}]), ~Rollback(p)
     PROVE  Inv'
  <2>1. PICK t : t = [tx[p] EXCEPT !.at = "done", !.d = "PENDING", !.add = {"accrual"}]
    OBVIOUS
  <2>2. t \in Tx
    BY <1>1, <2>1 DEF Create, KnownOf, Stands, Tx, Vouchers, Notices, Deposits
  <2>3. Shape(t)
    BY <1>1, <1>2, <1>3, <2>1 DEF Create, KnownOf, Stands, Wrote, At, Knows, Held, Booked, KeptIsReceived, Received, Kept, Reopens, Tx, Shape
  <2>4. Knows(t)
    BY <1>1, <1>2, <1>3, <2>1 DEF Create, KnownOf, Stands, Wrote, At, Knows, Held, Booked, KeptIsReceived, Received, Kept, Tx
  <2>5. Held(p, t)'
    BY <1>1, <1>2, <1>3, <2>1, RowAssumption, NameAssumption DEF Create, KnownOf, Stands, Wrote, At, Knows, Held, Booked, KeptIsReceived, Received, Kept, Tx, Takes, Typed, TypeOK, Locks
  <2>6. \E r \in Locks : Takes(p, r) \/ holder' = holder
    BY <1>1, <1>3 DEF Create, Stands, Locks
  <2>. QED
    BY <1>3, <2>1, <2>2, <2>3, <2>4, <2>5, <2>6, GoesInv
<1>. QED
  BY <1>3, RollbackInv DEF Create

LEMMA ClaimInv ==
    ASSUME Typed, Inv, NEW p \in Proc, Claim(p)
    PROVE  Inv'
<1>1. KnownOf(p) /\ (tx[p].kind \in {"match", "unmatch"} => tx[p].row \in Row)
  BY Known DEF Typed, WithRow
<1>2. Wrote(tx[p], None, None, {}, {})
  BY <1>1 DEF Claim, KnownOf, Shape, Stands, Idle, At, Wrote
<1>3. ASSUME Goes(p, [tx[p] EXCEPT !.at = "claimed", !.d = "PAID"]), ~Rollback(p)
     PROVE  Inv'
  <2>1. PICK t : t = [tx[p] EXCEPT !.at = "claimed", !.d = "PAID"]
    OBVIOUS
  <2>2. t \in Tx
    BY <1>1, <2>1 DEF Claim, KnownOf, Stands, Tx, Vouchers, Notices, Deposits
  <2>3. Shape(t)
    BY <1>1, <1>2, <1>3, <2>1 DEF Claim, KnownOf, Stands, Wrote, At, Knows, Held, Booked, KeptIsReceived, Received, Kept, Reopens, Tx, Shape
  <2>4. Knows(t)
    BY <1>1, <1>2, <1>3, <2>1 DEF Claim, KnownOf, Stands, Wrote, At, Knows, Held, Booked, KeptIsReceived, Received, Kept, Tx
  <2>5. Held(p, t)'
    BY <1>1, <1>2, <1>3, <2>1, RowAssumption, NameAssumption DEF Claim, KnownOf, Stands, Wrote, At, Knows, Held, Booked, KeptIsReceived, Received, Kept, Tx, Takes, Typed, TypeOK, Locks
  <2>6. \E r \in Locks : Takes(p, r) \/ holder' = holder
    BY <1>1, <1>3 DEF Claim, Stands, Locks
  <2>. QED
    BY <1>3, <2>1, <2>2, <2>3, <2>4, <2>5, <2>6, GoesInv
<1>. QED
  BY <1>3, RollbackInv DEF Claim

LEMMA SeeNoticeInv ==
    ASSUME Typed, Inv, NEW p \in Proc, SeeNotice(p)
    PROVE  Inv'
<1>1. KnownOf(p) /\ (tx[p].kind \in {"match", "unmatch"} => tx[p].row \in Row)
  BY Known DEF Typed, WithRow
<1>2. Wrote(tx[p], None, "PAID", {}, {})
  BY <1>1 DEF SeeNotice, KnownOf, Shape, Stands, Idle, At, Wrote
<1>3. ASSUME Goes(p, [tx[p] EXCEPT !.at = "booked", !.add = {"manual"}]), ~Rollback(p)
     PROVE  Inv'
  <2>1. PICK t : t = [tx[p] EXCEPT !.at = "booked", !.add = {"manual"}]
    OBVIOUS
  <2>2. t \in Tx
    BY <1>1, <2>1 DEF SeeNotice, KnownOf, Stands, Tx, Vouchers, Notices, Deposits
  <2>3. Shape(t)
    BY <1>1, <1>2, <1>3, <2>1 DEF SeeNotice, KnownOf, Stands, Wrote, At, Knows, Held, Booked, KeptIsReceived, Received, Kept, Reopens, Tx, Shape
  <2>4. Knows(t)
    BY <1>1, <1>2, <1>3, <2>1 DEF SeeNotice, KnownOf, Stands, Wrote, At, Knows, Held, Booked, KeptIsReceived, Received, Kept, Tx
  <2>5. Held(p, t)'
    BY <1>1, <1>2, <1>3, <2>1, RowAssumption, NameAssumption DEF SeeNotice, KnownOf, Stands, Wrote, At, Knows, Held, Booked, KeptIsReceived, Received, Kept, Tx, Takes, Typed, TypeOK, Locks
  <2>6. \E r \in Locks : Takes(p, r) \/ holder' = holder
    BY <1>1, <1>3 DEF SeeNotice, Stands, Locks
  <2>. QED
    BY <1>3, <2>1, <2>2, <2>3, <2>4, <2>5, <2>6, GoesInv
<1>. QED
  BY <1>3, RollbackInv DEF SeeNotice

LEMMA PayNoticeInv ==
    ASSUME Typed, Inv, NEW p \in Proc, PayNotice(p)
    PROVE  Inv'
<1>1. KnownOf(p) /\ (tx[p].kind \in {"match", "unmatch"} => tx[p].row \in Row)
  BY Known DEF Typed, WithRow
<1>2. Wrote(tx[p], None, "PAID", {"manual"}, {})
  BY <1>1 DEF PayNotice, KnownOf, Shape, Stands, Idle, At, Wrote
<1>3. ASSUME Goes(p, [tx[p] EXCEPT !.at = "done", !.n = "PAID"]), notice = "OPEN", Takes(p, "notice")
     PROVE  Inv'
  <2>1. PICK t : t = [tx[p] EXCEPT !.at = "done", !.n = "PAID"]
    OBVIOUS
  <2>2. t \in Tx
    BY <1>1, <2>1 DEF PayNotice, KnownOf, Stands, Tx, Vouchers, Notices, Deposits
  <2>3. Shape(t)
    BY <1>1, <1>2, <1>3, <2>1 DEF PayNotice, KnownOf, Stands, Wrote, At, Knows, Held, Booked, KeptIsReceived, Received, Kept, Reopens, Tx, Shape
  <2>4. Knows(t)
    BY <1>1, <1>2, <1>3, <2>1 DEF PayNotice, KnownOf, Stands, Wrote, At, Knows, Held, Booked, KeptIsReceived, Received, Kept, Tx
  <2>5. Held(p, t)'
    BY <1>1, <1>2, <1>3, <2>1, RowAssumption, NameAssumption DEF PayNotice, KnownOf, Stands, Wrote, At, Knows, Held, Booked, KeptIsReceived, Received, Kept, Tx, Takes, Typed, TypeOK, Locks
  <2>6. \E r \in Locks : Takes(p, r) \/ holder' = holder
    BY <1>1, <1>3 DEF PayNotice, Stands, Locks
  <2>. QED
    BY <1>3, <2>1, <2>2, <2>3, <2>4, <2>5, <2>6, GoesInv
<1>4. ~(notice = "PAID")
  BY <1>1 DEF PayNotice, KnownOf, Stands, Knows, Booked, KeptIsReceived, Kept
<1>. QED
  BY <1>3, <1>4, RollbackInv DEF PayNotice

LEMMA LockDepositInv ==
    ASSUME Typed, Inv, NEW p \in Proc, LockDeposit(p)
    PROVE  Inv'
<1>1. KnownOf(p) /\ (tx[p].kind \in {"match", "unmatch"} => tx[p].row \in Row)
  BY Known DEF Typed, WithRow
<1>2. Wrote(tx[p], None, None, {}, {})
  BY <1>1 DEF LockDeposit, KnownOf, Shape, Stands, Idle, At, Wrote
<1>3. ASSUME Goes(p, [tx[p] EXCEPT !.at = IF deposit = "NONE" THEN "bare" ELSE "locked"]), ~Rollback(p)
     PROVE  Inv'
  <2>1. PICK t : t = [tx[p] EXCEPT !.at = IF deposit = "NONE" THEN "bare" ELSE "locked"]
    OBVIOUS
  <2>2. t \in Tx
    BY <1>1, <2>1 DEF LockDeposit, KnownOf, Stands, Tx, Vouchers, Notices, Deposits
  <2>3. Shape(t)
    BY <1>1, <1>2, <1>3, <2>1 DEF LockDeposit, KnownOf, Stands, Wrote, At, Knows, Held, Booked, KeptIsReceived, Received, Kept, Reopens, Tx, Shape
  <2>4. Knows(t)
    BY <1>1, <1>2, <1>3, <2>1 DEF LockDeposit, KnownOf, Stands, Wrote, At, Knows, Held, Booked, KeptIsReceived, Received, Kept, Tx
  <2>5. Held(p, t)'
    BY <1>1, <1>2, <1>3, <2>1, RowAssumption, NameAssumption DEF LockDeposit, KnownOf, Stands, Wrote, At, Knows, Held, Booked, KeptIsReceived, Received, Kept, Tx, Takes, Typed, TypeOK, Locks
  <2>6. \E r \in Locks : Takes(p, r) \/ holder' = holder
    BY <1>1, <1>3 DEF LockDeposit, Stands, Locks
  <2>. QED
    BY <1>3, <2>1, <2>2, <2>3, <2>4, <2>5, <2>6, GoesInv
<1>. QED
  BY <1>3, RollbackInv DEF LockDeposit

LEMMA CancelNoticeInv ==
    ASSUME Typed, Inv, NEW p \in Proc, CancelNotice(p)
    PROVE  Inv'
<1>1. KnownOf(p) /\ (tx[p].kind \in {"match", "unmatch"} => tx[p].row \in Row)
  BY Known DEF Typed, WithRow
<1>2. Wrote(tx[p], None, None, {}, {})
  BY <1>1 DEF CancelNotice, KnownOf, Shape, Stands, Idle, At, Wrote
<1>3. ASSUME Goes(p, [tx[p] EXCEPT !.at = "done", !.n = "CANCELLED",
                       !.add = IF tx[p].at = "locked" /\ deposit = "PENDING" THEN {"reversal"} ELSE {}]), ~Rollback(p)
     PROVE  Inv'
  <2>1. PICK t : t = [tx[p] EXCEPT !.at = "done", !.n = "CANCELLED",
                       !.add = IF tx[p].at = "locked" /\ deposit = "PENDING" THEN {"reversal"} ELSE {}]
    OBVIOUS
  <2>2. t \in Tx
    BY <1>1, <2>1 DEF CancelNotice, KnownOf, Stands, Tx, Vouchers, Notices, Deposits
  <2>3. Shape(t)
    BY <1>1, <1>2, <1>3, <2>1 DEF CancelNotice, KnownOf, Stands, Wrote, At, Knows, Held, Booked, KeptIsReceived, Received, Kept, Reopens, Tx, Shape
  <2>4. Knows(t)
    BY <1>1, <1>2, <1>3, <2>1 DEF CancelNotice, KnownOf, Stands, Wrote, At, Knows, Held, Booked, KeptIsReceived, Received, Kept, Tx
  <2>5. Held(p, t)'
    BY <1>1, <1>2, <1>3, <2>1, RowAssumption, NameAssumption DEF CancelNotice, KnownOf, Stands, Wrote, At, Knows, Held, Booked, KeptIsReceived, Received, Kept, Tx, Takes, Typed, TypeOK, Locks
  <2>6. \E r \in Locks : Takes(p, r) \/ holder' = holder
    BY <1>1, <1>3 DEF CancelNotice, Stands, Locks
  <2>. QED
    BY <1>3, <2>1, <2>2, <2>3, <2>4, <2>5, <2>6, GoesInv
<1>. QED
  BY <1>3, RollbackInv DEF CancelNotice

LEMMA LockRowInv ==
    ASSUME Typed, Inv, NEW p \in Proc, LockRow(p)
    PROVE  Inv'
<1>1. KnownOf(p) /\ (tx[p].kind \in {"match", "unmatch"} => tx[p].row \in Row)
  BY Known DEF Typed, WithRow
<1>2. Wrote(tx[p], None, None, {}, {})
  BY <1>1 DEF LockRow, KnownOf, Shape, Stands, Idle, At, Wrote
<1>3. ASSUME Goes(p, [tx[p] EXCEPT !.at = "row"]), ~Rollback(p)
     PROVE  Inv'
  <2>1. PICK t : t = [tx[p] EXCEPT !.at = "row"]
    OBVIOUS
  <2>2. t \in Tx
    BY <1>1, <2>1 DEF LockRow, KnownOf, Stands, Tx, Vouchers, Notices, Deposits
  <2>3. Shape(t)
    BY <1>1, <1>2, <1>3, <2>1 DEF LockRow, KnownOf, Stands, Wrote, At, Knows, Held, Booked, KeptIsReceived, Received, Kept, Reopens, Tx, Shape
  <2>4. Knows(t)
    BY <1>1, <1>2, <1>3, <2>1 DEF LockRow, KnownOf, Stands, Wrote, At, Knows, Held, Booked, KeptIsReceived, Received, Kept, Tx
  <2>5. Held(p, t)'
    BY <1>1, <1>2, <1>3, <2>1, RowAssumption, NameAssumption DEF LockRow, KnownOf, Stands, Wrote, At, Knows, Held, Booked, KeptIsReceived, Received, Kept, Tx, Takes, Typed, TypeOK, Locks
  <2>6. \E r \in Locks : Takes(p, r) \/ holder' = holder
    BY <1>1, <1>3 DEF LockRow, Stands, Locks
  <2>. QED
    BY <1>3, <2>1, <2>2, <2>3, <2>4, <2>5, <2>6, GoesInv
<1>. QED
  BY <1>3, RollbackInv DEF LockRow

LEMMA LockNoticeInv ==
    ASSUME Typed, Inv, NEW p \in Proc, LockNotice(p)
    PROVE  Inv'
<1>1. KnownOf(p) /\ (tx[p].kind \in {"match", "unmatch"} => tx[p].row \in Row)
  BY Known DEF Typed, WithRow
<1>2. Wrote(tx[p], None, None, {}, {})
  BY <1>1 DEF LockNotice, KnownOf, Shape, Stands, Idle, At, Wrote
<1>3. ASSUME Goes(p, [tx[p] EXCEPT !.at = "notice"]), ~Rollback(p)
     PROVE  Inv'
  <2>1. PICK t : t = [tx[p] EXCEPT !.at = "notice"]
    OBVIOUS
  <2>2. t \in Tx
    BY <1>1, <2>1 DEF LockNotice, KnownOf, Stands, Tx, Vouchers, Notices, Deposits
  <2>3. Shape(t)
    BY <1>1, <1>2, <1>3, <2>1 DEF LockNotice, KnownOf, Stands, Wrote, At, Knows, Held, Booked, KeptIsReceived, Received, Kept, Reopens, Tx, Shape
  <2>4. Knows(t)
    BY <1>1, <1>2, <1>3, <2>1 DEF LockNotice, KnownOf, Stands, Wrote, At, Knows, Held, Booked, KeptIsReceived, Received, Kept, Tx
  <2>5. Held(p, t)'
    BY <1>1, <1>2, <1>3, <2>1, RowAssumption, NameAssumption DEF LockNotice, KnownOf, Stands, Wrote, At, Knows, Held, Booked, KeptIsReceived, Received, Kept, Tx, Takes, Typed, TypeOK, Locks
  <2>6. \E r \in Locks : Takes(p, r) \/ holder' = holder
    BY <1>1, <1>3 DEF LockNotice, Stands, Locks
  <2>. QED
    BY <1>3, <2>1, <2>2, <2>3, <2>4, <2>5, <2>6, GoesInv
<1>. QED
  BY <1>3, RollbackInv DEF LockNotice

LEMMA SeeDepositInv ==
    ASSUME Typed, Inv, NEW p \in Proc, SeeDeposit(p)
    PROVE  Inv'
<1>1. KnownOf(p) /\ (tx[p].kind \in {"match", "unmatch"} => tx[p].row \in Row)
  BY Known DEF Typed, WithRow
<1>2. Wrote(tx[p], None, None, {}, {})
  BY <1>1 DEF SeeDeposit, KnownOf, Shape, Stands, Idle, At, Wrote
<1>3. ASSUME Goes(p, [tx[p] EXCEPT !.at = "seen", !.add = {tx[p].row}]), ~Rollback(p)
     PROVE  Inv'
  <2>1. PICK t : t = [tx[p] EXCEPT !.at = "seen", !.add = {tx[p].row}]
    OBVIOUS
  <2>2. t \in Tx
    BY <1>1, <2>1 DEF SeeDeposit, KnownOf, Stands, Tx, Vouchers, Notices, Deposits
  <2>3. Shape(t)
    BY <1>1, <1>2, <1>3, <2>1 DEF SeeDeposit, KnownOf, Stands, Wrote, At, Knows, Held, Booked, KeptIsReceived, Received, Kept, Reopens, Tx, Shape
  <2>4. Knows(t)
    BY <1>1, <1>2, <1>3, <2>1 DEF SeeDeposit, KnownOf, Stands, Wrote, At, Knows, Held, Booked, KeptIsReceived, Received, Kept, Tx
  <2>5. Held(p, t)'
    BY <1>1, <1>2, <1>3, <2>1, RowAssumption, NameAssumption DEF SeeDeposit, KnownOf, Stands, Wrote, At, Knows, Held, Booked, KeptIsReceived, Received, Kept, Tx, Takes, Typed, TypeOK, Locks
  <2>6. \E r \in Locks : Takes(p, r) \/ holder' = holder
    BY <1>1, <1>3 DEF SeeDeposit, Stands, Locks
  <2>. QED
    BY <1>3, <2>1, <2>2, <2>3, <2>4, <2>5, <2>6, GoesInv
<1>. QED
  BY <1>3, RollbackInv DEF SeeDeposit

LEMMA WriteNoticeInv ==
    ASSUME Typed, Inv, NEW p \in Proc, WriteNotice(p)
    PROVE  Inv'
<1>1. KnownOf(p) /\ (tx[p].kind \in {"match", "unmatch"} => tx[p].row \in Row)
  BY Known DEF Typed, WithRow
<1>2. Wrote(tx[p], None, None, {tx[p].row}, {})
  BY <1>1 DEF WriteNotice, KnownOf, Shape, Stands, Idle, At, Wrote
<1>3. ASSUME Goes(p, [tx[p] EXCEPT !.at = "written", !.n = IF notice = "OPEN" THEN "PAID" ELSE None]), ~Rollback(p)
     PROVE  Inv'
  <2>1. PICK t : t = [tx[p] EXCEPT !.at = "written", !.n = IF notice = "OPEN" THEN "PAID" ELSE None]
    OBVIOUS
  <2>2. t \in Tx
    BY <1>1, <2>1 DEF WriteNotice, KnownOf, Stands, Tx, Vouchers, Notices, Deposits
  <2>3. Shape(t)
    BY <1>1, <1>2, <1>3, <2>1 DEF WriteNotice, KnownOf, Stands, Wrote, At, Knows, Held, Booked, KeptIsReceived, Received, Kept, Reopens, Tx, Shape
  <2>4. Knows(t)
    BY <1>1, <1>2, <1>3, <2>1 DEF WriteNotice, KnownOf, Stands, Wrote, At, Knows, Held, Booked, KeptIsReceived, Received, Kept, Tx
  <2>5. Held(p, t)'
    BY <1>1, <1>2, <1>3, <2>1, RowAssumption, NameAssumption DEF WriteNotice, KnownOf, Stands, Wrote, At, Knows, Held, Booked, KeptIsReceived, Received, Kept, Tx, Takes, Typed, TypeOK, Locks
  <2>6. \E r \in Locks : Takes(p, r) \/ holder' = holder
    BY <1>1, <1>3 DEF WriteNotice, Stands, Locks
  <2>. QED
    BY <1>3, <2>1, <2>2, <2>3, <2>4, <2>5, <2>6, GoesInv
<1>. QED
  BY <1>3, RollbackInv DEF WriteNotice

LEMMA PayDepositInv ==
    ASSUME Typed, Inv, NEW p \in Proc, PayDeposit(p)
    PROVE  Inv'
<1>1. KnownOf(p) /\ (tx[p].kind \in {"match", "unmatch"} => tx[p].row \in Row)
  BY Known DEF Typed, WithRow
<1>2. Wrote(tx[p], "PAID", None, {tx[p].row}, {})
  BY <1>1 DEF PayDeposit, KnownOf, Shape, Stands, Idle, At, Wrote
<1>3. ASSUME Goes(p, [tx[p] EXCEPT !.at = "done", !.d = "PAID"]), deposit = "PENDING", Takes(p, "deposit")
     PROVE  Inv'
  <2>1. PICK t : t = [tx[p] EXCEPT !.at = "done", !.d = "PAID"]
    OBVIOUS
  <2>2. t \in Tx
    BY <1>1, <2>1 DEF PayDeposit, KnownOf, Stands, Tx, Vouchers, Notices, Deposits
  <2>3. Shape(t)
    BY <1>1, <1>2, <1>3, <2>1 DEF PayDeposit, KnownOf, Stands, Wrote, At, Knows, Held, Booked, KeptIsReceived, Received, Kept, Reopens, Tx, Shape
  <2>4. Knows(t)
    BY <1>1, <1>2, <1>3, <2>1 DEF PayDeposit, KnownOf, Stands, Wrote, At, Knows, Held, Booked, KeptIsReceived, Received, Kept, Tx
  <2>5. Held(p, t)'
    BY <1>1, <1>2, <1>3, <2>1, RowAssumption, NameAssumption DEF PayDeposit, KnownOf, Stands, Wrote, At, Knows, Held, Booked, KeptIsReceived, Received, Kept, Tx, Takes, Typed, TypeOK, Locks
  <2>6. \E r \in Locks : Takes(p, r) \/ holder' = holder
    BY <1>1, <1>3 DEF PayDeposit, Stands, Locks
  <2>. QED
    BY <1>3, <2>1, <2>2, <2>3, <2>4, <2>5, <2>6, GoesInv
<1>4. ASSUME Goes(p, [tx[p] EXCEPT !.at = "done"]), deposit # "PENDING", holder' = holder
      PROVE  Inv'
  <2>1. PICK t : t = [tx[p] EXCEPT !.at = "done"]
    OBVIOUS
  <2>2. t \in Tx /\ At(t, "match", "done") /\ Wrote(t, "PAID", None, {t.row}, {}) /\ t.row = tx[p].row
    BY <1>1, <1>2, <2>1 DEF PayDeposit, KnownOf, Stands, At, Wrote, Tx
  <2>3. Shape(t)
    BY <2>2 DEF Shape
  <2>4. notice = "OPEN" /\ Received = {} /\ deposit \in {"REFUND_PENDING", "SETTLED"}
    BY <1>1, <1>4 DEF PayDeposit, KnownOf, Stands, Knows, Booked, KeptIsReceived, Typed, TypeOK, Deposits
  <2>5. Knows(t)
    BY <2>2, <2>4 DEF Knows, At, Wrote, None
  <2>6. Held(p, t)'
    BY <1>1, <1>2, <1>4, <2>2 DEF PayDeposit, KnownOf, Stands, Held, At, Wrote
  <2>. QED
    BY <1>4, <2>1, <2>2, <2>3, <2>5, <2>6, GoesInv DEF Locks
<1>. QED
  BY <1>3, <1>4, RollbackInv DEF PayDeposit

LEMMA ReadAllocationsInv ==
    ASSUME Typed, Inv, NEW p \in Proc, ReadAllocations(p)
    PROVE  Inv'
<1>1. KnownOf(p) /\ (tx[p].kind \in {"match", "unmatch"} => tx[p].row \in Row)
  BY Known DEF Typed, WithRow
<1>2. Wrote(tx[p], None, None, {}, {})
  BY <1>1 DEF ReadAllocations, KnownOf, Shape, Stands, Idle, At, Wrote
<1>3. ASSUME Goes(p, [tx[p] EXCEPT !.at = "read", !.del = {tx[p].row} \cap book,
                       !.reopen = notice = "PAID" /\ book \cap Row \subseteq {tx[p].row}]), ~Rollback(p)
     PROVE  Inv'
  <2>1. PICK t : t = [tx[p] EXCEPT !.at = "read", !.del = {tx[p].row} \cap book,
                       !.reopen = notice = "PAID" /\ book \cap Row \subseteq {tx[p].row}]
    OBVIOUS
  <2>2. t \in Tx
    BY <1>1, <2>1 DEF ReadAllocations, KnownOf, Stands, Tx, Vouchers, Notices, Deposits
  <2>3. Shape(t)
    BY <1>1, <1>2, <1>3, <2>1 DEF ReadAllocations, KnownOf, Stands, Wrote, At, Knows, Held, Booked, KeptIsReceived, Received, Kept, Reopens, Tx, Shape
  <2>7. t.kind = "unmatch" /\ t.at = "read" /\ t.row = tx[p].row /\ tx[p].row \in Row
    BY <1>1, <2>1 DEF ReadAllocations, KnownOf, Stands, Tx
  <2>8. t.del = {tx[p].row} \cap book
    BY <1>1, <2>1 DEF KnownOf, Tx
  <2>9. t.reopen <=> notice = "PAID" /\ book \cap Row \subseteq {tx[p].row}
    BY <1>1, <2>1 DEF KnownOf, Tx
  <2>10. tx[p].row \in book => t.reopen
    BY <1>1, <2>7, <2>9 DEF KnownOf, Booked, KeptIsReceived, Received
  <2>11. tx[p].row \notin book /\ t.reopen => "manual" \in book
    BY <1>1, <2>9 DEF KnownOf, Booked, KeptIsReceived, Received
  <2>4. Knows(t)
    BY <2>7, <2>8, <2>10, <2>11 DEF Knows, At
  <2>5. Held(p, t)'
    BY <1>1, <1>2, <1>3, <2>1, RowAssumption, NameAssumption DEF ReadAllocations, KnownOf, Stands, Wrote, At, Knows, Held, Booked, KeptIsReceived, Received, Kept, Tx, Takes, Typed, TypeOK, Locks
  <2>6. \E r \in Locks : Takes(p, r) \/ holder' = holder
    BY <1>1, <1>3 DEF ReadAllocations, Stands, Locks
  <2>. QED
    BY <1>3, <2>1, <2>2, <2>3, <2>4, <2>5, <2>6, GoesInv
<1>. QED
  BY <1>3, RollbackInv DEF ReadAllocations

LEMMA ReopenNoticeInv ==
    ASSUME Typed, Inv, NEW p \in Proc, ReopenNotice(p)
    PROVE  Inv'
<1>1. KnownOf(p) /\ (tx[p].kind \in {"match", "unmatch"} => tx[p].row \in Row)
  BY Known DEF Typed, WithRow
<1>2. Wrote(tx[p], None, None, {}, tx[p].del) /\ tx[p].del \in {{}, {tx[p].row}}
  BY <1>1 DEF ReopenNotice, KnownOf, Shape, Stands, Idle, At, Wrote
<1>3. ASSUME Goes(p, [tx[p] EXCEPT !.at = "reopened", !.n = IF tx[p].reopen THEN "OPEN" ELSE None]), ~Rollback(p)
     PROVE  Inv'
  <2>1. PICK t : t = [tx[p] EXCEPT !.at = "reopened", !.n = IF tx[p].reopen THEN "OPEN" ELSE None]
    OBVIOUS
  <2>2. t \in Tx
    BY <1>1, <2>1 DEF ReopenNotice, KnownOf, Stands, Tx, Vouchers, Notices, Deposits
  <2>3. Shape(t)
    BY <1>1, <1>2, <1>3, <2>1 DEF ReopenNotice, KnownOf, Stands, Wrote, At, Knows, Held, Booked, KeptIsReceived, Received, Kept, Reopens, Tx, Shape
  <2>4. Knows(t)
    BY <1>1, <1>2, <1>3, <2>1 DEF ReopenNotice, KnownOf, Stands, Wrote, At, Knows, Held, Booked, KeptIsReceived, Received, Kept, Tx
  <2>5. Held(p, t)'
    BY <1>1, <1>2, <1>3, <2>1, RowAssumption, NameAssumption DEF ReopenNotice, KnownOf, Stands, Wrote, At, Knows, Held, Booked, KeptIsReceived, Received, Kept, Tx, Takes, Typed, TypeOK, Locks
  <2>6. \E r \in Locks : Takes(p, r) \/ holder' = holder
    BY <1>1, <1>3 DEF ReopenNotice, Stands, Locks
  <2>. QED
    BY <1>3, <2>1, <2>2, <2>3, <2>4, <2>5, <2>6, GoesInv
<1>. QED
  BY <1>3, RollbackInv DEF ReopenNotice

LEMMA TakeBackInv ==
    ASSUME Typed, Inv, NEW p \in Proc, TakeBack(p)
    PROVE  Inv'
<1>1. KnownOf(p) /\ (tx[p].kind \in {"match", "unmatch"} => tx[p].row \in Row)
  BY Known DEF Typed, WithRow
<1>2. Wrote(tx[p], Reopens(tx[p]), None, {}, tx[p].del) /\ tx[p].del \in {{}, {tx[p].row}}
  BY <1>1 DEF TakeBack, KnownOf, Shape, Stands, Idle, At, Wrote
<1>3. ASSUME Goes(p, [tx[p] EXCEPT !.at = "done"]), tx[p].del = {}, holder' = holder
     PROVE  Inv'
  <2>1. PICK t : t = [tx[p] EXCEPT !.at = "done"]
    OBVIOUS
  <2>2. t \in Tx
    BY <1>1, <2>1 DEF TakeBack, KnownOf, Stands, Tx, Vouchers, Notices, Deposits
  <2>3. Shape(t)
    BY <1>1, <1>2, <1>3, <2>1 DEF TakeBack, KnownOf, Stands, Wrote, At, Knows, Held, Booked, KeptIsReceived, Received, Kept, Reopens, Tx, Shape
  <2>4. Knows(t)
    BY <1>1, <1>2, <1>3, <2>1 DEF TakeBack, KnownOf, Stands, Wrote, At, Knows, Held, Booked, KeptIsReceived, Received, Kept, Tx
  <2>5. Held(p, t)'
    BY <1>1, <1>2, <1>3, <2>1, RowAssumption, NameAssumption DEF TakeBack, KnownOf, Stands, Wrote, At, Knows, Held, Booked, KeptIsReceived, Received, Kept, Tx, Takes, Typed, TypeOK, Locks
  <2>6. \E r \in Locks : Takes(p, r) \/ holder' = holder
    BY <1>1, <1>3 DEF TakeBack, Stands, Locks
  <2>. QED
    BY <1>3, <2>1, <2>2, <2>3, <2>4, <2>5, <2>6, GoesInv
<1>4. ASSUME Goes(p, [tx[p] EXCEPT !.at = "done", !.d = "PENDING"]), tx[p].del # {}, deposit = "PAID", Takes(p, "deposit")
     PROVE  Inv'
  <2>1. PICK t : t = [tx[p] EXCEPT !.at = "done", !.d = "PENDING"]
    OBVIOUS
  <2>2. t \in Tx
    BY <1>1, <2>1 DEF TakeBack, KnownOf, Stands, Tx, Vouchers, Notices, Deposits
  <2>3. Shape(t)
    BY <1>1, <1>2, <1>4, <2>1 DEF TakeBack, KnownOf, Stands, Wrote, At, Knows, Held, Booked, KeptIsReceived, Received, Kept, Reopens, Tx, Shape
  <2>4. Knows(t)
    BY <1>1, <1>2, <1>4, <2>1 DEF TakeBack, KnownOf, Stands, Wrote, At, Knows, Held, Booked, KeptIsReceived, Received, Kept, Tx
  <2>5. Held(p, t)'
    BY <1>1, <1>2, <1>4, <2>1, RowAssumption, NameAssumption DEF TakeBack, KnownOf, Stands, Wrote, At, Knows, Held, Booked, KeptIsReceived, Received, Kept, Tx, Takes, Typed, TypeOK, Locks
  <2>6. \E r \in Locks : Takes(p, r) \/ holder' = holder
    BY <1>1, <1>4 DEF TakeBack, Stands, Locks
  <2>. QED
    BY <1>4, <2>1, <2>2, <2>3, <2>4, <2>5, <2>6, GoesInv
<1>. QED
  BY <1>3, <1>4, RollbackInv DEF TakeBack

LEMMA RefundInv ==
    ASSUME Typed, Inv, NEW p \in Proc, Refund(p)
    PROVE  Inv'
<1>1. KnownOf(p) /\ (tx[p].kind \in {"match", "unmatch"} => tx[p].row \in Row)
  BY Known DEF Typed, WithRow
<1>2. Wrote(tx[p], None, None, {}, {})
  BY <1>1 DEF Refund, KnownOf, Shape, Stands, Idle, At, Wrote
<1>3. ASSUME Goes(p, [tx[p] EXCEPT !.at = "done", !.d = "SETTLED", !.add = {"refund"}]), ~Rollback(p)
     PROVE  Inv'
  <2>1. PICK t : t = [tx[p] EXCEPT !.at = "done", !.d = "SETTLED", !.add = {"refund"}]
    OBVIOUS
  <2>2. t \in Tx
    BY <1>1, <2>1 DEF Refund, KnownOf, Stands, Tx, Vouchers, Notices, Deposits
  <2>3. Shape(t)
    BY <1>1, <1>2, <1>3, <2>1 DEF Refund, KnownOf, Stands, Wrote, At, Knows, Held, Booked, KeptIsReceived, Received, Kept, Reopens, Tx, Shape
  <2>4. Knows(t)
    BY <1>1, <1>2, <1>3, <2>1 DEF Refund, KnownOf, Stands, Wrote, At, Knows, Held, Booked, KeptIsReceived, Received, Kept, Tx
  <2>5. Held(p, t)'
    BY <1>1, <1>2, <1>3, <2>1, RowAssumption, NameAssumption DEF Refund, KnownOf, Stands, Wrote, At, Knows, Held, Booked, KeptIsReceived, Received, Kept, Tx, Takes, Typed, TypeOK, Locks
  <2>6. \E r \in Locks : Takes(p, r) \/ holder' = holder
    BY <1>1, <1>3 DEF Refund, Stands, Locks
  <2>. QED
    BY <1>3, <2>1, <2>2, <2>3, <2>4, <2>5, <2>6, GoesInv
<1>. QED
  BY <1>3, RollbackInv DEF Refund

LEMMA FlagInv ==
    ASSUME Typed, Inv, NEW p \in Proc, Flag(p)
    PROVE  Inv'
<1>1. KnownOf(p) /\ (tx[p].kind \in {"match", "unmatch"} => tx[p].row \in Row)
  BY Known DEF Typed, WithRow
<1>2. Wrote(tx[p], None, None, {}, {})
  BY <1>1 DEF Flag, KnownOf, Shape, Stands, Idle, At, Wrote
<1>3. ASSUME Goes(p, [tx[p] EXCEPT !.at = "done", !.d = "REFUND_PENDING"]), ~Rollback(p)
     PROVE  Inv'
  <2>1. PICK t : t = [tx[p] EXCEPT !.at = "done", !.d = "REFUND_PENDING"]
    OBVIOUS
  <2>2. t \in Tx
    BY <1>1, <2>1 DEF Flag, KnownOf, Stands, Tx, Vouchers, Notices, Deposits
  <2>3. Shape(t)
    BY <1>1, <1>2, <1>3, <2>1 DEF Flag, KnownOf, Stands, Wrote, At, Knows, Held, Booked, KeptIsReceived, Received, Kept, Reopens, Tx, Shape
  <2>4. Knows(t)
    BY <1>1, <1>2, <1>3, <2>1 DEF Flag, KnownOf, Stands, Wrote, At, Knows, Held, Booked, KeptIsReceived, Received, Kept, Tx
  <2>5. Held(p, t)'
    BY <1>1, <1>2, <1>3, <2>1, RowAssumption, NameAssumption DEF Flag, KnownOf, Stands, Wrote, At, Knows, Held, Booked, KeptIsReceived, Received, Kept, Tx, Takes, Typed, TypeOK, Locks
  <2>6. \E r \in Locks : Takes(p, r) \/ holder' = holder
    BY <1>1, <1>3 DEF Flag, Stands, Locks
  <2>. QED
    BY <1>3, <2>1, <2>2, <2>3, <2>4, <2>5, <2>6, GoesInv
<1>. QED
  BY <1>3, RollbackInv DEF Flag

-----------------------------------------------------------------------------
(* A commit changes what is stored; its locks have kept others from relying on it. *)

\* Two requests never hold one lock.
Apart(p, q) ==
    /\ holder["deposit"] = p => tx[q].d = None /\ tx[q].at # "locked" /\ "reversal" \notin tx[q].add
    /\ holder["notice"] = p => tx[q].n = None
           /\ ~(tx[q].kind = "match" /\ tx[q].at \in {"notice", "seen", "written", "done"})
    /\ tx[p].kind = "unmatch" /\ tx[q].kind = "unmatch" /\ tx[p].at = "done"
           /\ tx[q].at \in {"read", "reopened", "done"} => tx[p].row # tx[q].row

LEMMA ApartHolds ==
    ASSUME Typed, Inv, NEW p \in Proc, NEW q \in Proc \ {p}
    PROVE  Apart(p, q) /\ KnownOf(q)
<1>1. KnownOf(q) /\ KnownOf(p)
  BY Known
<1>. QED
  BY <1>1 DEF Apart, KnownOf, Held

\* What is left of a commit: the stored state, and the others.
LEMMA CommitRest ==
    ASSUME Typed, Inv, NEW p \in Proc, Commit(p), Booked',
           \A q \in Proc \ {p} : Knows(tx[q])'
    PROVE  Inv'
<1>1. tx' = [tx EXCEPT ![p] = Idle] /\ holder' = Released(p)
  BY DEF Commit
<1>2. Shape(tx[p])' /\ Held(p, tx[p])' /\ Knows(tx[p])'
  BY <1>1 DEF Typed, TypeOK, Knows, Received, Held, Shape, At, Idle
<1>3. ASSUME NEW q \in Proc \ {p}
      PROVE  Shape(tx[q])' /\ Held(q, tx[q])'
  <2>1. tx'[q] = tx[q]
    BY <1>1 DEF Typed, TypeOK
  <2>2. \A l \in Locks : holder[l] = q => holder'[l] = q
    BY <1>1 DEF Released, Typed, TypeOK
  <2>3. Shape(tx[q])'
    BY <2>1 DEF Inv, Shape, At, Wrote, Reopens
  <2>4. Held(q, tx[q])'
    BY <2>1, <2>2 DEF Inv, Held, Locks, Typed, WithRow
  <2>. QED
    BY <2>3, <2>4
<1>. QED
  BY <1>2, <1>3 DEF Inv

\* Who has written neither row is at none of these statements.
NoDeposit(t) ==
    /\ ~At(t, "create", "done") /\ ~At(t, "refund", "done") /\ ~At(t, "flag", "done")
    /\ ~(t.kind = "pay" /\ t.at \in {"claimed", "booked", "done"})
    /\ ~(At(t, "unmatch", "done") /\ t.del # {}) /\ ~(At(t, "match", "done") /\ t.d = "PAID")
    /\ ~(At(t, "cancel", "done") /\ "reversal" \in t.add)
NoNotice(t) ==
    /\ ~At(t, "pay", "done") /\ ~At(t, "cancel", "done")
    /\ ~(t.kind = "match" /\ t.at \in {"notice", "seen", "written", "done"})

LEMMA Excluded ==
    ASSUME Typed, Inv, NEW p \in Proc, NEW q \in Proc \ {p}
    PROVE  /\ holder["deposit"] = p => NoDeposit(tx[q])
           /\ holder["notice"] = p => NoNotice(tx[q])
<1>1. Apart(p, q) /\ KnownOf(q)
  BY ApartHolds
<1>2. tx[q].d = None /\ "reversal" \notin tx[q].add => NoDeposit(tx[q])
  BY <1>1 DEF KnownOf, NoDeposit, Shape, At, Wrote, Idle, None
<1>3. tx[q].n = None /\ ~(tx[q].kind = "match" /\ tx[q].at \in {"notice", "seen", "written", "done"})
      => NoNotice(tx[q])
  BY <1>1 DEF KnownOf, NoNotice, Shape, At, Wrote, Reopens, Idle, None
<1>. QED
  BY <1>1, <1>2, <1>3 DEF Apart

LEMMA CommitInv ==
    ASSUME Typed, Inv, NEW p \in Proc, Commit(p)
    PROVE  Inv'
<1>1. KnownOf(p) /\ tx[p].at = "done" /\ (tx[p].kind \in {"match", "unmatch"} => tx[p].row \in Row)
  BY Known DEF Commit, Typed, WithRow
<1>2. /\ notice' = IF tx[p].n = None THEN notice ELSE tx[p].n
      /\ deposit' = IF tx[p].d = None THEN deposit ELSE tx[p].d
      /\ book' = (book \ tx[p].del) \cup tx[p].add
      /\ over \/ FlagsOver(p) => over'
      /\ \A q \in Proc \ {p} : tx'[q] = tx[q]
  BY DEF Commit, Typed, TypeOK
<1>3. \A q \in Proc \ {p} : Apart(p, q) /\ KnownOf(q) /\ (tx[q].kind \in {"match", "unmatch"} => tx[q].row \in Row)
  BY ApartHolds DEF Typed, WithRow
<1>4. ASSUME At(tx[p], "create", "done") /\ Wrote(tx[p], None, "PENDING", {"accrual"}, {})
     PROVE  Inv'
  <2>1. deposit = "NONE" /\ holder["deposit"] = p
    BY <1>1, <1>4 DEF KnownOf, Knows, Held, Booked, KeptIsReceived, Received, Kept, At, Wrote, Reopens, None
  <2>2. notice' = notice /\ deposit' = "PENDING" /\ book' = book \cup {"accrual"}
    BY <1>2, <1>4 DEF At, Wrote, Reopens, None
  <2>3. Booked'
    BY <1>1, <1>2, <2>1, <2>2, NameAssumption DEF KnownOf, Booked, KeptIsReceived, Received, Kept
  <2>4. ASSUME NEW q \in Proc \ {p}
        PROVE  Knows(tx[q])'
    <3>1. Knows(tx[q]) /\ tx'[q] = tx[q] /\ (tx[q].kind = "unmatch" => tx[q].row \in Row)
      BY <1>2, <1>3 DEF KnownOf
    <3>. QED
      BY <2>1, <2>2, <3>1, Excluded, NameAssumption DEF Knows, NoDeposit, NoNotice, At, Received, Wrote
  <2>. QED
    BY <2>3, <2>4, CommitRest
<1>5. ASSUME At(tx[p], "pay", "done") /\ Wrote(tx[p], "PAID", "PAID", {"manual"}, {})
     PROVE  Inv'
  <2>1. deposit = "PENDING" /\ notice = "OPEN" /\ "reversal" \notin book /\ Received = {}
        /\ holder["deposit"] = p /\ holder["notice"] = p
    BY <1>1, <1>5 DEF KnownOf, Knows, Held, Booked, KeptIsReceived, Received, Kept, At, Wrote, Reopens, None
  <2>2. notice' = "PAID" /\ deposit' = "PAID" /\ book' = book \cup {"manual"}
    BY <1>2, <1>5 DEF At, Wrote, Reopens, None
  <2>3. Booked'
    BY <1>1, <1>2, <2>1, <2>2, NameAssumption DEF KnownOf, Booked, KeptIsReceived, Received, Kept
  <2>4. ASSUME NEW q \in Proc \ {p}
        PROVE  Knows(tx[q])'
    <3>1. Knows(tx[q]) /\ tx'[q] = tx[q] /\ (tx[q].kind = "unmatch" => tx[q].row \in Row)
      BY <1>2, <1>3 DEF KnownOf
    <3>. QED
      BY <2>1, <2>2, <3>1, Excluded, NameAssumption DEF Knows, NoDeposit, NoNotice, At, Received, Wrote
  <2>. QED
    BY <2>3, <2>4, CommitRest
<1>6. ASSUME At(tx[p], "cancel", "done") /\ Wrote(tx[p], "CANCELLED", None, {}, {})
     PROVE  Inv'
  <2>1. notice = "OPEN" /\ holder["notice"] = p
    BY <1>1, <1>6 DEF KnownOf, Knows, Held, Booked, KeptIsReceived, Received, Kept, At, Wrote, Reopens, None
  <2>2. notice' = "CANCELLED" /\ deposit' = deposit /\ book' = book
    BY <1>2, <1>6 DEF At, Wrote, Reopens, None
  <2>3. Booked'
    BY <1>1, <1>2, <2>1, <2>2, NameAssumption DEF KnownOf, Booked, KeptIsReceived, Received, Kept
  <2>4. ASSUME NEW q \in Proc \ {p}
        PROVE  Knows(tx[q])'
    <3>1. Knows(tx[q]) /\ tx'[q] = tx[q] /\ (tx[q].kind = "unmatch" => tx[q].row \in Row)
      BY <1>2, <1>3 DEF KnownOf
    <3>. QED
      BY <2>1, <2>2, <3>1, Excluded, NameAssumption DEF Knows, NoDeposit, NoNotice, At, Received, Wrote
  <2>. QED
    BY <2>3, <2>4, CommitRest
<1>7. ASSUME At(tx[p], "cancel", "done") /\ Wrote(tx[p], "CANCELLED", None, {"reversal"}, {})
     PROVE  Inv'
  <2>1. deposit = "PENDING" /\ notice = "OPEN" /\ Received = {} /\ holder["deposit"] = p /\ holder["notice"] = p
    BY <1>1, <1>7 DEF KnownOf, Knows, Held, Booked, KeptIsReceived, Received, Kept, At, Wrote, Reopens, None
  <2>2. notice' = "CANCELLED" /\ deposit' = deposit /\ book' = book \cup {"reversal"}
    BY <1>2, <1>7 DEF At, Wrote, Reopens, None
  <2>3. Booked'
    BY <1>1, <1>2, <2>1, <2>2, NameAssumption DEF KnownOf, Booked, KeptIsReceived, Received, Kept
  <2>4. ASSUME NEW q \in Proc \ {p}
        PROVE  Knows(tx[q])'
    <3>1. Knows(tx[q]) /\ tx'[q] = tx[q] /\ (tx[q].kind = "unmatch" => tx[q].row \in Row)
      BY <1>2, <1>3 DEF KnownOf
    <3>. QED
      BY <2>1, <2>2, <3>1, Excluded, NameAssumption DEF Knows, NoDeposit, NoNotice, At, Received, Wrote
  <2>. QED
    BY <2>3, <2>4, CommitRest
<1>8. ASSUME At(tx[p], "match", "done") /\ Wrote(tx[p], "PAID", "PAID", {tx[p].row}, {})
     PROVE  Inv'
  <2>1. deposit = "PENDING" /\ notice = "OPEN" /\ Received = {} /\ tx[p].row \in Row
        /\ holder["deposit"] = p /\ holder["notice"] = p
    BY <1>1, <1>8 DEF KnownOf, Knows, Held, Booked, KeptIsReceived, Received, Kept, At, Wrote, Reopens, None
  <2>2. notice' = "PAID" /\ deposit' = "PAID" /\ book' = book \cup {tx[p].row}
    BY <1>2, <1>8 DEF At, Wrote, Reopens, None
  <2>3. Booked'
    BY <1>1, <1>2, <2>1, <2>2, NameAssumption DEF KnownOf, Booked, KeptIsReceived, Received, Kept
  <2>4. ASSUME NEW q \in Proc \ {p}
        PROVE  Knows(tx[q])'
    <3>1. Knows(tx[q]) /\ tx'[q] = tx[q] /\ (tx[q].kind = "unmatch" => tx[q].row \in Row)
      BY <1>2, <1>3 DEF KnownOf
    <3>. QED
      BY <2>1, <2>2, <3>1, Excluded, NameAssumption DEF Knows, NoDeposit, NoNotice, At, Received, Wrote
  <2>. QED
    BY <2>3, <2>4, CommitRest
<1>9. ASSUME At(tx[p], "unmatch", "done") /\ Wrote(tx[p], Reopens(tx[p]), None, {}, {})
     PROVE  Inv'
  <2>1. tx[p].reopen => "manual" \in book /\ book \cap Row = {} /\ holder["notice"] = p
    BY <1>1, <1>9, NameAssumption DEF KnownOf, Knows, Held, Booked, KeptIsReceived, Received, Kept, At, Wrote, Reopens, None
  <2>2. notice' = (IF tx[p].reopen THEN "OPEN" ELSE notice) /\ deposit' = deposit /\ book' = book
    BY <1>2, <1>9 DEF At, Wrote, Reopens, None
  <2>3. Booked'
    BY <1>1, <1>2, <2>1, <2>2, NameAssumption DEF KnownOf, Booked, KeptIsReceived, Received, Kept
  <2>4. ASSUME NEW q \in Proc \ {p}
        PROVE  Knows(tx[q])'
    <3>1. Knows(tx[q]) /\ tx'[q] = tx[q] /\ (tx[q].kind = "unmatch" => tx[q].row \in Row)
      BY <1>2, <1>3 DEF KnownOf
    <3>. QED
      BY <2>1, <2>2, <3>1, Excluded, <1>1, <1>3, <1>9, NameAssumption DEF Knows, NoDeposit, NoNotice, At, Received, Wrote, Apart
  <2>. QED
    BY <2>3, <2>4, CommitRest
<1>10. ASSUME At(tx[p], "unmatch", "done") /\ Wrote(tx[p], Reopens(tx[p]), "PENDING", {}, {tx[p].row})
     PROVE  Inv'
  <2>1. deposit = "PAID" /\ Received = {tx[p].row} /\ tx[p].row \in Row /\ tx[p].reopen
        /\ holder["deposit"] = p /\ holder["notice"] = p
    BY <1>1, <1>10 DEF KnownOf, Knows, Held, Booked, KeptIsReceived, Received, Kept, At, Wrote, Reopens, None
  <2>2. notice' = "OPEN" /\ deposit' = "PENDING" /\ book' = book \ {tx[p].row}
    BY <1>2, <1>10, <2>1 DEF At, Wrote, Reopens, None
  <2>3. Booked'
    BY <1>1, <1>2, <2>1, <2>2, NameAssumption DEF KnownOf, Booked, KeptIsReceived, Received, Kept
  <2>4. ASSUME NEW q \in Proc \ {p}
        PROVE  Knows(tx[q])'
    <3>1. Knows(tx[q]) /\ tx'[q] = tx[q] /\ (tx[q].kind = "unmatch" => tx[q].row \in Row)
      BY <1>2, <1>3 DEF KnownOf
    <3>. QED
      BY <2>1, <2>2, <3>1, Excluded, <1>1, <1>3, <1>10, NameAssumption DEF Knows, NoDeposit, NoNotice, At, Received, Wrote, Apart
  <2>. QED
    BY <2>3, <2>4, CommitRest
<1>11. ASSUME At(tx[p], "refund", "done") /\ Wrote(tx[p], None, "SETTLED", {"refund"}, {})
     PROVE  Inv'
  <2>1. deposit \in {"PAID", "REFUND_PENDING"} /\ holder["deposit"] = p
    BY <1>1, <1>11 DEF KnownOf, Knows, Held, Booked, KeptIsReceived, Received, Kept, At, Wrote, Reopens, None
  <2>2. notice' = notice /\ deposit' = "SETTLED" /\ book' = book \cup {"refund"}
    BY <1>2, <1>11 DEF At, Wrote, Reopens, None
  <2>3. Booked'
    BY <1>1, <1>2, <2>1, <2>2, NameAssumption DEF KnownOf, Booked, KeptIsReceived, Received, Kept
  <2>4. ASSUME NEW q \in Proc \ {p}
        PROVE  Knows(tx[q])'
    <3>1. Knows(tx[q]) /\ tx'[q] = tx[q] /\ (tx[q].kind = "unmatch" => tx[q].row \in Row)
      BY <1>2, <1>3 DEF KnownOf
    <3>. QED
      BY <2>1, <2>2, <3>1, Excluded, NameAssumption DEF Knows, NoDeposit, NoNotice, At, Received, Wrote
  <2>. QED
    BY <2>3, <2>4, CommitRest
<1>12. ASSUME At(tx[p], "flag", "done") /\ Wrote(tx[p], None, "REFUND_PENDING", {}, {})
     PROVE  Inv'
  <2>1. deposit # "NONE" /\ holder["deposit"] = p /\ (deposit = "PAID" \/ FlagsOver(p))
    BY <1>1, <1>12 DEF KnownOf, Knows, Held, Booked, KeptIsReceived, Received, Kept, At, Wrote, Reopens, None, FlagsOver
  <2>2. notice' = notice /\ deposit' = "REFUND_PENDING" /\ book' = book
    BY <1>2, <1>12 DEF At, Wrote, Reopens, None
  <2>3. Booked'
    BY <1>1, <1>2, <2>1, <2>2, NameAssumption DEF KnownOf, Booked, KeptIsReceived, Received, Kept
  <2>4. ASSUME NEW q \in Proc \ {p}
        PROVE  Knows(tx[q])'
    <3>1. Knows(tx[q]) /\ tx'[q] = tx[q] /\ (tx[q].kind = "unmatch" => tx[q].row \in Row)
      BY <1>2, <1>3 DEF KnownOf
    <3>. QED
      BY <2>1, <2>2, <3>1, Excluded, NameAssumption DEF Knows, NoDeposit, NoNotice, At, Received, Wrote
  <2>. QED
    BY <2>3, <2>4, CommitRest
<1>13. ASSUME At(tx[p], "match", "done") /\ Wrote(tx[p], "PAID", None, {tx[p].row}, {})
     PROVE  Inv'
  <2>1. deposit \in {"REFUND_PENDING", "SETTLED"} /\ notice = "OPEN" /\ Received = {}
        /\ tx[p].row \in Row /\ holder["notice"] = p
    BY <1>1, <1>13 DEF KnownOf, Knows, Held, Booked, KeptIsReceived, Received, Kept, At, Wrote, Reopens, None
  <2>2. notice' = "PAID" /\ deposit' = deposit /\ book' = book \cup {tx[p].row}
    BY <1>2, <1>13 DEF At, Wrote, Reopens, None
  <2>3. Booked'
    BY <1>1, <1>2, <2>1, <2>2, NameAssumption DEF KnownOf, Booked, KeptIsReceived, Received, Kept
  <2>4. ASSUME NEW q \in Proc \ {p}
        PROVE  Knows(tx[q])'
    <3>1. Knows(tx[q]) /\ tx'[q] = tx[q] /\ (tx[q].kind = "unmatch" => tx[q].row \in Row)
      BY <1>2, <1>3 DEF KnownOf
    <3>2. NoNotice(tx[q]) /\ ("reversal" \in book' => "reversal" \in book) /\ book \subseteq book'
      BY <2>1, <2>2, Excluded, NameAssumption
    <3>. QED
      BY <2>1, <2>2, <3>1, <3>2 DEF Knows, NoNotice, At
  <2>. QED
    BY <2>3, <2>4, CommitRest
<1>. QED
  BY <1>1, <1>4, <1>5, <1>6, <1>7, <1>8, <1>9, <1>10, <1>11, <1>12, <1>13 DEF KnownOf, Shape, At, Wrote, Idle

LEMMA SweepInv ==
    ASSUME Typed, Inv, Sweep
    PROVE  Inv'
<1>1. deposit = "PAID" /\ deposit' = "REFUND_PENDING" /\ holder["deposit"] = None
      /\ UNCHANGED <<notice, book, holder, tx, over>>
  BY DEF Sweep
<1>2. Booked'
  BY <1>1 DEF Inv, Booked, KeptIsReceived, Received, Kept
<1>3. ASSUME NEW q \in Proc
      PROVE  Shape(tx[q])' /\ Held(q, tx[q])' /\ Knows(tx[q])'
  <2>1. Shape(tx[q]) /\ Held(q, tx[q]) /\ Knows(tx[q])
    BY DEF Inv
  <2>2. tx[q].d = None /\ "reversal" \notin tx[q].add
    BY <1>1, <2>1, NameAssumption DEF Held
  <2>3. Knows(tx[q])'
    BY <1>1, <2>1, <2>2 DEF Knows, Inv, Booked, KeptIsReceived, Received, Shape, At, Wrote, Idle, None
  <2>. QED
    BY <1>1, <2>1, <2>3 DEF Shape, Held, At, Wrote, Reopens
<1>. QED
  BY <1>2, <1>3 DEF Inv

LEMMA NextInv ==
    ASSUME Typed, Inv, [Next]_vars
    PROVE  Inv'
<1>1. ASSUME NEW p \in Proc, Ask(p)
      PROVE  Inv'
  BY <1>1, BeginInv DEF Ask, AskCreate, AskPay, AskCancel, AskRefund, AskFlag, AskMatch, AskUnmatch, Kinds
<1>2. ASSUME NEW p \in Proc, Step(p)
      PROVE  Inv'
  BY <1>2, CreateInv, ClaimInv, SeeNoticeInv, PayNoticeInv, LockDepositInv, CancelNoticeInv, LockRowInv,
     LockNoticeInv, SeeDepositInv, WriteNoticeInv, PayDepositInv, ReadAllocationsInv, ReopenNoticeInv,
     TakeBackInv, RefundInv, FlagInv, CommitInv, RollbackInv DEF Step, Fails
<1>3. CASE UNCHANGED vars
  BY <1>3 DEF vars, Inv, Booked, KeptIsReceived, Received, Shape, Held, Knows, At, Wrote, Reopens
<1>. QED
  BY <1>1, <1>2, <1>3, SweepInv DEF Next

LEMMA InvHolds == Spec => []Inv
<1>1. Init => Inv
  BY DEF Init, Inv, Booked, KeptIsReceived, Received, Kept, Shape, Held, Knows, At, Idle, None
<1>. QED
  BY <1>1, TypesHold, NextInv, PTL DEF Spec

-----------------------------------------------------------------------------
(* What follows. *)

\* The comments on the lock order: however payments by hand, matches and cancellations
\* meet, one of them clears the receivable.
THEOREM DepositClearedOnce == Spec => []ClearedOnce
<1>1. ASSUME Booked
      PROVE  ClearedOnce
  <2>. DEFINE R == Cardinality(Received)  V == Cardinality(book \cap {"reversal"})
              A == Cardinality(book \cap {"accrual"})
  <2>1. CASE Received = {}
    <3>1. R = 0
      BY <2>1, FS_EmptySet
    <3>2. CASE "reversal" \in book
      <4>1. book \cap {"reversal"} = {"reversal"} /\ book \cap {"accrual"} = {"accrual"}
        BY <1>1, <3>2 DEF Booked
      <4>2. V = 1 /\ A = 1
        BY <4>1, FS_Singleton
      <4>. QED
        BY <3>1, <4>2 DEF ClearedOnce
    <3>3. CASE "reversal" \notin book
      <4>1. book \cap {"reversal"} = {}
        BY <3>3
      <4>2. V = 0
        BY <4>1, FS_EmptySet
      <4>3. book \cap {"accrual"} = {} \/ book \cap {"accrual"} = {"accrual"}
        OBVIOUS
      <4>4. A \in {0, 1}
        BY <4>3, FS_EmptySet, FS_Singleton
      <4>. QED
        BY <3>1, <4>2, <4>4 DEF ClearedOnce
    <3>. QED
      BY <3>2, <3>3
  <2>2. CASE Received # {}
    <3>1. PICK v \in Received : Received = {v}
      BY <1>1, <2>2 DEF Booked
    <3>2. book \cap {"reversal"} = {} /\ book \cap {"accrual"} = {"accrual"}
      BY <1>1, <2>2 DEF Booked, KeptIsReceived, Kept
    <3>3. R = 1
      BY <3>1, FS_Singleton
    <3>4. V = 0 /\ A = 1
      BY <3>2, FS_EmptySet, FS_Singleton
    <3>. QED
      BY <3>3, <3>4 DEF ClearedOnce
  <2>. QED
    BY <2>1, <2>2
<1>. QED
  BY <1>1, InvHolds, PTL DEF Inv

\* markPaid, match, unmatch, refund and the sweep: what was received is not forgotten,
\* and only a flag written over what had become of the deposit keeps what was not.
THEOREM DepositReceived == Spec => []KeptIsReceived
<1>1. Inv => KeptIsReceived
  BY DEF Inv, Booked
<1>. QED
  BY <1>1, InvHolds, PTL

\* refund's claim and unmatch's: what was settled is reopened by such a flag alone.
THEOREM DepositSettled == Spec => SettledStays
<1>1. ASSUME Typed, Inv, [Next]_vars, deposit = "SETTLED"
      PROVE  deposit' = "SETTLED" \/ \E p \in Proc : FlagsOver(p) /\ Commit(p)
  <2>1. ASSUME NEW p \in Proc, Commit(p), ~FlagsOver(p)
        PROVE  deposit' = "SETTLED"
    <3>1. KnownOf(p) /\ tx[p].at = "done" /\ tx[p].kind # "flag"
      BY <1>1, <2>1, Known DEF Commit, FlagsOver
    <3>2. tx[p].d = None
      BY <1>1, <3>1 DEF KnownOf, Shape, Knows, Booked, At, Wrote, Idle, None
    <3>. QED
      BY <1>1, <2>1, <3>2 DEF Commit
  <2>2. ASSUME NEW p \in Proc, Ask(p) \/ (Step(p) /\ ~Commit(p))
        PROVE  deposit' = deposit
    BY <2>2 DEF Ask, AskCreate, AskPay, AskCancel, AskRefund, AskFlag, AskMatch, AskUnmatch, Begin, Step,
        Create, Claim, SeeNotice, PayNotice, LockDeposit, CancelNotice, LockRow, LockNotice, SeeDeposit,
        WriteNotice, PayDeposit, ReadAllocations, ReopenNotice, TakeBack, Refund, Flag, Fails, Rollback,
        Goes, Stored
  <2>. QED
    BY <1>1, <2>1, <2>2 DEF Next, Sweep, vars
<1>. QED
  BY <1>1, TypesHold, InvHolds, PTL DEF Spec, SettledStays
=============================================================================
