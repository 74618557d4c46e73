-------------------------- MODULE VoucherBookProofs ---------------------------
(***************************************************************************)
(* Proofs about VoucherBook, for any number of requests, keys, months and  *)
(* years: numbers without a gap, keys booked once, accruals with what      *)
(* takes them back, months reopened once for each time they close, and     *)
(* closed years that only requests under way at the closing still enter.   *)
(***************************************************************************)
EXTENDS VoucherBook, FiniteSetTheorems, SequenceTheorems, WellFoundedInduction, TLAPS

\* A transaction is a record of its eight fields, whatever they hold.
Tx(t) == t \in [at : {t.at}, todo : {t.todo}, wrote : {t.wrote}, month : {t.month},
                number : {t.number}, year : {t.year}, act : {t.act}, seq : {t.seq}]

Txs == tx = [p \in Proc |-> tx[p]] /\ \A p \in Proc : Tx(tx[p])

Stored == UNCHANGED <<entry, counter, event, closing>>

-----------------------------------------------------------------------------
(* What each statement makes of its transaction. *)

LEMMA After ==
    ASSUME Txs, NEW p \in Proc, NEW u, Tx(u), tx' = [tx EXCEPT ![p] = u]
    PROVE  Txs' /\ tx'[p] = u /\ \A q \in Proc \ {p} : tx'[q] = tx[q]
  BY DEF Txs

LEMMA IdleIs ==
    /\ Tx(Idle) /\ Idle.at = "idle" /\ Idle.todo = <<>> /\ Idle.wrote = {} /\ Idle.month = 0
    /\ Idle.number = 0 /\ Idle.year = 0 /\ Idle.act = None /\ Idle.seq = 0
  BY DEF Idle, Tx

\* The earliest of the months there are.
LEMMA FirstIs ==
    ASSUME NEW S, S \subseteq Month, S # {}
    PROVE  First(S) \in S
<1>. DEFINE R == OpToRel(<, Nat)
<1>1. IsWellFoundedOn(R, Nat)
  BY NatLessThanWellFounded
<1>2. \A x, y \in Nat : x < y => <<x, y>> \in R
  BY DEF OpToRel
<1>. HIDE DEF R
<1>3. S \subseteq Nat
  BY TimeAssumption
<1>4. PICK m \in S : \A n \in S : ~(<<n, m>> \in R)
  BY <1>1, <1>3, WFMin
<1>5. ASSUME NEW n \in S
      PROVE  m <= n
  <2>1. m \in Nat /\ n \in Nat
    BY <1>3
  <2>2. ~(n < m)
    BY <1>2, <1>4, <2>1
  <2>. QED
    BY <2>1, <2>2
<1>. QED
  BY <1>5 DEF First

\* What a request has to book when it begins.
Fresh(l) ==
    \/ l = <<>>
    \/ \E i : l = <<i>> /\ i.key \in Plain \cup Reversal /\ (i.key \in Plain => i.of = None)
    \/ \E i, j : /\ l = <<i, j>> /\ i.of = None /\ j.of = None
                 /\ i.key \in Accrual /\ j.key = FollowUp[i.key].key
                 /\ YearOf[i.wanted] # YearOf[j.wanted]

Begun(u) ==
    /\ u.wrote = {} /\ Fresh(u.todo)
    /\ \/ u.at = "look" /\ u.year = 0 /\ u.act = None
       \/ u.at = "month" /\ u.year = 0 /\ u.act = "CLOSED" /\ u.month \in Month /\ u.todo = <<>>
       \/ u.at = "seq" /\ u.year = 0 /\ u.act = "REOPENED" /\ u.month \in Month /\ u.todo = <<>>
       \/ u.at = "draft" /\ u.year \in Year /\ u.act = None /\ u.todo = <<>>

LEMMA RequestIs ==
    ASSUME Txs, NEW p \in Proc, Request(p)
    PROVE  \E u : tx' = [tx EXCEPT ![p] = u] /\ Tx(u) /\ Begun(u) /\ Stored /\ today' = today
<1>1. ASSUME NEW i
      PROVE  /\ Tx([Idle EXCEPT !.at = "look", !.todo = i])
             /\ [Idle EXCEPT !.at = "look", !.todo = i].wrote = {}
             /\ [Idle EXCEPT !.at = "look", !.todo = i].at = "look"
             /\ [Idle EXCEPT !.at = "look", !.todo = i].year = 0
             /\ [Idle EXCEPT !.at = "look", !.todo = i].act = None
             /\ [Idle EXCEPT !.at = "look", !.todo = i].todo = i
  BY DEF Idle, Tx
<1>2. ASSUME NEW u, Begin(p, u), Tx(u), Begun(u)
      PROVE  \E v : tx' = [tx EXCEPT ![p] = v] /\ Tx(v) /\ Begun(v) /\ Stored /\ today' = today
  BY <1>2 DEF Begin, Stored
<1>3. ASSUME NEW l, Fresh(l), Begin(p, [Idle EXCEPT !.at = "look", !.todo = l])
      PROVE  \E v : tx' = [tx EXCEPT ![p] = v] /\ Tx(v) /\ Begun(v) /\ Stored /\ today' = today
  <2>1. Begun([Idle EXCEPT !.at = "look", !.todo = l])
    BY <1>1, <1>3 DEF Begun
  <2>. QED
    BY <1>1, <1>2, <1>3, <2>1
<1>4. ASSUME NEW k \in Plain, Document(p, k)
      PROVE  \E v : tx' = [tx EXCEPT ![p] = v] /\ Tx(v) /\ Begun(v) /\ Stored /\ today' = today
  <2>1. Fresh(<<Item(k, None, EventMonth[k], Effect(k))>>)
    <3>1. /\ Item(k, None, EventMonth[k], Effect(k)).key = k
          /\ Item(k, None, EventMonth[k], Effect(k)).of = None
      BY DEF Item
    <3>. QED
      BY <3>1 DEF Fresh
  <2>. QED
    BY <1>3, <1>4, <2>1 DEF Document
<1>5. ASSUME NEW a \in Accrual, Accrue(p, a)
      PROVE  \E v : tx' = [tx EXCEPT ![p] = v] /\ Tx(v) /\ Begun(v) /\ Stored /\ today' = today
  <2>. DEFINE y == FollowUp[a].year
              m == LastMonth[y]
              n == First(NextYear(y))
              i == Item(a, None, m, 1)
              j == Item(FollowUp[a].key, None, n, -1)
  <2>1. YearOf[m] = y /\ y \in Year
    BY KeyAssumption, TimeAssumption
  <2>2. n \in NextYear(y)
    BY <1>5, FirstIs DEF Accrue, NextYear
  <2>3. YearOf[m] # YearOf[n]
    <3>1. YearOf[n] = y + 1
      BY <2>2 DEF NextYear
    <3>2. y \in Nat
      BY <2>1, TimeAssumption
    <3>. HIDE DEF y, m, n
    <3>. QED
      BY <2>1, <3>1, <3>2
  <2>4. Begin(p, [Idle EXCEPT !.at = "look", !.todo = <<i, j>>])
    BY <1>5 DEF Accrue
  <2>. HIDE DEF m, n
  <2>5. /\ i.key = a /\ i.of = None /\ i.wanted = m
        /\ j.key = FollowUp[a].key /\ j.of = None /\ j.wanted = n
    BY DEF Item
  <2>. HIDE DEF i, j
  <2>6. Fresh(<<i, j>>)
    BY <2>3, <2>5 DEF Fresh
  <2>. QED
    BY <1>3, <2>4, <2>6
<1>6. ASSUME NEW r \in Reversal, Reverse(p, r)
      PROVE  \E v : tx' = [tx EXCEPT ![p] = v] /\ Tx(v) /\ Begun(v) /\ Stored /\ today' = today
  <2>1. PICK e \in entry : Begin(p, [Idle EXCEPT !.at = "look", !.todo = <<Item(r, e.key, today, -e.result)>>])
    BY <1>6 DEF Reverse
  <2>2. Fresh(<<Item(r, e.key, today, -e.result)>>)
    <3>1. Item(r, e.key, today, -e.result).key = r
      BY DEF Item
    <3>. QED
      BY <3>1 DEF Fresh, Plain
  <2>. QED
    BY <1>3, <2>1, <2>2
<1>7. ASSUME NEW m \in Month, ClosePeriod(p, m) \/ ReopenPeriod(p, m)
      PROVE  \E v : tx' = [tx EXCEPT ![p] = v] /\ Tx(v) /\ Begun(v) /\ Stored /\ today' = today
  <2>1. /\ Tx([Idle EXCEPT !.at = "month", !.month = m, !.act = "CLOSED"])
        /\ Begun([Idle EXCEPT !.at = "month", !.month = m, !.act = "CLOSED"])
    BY DEF Idle, Tx, Begun, Fresh
  <2>2. /\ Tx([Idle EXCEPT !.at = "seq", !.month = m, !.act = "REOPENED"])
        /\ Begun([Idle EXCEPT !.at = "seq", !.month = m, !.act = "REOPENED"])
    BY DEF Idle, Tx, Begun, Fresh
  <2>. QED
    BY <1>2, <1>7, <2>1, <2>2 DEF ClosePeriod, ReopenPeriod
<1>8. ASSUME NEW y \in Year, CloseFiscalYear(p, y)
      PROVE  \E v : tx' = [tx EXCEPT ![p] = v] /\ Tx(v) /\ Begun(v) /\ Stored /\ today' = today
  <2>1. /\ Tx([Idle EXCEPT !.at = "draft", !.year = y])
        /\ Begun([Idle EXCEPT !.at = "draft", !.year = y])
    BY DEF Idle, Tx, Begun, Fresh
  <2>. QED
    BY <1>2, <1>8, <2>1 DEF CloseFiscalYear
<1>. QED
  BY <1>4, <1>5, <1>6, <1>7, <1>8 DEF Request

-----------------------------------------------------------------------------

Drafted(t, u) ==
    /\ t.at = "draft" /\ u.wrote = t.wrote /\ u.year = t.year /\ u.act = t.act
    /\ \/ u.at = "month" /\ u.todo = t.todo
       \/ u.at = "look" /\ \E i : u.todo = <<i>> /\ i.key = t.year /\ i.of = None
                                     /\ i.wanted = LastMonth[t.year]

Looked(t, u) ==
    /\ t.at = "look" /\ t.todo # <<>> /\ u.wrote = t.wrote /\ u.year = t.year /\ u.act = t.act
    /\ \/ Booked(Head(t.todo).key) /\ u.at = "look" /\ u.todo = Tail(t.todo)
       \/ ~Booked(Head(t.todo).key) /\ u.at = "date" /\ u.todo = t.todo

Dated(t, u) ==
    /\ t.at = "date" /\ u.wrote = t.wrote /\ u.year = t.year /\ u.act = t.act
    /\ u.at = "number" /\ u.todo = t.todo /\ u.month \in Month /\ PeriodOpen(u.month)
    /\ Head(t.todo).key \notin LateKey => u.month = Head(t.todo).wanted

Numbered(p, t, u) ==
    /\ t.at = "number" /\ u.wrote = t.wrote /\ u.year = t.year /\ u.act = t.act
    /\ u.at = "insert" /\ u.todo = t.todo /\ u.month = t.month
    /\ u.number = counter[YearOf[t.month]] + Cardinality(Wrote(t, YearOf[t.month])) + 1
    /\ \A q \in Proc \ {p} : ~Holds(tx[q], YearOf[t.month])

Inserted(p, t, u) ==
    /\ t.at = "insert" /\ u.year = t.year /\ u.act = t.act
    /\ u.at = "look" /\ u.todo = Tail(t.todo)
    /\ \E e : /\ u.wrote = t.wrote \cup {e}
              /\ e.key = Head(t.todo).key /\ e.of = Head(t.todo).of
              /\ e.month = t.month /\ e.number = t.number
              /\ \A q \in Proc \ {p} : \A f \in tx[q].wrote : ~Clash(e, f)
              /\ \A f \in entry : ~Clash(e, f)

Checked(t, u) ==
    /\ t.at = "month" \/ (t.at = "look" /\ t.todo = <<>> /\ t.year # 0)
    /\ u.wrote = t.wrote /\ u.year = t.year /\ u.todo = t.todo
    /\ u.at = "seq" /\ u.act = "CLOSED"
    /\ u.month = IF t.year = 0 THEN t.month ELSE LastMonth[t.year]

SeqRead(t, u) ==
    /\ t.at = "seq" /\ u.wrote = t.wrote /\ u.year = t.year /\ u.todo = t.todo
    /\ u.at = "event" /\ u.month = t.month /\ u.act = t.act
    /\ u.seq = Len(event[t.month]) + 1
    /\ t.act = "REOPENED" => IsPeriodClosed(t.month)

EventWritten(p, t, u) ==
    /\ t.at = "event" /\ u.wrote = t.wrote /\ u.year = t.year /\ u.todo = t.todo
    /\ u.at \in {"close", "commit"} /\ (u.at = "commit" => t.year = 0)
    /\ u.month = t.month /\ u.act = t.act /\ u.seq = t.seq
    /\ ~(Len(event[t.month]) >= t.seq)
    /\ \A q \in Proc \ {p} : ~WroteEvent(tx[q], t.month, t.seq)

CloseWritten(p, t, u) ==
    /\ t.at = "close" /\ ~YearClosed(t.year)
    /\ \A q \in Proc \ {p} : ~(tx[q].at = "commit" /\ tx[q].year = t.year)
    /\ u.wrote = t.wrote /\ u.year = t.year /\ u.todo = t.todo
    /\ u.at = "commit" /\ u.month = t.month /\ u.act = t.act /\ u.seq = t.seq

Moves(p, t, u) ==
    \/ u = Idle
    \/ Drafted(t, u) \/ Looked(t, u) \/ Dated(t, u) \/ Numbered(p, t, u) \/ Inserted(p, t, u)
    \/ Checked(t, u) \/ SeqRead(t, u) \/ EventWritten(p, t, u) \/ CloseWritten(p, t, u)

LEMMA WorkIs ==
    ASSUME Txs, NEW p \in Proc, Work(p) \/ Abort(p), ~Commit(p)
    PROVE  \E u : tx' = [tx EXCEPT ![p] = u] /\ Tx(u) /\ Moves(p, tx[p], u) /\ Stored /\ today' = today
<1>. DEFINE t == tx[p]
            Goal == \E u : tx' = [tx EXCEPT ![p] = u] /\ Tx(u) /\ Moves(p, t, u) /\ Stored /\ today' = today
<1>1. Tx(t)
  BY DEF Txs
<1>2. ASSUME NEW u, Step(p, u), Tx(u), Moves(p, t, u)
      PROVE  Goal
  BY <1>2 DEF Step, Stored
<1>3. Rollback(p) => Goal
  BY <1>2, IdleIs DEF Rollback, Moves
<1>. SUFFICES Goal
  OBVIOUS
<1>. HIDE DEF Goal
<1>4. CASE Draft(p)
  <2>1. CASE Step(p, [t EXCEPT !.at = "month"])
    <3>1. Tx([t EXCEPT !.at = "month"]) /\ Drafted(t, [t EXCEPT !.at = "month"])
      BY <1>1, <1>4 DEF Draft, Drafted, Tx
    <3>. QED
      BY <1>2, <2>1, <3>1 DEF Moves
  <2>2. ASSUME NEW i, i.key = t.year, i.of = None, i.wanted = LastMonth[t.year],
               Step(p, [t EXCEPT !.at = "look", !.todo = <<i>>])
        PROVE  Goal
    <3>1. Tx([t EXCEPT !.at = "look", !.todo = <<i>>]) /\ Drafted(t, [t EXCEPT !.at = "look", !.todo = <<i>>])
      BY <1>1, <1>4, <2>2 DEF Draft, Drafted, Tx
    <3>. QED
      BY <1>2, <2>2, <3>1 DEF Moves
  <2>3. \A m, r : /\ Item(t.year, None, m, r).key = t.year /\ Item(t.year, None, m, r).of = None
                  /\ Item(t.year, None, m, r).wanted = m
    BY DEF Item
  <2>. DEFINE last == LastMonth[t.year]
  <2>4. CASE \E r : Step(p, [t EXCEPT !.at = "look", !.todo = <<Item(t.year, None, last, r)>>])
    <3>1. PICK r : Step(p, [t EXCEPT !.at = "look", !.todo = <<Item(t.year, None, last, r)>>])
      BY <2>4
    <3>. DEFINE i == Item(t.year, None, last, r)
    <3>2. i.key = t.year /\ i.of = None /\ i.wanted = LastMonth[t.year]
      BY <2>3
    <3>. HIDE DEF i, last
    <3>3. Step(p, [t EXCEPT !.at = "look", !.todo = <<i>>])
      BY <3>1 DEF i
    <3>. QED
      BY <2>2, <3>2, <3>3
  <2>5. \/ Step(p, [t EXCEPT !.at = "month"])
        \/ \E r : Step(p, [t EXCEPT !.at = "look", !.todo = <<Item(t.year, None, last, r)>>])
    <3>1. \/ Step(p, [t EXCEPT !.at = "month"])
          \/ Step(p, [t EXCEPT !.at = "look",
                             !.todo = <<Item(t.year, None, LastMonth[t.year], -ResultOf(t.year))>>])
      BY <1>4, Zenon DEF Draft
    <3>. QED
      BY <3>1
  <2>. QED
    BY <2>1, <2>4, <2>5
<1>5. CASE Look(p)
  <2>1. CASE Booked(Head(t.todo).key)
    <3>1. Step(p, [t EXCEPT !.todo = Tail(@)])
      BY <1>5, <2>1 DEF Look
    <3>2. Tx([t EXCEPT !.todo = Tail(@)]) /\ Looked(t, [t EXCEPT !.todo = Tail(@)])
      BY <1>1, <1>5, <2>1 DEF Look, Looked, Tx
    <3>. QED
      BY <1>2, <3>1, <3>2 DEF Moves
  <2>2. CASE ~Booked(Head(t.todo).key)
    <3>1. Step(p, [t EXCEPT !.at = "date"])
      BY <1>5, <2>2 DEF Look
    <3>2. Tx([t EXCEPT !.at = "date"]) /\ Looked(t, [t EXCEPT !.at = "date"])
      BY <1>1, <1>5, <2>2 DEF Look, Looked, Tx
    <3>. QED
      BY <1>2, <3>1, <3>2 DEF Moves
  <2>. QED
    BY <2>1, <2>2
<1>6. CASE Date(p)
  <2>1. PICK days : /\ days \subseteq OpenFrom(Head(t.todo).wanted)
                    /\ Head(t.todo).key \notin LateKey => days \subseteq {Head(t.todo).wanted}
                    /\ IF days = {} THEN Rollback(p)
                       ELSE Step(p, [t EXCEPT !.at = "number", !.month = First(days)])
    BY <1>6 DEF Date
  <2>2. CASE days # {}
    <3>0. First(days) \in days
      BY <2>1, <2>2, FirstIs DEF OpenFrom
    <3>1. /\ First(days) \in Month /\ PeriodOpen(First(days))
          /\ Head(t.todo).key \notin LateKey => First(days) = Head(t.todo).wanted
      BY <2>1, <3>0 DEF OpenFrom
    <3>2. Tx([t EXCEPT !.at = "number", !.month = First(days)])
          /\ Dated(t, [t EXCEPT !.at = "number", !.month = First(days)])
      BY <1>1, <1>6, <3>1 DEF Date, Dated, Tx
    <3>. QED
      BY <1>2, <2>1, <2>2, <3>2 DEF Moves
  <2>. QED
    BY <1>3, <2>1, <2>2
<1>7. CASE Number(p)
  <2>. DEFINE n == counter[YearOf[t.month]] + Cardinality(Wrote(t, YearOf[t.month])) + 1
              u == [t EXCEPT !.at = "insert", !.number = n]
  <2>1. /\ Step(p, u) /\ t.at = "number"
        /\ \A q \in Proc \ {p} : ~Holds(tx[q], YearOf[t.month])
    BY <1>7 DEF Number
  <2>2. /\ Tx(u) /\ u.at = "insert" /\ u.number = n /\ u.wrote = t.wrote /\ u.year = t.year
        /\ u.act = t.act /\ u.todo = t.todo /\ u.month = t.month
    <3>. HIDE DEF n
    <3>. QED
      BY <1>1 DEF Tx
  <2>3. Numbered(p, t, u)
    <3>. HIDE DEF u
    <3>. QED
      BY <2>1, <2>2 DEF Numbered
  <2>. HIDE DEF u
  <2>. QED
    BY <1>2, <2>1, <2>2, <2>3 DEF Moves
<1>8. CASE Insert(p)
  <2>. DEFINE i == Head(t.todo)
              e == [key |-> i.key, of |-> i.of, wanted |-> i.wanted, result |-> i.result,
                    month |-> t.month, number |-> t.number]
              u == [t EXCEPT !.at = "look", !.todo = Tail(@), !.month = 0, !.number = 0,
                             !.wrote = @ \cup {e}]
  <2>1. /\ e.key = i.key /\ e.of = i.of /\ e.month = t.month /\ e.number = t.number
    OBVIOUS
  <2>2. /\ t.at = "insert" /\ \A q \in Proc \ {p} : \A f \in tx[q].wrote : ~Clash(e, f)
        /\ IF \E f \in entry : Clash(e, f) THEN Rollback(p) ELSE Step(p, u)
    BY <1>8 DEF Insert
  <2>. HIDE DEF e
  <2>3. /\ Tx(u) /\ u.at = "look" /\ u.todo = Tail(t.todo) /\ u.wrote = t.wrote \cup {e}
        /\ u.year = t.year /\ u.act = t.act
    BY <1>1 DEF Tx
  <2>. HIDE DEF u
  <2>4. CASE \A f \in entry : ~Clash(e, f)
    <3>1. Inserted(p, t, u)
      BY <2>1, <2>2, <2>3, <2>4 DEF Inserted
    <3>. QED
      BY <1>2, <2>2, <2>3, <2>4, <3>1 DEF Moves
  <2>. QED
    BY <1>3, <2>2, <2>4
<1>9. CASE CheckMonth(p)
  <2>. DEFINE m == IF t.year = 0 THEN t.month ELSE LastMonth[t.year]
              u == [t EXCEPT !.at = "seq", !.month = m, !.act = "CLOSED"]
  <2>1. Rollback(p) \/ Step(p, u)
    BY <1>9 DEF CheckMonth
  <2>2. Tx(u) /\ Checked(t, u)
    BY <1>1, <1>9 DEF CheckMonth, Checked, Tx
  <2>. HIDE DEF u
  <2>. QED
    BY <1>2, <1>3, <2>1, <2>2 DEF Moves
<1>10. CASE ReadSeq(p)
  <2>. DEFINE u == [t EXCEPT !.at = "event", !.seq = Len(event[t.month]) + 1]
  <2>1. Rollback(p) \/ (Step(p, u) /\ (t.act = "REOPENED" => IsPeriodClosed(t.month)))
    BY <1>10 DEF ReadSeq
  <2>2. (t.act = "REOPENED" => IsPeriodClosed(t.month)) => Tx(u) /\ SeqRead(t, u)
    BY <1>1, <1>10 DEF ReadSeq, SeqRead, Tx
  <2>. HIDE DEF u
  <2>. QED
    BY <1>2, <1>3, <2>1, <2>2 DEF Moves
<1>11. CASE WriteEvent(p)
  <2>. DEFINE s == IF t.year = 0 THEN "commit" ELSE "close"
              u == [t EXCEPT !.at = s]
  <2>1. Rollback(p) \/ (Step(p, u) /\ ~(Len(event[t.month]) >= t.seq))
    BY <1>11 DEF WriteEvent
  <2>2. ~(Len(event[t.month]) >= t.seq) => Tx(u) /\ EventWritten(p, t, u)
    <3>1. s \in {"close", "commit"} /\ (s = "commit" => t.year = 0)
      OBVIOUS
    <3>. HIDE DEF s
    <3>. QED
      BY <1>1, <1>11, <3>1 DEF WriteEvent, EventWritten, Tx
  <2>. HIDE DEF u
  <2>. QED
    BY <1>2, <1>3, <2>1, <2>2 DEF Moves
<1>12. CASE WriteClose(p)
  <2>1. Rollback(p) \/ (~YearClosed(t.year) /\ Step(p, [t EXCEPT !.at = "commit"]))
    BY <1>12 DEF WriteClose
  <2>2. ~YearClosed(t.year) => /\ Tx([t EXCEPT !.at = "commit"])
                               /\ CloseWritten(p, t, [t EXCEPT !.at = "commit"])
    BY <1>1, <1>12 DEF WriteClose, CloseWritten, Tx
  <2>. QED
    BY <1>2, <1>3, <2>1, <2>2 DEF Moves
<1>13. CASE Abort(p)
  BY <1>3, <1>13 DEF Abort
<1>. QED
  BY <1>4, <1>5, <1>6, <1>7, <1>8, <1>9, <1>10, <1>11, <1>12, <1>13 DEF Work
-----------------------------------------------------------------------------
(* Numbers. *)

\* The vouchers of S are numbered from c + 1 to c + n.
Run(S, c, n) ==
    /\ \A e \in S : e.number \in (c + 1)..(c + n)
    /\ \A k \in (c + 1)..(c + n) : \E e \in S : e.number = k
    /\ \A e, f \in S : e.number = f.number => e = f

Series(t) ==
    /\ IsFiniteSet(t.wrote) /\ \A e \in t.wrote : e.month \in Month
    /\ t.at \in {"number", "insert"} => t.month \in Month
    /\ t.at = "insert" =>
           t.number = counter[YearOf[t.month]] + Cardinality(Wrote(t, YearOf[t.month])) + 1
    /\ \A y \in Year : Run(Wrote(t, y), counter[y], Cardinality(Wrote(t, y)))

\* The lock of a year's counter.
Alone == \A p, q \in Proc : \A y \in Year : Holds(tx[p], y) /\ Holds(tx[q], y) => p = q

Counted ==
    /\ counter \in [Year -> Nat] /\ \A e \in entry : e.month \in Month
    /\ \A y \in Year : Run(Entries(y), 0, counter[y])

NumInv == Txs /\ Counted /\ Alone /\ \A p \in Proc : Series(tx[p])

LEMMA NumStep ==
    ASSUME NumInv, NEW p \in Proc, NEW u, Tx(u), tx' = [tx EXCEPT ![p] = u], Stored, Series(u),
           \A y \in Year : Holds(u, y) => \/ Holds(tx[p], y)
                                          \/ \A q \in Proc \ {p} : ~Holds(tx[q], y)
    PROVE  NumInv'
<1>1. Txs' /\ tx'[p] = u /\ \A q \in Proc \ {p} : tx'[q] = tx[q]
  BY After DEF NumInv
<1>2. Counted'
  BY DEF NumInv, Counted, Stored, Entries
<1>3. Alone'
  <2>1. ASSUME NEW q \in Proc \ {p}, NEW y \in Year, Holds(u, y)
        PROVE  ~Holds(tx[q], y)
    BY <2>1 DEF NumInv, Alone
  <2>2. ASSUME NEW q \in Proc, NEW r \in Proc, NEW y \in Year, Holds(tx'[q], y), Holds(tx'[r], y)
        PROVE  q = r
    BY <1>1, <2>1, <2>2 DEF NumInv, Alone
  <2>3. \A q \in Proc : \A y : Holds(tx[q], y)' <=> Holds(tx'[q], y)
    BY DEF Holds, Wrote
  <2>. QED
    BY <2>2, <2>3 DEF Alone
<1>4. \A q \in Proc : Series(tx[q])'
  <2>1. \A q \in Proc : Series(tx[q])' <=> Series(tx'[q])
    BY DEF Series, Stored, Wrote
  <2>. QED
    BY <1>1, <2>1 DEF NumInv
<1>. QED
  BY <1>1, <1>2, <1>3, <1>4 DEF NumInv

LEMMA NoRun ==
    ASSUME NEW u, u.wrote = {}, NEW y \in Year, counter \in [Year -> Nat]
    PROVE  Wrote(u, y) = {} /\ Run(Wrote(u, y), counter[y], Cardinality(Wrote(u, y)))
<1>1. Wrote(u, y) = {}
  BY DEF Wrote
<1>2. Cardinality({}) = 0
  BY FS_EmptySet
<1>. QED
  BY <1>1, <1>2 DEF Run

\* A step that takes no number and writes no voucher.
LEMMA NumQuiet ==
    ASSUME NumInv, NEW p \in Proc, NEW u, Tx(u), tx' = [tx EXCEPT ![p] = u], Stored,
           u.wrote = {} \/ u.wrote = tx[p].wrote,
           u.at # "insert", u.at = "number" => u.month \in Month
    PROVE  NumInv'
<1>1. \A y \in Year : Holds(u, y) => Holds(tx[p], y)
  BY DEF Holds, Wrote
<1>2. CASE u.wrote = {}
  <2>1. Series(u)
    BY <1>2, NoRun, FS_EmptySet DEF Series, NumInv, Counted
  <2>. QED
    BY <1>1, <2>1, NumStep
<1>3. CASE u.wrote = tx[p].wrote
  <2>1. \A y : Wrote(u, y) = Wrote(tx[p], y)
    BY <1>3 DEF Wrote
  <2>2. Series(u)
    BY <1>3, <2>1 DEF Series, NumInv
  <2>. QED
    BY <1>1, <2>2, NumStep
<1>. QED
  BY <1>2, <1>3

LEMMA NumNumber ==
    ASSUME NumInv, NEW p \in Proc, NEW u, Tx(u), tx' = [tx EXCEPT ![p] = u], Stored,
           Numbered(p, tx[p], u)
    PROVE  NumInv'
<1>1. \A y : Wrote(u, y) = Wrote(tx[p], y)
  BY DEF Wrote, Numbered
<1>2. Series(u)
  BY <1>1 DEF Series, NumInv, Numbered
<1>3. \A y \in Year : Holds(u, y) => Holds(tx[p], y) \/ \A q \in Proc \ {p} : ~Holds(tx[q], y)
  BY <1>1 DEF Holds, Numbered
<1>. QED
  BY <1>2, <1>3, NumStep

LEMMA NumInsert ==
    ASSUME NumInv, NEW p \in Proc, NEW u, Tx(u), tx' = [tx EXCEPT ![p] = u], Stored,
           Inserted(p, tx[p], u)
    PROVE  NumInv'
<1>. DEFINE t == tx[p]
            z == YearOf[t.month]
<1>1. PICK e : u.wrote = t.wrote \cup {e} /\ e.month = t.month /\ e.number = t.number
  BY DEF Inserted
<1>2. /\ Series(t) /\ t.at = "insert" /\ u.at = "look" /\ counter \in [Year -> Nat]
      /\ t.month \in Month /\ z \in Year /\ e.month \in Month
      /\ e.number = counter[z] + Cardinality(Wrote(t, z)) + 1
  BY <1>1, TimeAssumption DEF Inserted, NumInv, Counted, Series
<1>3. Wrote(u, z) = Wrote(t, z) \cup {e} /\ \A y \in Year \ {z} : Wrote(u, y) = Wrote(t, y)
  BY <1>1, <1>2 DEF Wrote
<1>4. IsFiniteSet(Wrote(t, z)) /\ Cardinality(Wrote(t, z)) \in Nat
  <2>1. Wrote(t, z) \subseteq t.wrote
    BY DEF Wrote
  <2>. QED
    BY <1>2, <2>1, FS_Subset, FS_CardinalityType DEF Series
<1>5. Run(Wrote(t, z), counter[z], Cardinality(Wrote(t, z)))
  BY <1>2 DEF Series
<1>6. e \notin Wrote(t, z)
  BY <1>2, <1>4, <1>5 DEF Run
<1>7. Cardinality(Wrote(u, z)) = Cardinality(Wrote(t, z)) + 1
  BY <1>3, <1>4, <1>6, FS_AddElement
<1>8. Run(Wrote(u, z), counter[z], Cardinality(Wrote(u, z)))
  <2>. DEFINE n == Cardinality(Wrote(t, z))
              c == counter[z]
              S == Wrote(t, z)
  <2>1. n \in Nat /\ c \in Nat /\ e.number = c + n + 1 /\ Run(S, c, n)
    BY <1>2, <1>4, <1>5
  <2>. HIDE DEF n, c, S
  <2>2. Run(S \cup {e}, c, n + 1)
    BY <2>1 DEF Run
  <2>. QED
    BY <1>3, <1>7, <2>2 DEF n, c, S
<1>9. Series(u)
  <2>1. IsFiniteSet(u.wrote)
    BY <1>1, <1>2, FS_AddElement DEF Series
  <2>2. \A y \in Year : Run(Wrote(u, y), counter[y], Cardinality(Wrote(u, y)))
    BY <1>2, <1>3, <1>8 DEF Series
  <2>3. \A f \in u.wrote : f.month \in Month
    BY <1>1, <1>2 DEF Series
  <2>. QED
    BY <1>2, <2>1, <2>2, <2>3 DEF Series
<1>10. \A y \in Year : Holds(u, y) => Holds(t, y)
  BY <1>2, <1>3 DEF Holds
<1>. QED
  BY <1>9, <1>10, NumStep

LEMMA NumCommit ==
    ASSUME NumInv, NEW p \in Proc, Commit(p)
    PROVE  NumInv'
<1>. DEFINE t == tx[p]
            n(y) == Cardinality(Wrote(t, y))
<1>1. /\ Txs' /\ tx'[p] = Idle /\ \A q \in Proc \ {p} : tx'[q] = tx[q]
      /\ t.at \in {"look", "commit"} /\ entry' = entry \cup t.wrote
      /\ counter' = [y \in Year |-> counter[y] + n(y)]
  BY After, IdleIs DEF NumInv, Commit
<1>2. /\ Series(t) /\ counter \in [Year -> Nat]
  BY DEF NumInv, Counted
<1>3. \A y \in Year : n(y) \in Nat
  <2>1. \A y : Wrote(t, y) \subseteq t.wrote
    BY DEF Wrote
  <2>. QED
    BY <1>2, <2>1, FS_Subset, FS_CardinalityType DEF Series
<1>4. counter' \in [Year -> Nat] /\ \A y \in Year : counter'[y] = counter[y] + n(y)
  BY <1>1, <1>2, <1>3
<1>5. Counted'
  <2>1. \A y : Entries(y)' = Entries(y) \cup Wrote(t, y)
    BY <1>1 DEF Entries, Wrote
  <2>2. ASSUME NEW y \in Year
        PROVE  Run(Entries(y)', 0, counter'[y])
    <3>. DEFINE S == Entries(y)  W == Wrote(t, y)  c == counter[y]  k == n(y)
    <3>1. c \in Nat /\ k \in Nat /\ Run(S, 0, c) /\ Run(W, c, k)
      BY <1>2, <1>3 DEF Series, NumInv, Counted
    <3>. HIDE DEF S, W, c, k
    <3>2. Run(S \cup W, 0, c + k)
      <4>1. \A e \in S : e.number \in 1..c
        BY <3>1 DEF Run
      <4>2. \A e \in W : e.number \in (c + 1)..(c + k)
        BY <3>1 DEF Run
      <4>3. \A e, f \in S \cup W : e.number = f.number => e = f
        BY <3>1, <4>1, <4>2 DEF Run
      <4>4. \A i \in 1..(c + k) : \E e \in S \cup W : e.number = i
        <5>1. ASSUME NEW i \in 1..(c + k)
              PROVE  \E e \in S \cup W : e.number = i
          <6>1. i \in 1..c \/ i \in (c + 1)..(c + k)
            BY <3>1
          <6>. QED
            BY <3>1, <6>1 DEF Run
        <5>. QED
          BY <5>1
      <4>5. \A e \in S \cup W : e.number \in 1..(c + k)
        BY <3>1, <4>1, <4>2
      <4>. QED
        BY <3>1, <4>3, <4>4, <4>5 DEF Run
    <3>. QED
      BY <1>4, <2>1, <3>2 DEF S, W, c, k
  <2>3. \A e \in entry' : e.month \in Month
    BY <1>1, <1>2 DEF Series, NumInv, Counted
  <2>. QED
    BY <1>4, <2>2, <2>3 DEF Counted
<1>6. Alone'
  <2>1. ASSUME NEW y \in Year
        PROVE  ~Holds(tx'[p], y)
    BY <1>1, IdleIs DEF Holds, Wrote
  <2>2. \A q \in Proc : \A y : Holds(tx[q], y)' <=> Holds(tx'[q], y)
    BY DEF Holds, Wrote
  <2>. QED
    BY <1>1, <2>1, <2>2 DEF NumInv, Alone
<1>7. ASSUME NEW q \in Proc
      PROVE  Series(tx[q])'
  <2>1. CASE q = p
    <3>1. Series(Idle)'
      <4>1. \A y : Wrote(Idle, y) = {}
        BY IdleIs DEF Wrote
      <4>2. \A y \in Year : Run({}, counter'[y], Cardinality({}))
        BY <1>4, FS_EmptySet DEF Run
      <4>. QED
        BY <4>1, <4>2, IdleIs, FS_EmptySet DEF Series, Wrote
    <3>. QED
      BY <1>1, <2>1, <3>1 DEF Series, Wrote
  <2>2. CASE q # p
    <3>. DEFINE s == tx[q]
    <3>0. tx'[q] = s /\ Series(s)
      BY <1>1, <2>2 DEF NumInv
    <3>1. ASSUME NEW y \in Year, Holds(s, y)
          PROVE  counter'[y] = counter[y]
      <4>1. Wrote(t, y) = {}
        BY <2>2, <3>1 DEF NumInv, Alone, Holds
      <4>2. n(y) = 0
        BY <4>1, FS_EmptySet
      <4>. QED
        BY <1>2, <1>4, <4>2
    <3>2. \A y \in Year : Run(Wrote(s, y), counter'[y], Cardinality(Wrote(s, y)))
      <4>1. ASSUME NEW y \in Year, Wrote(s, y) = {}
            PROVE  Run(Wrote(s, y), counter'[y], Cardinality(Wrote(s, y)))
        BY <1>4, <4>1, FS_EmptySet DEF Run
      <4>. QED
        BY <3>0, <3>1, <4>1 DEF Series, Holds
    <3>3. s.at = "insert" =>
              s.number = counter'[YearOf[s.month]] + Cardinality(Wrote(s, YearOf[s.month])) + 1
      <4>1. ASSUME s.at = "insert"
            PROVE  YearOf[s.month] \in Year /\ Holds(s, YearOf[s.month])
        BY <3>0, <4>1, TimeAssumption DEF Series, Holds
      <4>. QED
        BY <3>0, <3>1, <4>1 DEF Series
    <3>4. Series(tx[q])' <=> Series(s)'
      BY <3>0 DEF Series, Wrote
    <3>. QED
      BY <3>0, <3>2, <3>3 DEF Series, Wrote
  <2>. QED
    BY <2>1, <2>2
<1>. QED
  BY <1>1, <1>5, <1>6, <1>7 DEF NumInv

LEMMA NumNext ==
    ASSUME NumInv, [Next]_vars
    PROVE  NumInv'
<1>1. CASE Tick \/ UNCHANGED vars
  <2>1. entry' = entry /\ counter' = counter /\ tx' = tx
    BY <1>1 DEF Tick, vars
  <2>2. Txs'
    BY <2>1 DEF NumInv, Txs
  <2>3. Counted'
    BY <2>1 DEF NumInv, Counted, Entries
  <2>4. Alone'
    BY <2>1 DEF NumInv, Alone, Holds, Wrote
  <2>5. \A p \in Proc : Series(tx[p])'
    BY <2>1 DEF NumInv, Series, Wrote
  <2>. QED
    BY <2>2, <2>3, <2>4, <2>5 DEF NumInv
<1>2. ASSUME NEW p \in Proc, Request(p)
      PROVE  NumInv'
  <2>1. PICK u : tx' = [tx EXCEPT ![p] = u] /\ Tx(u) /\ Begun(u) /\ Stored
    BY <1>2, RequestIs DEF NumInv
  <2>. QED
    BY <2>1, NumQuiet DEF Begun
<1>3. ASSUME NEW p \in Proc, Work(p) \/ Abort(p), ~Commit(p)
      PROVE  NumInv'
  <2>1. PICK u : tx' = [tx EXCEPT ![p] = u] /\ Tx(u) /\ Moves(p, tx[p], u) /\ Stored
    BY <1>3, WorkIs DEF NumInv
  <2>2. CASE u = Idle
    BY <2>1, <2>2, NumQuiet, IdleIs
  <2>3. CASE Numbered(p, tx[p], u)
    BY <2>1, <2>3, NumNumber
  <2>4. CASE Inserted(p, tx[p], u)
    BY <2>1, <2>4, NumInsert
  <2>5. CASE \/ Drafted(tx[p], u) \/ Looked(tx[p], u) \/ Dated(tx[p], u) \/ Checked(tx[p], u)
             \/ SeqRead(tx[p], u) \/ EventWritten(p, tx[p], u) \/ CloseWritten(p, tx[p], u)
    <3>1. u.wrote = tx[p].wrote /\ u.at # "insert" /\ (u.at = "number" => u.month \in Month)
      BY <2>5 DEF Drafted, Looked, Dated, Checked, SeqRead, EventWritten, CloseWritten
    <3>. QED
      BY <2>1, <3>1, NumQuiet
  <2>. QED
    BY <2>1, <2>2, <2>3, <2>4, <2>5 DEF Moves
<1>. QED
  BY <1>1, <1>2, <1>3, NumCommit DEF Next

LEMMA NumInit == Init => NumInv
<1>. SUFFICES ASSUME Init
              PROVE  NumInv
  OBVIOUS
<1>1. Txs /\ \A p \in Proc : tx[p] = Idle
  BY IdleIs DEF Init, Txs
<1>2. Counted
  BY DEF Init, Counted, Entries, Run
<1>3. \A p \in Proc : Series(tx[p])
  BY <1>1, <1>2, IdleIs, NoRun, FS_EmptySet DEF Series, Counted
<1>4. Alone
  BY <1>1, IdleIs DEF Alone, Holds, Wrote
<1>. QED
  BY <1>1, <1>2, <1>3, <1>4 DEF NumInv

\* allocate: a year's vouchers are numbered from 1 without a gap, and no two bear
\* one number, whatever is rolled back.
THEOREM NumbersWithoutGap == Spec => []GapFree
<1>1. NumInv => GapFree
  <2>1. ASSUME NumInv, NEW y \in Year
        PROVE  /\ {e.number : e \in Entries(y)} = 1..counter[y]
               /\ \A e, f \in Entries(y) : e.number = f.number => e = f
    <3>1. Run(Entries(y), 0, counter[y]) /\ counter[y] \in Nat
      BY <2>1 DEF NumInv, Counted
    <3>. QED
      BY <3>1 DEF Run
  <2>. QED
    BY <2>1 DEF GapFree
<1>. QED
  BY <1>1, NumInit, NumNext, PTL DEF Spec

-----------------------------------------------------------------------------
(* Months. *)

\* What a transaction knows of the month it closes or opens again: the number it
\* read may be taken by now, and once its event is written it is the next.
Eventful(t) ==
    /\ t.at = "draft" => t.year \in Year
    /\ t.year = 0 \/ t.year \in Year
    /\ t.at \in {"look", "date", "number", "insert", "draft"} => t.act = None
    /\ t.at = "month" /\ t.year = 0 => t.month \in Month
    /\ t.at \in {"seq", "event", "close", "commit"} =>
           t.month \in Month /\ t.act \in {"CLOSED", "REOPENED"}
    /\ t.at \in {"event", "close", "commit"} =>
           /\ t.seq \in 1..(Len(event[t.month]) + 1)
           /\ t.act = "REOPENED" => t.seq > 1 /\ event[t.month][t.seq - 1] = "CLOSED"
    /\ t.at \in {"close", "commit"} => t.seq = Len(event[t.month]) + 1

Written(t) == t.at \in {"close", "commit"}

\* The unique index on the events.
Sole == \A p, q \in Proc :
    Written(tx[p]) /\ Written(tx[q]) /\ tx[p].month = tx[q].month /\ tx[p].seq = tx[q].seq => p = q

History == event \in [Month -> Seq({"CLOSED", "REOPENED"})] /\ ReopenedOnce

EventInv == Txs /\ History /\ Sole /\ \A p \in Proc : Eventful(tx[p])

LEMMA EventStep ==
    ASSUME EventInv, NEW p \in Proc, NEW u, Tx(u), tx' = [tx EXCEPT ![p] = u], Stored, Eventful(u),
           Written(u) =>
               \/ Written(tx[p]) /\ u.month = tx[p].month /\ u.seq = tx[p].seq
               \/ \A q \in Proc \ {p} : ~(Written(tx[q]) /\ tx[q].month = u.month /\ tx[q].seq = u.seq)
    PROVE  EventInv'
<1>1. Txs' /\ tx'[p] = u /\ \A q \in Proc \ {p} : tx'[q] = tx[q]
  BY After DEF EventInv
<1>2. History'
  BY DEF EventInv, History, ReopenedOnce, Reopenings, Stored
<1>3. Sole'
  <2>1. ASSUME NEW q \in Proc \ {p}, Written(u), Written(tx[q]), u.month = tx[q].month, u.seq = tx[q].seq
        PROVE  FALSE
    BY <2>1 DEF EventInv, Sole
  <2>2. ASSUME NEW q \in Proc, NEW r \in Proc, Written(tx'[q]), Written(tx'[r]),
               tx'[q].month = tx'[r].month, tx'[q].seq = tx'[r].seq
        PROVE  q = r
    BY <1>1, <2>1, <2>2 DEF EventInv, Sole
  <2>. QED
    BY <2>2 DEF Sole, Written
<1>4. \A q \in Proc : Eventful(tx[q])'
  <2>1. \A q \in Proc : Eventful(tx[q])' <=> Eventful(tx'[q])
    BY DEF Eventful, Stored
  <2>. QED
    BY <1>1, <2>1 DEF EventInv
<1>. QED
  BY <1>1, <1>2, <1>3, <1>4 DEF EventInv

LEMMA EventMoves ==
    ASSUME EventInv, NEW p \in Proc, NEW u, Tx(u), tx' = [tx EXCEPT ![p] = u], Stored,
           Moves(p, tx[p], u)
    PROVE  EventInv'
<1>. DEFINE t == tx[p]
<1>1. Eventful(t) /\ History
  BY DEF EventInv
<1>2. CASE u = Idle
  BY <1>2, IdleIs, EventStep DEF Eventful, Written
<1>3. CASE Drafted(t, u) \/ Looked(t, u) \/ Dated(t, u) \/ Numbered(p, t, u) \/ Inserted(p, t, u)
  <2>1. Eventful(u) /\ ~Written(u)
    BY <1>1, <1>3, TimeAssumption DEF Eventful, Written, Drafted, Looked, Dated, Numbered, Inserted
  <2>. QED
    BY <2>1, EventStep
<1>4. CASE Checked(t, u)
  <2>1. Eventful(u) /\ ~Written(u)
    BY <1>1, <1>4, TimeAssumption DEF Eventful, Written, Checked
  <2>. QED
    BY <2>1, EventStep
<1>5. CASE SeqRead(t, u)
  <2>. DEFINE l == event[t.month]
  <2>1. /\ t.month \in Month /\ u.month = t.month /\ u.act = t.act /\ u.seq = Len(l) + 1
        /\ t.act \in {"CLOSED", "REOPENED"} /\ u.at = "event" /\ u.year = t.year
        /\ t.year = 0 \/ t.year \in Year
    BY <1>1, <1>5 DEF SeqRead, Eventful
  <2>2. l \in Seq({"CLOSED", "REOPENED"}) /\ Len(l) \in Nat
    BY <1>1, <2>1 DEF History
  <2>3. u.act = "REOPENED" => u.seq > 1 /\ l[u.seq - 1] = "CLOSED"
    <3>1. SUFFICES ASSUME t.act = "REOPENED"
                   PROVE  Len(l) > 0 /\ l[Len(l)] = "CLOSED"
      BY <2>1, <2>2
    <3>2. Last(l) = "CLOSED"
      BY <1>5, <3>1 DEF SeqRead, IsPeriodClosed
    <3>3. l # <<>> /\ l[Len(l)] = "CLOSED"
      BY <3>2 DEF Last, None
    <3>. QED
      BY <2>2, <3>3
  <2>4. Eventful(u) /\ ~Written(u)
    BY <2>1, <2>2, <2>3 DEF Eventful, Written
  <2>. QED
    BY <2>4, EventStep
<1>6. CASE EventWritten(p, t, u)
  <2>1. /\ t.month \in Month /\ u.month = t.month /\ u.act = t.act /\ u.seq = t.seq
        /\ t.seq \in 1..(Len(event[t.month]) + 1) /\ Written(u)
        /\ ~(Len(event[t.month]) >= t.seq) /\ Len(event[t.month]) \in Nat
    BY <1>1, <1>6 DEF EventWritten, Eventful, History, Written
  <2>2. Eventful(u)
    BY <1>1, <1>6, <2>1 DEF EventWritten, Eventful
  <2>3. \A q \in Proc \ {p} : ~(Written(tx[q]) /\ tx[q].month = u.month /\ tx[q].seq = u.seq)
    <3>1. \A q \in Proc : Written(tx[q]) => tx[q].act # None
      BY DEF EventInv, Eventful, Written, None
    <3>. QED
      BY <1>6, <2>1, <3>1 DEF EventWritten, WroteEvent, Written
  <2>. QED
    BY <2>2, <2>3, EventStep
<1>7. CASE CloseWritten(p, t, u)
  <2>1. Eventful(u) /\ Written(t) /\ u.month = t.month /\ u.seq = t.seq
    BY <1>1, <1>7 DEF CloseWritten, Eventful, Written
  <2>. QED
    BY <2>1, EventStep
<1>. QED
  BY <1>2, <1>3, <1>4, <1>5, <1>6, <1>7 DEF Moves

\* What was numbered, is numbered as it was.
LEMMA Appended ==
    ASSUME NEW S, NEW l \in Seq(S), NEW a \in S
    PROVE  /\ Append(l, a) \in Seq(S) /\ Len(l) \in Nat /\ Len(Append(l, a)) = Len(l) + 1
           /\ \A n \in 1..Len(l) : Append(l, a)[n] = l[n]
           /\ Append(l, a)[Len(l) + 1] = a
  OBVIOUS

LEMMA EventCommit ==
    ASSUME EventInv, NEW p \in Proc, Commit(p)
    PROVE  EventInv'
<1>. DEFINE t == tx[p]
            A == {"CLOSED", "REOPENED"}
<1>. PICK m : m = t.month
  OBVIOUS
<1>1. /\ Txs' /\ tx'[p] = Idle /\ \A q \in Proc \ {p} : tx'[q] = tx[q]
      /\ t.at \in {"look", "commit"} /\ Eventful(t) /\ History
  BY After, IdleIs DEF EventInv, Commit
<1>2. CASE t.act = None
  <2>1. event' = event
    BY <1>2 DEF Commit
  <2>2. History' /\ Eventful(Idle)'
    BY <1>1, <2>1, IdleIs DEF History, ReopenedOnce, Reopenings, Eventful
  <2>3. ASSUME NEW q \in Proc
        PROVE  Eventful(tx[q])'
    <3>1. CASE q = p
      BY <1>1, <3>1, IdleIs DEF Eventful
    <3>2. CASE q # p
      BY <1>1, <2>1, <3>2 DEF EventInv, Eventful
    <3>. QED
      BY <3>1, <3>2
  <2>5. Sole'
    BY <1>1, IdleIs DEF EventInv, Sole, Written
  <2>. QED
    BY <1>1, <2>2, <2>3, <2>5 DEF EventInv
<1>3. CASE t.act # None
  <2>1. /\ event' = [event EXCEPT ![m] = Append(@, t.act)] /\ t.at = "commit"
        /\ m \in Month /\ t.act \in A /\ t.seq = Len(event[m]) + 1
        /\ event \in [Month -> Seq(A)]
        /\ t.act = "REOPENED" => t.seq > 1 /\ event[m][t.seq - 1] = "CLOSED"
    BY <1>1, <1>3 DEF Commit, Eventful, History
  <2>2. /\ event'[m] = Append(event[m], t.act) /\ event[m] \in Seq(A)
        /\ \A n \in Month \ {m} : event'[n] = event[n]
    BY <2>1
  <2>3. /\ event'[m] \in Seq(A) /\ Len(event[m]) \in Nat /\ Len(event'[m]) = Len(event[m]) + 1
        /\ \A n \in 1..Len(event[m]) : event'[m][n] = event[m][n]
        /\ event'[m][Len(event[m]) + 1] = t.act
    BY <2>1, <2>2, Appended
  <2>4. event' \in [Month -> Seq(A)]
    BY <2>1, <2>2, <2>3
  <2>5. \A n \in Month : /\ Len(event[n]) \in Nat /\ Len(event'[n]) >= Len(event[n])
                         /\ \A i \in 1..Len(event[n]) : event'[n][i] = event[n][i]
    <3>1. \A n \in Month : Len(event[n]) \in Nat
      BY <2>1
    <3>. QED
      BY <2>2, <2>3, <3>1
  <2>6. ReopenedOnce'
    <3>1. ASSUME NEW n \in 1..Len(event'[m]), event'[m][n] = "REOPENED"
          PROVE  n > 1 /\ event'[m][n - 1] = "CLOSED"
      <4>1. CASE n = Len(event[m]) + 1
        BY <2>1, <2>3, <3>1, <4>1
      <4>2. CASE n \in 1..Len(event[m])
        <5>1. event[m][n] = "REOPENED"
          BY <2>3, <3>1, <4>2
        <5>2. n > 1 /\ event[m][n - 1] = "CLOSED"
          BY <1>1, <2>1, <4>2, <5>1 DEF History, ReopenedOnce, Reopenings
        <5>. QED
          BY <2>3, <4>2, <5>2
      <4>. QED
        BY <2>3, <3>1, <4>1, <4>2
    <3>2. Reopenings(m)'
      BY <3>1 DEF Reopenings
    <3>3. ASSUME NEW n \in Month \ {m}
          PROVE  Reopenings(n)'
      BY <1>1, <2>2, <3>3 DEF Reopenings, History, ReopenedOnce
    <3>. QED
      BY <3>2, <3>3 DEF ReopenedOnce
  <2>7. ASSUME NEW q \in Proc
        PROVE  Eventful(tx[q])'
    <3>1. CASE q = p
      BY <1>1, <3>1, IdleIs DEF Eventful
    <3>2. CASE q # p
      <4>. DEFINE s == tx[q]
      <4>1. tx'[q] = s /\ Eventful(s)
        BY <1>1, <3>2 DEF EventInv
      <4>2. s.at \in {"event", "close", "commit"} =>
                /\ s.seq \in 1..(Len(event'[s.month]) + 1)
                /\ s.act = "REOPENED" => s.seq > 1 /\ event'[s.month][s.seq - 1] = "CLOSED"
        <5>. SUFFICES ASSUME s.at \in {"event", "close", "commit"}
                      PROVE  /\ s.seq \in 1..(Len(event'[s.month]) + 1)
                             /\ s.act = "REOPENED" => s.seq > 1 /\ event'[s.month][s.seq - 1] = "CLOSED"
          OBVIOUS
        <5>1. /\ s.month \in Month /\ s.seq \in 1..(Len(event[s.month]) + 1)
              /\ s.act = "REOPENED" => s.seq > 1 /\ event[s.month][s.seq - 1] = "CLOSED"
          BY <4>1 DEF Eventful
        <5>2. /\ Len(event[s.month]) \in Nat /\ Len(event'[s.month]) \in Nat
              /\ Len(event'[s.month]) >= Len(event[s.month])
              /\ \A i \in 1..Len(event[s.month]) : event'[s.month][i] = event[s.month][i]
          BY <2>4, <2>5, <5>1
        <5>3. s.act = "REOPENED" => s.seq - 1 \in 1..Len(event[s.month])
          BY <5>1, <5>2
        <5>4. s.seq \in 1..(Len(event'[s.month]) + 1)
          BY <5>1, <5>2
        <5>. QED
          BY <5>1, <5>2, <5>3, <5>4
      <4>3. s.at \in {"close", "commit"} => s.seq = Len(event'[s.month]) + 1
        <5>1. CASE s.month = m
          BY <1>1, <2>1, <3>2, <4>1, <5>1 DEF EventInv, Sole, Written, Eventful
        <5>2. CASE s.month # m
          BY <2>2, <4>1, <5>2 DEF Eventful
        <5>. QED
          BY <5>1, <5>2
      <4>. QED
        BY <4>1, <4>2, <4>3 DEF Eventful
    <3>. QED
      BY <3>1, <3>2
  <2>8. Sole'
    BY <1>1, IdleIs DEF EventInv, Sole, Written
  <2>. QED
    BY <1>1, <2>4, <2>6, <2>7, <2>8 DEF EventInv, History
<1>. QED
  BY <1>2, <1>3

LEMMA EventNext ==
    ASSUME EventInv, [Next]_vars
    PROVE  EventInv'
<1>1. CASE Tick \/ UNCHANGED vars
  <2>1. event' = event /\ tx' = tx
    BY <1>1 DEF Tick, vars
  <2>2. Txs' /\ Sole' /\ \A q \in Proc : Eventful(tx[q])'
    BY <2>1 DEF EventInv, Txs, Sole, Eventful, Written
  <2>3. History'
    BY <2>1 DEF EventInv, History, ReopenedOnce, Reopenings
  <2>. QED
    BY <2>2, <2>3 DEF EventInv
<1>2. ASSUME NEW p \in Proc, Request(p)
      PROVE  EventInv'
  <2>1. PICK u : tx' = [tx EXCEPT ![p] = u] /\ Tx(u) /\ Begun(u) /\ Stored
    BY <1>2, RequestIs DEF EventInv
  <2>2. Eventful(u) /\ ~Written(u)
    BY <2>1, TimeAssumption DEF Begun, Eventful, Written
  <2>. QED
    BY <2>1, <2>2, EventStep
<1>3. ASSUME NEW p \in Proc, Work(p) \/ Abort(p), ~Commit(p)
      PROVE  EventInv'
  BY <1>3, WorkIs, EventMoves DEF EventInv
<1>. QED
  BY <1>1, <1>2, <1>3, EventCommit DEF Next

LEMMA EventInit == Init => EventInv
<1>. SUFFICES ASSUME Init
              PROVE  EventInv
  OBVIOUS
<1>1. Txs /\ \A p \in Proc : tx[p] = Idle
  BY IdleIs DEF Init, Txs
<1>2. Sole /\ \A p \in Proc : Eventful(tx[p])
  BY <1>1, IdleIs DEF Sole, Eventful, Written
<1>3. History
  BY DEF Init, History, ReopenedOnce, Reopenings
<1>. QED
  BY <1>1, <1>2, <1>3 DEF EventInv

\* appendPeriodReopenedEvent and the unique index on the events: every reopening of
\* a month stands right after a closing of it, so that two bookkeepers who reopen
\* it at once open it once.
THEOREM ReopenedRightAfter == Spec => []ReopenedOnce
<1>1. EventInv => ReopenedOnce
  BY DEF EventInv, History
<1>. QED
  BY <1>1, EventInit, EventNext, PTL DEF Spec

\* The columns keep their types: a voucher's number is at least 1, a counter counts
\* from 0, a month's history holds closings and reopenings only.
THEOREM VouchersTyped == Spec => []TypeOK
<1>1. Init => today \in Month
  BY DEF Init
<1>2. ASSUME NumInv, today \in Month, [Next]_vars
      PROVE  today' \in Month
  <2>1. ASSUME NEW p \in Proc, Request(p) \/ Work(p) \/ Abort(p)
        PROVE  today' = today
    BY <1>2, <2>1, RequestIs, WorkIs DEF NumInv, Commit
  <2>. QED
    BY <1>2, <2>1 DEF Next, Tick, vars
<1>3. NumInv /\ EventInv /\ today \in Month => TypeOK
  <2>1. ASSUME NumInv, NEW e \in entry
        PROVE  e.number \in Nat \ {0} /\ e.month \in Month
    <3>. DEFINE y == YearOf[e.month]
    <3>1. e.month \in Month /\ y \in Year
      BY <2>1, TimeAssumption DEF NumInv, Counted
    <3>2. e \in Entries(y)
      BY DEF Entries
    <3>3. counter[y] \in Nat /\ Run(Entries(y), 0, counter[y])
      BY <2>1, <3>1 DEF NumInv, Counted
    <3>. QED
      BY <3>1, <3>2, <3>3 DEF Run
  <2>. QED
    BY <2>1 DEF TypeOK, NumInv, Counted, EventInv, History
<1>. DEFINE Today == today \in Month
<1>4. Init => NumInv /\ EventInv /\ Today
  BY <1>1, NumInit, EventInit
<1>5. NumInv /\ EventInv /\ Today /\ [Next]_vars => (NumInv /\ EventInv /\ Today)'
  BY <1>2, NumNext, EventNext
<1>. HIDE DEF Today
<1>6. NumInv /\ EventInv /\ Today => TypeOK
  BY <1>3 DEF Today
<1>. QED
  BY <1>4, <1>5, <1>6, PTL DEF Spec

-----------------------------------------------------------------------------
(* Keys. *)

Keys(W) == {e.key : e \in W}

\* Either both vouchers of an accrual or neither.
Whole(W) == \A a \in Accrual : a \in Keys(W) <=> FollowUp[a].key \in Keys(W)

\* A key that no accrual has.
Single(k) == k \notin Accrual /\ \A a \in Accrual : k # FollowUp[a].key

\* What a transaction has written and has left to write: one voucher; both of an
\* accrual, the first done or found there; or nothing more.
Stage(t) ==
    \/ t.todo = <<>> /\ Whole(t.wrote)
    \/ \E i : t.todo = <<i>> /\ Single(i.key) /\ t.wrote = {}
    \/ \E i, j : /\ t.todo = <<i, j>> /\ i.key \in Accrual /\ j.key = FollowUp[i.key].key
                 /\ j.of = None /\ i.of = None /\ t.wrote = {}
    \/ \E e, j : /\ t.todo = <<j>> /\ e.key \in Accrual /\ j.key = FollowUp[e.key].key
                 /\ j.of = None /\ t.wrote = {e}
    \/ \E a \in Accrual : \E j : /\ t.todo = <<j>> /\ j.key = FollowUp[a].key
                                 /\ t.wrote = {} /\ Booked(a) /\ t.at = "look"

Keyed(t) ==
    /\ Stage(t)
    /\ t.at \in {"date", "number", "insert"} => t.todo # <<>>
    /\ t.at = "draft" => t.wrote = {} /\ t.todo = <<>>  /\ t.year \in Year
    /\ t.at \in {"month", "seq", "event", "close", "commit"} => t.todo = <<>>
    /\ \A e, f \in t.wrote : e # f => ~Clash(e, f)
    /\ \A e \in t.wrote, f \in entry : ~Clash(e, f)

\* The unique indexes on the vouchers.
Apart == \A p, q \in Proc : p # q => \A e \in tx[p].wrote, f \in tx[q].wrote : ~Clash(e, f)

KeyInv == Txs /\ BookedOnce /\ AccrualTakenBack /\ Apart /\ \A p \in Proc : Keyed(tx[p])

LEMMA Lists ==
    /\ \A i : Head(<<i>>) = i /\ Tail(<<i>>) = <<>> /\ <<i>> # <<>>
    /\ \A i, j : Head(<<i, j>>) = i /\ Tail(<<i, j>>) = <<j>> /\ <<i, j>> # <<>>
    /\ \A i, j : <<i>> = <<j>> => i = j
    /\ \A i, j, k : <<i, j>> # <<k>>
    /\ \A i, j, k, l : <<i, j>> = <<k, l>> => i = k /\ j = l
  OBVIOUS

LEMMA ClashIs ==
    /\ \A e, f : Clash(e, f) <=> Clash(f, e)
    /\ \A e, f : ~Clash(e, f) <=> e.key # f.key /\ (e.of = f.of => e.of = None)
  BY DEF Clash

LEMMA Follows ==
    ASSUME NEW a \in Accrual
    PROVE  /\ FollowUp[a].key \notin Accrual
           /\ \A b \in Accrual : FollowUp[a].key = FollowUp[b].key => a = b
  BY KeyAssumption

LEMMA Singles ==
    /\ \A k \in Plain \cup Reversal : Single(k)
    /\ \A y \in Year : Single(y)
<1>1. ASSUME NEW k \in Plain
      PROVE  Single(k)
  BY DEF Plain, Single
<1>2. ASSUME NEW k \in Reversal
      PROVE  Single(k)
  BY KeyAssumption DEF Single
<1>3. ASSUME NEW y \in Year
      PROVE  Single(y)
  <2>1. \A a \in Accrual : a \in Key /\ FollowUp[a].key \in Key
    BY KeyAssumption
  <2>. QED
    BY <2>1, KeyAssumption DEF Single
<1>. QED
  BY <1>1, <1>2, <1>3

LEMMA KeyStep ==
    ASSUME KeyInv, NEW p \in Proc, NEW u, Tx(u), tx' = [tx EXCEPT ![p] = u], Stored, Keyed(u),
           \A q \in Proc \ {p} : \A e \in u.wrote \ tx[p].wrote, f \in tx[q].wrote : ~Clash(e, f)
    PROVE  KeyInv'
<1>1. Txs' /\ tx'[p] = u /\ \A q \in Proc \ {p} : tx'[q] = tx[q]
  BY After DEF KeyInv
<1>2. BookedOnce' /\ AccrualTakenBack'
  BY DEF KeyInv, BookedOnce, AccrualTakenBack, Booked, Stored
<1>3. ASSUME NEW q \in Proc \ {p}, NEW e \in u.wrote, NEW f \in tx[q].wrote
      PROVE  ~Clash(e, f) /\ ~Clash(f, e)
  BY ClashIs DEF KeyInv, Apart
<1>4. Apart'
  BY <1>1, <1>3 DEF KeyInv, Apart
<1>5. ASSUME NEW q \in Proc
      PROVE  Keyed(tx[q])'
  <2>1. Keyed(tx'[q])
    BY <1>1 DEF KeyInv
  <2>2. \A k : Booked(k)' <=> Booked(k)
    BY DEF Booked, Stored
  <2>3. Stage(tx[q])'
    BY <2>1, <2>2 DEF Keyed, Stage
  <2>. QED
    BY <2>1, <2>3 DEF Keyed, Stored
<1>. QED
  BY <1>1, <1>2, <1>4, <1>5 DEF KeyInv

\* A step that writes no voucher.
LEMMA KeyQuiet ==
    ASSUME KeyInv, NEW p \in Proc, NEW u, Tx(u), tx' = [tx EXCEPT ![p] = u], Stored,
           u.wrote = {} \/ u.wrote = tx[p].wrote, Stage(u),
           u.at \in {"date", "number", "insert"} => u.todo # <<>>,
           u.at = "draft" => u.wrote = {} /\ u.todo = <<>> /\ u.year \in Year,
           u.at \in {"month", "seq", "event", "close", "commit"} => u.todo = <<>>
    PROVE  KeyInv'
<1>1. Keyed(tx[p])
  BY DEF KeyInv
<1>2. Keyed(u)
  BY <1>1 DEF Keyed
<1>. QED
  BY <1>2, KeyStep

LEMMA KeyLook ==
    ASSUME KeyInv, NEW p \in Proc, NEW u, Tx(u), tx' = [tx EXCEPT ![p] = u], Stored,
           Looked(tx[p], u)
    PROVE  KeyInv'
<1>. DEFINE t == tx[p]
<1>1. /\ Stage(t) /\ t.todo # <<>> /\ u.wrote = t.wrote /\ AccrualTakenBack
      /\ \A e \in t.wrote, f \in entry : ~Clash(e, f)
  BY DEF KeyInv, Keyed, Looked
<1>2. CASE ~Booked(Head(t.todo).key)
  <2>1. u.at = "date" /\ u.todo = t.todo
    BY <1>2 DEF Looked
  <2>2. ~\E a \in Accrual : \E j : /\ t.todo = <<j>> /\ j.key = FollowUp[a].key
                                 /\ t.wrote = {} /\ Booked(a) /\ t.at = "look"
    BY <1>1, <1>2, Lists DEF AccrualTakenBack
  <2>3. Stage(u)
    BY <1>1, <2>1, <2>2 DEF Stage
  <2>. QED
    BY <1>1, <2>1, <2>3, KeyQuiet
<1>3. CASE Booked(Head(t.todo).key)
  <2>1. u.at = "look" /\ u.todo = Tail(t.todo)
    BY <1>3 DEF Looked
  <2>2. CASE t.wrote = {} /\ \E i : t.todo = <<i>>
    <3>1. u.todo = <<>> /\ Whole(u.wrote)
      BY <1>1, <2>1, <2>2, Lists DEF Whole, Keys
    <3>. QED
      BY <1>1, <2>1, <3>1, KeyQuiet DEF Stage
  <2>3. ASSUME NEW i, NEW j, t.todo = <<i, j>>, i.key \in Accrual, j.key = FollowUp[i.key].key, t.wrote = {}
        PROVE  KeyInv'
    <3>1. u.todo = <<j>> /\ Booked(i.key)
      BY <1>3, <2>1, <2>3, Lists
    <3>2. Stage(u)
      BY <1>1, <2>1, <2>3, <3>1 DEF Stage
    <3>. QED
      BY <1>1, <2>1, <3>2, KeyQuiet
  <2>4. ASSUME NEW e, NEW j, t.todo = <<j>>, e.key \in Accrual, j.key = FollowUp[e.key].key, t.wrote = {e}
        PROVE  KeyInv'
    <3>1. Booked(e.key)
      BY <1>1, <1>3, <2>4, Lists DEF AccrualTakenBack
    <3>2. \A f \in entry : e.key # f.key
      BY <1>1, <2>4, ClashIs
    <3>. QED
      BY <3>1, <3>2 DEF Booked
  <2>. QED
    BY <1>1, <2>2, <2>3, <2>4 DEF Stage
<1>. QED
  BY <1>2, <1>3

LEMMA KeyInsert ==
    ASSUME KeyInv, NEW p \in Proc, NEW u, Tx(u), tx' = [tx EXCEPT ![p] = u], Stored,
           Inserted(p, tx[p], u)
    PROVE  KeyInv'
<1>. DEFINE t == tx[p]
<1>1. PICK e : /\ u.wrote = t.wrote \cup {e} /\ e.key = Head(t.todo).key /\ e.of = Head(t.todo).of
               /\ \A q \in Proc \ {p} : \A f \in tx[q].wrote : ~Clash(e, f)
               /\ \A f \in entry : ~Clash(e, f)
  BY DEF Inserted
<1>2. /\ Stage(t) /\ t.todo # <<>> /\ t.at = "insert" /\ u.at = "look" /\ u.todo = Tail(t.todo)
      /\ \A d, f \in t.wrote : d # f => ~Clash(d, f)
      /\ \A d \in t.wrote, f \in entry : ~Clash(d, f)
  BY DEF KeyInv, Keyed, Inserted
<1>3. ASSUME Stage(u), \A f \in t.wrote : ~Clash(e, f)
      PROVE  KeyInv'
  <2>1. Keyed(u)
    BY <1>1, <1>2, <1>3, ClashIs DEF Keyed
  <2>2. \A q \in Proc \ {p} : \A d \in u.wrote \ t.wrote, f \in tx[q].wrote : ~Clash(d, f)
    BY <1>1
  <2>. QED
    BY <2>1, <2>2, KeyStep
<1>4. ASSUME NEW i, t.todo = <<i>>, Single(i.key), t.wrote = {}
      PROVE  KeyInv'
  <2>1. e.key = i.key /\ u.todo = <<>> /\ u.wrote = {e}
    BY <1>1, <1>2, <1>4, Lists
  <2>2. Whole(u.wrote)
    BY <1>4, <2>1 DEF Whole, Keys, Single
  <2>. QED
    BY <1>3, <1>4, <2>1, <2>2 DEF Stage
<1>5. ASSUME NEW i, NEW j, t.todo = <<i, j>>, i.key \in Accrual, j.key = FollowUp[i.key].key,
             j.of = None, t.wrote = {}
      PROVE  KeyInv'
  <2>1. e.key = i.key /\ u.todo = <<j>> /\ u.wrote = {e}
    BY <1>1, <1>2, <1>5, Lists
  <2>2. Stage(u)
    BY <1>5, <2>1 DEF Stage
  <2>. QED
    BY <1>3, <1>5, <2>2
<1>6. ASSUME NEW d, NEW j, t.todo = <<j>>, d.key \in Accrual, j.key = FollowUp[d.key].key,
             j.of = None, t.wrote = {d}
      PROVE  KeyInv'
  <2>1. e.key = j.key /\ e.of = None /\ u.todo = <<>> /\ u.wrote = {d, e}
    BY <1>1, <1>2, <1>6, Lists
  <2>2. e.key \notin Accrual /\ \A b \in Accrual : e.key = FollowUp[b].key => d.key = b
    BY <1>6, <2>1, Follows
  <2>3. \A b \in Accrual : d.key # FollowUp[b].key
    BY <1>6, Follows
  <2>4. Keys(u.wrote) = {d.key, e.key}
    BY <2>1 DEF Keys
  <2>5. Whole(u.wrote)
    BY <1>6, <2>1, <2>2, <2>3, <2>4 DEF Whole
  <2>6. \A f \in t.wrote : ~Clash(e, f)
    BY <1>6, <2>1, <2>2, ClashIs
  <2>. QED
    BY <1>3, <2>1, <2>5, <2>6 DEF Stage
<1>. QED
  BY <1>2, <1>4, <1>5, <1>6 DEF Stage

LEMMA KeyMoves ==
    ASSUME KeyInv, NEW p \in Proc, NEW u, Tx(u), tx' = [tx EXCEPT ![p] = u], Stored,
           Moves(p, tx[p], u)
    PROVE  KeyInv'
<1>. DEFINE t == tx[p]
<1>1. Keyed(t)
  BY DEF KeyInv
<1>2. CASE u = Idle
  <2>1. Stage(u)
    BY <1>2, IdleIs DEF Stage, Whole, Keys
  <2>. QED
    BY <1>2, <2>1, IdleIs, KeyQuiet
<1>3. CASE Drafted(t, u)
  <2>1. t.wrote = {} /\ t.todo = <<>> /\ u.wrote = {} /\ t.year \in Year
    BY <1>1, <1>3 DEF Keyed, Drafted
  <2>2. CASE u.at = "month" /\ u.todo = t.todo
    <3>1. Stage(u)
      BY <2>1, <2>2 DEF Stage, Whole, Keys
    <3>. QED
      BY <2>1, <2>2, <3>1, KeyQuiet
  <2>3. CASE u.at = "look" /\ \E i : u.todo = <<i>> /\ i.key = t.year /\ i.of = None
    <3>1. Stage(u)
      BY <2>1, <2>3, Singles DEF Stage
    <3>. QED
      BY <2>1, <2>3, <3>1, KeyQuiet
  <2>. QED
    BY <1>3, <2>2, <2>3 DEF Drafted
<1>4. CASE Dated(t, u) \/ Numbered(p, t, u)
  <2>1. /\ t.at \in {"date", "number"} /\ u.at \in {"number", "insert"}
        /\ u.todo = t.todo /\ u.wrote = t.wrote
    BY <1>4 DEF Dated, Numbered
  <2>2. Stage(u) /\ u.todo # <<>>
    BY <1>1, <2>1 DEF Keyed, Stage
  <2>. QED
    BY <2>1, <2>2, KeyQuiet
<1>5. CASE Checked(t, u) \/ SeqRead(t, u) \/ EventWritten(p, t, u) \/ CloseWritten(p, t, u)
  <2>1. /\ t.todo = <<>> /\ u.at \in {"seq", "event", "close", "commit"}
        /\ u.todo = t.todo /\ u.wrote = t.wrote
    BY <1>1, <1>5 DEF Keyed, Checked, SeqRead, EventWritten, CloseWritten
  <2>2. Stage(u)
    BY <1>1, <2>1, Lists DEF Keyed, Stage
  <2>. QED
    BY <2>1, <2>2, KeyQuiet
<1>. QED
  BY <1>2, <1>3, <1>4, <1>5, KeyLook, KeyInsert DEF Moves

LEMMA KeyCommit ==
    ASSUME KeyInv, NEW p \in Proc, Commit(p)
    PROVE  KeyInv'
<1>. DEFINE t == tx[p]
<1>1. /\ Txs' /\ tx'[p] = Idle /\ \A q \in Proc \ {p} : tx'[q] = tx[q]
      /\ t.at \in {"look", "commit"} /\ entry' = entry \cup t.wrote
      /\ Keyed(t) /\ t.todo = <<>> /\ BookedOnce /\ AccrualTakenBack
  BY After, IdleIs DEF KeyInv, Keyed, Commit
<1>2. Whole(t.wrote)
  BY <1>1, Lists DEF Keyed, Stage
<1>3. \A k : Booked(k)' <=> Booked(k) \/ k \in Keys(t.wrote)
  BY <1>1 DEF Booked, Keys
<1>4. AccrualTakenBack'
  BY <1>1, <1>2, <1>3 DEF AccrualTakenBack, Whole
<1>5. BookedOnce'
  <2>1. ASSUME NEW e \in entry', NEW f \in entry', e # f
        PROVE  ~Clash(e, f)
    <3>1. CASE e \in entry /\ f \in entry
      BY <1>1, <2>1, <3>1, ClashIs DEF BookedOnce
    <3>2. CASE e \in t.wrote /\ f \in t.wrote
      BY <1>1, <2>1, <3>2 DEF Keyed
    <3>3. CASE e \in t.wrote /\ f \in entry
      BY <1>1, <3>3 DEF Keyed
    <3>4. CASE e \in entry /\ f \in t.wrote
      BY <1>1, <3>4, ClashIs DEF Keyed
    <3>. QED
      BY <1>1, <3>1, <3>2, <3>3, <3>4
  <2>. QED
    BY <2>1, ClashIs DEF BookedOnce
<1>6. Apart'
  BY <1>1, IdleIs DEF KeyInv, Apart
<1>7. ASSUME NEW q \in Proc
      PROVE  Keyed(tx[q])'
  <2>1. CASE q = p
    BY <1>1, <2>1, IdleIs DEF Keyed, Stage, Whole, Keys
  <2>2. CASE q # p
    <3>1. tx'[q] = tx[q] /\ Keyed(tx[q])
      BY <1>1, <2>2 DEF KeyInv
    <3>2. Stage(tx[q])'
      BY <1>3, <3>1 DEF Keyed, Stage
    <3>3. \A e \in tx[q].wrote, f \in entry' : ~Clash(e, f)
      BY <1>1, <2>2, <3>1 DEF KeyInv, Apart, Keyed
    <3>. QED
      BY <3>1, <3>2, <3>3 DEF Keyed
  <2>. QED
    BY <2>1, <2>2
<1>. QED
  BY <1>1, <1>4, <1>5, <1>6, <1>7 DEF KeyInv

LEMMA KeyNext ==
    ASSUME KeyInv, [Next]_vars
    PROVE  KeyInv'
<1>1. CASE Tick \/ UNCHANGED vars
  <2>1. entry' = entry /\ tx' = tx
    BY <1>1 DEF Tick, vars
  <2>2. Txs' /\ BookedOnce' /\ AccrualTakenBack' /\ Apart'
    BY <2>1 DEF KeyInv, Txs, BookedOnce, AccrualTakenBack, Booked, Apart
  <2>3. ASSUME NEW p \in Proc
        PROVE  Keyed(tx[p])'
    <3>1. Stage(tx[p])'
      BY <2>1 DEF KeyInv, Keyed, Stage, Booked
    <3>. QED
      BY <2>1, <3>1 DEF KeyInv, Keyed
  <2>. QED
    BY <2>2, <2>3 DEF KeyInv
<1>2. ASSUME NEW p \in Proc, Request(p)
      PROVE  KeyInv'
  <2>1. PICK u : tx' = [tx EXCEPT ![p] = u] /\ Tx(u) /\ Begun(u) /\ Stored
    BY <1>2, RequestIs DEF KeyInv
  <2>2. u.wrote = {} /\ Fresh(u.todo)
    BY <2>1 DEF Begun
  <2>3. Stage(u)
    <3>1. CASE u.todo = <<>>
      BY <2>2, <3>1 DEF Stage, Whole, Keys
    <3>2. CASE u.todo # <<>>
      BY <2>2, <3>2, Singles DEF Stage, Fresh
    <3>. QED
      BY <3>1, <3>2
  <2>4. /\ u.at \in {"look", "month", "seq", "draft"} /\ (u.at # "look" => u.todo = <<>>)
        /\ u.at = "draft" => u.year \in Year
    BY <2>1 DEF Begun
  <2>. QED
    BY <2>1, <2>2, <2>3, <2>4, KeyQuiet
<1>3. ASSUME NEW p \in Proc, Work(p) \/ Abort(p), ~Commit(p)
      PROVE  KeyInv'
  BY <1>3, WorkIs, KeyMoves DEF KeyInv
<1>. QED
  BY <1>1, <1>2, <1>3, KeyCommit DEF Next

LEMMA KeyInit == Init => KeyInv
<1>. SUFFICES ASSUME Init
              PROVE  KeyInv
  OBVIOUS
<1>1. Txs /\ \A p \in Proc : tx[p] = Idle
  BY IdleIs DEF Init, Txs
<1>2. \A p \in Proc : Keyed(tx[p])
  BY <1>1, IdleIs DEF Keyed, Stage, Whole, Keys
<1>3. BookedOnce /\ AccrualTakenBack /\ Apart
  BY <1>1, IdleIs DEF Init, BookedOnce, AccrualTakenBack, Booked, Apart
<1>. QED
  BY <1>1, <1>2, <1>3 DEF KeyInv

\* createNumberedEntry and createReversalEntry: a document is booked once and a
\* voucher reversed once, whoever asked for it and whatever they had read.
THEOREM KeysOnce == Spec => []BookedOnce
<1>1. KeyInv => BookedOnce
  BY DEF KeyInv
<1>. QED
  BY <1>1, KeyInit, KeyNext, PTL DEF Spec

\* createConsumptionAccrualEntry: an accrual and the voucher that takes it back in
\* the next year are both in the books or neither.
THEOREM AccrualsWhole == Spec => []AccrualTakenBack
<1>1. KeyInv => AccrualTakenBack
  BY DEF KeyInv
<1>. QED
  BY <1>1, KeyInit, KeyNext, PTL DEF Spec
-----------------------------------------------------------------------------
(* Closed years. *)

\* A transaction with a voucher of the year in it, or the date of one.
Adding(t, y) == Wrote(t, y) # {} \/ (t.at \in {"number", "insert"} /\ YearOf[t.month] = y)
Adders(y)    == {p \in Proc : Adding(tx[p], y)}

\* A transaction books one voucher in a year, and the other of an accrual in another.
Apiece(t) ==
    /\ \A e, f \in t.wrote : YearOf[e.month] = YearOf[f.month] => e = f
    /\ t.todo # <<>> => \A e \in t.wrote : YearOf[e.month] # YearOf[Head(t.todo).wanted]
    /\ t.at \in {"number", "insert"} =>
           Head(t.todo).key \in LateKey \/ t.month = Head(t.todo).wanted
    /\ \A i, j : t.todo = <<i, j>> => YearOf[i.wanted] # YearOf[j.wanted]

\* The result of a year is booked by what closes that year and by nothing else, and
\* what is about to close a year is the first to.
Closer(t) ==
    /\ t.year \in Year \cup {0}
    /\ \A i : t.todo = <<i>> /\ (i.key \in Year \/ t.year # 0) =>
           i.key = t.year /\ i.wanted = LastMonth[t.year]
    /\ \A e \in t.wrote : e.key \in Year \/ t.year # 0 => e.key = t.year /\ YearOf[e.month] = t.year
    /\ \A i, j : t.todo = <<i, j>> => t.year = 0
    /\ t.at = "commit" /\ t.year # 0 => ~YearClosed(t.year)

Sealing(t, y) == t.at = "commit" /\ t.year = y
OneSeal == \A p, q \in Proc : \A y \in Year : Sealing(tx[p], y) /\ Sealing(tx[q], y) => p = q

\* Each voucher in a closed year was once the work of a transaction that could
\* still add to the year, and the transaction that closed it never could.
Few(y) ==
    Booked(y) => /\ YearClosed(y)
                 /\ Cardinality(AfterClose(y)) + Cardinality(Adders(y)) < Cardinality(Proc)

YearInv ==
    /\ IsFiniteSet(entry) /\ OneSeal /\ \A y \in Year : Few(y)
    /\ \A p \in Proc : Apiece(tx[p]) /\ Closer(tx[p])

LEMMA YearStep ==
    ASSUME YearInv, Txs, NEW p \in Proc, NEW u, Tx(u), tx' = [tx EXCEPT ![p] = u], Stored,
           Apiece(u), Closer(u),
           \A y \in Year : Sealing(u, y) => \A q \in Proc \ {p} : ~Sealing(tx[q], y),
           \A y \in Year : Booked(y) /\ Adding(u, y) => Adding(tx[p], y)
    PROVE  YearInv'
<1>1. tx'[p] = u /\ \A q \in Proc \ {p} : tx'[q] = tx[q]
  BY After
<1>2. IsFiniteSet(entry)' /\ (\A y : Booked(y)' <=> Booked(y)) /\ (\A y : YearClosed(y)' <=> YearClosed(y))
  BY DEF YearInv, Stored, Booked, YearClosed
<1>3. OneSeal'
  <2>1. ASSUME NEW q \in Proc, NEW r \in Proc, NEW y \in Year, Sealing(tx'[q], y), Sealing(tx'[r], y)
        PROVE  q = r
    BY <1>1, <2>1 DEF YearInv, OneSeal
  <2>2. \A q \in Proc : \A y : Sealing(tx[q], y)' <=> Sealing(tx'[q], y)
    BY DEF Sealing
  <2>. QED
    BY <2>1, <2>2 DEF OneSeal
<1>4. ASSUME NEW y \in Year
      PROVE  Few(y)'
  <2>1. CASE ~Booked(y)
    BY <1>2, <2>1 DEF Few
  <2>2. CASE Booked(y)
    <3>1. AfterClose(y)' = AfterClose(y)
      BY DEF AfterClose, Entries, Stored
    <3>2. Adders(y)' = {q \in Proc : Adding(tx'[q], y)}
      BY DEF Adders, Adding, Wrote
    <3>3. Adders(y)' \subseteq Adders(y)
      BY <1>1, <2>2, <3>2 DEF Adders
    <3>4. IsFiniteSet(Adders(y)) /\ IsFiniteSet(AfterClose(y))
      BY ProcAssumption, FS_Subset DEF Adders, AfterClose, Entries, YearInv
    <3>5. /\ Cardinality(Adders(y)') <= Cardinality(Adders(y))
          /\ Cardinality(Adders(y)') \in Nat /\ Cardinality(Adders(y)) \in Nat
          /\ Cardinality(AfterClose(y)) \in Nat /\ Cardinality(Proc) \in Nat
      BY <3>3, <3>4, ProcAssumption, FS_Subset, FS_CardinalityType
    <3>6. /\ YearClosed(y)
          /\ Cardinality(AfterClose(y)) + Cardinality(Adders(y)) < Cardinality(Proc)
      BY <2>2 DEF YearInv, Few
    <3>7. Cardinality(AfterClose(y)') + Cardinality(Adders(y)') < Cardinality(Proc)
      BY <3>1, <3>5, <3>6
    <3>. QED
      BY <1>2, <3>6, <3>7 DEF Few
  <2>. QED
    BY <2>1, <2>2
<1>5. ASSUME NEW q \in Proc
      PROVE  Apiece(tx[q])' /\ Closer(tx[q])'
  <2>1. Apiece(tx'[q]) /\ Closer(tx'[q])
    BY <1>1 DEF YearInv
  <2>. QED
    BY <1>2, <2>1 DEF Apiece, Closer
<1>. QED
  BY <1>2, <1>3, <1>4, <1>5 DEF YearInv

\* Only plain vouchers move out of a closed year, and no document's key is a year.
LEMMA Timely ==
    /\ \A a \in Accrual : /\ a \notin LateKey /\ FollowUp[a].key \notin LateKey
                         /\ a \notin Year /\ FollowUp[a].key \notin Year
    /\ \A y \in Year : y \notin LateKey
    /\ \A k \in Plain \cup Reversal : k \notin Year
    /\ 0 \notin Year
<1>1. Plain \subseteq Key /\ Reversal \subseteq Key /\ Accrual \subseteq Key
  BY KeyAssumption DEF Plain
<1>2. \A a \in Accrual : FollowUp[a].key \in Key
  BY KeyAssumption
<1>3. \A a \in Accrual : a \notin Plain /\ FollowUp[a].key \notin Plain
  BY DEF Plain
<1>. QED
  BY <1>1, <1>2, <1>3, KeyAssumption, TimeAssumption

\* A step that neither dates nor writes a voucher.
LEMMA YearQuiet ==
    ASSUME YearInv, Txs, NEW p \in Proc, NEW u, Tx(u), tx' = [tx EXCEPT ![p] = u], Stored,
           u.wrote = tx[p].wrote, u.todo = tx[p].todo, u.year = tx[p].year,
           u.at \notin {"number", "insert"},
           u.at = "commit" /\ u.year # 0 => /\ ~YearClosed(u.year)
                                           /\ \A q \in Proc \ {p} : ~Sealing(tx[q], u.year)
    PROVE  YearInv'
<1>1. Apiece(tx[p]) /\ Closer(tx[p])
  BY DEF YearInv
<1>2. Apiece(u) /\ Closer(u)
  BY <1>1 DEF Apiece, Closer
<1>3. \A y \in Year : Sealing(u, y) => \A q \in Proc \ {p} : ~Sealing(tx[q], y)
  BY Timely DEF Sealing
<1>4. \A y \in Year : Adding(u, y) => Adding(tx[p], y)
  BY DEF Adding, Wrote
<1>. QED
  BY <1>2, <1>3, <1>4, YearStep

\* A step that leaves the transaction with nothing written.
LEMMA YearBlank ==
    ASSUME YearInv, Txs, NEW p \in Proc, NEW u, Tx(u), tx' = [tx EXCEPT ![p] = u], Stored,
           u.wrote = {}, u.at \notin {"number", "insert", "commit"}, u.year \in Year \cup {0},
           \A i : u.todo = <<i>> /\ (i.key \in Year \/ u.year # 0) =>
                    i.key = u.year /\ i.wanted = LastMonth[u.year],
           \A i, j : u.todo = <<i, j>> => u.year = 0 /\ YearOf[i.wanted] # YearOf[j.wanted]
    PROVE  YearInv'
<1>1. Apiece(u) /\ Closer(u)
  BY DEF Apiece, Closer
<1>2. \A y \in Year : ~Sealing(u, y) /\ ~Adding(u, y)
  BY DEF Sealing, Adding, Wrote
<1>. QED
  BY <1>1, <1>2, YearStep

\* The lists of what is left, one by one.
LEMMA Left ==
    ASSUME NEW t, Stage(t)
    PROVE  \/ t.todo = <<>>
           \/ \E i : t.todo = <<i>> /\ (t.wrote # {} => \E a \in Accrual : i.key = FollowUp[a].key)
           \/ \E i, j : /\ t.todo = <<i, j>> /\ t.wrote = {}
                        /\ i.key \in Accrual /\ j.key = FollowUp[i.key].key
<1>1. ASSUME NEW e, NEW j, e.key \in Accrual, j.key = FollowUp[e.key].key
      PROVE  \E a \in Accrual : j.key = FollowUp[a].key
  BY <1>1
<1>. QED
  BY <1>1 DEF Stage

LEMMA NothingLeft ==
    ASSUME NEW u, u.todo = <<>>, u.at \notin {"number", "insert"},
           \A e, f \in u.wrote : YearOf[e.month] = YearOf[f.month] => e = f
    PROVE  Apiece(u)
<1>1. \A i, j : u.todo # <<i, j>>
  OBVIOUS
<1>. QED
  BY <1>1, Zenon DEF Apiece

LEMMA OneLeft ==
    ASSUME NEW u, NEW j, u.todo = <<j>>, u.at = "look",
           \A e, f \in u.wrote : YearOf[e.month] = YearOf[f.month] => e = f,
           \A e \in u.wrote : YearOf[e.month] # YearOf[j.wanted]
    PROVE  Apiece(u)
<1>1. (\A i, k : u.todo # <<i, k>>) /\ Head(u.todo) = j
  OBVIOUS
<1>2. u.at \notin {"number", "insert"}
  OBVIOUS
<1>. QED
  BY <1>1, <1>2, Zenon DEF Apiece

LEMMA YearLook ==
    ASSUME KeyInv, YearInv, NEW p \in Proc, NEW u, Tx(u), tx' = [tx EXCEPT ![p] = u], Stored,
           Looked(tx[p], u)
    PROVE  YearInv'
<1>. DEFINE t == tx[p]
<1>1. Txs /\ Stage(t) /\ Apiece(t) /\ Closer(t) /\ u.wrote = t.wrote /\ u.year = t.year /\ t.todo # <<>>
  BY DEF KeyInv, Keyed, YearInv, Looked
<1>2. CASE u.at = "date" /\ u.todo = t.todo
  BY <1>1, <1>2, YearQuiet
<1>3. CASE u.at = "look" /\ u.todo = Tail(t.todo)
  <2>1. ASSUME NEW i, t.todo = <<i>>
        PROVE  Apiece(u) /\ Closer(u)
    <3>1. u.todo = <<>>
      BY <1>3, <2>1, Lists
    <3>2. \A k, l : u.todo # <<k>> /\ u.todo # <<k, l>>
      BY <3>1
    <3>3. \A e, f \in u.wrote : YearOf[e.month] = YearOf[f.month] => e = f
      BY <1>1 DEF Apiece
    <3>4. Closer(u)
      BY <1>1, <1>3, <3>2 DEF Closer
    <3>. QED
      BY <1>3, <3>1, <3>3, <3>4, NothingLeft
  <2>2. ASSUME \E i, j : /\ t.todo = <<i, j>> /\ t.wrote = {}
                         /\ i.key \in Accrual /\ j.key = FollowUp[i.key].key
        PROVE  Apiece(u) /\ Closer(u)
    <3>1. PICK i, j : /\ t.todo = <<i, j>> /\ t.wrote = {}
                      /\ i.key \in Accrual /\ j.key = FollowUp[i.key].key
      BY <2>2
    <3>2. u.todo = <<j>> /\ j.key \notin Year
      BY <1>3, <3>1, Lists, Timely
    <3>3. t.year = 0
      BY <1>1, <3>1 DEF Closer
    <3>4. (\A k, l : u.todo # <<k, l>>) /\ (\A k : u.todo = <<k>> => k = j)
      BY <3>2, Lists
    <3>5. Apiece(u)
      BY <1>1, <1>3, <3>1, <3>2, OneLeft
    <3>6. Closer(u)
      BY <1>1, <1>3, <3>1, <3>2, <3>3, <3>4 DEF Closer
    <3>. QED
      BY <3>5, <3>6
  <2>3. Apiece(u) /\ Closer(u)
    BY <1>1, <2>1, <2>2, Left
  <2>5. \A y \in Year : ~Sealing(u, y) /\ (Adding(u, y) => Adding(t, y))
    BY <1>1, <1>3 DEF Sealing, Adding, Wrote
  <2>. QED
    BY <1>1, <2>3, <2>5, YearStep
<1>. QED
  BY <1>2, <1>3 DEF Looked

LEMMA YearDate ==
    ASSUME KeyInv, YearInv, NEW p \in Proc, NEW u, Tx(u), tx' = [tx EXCEPT ![p] = u], Stored,
           Dated(tx[p], u) \/ Numbered(p, tx[p], u)
    PROVE  YearInv'
<1>. DEFINE t == tx[p]
<1>1. /\ Txs /\ Apiece(t) /\ Closer(t) /\ u.wrote = t.wrote /\ u.year = t.year /\ u.todo = t.todo
      /\ u.at \in {"number", "insert"}
  BY DEF KeyInv, YearInv, Dated, Numbered
<1>2. Head(u.todo).key \in LateKey \/ u.month = Head(u.todo).wanted
  BY <1>1 DEF Apiece, Dated, Numbered
<1>3. Apiece(u) /\ Closer(u)
  BY <1>1, <1>2 DEF Apiece, Closer
<1>4. ASSUME NEW y \in Year, Booked(y), Adding(u, y)
      PROVE  Adding(t, y)
  <2>1. CASE Dated(t, u)
    <3>1. YearClosed(y)
      BY <1>4 DEF YearInv, Few
    <3>2. YearOf[u.month] # y
      BY <2>1, <3>1 DEF Dated, PeriodOpen
    <3>. QED
      BY <1>1, <1>4, <3>2 DEF Adding, Wrote
  <2>2. CASE Numbered(p, t, u)
    BY <1>1, <1>4, <2>2 DEF Adding, Wrote, Numbered
  <2>. QED
    BY <2>1, <2>2
<1>5. \A y \in Year : ~Sealing(u, y)
  BY <1>1 DEF Sealing
<1>. QED
  BY <1>1, <1>3, <1>4, <1>5, YearStep

LEMMA YearInsert ==
    ASSUME KeyInv, YearInv, NEW p \in Proc, NEW u, Tx(u), tx' = [tx EXCEPT ![p] = u], Stored,
           Inserted(p, tx[p], u)
    PROVE  YearInv'
<1>. DEFINE t == tx[p]
<1>1. PICK e : u.wrote = t.wrote \cup {e} /\ e.key = Head(t.todo).key /\ e.month = t.month
  BY DEF Inserted
<1>2. /\ Txs /\ Stage(t) /\ Apiece(t) /\ Closer(t) /\ t.at = "insert" /\ t.todo # <<>>
      /\ u.at = "look" /\ u.todo = Tail(t.todo) /\ u.year = t.year
  BY DEF KeyInv, Keyed, YearInv, Inserted
<1>3. e.key \notin LateKey => e.month = Head(t.todo).wanted
  BY <1>1, <1>2 DEF Apiece
<1>4. CASE \E i : t.todo = <<i>>
  <2>1. PICK i : t.todo = <<i>>
    BY <1>4
  <2>2. u.todo = <<>> /\ e.key = i.key /\ (e.key \notin LateKey => e.month = i.wanted)
    BY <1>1, <1>2, <1>3, <2>1, Lists
  <2>3. ASSUME NEW f \in t.wrote
        PROVE  YearOf[f.month] # YearOf[e.month]
    <3>0. \E a \in Accrual : i.key = FollowUp[a].key
      BY <1>2, <2>1, <2>3, Left, Lists
    <3>1. e.key \notin LateKey
      BY <2>2, <3>0, Timely
    <3>. QED
      BY <1>2, <2>1, <2>2, <3>1, Lists DEF Apiece
  <2>4. Apiece(u)
    <3>1. \A d, f \in u.wrote : YearOf[d.month] = YearOf[f.month] => d = f
      BY <1>1, <1>2, <2>3 DEF Apiece
    <3>. QED
      BY <1>2, <2>2, <3>1, NothingLeft
  <2>5. e.key \in Year \/ t.year # 0 => e.key = t.year /\ YearOf[e.month] = t.year
    <3>1. SUFFICES ASSUME e.key \in Year \/ t.year # 0
                   PROVE  e.key = t.year /\ YearOf[e.month] = t.year
      OBVIOUS
    <3>2. i.key = t.year /\ i.wanted = LastMonth[t.year] /\ t.year \in Year
      BY <1>2, <2>1, <2>2, <3>1, Timely DEF Closer
    <3>. QED
      BY <2>2, <3>2, Timely, TimeAssumption
  <2>6. Closer(u)
    <3>1. \A k, l : u.todo # <<k>> /\ u.todo # <<k, l>>
      BY <2>2
    <3>. QED
      BY <1>1, <1>2, <2>5, <3>1 DEF Closer
  <2>. QED
    <3>1. \A y \in Year : ~Sealing(u, y)
      BY <1>2 DEF Sealing
    <3>2. \A y \in Year : Adding(u, y) => Adding(t, y)
      BY <1>1, <1>2 DEF Adding, Wrote
    <3>. QED
      BY <1>2, <2>4, <2>6, <3>1, <3>2, YearStep
<1>5. CASE \E i, j : t.todo = <<i, j>>
  <2>1. PICK i, j : t.todo = <<i, j>>
    BY <1>5
  <2>2. /\ t.wrote = {} /\ i.key \in Accrual /\ j.key = FollowUp[i.key].key
        /\ u.todo = <<j>> /\ e.key = i.key /\ (e.key \notin LateKey => e.month = i.wanted)
    <3>1. \E k, l : /\ t.todo = <<k, l>> /\ t.wrote = {}
                    /\ k.key \in Accrual /\ l.key = FollowUp[k.key].key
      BY <1>2, <2>1, Left, Lists
    <3>2. t.wrote = {} /\ i.key \in Accrual /\ j.key = FollowUp[i.key].key
      BY <2>1, <3>1, Lists
    <3>. QED
      BY <1>1, <1>2, <1>3, <2>1, <3>2, Lists
  <2>3. e.month = i.wanted /\ YearOf[i.wanted] # YearOf[j.wanted] /\ u.wrote = {e}
    BY <1>1, <1>2, <2>1, <2>2, Timely DEF Apiece
  <2>4. Apiece(u)
    BY <1>2, <2>2, <2>3, OneLeft
  <2>5. t.year = 0 /\ e.key \notin Year /\ j.key \notin Year
    BY <1>2, <2>1, <2>2, Timely DEF Closer
  <2>6. Closer(u)
    <3>1. (\A k, l : u.todo # <<k, l>>) /\ (\A k : u.todo = <<k>> => k = j)
      BY <2>2, Lists
    <3>. QED
      BY <1>2, <2>2, <2>3, <2>5, <3>1 DEF Closer
  <2>. QED
    <3>1. \A y \in Year : ~Sealing(u, y)
      BY <1>2 DEF Sealing
    <3>2. \A y \in Year : Adding(u, y) => Adding(t, y)
      BY <1>1, <1>2 DEF Adding, Wrote
    <3>. QED
      BY <1>2, <2>4, <2>6, <3>1, <3>2, YearStep
<1>. QED
  BY <1>2, <1>4, <1>5, Left

LEMMA YearMoves ==
    ASSUME KeyInv, YearInv, NEW p \in Proc, NEW u, Tx(u), tx' = [tx EXCEPT ![p] = u], Stored,
           Moves(p, tx[p], u)
    PROVE  YearInv'
<1>. DEFINE t == tx[p]
<1>1. Txs /\ Keyed(t) /\ Closer(t)
  BY DEF KeyInv, YearInv
<1>2. CASE u = Idle
  <2>1. /\ u.wrote = {} /\ u.at = "idle" /\ u.year = 0
        /\ \A i, j : u.todo # <<i>> /\ u.todo # <<i, j>>
    BY <1>2, IdleIs
  <2>. QED
    BY <1>1, <2>1, YearBlank
<1>3. CASE Drafted(t, u)
  <2>1. t.wrote = {} /\ t.todo = <<>> /\ u.wrote = {} /\ t.year \in Year /\ u.year = t.year
    BY <1>1, <1>3 DEF Keyed, Drafted
  <2>2. CASE u.at = "month" /\ u.todo = t.todo
    BY <1>1, <2>1, <2>2, YearQuiet
  <2>3. CASE u.at = "look" /\ \E i : u.todo = <<i>> /\ i.key = t.year /\ i.wanted = LastMonth[t.year]
    <3>1. PICK i : u.todo = <<i>> /\ i.key = t.year /\ i.wanted = LastMonth[t.year]
      BY <2>3
    <3>2. (\A k : u.todo = <<k>> => k = i) /\ \A k, l : u.todo # <<k, l>>
      BY <3>1, Lists
    <3>. QED
      BY <1>1, <2>1, <2>3, <3>1, <3>2, YearBlank
  <2>. QED
    BY <1>3, <2>2, <2>3 DEF Drafted
<1>4. CASE Checked(t, u) \/ SeqRead(t, u) \/ EventWritten(p, t, u)
  <2>1. /\ u.todo = t.todo /\ u.wrote = t.wrote /\ u.year = t.year
        /\ u.at \in {"seq", "event", "close", "commit"} /\ (u.at = "commit" => u.year = 0)
    BY <1>4 DEF Checked, SeqRead, EventWritten
  <2>. QED
    BY <1>1, <2>1, YearQuiet
<1>5. CASE CloseWritten(p, t, u)
  <2>1. /\ u.todo = t.todo /\ u.wrote = t.wrote /\ u.year = t.year /\ u.at = "commit"
        /\ ~YearClosed(u.year) /\ \A q \in Proc \ {p} : ~Sealing(tx[q], u.year)
    BY <1>5 DEF CloseWritten, Sealing
  <2>. QED
    BY <1>1, <2>1, YearQuiet
<1>. QED
  BY <1>2, <1>3, <1>4, <1>5, YearLook, YearDate, YearInsert DEF Moves

\* Who commits into a closed year leaves those who can; the closing itself comes
\* after all vouchers of its year.
LEMMA FewAfter ==
    ASSUME NumInv, YearInv, NEW p \in Proc, Commit(p), NEW y \in Year
    PROVE  Few(y)'
<1>. DEFINE t == tx[p]
            Sum == Cardinality(AfterClose(y)) + Cardinality(Adders(y))
<1>1. /\ Txs' /\ tx'[p] = Idle /\ \A q \in Proc \ {p} : tx'[q] = tx[q]
      /\ entry' = entry \cup t.wrote
      /\ closing' = IF t.year = 0 THEN closing
                    ELSE closing \cup {[year |-> t.year, entry |-> {e.number : e \in t.wrote}]}
      /\ t.at = "commit" \/ t.year = 0
  BY After, IdleIs DEF NumInv, Commit
<1>2. Apiece(t) /\ Closer(t) /\ Series(t) /\ IsFiniteSet(entry)
  BY DEF YearInv, NumInv
<1>3. Entries(y)' = Entries(y) \cup Wrote(t, y)
  BY <1>1 DEF Entries, Wrote
<1>4. Booked(y)' <=> Booked(y) \/ \E e \in t.wrote : e.key = y
  BY <1>1 DEF Booked
<1>5. Adders(y)' = Adders(y) \ {p}
  <2>1. Adders(y)' = {q \in Proc : Adding(tx'[q], y)}
    BY DEF Adders, Adding, Wrote
  <2>2. ~Adding(tx'[p], y)
    BY <1>1, IdleIs DEF Adding, Wrote
  <2>. QED
    BY <1>1, <2>1, <2>2 DEF Adders
<1>6. /\ IsFiniteSet(Adders(y)) /\ IsFiniteSet(AfterClose(y))
      /\ Cardinality(Adders(y)) \in Nat /\ Cardinality(AfterClose(y)) \in Nat /\ Cardinality(Proc) \in Nat
  BY <1>2, ProcAssumption, FS_Subset, FS_CardinalityType DEF Adders, AfterClose, Entries
<1>7. CASE Booked(y)
  <2>1. YearClosed(y) /\ Sum < Cardinality(Proc)
    BY <1>7 DEF YearInv, Few
  <2>2. YearClosed(y)'
    BY <1>1, <2>1 DEF YearClosed
  <2>3. \A c \in closing' : c.year = y => c \in closing
    <3>1. t.year = y => t.year = 0
      BY <1>1, <1>2, <2>1 DEF Closer
    <3>. QED
      BY <1>1, <3>1, Timely
  <2>4. AfterClose(y)' \subseteq AfterClose(y) \cup Wrote(t, y)
    BY <1>3, <2>3 DEF AfterClose
  <2>5. CASE Wrote(t, y) = {}
    <3>1. /\ AfterClose(y)' \subseteq AfterClose(y) /\ Adders(y)' \subseteq Adders(y)
      BY <1>5, <2>4, <2>5
    <3>2. /\ Cardinality(AfterClose(y)') <= Cardinality(AfterClose(y))
          /\ Cardinality(Adders(y)') <= Cardinality(Adders(y))
          /\ Cardinality(AfterClose(y)') \in Nat /\ Cardinality(Adders(y)') \in Nat
      BY <1>6, <3>1, FS_Subset, FS_CardinalityType
    <3>. QED
      BY <1>6, <2>1, <2>2, <3>2 DEF Few
  <2>6. CASE Wrote(t, y) # {}
    <3>1. PICK e \in Wrote(t, y) : TRUE
      BY <2>6
    <3>2. Wrote(t, y) = {e}
      BY <1>2, <3>1 DEF Apiece, Wrote
    <3>3. p \in Adders(y)
      BY <2>6 DEF Adders, Adding
    <3>4. Cardinality(Adders(y)') = Cardinality(Adders(y)) - 1
      BY <1>5, <1>6, <3>3, FS_RemoveElement
    <3>5. /\ IsFiniteSet(AfterClose(y) \cup {e})
          /\ Cardinality(AfterClose(y) \cup {e}) <= Cardinality(AfterClose(y)) + 1
          /\ Cardinality(AfterClose(y) \cup {e}) \in Nat
      <4>1. IsFiniteSet(AfterClose(y) \cup {e})
        BY <1>6, FS_AddElement
      <4>2. Cardinality(AfterClose(y) \cup {e}) \in Nat
        BY <4>1, FS_CardinalityType
      <4>3. \/ Cardinality(AfterClose(y) \cup {e}) = Cardinality(AfterClose(y))
            \/ Cardinality(AfterClose(y) \cup {e}) = Cardinality(AfterClose(y)) + 1
        BY <1>6, FS_AddElement, Zenon
      <4>. QED
        BY <1>6, <4>1, <4>2, <4>3
    <3>6. /\ Cardinality(AfterClose(y)') <= Cardinality(AfterClose(y) \cup {e})
          /\ Cardinality(AfterClose(y)') \in Nat
      BY <2>4, <3>2, <3>5, FS_Subset, FS_CardinalityType
    <3>. QED
      BY <1>6, <2>1, <2>2, <3>4, <3>5, <3>6 DEF Few
  <2>. QED
    BY <2>5, <2>6
<1>8. CASE ~Booked(y) /\ \E e \in t.wrote : e.key = y
  <2>1. PICK e \in t.wrote : e.key = y
    BY <1>8
  <2>2. t.year = y /\ t.year # 0 /\ t.at = "commit" /\ YearOf[e.month] = y
    BY <1>1, <1>2, <2>1, Timely DEF Closer
  <2>3. ~YearClosed(y) /\ \A f \in t.wrote : f.key = y /\ YearOf[f.month] = y
    BY <1>2, <2>2 DEF Closer
  <2>4. t.wrote = {e} /\ Wrote(t, y) = {e}
    BY <1>2, <2>1, <2>3 DEF Apiece, Wrote
  <2>. DEFINE c == [year |-> y, entry |-> {f.number : f \in t.wrote}]
  <2>5. c \in closing' /\ c.year = y /\ e.number \in c.entry
    BY <1>1, <2>1, <2>2
  <2>6. \A d \in closing' : d.year = y => d = c
    BY <1>1, <2>2, <2>3 DEF YearClosed
  <2>7. counter[y] \in Nat /\ e.number \in (counter[y] + 1)..(counter[y] + Cardinality(Wrote(t, y)))
    BY <1>2, <2>4 DEF NumInv, Counted, Series, Run
  <2>8. IsFiniteSet({e}) /\ Cardinality({e}) = 1
    BY FS_Singleton
  <2>9. \A f \in Entries(y) : f.number \in 1..counter[y]
    BY DEF NumInv, Counted, Run
  <2>10. \A f \in Entries(y)' : ~(f.number > e.number)
    BY <1>3, <2>4, <2>7, <2>8, <2>9
  <2>11. AfterClose(y)' = {}
    <3>1. AfterClose(y)' = {f \in Entries(y)' : \E d \in closing' : d.year = y /\ \A n \in d.entry : f.number > n}
      BY DEF AfterClose
    <3>. HIDE DEF c
    <3>. QED
      BY <2>5, <2>6, <2>10, <3>1
  <2>12. /\ IsFiniteSet(Proc \ {p}) /\ Cardinality(Proc \ {p}) = Cardinality(Proc) - 1
    BY ProcAssumption, FS_RemoveElement
  <2>13. Adders(y)' \subseteq Proc \ {p}
    BY <1>5 DEF Adders
  <2>14. Cardinality(Adders(y)') <= Cardinality(Proc) - 1 /\ Cardinality(Adders(y)') \in Nat
    BY <2>12, <2>13, FS_Subset, FS_CardinalityType
  <2>15. Cardinality(AfterClose(y)') = 0
    BY <2>11, FS_EmptySet
  <2>16. YearClosed(y)'
    BY <2>5 DEF YearClosed
  <2>. QED
    BY <1>6, <2>14, <2>15, <2>16 DEF Few
<1>. QED
  BY <1>4, <1>7, <1>8 DEF Few

LEMMA IdleYear == Apiece(Idle) /\ Closer(Idle) /\ Closer(Idle)'
<1>1. \A i, j : Idle.todo # <<i>> /\ Idle.todo # <<i, j>>
  BY IdleIs
<1>2. Apiece(Idle)
  BY IdleIs, NothingLeft
<1>. QED
  BY <1>1, <1>2, IdleIs DEF Closer

LEMMA YearCommit ==
    ASSUME NumInv, YearInv, NEW p \in Proc, Commit(p)
    PROVE  YearInv'
<1>. DEFINE t == tx[p]
<1>1. /\ Txs' /\ tx'[p] = Idle /\ \A q \in Proc \ {p} : tx'[q] = tx[q]
      /\ entry' = entry \cup t.wrote
      /\ closing' = IF t.year = 0 THEN closing
                    ELSE closing \cup {[year |-> t.year, entry |-> {e.number : e \in t.wrote}]}
      /\ t.at = "commit" \/ t.year = 0
  BY After, IdleIs DEF NumInv, Commit
<1>2. IsFiniteSet(entry')
  BY <1>1, FS_Union DEF YearInv, NumInv, Series
<1>3. OneSeal'
  <2>1. \A y : ~Sealing(tx'[p], y)
    BY <1>1, IdleIs DEF Sealing
  <2>2. \A q \in Proc : \A y : Sealing(tx[q], y)' <=> Sealing(tx'[q], y)
    BY DEF Sealing
  <2>. QED
    BY <1>1, <2>1, <2>2 DEF YearInv, OneSeal
<1>4. ASSUME NEW q \in Proc
      PROVE  Apiece(tx[q])' /\ Closer(tx[q])'
  <2>1. CASE q = p
    <3>1. Apiece(Idle) /\ Closer(Idle)'
      BY IdleYear
    <3>. QED
      BY <1>1, <2>1, <3>1 DEF Apiece, Closer
  <2>2. CASE q # p
    <3>. DEFINE r == tx[q]
    <3>1. tx'[q] = r /\ Apiece(r) /\ Closer(r)
      BY <1>1, <2>2 DEF YearInv
    <3>2. r.at = "commit" /\ r.year # 0 => ~YearClosed(r.year)'
      <4>1. SUFFICES ASSUME r.at = "commit", r.year # 0
                     PROVE  ~YearClosed(r.year)'
        OBVIOUS
      <4>2. ~YearClosed(r.year) /\ r.year \in Year
        BY <3>1, <4>1 DEF Closer
      <4>3. t.year = 0 \/ t.year # r.year
        BY <1>1, <2>2, <4>1, <4>2 DEF YearInv, OneSeal, Sealing
      <4>4. \A c \in closing' : c \in closing \/ (t.year # 0 /\ c.year = t.year)
        BY <1>1
      <4>. QED
        BY <3>1, <4>2, <4>3, <4>4 DEF YearClosed
    <3>. QED
      BY <3>1, <3>2 DEF Apiece, Closer
  <2>. QED
    BY <2>1, <2>2
<1>. QED
  BY <1>2, <1>3, <1>4, FewAfter DEF YearInv

LEMMA YearNext ==
    ASSUME NumInv, KeyInv, YearInv, [Next]_vars
    PROVE  YearInv'
<1>1. CASE Tick \/ UNCHANGED vars
  <2>1. entry' = entry /\ tx' = tx /\ closing' = closing
    BY <1>1 DEF Tick, vars
  <2>2. IsFiniteSet(entry)' /\ OneSeal'
    BY <2>1 DEF YearInv, OneSeal, Sealing
  <2>3. \A y \in Year : Few(y)'
    <3>1. ASSUME NEW y \in Year
          PROVE  /\ Booked(y)' <=> Booked(y)
                 /\ YearClosed(y)' <=> YearClosed(y)
                 /\ AfterClose(y)' = AfterClose(y) /\ Adders(y)' = Adders(y)
      BY <2>1 DEF Booked, YearClosed, AfterClose, Entries, Adders, Adding, Wrote
    <3>. QED
      BY <3>1 DEF YearInv, Few
  <2>4. \A p \in Proc : Apiece(tx[p])' /\ Closer(tx[p])'
    BY <2>1 DEF YearInv, Apiece, Closer, YearClosed
  <2>. QED
    BY <2>2, <2>3, <2>4 DEF YearInv
<1>2. ASSUME NEW p \in Proc, Request(p)
      PROVE  YearInv'
  <2>1. PICK u : tx' = [tx EXCEPT ![p] = u] /\ Tx(u) /\ Begun(u) /\ Stored
    BY <1>2, RequestIs DEF KeyInv
  <2>2. /\ u.wrote = {} /\ u.at \notin {"number", "insert", "commit"} /\ u.year \in Year \cup {0}
        /\ u.todo = <<>> \/ u.year = 0
    BY <2>1 DEF Begun
  <2>3. (\A i, j : u.todo = <<i, j>> => YearOf[i.wanted] # YearOf[j.wanted]) /\ (\A i : u.todo = <<i>> => i.key \notin Year)
    <3>0. Fresh(u.todo)
      BY <2>1 DEF Begun
    <3>1. CASE u.todo = <<>>
      BY <3>1
    <3>2. CASE \E i : u.todo = <<i>> /\ i.key \in Plain \cup Reversal
      <4>1. PICK i : u.todo = <<i>> /\ i.key \in Plain \cup Reversal
        BY <3>2
      <4>2. (\A k : u.todo = <<k>> => k = i) /\ \A k, l : u.todo # <<k, l>>
        BY <4>1, Lists
      <4>. QED
        BY <4>1, <4>2, Timely
    <3>3. CASE \E i, j : u.todo = <<i, j>> /\ YearOf[i.wanted] # YearOf[j.wanted]
      <4>1. PICK i, j : u.todo = <<i, j>> /\ YearOf[i.wanted] # YearOf[j.wanted]
        BY <3>3
      <4>2. (\A k : u.todo # <<k>>) /\ \A k, l : u.todo = <<k, l>> => k = i /\ l = j
        BY <4>1, Lists
      <4>. QED
        BY <4>1, <4>2
    <3>. QED
      BY <3>0, <3>1, <3>2, <3>3 DEF Fresh
  <2>4. \A i, j : u.todo = <<i>> \/ u.todo = <<i, j>> => u.todo # <<>>
    BY Lists
  <2>. QED
    BY <2>1, <2>2, <2>3, <2>4, YearBlank DEF KeyInv
<1>3. ASSUME NEW p \in Proc, Work(p) \/ Abort(p), ~Commit(p)
      PROVE  YearInv'
  BY <1>3, WorkIs, YearMoves DEF KeyInv
<1>. QED
  BY <1>1, <1>2, <1>3, YearCommit DEF Next

LEMMA YearInit == Init => YearInv
<1>. SUFFICES ASSUME Init
              PROVE  YearInv
  OBVIOUS
<1>1. /\ \A p \in Proc : tx[p] = Idle
      /\ IsFiniteSet(entry) /\ \A y : ~Booked(y)
  BY FS_EmptySet DEF Init, Booked
<1>2. OneSeal
  BY <1>1, IdleIs DEF OneSeal, Sealing
<1>. QED
  BY <1>1, <1>2, IdleYear DEF YearInv, Few

\* closeFiscalYear and createNumberedEntry, which asks for the date before it has the
\* counter: into a year closed with a result voucher come fewer vouchers than there
\* are requests at once, each from one that had its date when the year was closed.
THEOREM StragglersOnly == Spec => []OnlyStragglers
<1>1. YearInv => OnlyStragglers
  <2>1. ASSUME YearInv, NEW y \in Year, YearClosed(y), Booked(y)
        PROVE  Cardinality(AfterClose(y)) < Cardinality(Proc)
    <3>1. Cardinality(AfterClose(y)) + Cardinality(Adders(y)) < Cardinality(Proc)
      BY <2>1 DEF YearInv, Few
    <3>2. IsFiniteSet(Adders(y)) /\ IsFiniteSet(AfterClose(y))
      BY <2>1, ProcAssumption, FS_Subset DEF Adders, AfterClose, Entries, YearInv
    <3>. QED
      BY <3>1, <3>2, ProcAssumption, FS_CardinalityType
  <2>. QED
    BY <2>1 DEF OnlyStragglers
<1>2. Init => NumInv /\ KeyInv /\ YearInv
  BY NumInit, KeyInit, YearInit
<1>3. NumInv /\ KeyInv /\ YearInv /\ [Next]_vars => (NumInv /\ KeyInv /\ YearInv)'
  BY NumNext, KeyNext, YearNext
<1>. QED
  BY <1>1, <1>2, <1>3, PTL DEF Spec
=============================================================================
