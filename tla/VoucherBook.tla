------------------------------ MODULE VoucherBook ------------------------------
(***************************************************************************)
(* The general ledger of one organisation: numbered vouchers, months that  *)
(* are closed and opened again, fiscal years that are closed for good.     *)
(*                                                                         *)
(* Every operation is a transaction under READ COMMITTED, one action per   *)
(* statement whose place in the order matters. A transaction sees what     *)
(* others have committed and its own writes; the row of a year's counter   *)
(* is locked by the first number taken from it, and a unique index makes   *)
(* the second writer of a value wait for the first and then fail.          *)
(***************************************************************************)
EXTENDS Integers, FiniteSets, FiniteSetsExt, Sequences

CONSTANTS
    Month, Year,    \* numbered in the order of time
    YearOf,         \* the fiscal year of each month
    LastMonth,      \* month twelve of each year
    Key,            \* what a voucher is booked for: (source, sourceId)
    ResultKey,      \* keys whose voucher moves a result account
    LateKey,        \* keys whose caller lets the date move out of a closed year
    EventMonth,     \* the month of the event a plain voucher is about
    Original,       \* the key a reversal reverses, for the keys of reversals
    FollowUp,       \* for an accrual: its year, and the key that takes it back in the next
    Proc,           \* requests under way at once
    ReopenWindow,   \* months after the year's end a month may be opened again
    MaxEvents       \* events of each month in a behaviour

Reversal == DOMAIN Original
Accrual  == DOMAIN FollowUp
Plain    == Key \ (Reversal \cup Accrual \cup {FollowUp[a].key : a \in Accrual})

ASSUME TimeAssumption ==
    /\ Month \subseteq Nat /\ Year \subseteq Nat \ {0}
    /\ YearOf \in [Month -> Year] /\ LastMonth \in [Year -> Month]
    /\ \A y \in Year : YearOf[LastMonth[y]] = y
    /\ \A m, n \in Month : m <= n => YearOf[m] <= YearOf[n]
ASSUME KeyAssumption ==
    /\ ResultKey \subseteq Key /\ LateKey \subseteq Plain
    /\ EventMonth \in [Plain -> Month]
    /\ Original \in [Reversal -> Key] /\ FollowUp \in [Accrual -> [key : Key, year : Year]]
    /\ Reversal \subseteq Key /\ Accrual \subseteq Key /\ Reversal \cap Accrual = {}
    /\ \A a \in Accrual : FollowUp[a].key \notin Accrual \cup Reversal
    /\ \A a, b \in Accrual : FollowUp[a].key = FollowUp[b].key => a = b
    /\ Key \cap Year = {}
ASSUME ProcAssumption == IsFiniteSet(Proc)
ASSUME BoundAssumption == ReopenWindow \in Nat /\ MaxEvents \in [Month -> Nat]

VARIABLES
    entry,      \* JournalEntry: the committed vouchers
    counter,    \* JournalEntrySequence.lastNumber of each year, as committed
    event,      \* AccountingPeriodEvent of each month in the order of seq
    closing,    \* FiscalYearClose: the committed rows
    tx,         \* the transaction of each request
    today       \* the month it is now

vars == <<entry, counter, event, closing, tx, today>>

None == "none"
Idle == [at |-> "idle", todo |-> <<>>, wrote |-> {}, month |-> 0,
         number |-> 0, year |-> 0, act |-> None, seq |-> 0]

Init ==
    /\ entry = {} /\ closing = {}
    /\ counter = [y \in Year |-> 0]
    /\ event = [m \in Month |-> <<>>]
    /\ tx = [p \in Proc |-> Idle]
    /\ \E m \in Month : today = m /\ \A n \in Month : m <= n

-----------------------------------------------------------------------------
(* What is read. *)

Last(s) == IF s = <<>> THEN None ELSE s[Len(s)]

IsPeriodClosed(m) == Last(event[m]) = "CLOSED"
YearClosed(y)     == \E c \in closing : c.year = y

\* Mutant: a closed year is asked for as a closed month only.
PeriodOpen_MonthOnly(m) == ~IsPeriodClosed(m)

\* assertPeriodOpen
PeriodOpen(m) == ~YearClosed(YearOf[m]) /\ ~IsPeriodClosed(m)

\* resolveBokforingsdatum, for a caller that lets the date move.
OpenFrom(m) == {n \in Month : m <= n /\ PeriodOpen(n)}
First(S)    == CHOOSE m \in S : \A n \in S : m <= n

Entries(y)  == {e \in entry : YearOf[e.month] = y}
Booked(k)   == \E e \in entry : e.key = k
Reversed(k) == {e \in entry : e.of = k}

\* buildYearEndDraft: what the committed vouchers of the year leave on the
\* result accounts.
ResultOf(y) == MapThenSumSet(LAMBDA e : e.result, Entries(y))

-----------------------------------------------------------------------------
(* The requests. Each begins with what it reads before its transaction. *)

Item(k, of, m, r) == [key |-> k, of |-> of, wanted |-> m, result |-> r]
Effect(k)         == IF k \in ResultKey THEN 1 ELSE 0

Begin(p, t) ==
    /\ tx[p] = Idle
    /\ tx' = [tx EXCEPT ![p] = t]
    /\ UNCHANGED <<entry, counter, event, closing, today>>

\* A document is booked on its own date.
Document(p, k) ==
    /\ ~Booked(k) /\ EventMonth[k] <= today
    /\ Begin(p, [Idle EXCEPT !.at = "look",
                   !.todo = <<Item(k, None, EventMonth[k], Effect(k))>>])

\* createConsumptionAccrualEntry: the last month of the year and the first of the
\* next in one transaction.
NextYear(y) == {m \in Month : YearOf[m] = y + 1}

\* Mutant: the two vouchers in transactions of their own.
Accrue_Apart(p, a) ==
    LET y == FollowUp[a].year IN
    /\ NextYear(y) # {}
    /\ \/ /\ ~Booked(a)
          /\ Begin(p, [Idle EXCEPT !.at = "look", !.todo = <<Item(a, None, LastMonth[y], 1)>>])
       \/ /\ Booked(a)
          /\ Begin(p, [Idle EXCEPT !.at = "look",
                 !.todo = <<Item(FollowUp[a].key, None, First(NextYear(y)), -1)>>])

Accrue(p, a) ==
    LET y == FollowUp[a].year IN
    /\ NextYear(y) # {} /\ ~Booked(a)
    /\ Begin(p, [Idle EXCEPT !.at = "look",
                   !.todo = <<Item(a, None, LastMonth[y], 1),
                              Item(FollowUp[a].key, None, First(NextYear(y)), -1)>>])

\* createReversalEntry and, by hand, reverseJournalEntry: dated today, refused when
\* another key has reversed the voucher.
Reverse(p, r) ==
    \E e \in entry :
        /\ e.key = Original[r] /\ Reversed(e.key) = {}
        /\ Begin(p, [Idle EXCEPT !.at = "look", !.todo = <<Item(r, e.key, today, -e.result)>>])

\* closePeriod and reopenPeriod look at the month once before their transaction.
ClosePeriod(p, m) ==
    /\ ~IsPeriodClosed(m) /\ Len(event[m]) < MaxEvents[m]
    /\ Begin(p, [Idle EXCEPT !.at = "month", !.month = m, !.act = "CLOSED"])

ReopenPeriod(p, m) ==
    /\ IsPeriodClosed(m) /\ today <= LastMonth[YearOf[m]] + ReopenWindow
    /\ Len(event[m]) < MaxEvents[m]
    /\ Begin(p, [Idle EXCEPT !.at = "seq", !.month = m, !.act = "REOPENED"])

\* fiscalYearChecks: every month but the last is closed, and every earlier year
\* that holds a voucher.
CloseFiscalYear(p, y) ==
    /\ ~YearClosed(y) /\ Len(event[LastMonth[y]]) < MaxEvents[LastMonth[y]]
    /\ \A m \in Month : YearOf[m] = y => (IsPeriodClosed(m) <=> m # LastMonth[y])
    /\ \A e \in entry : YearOf[e.month] < y => YearClosed(YearOf[e.month])
    /\ Begin(p, [Idle EXCEPT !.at = "draft", !.year = y])

-----------------------------------------------------------------------------
(* The statements of a transaction. *)

Step(p, t) ==
    /\ tx' = [tx EXCEPT ![p] = t]
    /\ UNCHANGED <<entry, counter, event, closing, today>>

\* An error, a refusal, a lost connection: nothing is written, and the numbers
\* taken are given back with the counter's row.
Rollback(p) == Step(p, Idle)

\* The draft is read before the counter is locked.
Draft(p) ==
    LET t == tx[p]
        r == ResultOf(t.year) IN
    /\ t.at = "draft"
    /\ Step(p, IF r = 0 THEN [t EXCEPT !.at = "month"]
               ELSE [t EXCEPT !.at = "look",
                              !.todo = <<Item(t.year, None, LastMonth[t.year], -r)>>])

\* The voucher may be there already: it is answered with.
Look(p) ==
    LET t == tx[p]
        k == Head(t.todo).key IN
    /\ t.at = "look" /\ t.todo # <<>>
    /\ Step(p, IF Booked(k) THEN [t EXCEPT !.todo = Tail(@)] ELSE [t EXCEPT !.at = "date"])

\* resolveBokforingsdatum and the check of allocate.
Date(p) ==
    LET t == tx[p]
        i == Head(t.todo)
        moves == i.key \in LateKey /\ YearClosed(YearOf[i.wanted])
        days  == IF moves THEN OpenFrom(i.wanted) ELSE {i.wanted} \cap OpenFrom(i.wanted) IN
    /\ t.at = "date"
    /\ IF days = {} THEN Rollback(p)
       ELSE Step(p, [t EXCEPT !.at = "number", !.month = First(days)])

Wrote(t, y)  == {e \in t.wrote : YearOf[e.month] = y}
Holds(t, y)  == Wrote(t, y) # {} \/ (t.at = "insert" /\ YearOf[t.month] = y)

\* Mutant: the number comes from outside the transaction, at once.
Number_Outside(p) ==
    LET t == tx[p]
        y == YearOf[t.month] IN
    /\ t.at = "number"
    /\ tx' = [tx EXCEPT ![p].at = "insert", ![p].number = counter[y] + 1]
    /\ counter' = [counter EXCEPT ![y] = @ + 1]
    /\ UNCHANGED <<entry, event, closing, today>>

\* allocate: the upsert of the year's counter.
Number(p) ==
    LET t == tx[p]
        y == YearOf[t.month] IN
    /\ t.at = "number"
    /\ \A q \in Proc \ {p} : ~Holds(tx[q], y)
    /\ Step(p, [t EXCEPT !.at = "insert", !.number = counter[y] + Cardinality(Wrote(t, y)) + 1])

\* Mutant: no unique index on reversalOfEntryId.
Clash_KeyOnly(e, f) == e.key = f.key

\* The unique indexes of JournalEntry.
Clash(e, f) == e.key = f.key \/ (e.of # None /\ e.of = f.of)

Insert(p) ==
    LET t == tx[p]
        i == Head(t.todo)
        e == [key |-> i.key, of |-> i.of, wanted |-> i.wanted, result |-> i.result,
              month |-> t.month, number |-> t.number] IN
    /\ t.at = "insert"
    /\ \A q \in Proc \ {p} : \A f \in tx[q].wrote : ~Clash(e, f)
    /\ IF \E f \in entry : Clash(e, f) THEN Rollback(p)
       ELSE Step(p, [t EXCEPT !.at = "look", !.todo = Tail(@), !.month = 0, !.number = 0,
                             !.wrote = @ \cup {e}])

\* writeMonthClose asks whether the month is closed,
CheckMonth(p) ==
    LET t == tx[p]
        m == IF t.year = 0 THEN t.month ELSE LastMonth[t.year] IN
    /\ t.at = "month" \/ (t.at = "look" /\ t.todo = <<>> /\ t.year # 0)
    /\ IF IsPeriodClosed(m) THEN Rollback(p)
       ELSE Step(p, [t EXCEPT !.at = "seq", !.month = m, !.act = "CLOSED"])

\* Mutant: the reopening reads the number and not the type of the last event.
ReadSeq_Blind(p) ==
    LET t == tx[p] IN
    /\ t.at = "seq" /\ Len(event[t.month]) < MaxEvents[t.month]
    /\ Step(p, [t EXCEPT !.at = "event", !.seq = Len(event[t.month]) + 1])

\* and appendPeriodClosedEvent then reads the last number. appendPeriodReopenedEvent
\* reads the last event's number and type in one.
ReadSeq(p) ==
    LET t == tx[p] IN
    /\ t.at = "seq" /\ Len(event[t.month]) < MaxEvents[t.month]
    /\ IF t.act = "REOPENED" /\ ~IsPeriodClosed(t.month) THEN Rollback(p)
       ELSE Step(p, [t EXCEPT !.at = "event", !.seq = Len(event[t.month]) + 1])

WroteEvent(t, m, n) == t.at \in {"close", "commit"} /\ t.act # None /\ t.month = m /\ t.seq = n

\* The unique index (year, month, seq).
WriteEvent(p) ==
    LET t == tx[p] IN
    /\ t.at = "event"
    /\ \A q \in Proc \ {p} : ~WroteEvent(tx[q], t.month, t.seq)
    /\ IF Len(event[t.month]) >= t.seq THEN Rollback(p)
       ELSE Step(p, [t EXCEPT !.at = IF t.year = 0 THEN "commit" ELSE "close"])

\* appendFiscalYearClose, last: the unique index on the year.
WriteClose(p) ==
    LET t == tx[p] IN
    /\ t.at = "close"
    /\ \A q \in Proc \ {p} : ~(tx[q].at = "commit" /\ tx[q].year = t.year)
    /\ IF YearClosed(t.year) THEN Rollback(p) ELSE Step(p, [t EXCEPT !.at = "commit"])

Commit(p) ==
    LET t == tx[p] IN
    /\ t.at = "commit" \/ (t.at = "look" /\ t.todo = <<>> /\ t.year = 0)
    /\ entry' = entry \cup t.wrote
    /\ counter' = [y \in Year |-> counter[y] + Cardinality(Wrote(t, y))]
    /\ event' = IF t.act = None THEN event
                ELSE [event EXCEPT ![t.month] = Append(@, t.act)]
    /\ closing' = IF t.year = 0 THEN closing
                  ELSE closing \cup {[year |-> t.year, entry |-> {e.number : e \in t.wrote}]}
    /\ tx' = [tx EXCEPT ![p] = Idle]
    /\ UNCHANGED today

Abort(p) == tx[p] # Idle /\ Rollback(p)

Tick ==
    /\ \E m \in Month : today < m /\ today' = m /\ \A n \in Month : today < n => m <= n
    /\ UNCHANGED <<entry, counter, event, closing, tx>>

Request(p) ==
    \/ \E k \in Plain : Document(p, k)
    \/ \E a \in Accrual : Accrue(p, a)
    \/ \E r \in Reversal : Reverse(p, r)
    \/ \E m \in Month : ClosePeriod(p, m)
    \/ \E m \in Month : ReopenPeriod(p, m)
    \/ \E y \in Year : CloseFiscalYear(p, y)

Work(p) ==
    \/ Draft(p) \/ Look(p) \/ Date(p) \/ Number(p) \/ Insert(p)
    \/ CheckMonth(p) \/ ReadSeq(p) \/ WriteEvent(p) \/ WriteClose(p) \/ Commit(p)

Next == Tick \/ \E p \in Proc : Request(p) \/ Work(p) \/ Abort(p)

Spec == Init /\ [][Next]_vars

-----------------------------------------------------------------------------
(* Properties. *)

TypeOK ==
    /\ \A e \in entry : e.month \in Month /\ e.number \in Nat \ {0}
    /\ counter \in [Year -> Nat]
    /\ event \in [Month -> Seq({"CLOSED", "REOPENED"})]
    /\ today \in Month

\* A year's vouchers are numbered from 1 without a gap, whatever was rolled back.
GapFree ==
    \A y \in Year :
        /\ {e.number : e \in Entries(y)} = 1..counter[y]
        /\ \A e, f \in Entries(y) : e.number = f.number => e = f

\* A key is booked once, and a voucher is reversed once, by hand or by the
\* document it belongs to.
BookedOnce ==
    \A e, f \in entry : e # f => e.key # f.key /\ (e.of = f.of => e.of = None)

\* An accrual is never in the books without the voucher that takes it back.
AccrualTakenBack == \A a \in Accrual : Booked(a) <=> Booked(FollowUp[a].key)

\* Into a closed year comes only what was under way when it was closed.
AfterClose(y) ==
    {e \in Entries(y) : \E c \in closing : c.year = y /\ \A n \in c.entry : e.number > n}
OnlyStragglers ==
    \A y \in Year : YearClosed(y) /\ Booked(y) => Cardinality(AfterClose(y)) < Cardinality(Proc)

\* A month is reopened once for each time it was closed.
Reopenings(m) == \A n \in 1..Len(event[m]) :
    event[m][n] = "REOPENED" => n > 1 /\ event[m][n - 1] = "CLOSED"
ReopenedOnce == \A m \in Month : Reopenings(m)

\* Code says: writeMonthClose's check inside the transaction has closed the window
\* in which the history became CLOSED, CLOSED.
ClosedOnce == \A m \in Month : \A n \in 2..Len(event[m]) :
    event[m][n] = "CLOSED" => event[m][n - 1] = "REOPENED"

\* Code says: a closed year's result accounts are zero.
YearZeroed == \A c \in closing : ResultOf(c.year) = 0
=============================================================================
