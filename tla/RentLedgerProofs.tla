--------------------------- MODULE RentLedgerProofs ---------------------------
(***************************************************************************)
(* Theorems about RentLedger, for every number of notices and bank rows,   *)
(* every amount and every choice of commands. What races can spoil - that  *)
(* no debt is spent twice, that paid means settled, that the mirror of the *)
(* allocations is exact - is proved of every notice no race happened on.   *)
(***************************************************************************)
EXTENDS RentLedger, FiniteSetTheorems, SequenceTheorems, WellFoundedInduction, TLAPS

-----------------------------------------------------------------------------
(* Sums over a finite domain. *)

First(s) == CHOOSE x \in s : TRUE

SumsUp(f, D, it) ==
    it = [s \in SUBSET D |-> IF s = {} THEN 0 ELSE f[First(s)] + it[s \ {First(s)}]]

LEMMA SmallestSubset ==
    ASSUME NEW D, IsFiniteSet(D), NEW B \in SUBSET SUBSET D, B # {}
    PROVE  \E s \in B : \A t \in SUBSET s : t # s => t \notin B
<1>1. IsWellFoundedOn(StrictSubsetOrdering(D), FiniteSubsetsOf(D))
  BY FS_StrictSubsetOrderingWellFounded
<1>2. B \subseteq FiniteSubsetsOf(D)
  BY FS_Subset DEF FiniteSubsetsOf
<1>3. PICK s \in B : \A t \in B : <<t, s>> \notin StrictSubsetOrdering(D)
  BY <1>1, <1>2, WFMin
<1>. QED
  BY <1>3 DEF StrictSubsetOrdering

LEMMA SumsAgree ==
    ASSUME NEW f, NEW D, IsFiniteSet(D), NEW a, NEW b, NEW A \in SUBSET D, NEW B \in SUBSET D,
           SumsUp(f, A, a), SumsUp(f, B, b), NEW s \in SUBSET (A \cap B)
    PROVE  a[s] = b[s]
<1> DEFINE Bad == {t \in SUBSET (A \cap B) : a[t] # b[t]}
<1>. SUFFICES ASSUME Bad # {} PROVE FALSE
  OBVIOUS
<1>0. Bad \in SUBSET SUBSET D
  OBVIOUS
<1>. HIDE DEF Bad
<1>1. PICK t \in Bad : \A u \in SUBSET t : u # t => u \notin Bad
  BY <1>0, SmallestSubset
<1>2. t \in SUBSET A /\ t \in SUBSET B /\ a[t] # b[t]
  BY <1>1 DEF Bad
<1>3. CASE t = {}
  BY <1>2, <1>3 DEF SumsUp
<1>4. CASE t # {}
  <2>1. First(t) \in t
    BY <1>4 DEF First
  <2>2. a[t \ {First(t)}] = b[t \ {First(t)}]
    BY <1>1, <1>2, <2>1 DEF Bad
  <2>3. a[t] = f[First(t)] + a[t \ {First(t)}] /\ b[t] = f[First(t)] + b[t \ {First(t)}]
    BY <1>2, <1>4 DEF SumsUp
  <2>. QED
    BY <1>2, <2>2, <2>3
<1>. QED
  BY <1>3, <1>4

LEMMA SumDefined ==
    ASSUME NEW f, IsFiniteSet(DOMAIN f)
    PROVE  \E it : SumsUp(f, DOMAIN f, it) /\ SumFunction(f) = it[DOMAIN f]
<1> DEFINE D == DOMAIN f
           Bad == {t \in SUBSET D : ~ \E it : SumsUp(f, t, it)}
           sum(t) == CHOOSE it : SumsUp(f, t, it)
<1>1. Bad = {}
  <2>. SUFFICES ASSUME Bad # {} PROVE FALSE
    OBVIOUS
  <2>0. Bad \in SUBSET SUBSET D
    OBVIOUS
  <2>. HIDE DEF Bad
  <2>1. PICK t \in Bad : \A u \in SUBSET t : u # t => u \notin Bad
    BY <2>0, SmallestSubset
  <2>2. t \in SUBSET D /\ \A u \in SUBSET t : u # t => SumsUp(f, u, sum(u))
    BY <2>1 DEF Bad
  <2>. DEFINE h == [s \in SUBSET t |->
                      IF s = {} THEN 0
                      ELSE f[First(s)] + sum(s \ {First(s)})[s \ {First(s)}]]
  <2>. HIDE DEF sum
  <2>3. ASSUME NEW r \in SUBSET t, r # t PROVE h[r] = sum(r)[r]
    <3>1. SumsUp(f, r, sum(r))
      BY <2>2, <2>3
    <3>2. CASE r = {}
      BY <3>1, <3>2 DEF SumsUp
    <3>3. CASE r # {}
      <4> DEFINE q == r \ {First(r)}
      <4>1. First(r) \in r
        BY <3>3 DEF First
      <4>2. q \in SUBSET t /\ q # t /\ q \in SUBSET r
        BY <2>3, <4>1
      <4>3. SumsUp(f, q, sum(q))
        BY <2>2, <4>2
      <4>4. sum(r)[q] = sum(q)[q]
        <5>1. r \in SUBSET D /\ q \in SUBSET D /\ q \in SUBSET (r \cap q)
          BY <2>2, <4>2
        <5>. QED
          BY <3>1, <4>3, <5>1, SumsAgree
      <4>5. sum(r)[r] = f[First(r)] + sum(r)[q]
        BY <3>1, <3>3 DEF SumsUp
      <4>. QED
        BY <3>3, <4>4, <4>5
    <3>. QED
      BY <3>2, <3>3
  <2>4. \A s \in SUBSET t : s # {} => First(s) \in s
    BY DEF First
  <2>5. \A s \in SUBSET t : s # {} =>
          sum(s \ {First(s)})[s \ {First(s)}] = h[s \ {First(s)}]
    BY <2>3, <2>4
  <2>6. SumsUp(f, t, h)
    BY <2>5 DEF SumsUp
  <2>. QED
    BY <2>1, <2>6 DEF Bad
<1>2. SumsUp(f, D, sum(D))
  BY <1>1
<1>3. SumFunction(f) = sum(D)[D]
  BY DEF SumFunction, SumFunctionOnSet, FoldFunctionOnSet, MapThenFoldSet, SumsUp, First
<1>. QED
  BY <1>2, <1>3

\* Nothing adds up to zero, and a single entry to its value.
LEMMA SumOfOne ==
    ASSUME NEW D, IsFiniteSet(D), NEW n, NEW x \in Int, NEW f,
           f = [k \in D |-> IF k = n THEN x ELSE 0]
    PROVE  SumFunction(f) = IF n \in D THEN x ELSE 0
<1>0. DOMAIN f = D
  OBVIOUS
<1>1. PICK it : SumsUp(f, D, it) /\ SumFunction(f) = it[D]
  BY <1>0, SumDefined
<1> DEFINE Bad == {s \in SUBSET D : it[s] # IF n \in s THEN x ELSE 0}
<1>2. Bad = {}
  <2>. SUFFICES ASSUME Bad # {} PROVE FALSE
    OBVIOUS
  <2>1. Bad \in SUBSET SUBSET D
    OBVIOUS
  <2>. HIDE DEF Bad
  <2>2. PICK s \in Bad : \A u \in SUBSET s : u # s => u \notin Bad
    BY <2>1, SmallestSubset
  <2>3. s \in SUBSET D /\ it[s] # IF n \in s THEN x ELSE 0
    BY <2>2 DEF Bad
  <2>4. CASE s = {}
    BY <1>1, <2>3, <2>4 DEF SumsUp
  <2>5. CASE s # {}
    <3> DEFINE k == First(s)
               r == s \ {k}
    <3>1. k \in s
      BY <2>5 DEF First
    <3>. HIDE DEF k
    <3>2. it[r] = IF n \in r THEN x ELSE 0
      BY <2>2, <2>3, <3>1 DEF Bad
    <3>3. it[s] = f[k] + it[r]
      BY <1>1, <2>3, <2>5 DEF SumsUp, k
    <3>4. f[k] = IF k = n THEN x ELSE 0
      BY <2>3, <3>1
    <3>. QED
      BY <2>3, <3>1, <3>2, <3>3, <3>4
  <2>. QED
    BY <2>4, <2>5
<1>. QED
  BY <1>1, <1>2
-----------------------------------------------------------------------------
(* Types. *)

\* The debt of a notice is an integer; what is outstanding is never negative.
LEMMA DebtType ==
    ASSUME TypeOK, NEW n \in Notice
    PROVE  Owed(n) \in Int /\ OcrOutstanding(n) \in Nat /\ Outstanding(n) \in Nat
<1>1. Total[n] \in Nat /\ fee[n] \in Nat
  <2>1. fee[n] \in {0, Fee}
    BY DEF TypeOK
  <2>. QED
    BY <2>1, AmountAssumption
<1>3. credited[n] \in Nat /\ received[n] \in Int
  BY DEF TypeOK
<1>4. interest[n] \in Nat
  BY AmountAssumption DEF TypeOK
<1>2. Owed(n) \in Int
  BY <1>1, <1>3 DEF Owed
<1>. QED
  BY <1>2, <1>4 DEF OcrOutstanding, Outstanding, AtLeastZero

\* What a waterfall finds remaining on a notice is never negative.
LEMMA RemainingType ==
    ASSUME TypeOK, NEW n \in Notice, NEW r
    PROVE  Remaining(n, r) \in Nat
<1>1. Total[n] \in Nat /\ Fee \in Nat /\ credited[n] \in Nat /\ received[n] \in Int
  BY AmountAssumption DEF TypeOK
<1>. QED
  BY <1>1 DEF Remaining, AtLeastZero

\* Every order of a set of notices is a sequence of notices.
LEMMA OrdersType ==
    ASSUME NEW S \in SUBSET Notice, NEW f \in Orders(S)
    PROVE  f \in Seq(Notice) /\ Range(f) \subseteq Notice
<1>1. IsFiniteSet(S)
  BY NoticeAssumption, FS_Subset
<1>2. Cardinality(S) \in Nat
  BY <1>1, FS_CardinalityType
<1>3. f \in [1 .. Cardinality(S) -> Notice]
  BY DEF Orders
<1>. QED
  BY <1>2, <1>3, SeqDef DEF Range

\* Money reaching notices from a bank row keeps every type.
LEMMA RacesType ==
    ASSUME TypeOK, NEW w \in {"strike", "remind", "undo"}, NEW S \in SUBSET Notice, Races(w, S)
    PROVE  raced' \in Race
<1>1. raced \in Race
  BY DEF TypeOK
<1>. QED
  BY <1>1 DEF Races, Race

LEMMA AllocateType ==
    ASSUME TypeOK, NEW p \in Payment, NEW d \in [Notice -> Nat],
           NEW paid \in SUBSET Notice, NEW kept \in SUBSET Notice,
           Allocate(p, d, paid, kept)
    PROVE  /\ alloc' \in [Payment -> [Notice -> Nat]]
           /\ received' \in [Notice -> Int] /\ paidAmount' \in [Notice -> Int]
           /\ status' \in [Notice -> Status] /\ stage' \in [Notice -> Stage]
           /\ ar' \in [Notice -> Int]
           /\ bank' \in [Payment -> {"UNMATCHED", "MATCHED", "IGNORED"}]
           /\ raced' \in Race
<1>1. raced' \in Race
  <2>1. {n \in Notice : d[n] > 0 /\ BeingUnwound(n)} \in SUBSET Notice
    OBVIOUS
  <2>. QED
    BY <2>1, RacesType DEF Allocate
<1>. QED
  BY <1>1 DEF TypeOK, Allocate, Status, Stage

LEMMA MatchOneType ==
    ASSUME TypeOK, NEW p \in Payment, NEW n \in Notice, NEW h \in BOOLEAN, NEW part \in BOOLEAN,
           MatchOne(p, n, h, part), queued' \subseteq Payment
    PROVE  TypeOK'
<1> DEFINE due == OcrOutstanding(n)
           full == Amount[p] \in due - Tol .. due + Tol
           d == [Nothing EXCEPT ![n] = IF full THEN due ELSE Amount[p]]
           paid == IF full THEN {n} ELSE {}
<1>1. d \in [Notice -> Nat]
  BY DebtType, AmountAssumption DEF Nothing
<1>2. Allocate(p, d, paid, {})
  BY DEF MatchOne
<1>. HIDE DEF d, paid
<1>3. paid \in SUBSET Notice /\ {} \in SUBSET Notice
  BY DEF paid
<1>4. UNCHANGED <<dispatch, fee, interest, credited, probable, writtenOff, accrual, feeVoucher,
                  doubtful, excluded, review, pour, unwind, cleared>>
  BY DEF MatchOne, claimVars
<1>5. /\ alloc' \in [Payment -> [Notice -> Nat]]
      /\ received' \in [Notice -> Int] /\ paidAmount' \in [Notice -> Int]
      /\ status' \in [Notice -> Status] /\ stage' \in [Notice -> Stage]
      /\ ar' \in [Notice -> Int]
      /\ bank' \in [Payment -> {"UNMATCHED", "MATCHED", "IGNORED"}]
      /\ raced' \in Race
  BY <1>1, <1>2, <1>3, AllocateType
<1>. QED
  BY <1>4, <1>5 DEF TypeOK

\* What a waterfall hands out is at most its budget, which exceeds the amount of
\* the bank row by the tolerance at most.
LEMMA WaterfallType ==
    ASSUME NEW p \in Payment, NEW rest, NEW r, NEW total,
           NEW d \in Waterfall(rest, r,
               IF total \in Amount[p] - Tol .. Amount[p] + Tol THEN total ELSE Amount[p])
    PROVE  d \in [Notice -> Nat] /\ SumFunction(d) <= Amount[p] + Tol
<1> DEFINE budget == IF total \in Amount[p] - Tol .. Amount[p] + Tol THEN total ELSE Amount[p]
<1>1. Amount[p] \in Nat /\ Tol \in Nat
  BY AmountAssumption
<1>2. budget \in Int /\ budget <= Amount[p] + Tol
  BY <1>1
<1>3. d \in [Notice -> 0 .. budget] /\ SumFunction(d) = budget
  BY DEF Waterfall
<1>. QED
  BY <1>1, <1>2, <1>3

LEMMA PourCommitType ==
    ASSUME TypeOK, NEW p \in Payment, PourCommit(p)
    PROVE  TypeOK'
<1> DEFINE r == pour[p]
           rest == Rest(r)
           total == SumFunction([i \in DOMAIN rest |-> Remaining(rest[i], r)])
           budget == IF total \in Amount[p] - Tol .. Amount[p] + Tol THEN total ELSE Amount[p]
<1>1. PICK d \in Waterfall(rest, r, budget) :
        \E paid, kept \in SUBSET Notice : Allocate(p, d, paid, kept)
  BY DEF PourCommit
<1>2. PICK paid \in SUBSET Notice, kept \in SUBSET Notice : Allocate(p, d, paid, kept)
  BY <1>1
<1>3. d \in [Notice -> Nat]
  BY WaterfallType
<1>4. /\ alloc' \in [Payment -> [Notice -> Nat]]
      /\ received' \in [Notice -> Int] /\ paidAmount' \in [Notice -> Int]
      /\ status' \in [Notice -> Status] /\ stage' \in [Notice -> Stage]
      /\ ar' \in [Notice -> Int]
      /\ bank' \in [Payment -> {"UNMATCHED", "MATCHED", "IGNORED"}]
      /\ raced' \in Race
  BY <1>2, <1>3, AllocateType
<1>5. UNCHANGED <<dispatch, fee, interest, credited, probable, writtenOff, accrual, feeVoucher,
                  doubtful, excluded, review, queued, unwind, cleared>>
  BY DEF PourCommit, claimVars
<1>6. pour' = [pour EXCEPT ![p] = NoPour]
  BY DEF PourCommit
<1>7. NoPour \in [order : Seq(Notice), charged : SUBSET Notice, human : BOOLEAN]
  BY DEF NoPour
<1>8. pour' \in [Payment -> [order : Seq(Notice), charged : SUBSET Notice, human : BOOLEAN]]
  BY <1>6, <1>7 DEF TypeOK
<1>. QED
  BY <1>4, <1>5, <1>8 DEF TypeOK

LEMMA PourReadType ==
    ASSUME TypeOK, NEW p \in Payment, NEW S \in SUBSET Notice, NEW f \in Orders(S),
           NEW h \in BOOLEAN, PourRead(p, f, h), queued' \subseteq Payment
    PROVE  TypeOK'
<1>1. [order |-> f, charged |-> {n \in Range(f) : fee[n] > 0}, human |-> h]
        \in [order : Seq(Notice), charged : SUBSET Notice, human : BOOLEAN]
  BY OrdersType
<1>2. pour' \in [Payment -> [order : Seq(Notice), charged : SUBSET Notice, human : BOOLEAN]]
  BY <1>1 DEF PourRead, TypeOK
<1>. QED
  BY <1>2 DEF PourRead, TypeOK, claimVars, ledgerVars, bankVars

LEMMA UnmatchReadType ==
    ASSUME TypeOK, NEW p \in Payment, UnmatchRead(p)
    PROVE  TypeOK'
<1>1. \A n \in Notice : (IF n \in Touched(p) THEN Left(p, n) ELSE 0) \in Int
  BY DEF TypeOK, Left
<1>2. Reopens(p) \subseteq Notice
  BY DEF Reopens, Touched
<1>3. unwind' \in [row : SUBSET Payment, left : [Notice -> Int], reopen : SUBSET Notice]
  BY <1>1, <1>2 DEF UnmatchRead
<1>. QED
  BY <1>3 DEF UnmatchRead, TypeOK, claimVars, ledgerVars, bankVars

LEMMA UnmatchCommitType ==
    ASSUME TypeOK, NEW p \in Payment, UnmatchCommit(p)
    PROVE  TypeOK'
<1> DEFINE back == [n \in Notice |-> IF n \in Touched(p) THEN alloc[p][n] ELSE 0]
<1>1. back \in [Notice -> Nat] /\ \A n \in Notice : alloc[p][n] - back[n] \in Nat
  BY DEF TypeOK, Touched
<1>2. \A n \in Notice : Reopened(n) \in Status
  BY DEF TypeOK, Reopened, Status
<1>3. alloc' = [alloc EXCEPT ![p] = [n \in Notice |-> alloc[p][n] - back[n]]]
  BY DEF UnmatchCommit, TypeOK
<1>4. alloc' \in [Payment -> [Notice -> Nat]]
  BY <1>1, <1>3 DEF TypeOK
<1>5. received' \in [Notice -> Int] /\ ar' \in [Notice -> Int] /\ paidAmount' \in [Notice -> Int]
  BY <1>1 DEF UnmatchCommit, TypeOK
<1>6. status' \in [Notice -> Status]
  BY <1>2 DEF UnmatchCommit, TypeOK
<1>7. /\ bank' \in [Payment -> {"UNMATCHED", "MATCHED", "IGNORED"}]
      /\ excluded' \in [Payment -> BOOLEAN]
  BY DEF UnmatchCommit, TypeOK
<1>8. unwind' \in [row : SUBSET Payment, left : [Notice -> Int], reopen : SUBSET Notice]
  BY DEF UnmatchCommit, NoUnwind, Nothing
<1>. QED
  BY <1>4, <1>5, <1>6, <1>7, <1>8 DEF UnmatchCommit, TypeOK, claimVars

\* The commands on one notice keep every type.
LEMMA NoticeStepType ==
    ASSUME TypeOK, NEW n \in Notice, NoticeStep(n)
    PROVE  TypeOK'
<1>12. Outstanding(n) \in Nat
  BY DebtType
<1>. USE DEF TypeOK, claimVars, ledgerVars, bankVars, flightVars
<1>1. ASSUME SendOk(n) \/ SendFails(n) \/ MarkOverdue(n) PROVE TypeOK'
  BY <1>1 DEF SendOk, SendFails, MarkOverdue, Status
<1>2. ASSUME NEW a \in Cash, MarkAsPaid(n, a) PROVE TypeOK'
  <2>1. a \in Nat
    BY AmountAssumption
  <2>2. /\ received' \in [Notice -> Int] /\ paidAmount' \in [Notice -> Int]
        /\ ar' \in [Notice -> Int]
    BY <1>2, <2>1 DEF MarkAsPaid
  <2>3. status' \in [Notice -> Status] /\ stage' \in [Notice -> Stage]
    BY <1>2 DEF MarkAsPaid, Status, Stage
  <2>4. raced' \in Race
    BY <1>2, RacesType DEF MarkAsPaid
  <2>. QED
    BY <1>2, <2>2, <2>3, <2>4 DEF MarkAsPaid
<1>3. ASSUME NEW c \in Rebate, CreateCredit(n, c) PROVE TypeOK'
  <2>1. c \in Nat
    BY AmountAssumption
  <2>. QED
    BY <1>3, <2>1 DEF CreateCredit, Stage
<1>4. ASSUME NEW c \in Stepped, Clear(c, n) \/ GiveUp(c, n) PROVE TypeOK'
  <2>1. CASE Clear(c, n)
    BY <2>1 DEF Clear
  <2>2. CASE GiveUp(c, n)
    BY <2>2 DEF GiveUp
  <2>. QED
    BY <1>4, <2>1, <2>2
<1>5. ASSUME Cancel(n) PROVE TypeOK'
  <2>1. Total[n] \in Nat /\ FeeOnLedger(n) \in Nat
    BY AmountAssumption DEF FeeOnLedger
  <2>2. interest[n] \in Nat
    BY AmountAssumption
  <2>3. ar' \in [Notice -> Int]
    BY <1>5, <2>1, <2>2 DEF Cancel
  <2>4. /\ status' \in [Notice -> Status] /\ stage' \in [Notice -> Stage]
        /\ accrual' \in [Notice -> Voucher] /\ feeVoucher' \in [Notice -> Voucher]
    BY <1>5 DEF Cancel, Status, Stage, Voucher
  <2>. QED
    BY <1>5, <2>3, <2>4 DEF Cancel, Claim
<1>6. ASSUME StrikeFee(n) PROVE TypeOK'
  <2>1. FeeOnLedger(n) \in Nat
    BY AmountAssumption DEF FeeOnLedger
  <2>2. raced' \in Race
    BY <1>6, RacesType DEF StrikeFee
  <2>. QED
    BY <1>6, <2>1, <2>2 DEF StrikeFee, Claim, Voucher
<1>7. ASSUME Remind(n) PROVE TypeOK'
  <2>1. /\ stage' \in [Notice -> Stage] /\ feeVoucher' \in [Notice -> Voucher]
        /\ fee' \in [Notice -> {0, Fee}] /\ ar' \in [Notice -> Int]
    BY <1>7, AmountAssumption DEF Remind, Stage, Voucher
  <2>2. raced' \in Race
    BY <1>7, RacesType DEF Remind
  <2>. QED
    BY <1>7, <2>1, <2>2 DEF Remind, Claim
<1>8. ASSUME MakeInkassoReady(n) PROVE TypeOK'
  BY <1>8 DEF MakeInkassoReady, Claim, Stage
<1>9. ASSUME NEW i \in 1 .. MaxInterest, CrystallizeInterest(n, i) PROVE TypeOK'
  BY <1>9, AmountAssumption DEF CrystallizeInterest, Claim
<1>10. ASSUME WriteDown(n) PROVE TypeOK'
  BY <1>10, <1>12 DEF WriteDown, Claim
<1>11. ASSUME WriteOff(n) PROVE TypeOK'
  BY <1>11 DEF WriteOff, LossAmount, Stage
<1>. QED
  BY <1>1, <1>2, <1>3, <1>4, <1>5, <1>6, <1>7, <1>8, <1>9, <1>10, <1>11 DEF NoticeStep

\* The steps of one bank row keep every type.
LEMMA BankStepType ==
    ASSUME TypeOK, NEW p \in Payment, BankStep(p)
    PROVE  TypeOK'
<1>10. queued \subseteq Payment
  BY DEF TypeOK
<1>1. ASSUME PickUp(p) \/ PassBy(p) \/ FlagForReview(p) PROVE TypeOK'
  BY <1>1 DEF TypeOK, PickUp, PassBy, FlagForReview, claimVars, ledgerVars, bankVars
<1>2. ASSUME NEW n \in Notice, ManualMatch(p, n) PROVE TypeOK'
  BY <1>2, <1>10, MatchOneType DEF ManualMatch
<1>3. ASSUME NEW n \in Notice, NEW part \in BOOLEAN, AutoMatch(p, n, part) PROVE TypeOK'
  BY <1>3, <1>10, MatchOneType DEF AutoMatch
<1>4. ASSUME AutoPour(p) PROVE TypeOK'
  <2>1. {n \in Notice : status[n] \in Payable} \in SUBSET Notice
    OBVIOUS
  <2>. QED
    BY <1>4, <1>10, <2>1, PourReadType DEF AutoPour
<1>5. ASSUME ManualPour(p) PROVE TypeOK'
  BY <1>5, <1>10, PourReadType DEF ManualPour
<1>6. ASSUME PourCommit(p) PROVE TypeOK'
  BY <1>6, PourCommitType
<1>7. ASSUME PourAbort(p) PROVE TypeOK'
  <2>1. NoPour \in [order : Seq(Notice), charged : SUBSET Notice, human : BOOLEAN]
    BY DEF NoPour
  <2>. QED
    BY <1>7, <2>1 DEF TypeOK, PourAbort, claimVars, ledgerVars, bankVars
<1>8. ASSUME Ignore(p) PROVE TypeOK'
  BY <1>8 DEF TypeOK, Ignore, claimVars, ledgerVars, flightVars
<1>9. ASSUME UnmatchRead(p) \/ UnmatchCommit(p) PROVE TypeOK'
  BY <1>9, UnmatchReadType, UnmatchCommitType
<1>. QED
  BY <1>1, <1>2, <1>3, <1>4, <1>5, <1>6, <1>7, <1>8, <1>9 DEF BankStep

\* Every variable keeps its type: the status machine has no state but the ones
\* of the schema, and no allocation is ever negative.
THEOREM TypeCorrect == Spec => []TypeOK
<1>1. Init => TypeOK
  <2>. SUFFICES ASSUME Init PROVE TypeOK
    OBVIOUS
  <2>1. /\ NoPour \in [order : Seq(Notice), charged : SUBSET Notice, human : BOOLEAN]
        /\ NoUnwind \in [row : SUBSET Payment, left : [Notice -> Int], reopen : SUBSET Notice]
    BY DEF NoPour, NoUnwind, Nothing
  <2>2. Total \in [Notice -> Nat] /\ Fee \in Nat /\ MaxInterest \in Nat
    BY AmountAssumption
  <2>3. NoRace \in Race
    BY DEF NoRace, Race
  <2>. QED
    BY <2>1, <2>2, <2>3 DEF Init, TypeOK, Status, Stage, Voucher, Nothing
<1>2. TypeOK /\ [Next]_vars => TypeOK'
  <2>1. TypeOK /\ Next => TypeOK'
    BY BankStepType, NoticeStepType DEF Next
  <2>2. TypeOK /\ UNCHANGED vars => TypeOK'
    BY DEF TypeOK, vars, claimVars, ledgerVars, bankVars, flightVars
  <2>. QED
    BY <2>1, <2>2
<1>. QED
  BY <1>1, <1>2, PTL DEF Spec

-----------------------------------------------------------------------------
(* Bank rows. *)

\* The status of a bank row tells whether anything of it is spent; a waterfall
\* on its way holds a row of which nothing is, an unmatch one that is matched.
RowInv ==
    \A p \in Payment :
        /\ bank[p] = "UNMATCHED" => alloc[p] = Nothing
        /\ bank[p] = "MATCHED" => alloc[p] # Nothing
        /\ pour[p] # NoPour => alloc[p] = Nothing
        /\ p \in unwind.row => bank[p] = "MATCHED"

\* The payment book adds up as the ledger does.
LEMMA BookSum ==
    ASSUME NEW f
    PROVE  Book!SumFunction(f) = SumFunction(f)
  BY DEF Book!SumFunction, Book!SumFunctionOnSet, Book!FoldFunctionOnSet, Book!MapThenFoldSet,
         SumFunction, SumFunctionOnSet, FoldFunctionOnSet, MapThenFoldSet

\* A match spends the row, which was free, and leaves every other row alone.
LEMMA MatchSpends ==
    ASSUME TypeOK, NEW p \in Payment, NEW n \in Notice, NEW h \in BOOLEAN, NEW part \in BOOLEAN,
           MatchOne(p, n, h, part)
    PROVE  /\ Book!Spend(p)
           /\ bank' = [bank EXCEPT ![p] = "MATCHED"] /\ alloc'[p] # Nothing
           /\ ~Locked(p) /\ UNCHANGED <<pour, unwind>>
<1> DEFINE due == OcrOutstanding(n)
           full == Amount[p] \in due - Tol .. due + Tol
           got == IF full THEN due ELSE Amount[p]
           d == [Nothing EXCEPT ![n] = got]
<1>1. due \in Nat /\ Amount[p] \in Nat \ {0} /\ Tol \in Nat
  BY DebtType, AmountAssumption
<1>2. got \in Nat \ {0} /\ got <= Amount[p] + Tol
  <2>1. due > 0
    BY DEF MatchOne
  <2>. QED
    BY <1>1, <2>1
<1>3. alloc[p] = Nothing /\ ~Locked(p)
  BY DEF MatchOne, Unspent
<1>4. alloc' = [alloc EXCEPT ![p] = [k \in Notice |-> alloc[p][k] + d[k]]]
      /\ bank' = [bank EXCEPT ![p] = "MATCHED"]
  BY DEF MatchOne, Allocate, TypeOK
<1>5. alloc'[p] = [k \in Notice |-> IF k = n THEN got ELSE 0]
  BY <1>2, <1>3, <1>4 DEF Nothing, TypeOK
<1>6. alloc'[p] \in [Notice -> Nat] /\ alloc'[p][n] > 0
  BY <1>2, <1>5
<1>7. SumFunction(alloc'[p]) <= Amount[p] + Tol
  <2>1. got \in Int
    BY <1>2
  <2>2. SumFunction(alloc'[p]) = got
    <3>. HIDE DEF got
    <3>. QED
      BY <1>5, <2>1, NoticeAssumption, SumOfOne
  <2>. QED
    BY <1>2, <2>2
<1>8. alloc'[p] # Nothing
  BY <1>6 DEF Nothing
<1>9. alloc' = [alloc EXCEPT ![p] = alloc'[p]]
  BY <1>4, <1>5 DEF TypeOK
<1>. QED
  BY <1>3, <1>4, <1>6, <1>7, <1>8, <1>9, BookSum DEF Book!Spend, Book!Unspent, Nothing, MatchOne

\* So does the waterfall, when it commits.
LEMMA PourSpends ==
    ASSUME TypeOK, RowInv, NEW p \in Payment, PourCommit(p)
    PROVE  /\ Book!Spend(p)
           /\ bank' = [bank EXCEPT ![p] = "MATCHED"] /\ alloc'[p] # Nothing
           /\ pour' = [pour EXCEPT ![p] = NoPour] /\ UNCHANGED unwind /\ pour[p] # NoPour
<1> DEFINE r == pour[p]
           rest == Rest(r)
           total == SumFunction([i \in DOMAIN rest |-> Remaining(rest[i], r)])
           budget == IF total \in Amount[p] - Tol .. Amount[p] + Tol THEN total ELSE Amount[p]
<1>1. PICK d \in Waterfall(rest, r, budget) :
        /\ Cardinality({n \in Notice : d[n] > 0}) >= 2
        /\ \E paid, kept \in SUBSET Notice : Allocate(p, d, paid, kept)
  BY DEF PourCommit
<1>2. d \in [Notice -> Nat] /\ SumFunction(d) <= Amount[p] + Tol
  BY WaterfallType
<1>3. \E n \in Notice : d[n] > 0
  <2>. SUFFICES ASSUME {n \in Notice : d[n] > 0} = {} PROVE FALSE
    OBVIOUS
  <2>1. Cardinality({n \in Notice : d[n] > 0}) = 0
    BY FS_EmptySet
  <2>. QED
    BY <1>1, <2>1
<1>4. alloc[p] = Nothing /\ pour[p] # NoPour
  BY DEF RowInv, PourCommit
<1>5. alloc' = [alloc EXCEPT ![p] = [k \in Notice |-> alloc[p][k] + d[k]]]
      /\ bank' = [bank EXCEPT ![p] = "MATCHED"]
  BY <1>1 DEF Allocate, TypeOK
<1>6. alloc'[p] = d
  BY <1>2, <1>4, <1>5 DEF Nothing, TypeOK
<1>7. alloc'[p] # Nothing /\ alloc' = [alloc EXCEPT ![p] = alloc'[p]]
  BY <1>3, <1>5, <1>6 DEF Nothing, TypeOK
<1>. QED
  BY <1>2, <1>4, <1>5, <1>6, <1>7, BookSum DEF Book!Spend, Book!Unspent, Nothing, PourCommit

\* An unmatch takes back every notice's share of the row.
LEMMA UnmatchTakesBack ==
    ASSUME TypeOK, RowInv, NEW p \in Payment, UnmatchCommit(p)
    PROVE  /\ Book!TakeBack(p)
           /\ bank' = [bank EXCEPT ![p] = "UNMATCHED"] /\ alloc'[p] = Nothing
           /\ unwind' = NoUnwind /\ UNCHANGED pour
<1>1. alloc[p] # Nothing
  BY DEF RowInv, UnmatchCommit
<1>2. \A n \in Notice :
        alloc[p][n] - (IF n \in Touched(p) THEN alloc[p][n] ELSE 0) = 0
  BY DEF TypeOK, Touched
<1>3. alloc' = [alloc EXCEPT ![p] = [n \in Notice |->
                alloc[p][n] - (IF n \in Touched(p) THEN alloc[p][n] ELSE 0)]]
  BY DEF UnmatchCommit, TypeOK
<1>4. alloc' = [alloc EXCEPT ![p] = Nothing]
  BY <1>2, <1>3 DEF Nothing
<1>. QED
  BY <1>1, <1>4 DEF Book!TakeBack, Book!Unspent, UnmatchCommit, Nothing, TypeOK

\* No command on a notice touches a bank row or what is under way on one.
LEMMA NoticeStepKeepsRows ==
    ASSUME NEW n \in Notice, NoticeStep(n)
    PROVE  UNCHANGED <<bank, excluded, review, alloc, queued, pour, unwind>>
<1>1. SendOk(n) \/ SendFails(n) \/ MarkOverdue(n) =>
        UNCHANGED <<bank, excluded, review, alloc, queued, pour, unwind>>
  BY DEF SendOk, SendFails, MarkOverdue, bankVars, flightVars
<1>2. ASSUME NEW a, MarkAsPaid(n, a) \/ CreateCredit(n, a) \/ Clear(a, n) \/ GiveUp(a, n)
      PROVE  UNCHANGED <<bank, excluded, review, alloc, queued, pour, unwind>>
  BY <1>2 DEF MarkAsPaid, CreateCredit, Clear, GiveUp, bankVars, flightVars
<1>3. Cancel(n) \/ StrikeFee(n) \/ Remind(n) \/ MakeInkassoReady(n) \/ WriteDown(n) \/ WriteOff(n)
        => UNCHANGED <<bank, excluded, review, alloc, queued, pour, unwind>>
  BY DEF Cancel, StrikeFee, Remind, MakeInkassoReady, WriteDown, WriteOff, Claim, bankVars,
         flightVars
<1>4. ASSUME NEW i, CrystallizeInterest(n, i)
      PROVE  UNCHANGED <<bank, excluded, review, alloc, queued, pour, unwind>>
  BY <1>4 DEF CrystallizeInterest, Claim, bankVars
<1>. QED
  BY <1>1, <1>2, <1>3, <1>4 DEF NoticeStep

\* The steps of a bank row that leave the notices and every allocation alone.
Quiet(p) == PickUp(p) \/ PassBy(p) \/ FlagForReview(p) \/ AutoPour(p) \/ ManualPour(p)
            \/ PourAbort(p) \/ Ignore(p) \/ UnmatchRead(p)

LEMMA QuietKeeps ==
    ASSUME NEW p \in Payment, Quiet(p)
    PROVE  UNCHANGED <<status, stage, dispatch, paidAmount, received, claimVars, ledgerVars,
                       alloc, cleared>>
<1>1. PickUp(p) \/ PassBy(p) \/ FlagForReview(p) \/ PourAbort(p) \/ Ignore(p) \/ UnmatchRead(p)
        => UNCHANGED <<status, stage, dispatch, paidAmount, received, claimVars, ledgerVars,
                       alloc, cleared>>
  BY DEF PickUp, PassBy, FlagForReview, PourAbort, Ignore, UnmatchRead, bankVars, flightVars
<1>2. ASSUME NEW f, NEW h, PourRead(p, f, h)
      PROVE  UNCHANGED <<status, stage, dispatch, paidAmount, received, claimVars, ledgerVars,
                         alloc, cleared>>
  BY <1>2 DEF PourRead, bankVars
<1>. QED
  BY <1>1, <1>2 DEF Quiet, AutoPour, ManualPour

\* A step of a bank row is quiet, a match, a waterfall's commit or an unmatch's.
LEMMA BankStepCases ==
    ASSUME NEW p \in Payment, BankStep(p)
    PROVE  \/ Quiet(p) \/ PourCommit(p) \/ UnmatchCommit(p)
           \/ \E n \in Notice : \E h, part \in BOOLEAN : MatchOne(p, n, h, part)
  BY DEF BankStep, Quiet, ManualMatch, AutoMatch

\* Quiet steps keep what RowInv says.
LEMMA QuietRowInv ==
    ASSUME TypeOK, RowInv, NEW p \in Payment, Quiet(p)
    PROVE  RowInv'
<1>1. UNCHANGED alloc
  BY QuietKeeps
<1>2. CASE PickUp(p) \/ PassBy(p) \/ FlagForReview(p)
  BY <1>1, <1>2 DEF PickUp, PassBy, FlagForReview, RowInv, bankVars
<1>3. ASSUME NEW f, NEW h, PourRead(p, f, h) PROVE RowInv'
  BY <1>1, <1>3 DEF PourRead, Unspent, RowInv, bankVars, TypeOK
<1>4. CASE AutoPour(p) \/ ManualPour(p)
  BY <1>3, <1>4 DEF AutoPour, ManualPour
<1>5. CASE PourAbort(p)
  BY <1>1, <1>5 DEF PourAbort, RowInv, bankVars, TypeOK
<1>6. CASE Ignore(p)
  BY <1>1, <1>6 DEF Ignore, Locked, RowInv, flightVars, TypeOK
<1>7. CASE UnmatchRead(p)
  BY <1>1, <1>7 DEF UnmatchRead, RowInv, bankVars, TypeOK
<1>. QED
  BY <1>2, <1>4, <1>5, <1>6, <1>7 DEF Quiet

LEMMA RowInvInvariant == Spec => []RowInv
<1>1. Init => RowInv
  BY DEF Init, RowInv, NoUnwind, NoPour
<1>2. TypeOK /\ RowInv /\ [Next]_vars => RowInv'
  <2>. SUFFICES ASSUME TypeOK, RowInv, [Next]_vars PROVE RowInv'
    OBVIOUS
  <2>1. CASE UNCHANGED vars
    BY <2>1 DEF RowInv, vars, bankVars, flightVars
  <2>2. ASSUME NEW n \in Notice, NoticeStep(n) PROVE RowInv'
    BY <2>2, NoticeStepKeepsRows DEF RowInv
  <2>3. ASSUME NEW p \in Payment, Quiet(p) PROVE RowInv'
    BY <2>3, QuietRowInv
  <2>4. ASSUME NEW p \in Payment, NEW n \in Notice, NEW h \in BOOLEAN, NEW part \in BOOLEAN,
               MatchOne(p, n, h, part)
        PROVE  RowInv'
    <3>1. /\ alloc' = [alloc EXCEPT ![p] = alloc'[p]] /\ alloc'[p] # Nothing
          /\ bank' = [bank EXCEPT ![p] = "MATCHED"]
          /\ pour[p] = NoPour /\ p \notin unwind.row /\ UNCHANGED <<pour, unwind>>
      BY <2>4, MatchSpends DEF Book!Spend, Locked
    <3>. QED
      BY <3>1 DEF RowInv, TypeOK
  <2>5. ASSUME NEW p \in Payment, PourCommit(p) PROVE RowInv'
    <3>1. /\ alloc' = [alloc EXCEPT ![p] = alloc'[p]] /\ alloc'[p] # Nothing
          /\ bank' = [bank EXCEPT ![p] = "MATCHED"]
          /\ pour' = [pour EXCEPT ![p] = NoPour] /\ UNCHANGED unwind
      BY <2>5, PourSpends DEF Book!Spend
    <3>. QED
      BY <3>1 DEF RowInv, TypeOK
  <2>6. ASSUME NEW p \in Payment, UnmatchCommit(p) PROVE RowInv'
    <3>1. /\ alloc' = [alloc EXCEPT ![p] = Nothing]
          /\ bank' = [bank EXCEPT ![p] = "UNMATCHED"]
          /\ unwind' = NoUnwind /\ UNCHANGED pour
      BY <2>6, UnmatchTakesBack DEF Book!TakeBack, Book!Unspent, Nothing
    <3>. QED
      BY <3>1 DEF RowInv, TypeOK, NoUnwind
  <2>. QED
    BY <2>1, <2>2, <2>3, <2>4, <2>5, <2>6, BankStepCases DEF Next
<1>. QED
  BY <1>1, <1>2, TypeCorrect, PTL DEF Spec

\* Every step spends a whole free row, takes a whole row back or leaves the
\* allocations alone.
LEMMA StepImplements ==
    ASSUME TypeOK, RowInv, [Next]_vars
    PROVE  [Book!Next]_alloc
<1>1. CASE UNCHANGED vars
  BY <1>1 DEF vars, bankVars
<1>2. ASSUME NEW n \in Notice, NoticeStep(n) PROVE UNCHANGED alloc
  BY <1>2, NoticeStepKeepsRows
<1>3. ASSUME NEW p \in Payment, BankStep(p) PROVE [Book!Next]_alloc
  <2>1. CASE Quiet(p)
    BY <2>1, QuietKeeps
  <2>2. ASSUME NEW n \in Notice, NEW h \in BOOLEAN, NEW part \in BOOLEAN,
               MatchOne(p, n, h, part)
        PROVE  Book!Next
    BY <2>2, MatchSpends DEF Book!Next
  <2>3. CASE PourCommit(p)
    BY <2>3, PourSpends DEF Book!Next
  <2>4. CASE UnmatchCommit(p)
    BY <2>4, UnmatchTakesBack DEF Book!Next
  <2>. QED
    BY <1>3, <2>1, <2>2, <2>3, <2>4, BankStepCases
<1>. QED
  BY <1>1, <1>2, <1>3 DEF Next

\* The bank rows implement the payment book: no interleaving of matches,
\* waterfalls and unmatches spends a row twice, more than the row holds, or
\* takes a part of it back.
THEOREM Implementation == Spec => ImplementsPaymentBook
<1>1. Init => Book!Init
  BY DEF Init, Book!Init, Book!Unspent, Nothing
<1>2. TypeOK /\ RowInv /\ [Next]_vars => [Book!Next]_alloc
  BY StepImplements
<1>. QED
  BY <1>1, <1>2, TypeCorrect, RowInvInvariant, PTL DEF Spec, ImplementsPaymentBook, Book!Spec

\* What the notices hold of a row never exceeds it by more than the tolerance.
LEMMA RowSumInvariant == Spec => [](\A p \in Payment : SumFunction(alloc[p]) <= Amount[p] + Tol)
<1> DEFINE Sums == \A p \in Payment : SumFunction(alloc[p]) <= Amount[p] + Tol
<1>0. SumFunction(Nothing) = 0
  <2>1. Nothing = [k \in Notice |-> IF k = 0 THEN 0 ELSE 0]
    BY DEF Nothing
  <2>2. IsFiniteSet(Notice) /\ 0 \in Int
    BY NoticeAssumption
  <2>3. SumFunction(Nothing) = IF 0 \in Notice THEN 0 ELSE 0
    BY <2>1, <2>2, SumOfOne
  <2>. QED
    BY <2>3
<1>1. \A p \in Payment : SumFunction(Nothing) <= Amount[p] + Tol
  BY <1>0, AmountAssumption
<1>2. Init => Sums
  BY <1>1 DEF Init
<1>3. TypeOK /\ RowInv /\ Sums /\ [Next]_vars => Sums'
  <2>. SUFFICES ASSUME TypeOK, RowInv, Sums, [Next]_vars PROVE Sums'
    OBVIOUS
  <2>1. [Book!Next]_alloc
    BY StepImplements
  <2>2. ASSUME NEW p \in Payment, Book!Spend(p) PROVE Sums'
    <3>1. SumFunction(alloc'[p]) <= Amount[p] + Tol /\ alloc' = [alloc EXCEPT ![p] = alloc'[p]]
      BY <2>2, BookSum DEF Book!Spend
    <3>. QED
      BY <3>1 DEF TypeOK
  <2>3. ASSUME NEW p \in Payment, Book!TakeBack(p) PROVE Sums'
    <3>1. alloc' = [alloc EXCEPT ![p] = Nothing]
      BY <2>3 DEF Book!TakeBack, Book!Unspent, Nothing
    <3>. QED
      BY <1>1, <3>1 DEF TypeOK
  <2>4. CASE UNCHANGED alloc
    BY <2>4
  <2>. QED
    BY <2>1, <2>2, <2>3, <2>4 DEF Book!Next
<1>. QED
  BY <1>2, <1>3, TypeCorrect, RowInvInvariant, PTL DEF Spec

\* A bank row is spent at most once: it carries allocations exactly while it is
\* not free, and together they never exceed its amount and the tolerance.
THEOREM RowSpentOnce == Spec => []BankRowSpentOnce
<1>1. RowInv /\ (\A p \in Payment : SumFunction(alloc[p]) <= Amount[p] + Tol) => BankRowSpentOnce
  BY DEF RowInv, BankRowSpentOnce
<1>. QED
  BY <1>1, RowInvInvariant, RowSumInvariant, PTL

-----------------------------------------------------------------------------
(* The claim side: the ladder, the credits, the historical debt and the two *)
(* accounts. *)

\* What a match or a waterfall of row p does to the notices: it settles only
\* notices that were open, and it touches nothing but status, ladder and money.
Delivers(p) ==
    \E d \in [Notice -> Nat] :
    \E paid \in SUBSET {n \in Notice : status[n] \in ManualPayable} :
    \E kept \in SUBSET Notice :
        /\ Allocate(p, d, paid, kept)
        /\ UNCHANGED <<dispatch, claimVars, accrual, feeVoucher, doubtful, cleared>>

LEMMA MatchDelivers ==
    ASSUME TypeOK, NEW p \in Payment, NEW n \in Notice, NEW h \in BOOLEAN, NEW part \in BOOLEAN,
           MatchOne(p, n, h, part)
    PROVE  Delivers(p)
<1> DEFINE due == OcrOutstanding(n)
           full == Amount[p] \in due - Tol .. due + Tol
           d == [Nothing EXCEPT ![n] = IF full THEN due ELSE Amount[p]]
           paid == IF full THEN {n} ELSE {}
<1>1. d \in [Notice -> Nat]
  BY DebtType, AmountAssumption DEF Nothing
<1>2. Allocate(p, d, paid, {})
  BY DEF MatchOne
<1>3. status[n] \in ManualPayable
  BY DEF MatchOne, ManualPayable
<1>. HIDE DEF d
<1>4. paid \in SUBSET {k \in Notice : status[k] \in ManualPayable} /\ {} \in SUBSET Notice
  BY <1>3
<1>5. UNCHANGED <<dispatch, claimVars, accrual, feeVoucher, doubtful, cleared>>
  BY DEF MatchOne
<1>. HIDE DEF paid
<1>. QED
  BY <1>1, <1>2, <1>4, <1>5 DEF Delivers

LEMMA PourDelivers ==
    ASSUME TypeOK, NEW p \in Payment, PourCommit(p)
    PROVE  Delivers(p)
<1> DEFINE r == pour[p]
           rest == Rest(r)
           total == SumFunction([i \in DOMAIN rest |-> Remaining(rest[i], r)])
           budget == IF total \in Amount[p] - Tol .. Amount[p] + Tol THEN total ELSE Amount[p]
           full(d) == {n \in Notice : d[n] > 0 /\ d[n] = Remaining(n, r)}
           open == {n \in Notice : status[n] \in IF r.human THEN ManualPayable ELSE Payable}
<1>1. PICK d \in Waterfall(rest, r, budget) : Allocate(p, d, full(d) \cap open, full(d) \ open)
  BY DEF PourCommit
<1>2. d \in [Notice -> Nat]
  BY WaterfallType
<1>3. /\ full(d) \cap open \in SUBSET {n \in Notice : status[n] \in ManualPayable}
      /\ full(d) \ open \in SUBSET Notice
  BY DEF ManualPayable
<1>4. UNCHANGED <<dispatch, claimVars, accrual, feeVoucher, doubtful, cleared>>
  BY DEF PourCommit
<1>. HIDE DEF full, open
<1>. QED
  BY <1>1, <1>2, <1>3, <1>4 DEF Delivers

\* A step of a bank row is quiet, brings money to notices or takes it back.
LEMMA BankStepEffect ==
    ASSUME TypeOK, NEW p \in Payment, BankStep(p)
    PROVE  Quiet(p) \/ Delivers(p) \/ UnmatchCommit(p)
  BY BankStepCases, MatchDelivers, PourDelivers

\* Nothing but an unmatch changes the status of a settled notice.
LEMMA NoticeStepKeepsSettled ==
    ASSUME TypeOK, NEW k \in Notice, NoticeStep(k), NEW n \in Notice, status[n] \in Settled
    PROVE  status'[n] = status[n]
<1>. USE DEF TypeOK, Settled
<1>1. SendOk(k) \/ SendFails(k) \/ MarkOverdue(k) => status'[n] = status[n]
  BY DEF SendOk, SendFails, MarkOverdue, Sendable
<1>2. ASSUME NEW a, MarkAsPaid(k, a) PROVE status'[n] = status[n]
  BY <1>2 DEF MarkAsPaid, Payable
<1>3. ASSUME NEW a, CreateCredit(k, a) \/ Clear(a, k) \/ GiveUp(a, k) PROVE status'[n] = status[n]
  BY <1>3 DEF CreateCredit, Clear, GiveUp
<1>4. Cancel(k) => status'[n] = status[n]
  BY DEF Cancel, CancelClaim
<1>5. StrikeFee(k) \/ Remind(k) \/ MakeInkassoReady(k) \/ WriteDown(k) \/ WriteOff(k)
        => status'[n] = status[n]
  BY DEF StrikeFee, Remind, MakeInkassoReady, WriteDown, WriteOff
<1>6. ASSUME NEW i, CrystallizeInterest(k, i) PROVE status'[n] = status[n]
  BY <1>6 DEF CrystallizeInterest
<1>. QED
  BY <1>1, <1>2, <1>3, <1>4, <1>5, <1>6 DEF NoticeStep

LEMMA DeliversKeepsSettled ==
    ASSUME TypeOK, NEW p \in Payment, Delivers(p), NEW n \in Notice, status[n] \in Settled
    PROVE  status'[n] = status[n]
<1>1. PICK d \in [Notice -> Nat],
          paid \in SUBSET {k \in Notice : status[k] \in ManualPayable},
          kept \in SUBSET Notice : Allocate(p, d, paid, kept)
  BY DEF Delivers
<1>2. n \notin paid
  BY DEF Settled, ManualPayable, Payable
<1>. QED
  BY <1>1, <1>2 DEF Allocate

-----------------------------------------------------------------------------
(* The unmatch under way and the claim ladder. *)

\* Every notice that the unmatch under way will open again is still paid, and
\* still holds money of the row.
ReopenInv ==
    \A p \in Payment : p \in unwind.row =>
        \A n \in unwind.reopen : status[n] = "PAID" /\ alloc[p][n] > 0

\* No match or waterfall reaches the row an unmatch holds.
LEMMA DeliveryOfFreeRow ==
    ASSUME TypeOK, RowInv, NEW p \in Payment, BankStep(p), ~Quiet(p), ~UnmatchCommit(p)
    PROVE  /\ p \notin unwind.row /\ UNCHANGED unwind
           /\ alloc' = [alloc EXCEPT ![p] = alloc'[p]]
<1>1. ASSUME NEW n \in Notice, NEW h \in BOOLEAN, NEW part \in BOOLEAN, MatchOne(p, n, h, part)
      PROVE  /\ p \notin unwind.row /\ UNCHANGED unwind
             /\ alloc' = [alloc EXCEPT ![p] = alloc'[p]]
  BY <1>1, MatchSpends DEF Book!Spend, Locked
<1>2. ASSUME PourCommit(p)
      PROVE  /\ p \notin unwind.row /\ UNCHANGED unwind
             /\ alloc' = [alloc EXCEPT ![p] = alloc'[p]]
  BY <1>2, PourSpends DEF Book!Spend, RowInv
<1>. QED
  BY <1>1, <1>2, BankStepCases

LEMMA ReopenInvInvariant == Spec => []ReopenInv
<1>1. Init => ReopenInv
  BY DEF Init, ReopenInv, NoUnwind
<1>2. TypeOK /\ RowInv /\ ReopenInv /\ [Next]_vars => ReopenInv'
  <2>. SUFFICES ASSUME TypeOK, RowInv, ReopenInv, [Next]_vars PROVE ReopenInv'
    OBVIOUS
  <2>0. unwind.reopen \subseteq Notice
    BY DEF TypeOK
  <2>1. CASE UNCHANGED vars
    BY <2>1 DEF ReopenInv, vars, bankVars, flightVars
  <2>2. ASSUME NEW n \in Notice, NoticeStep(n) PROVE ReopenInv'
    <3>1. UNCHANGED <<alloc, unwind>>
      BY <2>2, NoticeStepKeepsRows
    <3>2. \A k \in Notice : status[k] = "PAID" => status'[k] = "PAID"
      BY <2>2, NoticeStepKeepsSettled DEF Settled
    <3>. QED
      BY <2>0, <3>1, <3>2 DEF ReopenInv
  <2>3. ASSUME NEW p \in Payment, Quiet(p), ~UnmatchRead(p) PROVE ReopenInv'
    <3>1. UNCHANGED <<alloc, status>>
      BY <2>3, QuietKeeps
    <3>2. UNCHANGED unwind
      BY <2>3 DEF Quiet, PickUp, PassBy, FlagForReview, AutoPour, ManualPour, PourRead,
                  PourAbort, Ignore, flightVars
    <3>. QED
      BY <3>1, <3>2 DEF ReopenInv
  <2>4. ASSUME NEW p \in Payment, UnmatchRead(p) PROVE ReopenInv'
    <3>1. UNCHANGED <<alloc, status>> /\ unwind'.row = {p} /\ unwind'.reopen = Reopens(p)
      BY <2>4 DEF UnmatchRead, bankVars
    <3>. QED
      BY <3>1 DEF ReopenInv, Reopens, Touched
  <2>5. ASSUME NEW p \in Payment, UnmatchCommit(p) PROVE ReopenInv'
    BY <2>5 DEF UnmatchCommit, ReopenInv, NoUnwind
  <2>6. ASSUME NEW p \in Payment, BankStep(p), ~Quiet(p), ~UnmatchCommit(p) PROVE ReopenInv'
    <3>1. /\ p \notin unwind.row /\ UNCHANGED unwind
          /\ alloc' = [alloc EXCEPT ![p] = alloc'[p]]
      BY <2>6, DeliveryOfFreeRow
    <3>2. \A k \in Notice : status[k] = "PAID" => status'[k] = "PAID"
      BY <2>6, BankStepEffect, DeliversKeepsSettled DEF Settled
    <3>. QED
      BY <2>0, <3>1, <3>2 DEF ReopenInv, TypeOK
  <2>. QED
    BY <2>1, <2>2, <2>3, <2>4, <2>5, <2>6 DEF Next
<1>. QED
  BY <1>1, <1>2, TypeCorrect, RowInvInvariant, PTL DEF Spec

\* A settled notice opens again only when an unmatch takes money back from it,
\* and a cancelled one never, whatever the other operators do meanwhile.
THEOREM SettledOpens == Spec => SettledOpensOnlyByUnmatch
<1>1. TypeOK /\ RowInv /\ ReopenInv /\ [Next]_vars =>
        [\A n \in Notice : status[n] \in Settled /\ status'[n] # status[n] =>
            status[n] = "PAID" /\ received'[n] < received[n]]_vars
  <2>. SUFFICES ASSUME TypeOK, RowInv, ReopenInv, Next, NEW n \in Notice,
                       status[n] \in Settled, status'[n] # status[n]
                PROVE  status[n] = "PAID" /\ received'[n] < received[n]
    OBVIOUS
  <2>1. PICK p \in Payment : UnmatchCommit(p)
    <3>1. \A k \in Notice : ~NoticeStep(k)
      BY NoticeStepKeepsSettled
    <3>2. PICK p \in Payment : BankStep(p)
      BY <3>1 DEF Next
    <3>3. ~Quiet(p) /\ ~Delivers(p)
      BY QuietKeeps, DeliversKeepsSettled
    <3>. QED
      BY <3>2, <3>3, BankStepEffect
  <2>2. n \in unwind.reopen /\ p \in unwind.row
    BY <2>1 DEF UnmatchCommit, TypeOK
  <2>3. status[n] = "PAID" /\ alloc[p][n] > 0
    BY <2>2 DEF ReopenInv
  <2>4. n \in Touched(p)
    BY <2>3 DEF Touched
  <2>5. received'[n] = received[n] - alloc[p][n]
    BY <2>1, <2>4 DEF UnmatchCommit
  <2>6. alloc[p][n] \in Nat /\ received[n] \in Int
    BY DEF TypeOK
  <2>. QED
    BY <2>3, <2>5, <2>6
<1>. QED
  BY <1>1, TypeCorrect, RowInvInvariant, ReopenInvInvariant, PTL
     DEF Spec, SettledOpensOnlyByUnmatch

-----------------------------------------------------------------------------

\* The ladder holds no notice that is paid, cancelled, historical or not yet
\* overdue: an unmatch that opens a notice again finds it off the ladder.
THEOREM LadderOpen == Spec => []LadderOnlyOnOpenDebt
<1>1. Init => LadderOnlyOnOpenDebt
  BY DEF Init, LadderOnlyOnOpenDebt
<1>2. TypeOK /\ ReopenInv /\ LadderOnlyOnOpenDebt /\ [Next]_vars => LadderOnlyOnOpenDebt'
  <2>. SUFFICES ASSUME TypeOK, ReopenInv, LadderOnlyOnOpenDebt, [Next]_vars
                PROVE  LadderOnlyOnOpenDebt'
    OBVIOUS
  <2>. USE DEF TypeOK, LadderOnlyOnOpenDebt
  <2>1. CASE UNCHANGED vars
    BY <2>1 DEF vars
  <2>2. ASSUME NEW p \in Payment, Quiet(p) PROVE LadderOnlyOnOpenDebt'
    BY <2>2, QuietKeeps
  <2>3. ASSUME NEW p \in Payment, Delivers(p) PROVE LadderOnlyOnOpenDebt'
    BY <2>3 DEF Delivers, Allocate
  <2>4. ASSUME NEW p \in Payment, UnmatchCommit(p) PROVE LadderOnlyOnOpenDebt'
    BY <2>4 DEF UnmatchCommit, ReopenInv
  <2>5. ASSUME NEW n \in Notice, NoticeStep(n) PROVE LadderOnlyOnOpenDebt'
    <3>1. CASE SendOk(n) \/ SendFails(n) \/ MarkOverdue(n)
      BY <3>1 DEF SendOk, SendFails, MarkOverdue
    <3>2. ASSUME NEW a, MarkAsPaid(n, a) PROVE LadderOnlyOnOpenDebt'
      BY <3>2 DEF MarkAsPaid
    <3>3. ASSUME NEW a, CreateCredit(n, a) \/ Clear(a, n) \/ GiveUp(a, n)
          PROVE  LadderOnlyOnOpenDebt'
      BY <3>3 DEF CreateCredit, Clear, GiveUp
    <3>4. CASE Cancel(n) \/ StrikeFee(n) \/ WriteDown(n) \/ WriteOff(n)
      BY <3>4 DEF Cancel, StrikeFee, WriteDown, WriteOff
    <3>5. CASE Remind(n) \/ MakeInkassoReady(n)
      BY <3>5 DEF Remind, MakeInkassoReady, StepClaim
    <3>6. ASSUME NEW i, CrystallizeInterest(n, i) PROVE LadderOnlyOnOpenDebt'
      BY <3>6 DEF CrystallizeInterest
    <3>. QED
      BY <2>5, <3>1, <3>2, <3>3, <3>4, <3>5, <3>6 DEF NoticeStep
  <2>. QED
    BY <2>1, <2>2, <2>3, <2>4, <2>5, BankStepEffect DEF Next
<1>. QED
  BY <1>1, <1>2, TypeCorrect, ReopenInvInvariant, PTL DEF Spec

\* Credit and write-down exclude cancelling and are excluded by it, although
\* each checks the other under its own claim only.
THEOREM CancelledUncredited == Spec => []CancelledIsNotCreditedTwice
<1>1. Init => CancelledIsNotCreditedTwice
  BY DEF Init, CancelledIsNotCreditedTwice
<1>2. TypeOK /\ CancelledIsNotCreditedTwice /\ [Next]_vars => CancelledIsNotCreditedTwice'
  <2>. SUFFICES ASSUME TypeOK, CancelledIsNotCreditedTwice, [Next]_vars
                PROVE  CancelledIsNotCreditedTwice'
    OBVIOUS
  <2>. USE DEF TypeOK, CancelledIsNotCreditedTwice, claimVars
  <2>1. CASE UNCHANGED vars
    BY <2>1 DEF vars
  <2>2. ASSUME NEW p \in Payment, Quiet(p) PROVE CancelledIsNotCreditedTwice'
    BY <2>2, QuietKeeps
  <2>3. ASSUME NEW p \in Payment, Delivers(p) PROVE CancelledIsNotCreditedTwice'
    BY <2>3 DEF Delivers, Allocate
  <2>4. ASSUME NEW p \in Payment, UnmatchCommit(p) PROVE CancelledIsNotCreditedTwice'
    <3>1. \A n \in Notice : Reopened(n) # "CANCELLED"
      BY DEF Reopened
    <3>. QED
      BY <2>4, <3>1 DEF UnmatchCommit
  <2>5. ASSUME NEW n \in Notice, NoticeStep(n) PROVE CancelledIsNotCreditedTwice'
    <3>1. CASE SendOk(n) \/ SendFails(n) \/ MarkOverdue(n)
      BY <3>1 DEF SendOk, SendFails, MarkOverdue
    <3>2. ASSUME NEW a, MarkAsPaid(n, a) PROVE CancelledIsNotCreditedTwice'
      BY <3>2 DEF MarkAsPaid
    <3>3. ASSUME NEW a, CreateCredit(n, a) \/ Clear(a, n) \/ GiveUp(a, n)
          PROVE  CancelledIsNotCreditedTwice'
      BY <3>3 DEF CreateCredit, Clear, GiveUp, Settled
    <3>4. CASE Cancel(n)
      BY <3>4 DEF Cancel, CancelClaim
    <3>5. CASE StrikeFee(n) \/ Remind(n) \/ MakeInkassoReady(n)
      BY <3>5 DEF StrikeFee, Remind, MakeInkassoReady
    <3>6. CASE WriteDown(n)
      BY <3>6 DEF WriteDown, Settled
    <3>8. CASE WriteOff(n)
      <4>1. status[n] # "CANCELLED" /\ UNCHANGED <<status, credited, probable>>
        BY <3>8 DEF WriteOff
      <4>2. \A k \in Notice \ {n} : writtenOff'[k] = writtenOff[k]
        BY <3>8 DEF WriteOff
      <4>. QED
        BY <4>1, <4>2
    <3>7. ASSUME NEW i, CrystallizeInterest(n, i) PROVE CancelledIsNotCreditedTwice'
      BY <3>7 DEF CrystallizeInterest
    <3>. QED
      BY <2>5, <3>1, <3>2, <3>3, <3>4, <3>5, <3>6, <3>7, <3>8 DEF NoticeStep
  <2>. QED
    BY <2>1, <2>2, <2>3, <2>4, <2>5, BankStepEffect DEF Next
<1>. QED
  BY <1>1, <1>2, TypeCorrect, PTL DEF Spec

-----------------------------------------------------------------------------

\* Historical debt has no command under way that could cancel it or write it down.
HistoryInv ==
    /\ HistoryStaysHistory
    /\ \A n \in Opening : "cancel" \notin cleared[n] /\ "writedown" \notin cleared[n]

\* Historical debt from an opening package is open or paid and nothing else: no
\* sequence of steps sends, duns, credits, cancels or writes it down.
THEOREM HistoryKept == Spec => []HistoryStaysHistory
<1>. USE NoticeAssumption
<1>1. Init => HistoryInv
  BY DEF Init, HistoryInv, HistoryStaysHistory, Nothing
<1>2. TypeOK /\ HistoryInv /\ [Next]_vars => HistoryInv'
  <2>. SUFFICES ASSUME TypeOK, HistoryInv, [Next]_vars PROVE HistoryInv'
    OBVIOUS
  <2>. USE DEF TypeOK, HistoryInv, HistoryStaysHistory, claimVars
  <2>1. CASE UNCHANGED vars
    BY <2>1 DEF vars, flightVars
  <2>2. ASSUME NEW p \in Payment, Quiet(p) PROVE HistoryInv'
    BY <2>2, QuietKeeps
  <2>3. ASSUME NEW p \in Payment, Delivers(p) PROVE HistoryInv'
    BY <2>3 DEF Delivers, Allocate
  <2>4. ASSUME NEW p \in Payment, UnmatchCommit(p) PROVE HistoryInv'
    <3>1. \A n \in Opening : Reopened(n) = "OPENING"
      BY DEF Reopened
    <3>. QED
      BY <2>4, <3>1 DEF UnmatchCommit
  <2>5. ASSUME NEW n \in Notice, NoticeStep(n) PROVE HistoryInv'
    <3>1. CASE SendOk(n) \/ SendFails(n) \/ MarkOverdue(n)
      BY <3>1 DEF SendOk, SendFails, MarkOverdue, Sendable, flightVars
    <3>2. ASSUME NEW a, MarkAsPaid(n, a) PROVE HistoryInv'
      BY <3>2 DEF MarkAsPaid, Payable, flightVars
    <3>3. ASSUME NEW c, CreateCredit(n, c) PROVE HistoryInv'
      BY <3>3 DEF CreateCredit, flightVars
    <3>4. ASSUME NEW c \in Stepped, Clear(c, n) PROVE HistoryInv'
      <4>1. n \in Opening => c # "cancel" /\ c # "writedown"
        BY <3>4 DEF Clear, Preflight
      <4>. QED
        BY <3>4, <4>1 DEF Clear
    <3>5. ASSUME NEW c \in Stepped, GiveUp(c, n) PROVE HistoryInv'
      BY <3>5 DEF GiveUp
    <3>6. CASE Cancel(n) \/ WriteDown(n)
      BY <3>6 DEF Cancel, WriteDown, Claim
    <3>7. CASE StrikeFee(n)
      BY <3>7 DEF StrikeFee, Claim
    <3>10. CASE Remind(n) \/ MakeInkassoReady(n)
      <4>1. n \notin Opening
        BY <3>10 DEF Remind, MakeInkassoReady, StepClaim
      <4>2. CASE Remind(n)
        BY <4>1, <4>2 DEF Remind, Claim
      <4>3. CASE MakeInkassoReady(n)
        BY <4>1, <4>3 DEF MakeInkassoReady, Claim
      <4>. QED
        BY <3>10, <4>2, <4>3
    <3>8. ASSUME NEW i, CrystallizeInterest(n, i) PROVE HistoryInv'
      BY <3>8 DEF CrystallizeInterest, Claim
    <3>9. CASE WriteOff(n)
      BY <3>9 DEF WriteOff, flightVars
    <3>. QED
      BY <2>5, <3>1, <3>2, <3>3, <3>4, <3>5, <3>6, <3>7, <3>8, <3>9, <3>10
         DEF NoticeStep
  <2>. QED
    BY <2>1, <2>2, <2>3, <2>4, <2>5, BankStepEffect DEF Next
<1>. QED
  BY <1>1, <1>2, TypeCorrect, PTL DEF Spec, HistoryInv

-----------------------------------------------------------------------------
(* The two accounts. *)

\* A confirmed loss keeps the amount it was written down with, so that the
\* write-down is never made a second time.
DoubtfulInv == DoubtfulNetsToZero /\ \A n \in Notice : writtenOff[n] => probable[n] > 0

LEMMA DoubtfulInvariant == Spec => []DoubtfulInv
<1>1. Init => DoubtfulInv
  BY DEF Init, DoubtfulInv, DoubtfulNetsToZero, Nothing
<1>2. TypeOK /\ DoubtfulInv /\ [Next]_vars => DoubtfulInv'
  <2>. SUFFICES ASSUME TypeOK, DoubtfulInv, [Next]_vars PROVE DoubtfulInv'
    OBVIOUS
  <2>. USE DEF DoubtfulInv, DoubtfulNetsToZero
  <2>1. ASSUME UNCHANGED <<probable, writtenOff, doubtful>> PROVE DoubtfulInv'
    BY <2>1
  <2>2. CASE UNCHANGED vars
    BY <2>1, <2>2 DEF vars, claimVars, ledgerVars
  <2>3. ASSUME NEW p \in Payment, BankStep(p) PROVE DoubtfulInv'
    <3>1. CASE Quiet(p)
      BY <2>1, <3>1, QuietKeeps DEF claimVars, ledgerVars
    <3>2. CASE Delivers(p) \/ UnmatchCommit(p)
      BY <2>1, <3>2 DEF Delivers, UnmatchCommit, claimVars
    <3>. QED
      BY <2>3, <3>1, <3>2, BankStepEffect
  <2>4. ASSUME NEW n \in Notice, NoticeStep(n) PROVE DoubtfulInv'
    <3>1. CASE SendOk(n) \/ SendFails(n) \/ MarkOverdue(n)
      BY <2>1, <3>1 DEF SendOk, SendFails, MarkOverdue, claimVars, ledgerVars
    <3>2. ASSUME NEW a, MarkAsPaid(n, a) \/ CreateCredit(n, a) PROVE DoubtfulInv'
      BY <2>1, <3>2 DEF MarkAsPaid, CreateCredit, claimVars
    <3>3. ASSUME NEW c, Clear(c, n) \/ GiveUp(c, n) PROVE DoubtfulInv'
      BY <2>1, <3>3 DEF Clear, GiveUp, claimVars, ledgerVars
    <3>4. CASE Cancel(n) \/ StrikeFee(n) \/ Remind(n) \/ MakeInkassoReady(n)
      BY <2>1, <3>4 DEF Cancel, StrikeFee, Remind, MakeInkassoReady, claimVars, ledgerVars
    <3>5. ASSUME NEW i, CrystallizeInterest(n, i) PROVE DoubtfulInv'
      BY <2>1, <3>5 DEF CrystallizeInterest
    <3>6. CASE WriteDown(n)
      <4>1. Outstanding(n) \in Nat /\ Outstanding(n) > 0 /\ probable[n] = 0 /\ ~writtenOff[n]
        BY <3>6, DebtType DEF WriteDown
      <4>2. /\ probable' = [probable EXCEPT ![n] = Outstanding(n)]
            /\ doubtful' = [doubtful EXCEPT ![n] = @ + Outstanding(n)]
            /\ UNCHANGED writtenOff
        BY <3>6 DEF WriteDown
      <4>3. doubtful[n] = 0
        BY <4>1
      <4>. QED
        BY <4>1, <4>2, <4>3 DEF TypeOK
    <3>7. CASE WriteOff(n)
      <4>1. probable[n] > 0 /\ doubtful[n] = probable[n] /\ probable[n] \in Nat
        BY <3>7 DEF WriteOff, TypeOK
      <4>2. \A k \in Notice : IF k = n THEN writtenOff'[k] /\ doubtful'[k] = 0
                              ELSE writtenOff'[k] = writtenOff[k] /\ doubtful'[k] = doubtful[k]
        BY <3>7, <4>1 DEF WriteOff, LossAmount, TypeOK
      <4>3. UNCHANGED probable
        BY <3>7 DEF WriteOff
      <4>. QED
        BY <4>1, <4>2, <4>3
    <3>. QED
      BY <2>4, <3>1, <3>2, <3>3, <3>4, <3>5, <3>6, <3>7 DEF NoticeStep
  <2>. QED
    BY <2>2, <2>3, <2>4 DEF Next
<1>. QED
  BY <1>1, <1>2, TypeCorrect, PTL DEF Spec

\* Account 1515 holds the amount written down until the loss is confirmed, and
\* nets to zero then, although the debt may have changed in between.
THEOREM DoubtfulNets == Spec => []DoubtfulNetsToZero
  BY DoubtfulInvariant, PTL DEF DoubtfulInv

\* What the vouchers of a notice have left on the accounts and written off, and
\* what the rows of the notice say, counting the fee only while it has a voucher.
OnLedger(n) == ar[n] + doubtful[n] + (IF writtenOff[n] THEN probable[n] ELSE 0)
Recorded(n) == Total[n] - credited[n] - received[n] + interest[n] + FeeOnLedger(n)

Balanced(n) == /\ accrual[n] = "booked" => OnLedger(n) = Recorded(n)
               /\ feeVoucher[n] = "booked" => fee[n] = Fee
BalanceInv == \A n \in Notice : Balanced(n)

LEMMA LedgerTypes ==
    ASSUME TypeOK, NEW n \in Notice
    PROVE  /\ Total[n] \in Int /\ credited[n] \in Int /\ received[n] \in Int
           /\ interest[n] \in Int /\ Fee \in Int /\ FeeOnLedger(n) \in Int /\ fee[n] \in Int
           /\ ar[n] \in Int /\ doubtful[n] \in Int /\ probable[n] \in Int
<1>1. MaxInterest \in Nat /\ Fee \in Nat /\ Total[n] \in Nat
  BY AmountAssumption
<1>2. interest[n] \in 0 .. MaxInterest
  BY DEF TypeOK
<1>. QED
  BY <1>1, <1>2 DEF TypeOK, FeeOnLedger

\* A notice of which nothing changes stays in balance.
Kept(k) ==
    /\ accrual'[k] = accrual[k] /\ feeVoucher'[k] = feeVoucher[k] /\ fee'[k] = fee[k]
    /\ ar'[k] = ar[k] /\ doubtful'[k] = doubtful[k] /\ writtenOff'[k] = writtenOff[k]
    /\ probable'[k] = probable[k] /\ credited'[k] = credited[k]
    /\ received'[k] = received[k] /\ interest'[k] = interest[k]

LEMMA KeptBalance ==
    ASSUME BalanceInv, NEW k \in Notice, Kept(k)
    PROVE  Balanced(k)'
<1>1. FeeOnLedger(k)' = FeeOnLedger(k)
  BY DEF FeeOnLedger, Kept
<1>2. OnLedger(k)' = OnLedger(k) /\ Recorded(k)' = Recorded(k)
  BY <1>1 DEF OnLedger, Recorded, Kept
<1>. QED
  BY <1>2 DEF BalanceInv, Balanced, Kept

\* Money that moves between a bank row and the notices moves 1510 with it.
LEMMA BankBalance ==
    ASSUME TypeOK, BalanceInv, NEW p \in Payment, BankStep(p)
    PROVE  BalanceInv'
<1>1. ASSUME NEW g \in [Notice -> Int], received' = [n \in Notice |-> received[n] + g[n]],
             ar' = [n \in Notice |-> ar[n] - g[n]],
             UNCHANGED <<claimVars, accrual, feeVoucher, doubtful>>
      PROVE  BalanceInv'
  <2>. SUFFICES ASSUME NEW n \in Notice
                PROVE  Balanced(n)'
    BY DEF BalanceInv
  <2>1. received'[n] = received[n] + g[n] /\ ar'[n] = ar[n] - g[n] /\ g[n] \in Int
    BY <1>1
  <2>2. FeeOnLedger(n)' = FeeOnLedger(n)
    BY <1>1 DEF FeeOnLedger
  <2>3. accrual[n] = "booked" => OnLedger(n) = Recorded(n)
    BY DEF BalanceInv, Balanced
  <2>4. /\ credited'[n] = credited[n] /\ interest'[n] = interest[n] /\ probable'[n] = probable[n]
        /\ writtenOff'[n] = writtenOff[n] /\ doubtful'[n] = doubtful[n]
    BY <1>1 DEF claimVars
  <2>5. OnLedger(n)' = OnLedger(n) - g[n]
    BY <2>1, <2>4, LedgerTypes DEF OnLedger
  <2>6. Recorded(n)' = Recorded(n) - g[n]
    BY <2>1, <2>2, <2>4, LedgerTypes DEF Recorded
  <2>. QED
    BY <1>1, <2>3, <2>5, <2>6 DEF BalanceInv, Balanced, claimVars
<1>2. CASE Quiet(p)
  <2>1. UNCHANGED <<received, claimVars, ledgerVars>>
    BY <1>2, QuietKeeps
  <2>. QED
    BY <2>1, KeptBalance DEF BalanceInv, Kept, claimVars, ledgerVars
<1>3. CASE Delivers(p)
  BY <1>1, <1>3 DEF Delivers, Allocate
<1>4. CASE UnmatchCommit(p)
  <2> DEFINE g == [n \in Notice |-> IF n \in Touched(p) THEN 0 - alloc[p][n] ELSE 0]
  <2>1. g \in [Notice -> Int]
    BY DEF TypeOK
  <2>2. \A n \in Notice :
          LET back == IF n \in Touched(p) THEN alloc[p][n] ELSE 0
          IN  received[n] - back = received[n] + g[n] /\ ar[n] + back = ar[n] - g[n]
    BY DEF TypeOK
  <2>3. received' = [n \in Notice |-> received[n] + g[n]] /\ ar' = [n \in Notice |-> ar[n] - g[n]]
    BY <1>4, <2>2 DEF UnmatchCommit
  <2>. HIDE DEF g
  <2>. QED
    BY <1>1, <1>4, <2>1, <2>3 DEF UnmatchCommit
<1>. QED
  BY <1>2, <1>3, <1>4, BankStepEffect

LEMMA FeeKept ==
    ASSUME NEW n \in Notice, feeVoucher'[n] = feeVoucher[n]
    PROVE  FeeOnLedger(n)' = FeeOnLedger(n)
  BY DEF FeeOnLedger

\* So does every command: what it adds to or takes from the debt of a notice is
\* what its voucher carries.
LEMMA NoticeBalance ==
    ASSUME TypeOK, DoubtfulInv, BalanceInv, NEW n \in Notice, NoticeStep(n)
    PROVE  BalanceInv'
<1>. USE LedgerTypes
<1>1. ASSUME Balanced(n)', \A k \in Notice \ {n} : Kept(k) PROVE BalanceInv'
  BY <1>1, KeptBalance DEF BalanceInv
<1>2. ASSUME \A k \in Notice : Kept(k) PROVE BalanceInv'
  BY <1>2, KeptBalance DEF BalanceInv
<1>3. Balanced(n)
  BY DEF BalanceInv
<1>4. CASE SendOk(n) \/ SendFails(n) \/ MarkOverdue(n)
  BY <1>2, <1>4 DEF SendOk, SendFails, MarkOverdue, Kept, claimVars, ledgerVars
<1>5. ASSUME NEW c, Clear(c, n) \/ GiveUp(c, n) PROVE BalanceInv'
  BY <1>2, <1>5 DEF Clear, GiveUp, Kept, claimVars, ledgerVars
<1>6. CASE MakeInkassoReady(n)
  BY <1>2, <1>6 DEF MakeInkassoReady, Claim, Kept, claimVars, ledgerVars
<1>7. ASSUME NEW a \in Cash, MarkAsPaid(n, a) PROVE BalanceInv'
  <2>1. a \in Int
    BY AmountAssumption
  <2>2. /\ received' = [received EXCEPT ![n] = @ + a] /\ ar' = [ar EXCEPT ![n] = @ - a]
        /\ UNCHANGED <<fee, interest, credited, probable, writtenOff, accrual, feeVoucher, doubtful>>
    BY <1>7 DEF MarkAsPaid, claimVars
  <2>3. \A k \in Notice \ {n} : Kept(k)
    BY <2>2 DEF Kept
  <2>6. /\ ar'[n] = ar[n] - a /\ doubtful'[n] = doubtful[n]
        /\ writtenOff'[n] = writtenOff[n] /\ probable'[n] = probable[n]
        /\ received'[n] = received[n] + a /\ credited'[n] = credited[n]
        /\ interest'[n] = interest[n] /\ FeeOnLedger(n)' = FeeOnLedger(n)
    BY <2>2, FeeKept DEF TypeOK
  <2>4. OnLedger(n)' = OnLedger(n) - a
    BY <2>1, <2>6 DEF OnLedger
  <2>5. Recorded(n)' = Recorded(n) - a
    BY <2>1, <2>6 DEF Recorded
  <2>. QED
    BY <1>1, <1>3, <2>2, <2>3, <2>4, <2>5 DEF Balanced
<1>8. ASSUME NEW c \in Rebate, CreateCredit(n, c) PROVE BalanceInv'
  <2>1. c \in Int
    BY AmountAssumption
  <2>2. /\ credited' = [credited EXCEPT ![n] = @ + c] /\ ar' = [ar EXCEPT ![n] = @ - c]
        /\ UNCHANGED <<received, fee, interest, probable, writtenOff, accrual, feeVoucher, doubtful>>
    BY <1>8 DEF CreateCredit
  <2>3. \A k \in Notice \ {n} : Kept(k)
    BY <2>2 DEF Kept
  <2>6. /\ ar'[n] = ar[n] - c /\ doubtful'[n] = doubtful[n]
        /\ writtenOff'[n] = writtenOff[n] /\ probable'[n] = probable[n]
        /\ credited'[n] = credited[n] + c /\ received'[n] = received[n]
        /\ interest'[n] = interest[n] /\ FeeOnLedger(n)' = FeeOnLedger(n)
    BY <2>2, FeeKept DEF TypeOK
  <2>4. OnLedger(n)' = OnLedger(n) - c
    BY <2>1, <2>6 DEF OnLedger
  <2>5. Recorded(n)' = Recorded(n) - c
    BY <2>1, <2>6 DEF Recorded
  <2>. QED
    BY <1>1, <1>3, <2>2, <2>3, <2>4, <2>5 DEF Balanced
<1>9. CASE Cancel(n)
  <2>1. accrual'[n] # "booked" /\ feeVoucher'[n] # "booked"
    BY <1>9 DEF Cancel, TypeOK
  <2>2. \A k \in Notice \ {n} : Kept(k)
    BY <1>9 DEF Cancel, Claim, Kept, claimVars
  <2>. QED
    BY <1>1, <2>1, <2>2 DEF Balanced
<1>10. CASE StrikeFee(n)
  <2>1. /\ feeVoucher'[n] # "booked" /\ ar' = [ar EXCEPT ![n] = @ - FeeOnLedger(n)]
        /\ UNCHANGED <<received, interest, credited, probable, writtenOff, accrual, doubtful>>
    BY <1>10 DEF StrikeFee, Claim, TypeOK
  <2>2. \A k \in Notice \ {n} : Kept(k)
    BY <1>10 DEF StrikeFee, Claim, Kept
  <2>3. OnLedger(n)' = OnLedger(n) - FeeOnLedger(n)
    BY <2>1 DEF OnLedger, TypeOK
  <2>4. FeeOnLedger(n)' = 0
    BY <2>1 DEF FeeOnLedger
  <2>6. /\ credited'[n] = credited[n] /\ received'[n] = received[n]
        /\ interest'[n] = interest[n]
    BY <2>1
  <2>5. Recorded(n)' = Recorded(n) - FeeOnLedger(n)
    BY <2>4, <2>6 DEF Recorded
  <2>. QED
    BY <1>1, <1>3, <2>1, <2>2, <2>3, <2>5 DEF Balanced
<1>11. CASE Remind(n)
  <2> DEFINE f == IF feeVoucher[n] = "none" THEN Fee ELSE 0
  <2>1. /\ fee'[n] = Fee /\ ar' = [ar EXCEPT ![n] = @ + f] /\ f \in Int
        /\ UNCHANGED <<received, interest, credited, probable, writtenOff, accrual, doubtful>>
    BY <1>11, AmountAssumption DEF Remind, Claim, TypeOK
  <2>2. \A k \in Notice \ {n} : Kept(k)
    BY <1>11 DEF Remind, Claim, Kept
  <2>3. OnLedger(n)' = OnLedger(n) + f
    BY <2>1 DEF OnLedger, TypeOK
  <2>4. FeeOnLedger(n)' = FeeOnLedger(n) + f
    BY <1>11, AmountAssumption DEF Remind, FeeOnLedger, TypeOK
  <2>5. Recorded(n)' = Recorded(n) + f
    BY <2>1, <2>4 DEF Recorded
  <2>. QED
    BY <1>1, <1>3, <2>1, <2>2, <2>3, <2>5 DEF Balanced
<1>12. ASSUME NEW i \in 1 .. MaxInterest, CrystallizeInterest(n, i) PROVE BalanceInv'
  <2>1. i \in Int
    BY AmountAssumption
  <2>2. /\ interest' = [interest EXCEPT ![n] = i] /\ ar' = [ar EXCEPT ![n] = @ + (i - interest[n])]
        /\ UNCHANGED <<received, fee, credited, probable, writtenOff, accrual, feeVoucher, doubtful>>
    BY <1>12 DEF CrystallizeInterest, Claim
  <2>3. \A k \in Notice \ {n} : Kept(k)
    BY <2>2 DEF Kept
  <2>6. /\ ar'[n] = ar[n] + (i - interest[n]) /\ doubtful'[n] = doubtful[n]
        /\ writtenOff'[n] = writtenOff[n] /\ probable'[n] = probable[n]
        /\ credited'[n] = credited[n] /\ received'[n] = received[n]
        /\ interest'[n] = i /\ FeeOnLedger(n)' = FeeOnLedger(n)
    BY <2>2, FeeKept DEF TypeOK
  <2>4. OnLedger(n)' = OnLedger(n) + (i - interest[n])
    BY <2>1, <2>6 DEF OnLedger
  <2>5. Recorded(n)' = Recorded(n) + (i - interest[n])
    BY <2>1, <2>6 DEF Recorded
  <2>. QED
    BY <1>1, <1>3, <2>2, <2>3, <2>4, <2>5 DEF Balanced
<1>13. CASE WriteDown(n)
  <2>1. Outstanding(n) \in Int /\ probable[n] = 0 /\ ~writtenOff[n]
    <3>1. probable[n] = 0
      BY <1>13 DEF WriteDown
    <3>. QED
      BY <3>1, DebtType DEF DoubtfulInv
  <2>2. /\ ar' = [ar EXCEPT ![n] = @ - Outstanding(n)]
        /\ doubtful' = [doubtful EXCEPT ![n] = @ + Outstanding(n)]
        /\ probable' = [probable EXCEPT ![n] = Outstanding(n)]
        /\ UNCHANGED <<received, fee, interest, credited, writtenOff, accrual, feeVoucher>>
    BY <1>13 DEF WriteDown, Claim
  <2>3. \A k \in Notice \ {n} : Kept(k)
    BY <2>2 DEF Kept
  <2>5. /\ ar'[n] = ar[n] - Outstanding(n) /\ doubtful'[n] = doubtful[n] + Outstanding(n)
        /\ ~writtenOff'[n] /\ credited'[n] = credited[n] /\ received'[n] = received[n]
        /\ interest'[n] = interest[n] /\ FeeOnLedger(n)' = FeeOnLedger(n)
    BY <2>1, <2>2, FeeKept DEF TypeOK
  <2>4. OnLedger(n)' = OnLedger(n) /\ Recorded(n)' = Recorded(n)
    BY <2>1, <2>5 DEF OnLedger, Recorded
  <2>. QED
    BY <1>1, <1>3, <2>2, <2>3, <2>4 DEF Balanced
<1>14. CASE WriteOff(n)
  <2>1. ~writtenOff[n]
    BY <1>14 DEF WriteOff
  <2>2. /\ doubtful' = [doubtful EXCEPT ![n] = @ - probable[n]]
        /\ writtenOff' = [writtenOff EXCEPT ![n] = TRUE]
        /\ UNCHANGED <<received, fee, interest, credited, probable, accrual, feeVoucher, ar>>
    BY <1>14 DEF WriteOff, LossAmount
  <2>3. \A k \in Notice \ {n} : Kept(k)
    BY <2>2 DEF Kept
  <2>5. /\ ar'[n] = ar[n] /\ doubtful'[n] = doubtful[n] - probable[n]
        /\ writtenOff'[n] /\ probable'[n] = probable[n]
        /\ credited'[n] = credited[n] /\ received'[n] = received[n]
        /\ interest'[n] = interest[n] /\ FeeOnLedger(n)' = FeeOnLedger(n)
    BY <2>2, FeeKept DEF TypeOK
  <2>4. OnLedger(n)' = OnLedger(n) /\ Recorded(n)' = Recorded(n)
    BY <2>1, <2>5 DEF OnLedger, Recorded
  <2>. QED
    BY <1>1, <1>3, <2>2, <2>3, <2>4 DEF Balanced
<1>. QED
  BY <1>4, <1>5, <1>6, <1>7, <1>8, <1>9, <1>10, <1>11, <1>12, <1>13, <1>14 DEF NoticeStep

\* The general ledger agrees with the debt the program computes for every live,
\* booked notice whose fee has its voucher, through every interleaving of
\* payments, unmatches, fees, interest, credits and write-downs.
THEOREM LedgerAgrees == Spec => []LedgerMatchesSubledger
<1>1. Init => BalanceInv /\ DoubtfulInv
  <2>. SUFFICES ASSUME Init PROVE BalanceInv /\ DoubtfulInv
    OBVIOUS
  <2>1. \A n \in Notice : Total[n] \in Nat
    BY AmountAssumption
  <2>. QED
    BY <2>1 DEF Init, BalanceInv, Balanced, OnLedger, Recorded, FeeOnLedger, Nothing,
                DoubtfulInv, DoubtfulNetsToZero
<1>2. TypeOK /\ DoubtfulInv /\ BalanceInv /\ [Next]_vars => BalanceInv'
  <2>. SUFFICES ASSUME TypeOK, DoubtfulInv, BalanceInv, [Next]_vars PROVE BalanceInv'
    OBVIOUS
  <2>1. CASE UNCHANGED vars
    BY <2>1, KeptBalance DEF BalanceInv, Kept, vars, claimVars, ledgerVars
  <2>. QED
    BY <2>1, BankBalance, NoticeBalance DEF Next
<1>3. TypeOK /\ BalanceInv => LedgerMatchesSubledger
  <2>. SUFFICES ASSUME TypeOK, BalanceInv, NEW n \in Notice, accrual[n] = "booked", FeeBacked(n)
                PROVE  OnLedger(n) = Owed(n) + interest[n]
    BY DEF LedgerMatchesSubledger, OnLedger
  <2>1. OnLedger(n) = Recorded(n)
    BY DEF BalanceInv, Balanced
  <2>2. FeeOnLedger(n) = fee[n]
    <3>1. fee[n] = 0 \/ fee[n] = Fee
      BY DEF TypeOK
    <3>2. feeVoucher[n] = "booked" => fee[n] = Fee
      BY DEF BalanceInv, Balanced
    <3>. QED
      BY <3>1, <3>2, AmountAssumption DEF FeeBacked, FeeOnLedger
  <2>. QED
    BY <2>1, <2>2, LedgerTypes DEF Owed, Recorded
<1>. QED
  BY <1>1, <1>2, <1>3, TypeCorrect, DoubtfulInvariant, PTL DEF Spec

-----------------------------------------------------------------------------
(* What the notice says was paid. Three races are known to break it; the      *)
(* history of RentLedger records the notices they happen on, and the theorems *)
(* show that every other notice is exact.                                     *)

\* Money of row p reaches the notices: d of it, settling `paid`.
Brings(p, d, paid, kept) ==
    /\ Allocate(p, d, paid, kept)
    /\ UNCHANGED <<claimVars, unwind>>

LEMMA MatchBrings ==
    ASSUME TypeOK, NEW p \in Payment, NEW n \in Notice, NEW h \in BOOLEAN, NEW part \in BOOLEAN,
           MatchOne(p, n, h, part)
    PROVE  \E d \in [Notice -> Nat], paid \in SUBSET Notice :
              /\ Brings(p, d, paid, {}) /\ ~Locked(p) /\ UNCHANGED pour
              /\ \A k \in Notice :
                    /\ d[k] <= OcrOutstanding(k)
                    /\ d[k] > 0 => status[k] \in ManualPayable
                    /\ k \in paid => d[k] > 0 /\ d[k] = OcrOutstanding(k)
<1> DEFINE due == OcrOutstanding(n)
           full == Amount[p] \in due - Tol .. due + Tol
           got == IF full THEN due ELSE Amount[p]
           d == [Nothing EXCEPT ![n] = got]
           paid == IF full THEN {n} ELSE {}
<1>1. due \in Nat /\ Amount[p] \in Nat \ {0} /\ Tol \in Nat
  BY DebtType, AmountAssumption
<1>2. due > 0 /\ (full \/ Amount[p] < due - Tol) /\ status[n] \in ManualPayable /\ ~Locked(p)
  BY DEF MatchOne, Unspent, ManualPayable
<1>3. got \in Nat /\ got > 0 /\ got <= due
  BY <1>1, <1>2
<1>4. d = [k \in Notice |-> IF k = n THEN got ELSE 0]
  BY DEF Nothing
<1>5. Allocate(p, d, paid, {})
  BY DEF MatchOne
<1>6. Brings(p, d, paid, {}) /\ UNCHANGED pour
  BY <1>5 DEF MatchOne, Brings
<1>7. \A k \in Notice : OcrOutstanding(k) \in Nat
  BY DebtType
<1>8. \A k \in Notice :
        /\ d[k] <= OcrOutstanding(k)
        /\ d[k] > 0 => status[k] \in ManualPayable
        /\ k \in paid => d[k] > 0 /\ d[k] = OcrOutstanding(k)
  BY <1>2, <1>3, <1>4, <1>7
<1>. HIDE DEF d, got
<1>9. d \in [Notice -> Nat]
  BY <1>3, <1>4
<1>10. paid \in SUBSET Notice
  OBVIOUS
<1>. HIDE DEF paid
<1>. QED
  BY <1>2, <1>6, <1>8, <1>9, <1>10

\* A waterfall gives a notice it had read at most what remains, and settles the
\* ones it fills that are still open.
LEMMA PourBrings ==
    ASSUME TypeOK, NEW p \in Payment, PourCommit(p)
    PROVE  \E d \in [Notice -> Nat], paid, kept \in SUBSET Notice :
              /\ Brings(p, d, paid, kept)
              /\ \A k \in Notice :
                    /\ d[k] <= Remaining(k, pour[p])
                    /\ d[k] > 0 => k \in Range(pour[p].order)
                    /\ k \in paid => d[k] > 0 /\ d[k] = Remaining(k, pour[p])
                                     /\ status[k] \in ManualPayable
                    /\ k \in kept => d[k] > 0 /\ status[k] \notin
                            IF pour[p].human THEN ManualPayable ELSE Payable
<1> DEFINE r == pour[p]
           rest == Rest(r)
           total == SumFunction([i \in DOMAIN rest |-> Remaining(rest[i], r)])
           budget == IF total \in Amount[p] - Tol .. Amount[p] + Tol THEN total ELSE Amount[p]
           full(d) == {n \in Notice : d[n] > 0 /\ d[n] = Remaining(n, r)}
           open == {n \in Notice : status[n] \in IF r.human THEN ManualPayable ELSE Payable}
<1>1. PICK d \in Waterfall(rest, r, budget) : Allocate(p, d, full(d) \cap open, full(d) \ open)
  BY DEF PourCommit
<1>2. d \in [Notice -> Nat]
  BY WaterfallType
<1>3. Brings(p, d, full(d) \cap open, full(d) \ open)
  BY <1>1 DEF PourCommit, Brings
<1>4. \A k \in Notice : Remaining(k, r) \in Nat
  BY RemainingType
<1>5. \A k \in Notice : d[k] <= IF k \in Range(r.order) THEN Remaining(k, r) ELSE 0
  BY DEF Waterfall
<1>6. \A k \in Notice : d[k] <= Remaining(k, r) /\ (d[k] > 0 => k \in Range(r.order))
  BY <1>2, <1>4, <1>5
<1>7. open \subseteq {n \in Notice : status[n] \in ManualPayable}
  BY DEF ManualPayable
<1>8. WITNESS d \in [Notice -> Nat]
<1>9. WITNESS full(d) \cap open \in SUBSET Notice
<1>10. WITNESS full(d) \ open \in SUBSET Notice
<1>. QED
  BY <1>3, <1>6, <1>7

LEMMA NextType == ASSUME TypeOK, [Next]_vars PROVE TypeOK'
<1>1. CASE UNCHANGED vars
  BY <1>1 DEF TypeOK, vars, claimVars, ledgerVars, bankVars, flightVars
<1>. QED
  BY <1>1, BankStepType, NoticeStepType DEF Next

\* Only a payment by hand and a credit change what came in on a notice's command.
LEMMA OtherCommandsKeepMoney ==
    ASSUME NEW k \in Notice, NoticeStep(k),
           \A a \in Cash : ~MarkAsPaid(k, a), \A c \in Rebate : ~CreateCredit(k, c)
    PROVE  UNCHANGED <<received, credited, paidAmount>>
<1>1. SendOk(k) \/ SendFails(k) \/ MarkOverdue(k) \/ WriteOff(k)
        => UNCHANGED <<received, credited, paidAmount>>
  BY DEF SendOk, SendFails, MarkOverdue, WriteOff, claimVars
<1>2. ASSUME NEW a, Clear(a, k) \/ GiveUp(a, k) \/ CrystallizeInterest(k, a)
      PROVE  UNCHANGED <<received, credited, paidAmount>>
  BY <1>2 DEF Clear, GiveUp, CrystallizeInterest, Claim, claimVars
<1>3. Cancel(k) \/ StrikeFee(k) \/ Remind(k) \/ MakeInkassoReady(k) \/ WriteDown(k)
        => UNCHANGED <<received, credited, paidAmount>>
  BY DEF Cancel, StrikeFee, Remind, MakeInkassoReady, WriteDown, Claim, claimVars
<1>. QED
  BY <1>1, <1>2, <1>3 DEF NoticeStep

\* A fee changes only by being struck or by a reminder.
LEMMA FeeCommand ==
    ASSUME TypeOK, [Next]_vars, NEW n \in Notice, fee'[n] # fee[n]
    PROVE  (StrikeFee(n) /\ fee'[n] = 0) \/ (Remind(n) /\ fee'[n] = Fee)
<1>. USE DEF TypeOK
<1>1. ~UNCHANGED vars
  BY DEF vars, claimVars
<1>2. ASSUME NEW p \in Payment, BankStep(p) PROVE FALSE
  BY <1>2, BankStepEffect, QuietKeeps DEF Delivers, UnmatchCommit, claimVars
<1>3. PICK k \in Notice : NoticeStep(k)
  BY <1>1, <1>2 DEF Next
<1>4. ~(SendOk(k) \/ SendFails(k) \/ MarkOverdue(k) \/ WriteOff(k))
  BY DEF SendOk, SendFails, MarkOverdue, WriteOff, claimVars
<1>5. \A a : ~(MarkAsPaid(k, a) \/ CreateCredit(k, a) \/ Clear(a, k) \/ GiveUp(a, k)
                \/ CrystallizeInterest(k, a))
  BY DEF MarkAsPaid, CreateCredit, Clear, GiveUp, CrystallizeInterest, claimVars
<1>6. ~(Cancel(k) \/ MakeInkassoReady(k) \/ WriteDown(k))
  BY DEF Cancel, MakeInkassoReady, WriteDown, claimVars
<1>7. StrikeFee(k) \/ Remind(k)
  BY <1>3, <1>4, <1>5, <1>6 DEF NoticeStep
<1>8. CASE StrikeFee(k)
  BY <1>8 DEF StrikeFee
<1>9. CASE Remind(k)
  BY <1>9 DEF Remind
<1>. QED
  BY <1>7, <1>8, <1>9

\* Neither moves money, and a reminder finds the notice overdue.
LEMMA FeeEffect ==
    ASSUME TypeOK, [Next]_vars, NEW n \in Notice, fee'[n] # fee[n]
    PROVE  /\ UNCHANGED <<pour, received, credited, paidAmount, status, unwind, alloc>>
           /\ fee'[n] > fee[n] => status[n] = "OVERDUE"
<1>. USE DEF TypeOK
<1>1. CASE StrikeFee(n) /\ fee'[n] = 0
  <2>1. fee[n] \in {0, Fee}
    BY DEF TypeOK
  <2>2. fee[n] \in Nat
    BY <2>1, AmountAssumption
  <2>. QED
    BY <1>1, <2>2 DEF StrikeFee, Claim, bankVars
<1>2. CASE Remind(n)
  BY <1>2 DEF Remind, Claim, StepClaim, bankVars
<1>. QED
  BY <1>1, <1>2, FeeCommand

\* A waterfall under way is as it was, gone, or has just read its candidates.
LEMMA PourEffect ==
    ASSUME TypeOK, [Next]_vars, NEW p \in Payment
    PROVE  \/ pour'[p] = pour[p] \/ pour'[p] = NoPour
           \/ /\ pour'[p].charged = {n \in Range(pour'[p].order) : fee[n] > 0}
              /\ pour'[p].human \/ \A n \in Range(pour'[p].order) : status[n] \in Payable
              /\ Range(pour'[p].order) \subseteq Notice
              /\ UNCHANGED <<fee, status>>
<1> DEFINE Goal == \/ pour'[p] = pour[p] \/ pour'[p] = NoPour
                   \/ /\ pour'[p].charged = {n \in Range(pour'[p].order) : fee[n] > 0}
                      /\ pour'[p].human \/ \A n \in Range(pour'[p].order) : status[n] \in Payable
                      /\ Range(pour'[p].order) \subseteq Notice
                      /\ UNCHANGED <<fee, status>>
<1>1. CASE UNCHANGED vars
  BY <1>1 DEF vars, flightVars
<1>2. ASSUME NEW n \in Notice, NoticeStep(n) PROVE Goal
  BY <1>2, NoticeStepKeepsRows
<1>3. ASSUME NEW q \in Payment, NEW S \in SUBSET Notice, NEW f \in Orders(S), NEW h \in BOOLEAN,
             PourRead(q, f, h)
      PROVE  Goal
  <2>1. Range(f) \subseteq Notice
    BY OrdersType
  <2>2. pour' = [pour EXCEPT ![q] =
            [order |-> f, charged |-> {n \in Range(f) : fee[n] > 0}, human |-> h]]
        /\ UNCHANGED <<fee, status>>
        /\ \A n \in Range(f) : status[n] \in IF h THEN ManualPayable ELSE Payable
    BY <1>3 DEF PourRead, claimVars
  <2>3. CASE p = q
    <3>1. pour'[p] = [order |-> f, charged |-> {n \in Range(f) : fee[n] > 0}, human |-> h]
      BY <2>2, <2>3 DEF TypeOK
    <3>. QED
      BY <2>1, <2>2, <3>1
  <2>4. CASE p # q
    BY <2>2, <2>4 DEF TypeOK
  <2>. QED
    BY <2>3, <2>4
<1>4. ASSUME NEW q \in Payment, AutoPour(q) \/ ManualPour(q) PROVE Goal
  <2>1. {n \in Notice : status[n] \in Payable} \in SUBSET Notice
    OBVIOUS
  <2>. QED
    BY <1>3, <1>4, <2>1 DEF AutoPour, ManualPour
<1>5. ASSUME NEW q \in Payment, PickUp(q) \/ PassBy(q) \/ FlagForReview(q) \/ Ignore(q)
             \/ UnmatchRead(q) \/ UnmatchCommit(q)
      PROVE  Goal
  BY <1>5 DEF PickUp, PassBy, FlagForReview, Ignore, UnmatchRead, UnmatchCommit, flightVars
<1>6. ASSUME NEW q \in Payment, PourCommit(q) \/ PourAbort(q) PROVE Goal
  <2>1. pour' = [pour EXCEPT ![q] = NoPour]
    BY <1>6 DEF PourCommit, PourAbort
  <2>. QED
    BY <2>1 DEF TypeOK
<1>7. ASSUME NEW q \in Payment, NEW n \in Notice, NEW h \in BOOLEAN, NEW part \in BOOLEAN,
             MatchOne(q, n, h, part)
      PROVE  Goal
  BY <1>7 DEF MatchOne
<1>. QED
  BY <1>1, <1>2, <1>4, <1>5, <1>6, <1>7 DEF Next, BankStep, ManualMatch, AutoMatch

\* The history only grows; each way is recorded by the step that overtakes.
LEMMA RacedEffect ==
    ASSUME TypeOK, [Next]_vars
    PROVE  /\ raced.strike \subseteq raced'.strike /\ raced.remind \subseteq raced'.remind
           /\ raced.undo \subseteq raced'.undo
           /\ raced'.strike = raced.strike \/ \E n \in Notice : StrikeFee(n)
<1> DEFINE Goal == /\ raced.strike \subseteq raced'.strike /\ raced.remind \subseteq raced'.remind
                   /\ raced.undo \subseteq raced'.undo
                   /\ raced'.strike = raced.strike \/ \E n \in Notice : StrikeFee(n)
<1>0. raced \in Race
  BY DEF TypeOK
<1>1. UNCHANGED raced => Goal
  OBVIOUS
<1>2. ASSUME NEW S, Races("undo", S) \/ Races("remind", S) PROVE Goal
  BY <1>0, <1>2 DEF Races, Race
<1>3. ASSUME NEW S, Races("strike", S), NEW n \in Notice, StrikeFee(n) PROVE Goal
  BY <1>0, <1>3 DEF Races, Race
<1>4. CASE UNCHANGED vars
  BY <1>1, <1>4 DEF vars
<1>5. ASSUME NEW p \in Payment, Quiet(p) \/ UnmatchCommit(p) PROVE Goal
  <2>1. UNCHANGED raced
    BY <1>5 DEF Quiet, PickUp, PassBy, FlagForReview, AutoPour, ManualPour, PourRead, PourAbort,
                Ignore, UnmatchRead, UnmatchCommit
  <2>. QED
    BY <1>1, <2>1
<1>6. ASSUME NEW p, NEW d, NEW paid, NEW kept, Allocate(p, d, paid, kept) PROVE Goal
  BY <1>2, <1>6 DEF Allocate
<1>7. ASSUME NEW p \in Payment, NEW n \in Notice, NEW h, NEW part, MatchOne(p, n, h, part)
      PROVE  Goal
  BY <1>6, <1>7 DEF MatchOne
<1>8. ASSUME NEW p \in Payment, PourCommit(p) PROVE Goal
  BY <1>6, <1>8 DEF PourCommit
<1>9. ASSUME NEW n \in Notice, NoticeStep(n) PROVE Goal
  <2>1. SendOk(n) \/ SendFails(n) \/ MarkOverdue(n) \/ WriteOff(n) => UNCHANGED raced
    BY DEF SendOk, SendFails, MarkOverdue, WriteOff
  <2>2. \A a : CreateCredit(n, a) \/ Clear(a, n) \/ GiveUp(a, n) \/ CrystallizeInterest(n, a)
                => UNCHANGED raced
    BY DEF CreateCredit, Clear, GiveUp, CrystallizeInterest
  <2>3. Cancel(n) \/ MakeInkassoReady(n) \/ WriteDown(n) => UNCHANGED raced
    BY DEF Cancel, MakeInkassoReady, WriteDown
  <2>4. ASSUME NEW a, MarkAsPaid(n, a) PROVE Goal
    BY <1>2, <2>4 DEF MarkAsPaid
  <2>5. CASE Remind(n)
    BY <1>2, <2>5 DEF Remind
  <2>6. CASE StrikeFee(n)
    BY <1>3, <2>6 DEF StrikeFee
  <2>. QED
    BY <1>1, <1>9, <2>1, <2>2, <2>3, <2>4, <2>5, <2>6 DEF NoticeStep
<1>. QED
  BY <1>4, <1>5, <1>7, <1>8, <1>9, BankStepCases DEF Next

\* What a strike or a reminder makes of a notice, unless it is recorded as late.
LEMMA FeeInTime ==
    ASSUME TypeOK, [Next]_vars, NEW n \in Notice, fee'[n] # fee[n]
    PROVE  /\ fee'[n] < fee[n] /\ n \notin raced'.strike => ~StrikeIsLate(n)
           /\ fee'[n] > fee[n] /\ n \notin raced'.remind =>
                 \A p \in Payment : n \notin Range(pour[p].order)
<1>0. raced \in Race
  BY DEF TypeOK
<1>1. fee[n] \in {0, Fee} /\ Fee \in Nat /\ fee[n] \in Nat
  BY AmountAssumption DEF TypeOK
<1>2. CASE StrikeFee(n) /\ fee'[n] = 0
  <2>1. Races("strike", {k \in {n} : StrikeIsLate(k)})
    BY <1>2 DEF StrikeFee
  <2>2. raced'.strike = raced.strike \cup {k \in {n} : StrikeIsLate(k)}
    BY <1>0, <2>1 DEF Races, Race
  <2>. QED
    BY <1>1, <1>2, <2>2
<1>3. CASE Remind(n) /\ fee'[n] = Fee
  <2>1. Races("remind", {k \in {n} : ReminderIsLate(k)})
    BY <1>3 DEF Remind
  <2>2. raced'.remind = raced.remind \cup {k \in {n} : ReminderIsLate(k)}
    BY <1>0, <2>1 DEF Races, Race
  <2>. QED
    BY <1>1, <1>3, <2>2 DEF ReminderIsLate
<1>. QED
  BY <1>2, <1>3, FeeCommand

\* Every fee a waterfall has counted in is still asked for, unless it was struck late.
ChargedInv == \A p \in Payment : \A n \in pour[p].charged \ raced.strike : fee[n] > 0

LEMMA ChargedStep == TypeOK /\ ChargedInv /\ [Next]_vars => ChargedInv'
<1>. SUFFICES ASSUME TypeOK, ChargedInv, [Next]_vars,
                     NEW p \in Payment, NEW n \in pour'[p].charged, n \notin raced'.strike
              PROVE  fee'[n] > 0
  BY DEF ChargedInv
<1>1. CASE pour'[p] = pour[p]
  <2>1. n \in Notice /\ fee[n] > 0 /\ n \in pour[p].charged
    BY <1>1, RacedEffect DEF ChargedInv, TypeOK
  <2>2. fee[n] \in Nat /\ fee'[n] \in Nat
    <3>1. TypeOK'
      BY NextType
    <3>2. fee[n] \in {0, Fee} /\ fee'[n] \in {0, Fee}
      BY <2>1, <3>1 DEF TypeOK
    <3>. QED
      BY <3>2, AmountAssumption
  <2>3. ~(fee'[n] < fee[n])
    BY <2>1, <2>2, FeeInTime DEF StrikeIsLate
  <2>. QED
    BY <2>1, <2>2, <2>3
<1>2. CASE pour'[p] = NoPour
  BY <1>2 DEF NoPour
<1>3. CASE pour'[p].charged = {k \in Range(pour'[p].order) : fee[k] > 0} /\ UNCHANGED fee
  BY <1>3
<1>. QED
  BY <1>1, <1>2, <1>3, PourEffect

\* With every fee still there that was counted in, a waterfall brings no notice
\* more than it asks for.
LEMMA PourWithinDebt ==
    ASSUME TypeOK, ChargedInv, NEW p \in Payment, NEW n \in Notice, n \notin raced.strike
    PROVE  Remaining(n, pour[p]) <= OcrOutstanding(n)
<1>1. /\ Total[n] \in Nat /\ Fee \in Nat /\ credited[n] \in Nat /\ received[n] \in Int
      /\ fee[n] \in {0, Fee}
  BY AmountAssumption DEF TypeOK
<1>2. n \in pour[p].charged => fee[n] = Fee
  BY <1>1 DEF ChargedInv
<1>. QED
  BY <1>1, <1>2 DEF Remaining, OcrOutstanding, Owed, AtLeastZero

\* What came in and what was credited never exceed what the notice asks for,
\* unless its fee was struck late: no mix of matches, waterfalls read earlier,
\* cash, credits and unmatches lets two of them spend the same debt.
THEOREM NeverOverpaid == Spec => []WithinDebtUnlessStruck
<1>1. Init => WithinDebtUnlessStruck /\ ChargedInv
  BY AmountAssumption DEF Init, WithinDebtUnlessStruck, Owed, ChargedInv, Nothing, NoPour
<1>2. TypeOK /\ ChargedInv /\ WithinDebtUnlessStruck /\ [Next]_vars => WithinDebtUnlessStruck'
  <2>. SUFFICES ASSUME TypeOK, ChargedInv, WithinDebtUnlessStruck, [Next]_vars
                PROVE  WithinDebtUnlessStruck'
    OBVIOUS
  <2>000. \A n \in Notice : /\ received'[n] \in Int /\ credited'[n] \in Nat
                            /\ fee'[n] \in {0, Fee} /\ Total[n] \in Nat
    BY NextType, AmountAssumption DEF TypeOK
  <2>. SUFFICES ASSUME NEW n \in Notice, n \notin raced'.strike
                PROVE  received'[n] + credited'[n] <= Total[n] + fee'[n]
    BY <2>000, AmountAssumption DEF WithinDebtUnlessStruck, Owed
  <2>0. /\ received[n] \in Int /\ credited[n] \in Nat /\ Total[n] \in Nat /\ fee[n] \in Nat
        /\ fee'[n] \in Nat /\ Owed(n) >= 0
    <3>1. TypeOK'
      BY NextType
    <3>2. fee[n] \in {0, Fee} /\ fee'[n] \in {0, Fee}
      BY <3>1 DEF TypeOK
    <3>3. fee[n] \in Nat /\ fee'[n] \in Nat /\ Total[n] \in Nat
      BY <3>2, AmountAssumption
    <3>4. received[n] \in Int /\ credited[n] \in Nat
      BY DEF TypeOK
    <3>. QED
      BY <3>3, <3>4, RacedEffect DEF WithinDebtUnlessStruck, Owed
  <2>00. OcrOutstanding(n) = Owed(n)
    BY <2>0, DebtType DEF OcrOutstanding, AtLeastZero
  <2>1. CASE fee'[n] # fee[n]
    <3>1. UNCHANGED <<received, credited>>
      BY <2>1, FeeEffect
    <3>2. CASE fee'[n] > fee[n]
      BY <2>0, <3>1, <3>2 DEF Owed
    <3>3. CASE fee'[n] < fee[n]
      <4>1. received[n] + credited[n] <= Total[n]
        <5>1. ~(received[n] + credited[n] > Total[n])
          BY <2>1, <3>3, FeeInTime DEF StrikeIsLate
        <5>. QED
          BY <2>0, <5>1
      <4>. QED
        BY <2>0, <3>1, <4>1
    <3>. QED
      BY <2>0, <2>1, <3>2, <3>3
  <2>2. ASSUME UNCHANGED <<received, credited>>, fee'[n] = fee[n]
        PROVE  received'[n] + credited'[n] <= Total[n] + fee'[n]
    BY <2>0, <2>2 DEF Owed
  <2>3. ASSUME NEW p \in Payment, NEW d \in [Notice -> Nat], NEW paid, NEW kept,
               Brings(p, d, paid, kept), d[n] <= OcrOutstanding(n)
        PROVE  received'[n] + credited'[n] <= Total[n] + fee'[n]
    BY <2>3, <2>0, <2>00 DEF Brings, Allocate, claimVars, Owed
  <2>4. ASSUME NEW p \in Payment, NEW k \in Notice, NEW h \in BOOLEAN, NEW part \in BOOLEAN,
               MatchOne(p, k, h, part)
        PROVE  received'[n] + credited'[n] <= Total[n] + fee'[n]
    BY <2>3, <2>4, MatchBrings
  <2>5. ASSUME NEW p \in Payment, PourCommit(p)
        PROVE  received'[n] + credited'[n] <= Total[n] + fee'[n]
    <3>1. PICK d \in [Notice -> Nat], paid, kept \in SUBSET Notice :
            Brings(p, d, paid, kept) /\ d[n] <= Remaining(n, pour[p])
      BY <2>5, PourBrings
    <3>2. d[n] <= OcrOutstanding(n)
      BY <3>1, PourWithinDebt, RemainingType, DebtType, RacedEffect
    <3>. QED
      BY <2>3, <3>1, <3>2
  <2>6. ASSUME NEW p \in Payment, UnmatchCommit(p)
        PROVE  received'[n] + credited'[n] <= Total[n] + fee'[n]
    <3>1. alloc[p][n] \in Nat
      BY DEF TypeOK
    <3>. QED
      BY <2>0, <2>6, <3>1 DEF UnmatchCommit, claimVars, Owed
  <2>7. ASSUME NEW k \in Notice, NEW a \in Cash, MarkAsPaid(k, a)
        PROVE  received'[n] + credited'[n] <= Total[n] + fee'[n]
    <3>1. a \in Nat
      BY AmountAssumption
    <3>2. \/ received'[n] = received[n]
          \/ received'[n] = received[n] + a /\ a <= OcrOutstanding(n)
      BY <2>7 DEF MarkAsPaid, TypeOK
    <3>3. UNCHANGED <<credited, fee>>
      BY <2>7 DEF MarkAsPaid, claimVars
    <3>. QED
      BY <2>0, <2>00, <3>1, <3>2, <3>3 DEF Owed
  <2>8. ASSUME NEW k \in Notice, NEW c \in Rebate, CreateCredit(k, c)
        PROVE  received'[n] + credited'[n] <= Total[n] + fee'[n]
    <3>1. c \in Nat
      BY AmountAssumption
    <3>2. \/ credited'[n] = credited[n]
          \/ credited'[n] = credited[n] + c /\ c <= OcrOutstanding(n)
      BY <2>8 DEF CreateCredit, TypeOK
    <3>3. UNCHANGED <<received, fee>>
      BY <2>8 DEF CreateCredit
    <3>. QED
      BY <2>0, <2>00, <3>1, <3>2, <3>3 DEF Owed
  <2>9. ASSUME NEW k \in Notice, NoticeStep(k), fee'[n] = fee[n],
               \A a \in Cash : ~MarkAsPaid(k, a), \A c \in Rebate : ~CreateCredit(k, c)
        PROVE  UNCHANGED <<received, credited>>
    BY <2>9, OtherCommandsKeepMoney
  <2>10. CASE UNCHANGED vars
    BY <2>2, <2>10 DEF vars, claimVars
  <2>11. ASSUME NEW p \in Payment, BankStep(p), fee'[n] = fee[n]
         PROVE  received'[n] + credited'[n] <= Total[n] + fee'[n]
    <3>1. CASE Quiet(p)
      BY <2>2, <2>11, <3>1, QuietKeeps DEF claimVars
    <3>. QED
      BY <2>4, <2>5, <2>6, <2>11, <3>1, BankStepCases
  <2>. QED
    BY <2>1, <2>2, <2>7, <2>8, <2>9, <2>10, <2>11 DEF Next
<1>3. TypeOK /\ ChargedInv /\ [Next]_vars => ChargedInv'
  BY ChargedStep
<1>. QED
  BY <1>1, <1>2, <1>3, TypeCorrect, PTL DEF Spec

-----------------------------------------------------------------------------

\* A waterfall has counted in every fee of the notices it has read, unless the
\* reminder came behind it.
ReadInv ==
    \A p \in Payment : \A n \in Range(pour[p].order) :
        /\ fee[n] > 0 /\ n \notin raced.remind => n \in pour[p].charged
        /\ n \in Notice

LEMMA ReadStep == TypeOK /\ ReadInv /\ [Next]_vars => ReadInv'
<1>. SUFFICES ASSUME TypeOK, ReadInv, [Next]_vars,
                     NEW p \in Payment, NEW n \in Range(pour'[p].order)
              PROVE  /\ fee'[n] > 0 /\ n \notin raced'.remind => n \in pour'[p].charged
                     /\ n \in Notice
  BY DEF ReadInv
<1>1. CASE pour'[p] = pour[p]
  <2>1. /\ n \in Notice /\ n \in Range(pour[p].order)
        /\ fee[n] > 0 /\ n \notin raced.remind => n \in pour[p].charged
    BY <1>1 DEF ReadInv
  <2>2. fee[n] \in Nat /\ fee'[n] \in Nat
    <3>1. TypeOK'
      BY NextType
    <3>2. fee[n] \in {0, Fee} /\ fee'[n] \in {0, Fee}
      BY <2>1, <3>1 DEF TypeOK
    <3>. QED
      BY <3>2, AmountAssumption
  <2>3. n \notin raced'.remind => ~(fee'[n] > fee[n])
    BY <2>1, <2>2, FeeInTime
  <2>. QED
    BY <1>1, <2>1, <2>2, <2>3, RacedEffect
<1>2. CASE pour'[p] = NoPour
  BY <1>2 DEF NoPour, Range
<1>3. CASE /\ pour'[p].charged = {k \in Range(pour'[p].order) : fee[k] > 0} /\ UNCHANGED fee
           /\ Range(pour'[p].order) \subseteq Notice
  BY <1>3
<1>. QED
  BY <1>1, <1>2, <1>3, PourEffect

\* With every fee counted in, what remains is the whole debt of the notice.
LEMMA PourCoversDebt ==
    ASSUME TypeOK, ReadInv, NEW p \in Payment, NEW n \in Range(pour[p].order),
           n \notin raced.remind
    PROVE  n \in Notice /\ Owed(n) <= Remaining(n, pour[p])
<1>0. n \in Notice
  BY DEF ReadInv
<1>1. /\ Total[n] \in Nat /\ Fee \in Nat /\ credited[n] \in Nat /\ received[n] \in Int
      /\ fee[n] \in {0, Fee}
  BY <1>0, AmountAssumption DEF TypeOK
<1>2. n \notin pour[p].charged => fee[n] = 0
  BY <1>1 DEF ReadInv
<1>. QED
  BY <1>0, <1>1, <1>2 DEF Remaining, Owed, AtLeastZero

\* A notice becomes paid only by money that covers its debt, unless it was
\* reminded behind a waterfall.
LEMMA PaidEffect ==
    ASSUME TypeOK, ReadInv, ReopenInv, [Next]_vars, NEW n \in Notice, n \notin raced.remind,
           status'[n] = "PAID", status[n] # "PAID"
    PROVE  received'[n] > received[n] /\ Owed(n)' <= 0
<1>1. /\ received[n] \in Int /\ credited[n] \in Nat /\ Total[n] \in Nat /\ fee[n] \in Nat
      /\ Owed(n) \in Int /\ OcrOutstanding(n) \in Nat
      /\ OcrOutstanding(n) > 0 => OcrOutstanding(n) = Owed(n)
  <2>1. Owed(n) \in Int
    BY DebtType
  <2>. QED
    BY <2>1, AmountAssumption, DebtType DEF OcrOutstanding, AtLeastZero, TypeOK
<1>2. ASSUME NEW d, d \in Nat, d > 0, d >= Owed(n), received'[n] = received[n] + d,
             UNCHANGED <<credited, fee>>
      PROVE  received'[n] > received[n] /\ Owed(n)' <= 0
  BY <1>1, <1>2 DEF Owed
<1>3. ASSUME NEW p \in Payment, NEW d \in [Notice -> Nat], NEW paid \in SUBSET Notice, NEW kept,
             Brings(p, d, paid, kept), n \in paid => d[n] > 0 /\ d[n] >= Owed(n)
      PROVE  received'[n] > received[n] /\ Owed(n)' <= 0
  <2>1. n \in paid
    BY <1>3 DEF Brings, Allocate, TypeOK
  <2>2. received'[n] = received[n] + d[n] /\ UNCHANGED <<credited, fee>>
    BY <1>3 DEF Brings, Allocate, claimVars, TypeOK
  <2>. QED
    BY <1>2, <1>3, <2>1, <2>2
<1>4. CASE UNCHANGED vars
  BY <1>4 DEF vars
<1>5. ASSUME NEW p \in Payment, Quiet(p) PROVE FALSE
  BY <1>5, QuietKeeps
<1>6. ASSUME NEW p \in Payment, NEW k \in Notice, NEW h \in BOOLEAN, NEW part \in BOOLEAN,
             MatchOne(p, k, h, part)
      PROVE  received'[n] > received[n] /\ Owed(n)' <= 0
  <2>1. PICK d \in [Notice -> Nat], paid \in SUBSET Notice :
          /\ Brings(p, d, paid, {})
          /\ \A i \in Notice : i \in paid => d[i] > 0 /\ d[i] = OcrOutstanding(i)
    BY <1>6, MatchBrings
  <2>2. n \in paid => d[n] > 0 /\ d[n] >= Owed(n)
    BY <1>1, <2>1
  <2>. QED
    BY <1>3, <2>1, <2>2
<1>7. ASSUME NEW p \in Payment, PourCommit(p)
      PROVE  received'[n] > received[n] /\ Owed(n)' <= 0
  <2>1. PICK d \in [Notice -> Nat], paid, kept \in SUBSET Notice :
          /\ Brings(p, d, paid, kept)
          /\ n \in paid => d[n] > 0 /\ d[n] = Remaining(n, pour[p])
          /\ d[n] > 0 => n \in Range(pour[p].order)
    BY <1>7, PourBrings
  <2>2. n \in paid => d[n] > 0 /\ d[n] >= Owed(n)
    BY <2>1, PourCoversDebt
  <2>. QED
    BY <1>3, <2>1, <2>2
<1>8. ASSUME NEW p \in Payment, UnmatchCommit(p) PROVE FALSE
  <2>1. n \notin unwind.reopen
    BY <1>8 DEF UnmatchCommit, ReopenInv, TypeOK
  <2>. QED
    BY <1>8, <2>1 DEF UnmatchCommit, TypeOK
<1>9. ASSUME NEW k \in Notice, NEW a \in Cash, MarkAsPaid(k, a)
      PROVE  received'[n] > received[n] /\ Owed(n)' <= 0
  <2>1. n = k /\ a = OcrOutstanding(n)
    BY <1>9 DEF MarkAsPaid, TypeOK
  <2>2. a \in Nat /\ a > 0
    BY AmountAssumption
  <2>3. received'[n] = received[n] + a /\ UNCHANGED <<credited, fee>>
    BY <1>9, <2>1 DEF MarkAsPaid, claimVars, TypeOK
  <2>. QED
    BY <1>1, <1>2, <2>1, <2>2, <2>3
<1>10. ASSUME NEW k \in Notice, NoticeStep(k), \A a \in Cash : ~MarkAsPaid(k, a) PROVE FALSE
  <2>1. ~(SendOk(k) \/ SendFails(k) \/ MarkOverdue(k) \/ WriteOff(k) \/ Cancel(k))
    BY DEF SendOk, SendFails, MarkOverdue, WriteOff, Cancel, TypeOK
  <2>2. \A a : ~(CreateCredit(k, a) \/ Clear(a, k) \/ GiveUp(a, k) \/ CrystallizeInterest(k, a))
    BY DEF CreateCredit, Clear, GiveUp, CrystallizeInterest, TypeOK
  <2>3. ~(StrikeFee(k) \/ Remind(k) \/ MakeInkassoReady(k) \/ WriteDown(k))
    BY DEF StrikeFee, Remind, MakeInkassoReady, WriteDown, TypeOK
  <2>. QED
    BY <1>10, <2>1, <2>2, <2>3 DEF NoticeStep
<1>. QED
  BY <1>4, <1>5, <1>6, <1>7, <1>8, <1>9, <1>10, BankStepCases DEF Next

\* The debt of a paid notice grows only when an unmatch takes money from it.
LEMMA PaidDebtEffect ==
    ASSUME TypeOK, [Next]_vars, NEW n \in Notice, status[n] = "PAID", Owed(n)' > Owed(n)
    PROVE  \E p \in Payment : UnmatchCommit(p) /\ n \in Touched(p)
<1>1. /\ received[n] \in Int /\ credited[n] \in Nat /\ Total[n] \in Nat
      /\ fee[n] \in Nat /\ fee'[n] \in Nat
  <2>1. TypeOK'
    BY NextType
  <2>2. fee[n] \in {0, Fee} /\ fee'[n] \in {0, Fee}
    BY <2>1 DEF TypeOK
  <2>. QED
    BY <2>2, AmountAssumption DEF TypeOK
<1>2. ASSUME UNCHANGED <<received, credited>> PROVE FALSE
  <2>1. fee'[n] > fee[n]
    BY <1>1, <1>2 DEF Owed
  <2>2. fee'[n] # fee[n] /\ status[n] = "OVERDUE"
    BY <1>1, <2>1, FeeEffect
  <2>. QED
    BY <2>2
<1>3. CASE UNCHANGED vars
  BY <1>2, <1>3 DEF vars, claimVars
<1>4. ASSUME NEW p \in Payment, BankStep(p), ~UnmatchCommit(p) PROVE FALSE
  <2>1. CASE Quiet(p)
    BY <1>2, <2>1, QuietKeeps DEF claimVars
  <2>2. CASE Delivers(p)
    <3>1. PICK d \in [Notice -> Nat], paid \in SUBSET Notice, kept \in SUBSET Notice :
             Allocate(p, d, paid, kept) /\ UNCHANGED claimVars
      BY <2>2 DEF Delivers
    <3>2. received'[n] = received[n] + d[n] /\ d[n] \in Nat /\ UNCHANGED <<credited, fee>>
      BY <3>1 DEF Allocate, claimVars, TypeOK
    <3>. QED
      BY <1>1, <3>2 DEF Owed
  <2>. QED
    BY <1>4, <2>1, <2>2, BankStepEffect
<1>5. ASSUME NEW p \in Payment, UnmatchCommit(p), n \notin Touched(p) PROVE FALSE
  <2>1. received'[n] = received[n] /\ UNCHANGED <<credited, fee>>
    BY <1>1, <1>5 DEF UnmatchCommit, claimVars, TypeOK
  <2>. QED
    BY <1>1, <2>1 DEF Owed
<1>6. ASSUME NEW k \in Notice, NEW a \in Cash, MarkAsPaid(k, a) PROVE FALSE
  <2>1. n # k /\ UNCHANGED <<credited, fee>>
    BY <1>6 DEF MarkAsPaid, Payable, claimVars, TypeOK
  <2>2. received'[n] = received[n]
    BY <1>6, <2>1 DEF MarkAsPaid, TypeOK
  <2>. QED
    BY <1>1, <2>1, <2>2 DEF Owed
<1>7. ASSUME NEW k \in Notice, NEW c \in Rebate, CreateCredit(k, c) PROVE FALSE
  <2>1. n # k /\ UNCHANGED <<received, fee>>
    BY <1>7 DEF CreateCredit, Settled, TypeOK
  <2>2. credited'[n] = credited[n]
    BY <1>7, <2>1 DEF CreateCredit, TypeOK
  <2>. QED
    BY <1>1, <2>1, <2>2 DEF Owed
<1>8. ASSUME NEW k \in Notice, NoticeStep(k) PROVE FALSE
  BY <1>2, <1>6, <1>7, <1>8, OtherCommandsKeepMoney
<1>. QED
  BY <1>3, <1>4, <1>5, <1>8 DEF Next

\* What an unmatch under way has read of a notice it takes money from is still
\* true unless it was overtaken: what is left, and that a paid notice with a debt
\* left opens again.
UndoInv ==
    \A p \in unwind.row : \A n \in Touched(p) \ raced.undo :
        /\ unwind.left[n] = received[n] - alloc[p][n]
        /\ status[n] = "PAID" /\ Owed(n) + alloc[p][n] > 0 /\ n \notin raced.remind
              => n \in unwind.reopen

\* Only the two halves of an unmatch change what is under way of one.
LEMMA UnwindEffect ==
    ASSUME TypeOK, [Next]_vars
    PROVE  UNCHANGED unwind \/ \E q \in Payment : UnmatchRead(q) \/ UnmatchCommit(q)
<1>1. CASE UNCHANGED vars
  BY <1>1 DEF vars, flightVars
<1>2. ASSUME NEW n \in Notice, NoticeStep(n) PROVE UNCHANGED unwind
  BY <1>2, NoticeStepKeepsRows
<1>3. ASSUME NEW p \in Payment, Quiet(p), ~UnmatchRead(p) PROVE UNCHANGED unwind
  BY <1>3 DEF Quiet, PickUp, PassBy, FlagForReview, AutoPour, ManualPour, PourRead, PourAbort,
              Ignore, flightVars
<1>4. ASSUME NEW p \in Payment, NEW n, NEW h, NEW part, MatchOne(p, n, h, part) \/ PourCommit(p)
      PROVE  UNCHANGED unwind
  BY <1>4 DEF MatchOne, PourCommit
<1>. QED
  BY <1>1, <1>2, <1>3, <1>4, BankStepCases DEF Next

\* What is spent of a row stays as it is while an unmatch holds the row.
LEMMA LockedRowKept ==
    ASSUME TypeOK, RowInv, [Next]_vars, NEW p \in Payment, p \in unwind.row, UNCHANGED unwind
    PROVE  alloc'[p] = alloc[p]
<1>1. CASE UNCHANGED vars
  BY <1>1 DEF vars, bankVars
<1>2. ASSUME NEW n \in Notice, NoticeStep(n) PROVE alloc'[p] = alloc[p]
  BY <1>2, NoticeStepKeepsRows
<1>3. ASSUME NEW q \in Payment, Quiet(q) PROVE alloc'[p] = alloc[p]
  BY <1>3, QuietKeeps
<1>4. ASSUME NEW q \in Payment, UnmatchCommit(q) PROVE FALSE
  BY <1>4 DEF UnmatchCommit, NoUnwind
<1>5. ASSUME NEW q \in Payment, BankStep(q), ~Quiet(q), ~UnmatchCommit(q)
      PROVE  alloc'[p] = alloc[p]
  <2>1. q # p /\ alloc' = [alloc EXCEPT ![q] = alloc'[q]]
    BY <1>5, DeliveryOfFreeRow
  <2>. QED
    BY <2>1 DEF TypeOK
<1>. QED
  BY <1>1, <1>2, <1>3, <1>4, <1>5 DEF Next

\* Money that reaches a notice under an unmatch is recorded as overtaking it.
LEMMA OvertakingIsRecorded ==
    ASSUME TypeOK, [Next]_vars, NEW n \in Notice, BeingUnwound(n), received'[n] # received[n],
           UNCHANGED unwind
    PROVE  n \in raced'.undo
<1>0. raced \in Race
  BY DEF TypeOK
<1>1. ASSUME NEW S, Races("undo", S), n \in S PROVE n \in raced'.undo
  BY <1>0, <1>1 DEF Races, Race
<1>2. ~UNCHANGED vars
  BY DEF vars
<1>3. ASSUME NEW p \in Payment, Quiet(p) PROVE FALSE
  BY <1>3, QuietKeeps
<1>4. ASSUME NEW p \in Payment, UnmatchCommit(p) PROVE FALSE
  BY <1>4 DEF UnmatchCommit, NoUnwind
<1>5. ASSUME NEW p \in Payment, NEW d \in [Notice -> Nat], NEW paid, NEW kept,
             Allocate(p, d, paid, kept)
      PROVE  n \in raced'.undo
  <2>1. received[n] \in Int /\ d[n] \in Nat /\ received'[n] = received[n] + d[n]
    BY <1>5 DEF Allocate, TypeOK
  <2>. QED
    BY <1>1, <1>5, <2>1 DEF Allocate
<1>6. ASSUME NEW p \in Payment, Delivers(p) PROVE n \in raced'.undo
  BY <1>5, <1>6 DEF Delivers
<1>7. ASSUME NEW k \in Notice, NEW a \in Cash, MarkAsPaid(k, a) PROVE n \in raced'.undo
  <2>1. n = k
    BY <1>7 DEF MarkAsPaid, TypeOK
  <2>. QED
    BY <1>1, <1>7, <2>1 DEF MarkAsPaid
<1>8. ASSUME NEW k \in Notice, NEW c \in Rebate, CreateCredit(k, c) PROVE FALSE
  BY <1>8 DEF CreateCredit
<1>. QED
  BY <1>2, <1>3, <1>4, <1>6, <1>7, <1>8, BankStepEffect, OtherCommandsKeepMoney DEF Next

LEMMA UndoStep ==
    ASSUME TypeOK, RowInv, ReadInv, ReopenInv, UndoInv, [Next]_vars
    PROVE  UndoInv'
<1>0. unwind.row \subseteq Payment /\ unwind'.row \subseteq Payment
  BY NextType DEF TypeOK
<1>1. CASE UNCHANGED vars
  BY <1>1 DEF UndoInv, Touched, Owed, vars, claimVars, bankVars, flightVars
<1>2. ASSUME NEW q \in Payment, UnmatchCommit(q) PROVE UndoInv'
  BY <1>2 DEF UnmatchCommit, UndoInv, NoUnwind
<1>3. ASSUME NEW q \in Payment, UnmatchRead(q) PROVE UndoInv'
  <2>1. /\ unwind'.row = {q} /\ unwind'.reopen = Reopens(q)
        /\ unwind'.left = [n \in Notice |-> IF n \in Touched(q) THEN Left(q, n) ELSE 0]
        /\ UNCHANGED <<received, alloc, status, fee, credited>>
    BY <1>3 DEF UnmatchRead, claimVars, bankVars
  <2>. QED
    BY <2>1 DEF UndoInv, Reopens, Left, Touched, Owed
<1>4. CASE UNCHANGED unwind /\ ~UNCHANGED vars
  <2>. SUFFICES ASSUME NEW p \in unwind.row, NEW n \in Touched(p)', n \notin raced'.undo
                PROVE  /\ unwind.left[n] = received'[n] - alloc'[p][n]
                       /\ status'[n] = "PAID" /\ Owed(n)' + alloc'[p][n] > 0
                            /\ n \notin raced'.remind => n \in unwind.reopen
    BY <1>4 DEF UndoInv
  <2>1. alloc'[p] = alloc[p]
    BY <1>0, <1>4, LockedRowKept
  <2>2. n \in Touched(p) /\ n \in Notice
    BY <2>1 DEF Touched
  <2>3. received'[n] = received[n]
    BY <1>4, <2>2, OvertakingIsRecorded DEF BeingUnwound
  <2>4. /\ unwind.left[n] = received[n] - alloc[p][n]
        /\ status[n] = "PAID" /\ Owed(n) + alloc[p][n] > 0 /\ n \notin raced.remind
              => n \in unwind.reopen
    BY <2>2, RacedEffect DEF UndoInv
  <2>5. status'[n] = "PAID" /\ n \notin raced.remind => status[n] = "PAID"
    <3>1. received[n] \in Int
      BY <2>2 DEF TypeOK
    <3>. QED
      BY <2>2, <2>3, <3>1, PaidEffect
  <2>6. status[n] = "PAID" => ~(Owed(n)' > Owed(n))
    <3>1. \A q \in Payment : UnmatchCommit(q) => unwind # NoUnwind /\ unwind' = NoUnwind
      BY DEF UnmatchCommit, NoUnwind
    <3>. QED
      BY <1>4, <2>2, <3>1, PaidDebtEffect
  <2>7. Owed(n) \in Int /\ Owed(n)' \in Int /\ alloc[p][n] \in Nat
    <3>1. TypeOK'
      BY NextType
    <3>2. Owed(n)' \in Int
      <4>1. /\ received'[n] \in Int /\ credited'[n] \in Nat /\ fee'[n] \in {0, Fee}
        BY <2>2, <3>1 DEF TypeOK
      <4>. QED
        BY <2>2, <4>1, AmountAssumption DEF Owed
    <3>3. alloc[p][n] \in Nat
      BY <1>0, <2>2 DEF TypeOK
    <3>. QED
      BY <2>2, <3>2, <3>3, DebtType
  <2>. QED
    <3>1. n \notin raced'.remind => n \notin raced.remind
      BY RacedEffect
    <3>2. ASSUME status'[n] = "PAID", Owed(n)' + alloc'[p][n] > 0, n \notin raced'.remind
          PROVE  n \in unwind.reopen
      <4>1. status[n] = "PAID" /\ ~(Owed(n)' > Owed(n)) /\ alloc'[p][n] = alloc[p][n]
        BY <2>1, <2>5, <2>6, <3>1, <3>2
      <4>2. Owed(n) + alloc[p][n] > 0
        BY <2>7, <3>2, <4>1
      <4>. QED
        BY <2>4, <3>1, <3>2, <4>1, <4>2
    <3>. QED
      BY <2>1, <2>3, <2>4, <3>2
<1>5. UNCHANGED unwind \/ \E q \in Payment : UnmatchRead(q) \/ UnmatchCommit(q)
  BY UnwindEffect
<1>. QED
  BY <1>1, <1>2, <1>3, <1>4, <1>5

\* A paid notice has nothing left that the OCR number collects, unless it was
\* reminded behind a waterfall or its unmatch was overtaken: whatever settles a
\* notice covers its debt, and whatever opens a debt again opens the notice.
THEOREM PaidSettled == Spec => []SettledUnlessRaced
<1>1. Init => ReadInv /\ UndoInv /\ SettledUnlessRaced
  BY DEF Init, ReadInv, UndoInv, SettledUnlessRaced, NoPour, NoUnwind, Range
<1>2. TypeOK /\ RowInv /\ ReadInv /\ ReopenInv /\ UndoInv /\ SettledUnlessRaced /\ [Next]_vars
        => SettledUnlessRaced'
  <2>. SUFFICES ASSUME TypeOK, RowInv, ReadInv, ReopenInv, UndoInv, SettledUnlessRaced,
                       [Next]_vars, NEW n \in Notice, status'[n] = "PAID",
                       n \notin raced'.remind, n \notin raced'.undo
                PROVE  Owed(n)' <= 0
    BY DEF SettledUnlessRaced
  <2>0. n \notin raced.remind /\ n \notin raced.undo
    BY RacedEffect
  <2>1. CASE status[n] # "PAID"
    BY <2>0, <2>1, PaidEffect
  <2>2. CASE status[n] = "PAID" /\ ~(Owed(n)' > Owed(n))
    <3>1. TypeOK'
      BY NextType
    <3>2. Owed(n) \in Int /\ Owed(n)' \in Int
      <4>1. /\ received'[n] \in Int /\ credited'[n] \in Nat /\ fee'[n] \in {0, Fee}
        BY <3>1 DEF TypeOK
      <4>. QED
        BY <4>1, AmountAssumption, DebtType DEF Owed
    <3>. QED
      BY <2>0, <2>2, <3>2 DEF SettledUnlessRaced
  <2>3. CASE status[n] = "PAID" /\ Owed(n)' > Owed(n)
    <3>1. PICK p \in Payment : UnmatchCommit(p) /\ n \in Touched(p)
      BY <2>3, PaidDebtEffect
    <3>2. n \notin unwind.reopen
      <4>. SUFFICES ASSUME n \in unwind.reopen PROVE FALSE
        OBVIOUS
      <4>1. status'[n] = Reopened(n)
        BY <3>1 DEF UnmatchCommit, TypeOK
      <4>. QED
        BY <4>1 DEF Reopened, TypeOK
    <3>3. ~(Owed(n) + alloc[p][n] > 0)
      BY <2>0, <2>3, <3>1, <3>2 DEF UndoInv, UnmatchCommit
    <3>4. /\ received'[n] = received[n] - alloc[p][n] /\ UNCHANGED <<credited, fee>>
      BY <3>1 DEF UnmatchCommit, claimVars
    <3>5. /\ received[n] \in Int /\ credited[n] \in Nat /\ fee[n] \in {0, Fee}
          /\ alloc[p][n] \in Nat /\ Owed(n) \in Int
      BY DebtType DEF TypeOK
    <3>6. Owed(n)' = Owed(n) + alloc[p][n]
      BY <3>4, <3>5, AmountAssumption DEF Owed
    <3>. QED
      BY <3>3, <3>5, <3>6
  <2>. QED
    BY <2>1, <2>2, <2>3
<1>3. TypeOK /\ ReadInv /\ [Next]_vars => ReadInv'
  BY ReadStep
<1>4. TypeOK /\ RowInv /\ ReadInv /\ ReopenInv /\ UndoInv /\ [Next]_vars => UndoInv'
  BY UndoStep
<1>. QED
  BY <1>1, <1>2, <1>3, <1>4, TypeCorrect, RowInvInvariant, ReopenInvInvariant, PTL DEF Spec

\* Paid means paid to the krona on every notice no race happened on, whatever
\* happens on the others.
THEOREM DebtExact == Spec => []DebtExactUnlessRaced
<1>1. WithinDebtUnlessStruck /\ SettledUnlessRaced => DebtExactUnlessRaced
  BY DEF DebtExactUnlessRaced
<1>. QED
  BY <1>1, NeverOverpaid, PaidSettled, PTL

-----------------------------------------------------------------------------

\* Only historical debt is ever OPENING, and no waterfall that runs by itself has
\* read any.
OpeningInv ==
    /\ \A n \in Notice : status[n] = "OPENING" => n \in Opening
    /\ \A p \in Payment : ~pour[p].human => Range(pour[p].order) \cap Opening = {}

LEMMA StatusEffect ==
    ASSUME TypeOK, [Next]_vars, NEW n \in Notice, status'[n] = "OPENING"
    PROVE  status[n] = "OPENING" \/ n \in Opening
<1>1. CASE UNCHANGED vars
  BY <1>1 DEF vars
<1>2. ASSUME NEW p \in Payment, Quiet(p) PROVE status[n] = "OPENING"
  BY <1>2, QuietKeeps
<1>3. ASSUME NEW p \in Payment, Delivers(p) PROVE status[n] = "OPENING"
  BY <1>3 DEF Delivers, Allocate
<1>4. ASSUME NEW p \in Payment, UnmatchCommit(p) PROVE status[n] = "OPENING" \/ n \in Opening
  <2>1. dispatch[n] \in {"unsent", "sent", "failed"}
    BY DEF TypeOK
  <2>2. status'[n] = IF n \in unwind.reopen THEN Reopened(n) ELSE status[n]
    BY <1>4 DEF UnmatchCommit
  <2>. QED
    BY <2>1, <2>2 DEF Reopened
<1>5. ASSUME NEW k \in Notice, NoticeStep(k) PROVE status[n] = "OPENING"
  <2>. USE DEF TypeOK
  <2>1. SendOk(k) \/ SendFails(k) \/ MarkOverdue(k) \/ WriteOff(k) \/ Cancel(k)
          => status[n] = "OPENING"
    BY DEF SendOk, SendFails, MarkOverdue, WriteOff, Cancel
  <2>2. ASSUME NEW a, \/ MarkAsPaid(k, a) \/ CreateCredit(k, a) \/ Clear(a, k)
                      \/ GiveUp(a, k) \/ CrystallizeInterest(k, a)
        PROVE  status[n] = "OPENING"
    BY <2>2 DEF MarkAsPaid, CreateCredit, Clear, GiveUp, CrystallizeInterest
  <2>3. StrikeFee(k) \/ Remind(k) \/ MakeInkassoReady(k) \/ WriteDown(k) => status[n] = "OPENING"
    BY DEF StrikeFee, Remind, MakeInkassoReady, WriteDown
  <2>. QED
    BY <1>5, <2>1, <2>2, <2>3 DEF NoticeStep
<1>. QED
  BY <1>1, <1>2, <1>3, <1>4, <1>5, BankStepEffect DEF Next

LEMMA OpeningInvariant == Spec => []OpeningInv
<1>1. Init => OpeningInv
  BY DEF Init, OpeningInv, NoPour, Range
<1>2. TypeOK /\ HistoryStaysHistory /\ OpeningInv /\ [Next]_vars => OpeningInv'
  <2>. SUFFICES ASSUME TypeOK, HistoryStaysHistory, OpeningInv, [Next]_vars PROVE OpeningInv'
    OBVIOUS
  <2>1. \A n \in Notice : status'[n] = "OPENING" => n \in Opening
    BY StatusEffect DEF OpeningInv
  <2>2. ASSUME NEW p \in Payment, ~pour'[p].human PROVE Range(pour'[p].order) \cap Opening = {}
    <3>1. CASE pour'[p] = pour[p]
      BY <2>2, <3>1 DEF OpeningInv
    <3>2. CASE pour'[p] = NoPour
      BY <3>2 DEF NoPour, Range
    <3>3. CASE \A n \in Range(pour'[p].order) : status[n] \in Payable
      BY <3>3 DEF HistoryStaysHistory, Payable
    <3>. QED
      BY <2>2, <3>1, <3>2, <3>3, PourEffect
  <2>. QED
    BY <2>1, <2>2 DEF OpeningInv
<1>. QED
  BY <1>1, <1>2, TypeCorrect, HistoryKept, PTL DEF Spec

\* A cancelled notice stays cancelled.
LEMMA CancelledStays ==
    ASSUME TypeOK, ReopenInv, [Next]_vars, NEW n \in Notice, status[n] = "CANCELLED"
    PROVE  status'[n] = "CANCELLED"
<1>1. CASE UNCHANGED vars
  BY <1>1 DEF vars
<1>2. ASSUME NEW k \in Notice, NoticeStep(k) PROVE status'[n] = "CANCELLED"
  BY <1>2, NoticeStepKeepsSettled DEF Settled
<1>3. ASSUME NEW p \in Payment, Quiet(p) \/ Delivers(p) PROVE status'[n] = "CANCELLED"
  BY <1>3, QuietKeeps, DeliversKeepsSettled DEF Settled
<1>4. ASSUME NEW p \in Payment, UnmatchCommit(p) PROVE status'[n] = "CANCELLED"
  BY <1>4 DEF UnmatchCommit, ReopenInv
<1>. QED
  BY <1>1, <1>2, <1>3, <1>4, BankStepEffect DEF Next

\* The mirror of what was paid is exact on every notice in force on which none of
\* the three races happened: a waterfall leaves it stale only on a notice that was
\* settled behind it, and such a notice has nothing left to receive.
THEOREM MirrorKept == Spec => []MirrorExactUnlessRaced
<1>1. Init => MirrorExactUnlessRaced /\ ChargedInv /\ ReadInv /\ UndoInv
  BY DEF Init, ChargedInv, ReadInv, UndoInv, MirrorExactUnlessRaced, NoPour, NoUnwind, Range
<1>2. TypeOK /\ RowInv /\ ReopenInv /\ OpeningInv /\ SettledUnlessRaced /\ ChargedInv
        /\ UndoInv /\ MirrorExactUnlessRaced /\ [Next]_vars => MirrorExactUnlessRaced'
  <2>. SUFFICES ASSUME TypeOK, RowInv, ReopenInv, OpeningInv, SettledUnlessRaced, ChargedInv,
                       UndoInv, MirrorExactUnlessRaced, [Next]_vars,
                       NEW n \in Notice, status'[n] # "CANCELLED", n \notin raced'.strike,
                       n \notin raced'.remind, n \notin raced'.undo
                PROVE  paidAmount'[n] = received'[n]
    BY DEF MirrorExactUnlessRaced
  <2>0. n \notin raced.strike /\ n \notin raced.remind /\ n \notin raced.undo
    BY RacedEffect
  <2>1. status[n] # "CANCELLED" /\ paidAmount[n] = received[n] /\ received[n] \in Int
    BY <2>0, CancelledStays DEF MirrorExactUnlessRaced, TypeOK
  <2>2. CASE UNCHANGED <<paidAmount, received>>
    BY <2>1, <2>2
  <2>3. ASSUME NEW p \in Payment, NEW d \in [Notice -> Nat], NEW paid, NEW kept,
               Brings(p, d, paid, kept), n \notin kept
        PROVE  paidAmount'[n] = received'[n]
    <3>1. /\ received'[n] = received[n] + d[n] /\ d[n] \in Nat
          /\ paidAmount'[n] = IF d[n] > 0 THEN received[n] + d[n] ELSE paidAmount[n]
      BY <2>3 DEF Brings, Allocate
    <3>. QED
      BY <2>1, <3>1
  <2>4. ASSUME NEW p \in Payment, NEW k \in Notice, NEW h \in BOOLEAN, NEW part \in BOOLEAN,
               MatchOne(p, k, h, part)
        PROVE  paidAmount'[n] = received'[n]
    <3>1. PICK d \in [Notice -> Nat], paid \in SUBSET Notice : Brings(p, d, paid, {})
      BY <2>4, MatchBrings
    <3>. QED
      BY <2>3, <3>1
  <2>5. ASSUME NEW p \in Payment, PourCommit(p) PROVE paidAmount'[n] = received'[n]
    <3>1. PICK d \in [Notice -> Nat], paid, kept \in SUBSET Notice :
            /\ Brings(p, d, paid, kept)
            /\ d[n] <= Remaining(n, pour[p])
            /\ d[n] > 0 => n \in Range(pour[p].order)
            /\ n \in kept => d[n] > 0 /\ status[n] \notin
                    IF pour[p].human THEN ManualPayable ELSE Payable
      BY <2>5, PourBrings
    <3>2. ASSUME n \in kept PROVE FALSE
      <4>1. d[n] > 0 /\ Remaining(n, pour[p]) <= OcrOutstanding(n) /\ Owed(n) \in Int
            /\ Remaining(n, pour[p]) \in Nat
        BY <2>0, <3>1, <3>2, PourWithinDebt, RemainingType, DebtType
      <4>2. Owed(n) > 0
        BY <3>1, <4>1 DEF OcrOutstanding, AtLeastZero
      <4>3. status[n] # "PAID"
        BY <2>0, <4>1, <4>2 DEF SettledUnlessRaced
      <4>4. status[n] = "OPENING" /\ ~pour[p].human
        <5>1. status[n] \in Status
          BY DEF TypeOK
        <5>. QED
          BY <2>1, <3>1, <3>2, <4>3, <5>1 DEF Status, ManualPayable, Payable
      <4>. QED
        BY <3>1, <4>1, <4>4 DEF OpeningInv
    <3>. QED
      BY <2>3, <3>1, <3>2
  <2>6. ASSUME NEW p \in Payment, UnmatchCommit(p) PROVE paidAmount'[n] = received'[n]
    <3>1. CASE n \in Touched(p)
      <4>1. paidAmount'[n] = unwind.left[n] /\ received'[n] = received[n] - alloc[p][n]
        BY <2>6, <3>1 DEF UnmatchCommit
      <4>2. unwind.left[n] = received[n] - alloc[p][n]
        BY <2>0, <2>6, <3>1 DEF UnmatchCommit, UndoInv
      <4>. QED
        BY <4>1, <4>2
    <3>2. CASE n \notin Touched(p)
      BY <2>1, <2>6, <3>2 DEF UnmatchCommit
    <3>. QED
      BY <3>1, <3>2
  <2>7. ASSUME NEW k \in Notice, NEW a \in Cash, MarkAsPaid(k, a)
        PROVE  paidAmount'[n] = received'[n]
    BY <2>1, <2>7 DEF MarkAsPaid, TypeOK
  <2>8. ASSUME NEW k \in Notice, NEW c \in Rebate, CreateCredit(k, c)
        PROVE  paidAmount'[n] = received'[n]
    BY <2>1, <2>8 DEF CreateCredit
  <2>9. ASSUME NEW p \in Payment, Quiet(p) PROVE paidAmount'[n] = received'[n]
    BY <2>1, <2>9, QuietKeeps
  <2>10. CASE UNCHANGED vars
    BY <2>2, <2>10 DEF vars
  <2>. QED
    BY <2>2, <2>4, <2>5, <2>6, <2>7, <2>8, <2>9, <2>10, OtherCommandsKeepMoney, BankStepCases
       DEF Next
<1>3. TypeOK /\ ReadInv /\ [Next]_vars => ReadInv'
  BY ReadStep
<1>4. TypeOK /\ ChargedInv /\ [Next]_vars => ChargedInv'
  BY ChargedStep
<1>5. TypeOK /\ RowInv /\ ReadInv /\ ReopenInv /\ UndoInv /\ [Next]_vars => UndoInv'
  BY UndoStep
<1>. QED
  BY <1>1, <1>2, <1>3, <1>4, <1>5, TypeCorrect, RowInvInvariant, ReopenInvInvariant,
     OpeningInvariant, PaidSettled, PTL DEF Spec

-----------------------------------------------------------------------------
(* Where no fee is struck. *)

\* Commands are only let through that the instance has.
ClearedInv == \A n \in Notice : cleared[n] \subseteq Command

LEMMA ClearedInvariant == Spec => []ClearedInv
<1>1. Init => ClearedInv
  BY DEF Init, ClearedInv
<1>2. TypeOK /\ ClearedInv /\ [Next]_vars => ClearedInv'
  <2>. SUFFICES ASSUME TypeOK, ClearedInv, [Next]_vars PROVE ClearedInv'
    OBVIOUS
  <2>. USE DEF TypeOK, ClearedInv
  <2>1. CASE UNCHANGED cleared
    BY <2>1
  <2>2. ASSUME NEW p \in Payment, BankStep(p) PROVE UNCHANGED cleared
    BY <2>2, BankStepEffect, QuietKeeps DEF Delivers, UnmatchCommit
  <2>3. ASSUME NEW c, NEW k \in Notice, Clear(c, k) \/ GiveUp(c, k) \/ Claim(c, k)
        PROVE  ClearedInv'
    <3>1. CASE Clear(c, k)
      BY <3>1 DEF Clear
    <3>2. CASE GiveUp(c, k) \/ Claim(c, k)
      <4>1. cleared' = [cleared EXCEPT ![k] = @ \ {c}]
        BY <3>2 DEF GiveUp, Claim
      <4>. QED
        BY <4>1
    <3>. QED
      BY <2>3, <3>1, <3>2
  <2>4. ASSUME NEW k \in Notice, SendOk(k) \/ SendFails(k) \/ MarkOverdue(k) \/ WriteOff(k)
        PROVE  UNCHANGED cleared
    BY <2>4 DEF SendOk, SendFails, MarkOverdue, WriteOff, flightVars
  <2>5. ASSUME NEW k \in Notice, NEW a, MarkAsPaid(k, a) \/ CreateCredit(k, a)
        PROVE  UNCHANGED cleared
    BY <2>5 DEF MarkAsPaid, CreateCredit, flightVars
  <2>6. ASSUME NEW k \in Notice, \/ Cancel(k) \/ StrikeFee(k) \/ Remind(k)
                                 \/ MakeInkassoReady(k) \/ WriteDown(k)
        PROVE  \E c : Claim(c, k)
    BY <2>6 DEF Cancel, StrikeFee, Remind, MakeInkassoReady, WriteDown
  <2>7. ASSUME NEW k \in Notice, NEW i, CrystallizeInterest(k, i) PROVE Claim("interest", k)
    BY <2>7 DEF CrystallizeInterest
  <2>8. ASSUME NEW k \in Notice, NoticeStep(k) PROVE ClearedInv'
    <3>1. CASE SendOk(k) \/ SendFails(k) \/ MarkOverdue(k) \/ WriteOff(k)
      BY <2>1, <2>4, <3>1
    <3>2. ASSUME NEW a, MarkAsPaid(k, a) \/ CreateCredit(k, a) PROVE ClearedInv'
      BY <2>1, <2>5, <3>2
    <3>3. CASE Cancel(k) \/ StrikeFee(k) \/ Remind(k) \/ MakeInkassoReady(k) \/ WriteDown(k)
      BY <2>3, <2>6, <3>3
    <3>4. ASSUME NEW i, CrystallizeInterest(k, i) PROVE ClearedInv'
      BY <2>3, <2>7, <3>4
    <3>. QED
      BY <2>3, <2>8, <3>1, <3>2, <3>3, <3>4 DEF NoticeStep
  <2>. QED
    BY <2>1, <2>2, <2>8 DEF Next, vars, flightVars
<1>. QED
  BY <1>1, <1>2, TypeCorrect, PTL DEF Spec

\* A strike is the only thing that is recorded as late strike.
LEMMA StruckOnlyByStrike ==
    ASSUME Fee = 0 \/ "strike" \notin Command
    PROVE  Spec => [](raced.strike = {})
<1>1. Init => raced.strike = {}
  BY DEF Init, NoRace
<1>2. TypeOK /\ ClearedInv /\ raced.strike = {} /\ [Next]_vars => (raced.strike = {})'
  <2>. SUFFICES ASSUME TypeOK, ClearedInv, [Next]_vars, NEW n \in Notice, StrikeFee(n) PROVE FALSE
    BY RacedEffect
  <2>1. fee[n] \in {0, Fee} /\ fee[n] > 0
    BY DEF TypeOK, StrikeFee
  <2>. QED
    BY <2>1 DEF StrikeFee, Claim, ClearedInv
<1>. QED
  BY <1>1, <1>2, TypeCorrect, ClearedInvariant, PTL DEF Spec

\* Where no fee is struck, or none is taken, a notice is never overpaid: the
\* race of the strike is the only one.
THEOREM NeverOverpaidWithoutStrikes ==
    ASSUME Fee = 0 \/ "strike" \notin Command
    PROVE  Spec => []NoOverpayment
<1>1. TypeOK /\ WithinDebtUnlessStruck /\ raced.strike = {} => NoOverpayment
  <2>. SUFFICES ASSUME TypeOK, NEW n \in Notice, Owed(n) >= 0
                PROVE  received[n] + credited[n] <= Total[n] + fee[n]
    BY DEF WithinDebtUnlessStruck, NoOverpayment
  <2>1. /\ received[n] \in Int /\ credited[n] \in Nat /\ Total[n] \in Nat /\ fee[n] \in {0, Fee}
    BY AmountAssumption DEF TypeOK
  <2>. QED
    BY <2>1, AmountAssumption DEF Owed
<1>. QED
  BY <1>1, TypeCorrect, NeverOverpaid, StruckOnlyByStrike, PTL
===============================================================================
