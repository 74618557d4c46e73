-------------------------- MODULE ReviewPauseProofs ---------------------------
(***************************************************************************)
(* Theorems about ReviewPause, for every number of rows, stops, effects,   *)
(* operators, calls, recipients, periods and faults.                       *)
(***************************************************************************)
EXTENDS ReviewPause, TLAPS

-----------------------------------------------------------------------------
(* Types. *)

\* What is under way to decide a row, read and kept.
Reads == [kind : {"match", "ignore", "unmatch"}, row : Row, saw : BOOLEAN]
Full  == [at : {"read", "notify", "mail"}, id : Pause, left : SUBSET Recipient,
          notified : BOOLEAN, mailed : BOOLEAN]

LEMMA RequestOf ==
    ASSUME TypeOK, NEW o \in Operator, request[o].kind \in {"match", "ignore", "unmatch"}
    PROVE  request[o] \in Reads
  BY DEF TypeOK, Requests, Reads, NoRequest

LEMMA CallOf ==
    ASSUME TypeOK, NEW a \in Announcer, call[a].at \in {"read", "notify", "mail"}
    PROVE  call[a] \in Full
  BY DEF TypeOK, Calls, Full, NoCall

LEMMA PauseField ==
    ASSUME TypeOK, NEW k \in Pause
    PROVE  /\ pause[k] \in Pauses
           /\ \A s \in {"open", "ended"} : [pause[k] EXCEPT !.state = s] \in Pauses
           /\ [pause[k] EXCEPT !.mailed = TRUE] \in Pauses
  BY DEF TypeOK, Pauses

LEMMA NoticedType ==
    ASSUME NEW p \in Pauses
    PROVE  [[p EXCEPT !.notified = TRUE] EXCEPT !.notices = p.notices + 1] \in Pauses
<1>1. p.notices + 1 \in Nat
  BY DEF Pauses
<1>2. [p EXCEPT !.notified = TRUE] \in Pauses
  BY DEF Pauses
<1>. QED
  BY <1>1, <1>2 DEF Pauses

LEMMA OpenPeriodType ==
    ASSUME TypeOK, OpenPeriod
    PROVE  pause' \in [Pause -> Pauses]
<1>1. CASE \E k \in Pause : Open(k)
  BY <1>1 DEF OpenPeriod, TypeOK
<1>2. CASE ~\E k \in Pause : Open(k)
  <2>1. PICK k \in Pause : pause' = [pause EXCEPT ![k].state = "open"]
    BY <1>2 DEF OpenPeriod
  <2>2. [pause[k] EXCEPT !.state = "open"] \in Pauses
    BY PauseField
  <2>. QED
    BY <2>1, <2>2 DEF TypeOK
<1>. QED
  BY <1>1, <1>2

LEMMA PostType ==
    ASSUME TypeOK, NEW k \in Pause, NEW u \in Recipient, Post(k, u)
    PROVE  pause' \in [Pause -> Pauses]
<1>1. pause[k].mails \in [Recipient -> Nat] /\ Queued(k, u) \in Nat
  BY DEF TypeOK, Pauses, Queued
<1>2. [pause[k].mails EXCEPT ![u] = Queued(k, u)] \in [Recipient -> Nat]
  BY <1>1
<1>3. [pause[k] EXCEPT !.mails = [pause[k].mails EXCEPT ![u] = Queued(k, u)]] \in Pauses
  BY <1>2 DEF TypeOK, Pauses
<1>4. pause' = [pause EXCEPT ![k] =
                  [pause[k] EXCEPT !.mails = [pause[k].mails EXCEPT ![u] = Queued(k, u)]]]
  BY DEF Post, TypeOK, Pauses
<1>. QED
  BY <1>3, <1>4 DEF TypeOK

LEMMA CallMoves ==
    ASSUME TypeOK, NEW a \in Announcer, call[a] \in Full,
           NEW c \in {NoCall} \cup Full, call' = [call EXCEPT ![a] = c]
    PROVE  call' \in [Announcer -> Calls]
  BY DEF TypeOK, Calls, Full

LEMMA RequestMoves ==
    ASSUME TypeOK, NEW o \in Operator, NEW q \in Requests,
           request' = [request EXCEPT ![o] = q]
    PROVE  request' \in [Operator -> Requests]
  BY DEF TypeOK

LEMMA TypeInit == Init => TypeOK
<1>. SUFFICES ASSUME Init PROVE TypeOK
  OBVIOUS
<1>1. NewPause \in Pauses
  BY DEF NewPause, Pauses
<1>2. NoRequest \in Requests /\ NoCall \in Calls
  BY DEF Requests, Calls
<1>3. faults \in 0 .. Faults
  BY FaultsAssumption DEF Init
<1>4. bank \in [Row -> {"none", "UNMATCHED", "MATCHED", "IGNORED", "STUCK"}] /\ marked \subseteq Row
  BY DEF Init
<1>5. /\ stop \in [Stop -> {"none", "open", "resolved"}]
      /\ effect \in [Effect -> {"idle", "locked", "fresh", "clear", "allowed"}]
  BY DEF Init
<1>6. /\ pause \in [Pause -> Pauses] /\ request \in [Operator -> Requests]
      /\ call \in [Announcer -> Calls]
  BY <1>1, <1>2 DEF Init
<1>. QED
  BY <1>3, <1>4, <1>5, <1>6 DEF Init, TypeOK

LEMMA TypeStep == TypeOK /\ [Next]_vars => TypeOK'
<1>. SUFFICES ASSUME TypeOK, [Next]_vars PROVE TypeOK'
  OBVIOUS
<1>1. CASE UNCHANGED vars
  BY <1>1 DEF TypeOK, vars, rowVars, gateVars
<1>2. ASSUME NEW e \in Effect, EffectStep(e) PROVE TypeOK'
  BY <1>2 DEF EffectStep, Enter, CheckData, CheckRows, CheckStops, Commit, Step, TypeOK, rowVars
<1>3. CASE StartImport \/ DataThrough \/ Age
  BY <1>3 DEF StartImport, DataThrough, Age, TypeOK, rowVars
<1>4. ASSUME NEW r \in Row, StorePlain(r) \/ StoreForReview(r) \/ Flag(r) PROVE TypeOK'
  BY <1>4, OpenPeriodType DEF StorePlain, StoreForReview, Flag, TypeOK, gateVars
<1>5. ASSUME NEW s \in Stop, RegisterStop(s) \/ ResolveStop(s) PROVE TypeOK'
  BY <1>5 DEF RegisterStop, ResolveStop, TypeOK, rowVars
<1>6. ASSUME NEW o \in Operator, NEW r \in Row, NEW kind \in {"match", "ignore", "unmatch"},
             ReadRow(o, r, kind)
      PROVE  TypeOK'
  <2>1. [kind |-> kind, row |-> r, saw |-> r \in marked] \in Requests
    BY DEF Requests
  <2>2. request' \in [Operator -> Requests]
    BY <1>6, <2>1, RequestMoves DEF ReadRow
  <2>. QED
    BY <1>6, <2>2 DEF ReadRow, TypeOK, rowVars, gateVars
<1>7. ASSUME NEW o \in Operator, OperatorStep(o) \/ RequestDies(o) PROVE TypeOK'
  <2>0. NoRequest \in Requests /\ [kind |-> "settle"] \in Requests
    BY DEF Requests
  <2>1. ASSUME NEW kind \in {"match", "ignore"}, NEW outcome \in {"MATCHED", "IGNORED", "STUCK"},
               Decide(o, kind, outcome)
        PROVE  TypeOK'
    <3>1. request' \in [Operator -> Requests]
      BY <2>0, <2>1, RequestMoves DEF Decide
    <3>2. bank' \in [Row -> {"none", "UNMATCHED", "MATCHED", "IGNORED", "STUCK"}]
      BY <2>1 DEF Decide, TypeOK
    <3>. QED
      BY <2>1, <3>1, <3>2 DEF Decide, TypeOK, gateVars
  <2>2. CASE Unmatch(o)
    <3>1. request' \in [Operator -> Requests]
      BY <2>0, <2>2, RequestMoves DEF Unmatch
    <3>2. pause' \in [Pause -> Pauses]
      BY <2>2, OpenPeriodType DEF Unmatch, TypeOK
    <3>3. bank' \in [Row -> {"none", "UNMATCHED", "MATCHED", "IGNORED", "STUCK"}]
      BY <2>2 DEF Unmatch, TypeOK
    <3>. QED
      BY <2>2, <3>1, <3>2, <3>3 DEF Unmatch, TypeOK, gateVars
  <2>3. CASE Refused(o)
    BY <2>0, <2>3, RequestMoves DEF Refused, TypeOK, rowVars, gateVars
  <2>4. CASE Settle(o)
    <3>1. pause' \in [Pause -> Pauses]
      BY <2>4, PauseField DEF Settle
    <3>. QED
      BY <2>0, <2>4, <3>1, RequestMoves DEF Settle, TypeOK, rowVars, gateVars
  <2>5. CASE RequestDies(o)
    <3>1. faults' \in 0 .. Faults
      BY <2>5, FaultsAssumption DEF RequestDies, TypeOK
    <3>. QED
      BY <2>0, <2>5, <3>1, RequestMoves DEF RequestDies, TypeOK, rowVars, gateVars
  <2>. QED
    BY <1>7, <2>1, <2>2, <2>3, <2>4, <2>5 DEF OperatorStep, Match, Ignore
<1>8. ASSUME NEW a \in Announcer, CallStep(a) \/ CallDies(a) PROVE TypeOK'
  <2>1. ASSUME NEW k \in Pause, Begin(a, k) PROVE TypeOK'
    <3>1. [at |-> "read", id |-> k, left |-> Recipient, notified |-> pause[k].notified,
           mailed |-> pause[k].mailed] \in Calls
      BY PauseField DEF Calls, Pauses
    <3>. QED
      BY <2>1, <3>1 DEF Begin, TypeOK, rowVars, gateVars
  <2>2. CASE CountRows(a)
    <3>1. call[a] \in Full
      BY <2>2, CallOf DEF CountRows
    <3>2. [call[a] EXCEPT !.at = "notify"] \in Full
      BY <3>1 DEF Full
    <3>3. call' \in [Announcer -> Calls]
      BY <2>2, <3>1, <3>2, CallMoves DEF CountRows
    <3>. QED
      BY <2>2, <3>3 DEF CountRows, TypeOK, rowVars, gateVars
  <2>3. CASE Notify(a)
    <3>1. call[a] \in Full
      BY <2>3, CallOf DEF Notify
    <3>2. [call[a] EXCEPT !.at = "mail"] \in Full
      BY <3>1 DEF Full
    <3>3. call' \in [Announcer -> Calls]
      BY <2>3, <3>1, <3>2, CallMoves DEF Notify
    <3>4. pause' \in [Pause -> Pauses]
      <4>1. DEFINE k == call[a].id
      <4>2. k \in Pause /\ pause[k] \in Pauses
        BY <3>1, PauseField DEF Full
      <4>3. [[pause[k] EXCEPT !.notified = TRUE] EXCEPT !.notices = pause[k].notices + 1] \in Pauses
        BY <4>2, NoticedType
      <4>4. \/ UNCHANGED pause
            \/ pause' = [pause EXCEPT ![k].notified = TRUE, ![k].notices = @ + 1]
        BY <2>3 DEF Notify
      <4>. QED
        BY <4>2, <4>3, <4>4 DEF TypeOK, Pauses
    <3>. QED
      BY <2>3, <3>3, <3>4 DEF Notify, TypeOK, rowVars, gateVars
  <2>4. CASE Mail(a)
    <3>1. call[a] \in Full
      BY <2>4, CallOf DEF Mail
    <3>2. PICK u \in call[a].left : /\ Post(call[a].id, u)
                                    /\ call' = [call EXCEPT ![a].left = @ \ {u}]
      BY <2>4 DEF Mail
    <3>3. [call[a] EXCEPT !.left = call[a].left \ {u}] \in Full
      BY <3>1 DEF Full
    <3>4. call' \in [Announcer -> Calls]
      BY <3>1, <3>2, <3>3, CallMoves
    <3>5. pause' \in [Pause -> Pauses]
      BY <3>1, <3>2, PostType DEF Full
    <3>. QED
      BY <2>4, <3>4, <3>5 DEF Mail, TypeOK, rowVars, gateVars
  <2>5. CASE MarkMailed(a)
    <3>1. call[a] \in Full
      BY <2>5, CallOf DEF MarkMailed
    <3>2. pause' \in [Pause -> Pauses]
      BY <2>5, <3>1, PauseField DEF MarkMailed, Full, TypeOK
    <3>3. call' \in [Announcer -> Calls]
      BY <2>5, <3>1, CallMoves DEF MarkMailed
    <3>. QED
      BY <2>5, <3>2, <3>3 DEF MarkMailed, TypeOK, rowVars, gateVars
  <2>6. CASE CallDies(a)
    <3>1. call' \in [Announcer -> Calls]
      BY <2>6 DEF CallDies, TypeOK, Calls
    <3>2. pause' \in [Pause -> Pauses]
      BY <2>6, CallOf, PostType DEF CallDies, TypeOK, Full
    <3>3. faults' \in 0 .. Faults
      BY <2>6, FaultsAssumption DEF CallDies, TypeOK
    <3>. QED
      BY <2>6, <3>1, <3>2, <3>3 DEF CallDies, TypeOK, rowVars, gateVars
  <2>. QED
    BY <1>8, <2>1, <2>2, <2>3, <2>4, <2>5, <2>6 DEF CallStep
<1>. QED
  BY <1>1, <1>2, <1>3, <1>4, <1>5, <1>6, <1>7, <1>8 DEF Next

\* Every state of the pause protocol is one of the schema's: statuses, marks,
\* periods, and what the calls under way keep between two accesses.
THEOREM PauseTypes == Spec => []TypeOK
<1>. QED
  BY TypeInit, TypeStep, PTL DEF Spec

-----------------------------------------------------------------------------
(* The gate. *)

\* A mark is only ever set on a row that is there.
MarkedIsStored == \A r \in marked : bank[r] # "none"

\* What each effect has checked still holds while it has the lock.
Checked ==
    /\ \A e \in Effect : effect[e] \in {"clear", "allowed"} => Unresolved = {}
    /\ \A e \in Effect : effect[e] = "allowed" => OpenStops = {}
    /\ \A e \in RentEffect : effect[e] \in {"fresh", "clear", "allowed"} => ~started \/ through # "none"

GateInv == TypeOK /\ MarkedIsStored /\ Checked

\* What a step without the exclusive lock may do to what the effects have checked.
LEMMA CheckedStays ==
    ASSUME Checked, UNCHANGED effect,
           Unresolved' \subseteq Unresolved, OpenStops' \subseteq OpenStops,
           started' => started, through # "none" => through' # "none"
    PROVE  Checked'
  BY DEF Checked

\* With the exclusive lock nothing has been checked that could break.
LEMMA NothingChecked ==
    ASSUME MayWrite, UNCHANGED effect
    PROVE  Checked'
  BY DEF MayWrite, Checked, Effect

LEMMA GateInit == Init => GateInv
<1>. SUFFICES ASSUME Init PROVE GateInv
  OBVIOUS
<1>1. \A e \in Effect : effect[e] = "idle"
  BY DEF Init
<1>2. Checked
  BY <1>1 DEF Checked, Effect
<1>3. MarkedIsStored
  BY DEF Init, MarkedIsStored
<1>. QED
  BY <1>2, <1>3, TypeInit DEF GateInv

\* A row is stored before it is marked and never taken away.
LEMMA MarkedStep ==
    ASSUME TypeOK, MarkedIsStored, [Next]_vars
    PROVE  MarkedIsStored'
<1>1. CASE UNCHANGED rowVars
  BY <1>1 DEF MarkedIsStored, rowVars
<1>2. ASSUME NEW r \in Row, StorePlain(r) \/ StoreForReview(r) \/ Flag(r)
      PROVE  MarkedIsStored'
  BY <1>2 DEF StorePlain, StoreForReview, Flag, MarkedIsStored, TypeOK
<1>3. ASSUME NEW o \in Operator, Match(o) \/ Ignore(o) \/ Unmatch(o)
      PROVE  MarkedIsStored'
  BY <1>3 DEF Match, Ignore, Unmatch, Decide, MarkedIsStored, TypeOK
<1>4. [Next]_vars =>
        \/ UNCHANGED rowVars
        \/ \E r \in Row : StorePlain(r) \/ StoreForReview(r) \/ Flag(r)
        \/ \E o \in Operator : Match(o) \/ Ignore(o) \/ Unmatch(o)
  BY DEF Next, vars, EffectStep, Enter, CheckData, CheckRows, CheckStops, Commit, Step,
         StartImport, DataThrough, Age, RegisterStop, ResolveStop, ReadRow, OperatorStep,
         Refused, Settle, RequestDies, CallStep, Begin, CountRows, Notify, Mail, MarkMailed, CallDies
<1>. QED
  BY <1>1, <1>2, <1>3, <1>4

LEMMA CheckedStep ==
    ASSUME GateInv, [Next]_vars
    PROVE  Checked'
<1>. USE DEF GateInv
<1>1. CASE UNCHANGED vars
  BY <1>1 DEF vars, rowVars, gateVars, Checked, Unresolved, OpenStops
<1>2. ASSUME NEW e \in Effect, EffectStep(e) PROVE Checked'
  <2>1. UNCHANGED <<bank, marked, stop, started, through>>
    BY <1>2 DEF EffectStep, Enter, CheckData, CheckRows, CheckStops, Commit, Step, rowVars
  <2>2. Unresolved' = Unresolved /\ OpenStops' = OpenStops
    BY <2>1 DEF Unresolved, OpenStops
  <2>3. ASSUME NEW f \in Effect, f # e PROVE effect'[f] = effect[f]
    BY <1>2, <2>3 DEF EffectStep, Enter, CheckData, CheckRows, CheckStops, Commit, Step, TypeOK
  <2>4. CASE Enter(e) \/ Commit(e)
    <3>1. effect'[e] \in {"idle", "locked"} \/ (effect'[e] = "fresh" /\ e \notin RentEffect)
      BY <2>4 DEF Enter, Commit, Step, TypeOK
    <3>. QED
      BY <2>1, <2>2, <2>3, <3>1 DEF Checked, Effect
  <2>5. CASE CheckData(e)
    <3>1. effect'[e] = "idle" \/ (effect'[e] = "fresh" /\ ~Stale)
      BY <2>5 DEF CheckData, Step, TypeOK
    <3>. QED
      BY <2>1, <2>2, <2>3, <3>1 DEF Checked, Effect, Stale
  <2>6. CASE CheckRows(e)
    <3>1. effect[e] = "fresh" /\ (effect'[e] = "idle" \/ (effect'[e] = "clear" /\ Unresolved = {}))
      BY <2>6 DEF CheckRows, Step, TypeOK
    <3>. QED
      BY <2>1, <2>2, <2>3, <3>1 DEF Checked, Effect
  <2>7. CASE CheckStops(e)
    <3>1. effect[e] = "clear" /\ (effect'[e] = "idle" \/ (effect'[e] = "allowed" /\ OpenStops = {}))
      BY <2>7 DEF CheckStops, Step, TypeOK
    <3>. QED
      BY <2>1, <2>2, <2>3, <3>1 DEF Checked, Effect
  <2>. QED
    BY <1>2, <2>4, <2>5, <2>6, <2>7 DEF EffectStep
<1>3. CASE StartImport
  BY <1>3, NothingChecked DEF StartImport
<1>4. CASE DataThrough \/ Age
  <2>1. UNCHANGED <<bank, marked, stop, started, effect>> /\ through' # "none"
    BY <1>4 DEF DataThrough, Age, rowVars
  <2>. QED
    BY <2>1, CheckedStays DEF Unresolved, OpenStops
<1>5. ASSUME NEW r \in Row, StoreForReview(r) \/ Flag(r) PROVE Checked'
  BY <1>5, NothingChecked DEF StoreForReview, Flag, gateVars
<1>6. ASSUME NEW r \in Row, StorePlain(r) PROVE Checked'
  <2>1. Unresolved' \subseteq Unresolved
    BY <1>6 DEF StorePlain, Unresolved, MarkedIsStored, TypeOK
  <2>. QED
    BY <1>6, <2>1, CheckedStays DEF StorePlain, gateVars, OpenStops
<1>7. ASSUME NEW s \in Stop, RegisterStop(s) PROVE Checked'
  BY <1>7, NothingChecked DEF RegisterStop
<1>8. ASSUME NEW s \in Stop, ResolveStop(s) PROVE Checked'
  <2>1. OpenStops' \subseteq OpenStops /\ Unresolved' = Unresolved
    BY <1>8 DEF ResolveStop, OpenStops, Unresolved, TypeOK, rowVars
  <2>. QED
    BY <1>8, <2>1, CheckedStays DEF ResolveStop
<1>9. ASSUME NEW o \in Operator, Match(o) \/ Ignore(o) PROVE Checked'
  <2>1. Unresolved' \subseteq Unresolved
    BY <1>9 DEF Match, Ignore, Decide, Unresolved, TypeOK
  <2>. QED
    BY <1>9, <2>1, CheckedStays DEF Match, Ignore, Decide, gateVars, OpenStops
<1>10. ASSUME NEW o \in Operator, Unmatch(o) PROVE Checked'
  BY <1>10, NothingChecked DEF Unmatch, gateVars
<1>11. CASE UNCHANGED <<rowVars, gateVars>>
  BY <1>11, CheckedStays DEF rowVars, gateVars, Unresolved, OpenStops
<1>12. ASSUME NEW o \in Operator, NEW r \in Row, NEW kind \in {"match", "ignore", "unmatch"},
              ReadRow(o, r, kind)
       PROVE  UNCHANGED <<rowVars, gateVars>>
  BY <1>12 DEF ReadRow
<1>13. ASSUME NEW o \in Operator, Refused(o) \/ Settle(o) \/ RequestDies(o)
       PROVE  UNCHANGED <<rowVars, gateVars>>
  BY <1>13 DEF Refused, Settle, RequestDies
<1>14. ASSUME NEW a \in Announcer, CallStep(a) \/ CallDies(a) PROVE UNCHANGED <<rowVars, gateVars>>
  BY <1>14 DEF CallStep, Begin, CountRows, Notify, Mail, MarkMailed, CallDies
<1>. QED
  BY <1>1, <1>2, <1>3, <1>4, <1>5, <1>6, <1>7, <1>8, <1>9, <1>10, <1>11, <1>12, <1>13, <1>14
     DEF Next, OperatorStep

LEMMA GateInvariant == Spec => []GateInv
<1>1. GateInv /\ [Next]_vars => GateInv'
  BY TypeStep, MarkedStep, CheckedStep DEF GateInv
<1>. QED
  BY GateInit, <1>1, PTL DEF Spec

\* assertAutomaticEffectAllowed against every writer: what an effect checked under
\* the shared lock is still so when it commits.
THEOREM ReviewBlocksClaims == Spec => []NoClaimUnderReview
<1>1. GateInv => NoClaimUnderReview
  BY DEF GateInv, Checked, NoClaimUnderReview
<1>. QED
  BY GateInvariant, <1>1, PTL

\* recordImportStarted against the effects on rent notices, likewise.
THEOREM FirstImportBlocksClaims == Spec => []NoClaimBeforeData
<1>1. GateInv => NoClaimBeforeData
  BY DEF GateInv, Checked, NoClaimBeforeData
<1>. QED
  BY GateInvariant, <1>1, PTL

-----------------------------------------------------------------------------
(* The announcement. *)

\* A notice goes with its marker, and the queue knows a mail by its key.
Once(p) == /\ p.notices = IF p.notified THEN 1 ELSE 0
           /\ \A u \in Recipient : p.mails[u] \in {0, 1}

OnceInv == TypeOK /\ \A k \in Pause : Once(pause[k])

LEMMA OnceState ==
    ASSUME NEW p \in Pauses, Once(p)
    PROVE  /\ \A s \in {"open", "ended"} : Once([p EXCEPT !.state = s])
           /\ Once([p EXCEPT !.mailed = TRUE])
  BY DEF Pauses, Once

LEMMA OnceNoticed ==
    ASSUME NEW p \in Pauses, Once(p), ~p.notified
    PROVE  Once([[p EXCEPT !.notified = TRUE] EXCEPT !.notices = p.notices + 1])
  BY DEF Pauses, Once

LEMMA OncePeriod ==
    ASSUME OnceInv, OpenPeriod
    PROVE  \A k \in Pause : Once(pause'[k])
<1>1. CASE UNCHANGED pause
  BY <1>1 DEF OnceInv
<1>2. ASSUME NEW k \in Pause, pause' = [pause EXCEPT ![k].state = "open"]
      PROVE  \A l \in Pause : Once(pause'[l])
  <2>1. Once([pause[k] EXCEPT !.state = "open"])
    BY PauseField, OnceState DEF OnceInv
  <2>. QED
    BY <1>2, <2>1 DEF OnceInv, TypeOK
<1>. QED
  BY <1>1, <1>2 DEF OpenPeriod

LEMMA OncePost ==
    ASSUME OnceInv, NEW k \in Pause, NEW u \in Recipient, Post(k, u)
    PROVE  \A l \in Pause : Once(pause'[l])
<1>1. Queued(k, u) = 1
  BY DEF OnceInv, Once, Queued
<1>2. \A l \in Pause : l # k => pause'[l] = pause[l]
  BY DEF Post, OnceInv, TypeOK
<1>3. /\ pause'[k].notices = pause[k].notices /\ pause'[k].notified = pause[k].notified
      /\ pause'[k].mails = [pause[k].mails EXCEPT ![u] = 1]
  BY <1>1 DEF Post, OnceInv, TypeOK, Pauses
<1>4. pause[k].mails \in [Recipient -> Nat]
  BY DEF OnceInv, TypeOK, Pauses
<1>5. Once(pause'[k])
  BY <1>3, <1>4 DEF Once, OnceInv
<1>. QED
  BY <1>2, <1>5 DEF OnceInv

LEMMA OnceInit == Init => OnceInv
<1>. SUFFICES ASSUME Init PROVE OnceInv
  OBVIOUS
<1>1. Once(NewPause)
  BY DEF Once, NewPause
<1>. QED
  BY <1>1, TypeInit DEF Init, OnceInv

LEMMA OnceStep ==
    ASSUME OnceInv, [Next]_vars
    PROVE  OnceInv'
<1>1. TypeOK'
  BY TypeStep DEF OnceInv
<1>2. CASE UNCHANGED pause
  BY <1>1, <1>2 DEF OnceInv
<1>3. ASSUME NEW r \in Row, StoreForReview(r) \/ Flag(r) PROVE OnceInv'
  BY <1>1, <1>3, OncePeriod DEF StoreForReview, Flag, OnceInv
<1>4. ASSUME NEW o \in Operator, Unmatch(o) PROVE OnceInv'
  BY <1>1, <1>2, <1>4, OncePeriod DEF Unmatch, OnceInv
<1>5. ASSUME NEW o \in Operator, Settle(o) PROVE OnceInv'
  BY <1>1, <1>5, PauseField, OnceState DEF Settle, OnceInv
<1>6. ASSUME NEW a \in Announcer, Notify(a) PROVE OnceInv'
  <2>1. call[a] \in Full
    BY <1>6, CallOf DEF Notify, OnceInv
  <2>. DEFINE k == call[a].id
  <2>2. k \in Pause /\ pause[k] \in Pauses
    BY <2>1, PauseField DEF Full, OnceInv
  <2>3. \/ UNCHANGED pause
        \/ ~pause[k].notified /\ pause' = [pause EXCEPT ![k].notified = TRUE, ![k].notices = @ + 1]
    BY <1>6 DEF Notify, MayNotify
  <2>4. CASE ~pause[k].notified /\ pause' = [pause EXCEPT ![k].notified = TRUE, ![k].notices = @ + 1]
    <3>1. Once([[pause[k] EXCEPT !.notified = TRUE] EXCEPT !.notices = pause[k].notices + 1])
      BY <2>2, <2>4, OnceNoticed DEF OnceInv
    <3>2. pause'[k] = [[pause[k] EXCEPT !.notified = TRUE] EXCEPT !.notices = pause[k].notices + 1]
      BY <2>2, <2>4 DEF OnceInv, TypeOK, Pauses
    <3>3. \A l \in Pause : l # k => pause'[l] = pause[l]
      BY <2>4 DEF OnceInv, TypeOK
    <3>. QED
      BY <1>1, <3>1, <3>2, <3>3 DEF OnceInv
  <2>. QED
    BY <1>2, <2>3, <2>4
<1>7. ASSUME NEW a \in Announcer, Mail(a) \/ CallDies(a) PROVE OnceInv'
  <2>1. \/ UNCHANGED pause
        \/ call[a].at = "mail" /\ \E u \in call[a].left : Post(call[a].id, u)
    BY <1>7 DEF Mail, CallDies
  <2>2. CASE call[a].at = "mail" /\ \E u \in call[a].left : Post(call[a].id, u)
    <3>1. call[a] \in Full
      BY <2>2, CallOf DEF OnceInv
    <3>. QED
      BY <1>1, <2>2, <3>1, OncePost DEF Full, OnceInv
  <2>. QED
    BY <1>2, <2>1, <2>2
<1>8. ASSUME NEW a \in Announcer, MarkMailed(a) PROVE OnceInv'
  <2>1. call[a] \in Full
    BY <1>8, CallOf DEF MarkMailed, OnceInv
  <2>2. Once([pause[call[a].id] EXCEPT !.mailed = TRUE])
    BY <2>1, PauseField, OnceState DEF Full, OnceInv
  <2>. QED
    BY <1>1, <1>8, <2>1, <2>2 DEF MarkMailed, OnceInv, TypeOK
<1>9. [Next]_vars =>
        \/ UNCHANGED pause
        \/ \E r \in Row : StoreForReview(r) \/ Flag(r)
        \/ \E o \in Operator : Unmatch(o) \/ Settle(o)
        \/ \E a \in Announcer : Notify(a) \/ Mail(a) \/ MarkMailed(a) \/ CallDies(a)
  BY DEF Next, vars, EffectStep, Enter, CheckData, CheckRows, CheckStops, Commit, Step, StorePlain,
         StartImport, DataThrough, Age, RegisterStop, ResolveStop, ReadRow, OperatorStep, Match,
         Ignore, Decide, Refused, RequestDies, CallStep, Begin, CountRows
<1>. QED
  BY <1>2, <1>3, <1>4, <1>5, <1>6, <1>7, <1>8, <1>9

LEMMA OnceInvariant == Spec => []OnceInv
  BY OnceInit, OnceStep, PTL DEF Spec

\* aviseraGranskningspaus: one notice for a period and one mail to each recipient,
\* whatever calls overlap or die.
THEOREM SaidOnce == Spec => []AnnouncedOnce
<1>1. OnceInv => AnnouncedOnce
  BY DEF OnceInv, Once, AnnouncedOnce
<1>. QED
  BY OnceInvariant, <1>1, PTL

-----------------------------------------------------------------------------
(* The period. *)

LEMMA PeriodOpened ==
    ASSUME TypeOK, OpenPeriod
    PROVE  \E k \in Pause : Open(k)'
<1>1. CASE \E k \in Pause : Open(k)
  BY <1>1 DEF OpenPeriod, Open
<1>2. CASE ~\E k \in Pause : Open(k)
  <2>1. PICK k \in Pause : pause' = [pause EXCEPT ![k].state = "open"]
    BY <1>2 DEF OpenPeriod
  <2>2. pause'[k].state = "open"
    BY <2>1 DEF TypeOK, Pauses
  <2>. QED
    BY <2>2 DEF Open
<1>. QED
  BY <1>1, <1>2

\* Announcing a period neither opens nor ends one.
LEMMA CallKeepsState ==
    ASSUME TypeOK, NEW a \in Announcer, CallStep(a) \/ CallDies(a)
    PROVE  \A k \in Pause : pause'[k].state = pause[k].state
<1>1. CASE UNCHANGED pause
  BY <1>1
<1>2. ASSUME NEW k \in Pause, NEW u \in Recipient, Post(k, u)
      PROVE  \A l \in Pause : pause'[l].state = pause[l].state
  BY <1>2 DEF Post, TypeOK, Pauses
<1>3. ASSUME NEW k \in Pause,
             \/ pause' = [pause EXCEPT ![k].notified = TRUE, ![k].notices = @ + 1]
             \/ pause' = [pause EXCEPT ![k].mailed = TRUE]
      PROVE  \A l \in Pause : pause'[l].state = pause[l].state
  <2>1. \A l \in Pause : l # k => pause'[l] = pause[l]
    BY <1>3 DEF TypeOK
  <2>2. pause[k] \in Pauses
    BY DEF TypeOK
  <2>3. \/ pause'[k] = [[pause[k] EXCEPT !.notified = TRUE] EXCEPT !.notices = pause[k].notices + 1]
        \/ pause'[k] = [pause[k] EXCEPT !.mailed = TRUE]
    BY <1>3, <2>2 DEF TypeOK, Pauses
  <2>4. pause'[k].state = pause[k].state
    BY <2>2, <2>3 DEF Pauses
  <2>. QED
    BY <2>1, <2>4
<1>4. CASE call[a].at \in {"read", "notify", "mail"}
  <2>1. call[a] \in Full
    BY <1>4, CallOf
  <2>2. \/ UNCHANGED pause
        \/ \E u \in call[a].left : Post(call[a].id, u)
        \/ pause' = [pause EXCEPT ![call[a].id].notified = TRUE, ![call[a].id].notices = @ + 1]
        \/ pause' = [pause EXCEPT ![call[a].id].mailed = TRUE]
    BY DEF CallStep, Begin, CountRows, Notify, Mail, MarkMailed, CallDies
  <2>. QED
    BY <1>1, <1>2, <1>3, <2>1, <2>2 DEF Full
<1>5. CASE call[a].at \notin {"read", "notify", "mail"}
  BY <1>1, <1>5 DEF CallStep, Begin, CountRows, Notify, Mail, MarkMailed, CallDies
<1>. QED
  BY <1>4, <1>5

LEMMA PeriodStep ==
    ASSUME GateInv, [Next]_vars
    PROVE  \/ UnresolvedHasPeriod' \/ UnseenMark
           \/ ~UnresolvedHasPeriod /\ Unresolved' \subseteq Unresolved
<1>. DEFINE Kept == \/ UnresolvedHasPeriod' \/ UnseenMark
                    \/ ~UnresolvedHasPeriod /\ Unresolved' \subseteq Unresolved
<1>. USE DEF GateInv
<1>1. CASE Unresolved' \subseteq Unresolved /\ \A k \in Pause : Open(k) => Open(k)'
  BY <1>1 DEF UnresolvedHasPeriod
<1>2. ASSUME NEW r \in Row, StoreForReview(r) \/ Flag(r) PROVE UnresolvedHasPeriod'
  BY <1>2, PeriodOpened DEF StoreForReview, Flag, UnresolvedHasPeriod
<1>3. ASSUME NEW r \in Row, StorePlain(r)
      PROVE  Unresolved' \subseteq Unresolved /\ \A k \in Pause : Open(k) => Open(k)'
  BY <1>3 DEF StorePlain, Unresolved, Open, MarkedIsStored, TypeOK
<1>4. ASSUME NEW o \in Operator, Match(o) \/ Ignore(o)
      PROVE  Unresolved' \subseteq Unresolved /\ \A k \in Pause : Open(k) => Open(k)'
  BY <1>4 DEF Match, Ignore, Decide, Unresolved, Open, TypeOK
<1>5. ASSUME NEW o \in Operator, Unmatch(o) PROVE Kept
  <2>1. CASE request[o].saw
    BY <1>5, <2>1, PeriodOpened DEF Unmatch, UnresolvedHasPeriod
  <2>2. CASE ~request[o].saw /\ request[o].row \in marked
    BY <1>5, <2>2 DEF UnseenMark
  <2>3. CASE ~request[o].saw /\ request[o].row \notin marked
    <3>1. request[o].row \in Row
      BY <1>5, RequestOf DEF Unmatch, Goes, Reads
    <3>2. Unresolved' \subseteq Unresolved
      BY <1>5, <2>3, <3>1 DEF Unmatch, Unresolved, TypeOK
    <3>3. UNCHANGED pause
      BY <1>5, <2>3 DEF Unmatch
    <3>. QED
      BY <1>1, <3>2, <3>3 DEF Open
  <2>. QED
    BY <2>1, <2>2, <2>3
<1>6. ASSUME NEW o \in Operator, Settle(o) PROVE Kept
  <2>1. Unresolved' = Unresolved
    BY <1>6 DEF Settle, Unresolved, rowVars
  <2>2. CASE AllResolved
    BY <2>1, <2>2 DEF AllResolved, UnresolvedHasPeriod
  <2>3. CASE ~AllResolved
    <3>1. \A k \in Pause : pause'[k] = pause[k]
      BY <1>6, <2>3 DEF Settle
    <3>. QED
      BY <1>1, <2>1, <3>1 DEF Open
  <2>. QED
    BY <2>2, <2>3
<1>7. ASSUME UNCHANGED rowVars, UNCHANGED pause
      PROVE  Unresolved' \subseteq Unresolved /\ \A k \in Pause : Open(k) => Open(k)'
  BY <1>7 DEF rowVars, Unresolved, Open
<1>8. ASSUME NEW a \in Announcer, CallStep(a) \/ CallDies(a)
      PROVE  Unresolved' \subseteq Unresolved /\ \A k \in Pause : Open(k) => Open(k)'
  <2>1. UNCHANGED rowVars
    BY <1>8 DEF CallStep, Begin, CountRows, Notify, Mail, MarkMailed, CallDies
  <2>2. \A k \in Pause : pause'[k].state = pause[k].state
    BY <1>8, CallKeepsState
  <2>. QED
    BY <2>1, <2>2 DEF rowVars, Unresolved, Open
<1>9. [Next]_vars =>
        \/ UNCHANGED rowVars /\ UNCHANGED pause
        \/ \E r \in Row : StorePlain(r) \/ StoreForReview(r) \/ Flag(r)
        \/ \E o \in Operator : Match(o) \/ Ignore(o) \/ Unmatch(o) \/ Settle(o)
        \/ \E a \in Announcer : CallStep(a) \/ CallDies(a)
  BY DEF Next, vars, EffectStep, Enter, CheckData, CheckRows, CheckStops, Commit, Step,
         StartImport, DataThrough, Age, RegisterStop, ResolveStop, ReadRow, OperatorStep, Refused,
         RequestDies
<1>. QED
  BY <1>1, <1>2, <1>3, <1>4, <1>5, <1>6, <1>7, <1>8, <1>9

\* oppna- and avslutaGranskningsperiod: a row becomes unresolved with a period, and a
\* period ends when no row is unresolved, but for the unmatch that read its row before
\* the row was marked.
THEOREM PauseKeepsPeriod == Spec => PeriodIsKept
<1>1. GateInv /\ [Next]_vars =>
          [UnresolvedHasPeriod' \/ UnseenMark \/ (~UnresolvedHasPeriod /\ Unresolved' \subseteq Unresolved)]_vars
  BY PeriodStep
<1>. QED
  BY <1>1, GateInvariant, PTL DEF Spec, PeriodIsKept
===============================================================================
