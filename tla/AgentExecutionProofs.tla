------------------------ MODULE AgentExecutionProofs ------------------------
(***************************************************************************)
(* Proofs about AgentExecution, for any number of proposals, delegations,  *)
(* workers, requests, stalls and deaths: a proposal is carried out once at *)
(* most, what its row says of that is true, its claim and its work are a   *)
(* claimed effect, and nothing is carried out by a right that was gone     *)
(* when the run began.                                                     *)
(***************************************************************************)
EXTENDS AgentExecution, TLAPS

-----------------------------------------------------------------------------
(* Types. *)

RowType   == [Assignment -> [status : Status, verdict : {"none", "no"} \cup Delegation,
                             claimed : BOOLEAN, link : {"none"} \cup Assignment]]
RightType == [Delegation -> [born : {"none", "older"} \cup Assignment, revoked : BOOLEAN,
                             expired : BOOLEAN, extended : BOOLEAN,
                             paused : {"no", "owner", "switch"}]]
AskType   == [Request -> [kind : {"none", "birth", "switch"}, of : {"none"} \cup Assignment,
                          shadow : Switch, exec : Switch]]
JobType   == [Assignment -> {"none", "waiting", "kept"} \cup Worker]
RunRecord == [at : Place, of : {"none"} \cup Assignment, by : {"none", "no"} \cup Delegation,
              late : SUBSET Delegation, lost : SUBSET Delegation, from : Nat]
Runs      == {r \in RunRecord : /\ r.at # "idle" => r.of \in Assignment
                                /\ r.at \in {"begin", "act", "done"} => r.by \in Delegation}
RunType   == run \in [Worker -> Runs]
RestType  ==
    /\ org \in [shadow : BOOLEAN, exec : BOOLEAN]
    /\ judging \in [Assignment -> {"none", "no"} \cup Delegation]
    /\ trace \in Seq([of : Assignment, by : Delegation])
    /\ effects \in [Assignment -> Nat]
    /\ changes \in 0..Changes /\ faults \in 0..Faults

Types == /\ row \in RowType /\ right \in RightType /\ request \in AskType
         /\ job \in JobType /\ RunType /\ RestType

LEMMA TypesGiveTypeOK == Types => TypeOK
<1>. SUFFICES ASSUME Types
              PROVE  TypeOK
  OBVIOUS
<1>1. run \in [Worker -> RunRecord]
  BY DEF Types, RunType, Runs
<1>2. \A w \in Worker : /\ run[w].at # "idle" => run[w].of \in Assignment
                        /\ run[w].at \in {"begin", "act", "done"} => run[w].by \in Delegation
  BY DEF Types, RunType, Runs
<1>. QED
  BY <1>1, <1>2 DEF Types, TypeOK, RowType, RightType, AskType, JobType, RunRecord, RestType

LEMMA NoRunTyped == NoRun \in Runs
  BY DEF NoRun, Runs, RunRecord, Place

LEMMA Elements ==
    ASSUME NEW S, NEW s \in Seq(S)
    PROVE  \A i \in 1..Len(s) : s[i] \in S
  OBVIOUS

LEMMA InitTypes == Init => Types
<1>. SUFFICES ASSUME Init
              PROVE  Types
  OBVIOUS
<1>1. row \in RowType
  BY DEF Init, RowType, Status
<1>2. right \in RightType
  BY DEF Init, RightType, Unborn
<1>3. request \in AskType
  BY DEF Init, AskType, NoRequest, Switch
<1>4. job \in JobType
  BY DEF Init, JobType
<1>5. RunType
  BY NoRunTyped DEF Init, RunType, NoRun
<1>6. RestType
  <2>1. org \in [shadow : BOOLEAN, exec : BOOLEAN] /\ trace = <<>>
    BY DEF Init
  <2>2. /\ judging \in [Assignment -> {"none", "no"} \cup Delegation]
        /\ effects \in [Assignment -> Nat]
        /\ changes \in 0..Changes /\ faults \in 0..Faults
    BY BoundAssumption DEF Init
  <2>. QED
    BY <2>1, <2>2 DEF RestType
<1>. QED
  BY <1>1, <1>2, <1>3, <1>4, <1>5, <1>6 DEF Types

\* The people write proposals, rights, requests and the switches.
LEMMA DecideTypes ==
    ASSUME Types, NEW a \in Assignment, Expire(a) \/ \E v \in Decision : Decide(a, v)
    PROVE  Types'
<1>1. PICK v \in Status : row' = [row EXCEPT ![a].status = v]
  BY AskedAssumption DEF Expire, Decide, Status
<1>2. row' \in RowType
  BY <1>1 DEF Types, RowType
<1>3. UNCHANGED <<org, right, request, judging, job, run, trace, effects, changes, faults>>
  BY DEF Expire, Decide
<1>. QED
  BY <1>2, <1>3 DEF Types, RunType, RestType

LEMMA BirthTypes ==
    ASSUME Types, NEW q \in Request,
           (\E a \in Assignment : AskBirth(q, a)) \/ (\E d \in Delegation : Birth(q, d))
    PROVE  Types'
<1>1. CASE \E a \in Assignment : AskBirth(q, a)
  <2>1. request' \in AskType
    <3>1. PICK a \in Assignment : AskBirth(q, a)
      BY <1>1
    <3>. QED
      BY <3>1 DEF Types, AskBirth, AskType, NoRequest, Switch
  <2>. QED
    BY <1>1, <2>1 DEF Types, AskBirth, RunType, RestType
<1>2. CASE \E d \in Delegation : Birth(q, d)
  <2>1. PICK d \in Delegation : Birth(q, d)
    BY <1>2
  <2>2. request[q].of \in {"none"} \cup Assignment /\ NoRequest \in
            [kind : {"none", "birth", "switch"}, of : {"none"} \cup Assignment,
             shadow : Switch, exec : Switch]
    BY DEF Types, AskType, NoRequest, Switch
  <2>3. right' \in RightType
    BY <2>1, <2>2 DEF Types, Birth, RightType
  <2>4. request' \in AskType
    BY <2>1, <2>2 DEF Types, Birth, AskType
  <2>. QED
    BY <2>1, <2>3, <2>4 DEF Types, Birth, RunType, RestType
<1>. QED
  BY <1>1, <1>2

LEMMA SwitchTypes ==
    ASSUME Types, NEW q \in Request,
           (\E dto \in Dto : AskSwitch(q, dto[1], dto[2])) \/ WriteSwitch(q)
    PROVE  Types'
<1>1. CASE \E dto \in Dto : AskSwitch(q, dto[1], dto[2])
  <2>1. PICK s \in Switch, e \in Switch : AskSwitch(q, s, e)
    BY <1>1, AskedAssumption
  <2>2. request' \in AskType
    BY <2>1 DEF Types, AskSwitch, AskType, Switch
  <2>3. right' \in RightType
    BY <2>1 DEF Types, AskSwitch, RightType, PauseAll
  <2>4. changes' \in 0..Changes
    BY <2>1, BoundAssumption DEF Types, RestType, AskSwitch, Spend
  <2>. QED
    BY <2>1, <2>2, <2>3, <2>4 DEF Types, AskSwitch, RunType, RestType
<1>2. CASE WriteSwitch(q)
  <2>1. org' \in [shadow : BOOLEAN, exec : BOOLEAN]
    BY <1>2 DEF Types, RestType, WriteSwitch, ShadowAfter
  <2>2. request' \in AskType
    BY <1>2 DEF Types, WriteSwitch, AskType, NoRequest, Switch
  <2>. QED
    BY <1>2, <2>1, <2>2 DEF Types, WriteSwitch, RunType, RestType
<1>. QED
  BY <1>1, <1>2

LEMMA RightTypes ==
    ASSUME Types, NEW d \in Delegation,
           Revoke(d) \/ Pause(d) \/ Resume(d) \/ RunOut(d) \/ Extend(d)
    PROVE  Types'
<1>1. right' \in RightType
  BY DEF Types, RightType, Revoke, Pause, Resume, RunOut, Extend, Alter
<1>2. changes' \in 0..Changes
  BY BoundAssumption DEF Types, RestType, Revoke, Pause, Resume, RunOut, Extend, Spend
<1>3. UNCHANGED <<org, row, request, judging, job, run, trace, effects, faults>>
  BY DEF Revoke, Pause, Resume, RunOut, Extend, Alter
<1>. QED
  BY <1>1, <1>2, <1>3 DEF Types, RunType, RestType

\* The passes write verdicts, jobs and the outcome of dead claims.
LEMMA PassTypes ==
    ASSUME Types, NEW a \in Assignment,
           AskVerdict(a) \/ WriteVerdict(a) \/ Reap(a) \/ Enqueue(a) \/ Forget(a)
    PROVE  Types'
<1>1. CASE AskVerdict(a)
  <2>1. \A answer \in Answers(a, Delegation) : answer \in {"no"} \cup Delegation
    BY DEF Answers
  <2>2. judging' \in [Assignment -> {"none", "no"} \cup Delegation]
    BY <1>1, <2>1 DEF AskVerdict, Types, RestType
  <2>. QED
    BY <1>1, <2>2 DEF AskVerdict, Types, RunType, RestType
<1>2. CASE WriteVerdict(a)
  <2>1. judging[a] \in {"none", "no"} \cup Delegation
    BY DEF Types, RestType
  <2>2. row' \in RowType
    BY <1>2, <2>1 DEF WriteVerdict, Types, RowType
  <2>3. judging' \in [Assignment -> {"none", "no"} \cup Delegation]
    BY <1>2 DEF WriteVerdict, Types, RestType
  <2>. QED
    BY <1>2, <2>2, <2>3 DEF WriteVerdict, Types, RunType, RestType
<1>3. CASE Reap(a)
  <2>1. row' \in RowType
    BY <1>3 DEF Reap, OutcomeOfDead, Types, RowType, Status, Terminal
  <2>. QED
    BY <1>3, <2>1 DEF Reap, Types, RunType, RestType
<1>4. CASE Enqueue(a) \/ Forget(a)
  <2>1. job' \in JobType
    BY <1>4 DEF Enqueue, Forget, Types, JobType
  <2>. QED
    BY <1>4, <2>1 DEF Enqueue, Forget, Types, RunType, RestType
<1>. QED
  BY <1>1, <1>2, <1>3, <1>4

LEMMA MoveOnTypes ==
    ASSUME Types, NEW w \in Worker, NEW place \in Place, MoveOn(w, place),
           run[w].at # "idle",
           place \in {"begin", "act", "done"} => run[w].by \in Delegation
    PROVE  RunType' /\ job' \in JobType
<1>. DEFINE r == [run[w] EXCEPT !.at = place]
<1>1. run' = [run EXCEPT ![w] = r]
  BY DEF MoveOn, Types, RunType
<1>2. run[w] \in Runs
  BY DEF Types, RunType
<1>3. r \in Runs
  BY <1>2 DEF Runs, RunRecord
<1>. HIDE DEF r
<1>. QED
  BY <1>1, <1>3 DEF Types, RunType, MoveOn

LEMMA ReturnTypes ==
    ASSUME Types, NEW w \in Worker, Return(w)
    PROVE  RunType' /\ job' \in JobType
<1>1. job' \in JobType
  BY DEF Types, JobType, Return
<1>2. run' = [run EXCEPT ![w] = NoRun]
  BY DEF Return
<1>. QED
  BY <1>1, <1>2, NoRunTyped DEF Types, RunType

\* A run holds its proposal from the claim to its end.
LEMMA RunTyped ==
    ASSUME Types, NEW w \in Worker, run[w].at # "idle"
    PROVE  /\ run[w] \in RunRecord /\ Subject(w) \in Assignment
           /\ run[w].at \in {"begin", "act", "done"} => run[w].by \in Delegation
<1>1. run[w] \in Runs
  BY DEF Types, RunType
<1>. QED
  BY <1>1 DEF Runs, Subject

LEMMA WorkTypes ==
    ASSUME Types, NEW w \in Worker, Works(w)
    PROVE  Types'
<1>1. CASE \E a \in Assignment : Take(w, a)
  <2>1. PICK a \in Assignment : Take(w, a)
    BY <1>1
  <2>2. job' \in JobType
    BY <2>1 DEF Take, Types, JobType
  <2>3. RunType'
    <3>1. CASE UNCHANGED run
      BY <3>1 DEF Types, RunType
    <3>2. CASE ~UNCHANGED run
      <4>. DEFINE r == [NoRun EXCEPT !.at = "claim", !.of = a,
                              !.late = {d \in Delegation : right[d].expired},
                              !.lost = {d \in Delegation : right[d].revoked}]
      <4>1. run' = [run EXCEPT ![w] = r]
        BY <2>1, <3>2 DEF Take
      <4>2. r \in Runs
        BY DEF NoRun, Runs, RunRecord, Place
      <4>. HIDE DEF r
      <4>. QED
        BY <4>1, <4>2 DEF Types, RunType
    <3>. QED
      BY <3>1, <3>2
  <2>. QED
    BY <2>1, <2>2, <2>3 DEF Take, Types, RestType
<1>2. CASE Claim(w)
  <2>1. run[w].at # "idle" /\ Subject(w) \in Assignment
    BY <1>2, RunTyped DEF Claim
  <2>2. row' \in RowType
    BY <1>2, <2>1 DEF Claim, Types, RowType
  <2>3. RunType' /\ job' \in JobType
    BY <1>2, <2>1, MoveOnTypes, ReturnTypes DEF Claim, Place
  <2>. QED
    BY <1>2, <2>2, <2>3 DEF Claim, Types, RestType
<1>3. CASE AskAgain(w)
  <2>1. run[w].at = "ask" /\ run[w] \in RunRecord /\ run[w].of \in Assignment
    BY <1>3, RunTyped DEF AskAgain, Subject
  <2>2. PICK answer \in {"no"} \cup Delegation :
           run' = [run EXCEPT ![w] = [@ EXCEPT !.by = answer,
                                     !.at = IF answer = "no" THEN "lapse" ELSE "begin"]]
    BY <1>3 DEF AskAgain, Again, Answers
  <2>. DEFINE r == [run[w] EXCEPT !.by = answer,
                                  !.at = IF answer = "no" THEN "lapse" ELSE "begin"]
  <2>3. run' = [run EXCEPT ![w] = r]
    BY <2>2 DEF Types, RunType
  <2>4. r \in Runs
    BY <2>1 DEF Runs, RunRecord, Place
  <2>. HIDE DEF r
  <2>5. RunType'
    BY <2>3, <2>4 DEF Types, RunType
  <2>. QED
    BY <1>3, <2>5 DEF AskAgain, Types, RestType
<1>4. CASE Lapse(w) \/ Fail(w)
  <2>1. run[w].at # "idle" /\ Subject(w) \in Assignment /\ Return(w)
    BY <1>4, RunTyped DEF Lapse, Fail
  <2>2. row' \in RowType
    BY <1>4, <2>1 DEF Lapse, Fail, Types, RowType, Status, Terminal
  <2>. QED
    BY <1>4, <2>1, <2>2, ReturnTypes DEF Lapse, Fail, Types, RestType
<1>5. CASE Begin(w)
  <2>1. /\ run[w].at = "begin" /\ run[w] \in RunRecord /\ run[w].of \in Assignment
        /\ run[w].by \in Delegation /\ Subject(w) \in Assignment
    BY <1>5, RunTyped DEF Begin, Subject
  <2>2. Len(trace) \in Nat
    BY DEF Types, RestType
  <2>. DEFINE r == [run[w] EXCEPT !.at = "act", !.from = Len(trace)]
  <2>3. run' = [run EXCEPT ![w] = r]
    BY <1>5 DEF Begin, Types, RunType
  <2>4. r \in Runs
    BY <2>1, <2>2 DEF Runs, RunRecord, Place
  <2>. HIDE DEF r
  <2>5. RunType'
    BY <2>3, <2>4 DEF Types, RunType
  <2>6. trace' \in Seq([of : Assignment, by : Delegation])
    BY <1>5, <2>1 DEF Begin, Types, RestType
  <2>. QED
    BY <1>5, <2>5, <2>6 DEF Begin, Types, RestType
<1>6. CASE Act(w)
  <2>1. run[w].at = "act" /\ Subject(w) \in Assignment /\ run[w].by \in Delegation
    BY <1>6, RunTyped DEF Act
  <2>2. RunType' /\ job' \in JobType
    BY <1>6, <2>1, MoveOnTypes DEF Act, Place
  <2>3. effects' \in [Assignment -> Nat]
    BY <1>6, <2>1 DEF Act, Types, RestType
  <2>. QED
    BY <1>6, <2>2, <2>3 DEF Act, Types, RestType
<1>7. CASE StoreExecuted(w)
  <2>1. run[w].at = "done" /\ Subject(w) \in Assignment /\ run[w].from \in Nat
    BY <1>7, RunTyped DEF StoreExecuted, RunRecord
  <2>2. \A link \in Latest(w) : link \in Assignment
    <3>1. \A i \in 1..Len(trace) : trace[i] \in [of : Assignment, by : Delegation]
      <4>1. trace \in Seq([of : Assignment, by : Delegation])
        BY DEF Types, RestType
      <4>. QED
        BY <4>1, Elements, Zenon
    <3>2. Found(w) \subseteq 1..Len(trace)
      <4>1. Len(trace) \in Nat
        BY DEF Types, RestType
      <4>. QED
        BY <2>1, <4>1 DEF Found
    <3>. QED
      BY <3>1, <3>2 DEF Latest
  <2>3. row' \in RowType
    <3>1. PICK link \in Assignment :
             row' = [row EXCEPT ![Subject(w)] = [@ EXCEPT !.status = "EXECUTED", !.link = link]]
      BY <1>7, <2>2 DEF StoreExecuted
    <3>0. row[Subject(w)] \in [status : Status, verdict : {"none", "no"} \cup Delegation,
                               claimed : BOOLEAN, link : {"none"} \cup Assignment]
      BY <2>1 DEF Types, RowType
    <3>2. [row[Subject(w)] EXCEPT !.status = "EXECUTED", !.link = link] \in
              [status : Status, verdict : {"none", "no"} \cup Delegation,
               claimed : BOOLEAN, link : {"none"} \cup Assignment]
      BY <3>0 DEF Status, Terminal
    <3>. QED
      BY <2>1, <3>1, <3>2 DEF Types, RowType
  <2>. QED
    BY <1>7, <2>3, ReturnTypes DEF StoreExecuted, Types, RestType
<1>. QED
  BY <1>1, <1>2, <1>3, <1>4, <1>5, <1>6, <1>7 DEF Works

LEMMA FaultTypes ==
    ASSUME Types, (\E w \in Worker : Die(w)) \/ (\E a \in Assignment : Stall(a))
    PROVE  Types'
<1>1. faults' \in 0..Faults
  BY BoundAssumption DEF Types, RestType, Die, Stall
<1>2. CASE \E w \in Worker : Die(w)
  <2>1. PICK w \in Worker : Die(w)
    BY <1>2
  <2>2. job' \in JobType
    BY <2>1 DEF Die, Types, JobType
  <2>3. run' = [run EXCEPT ![w] = NoRun]
    BY <2>1 DEF Die
  <2>4. RunType'
    BY <2>3, NoRunTyped DEF Types, RunType
  <2>. QED
    BY <1>1, <2>1, <2>2, <2>4 DEF Die, Types, RestType
<1>3. CASE \E a \in Assignment : Stall(a)
  <2>1. job' \in JobType
    BY <1>3 DEF Stall, Types, JobType
  <2>. QED
    BY <1>1, <1>3, <2>1 DEF Stall, Types, RunType, RestType
<1>. QED
  BY <1>2, <1>3

LEMMA NextTypes == Types /\ [Next]_vars => Types'
<1>. SUFFICES ASSUME Types, [Next]_vars
              PROVE  Types'
  OBVIOUS
<1>1. CASE Owner
  BY <1>1, DecideTypes, BirthTypes, SwitchTypes, RightTypes DEF Owner
<1>2. CASE Passes
  BY <1>2, PassTypes DEF Passes
<1>3. CASE \E w \in Worker : Works(w)
  BY <1>3, WorkTypes
<1>4. CASE (\E w \in Worker : Die(w)) \/ (\E a \in Assignment : Stall(a))
  BY <1>4, FaultTypes
<1>5. CASE UNCHANGED vars
  BY <1>5 DEF vars, Types, RunType, RestType
<1>. QED
  BY <1>1, <1>2, <1>3, <1>4, <1>5 DEF Next

\* Every switch, status, right, job, run and trace row is one of the code's, whatever
\* the number of proposals, workers and faults.
THEOREM AgentTypes == Spec => []TypeOK
<1>1. Spec => []Types
  BY InitTypes, NextTypes, PTL DEF Spec
<1>. QED
  BY <1>1, TypesGiveTypeOK, PTL

-----------------------------------------------------------------------------
(* Who has claimed a proposal, and what has become of it. *)

Told    == {"EXECUTED", "LAPSED"}
Holding == {"ask", "lapse", "begin", "act", "done"}
Holds(w) == run[w].at \in Holding

\* A worker past the claim is alone with its proposal, nobody has told its outcome,
\* and the tool has done its work once the worker is past it.
HolderInv ==
    \A w \in Worker : Holds(w) =>
        /\ row[Subject(w)].claimed /\ row[Subject(w)].status \notin Told
        /\ effects[Subject(w)] = IF run[w].at = "done" THEN 1 ELSE 0
OneHolder ==
    \A v, w \in Worker : Holds(v) /\ Holds(w) /\ Subject(v) = Subject(w) => v = w

RowInv ==
    \A a \in Assignment :
        /\ effects[a] \in {0, 1}
        /\ ~row[a].claimed => effects[a] = 0 /\ row[a].status \notin Told
        /\ row[a].status = "EXECUTED" => effects[a] = 1
        /\ row[a].status = "LAPSED" => effects[a] = 0

ClaimInv == HolderInv /\ OneHolder /\ RowInv

LEMMA InitClaims == Init => ClaimInv
  BY DEF Init, ClaimInv, HolderInv, OneHolder, RowInv, Holds, Holding, NoRun, Told

\* What does not run, claim or tell an outcome leaves all this as it is.
LEMMA QuietClaims ==
    ASSUME ClaimInv, UNCHANGED <<run, effects>>, Types,
           \A a \in Assignment : /\ row'[a].claimed = row[a].claimed
                                 /\ row'[a].status \in Told => row'[a].status = row[a].status
    PROVE  ClaimInv'
<1>1. HolderInv'
  <2>. SUFFICES ASSUME NEW w \in Worker, Holds(w)'
                PROVE  /\ row'[Subject(w)].claimed /\ row'[Subject(w)].status \notin Told
                       /\ effects[Subject(w)] = IF run[w].at = "done" THEN 1 ELSE 0
    BY DEF HolderInv, Holds, Subject
  <2>1. Holds(w) /\ Subject(w) \in Assignment
    BY RunTyped DEF Holds, Holding
  <2>. QED
    BY <2>1 DEF ClaimInv, HolderInv
<1>2. OneHolder'
  BY DEF ClaimInv, OneHolder, Holds, Subject
<1>3. RowInv'
  BY DEF ClaimInv, RowInv, Told
<1>. QED
  BY <1>1, <1>2, <1>3 DEF ClaimInv

\* A run that ends, whatever it leaves of its own proposal.
LEMMA EndClaims ==
    ASSUME ClaimInv, Types, NEW w \in Worker, run' = [run EXCEPT ![w] = NoRun],
           UNCHANGED effects, RowInv',
           \A a \in Assignment : row'[a] = row[a] \/ (Holds(w) /\ a = Subject(w))
    PROVE  ClaimInv'
<1>1. \A v \in Worker : Holds(v)' => v # w /\ Holds(v) /\ run'[v] = run[v]
  BY DEF Types, RunType, Holds, Holding, NoRun
<1>2. HolderInv'
  <2>. SUFFICES ASSUME NEW v \in Worker, Holds(v)'
                PROVE  /\ row'[Subject(v)].claimed /\ row'[Subject(v)].status \notin Told
                       /\ effects[Subject(v)] = IF run[v].at = "done" THEN 1 ELSE 0
    BY <1>1 DEF HolderInv, Subject
  <2>1. Holds(v) /\ Subject(v) \in Assignment /\ v # w
    BY <1>1, RunTyped DEF Holds, Holding
  <2>2. row'[Subject(v)] = row[Subject(v)]
    BY <2>1 DEF ClaimInv, OneHolder
  <2>. QED
    BY <2>1, <2>2 DEF ClaimInv, HolderInv
<1>3. OneHolder'
  BY <1>1 DEF ClaimInv, OneHolder, Subject
<1>. QED
  BY <1>2, <1>3 DEF ClaimInv

\* A run that goes on, with what it holds still its own.
LEMMA StepClaims ==
    ASSUME ClaimInv, Types, NEW w \in Worker, NEW r \in Runs, run' = [run EXCEPT ![w] = r],
           r.of = run[w].of, Holds(w), r.at \in Holding, UNCHANGED row,
           effects'[r.of] = IF r.at = "done" THEN 1 ELSE 0,
           \A a \in Assignment : a # r.of => effects'[a] = effects[a]
    PROVE  ClaimInv'
<1>0. r.of \in Assignment /\ Subject(w) = r.of
  BY RunTyped DEF Holds, Holding, Subject
<1>1. /\ \A v \in Worker : v # w => run'[v] = run[v]
      /\ run'[w] = r
  BY DEF Types, RunType
<1>2. \A v \in Worker : Subject(v)' = Subject(v) /\ (Holds(v)' <=> Holds(v))
  BY <1>1 DEF Subject, Holds
<1>3. OneHolder'
  BY <1>2 DEF ClaimInv, OneHolder
<1>4. HolderInv'
  <2>. SUFFICES ASSUME NEW v \in Worker, Holds(v)'
                PROVE  /\ row[Subject(v)].claimed /\ row[Subject(v)].status \notin Told
                       /\ effects'[Subject(v)] = IF run'[v].at = "done" THEN 1 ELSE 0
    BY <1>2 DEF HolderInv
  <2>1. Holds(v) /\ Subject(v) \in Assignment
    BY <1>2, RunTyped DEF Holds, Holding
  <2>2. row[Subject(v)].claimed /\ row[Subject(v)].status \notin Told
    BY <2>1 DEF ClaimInv, HolderInv
  <2>3. CASE v = w
    BY <2>2, <2>3, <1>0, <1>1
  <2>4. CASE v # w
    <3>1. Subject(v) # r.of
      BY <1>0, <2>1, <2>4 DEF ClaimInv, OneHolder
    <3>2. effects'[Subject(v)] = effects[Subject(v)] /\ run'[v] = run[v]
      BY <1>1, <2>1, <2>4, <3>1
    <3>. QED
      BY <2>1, <2>2, <3>2 DEF ClaimInv, HolderInv
  <2>. QED
    BY <2>3, <2>4
<1>5. RowInv'
  <2>1. row[r.of].claimed /\ row[r.of].status \notin Told
    BY <1>0 DEF ClaimInv, HolderInv
  <2>2. effects'[r.of] \in {0, 1}
    OBVIOUS
  <2>. QED
    BY <1>0, <2>1, <2>2 DEF ClaimInv, RowInv, Told
<1>. QED
  BY <1>3, <1>4, <1>5 DEF ClaimInv

LEMMA OwnerClaims ==
    ASSUME ClaimInv, Types, Owner
    PROVE  ClaimInv'
<1>1. UNCHANGED <<run, effects>>
  BY DEF Owner, Expire, Decide, AskBirth, Birth, AskSwitch, WriteSwitch,
         Revoke, Pause, Resume, RunOut, Extend, Alter
<1>2. CASE \E a \in Assignment : Expire(a) \/ \E v \in Decision : Decide(a, v)
  <2>1. PICK a \in Assignment, v \in Status \ Told : row' = [row EXCEPT ![a].status = v]
    BY <1>2, AskedAssumption DEF Expire, Decide, Status, Terminal, Told
  <2>. QED
    BY <1>1, <2>1, QuietClaims DEF Types, RowType
<1>3. CASE UNCHANGED row
  BY <1>1, <1>3, QuietClaims
<1>. QED
  BY <1>2, <1>3 DEF Owner, AskBirth, Birth, AskSwitch, WriteSwitch,
                    Revoke, Pause, Resume, RunOut, Extend, Alter

LEMMA PassClaims ==
    ASSUME ClaimInv, Types, Passes
    PROVE  ClaimInv'
<1>1. PICK a \in Assignment :
         AskVerdict(a) \/ WriteVerdict(a) \/ Reap(a) \/ Enqueue(a) \/ Forget(a)
  BY DEF Passes
<1>2. UNCHANGED <<run, effects>>
  BY <1>1 DEF AskVerdict, WriteVerdict, Reap, Enqueue, Forget
<1>3. CASE Reap(a)
  <2>1. row' = [row EXCEPT ![a].status = "FAILED"]
    BY <1>3 DEF Reap, OutcomeOfDead
  <2>. QED
    BY <1>2, <2>1, QuietClaims DEF Types, RowType, Told
<1>4. CASE WriteVerdict(a)
  <2>1. row' = [row EXCEPT ![a].verdict = judging[a]]
    BY <1>4 DEF WriteVerdict
  <2>. QED
    BY <1>2, <2>1, QuietClaims DEF Types, RowType
<1>5. CASE UNCHANGED row
  BY <1>2, <1>5, QuietClaims
<1>. QED
  BY <1>1, <1>3, <1>4, <1>5 DEF AskVerdict, Enqueue, Forget

LEMMA TakeClaims ==
    ASSUME ClaimInv, Types, NEW w \in Worker, NEW a \in Assignment, Take(w, a)
    PROVE  ClaimInv'
<1>1. UNCHANGED <<row, effects>>
  BY DEF Take
<1>2. CASE UNCHANGED run
  BY <1>1, <1>2, QuietClaims
<1>3. CASE ~UNCHANGED run
  <2>. DEFINE r == [NoRun EXCEPT !.at = "claim", !.of = a,
                          !.late = {d \in Delegation : right[d].expired},
                          !.lost = {d \in Delegation : right[d].revoked}]
  <2>1. run' = [run EXCEPT ![w] = r]
    BY <1>3 DEF Take
  <2>2. r.at = "claim"
    BY DEF NoRun
  <2>. HIDE DEF r
  <2>3. \A v \in Worker : Holds(v)' => Holds(v) /\ run'[v] = run[v]
    BY <2>1, <2>2 DEF Types, RunType, Holds, Holding
  <2>4. HolderInv'
    BY <1>1, <2>3 DEF ClaimInv, HolderInv, Subject
  <2>5. OneHolder'
    BY <2>3 DEF ClaimInv, OneHolder, Subject
  <2>6. RowInv'
    BY <1>1 DEF ClaimInv, RowInv
  <2>. QED
    BY <2>4, <2>5, <2>6 DEF ClaimInv
<1>. QED
  BY <1>2, <1>3

LEMMA ClaimClaims ==
    ASSUME ClaimInv, Types, NEW w \in Worker, Claim(w)
    PROVE  ClaimInv'
<1>. DEFINE a == Subject(w)
<1>0. a \in Assignment /\ run[w].at = "claim"
  BY RunTyped DEF Claim
<1>1. CASE row[a].claimed
  <2>1. run' = [run EXCEPT ![w] = NoRun] /\ UNCHANGED <<row, effects>>
    BY <1>1 DEF Claim, Return
  <2>2. RowInv'
    BY <2>1 DEF ClaimInv, RowInv
  <2>. QED
    BY <2>1, <2>2, EndClaims
<1>2. CASE ~row[a].claimed
  <2>. DEFINE r == [run[w] EXCEPT !.at = "ask"]
  <2>1. /\ run' = [run EXCEPT ![w].at = "ask"] /\ UNCHANGED effects
        /\ row' = [row EXCEPT ![a].claimed = TRUE]
    BY <1>2 DEF Claim, MoveOn
  <2>2. run[w] \in Runs
    BY DEF Types, RunType
  <2>3. run' = [run EXCEPT ![w] = r] /\ r.at = "ask" /\ r.of = a
    BY <2>1, <2>2 DEF Runs, RunRecord, Types, RunType, Subject
  <2>. HIDE DEF r
  <2>4. /\ \A v \in Worker : v # w => run'[v] = run[v]
        /\ run'[w] = r
    BY <2>3 DEF Types, RunType
  <2>5. \A v \in Worker : v # w /\ Holds(v) => Subject(v) \in Assignment \ {a}
    BY <1>2, RunTyped DEF ClaimInv, HolderInv, Holds, Holding
  <2>6. /\ row'[a].claimed
        /\ \A b \in Assignment : row'[b].status = row[b].status
        /\ \A b \in Assignment : b # a => (row'[b].claimed <=> row[b].claimed)
    BY <1>0, <2>1 DEF Types, RowType
  <2>7. HolderInv'
    <3>. SUFFICES ASSUME NEW v \in Worker, Holds(v)'
                  PROVE  /\ row'[run'[v].of].claimed /\ row'[run'[v].of].status \notin Told
                         /\ effects[run'[v].of] = IF run'[v].at = "done" THEN 1 ELSE 0
      BY <2>1 DEF HolderInv, Subject
    <3>1. CASE v = w
      <4>1. run'[v].of = a /\ run'[v].at = "ask"
        BY <2>3, <2>4, <3>1
      <4>2. row[a].status \notin Told /\ effects[a] = 0
        BY <1>0, <1>2 DEF ClaimInv, RowInv
      <4>. QED
        BY <1>0, <2>6, <4>1, <4>2, <2>1
    <3>2. CASE v # w
      <4>1. Holds(v) /\ run'[v] = run[v]
        BY <2>4, <3>2 DEF Holds
      <4>2. run[v].of \in Assignment /\ run[v].of # a
        BY <2>5, <3>2, <4>1 DEF Subject
      <4>3. /\ row[run[v].of].claimed /\ row[run[v].of].status \notin Told
            /\ effects[run[v].of] = IF run[v].at = "done" THEN 1 ELSE 0
        BY <4>1 DEF ClaimInv, HolderInv, Subject
      <4>. HIDE DEF a
      <4>. QED
        BY <2>6, <4>1, <4>2, <4>3
    <3>. QED
      BY <3>1, <3>2
  <2>8. OneHolder'
    <3>1. \A v \in Worker : v # w /\ Holds(v)' => Holds(v) /\ Subject(v)' = Subject(v)
      BY <2>4 DEF Holds, Subject
    <3>2. Subject(w)' = a
      BY <2>3, <2>4 DEF Subject
    <3>. QED
      BY <2>5, <3>1, <3>2 DEF ClaimInv, OneHolder
  <2>9. RowInv'
    BY <1>0, <2>1, <2>6 DEF ClaimInv, RowInv
  <2>. QED
    BY <2>7, <2>8, <2>9 DEF ClaimInv
<1>. QED
  BY <1>1, <1>2

\* Asking again, beginning the trace row and doing the work go on with the claim.
LEMMA GoOnClaims ==
    ASSUME ClaimInv, Types, NEW w \in Worker, AskAgain(w) \/ Begin(w) \/ Act(w)
    PROVE  ClaimInv'
<1>0. run[w] \in Runs /\ run \in [Worker -> Runs] /\ UNCHANGED row
  BY DEF Types, RunType, AskAgain, Begin, Act
<1>1. Holds(w) /\ Subject(w) \in Assignment
  BY RunTyped DEF AskAgain, Begin, Act, Holds, Holding
<1>2. effects[Subject(w)] = IF run[w].at = "done" THEN 1 ELSE 0
  BY <1>1 DEF ClaimInv, HolderInv
<1>3. CASE AskAgain(w)
  <2>1. PICK answer \in {"no"} \cup Delegation :
           run' = [run EXCEPT ![w] = [@ EXCEPT !.by = answer,
                                     !.at = IF answer = "no" THEN "lapse" ELSE "begin"]]
    BY <1>3 DEF AskAgain, Again, Answers
  <2>. DEFINE r == [run[w] EXCEPT !.by = answer,
                                  !.at = IF answer = "no" THEN "lapse" ELSE "begin"]
  <2>2. /\ run' = [run EXCEPT ![w] = r] /\ r.of = Subject(w)
        /\ r.at \in {"lapse", "begin"}
    BY <1>0, <2>1 DEF Runs, RunRecord, Subject
  <2>. HIDE DEF r
  <2>3. r \in Runs
    <3>1. r = run'[w]
      BY <1>0, <2>2
    <3>2. RunType'
      BY WorkTypes, <1>3 DEF Works, Types
    <3>. QED
      BY <3>1, <3>2 DEF RunType
  <2>4. effects' = effects /\ run[w].at = "ask"
    BY <1>3 DEF AskAgain
  <2>. QED
    BY <1>0, <1>1, <1>2, <2>2, <2>3, <2>4, StepClaims DEF Holding, Subject
<1>4. CASE Begin(w)
  <2>. DEFINE r == [run[w] EXCEPT !.at = "act", !.from = Len(trace)]
  <2>1. run' = [run EXCEPT ![w] = r] /\ r.of = Subject(w) /\ r.at = "act"
    BY <1>0, <1>4 DEF Begin, Runs, RunRecord, Subject
  <2>. HIDE DEF r
  <2>2. r \in Runs
    <3>1. r = run'[w]
      BY <1>0, <2>1
    <3>2. RunType'
      BY WorkTypes, <1>4 DEF Works, Types
    <3>. QED
      BY <3>1, <3>2 DEF RunType
  <2>3. effects' = effects /\ run[w].at = "begin"
    BY <1>4 DEF Begin
  <2>. QED
    BY <1>0, <1>1, <1>2, <2>1, <2>2, <2>3, StepClaims DEF Holding, Subject
<1>5. CASE Act(w)
  <2>. DEFINE r == [run[w] EXCEPT !.at = "done"]
  <2>1. run' = [run EXCEPT ![w] = r] /\ r.of = Subject(w) /\ r.at = "done"
    BY <1>0, <1>5 DEF Act, MoveOn, Runs, RunRecord, Subject
  <2>. HIDE DEF r
  <2>2. r \in Runs
    <3>1. r = run'[w]
      BY <1>0, <2>1
    <3>2. RunType'
      BY WorkTypes, <1>5 DEF Works, Types
    <3>. QED
      BY <3>1, <3>2 DEF RunType
  <2>3. effects[Subject(w)] = 0 /\ effects' = [effects EXCEPT ![Subject(w)] = @ + 1]
    BY <1>2, <1>5 DEF Act
  <2>4. /\ effects'[Subject(w)] = 1
        /\ \A a \in Assignment : a # Subject(w) => effects'[a] = effects[a]
    BY <1>1, <2>3 DEF Types, RestType
  <2>. QED
    BY <1>0, <1>1, <2>1, <2>2, <2>4, StepClaims DEF Holding, Subject
<1>. QED
  BY <1>3, <1>4, <1>5

\* The outcomes: lapsed before the work, executed after it, failed at any time.
LEMMA EndsClaims ==
    ASSUME ClaimInv, Types, NEW w \in Worker, Lapse(w) \/ Fail(w) \/ StoreExecuted(w)
    PROVE  ClaimInv'
<1>. DEFINE a == Subject(w)
<1>1. /\ run' = [run EXCEPT ![w] = NoRun] /\ UNCHANGED effects
      /\ Holds(w) /\ a \in Assignment
  BY RunTyped DEF Lapse, Fail, StoreExecuted, Return, Holds, Holding
<1>2. row[a].claimed /\ effects[a] = IF run[w].at = "done" THEN 1 ELSE 0
  BY <1>1 DEF ClaimInv, HolderInv
<1>3. /\ \A b \in Assignment : row'[b] = row[b] \/ b = a
      /\ row'[a].claimed
      /\ \/ row'[a].status = "LAPSED" /\ run[w].at = "lapse"
         \/ row'[a].status = "FAILED"
         \/ row'[a].status = "EXECUTED" /\ run[w].at = "done"
  <2>1. CASE Lapse(w)
    BY <1>1, <1>2, <2>1 DEF Lapse, Types, RowType
  <2>2. CASE Fail(w)
    BY <1>1, <1>2, <2>2 DEF Fail, Types, RowType
  <2>3. CASE StoreExecuted(w)
    <3>1. PICK link \in Latest(w) :
             row' = [row EXCEPT ![a] = [@ EXCEPT !.status = "EXECUTED", !.link = link]]
      BY <2>3 DEF StoreExecuted
    <3>. DEFINE r == [row[a] EXCEPT !.status = "EXECUTED", !.link = link]
    <3>2. row' = [row EXCEPT ![a] = r]
      BY <1>1, <3>1 DEF Types, RowType
    <3>3. r.status = "EXECUTED" /\ r.claimed = row[a].claimed
      BY <1>1 DEF Types, RowType
    <3>. HIDE DEF r
    <3>. QED
      BY <1>1, <1>2, <2>3, <3>2, <3>3 DEF StoreExecuted, Types, RowType
  <2>. QED
    BY <2>1, <2>2, <2>3
<1>4. RowInv'
  BY <1>1, <1>2, <1>3 DEF ClaimInv, RowInv, Told
<1>. QED
  BY <1>1, <1>3, <1>4, EndClaims

LEMMA FaultClaims ==
    ASSUME ClaimInv, Types, (\E w \in Worker : Die(w)) \/ (\E a \in Assignment : Stall(a))
    PROVE  ClaimInv'
<1>1. CASE \E a \in Assignment : Stall(a)
  BY <1>1, QuietClaims DEF Stall
<1>2. CASE \E w \in Worker : Die(w)
  <2>1. PICK w \in Worker : Die(w)
    BY <1>2
  <2>2. run' = [run EXCEPT ![w] = NoRun] /\ UNCHANGED <<row, effects>>
    BY <2>1 DEF Die
  <2>3. RowInv'
    BY <2>2 DEF ClaimInv, RowInv
  <2>. QED
    BY <2>2, <2>3, EndClaims
<1>. QED
  BY <1>1, <1>2

LEMMA NextClaims == ClaimInv /\ Types /\ [Next]_vars => ClaimInv'
<1>. SUFFICES ASSUME ClaimInv, Types, [Next]_vars
              PROVE  ClaimInv'
  OBVIOUS
<1>1. CASE Owner \/ Passes
  BY <1>1, OwnerClaims, PassClaims
<1>2. CASE \E w \in Worker : Works(w)
  BY <1>2, TakeClaims, ClaimClaims, GoOnClaims, EndsClaims DEF Works
<1>3. CASE (\E w \in Worker : Die(w)) \/ (\E a \in Assignment : Stall(a))
  BY <1>3, FaultClaims
<1>4. CASE UNCHANGED vars
  BY <1>4, QuietClaims DEF vars
<1>. QED
  BY <1>1, <1>2, <1>3, <1>4 DEF Next

LEMMA ClaimsHold == Spec => [](ClaimInv /\ Types)
  BY InitClaims, NextClaims, InitTypes, NextTypes, PTL DEF Spec

\* However often a job is handed out, and whoever stalls or dies, the tool does its
\* work for a proposal once at most.
THEOREM AgentOneEffect == Spec => []OneEffect
<1>1. ClaimInv /\ Types => OneEffect
  BY DEF ClaimInv, RowInv, OneEffect
<1>. QED
  BY <1>1, ClaimsHold, PTL

\* A proposal that is called executed was carried out, and one that has lapsed was not.
THEOREM AgentOutcomes == Spec => []OutcomeIsTrue
<1>1. ClaimInv /\ Types => OutcomeIsTrue
  BY DEF ClaimInv, RowInv, OutcomeIsTrue
<1>. QED
  BY <1>1, ClaimsHold, PTL

-----------------------------------------------------------------------------
(* The work on a proposal as a claimed effect. *)

\* A step that neither claims a proposal nor tells of it nor works on it.
LEMMA QuietWork ==
    ASSUME UNCHANGED effects,
           \A a \in Assignment : /\ row'[a].claimed = row[a].claimed
                                 /\ Said(row'[a].status) = Said(row[a].status)
    PROVE  UNCHANGED Work!vars
  BY DEF Work!vars

LEMMA OwnerWork ==
    ASSUME Types, Owner
    PROVE  UNCHANGED Work!vars
<1>1. ASSUME NEW a \in Assignment, Expire(a) \/ \E v \in Decision : Decide(a, v)
      PROVE  UNCHANGED Work!vars
  <2>1. PICK s \in {"EXPIRED"} \cup Decision :
           row' = [row EXCEPT ![a].status = s] /\ row[a].status = "AWAITING_APPROVAL"
    BY <1>1 DEF Expire, Decide
  <2>2. s \notin Told /\ UNCHANGED effects
    BY <1>1, AskedAssumption DEF Expire, Decide, Told
  <2>3. /\ row'[a].claimed = row[a].claimed /\ row'[a].status = s
        /\ \A b \in Assignment \ {a} : row'[b] = row[b]
    BY <2>1 DEF Types, RowType
  <2>. QED
    BY <2>1, <2>2, <2>3, QuietWork DEF Said, Told
<1>2. CASE UNCHANGED <<row, effects>>
  BY <1>2, QuietWork
<1>. QED
  BY <1>1, <1>2 DEF Owner, AskBirth, Birth, AskSwitch, WriteSwitch, Revoke, Pause, Resume, RunOut,
                    Extend, Alter

LEMMA PassWork ==
    ASSUME Types, Passes
    PROVE  UNCHANGED Work!vars
<1>1. ASSUME NEW a \in Assignment, WriteVerdict(a) PROVE UNCHANGED Work!vars
  <2>1. /\ row'[a].claimed = row[a].claimed /\ row'[a].status = row[a].status
        /\ \A b \in Assignment \ {a} : row'[b] = row[b]
    BY <1>1 DEF WriteVerdict, Types, RowType
  <2>. QED
    BY <1>1, <2>1, QuietWork DEF WriteVerdict
<1>2. ASSUME NEW a \in Assignment, Reap(a) PROVE UNCHANGED Work!vars
  <2>1. row[a].status \notin Terminal /\ row' = [row EXCEPT ![a].status = "FAILED"]
    BY <1>2 DEF Reap, Dead, OutcomeOfDead
  <2>2. /\ row'[a].claimed = row[a].claimed /\ row'[a].status = "FAILED"
        /\ \A b \in Assignment \ {a} : row'[b] = row[b]
    BY <2>1 DEF Types, RowType
  <2>. QED
    BY <1>2, <2>1, <2>2, QuietWork DEF Reap, Said, Terminal
<1>3. CASE UNCHANGED <<row, effects>>
  BY <1>3, QuietWork
<1>. QED
  BY <1>1, <1>2, <1>3 DEF Passes, AskVerdict, Enqueue, Forget

\* Who claims is the first to, and nobody has told of the proposal.
LEMMA ClaimWork ==
    ASSUME ClaimInv, Types, NEW w \in Worker, Claim(w)
    PROVE  Work!Next \/ UNCHANGED Work!vars
<1>1. PICK a \in Assignment : a = Subject(w)
  BY RunTyped DEF Claim
<1>2. CASE row[a].claimed
  BY <1>1, <1>2, QuietWork DEF Claim
<1>3. CASE ~row[a].claimed
  <2>1. row' = [row EXCEPT ![a].claimed = TRUE] /\ effects[a] = 0 /\ UNCHANGED effects
    BY <1>1, <1>3 DEF Claim, ClaimInv, RowInv
  <2>2. /\ row'[a].claimed /\ row'[a].status = row[a].status
        /\ \A b \in Assignment \ {a} : row'[b] = row[b]
    BY <2>1 DEF Types, RowType
  <2>. QED
    BY <1>3, <2>1, <2>2 DEF Work!Claim, Work!Next
<1>. QED
  BY <1>2, <1>3

\* Only who has claimed the proposal works, before anything is told of it.
LEMMA ActWork ==
    ASSUME ClaimInv, Types, NEW w \in Worker, Act(w)
    PROVE  Work!Next
<1>1. PICK a \in Assignment : a = Subject(w)
  BY RunTyped DEF Act
<1>2. row[a].claimed /\ row[a].status \notin Told /\ effects[a] = 0
  BY <1>1 DEF ClaimInv, HolderInv, Act, Holds, Holding
<1>3. effects' = [effects EXCEPT ![a] = 1] /\ UNCHANGED row
  BY <1>1, <1>2 DEF Act, Types, RestType
<1>. QED
  BY <1>2, <1>3 DEF Work!Happen, Work!Next, Said, Told

LEMMA ToldWork ==
    ASSUME NEW a \in Assignment, row[a].claimed, row[a].status \notin Told, UNCHANGED effects,
           Said(row'[a].status) = IF effects[a] = 1 THEN "happened" ELSE "did not",
           row'[a].claimed = row[a].claimed, \A b \in Assignment \ {a} : row'[b] = row[b]
    PROVE  Work!Next
<1>1. \A b \in Assignment : row'[b].claimed = row[b].claimed
  OBVIOUS
<1>2. [b \in Assignment |-> Said(row'[b].status)] =
        [[b \in Assignment |-> Said(row[b].status)] EXCEPT
            ![a] = IF effects[a] = 1 THEN "happened" ELSE "did not"]
  OBVIOUS
<1>3. Said(row[a].status) = "nothing"
  BY DEF Said, Told
<1>4. Work!Tell(a)
  BY <1>1, <1>2, <1>3 DEF Work!Tell
<1>. QED
  BY <1>4 DEF Work!Next

\* An outcome tells what is so, or nothing: FAILED may come before the work or after.
LEMMA EndWork ==
    ASSUME ClaimInv, Types, NEW w \in Worker, Lapse(w) \/ Fail(w) \/ StoreExecuted(w)
    PROVE  Work!Next \/ UNCHANGED Work!vars
<1>1. PICK a \in Assignment : a = Subject(w)
  BY RunTyped DEF Lapse, Fail, StoreExecuted
<1>2. Holds(w) /\ UNCHANGED effects
  BY DEF Lapse, Fail, StoreExecuted, Holds, Holding
<1>3. /\ row[a].claimed /\ row[a].status \notin Told
      /\ effects[a] = IF run[w].at = "done" THEN 1 ELSE 0
  BY <1>1, <1>2 DEF ClaimInv, HolderInv
<1>4. CASE Fail(w)
  <2>1. /\ row'[a].claimed = row[a].claimed /\ row'[a].status = "FAILED"
        /\ \A b \in Assignment \ {a} : row'[b] = row[b]
    BY <1>1, <1>4 DEF Fail, Types, RowType
  <2>. QED
    BY <1>2, <1>3, <2>1, QuietWork DEF Said, Told
<1>5. CASE Lapse(w)
  <2>1. /\ row'[a].claimed = row[a].claimed /\ row'[a].status = "LAPSED"
        /\ \A b \in Assignment \ {a} : row'[b] = row[b]
    BY <1>1, <1>5 DEF Lapse, Types, RowType
  <2>2. Said(row'[a].status) = IF effects[a] = 1 THEN "happened" ELSE "did not"
    BY <1>3, <1>5, <2>1 DEF Lapse, Said
  <2>. QED
    BY <1>2, <1>3, <2>1, <2>2, ToldWork
<1>6. CASE StoreExecuted(w)
  <2>1. PICK link \in Latest(w) :
           row' = [row EXCEPT ![a] = [@ EXCEPT !.status = "EXECUTED", !.link = link]]
    BY <1>1, <1>6 DEF StoreExecuted
  <2>2. /\ row'[a].claimed = row[a].claimed /\ row'[a].status = "EXECUTED"
        /\ \A b \in Assignment \ {a} : row'[b] = row[b]
    BY <2>1 DEF Types, RowType
  <2>3. Said(row'[a].status) = IF effects[a] = 1 THEN "happened" ELSE "did not"
    BY <1>3, <1>6, <2>2 DEF StoreExecuted, Said
  <2>. QED
    BY <1>2, <1>3, <2>2, <2>3, ToldWork
<1>. QED
  BY <1>4, <1>5, <1>6

\* The claim, the work and the outcomes of a proposal implement a claimed effect: each
\* step of people, sweeps, workers and the queue claims, works, tells or does none.
THEOREM AgentImplements == Spec => WorkIsClaimed
<1>1. Init => Work!Init
  BY DEF Init, Work!Init, Said
<1>2. ClaimInv /\ Types /\ [Next]_vars => [Work!Next]_(Work!vars)
  <2>. SUFFICES ASSUME ClaimInv, Types, [Next]_vars PROVE Work!Next \/ UNCHANGED Work!vars
    OBVIOUS
  <2>1. CASE UNCHANGED <<row, effects>>
    BY <2>1, QuietWork
  <2>2. CASE Owner \/ Passes
    BY <2>2, OwnerWork, PassWork
  <2>3. ASSUME NEW w \in Worker, Works(w) PROVE Work!Next \/ UNCHANGED Work!vars
    <3>1. CASE Claim(w)
      BY <3>1, ClaimWork
    <3>2. CASE Act(w)
      BY <3>2, ActWork
    <3>3. CASE Lapse(w) \/ Fail(w) \/ StoreExecuted(w)
      BY <3>3, EndWork
    <3>4. CASE AskAgain(w) \/ Begin(w) \/ \E a \in Assignment : Take(w, a)
      BY <2>1, <3>4 DEF AskAgain, Begin, Take
    <3>. QED
      BY <2>3, <3>1, <3>2, <3>3, <3>4 DEF Works
  <2>4. CASE (\E w \in Worker : Die(w)) \/ (\E a \in Assignment : Stall(a))
    BY <2>1, <2>4 DEF Die, Stall
  <2>5. CASE UNCHANGED vars
    BY <2>1, <2>5 DEF vars
  <2>. QED
    BY <2>2, <2>3, <2>4, <2>5 DEF Next
<1>. QED
  BY <1>1, <1>2, ClaimsHold, PTL DEF Spec, WorkIsClaimed, Work!Spec

-----------------------------------------------------------------------------
(* The right a run works by. *)

\* What a run found gone when it began: a revocation is for good, and a date that
\* had passed comes back by an extension only.
GoneInv ==
    \A w \in Worker : /\ \A d \in run[w].lost : right[d].revoked
                      /\ \A d \in run[w].late : right[d].expired \/ right[d].extended
Chosen(w) == run[w].at \in {"begin", "act", "done"}
ByInv ==
    \A w \in Worker : Chosen(w) => /\ run[w].by \notin run[w].lost
                                   /\ run[w].by \in run[w].late => right[run[w].by].extended
RightInv == GoneInv /\ ByInv

LEMMA InitRights == Init => RightInv
  BY DEF Init, RightInv, GoneInv, ByInv, Chosen, NoRun

\* The owner revokes and extends for good.
LEMMA LastingRights ==
    ASSUME Types, [Next]_vars, NEW d \in Delegation
    PROVE  /\ right[d].revoked => right'[d].revoked
           /\ right[d].extended => right'[d].extended
           /\ right[d].expired => right'[d].expired \/ right'[d].extended
<1>1. CASE Owner
  <2>1. CASE \E q \in Request, e \in Delegation : Birth(q, e)
    BY <2>1 DEF Birth, Types, RightType
  <2>2. CASE \E q \in Request, dto \in Dto : AskSwitch(q, dto[1], dto[2])
    <3>1. CASE right' = PauseAll
      <4>1. right'[d] = IF Active(d) THEN [right[d] EXCEPT !.paused = "switch"] ELSE right[d]
        BY <3>1 DEF PauseAll
      <4>2. [right[d] EXCEPT !.paused = "switch"].revoked = right[d].revoked
        BY DEF Types, RightType
      <4>3. [right[d] EXCEPT !.paused = "switch"].extended = right[d].extended
        BY DEF Types, RightType
      <4>4. [right[d] EXCEPT !.paused = "switch"].expired = right[d].expired
        BY DEF Types, RightType
      <4>. QED
        BY <4>1, <4>2, <4>3, <4>4
    <3>2. CASE UNCHANGED right
      BY <3>2
    <3>. QED
      BY <2>2, <3>1, <3>2 DEF AskSwitch
  <2>3. CASE \E e \in Delegation : Revoke(e) \/ Pause(e) \/ Resume(e) \/ RunOut(e) \/ Extend(e)
    <3>1. PICK e \in Delegation :
             Revoke(e) \/ Pause(e) \/ Resume(e) \/ RunOut(e) \/ Extend(e)
      BY <2>3
    <3>2. right \in RightType /\ right[d] \in [born : {"none", "older"} \cup Assignment,
             revoked : BOOLEAN, expired : BOOLEAN, extended : BOOLEAN,
             paused : {"no", "owner", "switch"}]
      BY DEF Types, RightType
    <3>3. CASE d # e
      <4>1. right'[d] = right[d]
        BY <3>1, <3>2, <3>3 DEF Revoke, Pause, Resume, RunOut, Extend, Alter, RightType
      <4>. QED
        BY <4>1
    <3>4. CASE d = e /\ Revoke(d)
      <4>1. right'[d] = [right[d] EXCEPT !.revoked = TRUE]
        BY <3>2, <3>4 DEF Revoke, Alter, RightType
      <4>. QED
        BY <3>2, <4>1
    <3>5. CASE d = e /\ (Pause(d) \/ Resume(d))
      <4>1. PICK p \in {"owner", "no"} : right'[d] = [right[d] EXCEPT !.paused = p]
        BY <3>2, <3>5 DEF Pause, Resume, Alter, RightType
      <4>. QED
        BY <3>2, <4>1
    <3>6. CASE d = e /\ RunOut(d)
      <4>1. right'[d] = [right[d] EXCEPT !.expired = TRUE]
        BY <3>2, <3>6 DEF RunOut, Alter, RightType
      <4>. QED
        BY <3>2, <4>1
    <3>7. CASE d = e /\ Extend(d)
      <4>1. right'[d] = [right[d] EXCEPT !.expired = FALSE, !.extended = TRUE]
        BY <3>2, <3>7 DEF Extend, Alter, RightType
      <4>. QED
        BY <3>2, <4>1
    <3>. QED
      BY <3>1, <3>3, <3>4, <3>5, <3>6, <3>7
  <2>4. CASE UNCHANGED right
    BY <2>4
  <2>. QED
    BY <1>1, <2>1, <2>2, <2>3, <2>4 DEF Owner, Expire, Decide, AskBirth, WriteSwitch
<1>2. CASE UNCHANGED right
  BY <1>2
<1>3. ASSUME ~Owner
      PROVE  UNCHANGED right
  BY <1>3 DEF Next, vars, Passes, Works, Die, Stall, AskVerdict, WriteVerdict, Reap, Enqueue,
              Forget, Take, Claim, AskAgain, Lapse, Begin, Act, StoreExecuted, Fail
<1>. QED
  BY <1>1, <1>2, <1>3

\* What one worker finds when it takes a job, and which right it is given.
Fresh(r) == /\ r.at = "claim"
            /\ \A d \in r.lost : right[d].revoked
            /\ \A d \in r.late : right[d].expired

LEMMA TakeRights ==
    ASSUME Types, NEW w \in Worker, NEW a \in Assignment, Take(w, a), run' # run
    PROVE  \E r \in Runs : run' = [run EXCEPT ![w] = r] /\ Fresh(r)
<1>. DEFINE r == [NoRun EXCEPT !.at = "claim", !.of = a,
                        !.late = {d \in Delegation : right[d].expired},
                        !.lost = {d \in Delegation : right[d].revoked}]
<1>1. run' = [run EXCEPT ![w] = r]
  BY DEF Take
<1>2. r \in Runs /\ r.at = "claim"
  BY DEF NoRun, Runs, RunRecord, Place
<1>3. Fresh(r)
  BY DEF NoRun, Fresh
<1>. HIDE DEF r
<1>. QED
  BY <1>1, <1>2, <1>3

LEMMA WorkRights ==
    ASSUME Types, RightInv, NEW w \in Worker, Works(w)
    PROVE  RightInv'
<1>0. UNCHANGED right
  BY DEF Works, Take, Claim, AskAgain, Lapse, Begin, Act, StoreExecuted, Fail
<1>1. run \in [Worker -> Runs] /\ run[w] \in Runs
  BY DEF Types, RunType
<1>2. CASE \E a \in Assignment : Take(w, a)
  <2>1. CASE UNCHANGED run
    BY <1>0, <2>1 DEF RightInv, GoneInv, ByInv, Chosen
  <2>2. CASE run' # run
    <3>1. PICK a \in Assignment : Take(w, a)
      BY <1>2
    <3>2. PICK r \in Runs : run' = [run EXCEPT ![w] = r] /\ Fresh(r)
      BY <2>2, <3>1, TakeRights
    <3>. QED
      BY <1>0, <1>1, <3>2 DEF RightInv, GoneInv, ByInv, Chosen, Fresh
  <2>. QED
    BY <2>1, <2>2
<1>3. CASE AskAgain(w)
  <2>1. PICK answer \in Again(w) :
           run' = [run EXCEPT ![w] = [@ EXCEPT !.by = answer,
                                     !.at = IF answer = "no" THEN "lapse" ELSE "begin"]]
    BY <1>3 DEF AskAgain
  <2>. DEFINE r == [run[w] EXCEPT !.by = answer,
                                  !.at = IF answer = "no" THEN "lapse" ELSE "begin"]
  <2>2. run' = [run EXCEPT ![w] = r]
    BY <1>1, <2>1
  <2>3. /\ r.lost = run[w].lost /\ r.late = run[w].late /\ r.by = answer
        /\ answer = "no" => r.at = "lapse"
    BY <1>1 DEF Runs, RunRecord
  <2>4. answer # "no" => Bears(answer, run[w].late) /\ answer \in Delegation
    BY DEF Again, Answers
  <2>5. answer # "no" => /\ answer \notin run[w].lost
                         /\ answer \in run[w].late => right[answer].extended
    BY <2>4 DEF Bears, RightInv, GoneInv
  <2>. HIDE DEF r
  <2>. QED
    BY <1>0, <1>1, <2>2, <2>3, <2>5 DEF RightInv, GoneInv, ByInv, Chosen
<1>4. CASE Begin(w) \/ Act(w) \/ (Claim(w) /\ ~row[Subject(w)].claimed)
  <2>1. PICK r \in Runs : /\ run' = [run EXCEPT ![w] = r]
                          /\ r.lost = run[w].lost /\ r.late = run[w].late /\ r.by = run[w].by
                          /\ r.at \in {"begin", "act", "done"} => Chosen(w)
    <3>1. CASE Begin(w)
      <4>. DEFINE r == [run[w] EXCEPT !.at = "act", !.from = Len(trace)]
      <4>1. run' = [run EXCEPT ![w] = r] /\ Chosen(w)
        BY <1>1, <3>1 DEF Begin, Chosen
      <4>2. r.lost = run[w].lost /\ r.late = run[w].late /\ r.by = run[w].by
        BY <1>1 DEF Runs, RunRecord
      <4>3. r \in Runs
        <5>1. RunType'
          BY WorkTypes DEF Types
        <5>. HIDE DEF r
        <5>. QED
          BY <1>1, <4>1, <5>1 DEF RunType
      <4>. QED
        BY <4>1, <4>2, <4>3
    <3>2. CASE Act(w)
      <4>. DEFINE r == [run[w] EXCEPT !.at = "done"]
      <4>1. run' = [run EXCEPT ![w] = r] /\ Chosen(w)
        BY <1>1, <3>2 DEF Act, MoveOn, Chosen
      <4>2. r.lost = run[w].lost /\ r.late = run[w].late /\ r.by = run[w].by
        BY <1>1 DEF Runs, RunRecord
      <4>3. r \in Runs
        <5>1. RunType'
          BY WorkTypes DEF Types
        <5>. HIDE DEF r
        <5>. QED
          BY <1>1, <4>1, <5>1 DEF RunType
      <4>. QED
        BY <4>1, <4>2, <4>3
    <3>3. CASE Claim(w) /\ ~row[Subject(w)].claimed
      <4>. DEFINE r == [run[w] EXCEPT !.at = "ask"]
      <4>1. run' = [run EXCEPT ![w] = r]
        BY <1>1, <3>3 DEF Claim, MoveOn
      <4>2. r.at = "ask" /\ r.lost = run[w].lost /\ r.late = run[w].late /\ r.by = run[w].by
        BY <1>1 DEF Runs, RunRecord
      <4>3. r \in Runs
        <5>1. RunType'
          BY WorkTypes DEF Types
        <5>. HIDE DEF r
        <5>. QED
          BY <1>1, <4>1, <5>1 DEF RunType
      <4>. QED
        BY <4>1, <4>2, <4>3
    <3>. QED
      BY <1>4, <3>1, <3>2, <3>3
  <2>. QED
    BY <1>0, <1>1, <2>1 DEF RightInv, GoneInv, ByInv, Chosen
<1>5. CASE run' = [run EXCEPT ![w] = NoRun]
  BY <1>0, <1>1, <1>5 DEF RightInv, GoneInv, ByInv, Chosen, NoRun
<1>. QED
  BY <1>2, <1>3, <1>4, <1>5 DEF Works, Claim, Lapse, Fail, StoreExecuted, Return

LEMMA NextRights == RightInv /\ Types /\ [Next]_vars => RightInv'
<1>. SUFFICES ASSUME RightInv, Types, [Next]_vars
              PROVE  RightInv'
  OBVIOUS
<1>1. CASE \E w \in Worker : Works(w)
  BY <1>1, WorkRights
<1>2. run \in [Worker -> Runs] /\ \A w \in Worker :
         run[w].late \subseteq Delegation /\ run[w].lost \subseteq Delegation
         /\ (Chosen(w) => run[w].by \in Delegation)
  BY DEF Types, RunType, Runs, RunRecord, Chosen
<1>3. CASE UNCHANGED run
  BY <1>2, <1>3, LastingRights DEF RightInv, GoneInv, ByInv, Chosen
<1>4. CASE \E w \in Worker : Die(w)
  <2>1. PICK w \in Worker : run' = [run EXCEPT ![w] = NoRun] /\ UNCHANGED right
    BY <1>4 DEF Die
  <2>. QED
    BY <1>2, <2>1 DEF RightInv, GoneInv, ByInv, Chosen, NoRun
<1>. QED
  BY <1>1, <1>3, <1>4 DEF Next, vars, Owner, Passes, Stall, AskVerdict, WriteVerdict, Reap,
         Enqueue, Forget, Expire, Decide, AskBirth, Birth, AskSwitch, WriteSwitch,
         Revoke, Pause, Resume, RunOut, Extend, Alter

\* No work is done by a right that was revoked, or had run out and was not extended,
\* when the run began - whatever the dry run had said.
THEOREM AgentRight == Spec => RightNotGone
<1>1. RightInv /\ Types /\ [Next]_vars =>
        [\A w \in Worker : Act(w) =>
            /\ run[w].by \notin run[w].lost
            /\ run[w].by \in run[w].late => right[run[w].by].extended]_vars
  BY DEF Act, RightInv, ByInv, Chosen
<1>2. Spec => [](RightInv /\ Types)
  BY InitRights, NextRights, InitTypes, NextTypes, PTL DEF Spec
<1>. QED
  BY <1>1, <1>2, PTL DEF Spec, RightNotGone
=============================================================================
