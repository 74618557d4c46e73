--------------------------- MODULE AgentExecution ---------------------------
(***************************************************************************)
(* How a proposal of the shadow agent is carried out without a human's yes *)
(* at that moment. A person decides on the proposal, or its deadline       *)
(* passes; the owner makes an approved one into a delegation, a standing   *)
(* right, which can be paused, revoked, extended and can run out; a dry    *)
(* run judges every proposal against the delegations (bedöm); and where    *)
(* the owner has switched execution on, a sweep queues what was judged     *)
(* favourably and a worker carries it out (utför).                         *)
(*                                                                         *)
(* The organisation is one, its proposals are for one tool and one type,   *)
(* a tool that may run unattended and whose trace row is committed before  *)
(* the effect. The queue is a Bull queue: a job of a dead or stalled       *)
(* worker is handed out again, and adding a job under an id the queue      *)
(* remembers does nothing.                                                 *)
(***************************************************************************)
EXTENDS Naturals, Sequences, FiniteSets

CONSTANTS
    Assignment, \* the proposals
    Delegation, \* the delegations there can be
    Covers,     \* <<d, a>>: the condition of delegation d matches proposal a
    Cap,        \* Frekvensvillkor.maxAntal; its period outlasts the run
    Older,      \* delegations there are already, born of older proposals
    Earlier,    \* older approvals of the same tool and type
    Request,    \* requests of the owner that are handled at the same time
    Worker,     \* replicas, each with one worker on the queue
    Decision,   \* what the people of the instance decide on proposals
    Dto,        \* the changes of the two switches that are asked for
    Changes,    \* bound on what the owner takes away: switches off, pauses, revokes
    Faults      \* bound on stalls and deaths of workers

ASSUME NameAssumption  ==
    {"none", "no", "waiting", "kept"} \cap (Assignment \cup Delegation \cup Worker) = {}
ASSUME BoundAssumption ==
    Cap \in Nat /\ Earlier \in Nat /\ Changes \in Nat /\ Faults \in Nat
ASSUME CoversAssumption == Covers \subseteq Delegation \X Assignment

Switch == {"keep", "on", "off"}
ASSUME AskedAssumption  ==
    Decision \subseteq {"APPROVED", "REJECTED"} /\ Dto \subseteq Switch \X Switch

VARIABLES
    org,        \* shadowAgentEnabled and agentExecutionEnabled
    row,        \* AiAssignment
    right,      \* AiDelegation with what its events add up to
    request,    \* the owner's requests between their reads and their write
    judging,    \* the dry run of a proposal: its answer before it is written
    job,        \* the job of a proposal: where it is, or the worker on it
    run,        \* utför in each worker
    trace,      \* AiToolExecution rows in the order they were begun
    effects,    \* how often the tool has done its work for a proposal
    changes, faults

vars == <<org, row, right, request, judging, job, run, trace, effects, changes, faults>>

Terminal == {"EXECUTED", "FAILED", "LAPSED"}
Status   == {"AWAITING_APPROVAL", "APPROVED", "REJECTED", "EXPIRED"} \cup Terminal
Place    == {"idle", "claim", "ask", "lapse", "begin", "act", "done"}
NoRun     == [at |-> "idle", of |-> "none", by |-> "none", late |-> {}, lost |-> {}, from |-> 0]
NoRequest == [kind |-> "none", of |-> "none", shadow |-> "keep", exec |-> "keep"]
Unborn    == [born |-> "none", revoked |-> FALSE, expired |-> FALSE, extended |-> FALSE,
              paused |-> "no"]

Init ==
    /\ org \in [shadow : {TRUE}, exec : BOOLEAN]
    /\ row = [a \in Assignment |->
                [status |-> "AWAITING_APPROVAL", verdict |-> "none", claimed |-> FALSE,
                 link |-> "none"]]
    /\ right = [d \in Delegation |-> [Unborn EXCEPT !.born = IF d \in Older THEN "older" ELSE "none"]]
    /\ request = [q \in Request |-> NoRequest]
    /\ judging = [a \in Assignment |-> "none"]
    /\ job = [a \in Assignment |-> "none"]
    /\ run = [w \in Worker |-> NoRun]
    /\ trace = <<>> /\ effects = [a \in Assignment |-> 0]
    /\ changes = 0 /\ faults = 0

-----------------------------------------------------------------------------
(* The gate. *)

\* beräknaStatus: revoked wins, then the clock, then the last pause. The clock
\* is that of the caller's start: late is what had run out by then.
Bears(d, late) ==
    /\ right[d].born # "none"
    /\ ~right[d].revoked
    /\ ~(right[d].expired /\ d \in late)
    /\ right[d].paused = "no"
Active(d) == Bears(d, Delegation)

\* förbrukatAntal
Used(d) == Len(SelectSeq(trace, LAMBDA t : t.by = d))
           + Cardinality({a \in Assignment : row[a].verdict = d})

\* assertDelegated: any delegation that bears the case and has room, or no.
Answers(a, late) ==
    LET able == {d \in Delegation : Bears(d, late) /\ <<d, a>> \in Covers /\ Used(d) < Cap}
    IN  IF able = {} THEN {"no"} ELSE able

-----------------------------------------------------------------------------
(* The people. *)

Decide(a, verdict) ==
    /\ row[a].status = "AWAITING_APPROVAL"
    /\ row' = [row EXCEPT ![a].status = verdict]
    /\ UNCHANGED <<org, right, request, judging, job, run, trace, effects, changes, faults>>

\* The deadline passes; the row and a notice say that nothing was carried out.
Expire(a) ==
    /\ row[a].status = "AWAITING_APPROVAL"
    /\ row' = [row EXCEPT ![a].status = "EXPIRED"]
    /\ UNCHANGED <<org, right, request, judging, job, run, trace, effects, changes, faults>>

Approvals(a) == Earlier + Cardinality({b \in Assignment \ {a} : row[b].status = "APPROVED"})

AskBirth(q, a) ==
    /\ request[q] = NoRequest
    /\ row[a].status = "APPROVED"
    /\ \A d \in Delegation : right[d].born # a
    /\ Approvals(a) >= 1
    /\ request' = [request EXCEPT ![q] = [NoRequest EXCEPT !.kind = "birth", !.of = a]]
    /\ UNCHANGED <<org, row, right, judging, job, run, trace, effects, changes, faults>>

Birth(q, d) ==
    /\ request[q].kind = "birth"
    /\ right[d].born = "none" /\ <<d, request[q].of>> \in Covers
    /\ right' = [right EXCEPT ![d].born = request[q].of]
    /\ request' = [request EXCEPT ![q] = NoRequest]
    /\ UNCHANGED <<org, row, judging, job, run, trace, effects, changes, faults>>

Spend == changes < Changes /\ changes' = changes + 1

ShadowAfter(s) == IF s = "keep" THEN org.shadow ELSE s = "on"
TurnsOff(s)    == s = "off" /\ org.shadow

\* pausaAlla
PauseAll == [d \in Delegation |->
                IF Active(d) THEN [right[d] EXCEPT !.paused = "switch"] ELSE right[d]]

AskSwitch(q, s, e) ==
    /\ request[q] = NoRequest
    /\ e = "on" => ShadowAfter(s)
    /\ request' = [request EXCEPT ![q] =
          [kind |-> "switch", of |-> "none", shadow |-> s,
           exec |-> IF TurnsOff(s) THEN "off" ELSE e]]
    /\ right' = IF TurnsOff(s) /\ org.exec THEN PauseAll ELSE right
    /\ IF "off" \in {s, e} THEN Spend ELSE UNCHANGED changes
    /\ UNCHANGED <<org, row, judging, job, run, trace, effects, faults>>

WriteSwitch(q) ==
    /\ request[q].kind = "switch"
    /\ org' = [shadow |-> ShadowAfter(request[q].shadow),
               exec   |-> IF request[q].exec = "keep" THEN org.exec
                                                      ELSE request[q].exec = "on"]
    /\ request' = [request EXCEPT ![q] = NoRequest]
    /\ UNCHANGED <<row, right, judging, job, run, trace, effects, changes, faults>>

Alter(d, new) ==
    /\ right[d].born # "none" /\ ~right[d].revoked
    /\ right' = [right EXCEPT ![d] = new]
    /\ UNCHANGED <<org, row, request, judging, job, run, trace, effects, faults>>

Revoke(d) == Spend /\ Alter(d, [right[d] EXCEPT !.revoked = TRUE])
Pause(d)  == Active(d) /\ Spend /\ Alter(d, [right[d] EXCEPT !.paused = "owner"])
Resume(d) == /\ right[d].paused # "no" /\ ~right[d].expired
             /\ Alter(d, [right[d] EXCEPT !.paused = "no"]) /\ UNCHANGED changes

\* An extension lasts longer than the run, and is given once in 30 days.
RunOut(d) == /\ ~right[d].expired /\ ~right[d].extended
             /\ Spend /\ Alter(d, [right[d] EXCEPT !.expired = TRUE])
Extend(d) == /\ ~right[d].extended
             /\ Alter(d, [right[d] EXCEPT !.expired = FALSE, !.extended = TRUE])
             /\ UNCHANGED changes

-----------------------------------------------------------------------------
(* The dry run and the sweep. *)

AskVerdict(a) ==
    /\ row[a].verdict = "none" /\ judging[a] = "none"
    /\ \E answer \in Answers(a, Delegation) : judging' = [judging EXCEPT ![a] = answer]
    /\ UNCHANGED <<org, row, right, request, job, run, trace, effects, changes, faults>>

WriteVerdict(a) ==
    /\ judging[a] # "none"
    /\ row' = [row EXCEPT ![a].verdict = judging[a]]
    /\ judging' = [judging EXCEPT ![a] = "none"]
    /\ UNCHANGED <<org, right, request, job, run, trace, effects, changes, faults>>

\* Mutant: only organisations with execution switched on are swept.
Dead_SwitchedOn(a) ==
    org.shadow /\ org.exec /\ row[a].claimed /\ row[a].status \notin Terminal

\* A claim without outcome that has stood for DOTT_ANSPRAK_MS; a run may be slower.
Dead(a) == row[a].claimed /\ row[a].status \notin Terminal

\* Mutant: a dead claim is closed as if nothing had been carried out.
OutcomeOfDead_Lapsed == "LAPSED"

OutcomeOfDead == "FAILED"

\* stängDöda, whether or not execution is switched on.
Reap(a) ==
    /\ Dead(a)
    /\ row' = [row EXCEPT ![a].status = OutcomeOfDead]
    /\ UNCHANGED <<org, right, request, judging, job, run, trace, effects, changes, faults>>

Enqueue(a) ==
    /\ org.shadow /\ org.exec
    /\ row[a].verdict \in Delegation /\ ~row[a].claimed
    /\ row[a].status \notin Terminal
    /\ job[a] = "none"
    /\ job' = [job EXCEPT ![a] = "waiting"]
    /\ UNCHANGED <<org, row, right, request, judging, run, trace, effects, changes, faults>>

\* removeOnComplete, removeOnFail
Forget(a) ==
    /\ job[a] = "kept"
    /\ job' = [job EXCEPT ![a] = "none"]
    /\ UNCHANGED <<org, row, right, request, judging, run, trace, effects, changes, faults>>

-----------------------------------------------------------------------------
(* The worker. *)

Subject(w) == run[w].of
MoveOn(w, place) == run' = [run EXCEPT ![w].at = place] /\ UNCHANGED job

\* The run is over; the job is its worker's to finish unless it was handed on.
Return(w) ==
    /\ run' = [run EXCEPT ![w] = NoRun]
    /\ job' = [a \in Assignment |-> IF job[a] = w THEN "kept" ELSE job[a]]

\* The switches, the verdict and the status are read; nothing is written.
Take(w, a) ==
    /\ run[w].at = "idle" /\ job[a] = "waiting"
    /\ IF org.shadow /\ org.exec /\ row[a].verdict \in Delegation
                                /\ row[a].status \notin Terminal
         THEN /\ run' = [run EXCEPT ![w] = [NoRun EXCEPT !.at = "claim", !.of = a,
                              !.late = {d \in Delegation : right[d].expired},
                              !.lost = {d \in Delegation : right[d].revoked}]]
              /\ job' = [job EXCEPT ![a] = w]
         ELSE job' = [job EXCEPT ![a] = "kept"] /\ UNCHANGED run
    /\ UNCHANGED <<org, row, right, request, judging, trace, effects, changes, faults>>

\* Mutant: the claim is written without the condition that nobody has made it.
Claim_Unconditional(w) ==
    /\ run[w].at = "claim"
    /\ row' = [row EXCEPT ![Subject(w)].claimed = TRUE]
    /\ MoveOn(w, "ask")
    /\ UNCHANGED <<org, right, request, judging, trace, effects, changes, faults>>

Claim(w) ==
    /\ run[w].at = "claim"
    /\ IF row[Subject(w)].claimed
         THEN Return(w) /\ UNCHANGED row
         ELSE /\ row' = [row EXCEPT ![Subject(w)].claimed = TRUE]
              /\ MoveOn(w, "ask")
    /\ UNCHANGED <<org, right, request, judging, trace, effects, changes, faults>>

\* Mutant: the right the verdict named is taken, without asking again.
Again_ByVerdict(w) == {row[Subject(w)].verdict}

\* assertDelegated with the clock of the start of the run.
Again(w) == Answers(Subject(w), run[w].late)

AskAgain(w) ==
    /\ run[w].at = "ask"
    /\ \E answer \in Again(w) :
          run' = [run EXCEPT ![w] = [@ EXCEPT !.by = answer,
                                     !.at = IF answer = "no" THEN "lapse" ELSE "begin"]]
    /\ UNCHANGED <<org, row, right, request, judging, job, trace, effects, changes, faults>>

Lapse(w) ==
    /\ run[w].at = "lapse"
    /\ row' = [row EXCEPT ![Subject(w)].status = "LAPSED"]
    /\ Return(w)
    /\ UNCHANGED <<org, right, request, judging, trace, effects, changes, faults>>

Begin(w) ==
    /\ run[w].at = "begin"
    /\ trace' = Append(trace, [of |-> Subject(w), by |-> run[w].by])
    /\ run' = [run EXCEPT ![w] = [@ EXCEPT !.at = "act", !.from = Len(trace)]]
    /\ UNCHANGED <<org, row, right, request, judging, job, effects, changes, faults>>

Act(w) ==
    /\ run[w].at = "act"
    /\ effects' = [effects EXCEPT ![Subject(w)] = @ + 1]
    /\ MoveOn(w, "done")
    /\ UNCHANGED <<org, row, right, request, judging, trace, changes, faults>>

\* The trace cannot be begun, the tool refuses or throws, before its effect or
\* after it, or the outcome cannot be stored.
Fail(w) ==
    /\ run[w].at \in {"begin", "act", "done"}
    /\ row' = [row EXCEPT ![Subject(w)].status = "FAILED"]
    /\ Return(w)
    /\ UNCHANGED <<org, right, request, judging, trace, effects, changes, faults>>

\* slåUppSpår: the latest row begun since, by the same right.
Found(w) == {i \in run[w].from + 1 .. Len(trace) : trace[i].by = run[w].by}
Latest(w) == {trace[i].of : i \in {j \in Found(w) : \A k \in Found(w) : k <= j}}

StoreExecuted(w) ==
    /\ run[w].at = "done"
    /\ \E link \in Latest(w) :
          row' = [row EXCEPT ![Subject(w)] = [@ EXCEPT !.status = "EXECUTED", !.link = link]]
    /\ Return(w)
    /\ UNCHANGED <<org, right, request, judging, trace, effects, changes, faults>>

-----------------------------------------------------------------------------
(* What goes wrong. *)

\* The lock on the job runs out while its worker goes on.
Stall(a) ==
    /\ faults < Faults /\ job[a] \in Worker
    /\ job' = [job EXCEPT ![a] = "waiting"]
    /\ faults' = faults + 1
    /\ UNCHANGED <<org, row, right, request, judging, run, trace, effects, changes>>

\* The worker dies, or an error leaves utför: the job is tried again or is at
\* the end of its attempts.
Die(w) ==
    /\ faults < Faults /\ run[w].at # "idle"
    /\ run' = [run EXCEPT ![w] = NoRun]
    /\ \E place \in {"waiting", "kept"} :
          job' = [a \in Assignment |-> IF job[a] = w THEN place ELSE job[a]]
    /\ faults' = faults + 1
    /\ UNCHANGED <<org, row, right, request, judging, trace, effects, changes>>

-----------------------------------------------------------------------------
Owner ==
    \/ \E a \in Assignment : Expire(a) \/ \E v \in Decision : Decide(a, v)
    \/ \E q \in Request :
         \/ \E a \in Assignment : AskBirth(q, a)
         \/ \E d \in Delegation : Birth(q, d)
         \/ \E dto \in Dto : AskSwitch(q, dto[1], dto[2])
         \/ WriteSwitch(q)
    \/ \E d \in Delegation : Revoke(d) \/ Pause(d) \/ Resume(d) \/ RunOut(d) \/ Extend(d)

Passes ==
    \E a \in Assignment : \/ AskVerdict(a) \/ WriteVerdict(a)
                          \/ Reap(a) \/ Enqueue(a) \/ Forget(a)

Works(w) ==
    \/ \E a \in Assignment : Take(w, a)
    \/ Claim(w) \/ AskAgain(w) \/ Lapse(w) \/ Begin(w) \/ Act(w) \/ StoreExecuted(w)
    \/ Fail(w)

Next ==
    \/ Owner \/ Passes
    \/ \E w \in Worker : Works(w) \/ Die(w)
    \/ \E a \in Assignment : Stall(a)

Spec == Init /\ [][Next]_vars

\* svepPass comes back every 15 minutes and closes dead claims whatever is switched
\* on. Nothing is promised of queues, workers and people.
FairSpec == Spec /\ \A a \in Assignment : WF_vars(Reap(a))

-----------------------------------------------------------------------------
TypeOK ==
    /\ org \in [shadow : BOOLEAN, exec : BOOLEAN]
    /\ row \in [Assignment -> [status : Status, verdict : {"none", "no"} \cup Delegation,
                               claimed : BOOLEAN, link : {"none"} \cup Assignment]]
    /\ right \in [Delegation -> [born : {"none", "older"} \cup Assignment, revoked : BOOLEAN,
                                 expired : BOOLEAN, extended : BOOLEAN,
                                 paused : {"no", "owner", "switch"}]]
    /\ request \in [Request -> [kind : {"none", "birth", "switch"},
                                of : {"none"} \cup Assignment,
                                shadow : Switch, exec : Switch]]
    /\ judging \in [Assignment -> {"none", "no"} \cup Delegation]
    /\ job \in [Assignment -> {"none", "waiting", "kept"} \cup Worker]
    /\ run \in [Worker -> [at : Place, of : {"none"} \cup Assignment,
                           by : {"none", "no"} \cup Delegation, late : SUBSET Delegation,
                           lost : SUBSET Delegation, from : Nat]]
    /\ \A w \in Worker : /\ run[w].at # "idle" => run[w].of \in Assignment
                         /\ run[w].at \in {"begin", "act", "done"} => run[w].by \in Delegation
    /\ trace \in Seq([of : Assignment, by : Delegation])
    /\ effects \in [Assignment -> Nat]
    /\ changes \in 0..Changes /\ faults \in 0..Faults

\* execution.queue.ts:31: what keeps a job that is handed out twice from a second
\* effect is the claim on the proposal, not the queue.
OneEffect == \A a \in Assignment : effects[a] <= 1

\* schema.prisma:4774: what is called executed was, and what has lapsed was not,
\* whoever ran it, died over it or closed it in the meantime.
OutcomeIsTrue ==
    \A a \in Assignment : /\ row[a].status = "EXECUTED" => effects[a] = 1
                          /\ row[a].status = "LAPSED"   => effects[a] = 0

\* The work on a proposal is a claimed effect: the tool works only for who has claimed
\* the row, once, and what has lapsed never comes to be done, whoever is slow or dies.
Said(status) == CASE status = "EXECUTED" -> "happened"
                  [] status = "LAPSED" -> "did not"
                  [] OTHER -> "nothing"
Work == INSTANCE ClaimedEffect WITH
            Item  <- Assignment,
            held  <- {a \in Assignment : row[a].claimed},
            times <- effects,
            told  <- [a \in Assignment |-> Said(row[a].status)]
WorkIsClaimed == Work!Spec

\* The right is asked for again before the effect: whatever was judged before, no
\* work is done by a right that was revoked, or had run out and was not extended,
\* when the run began.
RightNotGone ==
    [][\A w \in Worker : Act(w) =>
          /\ run[w].by \notin run[w].lost
          /\ run[w].by \in run[w].late => right[run[w].by].extended]_vars

\* stängDöda: a claim is given an outcome, though its worker died and the owner has
\* switched everything off.
ClaimSettled == \A a \in Assignment : row[a].claimed ~> row[a].status \in Terminal

-----------------------------------------------------------------------------
(* What comments in the code say and the code does not keep. *)

\* delegation.service.ts:671: "one and the same proposal can never produce both,
\* and the sum does not count twice".
SumCountsOnce ==
    \A d \in Delegation :
        Used(d) = Cardinality({a \in Assignment :
                     \/ row[a].verdict = d
                     \/ \E i \in 1..Len(trace) : trace[i] = [of |-> a, by |-> d]})

\* ai-assignments.service.ts:682: "the deadline passed - nothing was carried out".
ExpiredDidNothing == \A a \in Assignment : row[a].status = "EXPIRED" => effects[a] = 0

\* agent-execution.service.ts:375: "the trace of THIS run".
TraceIsOwn == \A a \in Assignment : row[a].link \in {"none", a}

\* delegation.service.ts:270: "the same proposal twice gives ONE delegation".
BornOnce ==
    \A d, e \in Delegation :
        right[d].born \in Assignment /\ right[d].born = right[e].born => d = e

\* organizations.service.ts:164: "who switches it on again shall get back what he gave".
SwitchGivesBack ==
    (org.shadow /\ org.exec /\ \A q \in Request : request[q] = NoRequest)
        => \A d \in Delegation : right[d].paused # "switch"
=============================================================================
