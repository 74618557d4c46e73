------------------------ MODULE NoticeDispatchProofs --------------------------
(***************************************************************************)
(* Theorems about NoticeDispatch, for every number of jobs, attempts and   *)
(* stalls and every choice of commands.                                    *)
(***************************************************************************)
EXTENDS NoticeDispatch, TLAPS

\* A job that can still be tried has an attempt left.
HasAttempt(job) == job.at = "failed" \/ job.tries < Attempts

Counted == (\A j \in Job : HasAttempt(pdf[j])) /\ HasAttempt(mail)

Typed == TypeOK /\ Counted

LEMMA FreshType == Fresh \in Jobs /\ HasAttempt(Fresh)
  BY AttemptsAssumption DEF Fresh, Jobs, HasAttempt

LEMMA MoveType ==
    ASSUME NEW job \in Jobs, HasAttempt(job), job.at # "failed",
           NEW place \in {"waiting", "done", "taken"} \cup Working
    PROVE  [job EXCEPT !.at = place] \in Jobs /\ HasAttempt([job EXCEPT !.at = place])
  BY DEF Jobs, HasAttempt, Working

\* A job that may be tried keeps its attempts within the limit.
LEMMA NextTryType ==
    ASSUME NEW job \in Jobs, HasAttempt(job), job.at # "failed"
    PROVE  NextTry(job) \in Jobs /\ HasAttempt(NextTry(job))
<1>1. job.tries \in Nat /\ job.tries < Attempts /\ Attempts \in Nat
  BY AttemptsAssumption DEF Jobs, HasAttempt
<1>2. job.tries + 1 \in 0 .. Attempts
  BY <1>1
<1>3. NextTry(job) \in Jobs
  BY <1>2 DEF Jobs, NextTry, Working
<1>4. /\ NextTry(job).at = IF job.tries + 1 < Attempts THEN "waiting" ELSE "failed"
      /\ NextTry(job).tries = job.tries + 1
  BY DEF Jobs, NextTry
<1>. QED
  BY <1>3, <1>4 DEF HasAttempt

LEMMA AfterStallType ==
    ASSUME NEW job \in Jobs, HasAttempt(job), job.at # "failed"
    PROVE  AfterStall(job) \in Jobs /\ HasAttempt(AfterStall(job))
<1>1. job.stalls \in 0 .. Stalls /\ Stalls \in Nat
  BY AttemptsAssumption DEF Jobs
<1>2. CASE job.stalls < Stalls
  <2>1. AfterStall(job) = [job EXCEPT !.at = "waiting", !.stalls = job.stalls + 1]
    BY <1>2 DEF AfterStall
  <2>2. job.stalls + 1 \in 0 .. Stalls
    BY <1>1, <1>2
  <2>. QED
    BY <1>2, <2>1, <2>2 DEF Jobs, HasAttempt, Working
<1>3. CASE ~(job.stalls < Stalls)
  <2>1. AfterStall(job) = [job EXCEPT !.at = "failed"]
    BY <1>3 DEF AfterStall
  <2>. QED
    BY <2>1 DEF Jobs, HasAttempt, Working
<1>. QED
  BY <1>2, <1>3

\* Replacing one PDF job by one that is as good keeps all of them good.
LEMMA PdfType ==
    ASSUME Typed, NEW j \in Job, NEW job \in Jobs, HasAttempt(job),
           pdf' = [pdf EXCEPT ![j] = job]
    PROVE  pdf' \in [Job -> Jobs] /\ \A k \in Job : HasAttempt(pdf'[k])
<1>1. pdf' \in [Job -> Jobs]
  BY DEF Typed, TypeOK
<1>2. ASSUME NEW k \in Job PROVE HasAttempt(pdf'[k])
  BY DEF Typed, TypeOK, Counted
<1>. QED
  BY <1>1, <1>2

\* Every step of the code moves a PDF job that is not failed.
LEMMA MoveToType ==
    ASSUME Typed, NEW j \in Job, NEW place \in {"waiting", "done"} \cup Working,
           pdf[j].at # "failed", MoveTo(j, place)
    PROVE  pdf' \in [Job -> Jobs] /\ \A k \in Job : HasAttempt(pdf'[k])
<1>1. pdf[j] \in Jobs /\ HasAttempt(pdf[j])
  BY DEF Typed, TypeOK, Counted
<1>2. [pdf[j] EXCEPT !.at = place] \in Jobs /\ HasAttempt([pdf[j] EXCEPT !.at = place])
  BY <1>1, MoveType
<1>3. pdf' = [pdf EXCEPT ![j] = [pdf[j] EXCEPT !.at = place]]
  BY DEF MoveTo
<1>. HIDE DEF MoveTo
<1>. QED
  BY <1>2, <1>3, PdfType

LEMMA MarkType ==
    ASSUME TypeOK, NEW outcome \in {"sent", "failed"}, Mark(outcome)
    PROVE  status' \in Status /\ dispatch' \in {"unsent", "sent", "failed"}
  BY DEF TypeOK, Mark, Status

LEMMA AddMailType ==
    ASSUME Typed, AddMail
    PROVE  /\ mail' \in Jobs /\ HasAttempt(mail')
           /\ trace' \subseteq {"queued", "answered"}
<1>1. [Fresh EXCEPT !.at = "waiting"] \in Jobs /\ HasAttempt([Fresh EXCEPT !.at = "waiting"])
  BY FreshType, MoveType DEF Fresh
<1>. QED
  BY <1>1 DEF Typed, TypeOK, Counted, AddMail

LEMMA AcceptType ==
    ASSUME TypeOK, Accept
    PROVE  known' \in BOOLEAN /\ today' \in Nat
  BY DEF TypeOK, Accept

LEMMA TypedInit == Init => Typed
<1> SUFFICES ASSUME Init PROVE Typed
  OBVIOUS
<1>1. pdf \in [Job -> Jobs] /\ mail \in Jobs /\ Counted
  BY FreshType DEF Init, Counted
<1>2. TypeOK
  BY <1>1 DEF Init, TypeOK, Status
<1>. QED
  BY <1>1, <1>2 DEF Typed

LEMMA TypedNext == Typed /\ [Next]_vars => Typed'
<1> SUFFICES ASSUME Typed, [Next]_vars PROVE Typed'
  OBVIOUS
<1>. USE DEF jobVars
<1>1. ASSUME Pay \/ Unmatch \/ Cancel \/ MarkOverdue \/ Block PROVE Typed'
  <2>1. status' \in Status /\ dispatch' \in {"unsent", "sent", "failed"}
    BY <1>1 DEF Typed, TypeOK, Status, Pay, Unmatch, Reopened, Cancel, MarkOverdue, Block
  <2>2. UNCHANGED <<pdf, mail, known, today, trace>>
    BY <1>1 DEF Pay, Unmatch, Cancel, MarkOverdue, Block
  <2>. QED
    BY <2>1, <2>2 DEF Typed, TypeOK, Counted, HasAttempt
<1>2. ASSUME NEW j \in Job, Ask(j) \/ Start(j) \/ Recheck(j) \/ Suppress(j) PROVE Typed'
  <2>1. PICK place \in {"waiting", "done"} \cup Working :
            pdf[j].at # "failed" /\ MoveTo(j, place)
    BY <1>2 DEF Ask, Start, Recheck, Suppress, Suppressed, Working
  <2>2. UNCHANGED <<status, dispatch, mail, known, today, trace>>
    BY <1>2 DEF Ask, Start, Recheck, Suppress
  <2>. QED
    BY <2>1, <2>2, MoveToType DEF Typed, TypeOK, Counted, HasAttempt
<1>3. ASSUME NEW j \in Job, Refuse(j) \/ WriteSent(j) PROVE Typed'
  <2>1. pdf' \in [Job -> Jobs] /\ \A k \in Job : HasAttempt(pdf'[k])
    BY <1>3, MoveToType DEF Refuse, WriteSent, Working
  <2>2. status' \in Status /\ dispatch' \in {"unsent", "sent", "failed"}
    BY <1>3, MarkType DEF Refuse, WriteSent, Typed, TypeOK
  <2>3. UNCHANGED <<mail, known, today, trace>>
    BY <1>3 DEF Refuse, WriteSent
  <2>. QED
    BY <2>1, <2>2, <2>3 DEF Typed, TypeOK, Counted, HasAttempt
<1>4. ASSUME NEW j \in Job, QueueMail(j) PROVE Typed'
  <2>1. pdf' \in [Job -> Jobs] /\ \A k \in Job : HasAttempt(pdf'[k])
    BY <1>4, MoveToType DEF QueueMail, Working
  <2>2. /\ mail' \in Jobs /\ HasAttempt(mail')
        /\ trace' \subseteq {"queued", "answered"}
    BY <1>4, AddMailType DEF QueueMail
  <2>3. UNCHANGED <<status, dispatch, known, today>>
    BY <1>4 DEF QueueMail
  <2>. QED
    BY <2>1, <2>2, <2>3 DEF Typed, TypeOK, Counted, HasAttempt
<1>5. ASSUME NEW j \in Job, Throw(j) PROVE Typed'
  <2>1. /\ pdf[j] \in Jobs /\ HasAttempt(pdf[j]) /\ pdf[j].at # "failed"
    BY <1>5 DEF Typed, TypeOK, Counted, Throw, Working
  <2>2. PICK job \in {NextTry(pdf[j]), [pdf[j] EXCEPT !.at = "done"]} :
            pdf' = [pdf EXCEPT ![j] = job]
    BY <1>5 DEF Throw
  <2>3. job \in Jobs /\ HasAttempt(job)
    BY <2>1, <2>2, NextTryType, MoveType
  <2>4. pdf' \in [Job -> Jobs] /\ \A k \in Job : HasAttempt(pdf'[k])
    BY <2>2, <2>3, PdfType
  <2>5. /\ mail' \in Jobs /\ HasAttempt(mail')
        /\ trace' \subseteq {"queued", "answered"}
    BY <1>5, AddMailType DEF Throw, Typed, TypeOK, Counted, HasAttempt
  <2>6. status' \in Status /\ dispatch' \in {"unsent", "sent", "failed"}
    BY <1>5, MarkType DEF Throw, Typed, TypeOK
  <2>7. UNCHANGED <<known, today>>
    BY <1>5 DEF Throw
  <2>. QED
    BY <2>4, <2>5, <2>6, <2>7 DEF Typed, TypeOK, Counted
<1>6. ASSUME NEW j \in Job, ReadFails(j) \/ Stall(j) PROVE Typed'
  <2>1. /\ pdf[j] \in Jobs /\ HasAttempt(pdf[j]) /\ pdf[j].at # "failed"
    BY <1>6 DEF Typed, TypeOK, Counted, ReadFails, Stall, Working
  <2>2. PICK job \in {NextTry(pdf[j]), AfterStall(pdf[j])} : pdf' = [pdf EXCEPT ![j] = job]
    BY <1>6 DEF ReadFails, Stall
  <2>3. job \in Jobs /\ HasAttempt(job)
    BY <2>1, <2>2, NextTryType, AfterStallType
  <2>4. pdf' \in [Job -> Jobs] /\ \A k \in Job : HasAttempt(pdf'[k])
    BY <2>2, <2>3, PdfType
  <2>5. UNCHANGED <<status, dispatch, mail, known, today, trace>>
    BY <1>6 DEF ReadFails, Stall
  <2>. QED
    BY <2>4, <2>5 DEF Typed, TypeOK, Counted, HasAttempt
<1>7. ASSUME MailWork \/ MailStall PROVE Typed'
  <2>1. mail \in Jobs /\ HasAttempt(mail) /\ mail.at # "failed"
    BY <1>7 DEF Typed, TypeOK, Counted, MailWork, MailStall, TakeMail, SendMail, SendFails, Live
  <2>2. PICK job \in {NextTry(mail), AfterStall(mail), [mail EXCEPT !.at = "done"],
                      [mail EXCEPT !.at = "taken"]} : mail' = job
    BY <1>7 DEF MailWork, MailStall, TakeMail, SendMail, SendFails
  <2>3. mail' \in Jobs /\ HasAttempt(mail')
    BY <2>1, <2>2, NextTryType, AfterStallType, MoveType
  <2>4. known' \in BOOLEAN /\ today' \in Nat
    BY <1>7, AcceptType DEF Typed, TypeOK, MailWork, MailStall, TakeMail, SendMail, SendFails
  <2>5. trace' \subseteq {"queued", "answered"}
    BY <1>7 DEF Typed, TypeOK, MailWork, MailStall, TakeMail, SendMail, SendFails
  <2>6. UNCHANGED <<status, dispatch, pdf>>
    BY <1>7 DEF MailWork, MailStall, TakeMail, SendMail, SendFails
  <2>. QED
    BY <2>3, <2>4, <2>5, <2>6 DEF Typed, TypeOK, Counted, HasAttempt
<1>8. ASSUME Forget PROVE Typed'
  BY <1>8, FreshType DEF Typed, TypeOK, Counted, Forget, HasAttempt
<1>9. ASSUME NextDay PROVE Typed'
  BY <1>9 DEF Typed, TypeOK, Counted, NextDay, HasAttempt
<1>10. ASSUME UNCHANGED vars PROVE Typed'
  BY <1>10 DEF Typed, TypeOK, Counted, vars, HasAttempt
<1>. QED
  BY <1>1, <1>2, <1>3, <1>4, <1>5, <1>6, <1>7, <1>8, <1>9, <1>10 DEF Next, Work

\* Type correctness: no job is tried more often than Attempts allows or survives
\* more than Stalls deaths, and the status of the notice is one of the code's.
THEOREM DispatchTypes == Spec => []TypeOK
<1>1. Typed => TypeOK
  BY DEF Typed
<1>. QED
  BY <1>1, TypedInit, TypedNext, PTL DEF Spec

-----------------------------------------------------------------------------
(* The provider's key. *)

AcceptedOnce == today = 0 \/ (today = 1 /\ known)

LEMMA AcceptKeeps == AcceptedOnce /\ (Accept \/ UNCHANGED <<known, today>>) => AcceptedOnce'
  BY DEF AcceptedOnce, Accept

\* processJob hands the provider the notice's key with every attempt: however often
\* the PDF jobs and the mail job are tried again, the mail is accepted once a day.
THEOREM OneMail == Spec => []OneMailADay
<1>1. Init => AcceptedOnce
  BY DEF Init, AcceptedOnce
<1>2. AcceptedOnce /\ [Next]_vars => AcceptedOnce'
  <2> SUFFICES ASSUME AcceptedOnce, [Next]_vars PROVE AcceptedOnce'
    OBVIOUS
  <2>1. ASSUME NextDay PROVE AcceptedOnce'
    BY <2>1 DEF NextDay, AcceptedOnce
  <2>2. ASSUME ~NextDay PROVE Accept \/ UNCHANGED <<known, today>>
    BY <2>2 DEF Next, vars, Work, MailWork, Pay, Unmatch, Cancel, MarkOverdue, Block, Ask, Start,
                Refuse, Recheck, QueueMail, Suppress, WriteSent, Throw, ReadFails, Stall,
                TakeMail, SendMail, SendFails, MailStall, Forget
  <2>. QED
    BY <2>1, <2>2, AcceptKeeps
<1>3. AcceptedOnce => OneMailADay
  BY DEF AcceptedOnce, OneMailADay
<1>. QED
  BY <1>1, <1>2, <1>3, PTL DEF Spec

-----------------------------------------------------------------------------
(* The mark that a notice was sent. *)

\* A job that goes on to mark the notice has queued its mail.
QueuedFirst ==
    /\ dispatch = "sent" => "queued" \in trace
    /\ \A j \in Job : pdf[j].at = "queued" => "queued" \in trace

\* The mark is set by WriteSent alone.
LEMMA MarkedByWriteSent ==
    ASSUME [Next]_vars, dispatch # "sent", dispatch' = "sent"
    PROVE  \E j \in Job : pdf[j].at = "queued" /\ Mark("sent") /\ UNCHANGED trace
<1>1. \E j \in Job : WriteSent(j)
  BY DEF Next, vars, Work, MailWork, Pay, Unmatch, Cancel, MarkOverdue, Block, Ask, Start, Refuse,
         Recheck, QueueMail, Suppress, Throw, ReadFails, Stall, TakeMail, SendMail, SendFails,
         MailStall, Forget, NextDay, Mark
<1>. QED
  BY <1>1 DEF WriteSent

\* A PDF job comes to the place "queued" by QueueMail alone.
LEMMA QueuedByQueueMail ==
    ASSUME TypeOK, [Next]_vars, NEW k \in Job, pdf'[k].at = "queued", pdf[k].at # "queued"
    PROVE  "queued" \in trace'
<1>1. ASSUME NEW j \in Job, NEW place, place # "queued", MoveTo(j, place) PROVE FALSE
  BY <1>1 DEF MoveTo, TypeOK, Jobs
<1>2. ASSUME NEW j \in Job, Throw(j) \/ ReadFails(j) \/ Stall(j) PROVE FALSE
  <2>1. PICK job \in {NextTry(pdf[j]), AfterStall(pdf[j]), [pdf[j] EXCEPT !.at = "done"]} :
            pdf' = [pdf EXCEPT ![j] = job]
    BY <1>2 DEF Throw, ReadFails, Stall
  <2>2. job.at # "queued"
    BY <2>1 DEF TypeOK, Jobs, NextTry, AfterStall
  <2>. QED
    BY <2>1, <2>2 DEF TypeOK
<1>3. ASSUME NEW j \in Job, QueueMail(j) PROVE "queued" \in trace'
  BY <1>3 DEF QueueMail, AddMail
<1>4. ASSUME UNCHANGED pdf PROVE FALSE
  BY <1>4
<1>5. \/ UNCHANGED pdf
      \/ \E j \in Job : \/ QueueMail(j)
                        \/ Throw(j) \/ ReadFails(j) \/ Stall(j)
                        \/ \E place \in {"waiting", "rendering", "checked", "done"} :
                               MoveTo(j, place)
  BY DEF Next, vars, jobVars, Work, MailWork, Pay, Unmatch, Cancel, MarkOverdue, Block, Ask, Start,
         Refuse, Recheck, Suppress, Suppressed, WriteSent, TakeMail, SendMail, SendFails,
         MailStall, Forget, NextDay
<1>. QED
  BY <1>1, <1>2, <1>3, <1>4, <1>5

LEMMA TraceGrows == [Next]_vars /\ "queued" \in trace => "queued" \in trace'
  BY DEF Next, vars, Work, MailWork, Pay, Unmatch, Cancel, MarkOverdue, Block, Ask, Start, Refuse,
         Recheck, QueueMail, AddMail, Suppress, WriteSent, Throw, ReadFails, Stall, TakeMail,
         SendMail, SendFails, MailStall, Forget, NextDay

\* processNoticeSendJob marks a notice as sent only after a mail job was queued; a
\* suppressed mail, a retry or a second job never leads to the mark by itself.
THEOREM SentMeansQueued == Spec => []SentWasQueued
<1>1. Init => QueuedFirst
  BY DEF Init, QueuedFirst, Fresh
<1>2. TypeOK /\ QueuedFirst /\ [Next]_vars => QueuedFirst'
  <2> SUFFICES ASSUME TypeOK, QueuedFirst, [Next]_vars PROVE QueuedFirst'
    OBVIOUS
  <2>1. ASSUME dispatch' = "sent" PROVE "queued" \in trace'
    BY <2>1, MarkedByWriteSent, TraceGrows DEF QueuedFirst
  <2>2. ASSUME NEW k \in Job, pdf'[k].at = "queued" PROVE "queued" \in trace'
    BY <2>2, QueuedByQueueMail, TraceGrows DEF QueuedFirst
  <2>. QED
    BY <2>1, <2>2 DEF QueuedFirst
<1>3. QueuedFirst => SentWasQueued
  BY DEF QueuedFirst, SentWasQueued
<1>. QED
  BY <1>1, <1>2, <1>3, DispatchTypes, PTL DEF Spec

\* sendNotices, skrivUtskicksstatus and unmatchTransaction agree on what is known of
\* the dispatch: a notice marked sent never becomes pending or failed again.
THEOREM StaysSent == Spec => []SentStaysSent
<1>1. Init => SentStaysSent
  BY DEF Init, SentStaysSent
<1>2. TypeOK /\ SentStaysSent /\ [Next]_vars => SentStaysSent'
  <2> SUFFICES ASSUME TypeOK, SentStaysSent, [Next]_vars, dispatch' = "sent"
               PROVE  status' \notin {"PENDING", "FAILED"}
    BY DEF SentStaysSent
  <2>1. CASE dispatch # "sent"
    BY <2>1, MarkedByWriteSent DEF Mark
  <2>2. CASE dispatch = "sent"
    <3>1. status \notin {"PENDING", "FAILED"}
      BY <2>2 DEF SentStaysSent
    <3>2. ASSUME NEW outcome, Mark(outcome) PROVE UNCHANGED status
      BY <2>2, <3>2 DEF Mark, CanBeSent
    <3>. QED
      BY <2>2, <3>1, <3>2
         DEF Next, vars, Work, MailWork, Pay, Unmatch, Reopened, Cancel, MarkOverdue, Block, Ask,
             Start, Refuse, Recheck, QueueMail, Suppress, WriteSent, Throw, ReadFails, Stall,
             TakeMail, SendMail, SendFails, MailStall, Forget, NextDay
  <2>. QED
    BY <2>1, <2>2
<1>. QED
  BY <1>1, <1>2, DispatchTypes, PTL DEF Spec

\* The one conditional write of the dispatch: a worker, however late, never moves a
\* notice that was paid or cancelled; only an unmatch does, and touches no job.
THEOREM SettledLeftAlone == Spec => WorkersLeaveSettledAlone
<1>1. [Next]_vars => [(status \in Settled /\ status' # status)
                          => (status = "PAID" /\ UNCHANGED jobVars)]_vars
  <2> SUFFICES ASSUME Next, status \in Settled, status' # status
               PROVE  status = "PAID" /\ UNCHANGED jobVars
    OBVIOUS
  <2>1. ASSUME NEW outcome, Mark(outcome) PROVE UNCHANGED status
    BY <2>1 DEF Mark, CanBeSent, Sendable, Settled
  <2>2. Unmatch
    BY <2>1 DEF Next, Work, MailWork, Pay, Cancel, MarkOverdue, Block, Ask, Start, Refuse, Recheck,
                QueueMail, Suppress, WriteSent, Throw, ReadFails, Stall, TakeMail, SendMail,
                SendFails, MailStall, Forget, NextDay, Settled
  <2>. QED
    BY <2>2 DEF Unmatch
<1>. QED
  BY <1>1, PTL DEF Spec, WorkersLeaveSettledAlone
===============================================================================
