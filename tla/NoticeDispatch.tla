---------------------------- MODULE NoticeDispatch -----------------------------
(***************************************************************************)
(* The way of one rent notice to the tenant. Operators and cron jobs put   *)
(* jobs on the PDF queue (sendNotices); a worker renders the notice, puts  *)
(* one mail job on the mail queue under the id rent-notice-<id>, and marks *)
(* the notice as sent (processNoticeSendJob); a mail worker hands the mail *)
(* to the mail provider (processJob). Meanwhile the notice may fall due,   *)
(* be paid, be cancelled, or be opened again by an unmatch.                *)
(*                                                                         *)
(* Both queues are Bull queues: a job that throws is tried again up to     *)
(* Attempts times, a job whose worker died is handed out again Stalls      *)
(* times and then fails at once, adding a job under an id the queue        *)
(* remembers does nothing, and finished jobs are forgotten after a while.  *)
(* The provider drops a mail whose key it accepted in the last 24 hours.   *)
(***************************************************************************)
EXTENDS Naturals

CONSTANTS
    Job,        \* the PDF jobs that are asked for
    Attempts,   \* attempts of a job, 5 in the code
    Stalls,     \* deaths of its worker that a job survives, 3 in the code
    Command     \* what the operators of the instance do

Commands == {"pay", "unmatch", "cancel", "block", "suppress"}

ASSUME AttemptsAssumption == Attempts \in Nat \ {0} /\ Stalls \in Nat
ASSUME CommandAssumption  == Command \subseteq Commands

VARIABLES
    status,     \* RentNotice.status
    dispatch,   \* sentAt / sendError: "unsent", "sent" or "failed"
    pdf,        \* the PDF jobs: where each is, its attempts and its stalls
    mail,       \* the mail job under the notice's id
    known,      \* the provider remembers the notice's key
    today,      \* mails the provider has accepted since it last forgot the key
    trace       \* of the mail jobs so far: one was queued; one was answered, that is
                \* mailed, suppressed, or recorded as failed (FailedEmail)

jobVars == <<pdf, mail>>
vars    == <<status, dispatch, pdf, mail, known, today, trace>>

Status   == {"PENDING", "SENT", "PAID", "OVERDUE", "CANCELLED", "FAILED"}
Settled  == {"PAID", "CANCELLED"}
Sendable == {"PENDING", "FAILED", "OVERDUE"}

Working  == {"rendering", "checked", "queued"}
Fresh    == [at |-> "none", tries |-> 0, stalls |-> 0]
Live     == {"waiting", "taken"}

Init ==
    /\ status = "PENDING" /\ dispatch = "unsent"
    /\ pdf = [j \in Job |-> Fresh]
    /\ mail = Fresh
    /\ known = FALSE /\ today = 0 /\ trace = {}

MoveTo(j, place) == pdf' = [pdf EXCEPT ![j].at = place]

-----------------------------------------------------------------------------
(* The notice. *)

Pay ==
    /\ "pay" \in Command /\ status \in {"PENDING", "SENT", "OVERDUE", "FAILED"}
    /\ status' = "PAID"
    /\ UNCHANGED <<dispatch, jobVars, known, today, trace>>

\* unmatchTransaction: the status is put together from what is known of the dispatch.
Reopened == CASE dispatch = "sent"   -> "SENT"
              [] dispatch = "failed" -> "FAILED"
              [] dispatch = "unsent" -> "PENDING"

Unmatch ==
    /\ "unmatch" \in Command /\ status = "PAID"
    /\ status' = Reopened
    /\ UNCHANGED <<dispatch, jobVars, known, today, trace>>

Cancel ==
    /\ "cancel" \in Command /\ status \notin Settled
    /\ status' = "CANCELLED"
    /\ UNCHANGED <<dispatch, jobVars, known, today, trace>>

MarkOverdue ==
    /\ status \in {"PENDING", "SENT"}
    /\ status' = "OVERDUE"
    /\ UNCHANGED <<dispatch, jobVars, known, today, trace>>

-----------------------------------------------------------------------------
(* The PDF queue. *)

\* sendNotices: every call is a job of its own.
Ask(j) ==
    /\ pdf[j].at = "none"
    /\ MoveTo(j, "waiting")
    /\ UNCHANGED <<status, dispatch, mail, known, today, trace>>

\* sendNotices without a payment target: no job, the notice is marked.
Block ==
    /\ "block" \in Command /\ status \in {"PENDING", "FAILED"}
    /\ status' = "FAILED"
    /\ dispatch' = IF dispatch = "sent" THEN "sent" ELSE "failed"
    /\ UNCHANGED <<jobVars, known, today, trace>>

\* Mutant: every notice not yet sent.
CanBeSent_ByMarker == dispatch # "sent"

\* The condition of every read and of the one status write of the dispatch.
CanBeSent == status \in Sendable /\ dispatch # "sent"

\* skrivUtskicksstatus: one conditional update.
Mark(outcome) ==
    IF CanBeSent
      THEN /\ status' = IF outcome = "sent" THEN "SENT" ELSE "FAILED"
           /\ dispatch' = outcome
      ELSE UNCHANGED <<status, dispatch>>

\* The worker reads the notice and starts to render it, or finds nothing to do.
Start(j) ==
    /\ pdf[j].at = "waiting"
    /\ MoveTo(j, IF CanBeSent THEN "rendering" ELSE "done")
    /\ UNCHANGED <<status, dispatch, mail, known, today, trace>>

\* No payment target, or a tenant without an address: no attempt will help.
Refuse(j) ==
    /\ "block" \in Command /\ pdf[j].at = "waiting"
    /\ Mark("failed") \/ UNCHANGED <<status, dispatch>>
    /\ MoveTo(j, "done")
    /\ UNCHANGED <<mail, known, today, trace>>

\* After rendering the notice is read again, before any mail is queued.
Recheck(j) ==
    /\ pdf[j].at = "rendering"
    /\ MoveTo(j, IF CanBeSent THEN "checked" ELSE "done")
    /\ UNCHANGED <<status, dispatch, mail, known, today, trace>>

\* MailQueue.enqueue: under an id the queue remembers, adding does nothing.
AddMail ==
    /\ mail' = IF mail.at = "none" THEN [Fresh EXCEPT !.at = "waiting"] ELSE mail
    /\ trace' = trace \cup {"queued"}

QueueMail(j) ==
    /\ pdf[j].at = "checked"
    /\ AddMail
    /\ MoveTo(j, "queued")
    /\ UNCHANGED <<status, dispatch, known, today>>

\* Mutant: the empty job id is not told from a job.
Suppressed_Queued == "queued"

\* Where a job goes whose mail was not queued, mail being switched off.
Suppressed == "done"

Suppress(j) ==
    /\ "suppress" \in Command /\ pdf[j].at = "checked"
    /\ MoveTo(j, Suppressed)
    /\ UNCHANGED <<status, dispatch, mail, known, today, trace>>

WriteSent(j) ==
    /\ pdf[j].at = "queued"
    /\ Mark("sent")
    /\ MoveTo(j, "done")
    /\ UNCHANGED <<mail, known, today, trace>>

\* Mutant: the attempts are not counted.
NextTry_Uncounted(job) == [job EXCEPT !.at = "waiting"]

\* What Bull does with a job that threw.
NextTry(job) ==
    [job EXCEPT !.at = IF job.tries + 1 < Attempts THEN "waiting" ELSE "failed",
                !.tries = @ + 1]

\* Rendering, the queue or the database threw. The notice is marked as failed,
\* unless that write throws as well; if the notice need not be sent any more
\* the job ends. The mail may have been queued although the call threw.
Throw(j) ==
    /\ pdf[j].at \in Working
    /\ \/ pdf[j].at = "checked" /\ AddMail
       \/ UNCHANGED <<mail, trace>>
    /\ \/ /\ Mark("failed")
          /\ pdf' = [pdf EXCEPT ![j] = IF CanBeSent THEN NextTry(@) ELSE [@ EXCEPT !.at = "done"]]
       \/ /\ UNCHANGED <<status, dispatch>>
          /\ pdf' = [pdf EXCEPT ![j] = NextTry(@)]
    /\ UNCHANGED <<known, today>>

\* The first reads are made outside the try block.
ReadFails(j) ==
    /\ pdf[j].at = "waiting"
    /\ pdf' = [pdf EXCEPT ![j] = NextTry(@)]
    /\ UNCHANGED <<status, dispatch, mail, known, today, trace>>

\* What Bull does with a job whose worker died: start again, or fail whatever
\* attempts are left.
AfterStall(job) ==
    IF job.stalls < Stalls THEN [job EXCEPT !.at = "waiting", !.stalls = @ + 1]
                           ELSE [job EXCEPT !.at = "failed"]

Stall(j) ==
    /\ pdf[j].at \in Working \cup {"waiting"}
    /\ pdf' = [pdf EXCEPT ![j] = AfterStall(@)]
    /\ UNCHANGED <<status, dispatch, mail, known, today, trace>>

-----------------------------------------------------------------------------
(* The mail queue. *)

\* processJob: a mail about a settled notice is dropped, and so is every mail
\* of an organisation that has mail switched off.
TakeMail ==
    /\ mail.at = "waiting"
    /\ \/ /\ status \in Settled
          /\ mail' = [mail EXCEPT !.at = "done"] /\ UNCHANGED trace
       \/ /\ "suppress" \in Command
          /\ mail' = [mail EXCEPT !.at = "done"] /\ trace' = trace \cup {"answered"}
       \/ /\ status \notin Settled
          /\ mail' = [mail EXCEPT !.at = "taken"] /\ UNCHANGED trace
    /\ UNCHANGED <<status, dispatch, pdf, known, today>>

\* Mutant: the key is not handed to the provider.
Accept_WithoutKey ==
    /\ known' = FALSE
    /\ today' = today + 1

\* The provider takes the mail, unless it knows the key.
Accept ==
    /\ known' = TRUE
    /\ today' = IF known THEN today ELSE today + 1

SendMail ==
    /\ mail.at = "taken"
    /\ Accept
    /\ mail' = [mail EXCEPT !.at = "done"] /\ trace' = trace \cup {"answered"}
    /\ UNCHANGED <<status, dispatch, pdf>>

\* A read or the provider fails, or the provider's answer is lost after it took
\* the mail. handleFailed records the failure of the last attempt.
SendFails ==
    /\ mail.at \in Live
    /\ mail' = NextTry(mail)
    /\ LET recorded == IF mail'.at = "failed" THEN trace \cup {"answered"} ELSE trace
       IN  \/ mail.at = "taken" /\ Accept /\ trace' = recorded \cup {"answered"}
           \/ UNCHANGED <<known, today>> /\ trace' = recorded
    /\ UNCHANGED <<status, dispatch, pdf>>

\* The mail worker dies before or after the provider took the mail. To
\* handleFailed the job that fails for it has attempts left: nothing is recorded.
MailStall ==
    /\ mail.at \in Live
    /\ mail' = AfterStall(mail)
    /\ \/ mail.at = "taken" /\ Accept /\ trace' = trace \cup {"answered"}
       \/ UNCHANGED <<known, today, trace>>
    /\ UNCHANGED <<status, dispatch, pdf>>

\* removeOnComplete, removeOnFail: after 7 days, or 1000 later jobs.
Forget ==
    /\ mail.at \in {"done", "failed"}
    /\ mail' = Fresh
    /\ UNCHANGED <<status, dispatch, pdf, known, today, trace>>

\* 24 hours later: no retry lasts as long, so no job is under way.
NextDay ==
    /\ known
    /\ \A j \in Job : pdf[j].at \in {"none", "done", "failed"}
    /\ mail.at \notin Live
    /\ known' = FALSE /\ today' = 0
    /\ UNCHANGED <<status, dispatch, jobVars, trace>>

-----------------------------------------------------------------------------

Work(j) == Start(j) \/ Refuse(j) \/ Recheck(j) \/ QueueMail(j) \/ Suppress(j) \/ WriteSent(j)
           \/ Throw(j) \/ ReadFails(j)
MailWork == TakeMail \/ SendMail \/ SendFails

Next ==
    \/ Pay \/ Unmatch \/ Cancel \/ MarkOverdue \/ Block
    \/ \E j \in Job : Ask(j) \/ Work(j) \/ Stall(j)
    \/ MailWork \/ MailStall \/ Forget \/ NextDay

Spec == Init /\ [][Next]_vars

\* Bull hands every waiting job to a worker and tries it again when it throws.
FairSpec == Spec /\ (\A j \in Job : WF_vars(Work(j))) /\ WF_vars(MailWork)

-----------------------------------------------------------------------------
(* Properties. *)

Jobs == [at : {"none", "waiting", "done", "failed"} \cup Working \cup {"taken"},
         tries : 0 .. Attempts, stalls : 0 .. Stalls]

TypeOK ==
    /\ status \in Status /\ dispatch \in {"unsent", "sent", "failed"}
    /\ pdf \in [Job -> Jobs] /\ mail \in Jobs
    /\ known \in BOOLEAN /\ today \in Nat
    /\ trace \subseteq {"queued", "answered"}

\* Retries on either queue, two jobs for one notice, a forgotten job id or a lost
\* answer never give the tenant the same notice twice: only when the provider has
\* forgotten the key, a day later, a new request can.
OneMailADay == today <= 1

\* No step of a worker moves a notice that was paid or cancelled while it worked.
WorkersLeaveSettledAlone ==
    [][(status \in Settled /\ status' # status) => (status = "PAID" /\ UNCHANGED jobVars)]_vars

\* skrivUtskicksstatus, unmatchTransaction and sendNotices write the status from
\* the same facts: a notice once marked sent never looks unsent or failed again.
SentStaysSent == dispatch = "sent" => status \notin {"PENDING", "FAILED"}

\* A notice is marked sent only after a mail job for it was put on the queue, not
\* when the mail was suppressed.
SentWasQueued == dispatch = "sent" => "queued" \in trace

\* Whatever throws and whoever dies, a job that was asked for comes to an end, and
\* so does the mail job it queued.
JobsEnd ==
    /\ \A j \in Job : pdf[j].at = "waiting" ~> pdf[j].at \in {"done", "failed"}
    /\ mail.at = "waiting" ~> mail.at \in {"done", "failed"}

\* Why a tenant has or will have the mail, or where it is on record that not.
Accounted == mail.at \in Live \/ "answered" \in trace

\* unmatchTransaction, sendNotices: "no status lies about a dispatch that did not
\* take place" - but a mail dropped because the notice was paid is not sent, and
\* the mark that it was sent stays when the notice opens again.
SentWasMailed == status = "SENT" => Accounted \/ mail.at = "failed"
===============================================================================
