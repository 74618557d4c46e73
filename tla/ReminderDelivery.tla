--------------------------- MODULE ReminderDelivery ---------------------------
(***************************************************************************)
(* The reminder of one overdue rent notice, from the step of the claim     *)
(* ladder that owes it to the evidence that lets the notice go to debt     *)
(* collection. A cron job moves the notice to REMINDED and queues a PDF    *)
(* job; the PDF worker renders the letter, makes a RentNoticeSend row for  *)
(* it and queues one mail under its id; a mail worker hands the mail to    *)
(* the provider and stores the id it was given on the row; the provider's  *)
(* webhooks, late, repeated and in any order, are recorded on the row that *)
(* bears their id; a second cron job reads the record of the latest row.   *)
(* After a bounce an operator may ask for the letter again. Meanwhile the  *)
(* notice may be paid, opened again by an unmatch, or cancelled.           *)
(*                                                                         *)
(* A job that throws, or whose worker dies, is handed out again or is      *)
(* given up: which of them depends on counters that NoticeDispatch has and *)
(* that are left open here. Mishaps bounds how often anything goes wrong.  *)
(***************************************************************************)
EXTENDS FiniteSetsExt, Integers

CONSTANTS
    Jobs,       \* the PDF jobs that can be queued
    Sends,      \* the RentNoticeSend rows that can be made
    Cron,       \* the replicas that run the collection cron job
    Periods,    \* how often the notice can be reminded
    Mishaps,    \* how many steps may fail
    Dies        \* a process can end between the stamp of an alert and the alert

ASSUME BoundsAssumption  == {Jobs, Sends, Periods, Mishaps} \subseteq Nat
ASSUME DiesAssumption    == Dies \in BOOLEAN
ASSUME CronAssumption    == "nobody" \notin Cron

VARIABLES
    status,           \* RentNotice.status
    stage,            \* RentNotice.collectionStage
    remindedAt,       \* RentNotice.remindedAt: how many rows had been made then
    pdfKept,          \* RentNotice.reminderPdfStorageKey is set
    blockedSince,     \* RentNotice.blockedSince: "none", "recent" or "old", 7 days
    blockedAlertedAt, \* RentNotice.blockedAlertedAt, as the run that stamped it
    job,              \* the PDF jobs, each with the row it has made
    made, count,      \* the RentNoticeSend rows there are, and how many were made
    messageId,        \* RentNoticeSend.messageId, 0 when not set
    events,           \* EMAIL_DELIVERED and EMAIL_BOUNCED events, by row
    sentLogged,       \* there is a SENT event
    mail,             \* the mail jobs by key, each with the row it is about
    accepted,         \* the keys of the mails the provider has taken
    reported,         \* what the provider found out about them
    posted,           \* the webhooks that have not arrived yet
    unmatched,        \* those that came when no row bore their id, and not since
    cron,             \* where each replica of the collection cron job is
    period,           \* how often the notice was reminded
    alerted,          \* an alert was sent in the current period
    left              \* the mishaps that can still happen

noticeVars   == <<status, stage, remindedAt, period>>
blockVars    == <<blockedSince, blockedAlertedAt, alerted>>
sendVars     == <<made, count, messageId>>
evidenceVars == <<pdfKept, sentLogged, events>>
providerVars == <<accepted, reported, posted, unmatched>>
vars == <<noticeVars, blockVars, sendVars, evidenceVars, providerVars, job, mail, cron, left>>

Job     == 1 .. Jobs
Send    == 1 .. Sends
Outcome == {"delivered", "bounced"}
Settled == {"PAID", "CANCELLED"}
Working == {"rendering", "made"}

Init ==
    /\ status = "OVERDUE" /\ stage = "NONE" /\ remindedAt = 0 /\ period = 0
    /\ blockedSince = "none" /\ blockedAlertedAt = "nobody" /\ alerted = FALSE
    /\ made = {} /\ count = 0 /\ messageId = [s \in Send |-> 0]
    /\ pdfKept = FALSE /\ sentLogged = FALSE /\ events = {}
    /\ accepted = {} /\ reported = {} /\ posted = {} /\ unmatched = {}
    /\ job = [j \in Job |-> [at |-> "free", send |-> 0]]
    /\ mail = [k \in Send |-> [at |-> "none", send |-> 0]]
    /\ cron = [c \in Cron |-> "idle"] /\ left = Mishaps

\* Something fails.
Mishap == left > 0 /\ left' = left - 1

\* The row the code calls senasteUtskick; 0 when there is none.
Latest == Max(made \cup {0})

Recorded(outcome) == <<Latest, outcome>> \in events

-----------------------------------------------------------------------------
(* The notice. *)

NoticeStep == UNCHANGED <<remindedAt, period, blockVars, sendVars, evidenceVars, providerVars,
                          job, mail, cron, left>>

\* A payment that settles the notice takes it off the claim ladder.
Pay ==
    /\ status \notin Settled
    /\ status' = "PAID" /\ stage' = "NONE"
    /\ NoticeStep

\* unmatchTransaction: a notice that was sent is sent again, and on no stage.
Unmatch ==
    /\ status = "PAID"
    /\ status' = "SENT" /\ UNCHANGED stage
    /\ NoticeStep

Cancel ==
    /\ status \notin Settled
    /\ status' = "CANCELLED" /\ stage' = "NONE"
    /\ NoticeStep

MarkOverdue ==
    /\ status = "SENT"
    /\ status' = "OVERDUE" /\ UNCHANGED stage
    /\ NoticeStep

-----------------------------------------------------------------------------
(* Asking for the letter. *)

\* Mutant: the markers of the last standstill are kept.
NewPeriod_KeepsMarkers == UNCHANGED <<blockedSince, blockedAlertedAt>>

\* Entering REMINDED begins a new period without a standstill.
NewPeriod == blockedSince' = "none" /\ blockedAlertedAt' = "nobody"

\* The queue gives a job the next number.
IsNext(j) == job[j].at = "free" /\ \A i \in Job : i < j => job[i].at # "free"

Enqueue(j) == IsNext(j) /\ job' = [job EXCEPT ![j].at = "waiting"] /\ UNCHANGED left

\* escalateNoticeToReminded, one conditional update, and the PDF job queued after
\* it has been committed. If the process ends in between or the queue is out of
\* reach (enqueueSafely), nothing asks for this letter any more.
Remind ==
    /\ status = "OVERDUE" /\ stage = "NONE" /\ period < Periods
    /\ stage' = "REMINDED" /\ remindedAt' = count /\ period' = period + 1
    /\ NewPeriod /\ alerted' = FALSE
    /\ \/ \E j \in Job : Enqueue(j)
       \/ UNCHANGED job /\ Mishap
    /\ UNCHANGED <<status, sendVars, evidenceVars, providerVars, mail, cron>>

\* bedömOmsändning: the last letter came back.
Resendable == stage = "REMINDED" /\ made # {} /\ Recorded("bounced") /\ ~Recorded("delivered")

\* resendReminder.
Resend(j) ==
    /\ Resendable /\ Enqueue(j)
    /\ UNCHANGED <<noticeVars, blockVars, sendVars, evidenceVars, providerVars, mail, cron>>

-----------------------------------------------------------------------------
(* The PDF queue: processReminderSendJob. *)

JobStep == UNCHANGED <<noticeVars, blockVars, providerVars, events, messageId, cron>>

MoveTo(j, place) == job' = [job EXCEPT ![j] = [at |-> place, send |-> 0]]

\* A letter is written if the last one came back, or if there never was one.
MayWrite ==
    /\ status \notin Settled
    /\ IF made = {} THEN ~sentLogged ELSE Recorded("bounced")

Start(j) ==
    /\ job[j].at = "waiting"
    /\ MoveTo(j, IF MayWrite THEN "rendering" ELSE "done")
    /\ JobStep /\ UNCHANGED <<made, count, pdfKept, sentLogged, mail, left>>

\* The tenant has lost the address, or the landlord the account to pay to.
Refuse(j) ==
    /\ job[j].at = "waiting" /\ MayWrite /\ Mishap
    /\ MoveTo(j, "done")
    /\ JobStep /\ UNCHANGED <<made, count, pdfKept, sentLogged, mail>>

\* After rendering the status is read again. The letter is stored, if it can be,
\* and its row made.
MakeSend(j) ==
    /\ job[j].at = "rendering" /\ count < Sends
    /\ IF status \in Settled
         THEN MoveTo(j, "done") /\ UNCHANGED <<made, count, pdfKept, left>>
         ELSE /\ count' = count + 1 /\ made' = made \cup {count + 1}
              /\ job' = [job EXCEPT ![j] = [at |-> "made", send |-> count + 1]]
              /\ \/ pdfKept' = TRUE /\ UNCHANGED left
                 \/ UNCHANGED pdfKept /\ Mishap
    /\ JobStep /\ UNCHANGED <<sentLogged, mail>>

\* Mutant: one key for every letter of the notice.
Key_PerNotice(s) == 1

\* The job id of the mail and the key the provider gets: rent-reminder-<row>.
Key(s) == s

\* MailQueue.enqueue: under an id the queue remembers, adding does nothing.
AddMail(s) ==
    mail' = [mail EXCEPT ![Key(s)] = IF @.at = "none" THEN [at |-> "waiting", send |-> s] ELSE @]

\* The mail is queued and the SENT event written.
QueueMail(j) ==
    /\ job[j].at = "made"
    /\ AddMail(job[j].send) /\ sentLogged' = TRUE
    /\ MoveTo(j, "done")
    /\ JobStep /\ UNCHANGED <<made, count, pdfKept, left>>

\* Mail is switched off: the row is taken away again, if that succeeds.
Suppress(j) ==
    /\ job[j].at = "made" /\ Mishap
    /\ made' \in {made, made \ {job[j].send}}
    /\ MoveTo(j, "done")
    /\ JobStep /\ UNCHANGED <<count, pdfKept, sentLogged, mail>>

\* A call throws or the worker dies, before or after the letter was stored or the
\* mail queued: the job is handed out again or given up.
JobFails(j) ==
    /\ job[j].at \in Working \cup {"waiting"} /\ Mishap
    /\ \/ job[j].at = "made" /\ AddMail(job[j].send)
       \/ UNCHANGED mail
    /\ \/ job[j].at = "rendering" /\ pdfKept' = TRUE
       \/ UNCHANGED pdfKept
    /\ \E place \in {"waiting", "done"} : MoveTo(j, place)
    /\ JobStep /\ UNCHANGED <<made, count, sentLogged>>

-----------------------------------------------------------------------------
(* The mail queue: processJob. *)

MailStep == UNCHANGED <<noticeVars, blockVars, evidenceVars, made, count, reported, posted,
                        unmatched, job, cron>>

MailTo(k, place) == mail' = [mail EXCEPT ![k].at = place]

\* A mail about a settled notice is dropped.
TakeMail(k) ==
    /\ mail[k].at = "waiting"
    /\ MailTo(k, IF status \in Settled THEN "dropped" ELSE "taken")
    /\ MailStep /\ UNCHANGED <<messageId, accepted, left>>

\* So is every mail when mail is switched off.
DropMail(k) ==
    /\ mail[k].at = "waiting" /\ Mishap
    /\ MailTo(k, "dropped")
    /\ MailStep /\ UNCHANGED <<messageId, accepted>>

\* The provider takes the mail; it answers a key it knows with the same id.
SendMail(k) ==
    /\ mail[k].at = "taken"
    /\ accepted' = accepted \cup {k}
    /\ MailTo(k, "sent")
    /\ MailStep /\ UNCHANGED <<messageId, left>>

\* Mutant: the id goes to the latest row, not to the row of the mail.
RowOf_Latest(k) == Latest

\* correlation.sendId.
RowOf(k) == mail[k].send

\* persistResendId, after the mail is out. If it fails, that is logged only.
PersistId(k) ==
    /\ mail[k].at = "sent"
    /\ \/ messageId' = [messageId EXCEPT ![RowOf(k)] = k] /\ UNCHANGED left
       \/ UNCHANGED messageId /\ Mishap
    /\ MailTo(k, "done")
    /\ MailStep /\ UNCHANGED accepted

\* A call throws or the worker dies; the provider may have taken the mail.
MailFails(k) ==
    /\ mail[k].at \in {"waiting", "taken", "sent"} /\ Mishap
    /\ \/ mail[k].at = "taken" /\ accepted' = accepted \cup {k}
       \/ UNCHANGED accepted
    /\ \E place \in {"waiting", "done"} : MailTo(k, place)
    /\ MailStep /\ UNCHANGED messageId

-----------------------------------------------------------------------------
(* The provider and its webhooks. *)

ProviderStep == UNCHANGED <<noticeVars, blockVars, sendVars, pdfKept, sentLogged, accepted,
                            job, mail, cron, left>>

\* A mail is delivered or comes back; a delivered one may still come back.
Report(k, o) ==
    /\ k \in accepted /\ <<k, "bounced">> \notin reported /\ <<k, o>> \notin reported
    /\ reported' = reported \cup {<<k, o>>} /\ posted' = posted \cup {<<k, o>>}
    /\ ProviderStep /\ UNCHANGED <<events, unmatched>>

\* The rows that bear the id.
Bearers(k) == {s \in made : messageId[s] = k}

\* recordNoticeDeliveryEvent: the outcome is recorded once on the row that bears
\* the id. A webhook that matches nothing is acknowledged all the same. The provider
\* may send it again.
Webhook(k, o) ==
    /\ <<k, o>> \in reported
    /\ events' = events \cup {<<s, o>> : s \in Bearers(k)}
    /\ unmatched' = IF Bearers(k) = {} THEN unmatched \cup {<<k, o>>} ELSE unmatched \ {<<k, o>>}
    /\ posted' = posted \ {<<k, o>>}
    /\ ProviderStep /\ UNCHANGED reported

-----------------------------------------------------------------------------
(* The collection cron job. *)

CronStep == UNCHANGED <<status, remindedAt, period, sendVars, evidenceVars, providerVars,
                        job, mail>>

CronTo(c, place) == cron' = [cron EXCEPT ![c] = place]

\* Mutant: a letter that did not come back counts as delivered.
Ready_NotBounced == pdfKept /\ sentLogged /\ made # {} /\ ~Recorded("bounced")

\* checkInkassoReadiness, all parties being fully registered.
Ready == pdfKept /\ sentLogged /\ Recorded("delivered") /\ ~Recorded("bounced")

\* The evidence is read outside the transaction that uses it.
ReadEvidence(c) ==
    /\ cron[c] = "idle" /\ status = "OVERDUE" /\ stage = "REMINDED"
    /\ CronTo(c, IF Ready THEN "clear" ELSE "blocked")
    /\ CronStep /\ UNCHANGED <<stage, blockVars, left>>

\* escalateNoticeToInkassoReady: one conditional update.
Flip(c) ==
    /\ cron[c] = "clear"
    /\ IF status = "OVERDUE" /\ stage = "REMINDED"
         THEN /\ stage' = "INKASSO_READY"
              /\ blockedSince' = "none" /\ blockedAlertedAt' = "nobody"
         ELSE UNCHANGED <<stage, blockedSince, blockedAlertedAt>>
    /\ CronTo(c, "idle")
    /\ CronStep /\ UNCHANGED <<alerted, left>>

\* The interest could not be booked, or a review paused the effect.
Abandon(c) ==
    /\ cron[c] = "clear"
    /\ CronTo(c, "idle")
    /\ CronStep /\ UNCHANGED <<stage, blockVars, left>>

\* larmaOmBlockeradAvi: the beginning of the standstill is written once.
MarkBlocked(c) ==
    /\ cron[c] = "blocked"
    /\ blockedSince' = IF blockedSince = "none" THEN "recent" ELSE blockedSince
    /\ CronTo(c, IF blockedSince = "old" /\ blockedAlertedAt = "nobody" THEN "late" ELSE "idle")
    /\ CronStep /\ UNCHANGED <<stage, blockedAlertedAt, alerted, left>>

\* Of the runs that found it seven days old one stamps the alert.
Stamp(c) ==
    /\ cron[c] = "late"
    /\ IF blockedAlertedAt = "nobody"
         THEN blockedAlertedAt' = c /\ CronTo(c, "alerting")
         ELSE UNCHANGED blockedAlertedAt /\ CronTo(c, "idle")
    /\ CronStep /\ UNCHANGED <<stage, blockedSince, alerted, left>>

\* The seven days pass.
Age ==
    /\ blockedSince = "recent"
    /\ blockedSince' = "old"
    /\ CronStep /\ UNCHANGED <<stage, blockedAlertedAt, alerted, cron, left>>

Alert(c) ==
    /\ cron[c] = "alerting"
    /\ alerted' = TRUE
    /\ CronTo(c, "idle")
    /\ CronStep /\ UNCHANGED <<stage, blockedSince, blockedAlertedAt, left>>

\* The stamp of this run is taken back.
TakeBack(c) == IF blockedAlertedAt = c THEN "nobody" ELSE blockedAlertedAt

\* The alert throws, or the process ends between the stamp and the alert.
AlertFails(c) ==
    /\ cron[c] = "alerting" /\ Mishap
    /\ blockedAlertedAt' \in {TakeBack(c)} \cup IF Dies THEN {c} ELSE {}
    /\ CronTo(c, "idle")
    /\ CronStep /\ UNCHANGED <<stage, blockedSince, alerted>>

-----------------------------------------------------------------------------

Standstill(c) == ReadEvidence(c) \/ MarkBlocked(c) \/ Stamp(c) \/ Alert(c) \/ AlertFails(c)

Next ==
    \/ Pay \/ Unmatch \/ Cancel \/ MarkOverdue
    \/ Remind \/ Age
    \/ \E j \in Job :
           \/ Resend(j) \/ Start(j) \/ Refuse(j) \/ MakeSend(j) \/ QueueMail(j)
           \/ Suppress(j) \/ JobFails(j)
    \/ \E k \in Send :
           \/ TakeMail(k) \/ DropMail(k) \/ SendMail(k) \/ PersistId(k) \/ MailFails(k)
           \/ \E o \in Outcome : Report(k, o) \/ Webhook(k, o)
    \/ \E c \in Cron : Standstill(c) \/ Flip(c) \/ Abandon(c)

Spec == Init /\ [][Next]_vars

\* The cron job runs every day, and a day passes.
FairSpec == Spec /\ WF_vars(Age)
                 /\ \A c \in Cron : WF_vars(Standstill(c)) /\ WF_vars(Flip(c) \/ Abandon(c))

-----------------------------------------------------------------------------
(* Properties. *)

TypeOK ==
    /\ status \in {"SENT", "OVERDUE"} \cup Settled
    /\ stage \in {"NONE", "REMINDED", "INKASSO_READY"}
    /\ remindedAt \in 0 .. Sends /\ period \in 0 .. Periods
    /\ blockedSince \in {"none", "recent", "old"} /\ blockedAlertedAt \in Cron \cup {"nobody"}
    /\ alerted \in BOOLEAN
    /\ count \in 0 .. Sends /\ made \subseteq 1 .. count /\ messageId \in [Send -> 0 .. Sends]
    /\ pdfKept \in BOOLEAN /\ sentLogged \in BOOLEAN /\ events \subseteq Send \X Outcome
    /\ accepted \subseteq Send /\ reported \subseteq accepted \X Outcome
    /\ posted \cup unmatched \subseteq reported
    /\ job \in [Job -> [at : {"free", "waiting", "done"} \cup Working, send : 0 .. Sends]]
    /\ mail \in [Send -> [at : {"none", "waiting", "taken", "sent", "done", "dropped"},
                          send : 0 .. Sends]]
    /\ cron \in [Cron -> {"idle", "clear", "blocked", "late", "alerting"}]
    /\ left \in 0 .. Mishaps

\* What the provider said of a letter: o was reported of the mail about row s.
Found(s, o) == \E k \in Send : mail[k].send = s /\ <<k, o>> \in reported

\* recordNoticeDeliveryEvent and persistResendId (#656): however the webhooks of
\* several letters are delayed, repeated and reordered, an outcome is recorded on
\* the letter it is about.
OutcomeOnItsSend == \A s \in Send, o \in Outcome : <<s, o>> \in events => Found(s, o)

\* escalateNoticeToInkassoReady, INV-B: a notice is handed to debt collection only
\* if a letter of its own has reached the tenant, was stored and was logged, however
\* late the evidence that was read is used.
ReadyWasDelivered ==
    stage = "INKASSO_READY" =>
        pdfKept /\ sentLogged /\ \E s \in Send : Found(s, "delivered")

Quiet ==
    /\ posted = {}
    /\ \A j \in Job : job[j].at \in {"free", "done"}
    /\ \A k \in Send : mail[k].at \in {"none", "done", "dropped"}
    /\ \A k \in accepted : \E o \in Outcome : <<k, o>> \in reported

\* A reminded notice that neither the cron jobs nor the button can move.
Stuck == status = "OVERDUE" /\ stage = "REMINDED" /\ Quiet /\ ~Ready /\ ~Resendable

\* Mail dropped because the notice was paid at the time, an outcome that came
\* before the id it bears was stored, and a letter that came back after it had
\* been delivered.
DroppedWhenPaid == \E k \in Send : mail[k] = [at |-> "dropped", send |-> Latest]
AnsweredTooEarly ==
    \E k \in Send, o \in Outcome : mail[k].send = Latest /\ <<k, o>> \in unmatched
CameBackLate == \A o \in Outcome : Recorded(o)

\* processReminderSendJob, bedömOmsändning and checkInkassoReadiness: where no step
\* failed, the gate of the job, the button and the evidence leave a reminded notice
\* without a way on in three cases only.
StuckHasCause ==
    Stuck => left < Mishaps \/ DroppedWhenPaid \/ AnsweredTooEarly \/ CameBackLate

\* larmaOmBlockeradAvi (#648): a notice that stands still in a period of its own is
\* alerted about in that period, also after an earlier standstill, with replicas
\* that race for the stamp, and when the alert fails.
StuckIsAlerted ==
    Stuck ~> (alerted \/ ~Stuck)

\* processReminderSendJob: "a second letter after a delivery is a duplicate" - but
\* the gate and the row it guards are two steps, and three PDF jobs run at once.
NoSecondLetter == \A s, t \in accepted : Found(s, "delivered") /\ Found(t, "delivered") => s = t

\* checkInkassoReadiness: the reminder the notice is charged for has been delivered -
\* but a notice opened again and reminded again is let through on the old letter.
LetterOfThisPeriod ==
    stage = "INKASSO_READY" => \E s \in made : s > remindedAt /\ Found(s, "delivered")

\* MailWorker: "the status sticks at sent until the next dispatch" - but an outcome
\* that came before the id leaves no next dispatch.
EarlyAnswerIsMended == ~(Stuck /\ AnsweredTooEarly /\ left = Mishaps)
===============================================================================
