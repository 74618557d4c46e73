------------------------ MODULE ReminderDeliveryProofs ------------------------
(***************************************************************************)
(* Proofs about ReminderDelivery, for any number of jobs, letters, cron    *)
(* jobs, periods and mishaps: an outcome is recorded on the letter it is   *)
(* about, a notice is handed to debt collection only if a letter of its    *)
(* own was delivered, and where nothing failed a reminded notice is left   *)
(* without a way on in three cases only.                                   *)
(***************************************************************************)
EXTENDS ReminderDelivery, TLAPS

LEMMA Bounds == Jobs \in Nat /\ Sends \in Nat /\ Periods \in Nat /\ Mishaps \in Nat
  BY BoundsAssumption

USE Bounds

-----------------------------------------------------------------------------
(* Types. *)

JobType  == [Job -> [at : {"free", "waiting", "done"} \cup Working, send : 0 .. Sends]]
MailType == [Send -> [at : {"none", "waiting", "taken", "sent", "done", "dropped"},
                      send : 0 .. Sends]]

\* The steps of the PDF queue touch its jobs, the rows, the mails and the evidence.
LEMMA MoveTypes ==
    ASSUME job \in JobType, NEW j \in Job,
           NEW place \in {"free", "waiting", "done"} \cup Working, MoveTo(j, place)
    PROVE  job' \in JobType
  BY DEF JobType, MoveTo

LEMMA AddTypes ==
    ASSUME mail \in MailType, NEW s \in 0 .. Sends, AddMail(s)
    PROVE  mail' \in MailType
  BY DEF MailType, AddMail, Key

LEMMA EnqueueTypes ==
    ASSUME job \in JobType, left \in 0 .. Mishaps, NEW j \in Job, Enqueue(j)
    PROVE  job' \in JobType /\ left' \in 0 .. Mishaps
  BY DEF JobType, Enqueue

LEMMA MishapTypes ==
    ASSUME left \in 0 .. Mishaps, Mishap
    PROVE  left' \in 0 .. Mishaps
  BY DEF Mishap

LEMMA MailToTypes ==
    ASSUME mail \in MailType, NEW k \in Send,
           NEW place \in {"waiting", "taken", "sent", "done", "dropped"}, MailTo(k, place)
    PROVE  mail' \in MailType
  BY DEF MailType, MailTo

LEMMA InitTypes == Init => TypeOK
<1>. SUFFICES ASSUME Init
              PROVE  TypeOK
  OBVIOUS
<1>1. job \in JobType /\ mail \in MailType
  BY DEF Init, JobType, MailType
<1>2. /\ messageId \in [Send -> 0 .. Sends]
      /\ cron \in [Cron -> {"idle", "clear", "blocked", "late", "alerting"}]
  BY DEF Init
<1>3. /\ made \subseteq 1 .. count /\ events \subseteq Send \X Outcome
      /\ accepted \subseteq Send /\ posted \cup unmatched \subseteq reported
      /\ reported \subseteq accepted \X Outcome
  BY DEF Init
<1>4. /\ status = "OVERDUE" /\ stage = "NONE" /\ remindedAt = 0 /\ period = 0 /\ count = 0
      /\ blockedSince = "none" /\ blockedAlertedAt = "nobody" /\ alerted = FALSE
      /\ pdfKept = FALSE /\ sentLogged = FALSE /\ left = Mishaps
  BY DEF Init
<1>5. /\ remindedAt \in 0 .. Sends /\ period \in 0 .. Periods /\ count \in 0 .. Sends
      /\ left \in 0 .. Mishaps
  BY <1>4
<1>6. /\ status \in {"SENT", "OVERDUE"} \cup Settled
      /\ stage \in {"NONE", "REMINDED", "INKASSO_READY"}
      /\ blockedSince \in {"none", "recent", "old"} /\ blockedAlertedAt \in Cron \cup {"nobody"}
      /\ alerted \in BOOLEAN /\ pdfKept \in BOOLEAN /\ sentLogged \in BOOLEAN
  BY <1>4
<1>. QED
  BY <1>1, <1>2, <1>3, <1>5, <1>6 DEF TypeOK, JobType, MailType

LEMMA NoticeTypes ==
    ASSUME TypeOK, Pay \/ Unmatch \/ Cancel \/ MarkOverdue
    PROVE  TypeOK'
<1>1. NoticeStep /\ status' \in {"SENT", "OVERDUE"} \cup Settled /\ stage' \in {"NONE", stage}
  BY DEF Pay, Unmatch, Cancel, MarkOverdue, Settled
<1>. QED
  BY <1>1 DEF TypeOK, NoticeStep, blockVars, sendVars, evidenceVars, providerVars

LEMMA AskTypes ==
    ASSUME TypeOK, Remind \/ \E j \in Job : Resend(j)
    PROVE  TypeOK'
<1>1. job' \in JobType /\ left' \in 0 .. Mishaps
  BY EnqueueTypes, MishapTypes DEF TypeOK, Remind, Resend, JobType
<1>2. CASE Remind
  <2>1. period' \in 0 .. Periods /\ remindedAt' \in 0 .. Sends
    BY <1>2 DEF TypeOK, Remind
  <2>2. UNCHANGED <<status, sendVars, evidenceVars, providerVars, mail, cron>>
    BY <1>2 DEF Remind
  <2>3. /\ stage' = "REMINDED" /\ alerted' = FALSE
        /\ blockedSince' = "none" /\ blockedAlertedAt' = "nobody"
    BY <1>2 DEF Remind, NewPeriod
  <2>. QED
    BY <1>1, <2>1, <2>2, <2>3 DEF TypeOK, JobType, sendVars, evidenceVars, providerVars
<1>3. CASE \E j \in Job : Resend(j)
  BY <1>1, <1>3 DEF TypeOK, Resend, JobType, noticeVars, blockVars, sendVars, evidenceVars,
                    providerVars
<1>. QED
  BY <1>2, <1>3

LEMMA JobTypes ==
    ASSUME TypeOK, NEW j \in Job,
           \/ Start(j) \/ Refuse(j) \/ MakeSend(j) \/ QueueMail(j) \/ Suppress(j) \/ JobFails(j)
    PROVE  TypeOK'
<1>. USE DEF TypeOK, JobStep, noticeVars, blockVars, providerVars
<1>0. job \in JobType /\ mail \in MailType /\ job[j].send \in 0 .. Sends
  BY DEF JobType, MailType
<1>1. CASE Start(j)
  BY <1>0, <1>1, MoveTypes DEF Start, JobType, Working
<1>2. CASE Refuse(j)
  BY <1>0, <1>2, MoveTypes, MishapTypes DEF Refuse, JobType
<1>3. CASE MakeSend(j)
  <2>1. CASE status \in Settled
    BY <1>0, <1>3, <2>1, MoveTypes DEF MakeSend, JobType
  <2>2. CASE status \notin Settled
    <3>0. count < Sends /\ count' = count + 1 /\ made' = made \cup {count + 1}
      BY <1>3, <2>2 DEF MakeSend
    <3>1. count' \in 0 .. Sends /\ made' \subseteq 1 .. count'
      <4>1. count \in 0 .. Sends /\ made \subseteq 1 .. count
        OBVIOUS
      <4>. HIDE DEF TypeOK
      <4>. QED
        BY <3>0, <4>1
    <3>2. job' \in JobType
      BY <1>0, <1>3, <2>2 DEF MakeSend, JobType, Working
    <3>3. /\ JobStep /\ UNCHANGED <<sentLogged, mail>>
          /\ pdfKept' \in BOOLEAN /\ left' \in 0 .. Mishaps
      BY <1>3, <2>2, MishapTypes DEF MakeSend
    <3>. QED
      BY <3>1, <3>2, <3>3 DEF JobType
  <2>. QED
    BY <2>1, <2>2
<1>4. CASE QueueMail(j)
  BY <1>0, <1>4, MoveTypes, AddTypes DEF QueueMail, JobType, MailType
<1>5. CASE Suppress(j)
  BY <1>0, <1>5, MoveTypes, MishapTypes DEF Suppress, JobType
<1>6. CASE JobFails(j)
  <2>1. mail' \in MailType
    BY <1>0, <1>6, AddTypes DEF JobFails
  <2>2. job' \in JobType
    BY <1>0, <1>6, MoveTypes DEF JobFails
  <2>. QED
    BY <1>6, <2>1, <2>2, MishapTypes DEF JobFails, JobType, MailType
<1>. QED
  BY <1>1, <1>2, <1>3, <1>4, <1>5, <1>6

LEMMA MailTypes ==
    ASSUME TypeOK, NEW k \in Send,
           \/ TakeMail(k) \/ DropMail(k) \/ SendMail(k) \/ PersistId(k) \/ MailFails(k)
    PROVE  TypeOK'
<1>. USE DEF TypeOK, MailStep, noticeVars, blockVars, evidenceVars
<1>0. MailStep
  BY DEF TakeMail, DropMail, SendMail, PersistId, MailFails
<1>1. mail' \in MailType
  BY MailToTypes DEF MailType, TakeMail, DropMail, SendMail, PersistId, MailFails
<1>2. left' \in 0 .. Mishaps
  BY MishapTypes DEF TakeMail, DropMail, SendMail, PersistId, MailFails
<1>3. messageId' \in [Send -> 0 .. Sends]
  <2>1. UNCHANGED messageId \/ messageId' = [messageId EXCEPT ![RowOf(k)] = k]
    BY DEF TakeMail, DropMail, SendMail, PersistId, MailFails
  <2>2. k \in 0 .. Sends
    BY DEF Send
  <2>. QED
    BY <2>1, <2>2
<1>4. accepted \subseteq accepted' /\ accepted' \subseteq Send
  BY DEF TakeMail, DropMail, SendMail, PersistId, MailFails
<1>5. reported' \subseteq accepted' \X Outcome /\ (posted \cup unmatched)' \subseteq reported'
  BY <1>0, <1>4
<1>. QED
  BY <1>0, <1>1, <1>2, <1>3, <1>4, <1>5 DEF MailType

LEMMA ProviderTypes ==
    ASSUME TypeOK, NEW k \in Send, NEW o \in Outcome, Report(k, o) \/ Webhook(k, o)
    PROVE  TypeOK'
<1>. USE DEF TypeOK, ProviderStep, noticeVars, blockVars, sendVars
<1>1. CASE Report(k, o)
  BY <1>1 DEF Report
<1>2. CASE Webhook(k, o)
  <2>1. made \subseteq Send
    BY DEF Send
  <2>2. events' \subseteq Send \X Outcome
    BY <1>2, <2>1 DEF Webhook, Bearers
  <2>3. (posted \cup unmatched)' \subseteq reported'
    BY <1>2 DEF Webhook
  <2>. QED
    BY <1>2, <2>2, <2>3 DEF Webhook
<1>. QED
  BY <1>1, <1>2

LEMMA CronTypes ==
    ASSUME TypeOK, Age \/ \E c \in Cron : Standstill(c) \/ Flip(c) \/ Abandon(c)
    PROVE  TypeOK'
<1>. USE DEF TypeOK, CronStep, CronTo, sendVars, evidenceVars, providerVars
<1>1. CASE Age
  BY <1>1 DEF Age
<1>2. ASSUME NEW c \in Cron, ReadEvidence(c) \/ Flip(c) \/ Abandon(c)
      PROVE  TypeOK'
  BY <1>2 DEF ReadEvidence, Flip, Abandon, blockVars
<1>3. ASSUME NEW c \in Cron, MarkBlocked(c) \/ Stamp(c) \/ Alert(c)
      PROVE  TypeOK'
  BY <1>3 DEF MarkBlocked, Stamp, Alert
<1>4. ASSUME NEW c \in Cron, AlertFails(c)
      PROVE  TypeOK'
  BY <1>4, MishapTypes DEF AlertFails, TakeBack
<1>. QED
  BY <1>1, <1>2, <1>3, <1>4 DEF Standstill

LEMMA NextTypes ==
    ASSUME TypeOK, [Next]_vars
    PROVE  TypeOK'
<1>1. CASE UNCHANGED vars
  BY <1>1 DEF TypeOK, vars, noticeVars, blockVars, sendVars, evidenceVars, providerVars
<1>2. CASE Next
  BY <1>2, NoticeTypes, AskTypes, JobTypes, MailTypes, ProviderTypes, CronTypes DEF Next
<1>. QED
  BY <1>1, <1>2

\* Every status, row and mark is one of the code's, for any number of jobs,
\* letters, replicas and mishaps.
THEOREM ReminderTypes == Spec => []TypeOK
  BY InitTypes, NextTypes, PTL DEF Spec


-----------------------------------------------------------------------------
(* An outcome is recorded on its letter. *)

\* A mail that was queued stays queued, about the same row.
MailsStay ==
    \A k \in Send : mail[k].at # "none" => mail'[k].at # "none" /\ mail'[k].send = mail[k].send

\* Who was answered has been sent, and the id of a row is that of its mail.
KnownMails ==
    /\ \A k \in accepted : mail[k].at # "none"
    /\ \A s \in Send : messageId[s] # 0 =>
           mail[messageId[s]].at # "none" /\ mail[messageId[s]].send = s

Matched == TypeOK /\ KnownMails /\ OutcomeOnItsSend

\* The steps that touch ids, events and what the provider has taken.
Touches(k) ==
    SendMail(k) \/ MailFails(k) \/ PersistId(k) \/ \E o \in Outcome : Webhook(k, o)

LEMMA Untouched ==
    ASSUME [Next]_vars
    PROVE  UNCHANGED <<messageId, events, accepted>> \/ \E k \in Send : Touches(k)
<1>1. CASE UNCHANGED vars
  BY <1>1 DEF vars, sendVars, evidenceVars, providerVars
<1>2. CASE Pay \/ Unmatch \/ Cancel \/ MarkOverdue
  BY <1>2 DEF Pay, Unmatch, Cancel, MarkOverdue, NoticeStep, sendVars, evidenceVars,
              providerVars
<1>3. CASE Remind \/ \E j \in Job : Resend(j)
  BY <1>3 DEF Remind, Resend, sendVars, evidenceVars, providerVars
<1>4. ASSUME NEW j \in Job,
             \/ Start(j) \/ Refuse(j) \/ MakeSend(j) \/ QueueMail(j)
             \/ Suppress(j) \/ JobFails(j)
      PROVE  UNCHANGED <<messageId, events, accepted>>
  BY <1>4 DEF Start, Refuse, MakeSend, QueueMail, Suppress, JobFails, JobStep, providerVars
<1>5. ASSUME NEW k \in Send, TakeMail(k) \/ DropMail(k)
      PROVE  UNCHANGED <<messageId, events, accepted>>
  BY <1>5 DEF TakeMail, DropMail, MailStep, evidenceVars
<1>6. ASSUME NEW k \in Send, NEW o \in Outcome, Report(k, o)
      PROVE  UNCHANGED <<messageId, events, accepted>>
  BY <1>6 DEF Report, ProviderStep, sendVars
<1>7. CASE Age \/ \E c \in Cron : Standstill(c) \/ Flip(c) \/ Abandon(c)
  BY <1>7 DEF Age, Standstill, ReadEvidence, MarkBlocked, Stamp, Alert, AlertFails, Flip,
              Abandon, CronStep, sendVars, evidenceVars, providerVars
<1>. QED
  BY <1>1, <1>2, <1>3, <1>4, <1>5, <1>6, <1>7 DEF Next, Touches

LEMMA MailToStays ==
    ASSUME mail \in MailType, NEW k \in Send, NEW place, place # "none", MailTo(k, place)
    PROVE  MailsStay
  BY DEF MailType, MailTo, MailsStay

LEMMA AddStays ==
    ASSUME mail \in MailType, NEW s, AddMail(s)
    PROVE  MailsStay
  BY DEF MailType, AddMail, Key, MailsStay

LEMMA NextMailsStay ==
    ASSUME TypeOK, [Next]_vars
    PROVE  MailsStay
<1>0. mail \in MailType
  BY DEF TypeOK, MailType
<1>1. CASE UNCHANGED vars
  BY <1>1 DEF vars, MailsStay
<1>2. CASE Pay \/ Unmatch \/ Cancel \/ MarkOverdue
  BY <1>2 DEF Pay, Unmatch, Cancel, MarkOverdue, NoticeStep, MailsStay
<1>3. CASE Remind \/ \E j \in Job : Resend(j)
  BY <1>3 DEF Remind, Resend, MailsStay
<1>4. ASSUME NEW j \in Job, Start(j) \/ Refuse(j) \/ MakeSend(j) \/ Suppress(j)
      PROVE  MailsStay
  BY <1>4 DEF Start, Refuse, MakeSend, Suppress, MailsStay
<1>5. ASSUME NEW j \in Job, QueueMail(j) \/ JobFails(j)
      PROVE  MailsStay
  <2>1. UNCHANGED mail \/ AddMail(job[j].send)
    BY <1>5 DEF QueueMail, JobFails
  <2>. QED
    BY <1>0, <2>1, AddStays DEF MailsStay
<1>6. ASSUME NEW k \in Send,
             TakeMail(k) \/ DropMail(k) \/ SendMail(k) \/ PersistId(k) \/ MailFails(k)
      PROVE  MailsStay
  <2>1. \E place \in {"waiting", "taken", "sent", "done", "dropped"} : MailTo(k, place)
    BY <1>6 DEF TakeMail, DropMail, SendMail, PersistId, MailFails
  <2>. QED
    BY <1>0, <2>1, MailToStays
<1>7. ASSUME NEW k \in Send, NEW o \in Outcome, Report(k, o) \/ Webhook(k, o)
      PROVE  MailsStay
  BY <1>7 DEF Report, Webhook, ProviderStep, MailsStay
<1>8. CASE Age \/ \E c \in Cron : Standstill(c) \/ Flip(c) \/ Abandon(c)
  BY <1>8 DEF Age, Standstill, ReadEvidence, MarkBlocked, Stamp, Alert, AlertFails, Flip,
              Abandon, CronStep, MailsStay
<1>. QED
  BY <1>1, <1>2, <1>3, <1>4, <1>5, <1>6, <1>7, <1>8 DEF Next

LEMMA ReportedGrows ==
    ASSUME [Next]_vars
    PROVE  reported \subseteq reported'
<1>1. CASE UNCHANGED vars
  BY <1>1 DEF vars, providerVars
<1>2. CASE Pay \/ Unmatch \/ Cancel \/ MarkOverdue
  BY <1>2 DEF Pay, Unmatch, Cancel, MarkOverdue, NoticeStep, providerVars
<1>3. CASE Remind \/ \E j \in Job : Resend(j)
  BY <1>3 DEF Remind, Resend, providerVars
<1>4. ASSUME NEW j \in Job,
             \/ Start(j) \/ Refuse(j) \/ MakeSend(j) \/ QueueMail(j)
             \/ Suppress(j) \/ JobFails(j)
      PROVE  UNCHANGED reported
  BY <1>4 DEF Start, Refuse, MakeSend, QueueMail, Suppress, JobFails, JobStep, providerVars
<1>5. ASSUME NEW k \in Send,
             TakeMail(k) \/ DropMail(k) \/ SendMail(k) \/ PersistId(k) \/ MailFails(k)
      PROVE  UNCHANGED reported
  BY <1>5 DEF TakeMail, DropMail, SendMail, PersistId, MailFails, MailStep
<1>6. ASSUME NEW k \in Send, NEW o \in Outcome, Report(k, o) \/ Webhook(k, o)
      PROVE  reported \subseteq reported'
  BY <1>6 DEF Report, Webhook
<1>7. CASE Age \/ \E c \in Cron : Standstill(c) \/ Flip(c) \/ Abandon(c)
  BY <1>7 DEF Age, Standstill, ReadEvidence, MarkBlocked, Stamp, Alert, AlertFails, Flip,
              Abandon, CronStep, providerVars
<1>. QED
  BY <1>1, <1>2, <1>3, <1>4, <1>5, <1>6, <1>7 DEF Next

\* What the provider found out about a letter stays found out.
LEMMA FoundStays ==
    ASSUME Matched, [Next]_vars, NEW s, NEW o, Found(s, o)
    PROVE  Found(s, o)'
<1>1. PICK k \in Send : mail[k].send = s /\ <<k, o>> \in reported
  BY DEF Found
<1>2. mail[k].at # "none"
  BY <1>1 DEF Matched, KnownMails, TypeOK
<1>3. mail'[k].send = s /\ <<k, o>> \in reported'
  BY <1>1, <1>2, NextMailsStay, ReportedGrows DEF Matched, MailsStay
<1>. QED
  BY <1>3 DEF Found

LEMMA MatchedNext ==
    ASSUME Matched, [Next]_vars
    PROVE  Matched'
<1>1. TypeOK' /\ MailsStay
  BY NextTypes, NextMailsStay DEF Matched
<1>2. \A s \in Send : messageId[s] # 0 => messageId[s] \in Send
  BY DEF Matched, TypeOK, Send
<1>3. /\ \A k \in accepted : k \in Send /\ mail'[k].at # "none"
      /\ \A s \in Send : messageId[s] # 0 =>
             mail'[messageId[s]].at # "none" /\ mail'[messageId[s]].send = s
  BY <1>1, <1>2 DEF Matched, KnownMails, MailsStay, TypeOK
<1>4. \A s \in Send, o \in Outcome : <<s, o>> \in events => Found(s, o)'
  BY FoundStays DEF Matched, OutcomeOnItsSend
<1>5. CASE UNCHANGED <<messageId, events, accepted>>
  BY <1>1, <1>3, <1>4, <1>5 DEF Matched, KnownMails, OutcomeOnItsSend
<1>6. ASSUME NEW k \in Send, SendMail(k) \/ MailFails(k)
      PROVE  Matched'
  <2>1. UNCHANGED <<messageId, events>>
    BY <1>6 DEF SendMail, MailFails, MailStep, evidenceVars
  <2>2. accepted' = accepted \/ (accepted' = accepted \cup {k} /\ mail[k].at = "taken")
    BY <1>6 DEF SendMail, MailFails
  <2>3. \A i \in accepted' : mail'[i].at # "none"
    BY <1>1, <1>3, <2>2 DEF MailsStay
  <2>. QED
    BY <1>1, <1>3, <1>4, <2>1, <2>3 DEF Matched, KnownMails, OutcomeOnItsSend
<1>7. ASSUME NEW k \in Send, PersistId(k)
      PROVE  Matched'
  <2>1. mail[k].at = "sent" /\ UNCHANGED <<events, accepted>>
    BY <1>7 DEF PersistId, MailStep, evidenceVars
  <2>2. messageId' = messageId \/ messageId' = [messageId EXCEPT ![mail[k].send] = k]
    BY <1>7 DEF PersistId, RowOf
  <2>3. mail'[k].at # "none" /\ mail'[k].send = mail[k].send
    BY <1>1, <2>1 DEF MailsStay
  <2>4. \A s \in Send : messageId'[s] = messageId[s] \/ (messageId'[s] = k /\ s = mail[k].send)
    BY <2>2 DEF Matched, TypeOK
  <2>5. \A s \in Send : messageId'[s] # 0 =>
            mail'[messageId'[s]].at # "none" /\ mail'[messageId'[s]].send = s
    BY <1>3, <2>3, <2>4
  <2>. QED
    BY <1>1, <1>3, <1>4, <2>1, <2>5 DEF Matched, KnownMails, OutcomeOnItsSend
<1>8. ASSUME NEW k \in Send, NEW o \in Outcome, Webhook(k, o)
      PROVE  Matched'
  <2>1. UNCHANGED <<messageId, accepted, mail, reported>> /\ <<k, o>> \in reported
    BY <1>8 DEF Webhook, ProviderStep, sendVars
  <2>2. events' = events \cup {<<s, o>> : s \in Bearers(k)}
    BY <1>8 DEF Webhook
  <2>3. \A s \in Bearers(k) : Found(s, o)'
    <3>1. k # 0 /\ made \subseteq Send
      BY DEF Matched, TypeOK, Send
    <3>2. \A s \in Bearers(k) : mail[k].send = s
      BY <3>1 DEF Bearers, Matched, KnownMails
    <3>. QED
      BY <2>1, <3>2 DEF Found
  <2>4. OutcomeOnItsSend'
    BY <1>4, <2>2, <2>3 DEF OutcomeOnItsSend
  <2>. QED
    BY <1>1, <1>3, <2>1, <2>4 DEF Matched, KnownMails
<1>. QED
  BY <1>5, <1>6, <1>7, <1>8, Untouched DEF Touches

LEMMA MatchedInit == Init => Matched
  BY InitTypes DEF Init, Matched, KnownMails, OutcomeOnItsSend

LEMMA SpecMatched == Spec => []Matched
  BY MatchedInit, MatchedNext, PTL DEF Spec

\* recordNoticeDeliveryEvent and persistResendId: an outcome is recorded on the
\* letter it is about, however webhooks are delayed, repeated and reordered, for
\* any number of letters and whatever fails.
THEOREM ReminderOutcomes == Spec => []OutcomeOnItsSend
<1>1. Matched => OutcomeOnItsSend
  BY DEF Matched
<1>. QED
  BY <1>1, SpecMatched, PTL

-----------------------------------------------------------------------------
(* What goes to debt collection was delivered. *)

Evidence == pdfKept /\ sentLogged /\ \E s \in Send : Found(s, "delivered")

\* A run that found the evidence complete may use it late: it does not go away.
Cleared ==
    /\ ReadyWasDelivered
    /\ \A c \in Cron : cron[c] = "clear" => Evidence

LEMMA LogsStay ==
    ASSUME TypeOK, [Next]_vars
    PROVE  (pdfKept => pdfKept') /\ (sentLogged => sentLogged')
<1>1. CASE UNCHANGED vars
  BY <1>1 DEF vars, evidenceVars
<1>2. CASE Pay \/ Unmatch \/ Cancel \/ MarkOverdue
  BY <1>2 DEF Pay, Unmatch, Cancel, MarkOverdue, NoticeStep, evidenceVars
<1>3. CASE Remind \/ \E j \in Job : Resend(j)
  BY <1>3 DEF Remind, Resend, evidenceVars
<1>4. ASSUME NEW j \in Job,
             \/ Start(j) \/ Refuse(j) \/ MakeSend(j) \/ QueueMail(j)
             \/ Suppress(j) \/ JobFails(j)
      PROVE  (pdfKept => pdfKept') /\ (sentLogged => sentLogged')
  BY <1>4 DEF Start, Refuse, MakeSend, QueueMail, Suppress, JobFails
<1>5. ASSUME NEW k \in Send,
             TakeMail(k) \/ DropMail(k) \/ SendMail(k) \/ PersistId(k) \/ MailFails(k)
      PROVE  UNCHANGED <<pdfKept, sentLogged>>
  BY <1>5 DEF TakeMail, DropMail, SendMail, PersistId, MailFails, MailStep, evidenceVars
<1>6. ASSUME NEW k \in Send, NEW o \in Outcome, Report(k, o) \/ Webhook(k, o)
      PROVE  UNCHANGED <<pdfKept, sentLogged>>
  BY <1>6 DEF Report, Webhook, ProviderStep
<1>7. CASE Age \/ \E c \in Cron : Standstill(c) \/ Flip(c) \/ Abandon(c)
  BY <1>7 DEF Age, Standstill, ReadEvidence, MarkBlocked, Stamp, Alert, AlertFails, Flip,
              Abandon, CronStep, evidenceVars
<1>. QED
  BY <1>1, <1>2, <1>3, <1>4, <1>5, <1>6, <1>7 DEF Next

LEMMA EvidenceStays ==
    ASSUME Matched, [Next]_vars, Evidence
    PROVE  Evidence'
<1>1. PICK s \in Send : Found(s, "delivered")
  BY DEF Evidence
<1>2. Found(s, "delivered")'
  BY <1>1, FoundStays
<1>3. pdfKept' /\ sentLogged'
  BY LogsStay DEF Evidence, Matched
<1>. QED
  BY <1>2, <1>3 DEF Evidence

LEMMA ReadyIsEvident ==
    ASSUME Matched, Ready
    PROVE  Evidence
<1>1. <<Latest, "delivered">> \in events
  BY DEF Ready, Recorded
<1>2. Latest \in Send
  BY <1>1 DEF Matched, TypeOK
<1>3. Found(Latest, "delivered")
  BY <1>1, <1>2 DEF Matched, OutcomeOnItsSend, Outcome
<1>. QED
  BY <1>2, <1>3 DEF Ready, Evidence

\* The only steps that clear a run or put the notice in the hands of collection.
LEMMA ClearedBy ==
    ASSUME TypeOK, [Next]_vars
    PROVE  /\ stage' = "INKASSO_READY" =>
                  stage = "INKASSO_READY" \/ \E c \in Cron : cron[c] = "clear"
           /\ \A c \in Cron : cron'[c] = "clear" => cron[c] = "clear" \/ Ready
<1>1. CASE UNCHANGED vars
  BY <1>1 DEF vars, noticeVars
<1>2. CASE Pay \/ Unmatch \/ Cancel \/ MarkOverdue
  BY <1>2 DEF Pay, Unmatch, Cancel, MarkOverdue, NoticeStep
<1>3. CASE Remind \/ \E j \in Job : Resend(j)
  BY <1>3 DEF Remind, Resend, noticeVars
<1>4. ASSUME NEW j \in Job,
             \/ Start(j) \/ Refuse(j) \/ MakeSend(j) \/ QueueMail(j)
             \/ Suppress(j) \/ JobFails(j)
      PROVE  UNCHANGED <<stage, cron>>
  BY <1>4 DEF Start, Refuse, MakeSend, QueueMail, Suppress, JobFails, JobStep, noticeVars
<1>5. ASSUME NEW k \in Send,
             TakeMail(k) \/ DropMail(k) \/ SendMail(k) \/ PersistId(k) \/ MailFails(k)
      PROVE  UNCHANGED <<stage, cron>>
  BY <1>5 DEF TakeMail, DropMail, SendMail, PersistId, MailFails, MailStep, noticeVars
<1>6. ASSUME NEW k \in Send, NEW o \in Outcome, Report(k, o) \/ Webhook(k, o)
      PROVE  UNCHANGED <<stage, cron>>
  BY <1>6 DEF Report, Webhook, ProviderStep, noticeVars
<1>7. ASSUME NEW c \in Cron, ReadEvidence(c)
      PROVE  UNCHANGED stage /\ \A d \in Cron : cron'[d] = "clear" => cron[d] = "clear" \/ Ready
  BY <1>7 DEF ReadEvidence, CronTo, TypeOK
<1>8. ASSUME NEW c \in Cron, Flip(c)
      PROVE  cron[c] = "clear" /\ \A d \in Cron : cron'[d] = "clear" => cron[d] = "clear"
  BY <1>8 DEF Flip, CronTo, TypeOK
<1>9. ASSUME NEW c \in Cron, MarkBlocked(c) \/ Stamp(c) \/ Alert(c) \/ AlertFails(c) \/ Abandon(c)
      PROVE  UNCHANGED stage /\ \A d \in Cron : cron'[d] = "clear" => cron[d] = "clear"
  BY <1>9 DEF MarkBlocked, Stamp, Alert, AlertFails, Abandon, CronTo, TypeOK
<1>10. CASE Age
  BY <1>10 DEF Age
<1>. QED
  BY <1>1, <1>2, <1>3, <1>4, <1>5, <1>6, <1>7, <1>8, <1>9, <1>10 DEF Next, Standstill

LEMMA ClearedNext ==
    ASSUME Matched, Cleared, [Next]_vars
    PROVE  Cleared'
<1>1. (\A c \in Cron : cron'[c] = "clear" => Evidence) /\ (stage' = "INKASSO_READY" => Evidence)
  BY ClearedBy, ReadyIsEvident DEF Cleared, ReadyWasDelivered, Evidence, Matched
<1>2. Evidence => Evidence'
  BY EvidenceStays
<1>. QED
  BY <1>1, <1>2 DEF Cleared, ReadyWasDelivered, Evidence

LEMMA ClearedInit == Init => Cleared
  BY DEF Init, Cleared, ReadyWasDelivered

\* escalateNoticeToInkassoReady, INV-B: what is handed to debt collection has been
\* stored, logged and delivered, for any number of letters and replicas and however
\* old the evidence that was read.
THEOREM ReminderDelivered == Spec => []ReadyWasDelivered
<1>1. Cleared => ReadyWasDelivered
  BY DEF Cleared
<1>. QED
  BY <1>1, SpecMatched, ClearedInit, ClearedNext, PTL DEF Spec

-----------------------------------------------------------------------------
(* A reminded notice without a way on. *)

InHand(s) == \E j \in Job : job[j].at = "made" /\ job[j].send = s
Sent(s)   == mail[s].at # "none" /\ sentLogged

\* Whatever fails: a notice that is paid leaves the ladder, a mail is about the row
\* of its key, and every webhook that came has left its trace.
Straight ==
    /\ stage = "REMINDED" => status = "OVERDUE"
    /\ \A k \in Send : mail[k].at # "none" => mail[k].send = k
    /\ reported \subseteq posted \cup unmatched \cup events

\* Where nothing failed, a letter that was asked for is being written, and a letter
\* that was written is stored and in the mail.
Smooth == left = Mishaps =>
    /\ made = 1 .. count
    /\ stage = "REMINDED" /\ made = {} => \E j \in Job : job[j].at \in {"waiting", "rendering"}
    /\ sentLogged => made # {}
    /\ \A j \in Job : job[j].at = "made" => job[j].send \in made
    /\ \A s \in made : pdfKept /\ (InHand(s) \/ Sent(s))
    /\ \A k \in Send : mail[k].at \in {"sent", "done"} => k \in accepted

LEMMA StraightInit == Init => Straight
  BY DEF Init, Straight

LEMMA StraightNext ==
    ASSUME Matched, Straight, [Next]_vars
    PROVE  Straight'
<1>. USE DEF Straight
<1>0. TypeOK /\ mail \in MailType
  BY DEF Matched, TypeOK, MailType
<1>1. CASE UNCHANGED vars
  BY <1>1 DEF vars, noticeVars, evidenceVars, providerVars
<1>2. CASE Pay \/ Unmatch \/ Cancel \/ MarkOverdue
  BY <1>2 DEF Pay, Unmatch, Cancel, MarkOverdue, NoticeStep, Settled, evidenceVars, providerVars
<1>3. CASE Remind \/ \E j \in Job : Resend(j)
  BY <1>3 DEF Remind, Resend, noticeVars, evidenceVars, providerVars
<1>4. ASSUME NEW j \in Job,
             \/ Start(j) \/ Refuse(j) \/ MakeSend(j) \/ QueueMail(j)
             \/ Suppress(j) \/ JobFails(j)
      PROVE  Straight'
  <2>1. UNCHANGED <<status, stage, events, reported, posted, unmatched>>
    BY <1>4 DEF Start, Refuse, MakeSend, QueueMail, Suppress, JobFails, JobStep, noticeVars,
                providerVars
  <2>2. UNCHANGED mail \/ AddMail(job[j].send)
    BY <1>4 DEF Start, Refuse, MakeSend, QueueMail, Suppress, JobFails
  <2>3. \A k \in Send : mail'[k].at # "none" => mail'[k].send = k
    BY <1>0, <2>2 DEF AddMail, Key, MailType
  <2>. QED
    BY <2>1, <2>3
<1>5. ASSUME NEW k \in Send,
             TakeMail(k) \/ DropMail(k) \/ SendMail(k) \/ PersistId(k) \/ MailFails(k)
      PROVE  Straight'
  <2>1. UNCHANGED <<status, stage, events, reported, posted, unmatched>>
    BY <1>5 DEF TakeMail, DropMail, SendMail, PersistId, MailFails, MailStep, noticeVars,
                evidenceVars
  <2>2. mail[k].at # "none" /\ \E place : MailTo(k, place)
    BY <1>5 DEF TakeMail, DropMail, SendMail, PersistId, MailFails
  <2>3. \A i \in Send : mail'[i].at # "none" => mail'[i].send = i
    BY <1>0, <2>2 DEF MailTo, MailType
  <2>. QED
    BY <2>1, <2>3
<1>6. ASSUME NEW k \in Send, NEW o \in Outcome, Report(k, o) \/ Webhook(k, o)
      PROVE  Straight'
  <2>1. UNCHANGED <<status, stage, mail>>
    BY <1>6 DEF Report, Webhook, ProviderStep, noticeVars
  <2>2. CASE Report(k, o)
    BY <2>1, <2>2 DEF Report
  <2>3. CASE Webhook(k, o)
    <3>0. made \subseteq Send /\ k # 0 /\ KnownMails
      BY DEF Matched, TypeOK, Send
    <3>1. \A s \in Bearers(k) : s = k
      BY <3>0 DEF Bearers, KnownMails
    <3>2. <<k, o>> \in (unmatched \cup events)'
      BY <2>3, <3>1 DEF Webhook
    <3>3. reported' = reported /\ posted' = posted \ {<<k, o>>} /\ events \subseteq events'
          /\ unmatched \ {<<k, o>>} \subseteq unmatched'
      BY <2>3 DEF Webhook
    <3>. QED
      BY <2>1, <3>2, <3>3
  <2>. QED
    BY <1>6, <2>2, <2>3
<1>7. CASE Age \/ \E c \in Cron : Standstill(c) \/ Flip(c) \/ Abandon(c)
  BY <1>7 DEF Age, Standstill, ReadEvidence, MarkBlocked, Stamp, Alert, AlertFails, Flip,
              Abandon, CronStep, evidenceVars, providerVars
<1>. QED
  BY <1>1, <1>2, <1>3, <1>4, <1>5, <1>6, <1>7 DEF Next

LEMMA SmoothInit == Init => Smooth
  BY DEF Init, Smooth

LEMMA NoMishap ==
    ASSUME TypeOK, left' = Mishaps
    PROVE  ~Mishap
  BY DEF TypeOK, Mishap

\* One more letter is asked for.
LEMMA SmoothAsked ==
    ASSUME TypeOK, Smooth, left' = left, NEW j \in Job, Enqueue(j),
           UNCHANGED <<made, count, pdfKept, sentLogged, mail, accepted>>
    PROVE  Smooth'
<1>1. job[j].at = "free" /\ job' = [job EXCEPT ![j].at = "waiting"]
  BY DEF Enqueue, IsNext
<1>2. job'[j].at = "waiting" /\ \A i \in Job : job'[i] = job[i] \/ i = j
  BY <1>1 DEF TypeOK
<1>3. \A s : InHand(s) => InHand(s)'
  BY <1>1, <1>2 DEF InHand
<1>. QED
  BY <1>1, <1>2, <1>3 DEF Smooth, Sent

\* Nothing happens to letters.
LEMMA SmoothStays ==
    ASSUME Smooth, left' = left, stage' = "REMINDED" => stage = "REMINDED",
           UNCHANGED <<made, count, pdfKept, sentLogged, mail, accepted, job>>
    PROVE  Smooth'
  BY DEF Smooth, InHand, Sent

LEMMA SmoothNext ==
    ASSUME Matched, Straight, Smooth, [Next]_vars
    PROVE  Smooth'
<1>. SUFFICES ASSUME left' = Mishaps
              PROVE  Smooth'
  BY DEF Smooth
<1>0. TypeOK /\ ~Mishap /\ job \in JobType /\ mail \in MailType
  BY NoMishap DEF Matched, TypeOK, JobType, MailType
<1>1. CASE UNCHANGED vars
  BY <1>1, SmoothStays DEF vars, noticeVars, sendVars, evidenceVars, providerVars
<1>2. CASE Pay \/ Unmatch \/ Cancel \/ MarkOverdue
  BY <1>2, SmoothStays
     DEF Pay, Unmatch, Cancel, MarkOverdue, NoticeStep, sendVars, evidenceVars, providerVars
<1>3. CASE Remind \/ \E j \in Job : Resend(j)
  <2>1. PICK j \in Job : Enqueue(j)
    BY <1>0, <1>3 DEF Remind, Resend
  <2>2. UNCHANGED <<made, count, pdfKept, sentLogged, mail, accepted>>
    BY <1>3 DEF Remind, Resend, sendVars, evidenceVars, providerVars
  <2>. QED
    BY <1>0, <2>1, <2>2, SmoothAsked DEF Enqueue
<1>4. ASSUME NEW j \in Job, Start(j)
      PROVE  Smooth'
  <2>1. PICK place \in {"rendering", "done"} : MoveTo(j, place) /\ (MayWrite => place = "rendering")
    BY <1>4 DEF Start
  <2>2. /\ UNCHANGED <<status, stage, made, count, pdfKept, sentLogged, mail, accepted, left>>
        /\ job[j].at = "waiting"
    BY <1>4 DEF Start, JobStep, noticeVars, providerVars
  <2>3. job'[j].at = place /\ \A i \in Job : job'[i] = job[i] \/ i = j
    BY <1>0, <2>1 DEF MoveTo, JobType
  <2>4. \A s : InHand(s) => InHand(s)'
    BY <2>2, <2>3 DEF InHand
  <2>5. stage' = "REMINDED" /\ made' = {} => MayWrite
    BY <2>2 DEF MayWrite, Straight, Smooth, Settled
  <2>. QED
    BY <2>1, <2>2, <2>3, <2>4, <2>5 DEF Smooth, Sent
<1>5. ASSUME NEW j \in Job, MakeSend(j)
      PROVE  Smooth'
  <2>1. /\ UNCHANGED <<status, stage, sentLogged, mail, accepted>> /\ left' = left
        /\ job[j].at = "rendering"
    BY <1>0, <1>5 DEF MakeSend, JobStep, noticeVars, providerVars
  <2>2. CASE status \in Settled
    <3>1. UNCHANGED <<made, count, pdfKept>> /\ MoveTo(j, "done")
      BY <1>5, <2>2 DEF MakeSend
    <3>2. job'[j].at = "done" /\ \A i \in Job : job'[i] = job[i] \/ i = j
      BY <1>0, <3>1 DEF MoveTo, JobType
    <3>3. \A s : InHand(s) => InHand(s)'
      BY <2>1, <3>2 DEF InHand
    <3>4. stage' # "REMINDED"
      BY <2>1, <2>2 DEF Straight, Settled
    <3>. QED
      BY <2>1, <3>1, <3>2, <3>3, <3>4 DEF Smooth, Sent
  <2>3. CASE status \notin Settled
    <3>1. count' = count + 1 /\ made' = made \cup {count + 1} /\ pdfKept' = TRUE
      BY <1>0, <1>5, <2>3 DEF MakeSend
    <3>2. job' = [job EXCEPT ![j] = [at |-> "made", send |-> count + 1]]
      BY <1>5, <2>3 DEF MakeSend
    <3>3. /\ job'[j] = [at |-> "made", send |-> count + 1]
          /\ \A i \in Job : job'[i] = job[i] \/ i = j
      BY <1>0, <3>2 DEF JobType
    <3>4. InHand(count)' /\ \A s : InHand(s) => InHand(s)'
      BY <2>1, <3>1, <3>3 DEF InHand
    <3>5. made = 1 .. count /\ count \in Nat => made' = 1 .. count'
      BY <3>1
    <3>6. count \in Nat
      BY <1>0 DEF TypeOK
    <3>. QED
      BY <2>1, <3>1, <3>3, <3>4, <3>5, <3>6 DEF Smooth, Sent
  <2>. QED
    BY <2>2, <2>3
<1>6. ASSUME NEW j \in Job, QueueMail(j)
      PROVE  Smooth'
  <2>. DEFINE s == job[j].send
  <2>1. /\ UNCHANGED <<status, stage, made, count, pdfKept, accepted, left>>
        /\ sentLogged' = TRUE
        /\ job[j].at = "made" /\ AddMail(s) /\ MoveTo(j, "done")
    BY <1>6 DEF QueueMail, JobStep, noticeVars, providerVars
  <2>2. s \in made /\ made \subseteq Send
    BY <1>0, <2>1 DEF Smooth, TypeOK, Send
  <2>3. job'[j].at = "done" /\ \A i \in Job : job'[i] = job[i] \/ i = j
    BY <1>0, <2>1 DEF MoveTo, JobType
  <2>4. /\ \A k \in Send : mail[k].at # "none" => mail'[k] = mail[k]
        /\ \A k \in Send : mail'[k].at \in {"sent", "done"} => mail'[k] = mail[k]
        /\ mail'[s].at # "none"
    BY <1>0, <2>1, <2>2 DEF AddMail, Key, MailType
  <2>5. \A t \in made : InHand(t) => t = s \/ InHand(t)'
    BY <2>1, <2>3 DEF InHand
  <2>6. \A t \in made' : InHand(t)' \/ Sent(t)'
    BY <2>1, <2>2, <2>4, <2>5 DEF Smooth, Sent
  <2>7. \A k \in Send : mail'[k].at \in {"sent", "done"} => k \in accepted'
    BY <2>1, <2>4 DEF Smooth
  <2>8. \A i \in Job : job[i].at \in {"waiting", "rendering"} => job'[i] = job[i]
    BY <2>1, <2>3
  <2>9. \A i \in Job : job'[i].at = "made" => job'[i] = job[i]
    BY <2>3
  <2>. HIDE DEF s
  <2>. QED
    BY <2>1, <2>2, <2>6, <2>7, <2>8, <2>9 DEF Smooth
<1>7. ASSUME NEW j \in Job, Refuse(j) \/ Suppress(j) \/ JobFails(j)
      PROVE  FALSE
  BY <1>0, <1>7 DEF Refuse, Suppress, JobFails
<1>8. ASSUME NEW k \in Send,
             TakeMail(k) \/ DropMail(k) \/ SendMail(k) \/ PersistId(k) \/ MailFails(k)
      PROVE  Smooth'
  <2>1. UNCHANGED <<status, stage, made, count, pdfKept, sentLogged, job>> /\ left' = left
    BY <1>0, <1>8 DEF TakeMail, DropMail, SendMail, PersistId, MailFails, MailStep, noticeVars,
                      evidenceVars
  <2>2. accepted \subseteq accepted'
    BY <1>8 DEF TakeMail, DropMail, SendMail, PersistId, MailFails
  <2>3. \E place : MailTo(k, place) /\ place # "none"
                   /\ (place \in {"sent", "done"} => mail[k].at = "sent" \/ k \in accepted')
    BY <1>0, <1>8 DEF TakeMail, DropMail, SendMail, PersistId, MailFails
  <2>4. /\ \A i \in Send : mail[i].at # "none" => mail'[i].at # "none"
        /\ \A i \in Send : mail'[i].at \in {"sent", "done"} =>
               mail[i].at \in {"sent", "done"} \/ i \in accepted'
    BY <1>0, <2>3 DEF MailTo, MailType
  <2>5. made \subseteq Send
    BY <1>0 DEF TypeOK, Send
  <2>6. \A i \in Send : mail'[i].at \in {"sent", "done"} => i \in accepted'
    BY <2>1, <2>2, <2>4 DEF Smooth
  <2>7. \A s \in made : InHand(s) \/ Sent(s) => InHand(s)' \/ Sent(s)'
    BY <2>1, <2>4, <2>5 DEF InHand, Sent
  <2>. QED
    BY <2>1, <2>6, <2>7 DEF Smooth
<1>9. ASSUME NEW k \in Send, NEW o \in Outcome, Report(k, o) \/ Webhook(k, o)
      PROVE  Smooth'
  BY <1>9, SmoothStays DEF Report, Webhook, ProviderStep, noticeVars, sendVars
<1>10. CASE Age \/ \E c \in Cron : Standstill(c) \/ Flip(c) \/ Abandon(c)
  <2>1. UNCHANGED <<made, count, pdfKept, sentLogged, mail, accepted, job>> /\ left' = left
    BY <1>0, <1>10 DEF Age, Standstill, ReadEvidence, MarkBlocked, Stamp, Alert, AlertFails, Flip,
                       Abandon, CronStep, sendVars, evidenceVars, providerVars
  <2>2. stage' \in {stage, "INKASSO_READY"}
    BY <1>10 DEF Age, Standstill, ReadEvidence, MarkBlocked, Stamp, Alert, AlertFails, Flip,
                Abandon
  <2>. QED
    BY <2>1, <2>2, SmoothStays
<1>. QED
  BY <1>1, <1>2, <1>3, <1>4, <1>5, <1>6, <1>7, <1>8, <1>9, <1>10 DEF Next

LEMMA LatestIsLast ==
    ASSUME count \in Nat, made = 1 .. count
    PROVE  Latest = count
<1>1. made \cup {0} = 0 .. count
  OBVIOUS
<1>2. \A x \in 0 .. count : (\A y \in 0 .. count : x >= y) <=> x = count
  OBVIOUS
<1>3. count \in 0 .. count
  OBVIOUS
<1>. QED
  BY <1>1, <1>2, <1>3 DEF Latest, Max

LEMMA SmoothHasCause ==
    ASSUME Matched, Straight, Smooth
    PROVE  StuckHasCause
<1>. SUFFICES ASSUME Stuck, left = Mishaps, ~DroppedWhenPaid, ~AnsweredTooEarly, ~CameBackLate
              PROVE  FALSE
  BY DEF StuckHasCause, Matched, TypeOK
<1>1. /\ stage = "REMINDED" /\ Quiet /\ ~Ready
      /\ made # {} => ~(Recorded("bounced") /\ ~Recorded("delivered"))
  BY DEF Stuck, Resendable
<1>2. made # {}
  BY <1>1 DEF Smooth, Quiet
<1>3. Latest \in made /\ Latest \in Send
  BY <1>2, LatestIsLast DEF Smooth, Matched, TypeOK, Send
<1>4. pdfKept /\ sentLogged /\ mail[Latest].at # "none"
  BY <1>1, <1>3 DEF Smooth, InHand, Sent, Quiet
<1>5. mail[Latest].send = Latest
  BY <1>3, <1>4 DEF Straight
<1>6. mail[Latest].at = "done"
  <2>1. mail[Latest].at \in {"done", "dropped"}
    BY <1>1, <1>3, <1>4 DEF Quiet
  <2>2. mail[Latest].at # "dropped"
    <3>1. mail[Latest] \in [at : {"none", "waiting", "taken", "sent", "done", "dropped"},
                            send : 0 .. Sends]
      BY <1>3 DEF Matched, TypeOK
    <3>2. mail[Latest] # [at |-> "dropped", send |-> Latest]
      BY <1>3 DEF DroppedWhenPaid
    <3>. QED
      BY <1>5, <3>1, <3>2
  <2>. QED
    BY <2>1, <2>2
<1>7. PICK o \in Outcome : <<Latest, o>> \in reported
  BY <1>1, <1>3, <1>6 DEF Smooth, Quiet
<1>8. Recorded(o)
  BY <1>1, <1>3, <1>5, <1>7 DEF Straight, Quiet, AnsweredTooEarly, Recorded
<1>9. ~Recorded("delivered") \/ ~Recorded("bounced")
  BY DEF CameBackLate, Outcome
<1>. QED
  BY <1>1, <1>2, <1>4, <1>7, <1>8, <1>9 DEF Ready, Outcome

\* processReminderSendJob, bedömOmsändning and checkInkassoReadiness: where no step
\* failed, a reminded notice that nothing can move any more is one whose mail was
\* dropped while it was paid, whose webhook came before its id was stored, or whose
\* letter came back after it had been delivered - for any number of letters.
THEOREM ReminderStuck == Spec => []StuckHasCause
  BY SpecMatched, StraightInit, StraightNext, SmoothInit, SmoothNext, SmoothHasCause, PTL
     DEF Spec

===============================================================================
