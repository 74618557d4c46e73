------------------------------ MODULE ReviewPause ------------------------------
(***************************************************************************)
(* While nobody knows whose a bank row is, or an import left money out, no *)
(* automatic claim (reminder, fee, interest, write-down) may take effect   *)
(* in the organisation. Whoever makes a row unresolved takes the           *)
(* organisation's advisory lock exclusively, every effect takes it shared  *)
(* and looks for such rows before anything else in its transaction.        *)
(*                                                                         *)
(* The first unresolved row opens a period, the last decision ends it. An  *)
(* open period is announced to the operators once: a notice each and a     *)
(* mail each, after the commit or by the daily sweeper.                    *)
(*                                                                         *)
(* A transaction that holds the lock exclusively is one action, enabled    *)
(* when nobody holds it shared; those that hold it shared are step by step.*)
(***************************************************************************)
EXTENDS Naturals

CONSTANTS
    Row,            \* bank rows
    Stop,           \* import stops: money an import could not take in
    RentEffect,     \* automatic effects on rent notices
    InvoiceEffect,  \* and on invoices, which do not ask how fresh the data is
    Operator,       \* operators' requests that may be under way at once
    Announcer,      \* calls of aviseraGranskningspaus under way at once
    Recipient,      \* the active operators of the organisation
    Pause,          \* ids of periods
    Faults,         \* errors and crashes in one behaviour
    Command         \* what the actors of the instance do

Commands == {"match", "ignore", "unmatch", "flag", "stop", "data"}

ASSUME FaultsAssumption  == Faults \in Nat
ASSUME CommandAssumption == Command \subseteq Commands

Effect == RentEffect \cup InvoiceEffect

VARIABLES
    bank,       \* BankTransaction.status; "none" before the import, "STUCK" for a
                \* row that is IGNORED with its allocations still there
    marked,     \* rows whose identityReviewAt is set; it is never cleared
    stop,       \* BankImportStop: "none", "open" or "resolved"
    started,    \* Organization.paymentImportStartedAt is set
    through,    \* paymentDataThrough: "none", "fresh" or "old"
    effect,     \* how far the transaction of each effect is
    request,    \* each operator's request: the row, and whether it saw the mark
    pause,      \* BankIdentityReviewPause, and the notices and mails of each
    call,       \* each call that announces: its period and what it read of it
    faults      \* errors and crashes left

rowVars  == <<bank, marked>>
gateVars == <<stop, started, through, effect>>
vars     == <<rowVars, gateVars, request, pause, call, faults>>

NoRequest == [kind |-> "none"]
NoCall    == [at |-> "idle"]
NewPause  == [state |-> "none", notified |-> FALSE, mailed |-> FALSE,
              notices |-> 0, mails |-> [u \in Recipient |-> 0]]

Init ==
    /\ bank = [r \in Row |-> "none"] /\ marked = {}
    /\ stop = [s \in Stop |-> "none"]
    /\ started = FALSE /\ through = "none"
    /\ effect = [e \in Effect |-> "idle"]
    /\ request = [o \in Operator |-> NoRequest]
    /\ pause = [k \in Pause |-> NewPause]
    /\ call = [a \in Announcer |-> NoCall]
    /\ faults = Faults

\* identitetsgranskning: the one condition everybody reads.
Unresolved == {r \in marked : bank[r] = "UNMATCHED"}
OpenStops  == {s \in Stop : stop[s] = "open"}
Open(k)    == pause[k].state = "open"

-----------------------------------------------------------------------------
(* The effects, under the shared lock. *)

\* Mutant: an import without a date does not pause.
Stale_Old == through = "old"

Stale == through = "old" \/ (through = "none" /\ started)

Step(e, from, to) ==
    /\ effect[e] = from
    /\ effect' = [effect EXCEPT ![e] = to]
    /\ UNCHANGED <<rowVars, stop, started, through, request, pause, call, faults>>

\* The lock is taken first; the checks are statements of their own, and each
\* reads what is committed when it runs.
Enter(e)      == Step(e, "idle", IF e \in RentEffect THEN "locked" ELSE "fresh")
CheckData(e)  == Step(e, "locked", IF Stale THEN "idle" ELSE "fresh")
CheckRows(e)  == Step(e, "fresh", IF Unresolved # {} THEN "idle" ELSE "clear")
CheckStops(e) == Step(e, "clear", IF OpenStops # {} THEN "idle" ELSE "allowed")

\* The claim, its voucher and its letter's right to be queued are committed, or
\* all of it is rolled back.
Commit(e)     == Step(e, "allowed", "idle")

\* Mutant: the writer does not wait for the effects.
MayWrite_Always == TRUE

\* The exclusive lock is granted.
MayWrite == \A e \in Effect : effect[e] = "idle"

-----------------------------------------------------------------------------
(* Imports and automatic matching. *)

\* oppnaGranskningsperiod: ON CONFLICT DO NOTHING against the partial index.
OpenPeriod ==
    IF \E k \in Pause : Open(k)
      THEN UNCHANGED pause
      ELSE \E k \in Pause : pause[k].state = "none" /\ pause' = [pause EXCEPT ![k].state = "open"]

StartImport ==
    /\ ~started /\ MayWrite
    /\ started' = TRUE
    /\ UNCHANGED <<rowVars, stop, through, effect, request, pause, call, faults>>

StorePlain(r) ==
    /\ started /\ bank[r] = "none"
    /\ bank' = [bank EXCEPT ![r] = "UNMATCHED"]
    /\ UNCHANGED <<marked, gateVars, request, pause, call, faults>>

\* A row that may be known already: stored, marked, and never matched by itself.
StoreForReview(r) ==
    /\ started /\ bank[r] = "none" /\ MayWrite
    /\ bank' = [bank EXCEPT ![r] = "UNMATCHED"] /\ marked' = marked \cup {r}
    /\ OpenPeriod
    /\ UNCHANGED <<gateVars, request, call, faults>>

\* markeraHistoriskSkuld, called by an automatic run.
Flag(r) ==
    /\ "flag" \in Command
    /\ bank[r] = "UNMATCHED" /\ r \notin marked /\ MayWrite
    /\ marked' = marked \cup {r}
    /\ OpenPeriod
    /\ UNCHANGED <<bank, gateVars, request, call, faults>>

RegisterStop(s) ==
    /\ "stop" \in Command
    /\ started /\ stop[s] = "none" /\ MayWrite
    /\ stop' = [stop EXCEPT ![s] = "open"]
    /\ UNCHANGED <<rowVars, started, through, effect, request, pause, call, faults>>

ResolveStop(s) ==
    /\ stop[s] = "open"
    /\ stop' = [stop EXCEPT ![s] = "resolved"]
    /\ UNCHANGED <<rowVars, started, through, effect, request, pause, call, faults>>

\* recordPaymentDataThrough: only forward, and without the lock.
DataThrough ==
    /\ "data" \in Command /\ started
    /\ \/ through = "none" /\ through' \in {"fresh", "old"}
       \/ through = "old"  /\ through' = "fresh"
    /\ UNCHANGED <<rowVars, stop, started, effect, request, pause, call, faults>>

Age ==
    /\ through = "fresh" /\ through' = "old"
    /\ UNCHANGED <<rowVars, stop, started, effect, request, pause, call, faults>>

-----------------------------------------------------------------------------
(* The operators. A request reads the row first and acts on it later. *)

\* A row without allocations can be matched, ignored ones too.
Readable(kind) == CASE kind = "match"   -> {"UNMATCHED", "IGNORED"}
                    [] kind = "ignore"  -> {"UNMATCHED", "MATCHED", "IGNORED", "STUCK"}
                    [] kind = "unmatch" -> {"MATCHED"}

ReadRow(o, r, kind) ==
    /\ kind \in Command /\ request[o] = NoRequest /\ bank[r] \in Readable(kind)
    /\ request' = [request EXCEPT ![o] = [kind |-> kind, row |-> r, saw |-> r \in marked]]
    /\ UNCHANGED <<rowVars, gateVars, pause, call, faults>>

\* Only a match asks again under the row's lock.
Goes(o, kind) ==
    /\ request[o].kind = kind
    /\ kind = "match" => bank[request[o].row] \in Readable(kind)

\* manualMatch and ignoreTransaction: the decision is a transaction of its own.
Decide(o, kind, outcome) ==
    /\ Goes(o, kind)
    /\ bank' = [bank EXCEPT ![request[o].row] = outcome]
    /\ request' = [request EXCEPT ![o] = IF @.saw THEN [kind |-> "settle"] ELSE NoRequest]
    /\ UNCHANGED <<marked, gateVars, pause, call, faults>>

Match(o)  == Decide(o, "match", "MATCHED")
Ignore(o) == Decide(o, "ignore", IF bank[request[o].row] \in {"MATCHED", "STUCK"}
                                   THEN "STUCK" ELSE "IGNORED")

Unmatch(o) ==
    /\ Goes(o, "unmatch") /\ MayWrite
    /\ bank' = [bank EXCEPT ![request[o].row] = "UNMATCHED"]
    /\ IF request[o].saw THEN OpenPeriod ELSE UNCHANGED pause
    /\ request' = [request EXCEPT ![o] = NoRequest]
    /\ UNCHANGED <<marked, gateVars, call, faults>>

Refused(o) ==
    /\ request[o].kind = "match" /\ ~Goes(o, "match")
    /\ request' = [request EXCEPT ![o] = NoRequest]
    /\ UNCHANGED <<rowVars, gateVars, pause, call, faults>>

\* Mutant: the caller's row is taken to be the last.
AllResolved_OfCaller == TRUE

\* Counted under the lock.
AllResolved == Unresolved = {}

\* avslutaGranskningsperiodOmLost: a transaction of its own after the decision's.
Settle(o) ==
    /\ request[o].kind = "settle" /\ MayWrite
    /\ pause' = [k \in Pause |-> IF AllResolved /\ Open(k)
                                   THEN [pause[k] EXCEPT !.state = "ended"] ELSE pause[k]]
    /\ request' = [request EXCEPT ![o] = NoRequest]
    /\ UNCHANGED <<rowVars, gateVars, call, faults>>

\* An error, a lock that is not granted in time, or the end of the process.
RequestDies(o) ==
    /\ faults > 0 /\ request[o] # NoRequest
    /\ request' = [request EXCEPT ![o] = NoRequest] /\ faults' = faults - 1
    /\ UNCHANGED <<rowVars, gateVars, pause, call>>

-----------------------------------------------------------------------------
(* The announcement, by whoever opened the period or by the sweeper. *)

\* Mutant: the sweeper looks for periods of which nothing is announced.
Sweepable_Untouched(k) == Open(k) /\ ~pause[k].notified /\ ~pause[k].mailed

\* sveparGranskningspauser.
Sweepable(k) == Open(k) /\ (~pause[k].notified \/ ~pause[k].mailed)

Begin(a, k) ==
    /\ call[a] = NoCall /\ Sweepable(k)
    /\ call' = [call EXCEPT ![a] = [at |-> "read", id |-> k, left |-> Recipient,
                                    notified |-> pause[k].notified, mailed |-> pause[k].mailed]]
    /\ UNCHANGED <<rowVars, gateVars, request, pause, faults>>

CountRows(a) ==
    /\ call[a].at = "read"
    /\ call' = [call EXCEPT ![a] = IF Unresolved = {} THEN NoCall ELSE [@ EXCEPT !.at = "notify"]]
    /\ UNCHANGED <<rowVars, gateVars, request, pause, faults>>

\* Mutant: it is enough that the period was not notified when it was read.
MayNotify_AsRead(k) == TRUE

\* The claim of the marker, in the transaction of the notices.
MayNotify(k) == ~pause[k].notified

Notify(a) ==
    /\ call[a].at = "notify"
    /\ LET c == call[a] IN
       /\ IF ~c.notified /\ Recipient # {} /\ MayNotify(c.id)
            THEN pause' = [pause EXCEPT ![c.id].notified = TRUE, ![c.id].notices = @ + 1]
            ELSE UNCHANGED pause
       /\ call' = [call EXCEPT ![a] = IF c.mailed \/ Recipient = {}
                                        THEN NoCall ELSE [@ EXCEPT !.at = "mail"]]
    /\ UNCHANGED <<rowVars, gateVars, request, faults>>

\* Mutant: the mail has no key of its own.
Queued_WithoutKey(k, u) == pause[k].mails[u] + 1

\* The mails under the key of the period and the recipient: the queue adds one
\* under a key it does not know.
Queued(k, u) == IF pause[k].mails[u] = 0 THEN 1 ELSE pause[k].mails[u]

Post(k, u) == pause' = [pause EXCEPT ![k].mails[u] = Queued(k, u)]

Mail(a) ==
    /\ call[a].at = "mail"
    /\ \E u \in call[a].left :
         /\ Post(call[a].id, u)
         /\ call' = [call EXCEPT ![a].left = @ \ {u}]
    /\ UNCHANGED <<rowVars, gateVars, request, faults>>

\* mailQueuedAt, after the queue has answered for every recipient.
MarkMailed(a) ==
    /\ call[a].at = "mail" /\ call[a].left = {}
    /\ pause' = [pause EXCEPT ![call[a].id].mailed = TRUE]
    /\ call' = [call EXCEPT ![a] = NoCall]
    /\ UNCHANGED <<rowVars, gateVars, request, faults>>

\* An error, the end of the process, or a queue that does not answer in time and
\* may have taken the mail.
CallDies(a) ==
    /\ faults > 0 /\ call[a] # NoCall
    /\ call' = [call EXCEPT ![a] = NoCall] /\ faults' = faults - 1
    /\ \/ UNCHANGED pause
       \/ call[a].at = "mail" /\ \E u \in call[a].left : Post(call[a].id, u)
    /\ UNCHANGED <<rowVars, gateVars, request>>

-----------------------------------------------------------------------------

EffectStep(e)   == Enter(e) \/ CheckData(e) \/ CheckRows(e) \/ CheckStops(e) \/ Commit(e)
OperatorStep(o) == Match(o) \/ Ignore(o) \/ Unmatch(o) \/ Refused(o) \/ Settle(o)
CallStep(a)     == (\E k \in Pause : Begin(a, k)) \/ CountRows(a) \/ Notify(a) \/ Mail(a) \/ MarkMailed(a)

Next ==
    \/ \E e \in Effect : EffectStep(e)
    \/ StartImport \/ DataThrough \/ Age
    \/ \E r \in Row : StorePlain(r) \/ StoreForReview(r) \/ Flag(r)
    \/ \E s \in Stop : RegisterStop(s) \/ ResolveStop(s)
    \/ \E o \in Operator, r \in Row, kind \in {"match", "ignore", "unmatch"} : ReadRow(o, r, kind)
    \/ \E o \in Operator : OperatorStep(o) \/ RequestDies(o)
    \/ \E a \in Announcer : CallStep(a) \/ CallDies(a)

Spec == Init /\ [][Next]_vars

\* The sweeper runs every morning, and a call that has begun goes on.
FairSpec == Spec /\ \A a \in Announcer : WF_vars(CallStep(a))

-----------------------------------------------------------------------------
(* Properties. *)

Pauses   == [state : {"none", "open", "ended"}, notified : BOOLEAN, mailed : BOOLEAN,
             notices : Nat, mails : [Recipient -> Nat]]
Requests == {NoRequest, [kind |-> "settle"]}
            \cup [kind : {"match", "ignore", "unmatch"}, row : Row, saw : BOOLEAN]
Calls    == {NoCall} \cup [at : {"read", "notify", "mail"}, id : Pause, left : SUBSET Recipient,
                           notified : BOOLEAN, mailed : BOOLEAN]

TypeOK ==
    /\ bank \in [Row -> {"none", "UNMATCHED", "MATCHED", "IGNORED", "STUCK"}] /\ marked \subseteq Row
    /\ stop \in [Stop -> {"none", "open", "resolved"}]
    /\ started \in BOOLEAN /\ through \in {"none", "fresh", "old"}
    /\ effect \in [Effect -> {"idle", "locked", "fresh", "clear", "allowed"}]
    /\ request \in [Operator -> Requests]
    /\ pause \in [Pause -> Pauses] /\ call \in [Announcer -> Calls]
    /\ faults \in 0 .. Faults

\* assertAutomaticEffectAllowed: whatever is imported, unmatched or flagged while an
\* effect is between its checks and its commit, it commits only while no payment's
\* identity and no import stop is undecided.
NoClaimUnderReview ==
    \A e \in Effect : effect[e] = "allowed" => Unresolved = {} /\ OpenStops = {}

\* recordImportStarted: from the first import on, no effect on a rent notice commits
\* before there is payment data.
NoClaimBeforeData ==
    \A e \in RentEffect : effect[e] = "allowed" => ~started \/ through # "none"

\* oppna- and avslutaGranskningsperiod: however opening, ending, flagging and matching
\* cross, no row becomes unresolved without a period, and no period ends while a row is
\* unresolved; but for one step, the unmatch of a row that was flagged and matched by
\* others after the unmatch had read it without its mark. Whatever other row becomes
\* unresolved in such a pause opens its period again.
UnresolvedHasPeriod == Unresolved # {} => \E k \in Pause : Open(k)
UnseenMark          == \E o \in Operator :
                           Unmatch(o) /\ ~request[o].saw /\ request[o].row \in marked
PeriodIsKept ==
    [][UnresolvedHasPeriod' \/ UnseenMark \/ (~UnresolvedHasPeriod /\ Unresolved' \subseteq Unresolved)]_vars

\* aviseraGranskningspaus: the operators get one notice for a period and one mail each,
\* though the writer's call and the sweeper's overlap and any of them dies anywhere.
AnnouncedOnce ==
    \A k \in Pause : pause[k].notices <= 1 /\ \A u \in Recipient : pause[k].mails[u] <= 1

\* A pause that has a period and lasts is announced in the end, in both ways and to
\* everyone: by its period, which is all that the sweeper looks for.
PauseIsAnnounced ==
    (Unresolved # {} /\ UnresolvedHasPeriod) ~>
        \/ Unresolved = {}
        \/ \E k \in Pause : Open(k) /\ pause[k].notices > 0 /\ \A u \in Recipient : pause[k].mails[u] > 0

\* manualMatch: the period is ended "so that a later unresolved row can start a new
\* one; without that the second pause would have been silent". But it is ended by a
\* request that saw the mark when it began, and lives to end it.
NewPauseHasNewPeriod ==
    [][(/\ Unresolved = {} /\ Unresolved' # {}
        /\ \A o \in Operator : request[o].kind # "settle") =>
          \E k \in Pause : ~Open(k) /\ pause'[k].state = "open"]_vars
================================================================================
