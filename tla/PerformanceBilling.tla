------------------------- MODULE PerformanceBilling -------------------------
(***************************************************************************)
(* Performance fees of one trading account: the admin's billing cycles      *)
(* (PerformanceFeeBillingCycleService) that reconcile the broker's closed   *)
(* trades, assess the profit above the high-water mark and invoice the fee  *)
(* (PerformanceFeeService), the customer's checkout of an invoice           *)
(* (PerformanceFeePaymentService), and the provider's webhooks              *)
(* (WebhookProcessorService), the only writer of PAID and of the mark.      *)
(*                                                                          *)
(* Nothing here runs in a database transaction except the recording of a    *)
(* reconciled trade: every statement is a step of its own, and admins,      *)
(* customers and webhook deliveries interleave between them.                *)
(***************************************************************************)
EXTENDS Integers, Sequences, FiniteSets, FiniteSetsExt, Functions

CONSTANTS
    Admins,         \* admin requests that run at once
    Customers,      \* checkout requests that run at once
    Deliverers,     \* webhook requests that run at once
    NumPeriods,     \* billing periods of the account
    Pnl,            \* Pnl[p]: net result of the trade the broker closed in p
    FeeScaled,      \* the policy's percentage, times 10000
    MaxSessions,    \* bound: checkout sessions the provider creates
    MaxInvoices,    \* bound: invoices issued
    MaxRepeats,     \* bound: deliveries of an unprocessed event answered or at work already
    MaxOverlaps,    \* bound: those of one event while it is processed
    CallsFail,      \* do statements and provider calls fail, or do requests only die?
    MaxFaults       \* bound: failed calls and dead requests

Periods == 1 .. NumPeriods

ASSUME AccountIsWellFormed ==
    /\ NumPeriods \in Nat \ {0}
    /\ Pnl \in [Periods -> Int]
    /\ CallsFail \in BOOLEAN
    /\ IsFiniteSet(Admins) /\ IsFiniteSet(Deliverers)

ASSUME PolicyIsPercentage == FeeScaled \in Nat /\ FeeScaled <= 1000000

ASSUME BillingBoundsAreNaturals ==
    {MaxSessions, MaxInvoices, MaxRepeats, MaxOverlaps, MaxFaults} \subseteq Nat

VARIABLES
    perf,      \* trading_account_performance: [total, hwm, fees]
    ledger,    \* periods whose realised trade has its ledger entry
    feePaid,   \* feePaid[s]: FEE_PAID ledger entries made for the payment of session s
    assess,    \* assess[p]: the assessment of p
    cycle,     \* cycle[p]: status of the billing cycle of p
    invoices,  \* invoices issued, each with its payment transaction
    sessions,  \* checkout sessions the provider created
    events,    \* events[s]: the webhook record of what became of session s
    admin,     \* admin[a]: what an admin request is doing
    cust,      \* cust[c]: what a checkout request is doing
    hook,      \* hook[d]: what a webhook request is doing
    repeats, faults,
    again,       \* history: again[s], times s's event was sent while it was processed
    interrupted  \* history: a checkout failed after its claim, or a webhook half-way

store == <<perf, ledger, feePaid, assess, cycle, invoices>>

budgets == <<repeats, faults, again, interrupted>>

vars == <<store, sessions, events, admin, cust, hook, budgets>>

-----------------------------------------------------------------------------
NoAssessment == [status |-> "NONE", invoice |-> 0, start |-> 0, ending |-> 0, fee |-> 0]

AssessmentStatus == {"NONE", "DRAFT", "ASSESSED", "INVOICED", "PAID"}

FINAL_BILLING_CYCLE_STATUSES == {"INVOICED", "NO_FEE_DUE", "CANCELLED"}

CycleStatus == FINAL_BILLING_CYCLE_STATUSES \union
    {"NONE", "DRAFT", "RECONCILING", "ASSESSING", "ASSESSED", "FAILED"}

AdminIdle == [pc |-> "idle", period |-> 1, cycled |-> FALSE, total |-> 0, hwm |-> 0, sum |-> 0,
              inv |-> 0]

CustIdle == [pc |-> "idle", inv |-> 0, session |-> 0]

HookIdle == [pc |-> "idle", session |-> 0, inv |-> 0, period |-> 1, hwm |-> 0, fees |-> 0]

Invoices == 1 .. Len(invoices)

Sessions == 1 .. Len(sessions)

\* Mutant: an invoiced assessment counts as resolved.
Outstanding_UninvoicedOnly == {p \in Periods : assess[p].status = "ASSESSED"}

\* findOutstandingAssessment: the statuses an unpaid assessment goes through.
Outstanding == {p \in Periods : assess[p].status \in {"ASSESSED", "INVOICED"}}

\* computeFeeAmount and calculateHighWaterMarkFee: minor units, rounded down.
computeFeeAmount(profit) == IF profit <= 0 THEN 0 ELSE (profit * FeeScaled) \div 1000000

realisedProfitForFee(total, hwm) == IF total > hwm THEN total - hwm ELSE 0

\* Mutant: minor units compared with major ones.
amountMatches_MajorUnits(s, i) == sessions[s].amount = invoices[i].amount * 100

\* amountAndCurrencyMatch.
amountMatches(s, i) == sessions[s].amount = invoices[i].amount

Init ==
    /\ perf = [total |-> 0, hwm |-> 0, fees |-> 0]
    /\ ledger = {}
    /\ feePaid = [s \in 1 .. MaxSessions |-> 0]
    /\ assess = [p \in Periods |-> NoAssessment]
    /\ cycle = [p \in Periods |-> "NONE"]
    /\ invoices = <<>>
    /\ sessions = <<>>
    /\ events = [s \in 1 .. MaxSessions |-> "NONE"]
    /\ admin = [a \in Admins |-> AdminIdle]
    /\ cust = [c \in Customers |-> CustIdle]
    /\ hook = [d \in Deliverers |-> HookIdle]
    /\ repeats = 0 /\ faults = 0
    /\ again = [s \in 1 .. MaxSessions |-> 0]
    /\ interrupted = FALSE

\* One more statement or provider call fails.
CallFails == CallsFail /\ faults < MaxFaults /\ faults' = faults + 1

-----------------------------------------------------------------------------
(* Billing cycles.                                                          *)

AdminAt(a, step) == admin[a].pc = step

AdminGoes(a, step) == admin' = [admin EXCEPT ![a].pc = step]

AdminEnds(a) == admin' = [admin EXCEPT ![a] = AdminIdle]

\* calculateAssessment returns: to the cycle that called it, or to the admin.
CalculationReturns(a) == IF admin[a].cycled THEN AdminGoes(a, "assessed") ELSE AdminEnds(a)

\* transition(): an update by id, whatever the cycle has become meanwhile.
\* A request that calls the fee service directly has no cycle.
SetCycle(a, status) ==
    cycle' = IF admin[a].cycled THEN [cycle EXCEPT ![admin[a].period] = status] ELSE cycle

\* createBillingCycle: the unique index refuses a second one for the period.
CreateBillingCycle(p) ==
    /\ cycle[p] = "NONE"
    /\ cycle' = [cycle EXCEPT ![p] = "DRAFT"]
    /\ UNCHANGED <<perf, ledger, feePaid, assess, invoices, sessions, events, admin, cust,
                   hook, budgets>>

\* runBillingCycle and cancelBillingCycle read the cycle and let DRAFT and
\* FAILED through.
OpenCycle(a, p) ==
    /\ AdminAt(a, "idle")
    /\ cycle[p] \in {"DRAFT", "FAILED"}
    /\ \E step \in {"begin", "cancel"} :
          admin' = [admin EXCEPT ![a] = [AdminIdle EXCEPT !.pc = step, !.period = p,
                                                          !.cycled = TRUE]]
    /\ UNCHANGED <<store, sessions, events, cust, hook, budgets>>

CancelBillingCycle(a) ==
    /\ AdminAt(a, "cancel")
    /\ SetCycle(a, "CANCELLED")
    /\ AdminEnds(a)
    /\ UNCHANGED <<perf, ledger, feePaid, assess, invoices, sessions, events, cust, hook,
                   budgets>>

\* An admin may call calculateAssessment or invoiceAssessment directly.
CallFeeService(a, p) ==
    /\ AdminAt(a, "idle")
    /\ \E step \in {"check", "load"} :
          /\ step = "load" => assess[p].status # "NONE"
          /\ admin' = [admin EXCEPT ![a] = [AdminIdle EXCEPT !.pc = step, !.period = p]]
    /\ UNCHANGED <<store, sessions, events, cust, hook, budgets>>

BeginReconciling(a) ==
    /\ AdminAt(a, "begin")
    /\ SetCycle(a, "RECONCILING")
    /\ AdminGoes(a, "reconcile")
    /\ UNCHANGED <<perf, ledger, feePaid, assess, invoices, sessions, events, cust, hook,
                   budgets>>

\* runReconciliation.  A trade that cannot be recorded, or that the normaliser
\* skips, makes the run COMPLETED_WITH_WARNINGS, which is not a failure: the
\* cycle goes on with the ledger as it is.
Reconcile(a) ==
    /\ AdminAt(a, "reconcile")
    /\ \/ ledger' = ledger \union {admin[a].period} /\ UNCHANGED faults
       \/ /\ faults < MaxFaults
          /\ ledger' = ledger
          /\ faults' = faults + 1
    /\ SetCycle(a, "ASSESSING")
    /\ AdminGoes(a, "check")
    /\ UNCHANGED <<perf, feePaid, assess, invoices, sessions, events, cust, hook, repeats,
                   again, interrupted>>

\* failCycle, for a request that runs a cycle; the exception of the other.
FailCycle(a) ==
    /\ SetCycle(a, "FAILED")
    /\ AdminEnds(a)
    /\ UNCHANGED <<perf, ledger, feePaid, assess, invoices, sessions, events, cust, hook>>

\* Reconciliation fails or throws; the policy lookup, an assessment or an
\* invoice statement throws: each is caught and fails the cycle.
CaughtFailure(a) ==
    /\ admin[a].pc \in {"reconcile", "check", "read", "save", "total", "load", "issue", "link",
                       "close"}
    /\ CallFails
    /\ FailCycle(a)
    /\ UNCHANGED <<repeats, again, interrupted>>

\* calculateAssessment 2 and 2b: an existing DRAFT is returned, any other
\* assessment of the period or an outstanding one of the account is a conflict.
CheckAssessments(a) ==
    LET p == admin[a].period IN
    /\ AdminAt(a, "check")
    /\ \/ /\ assess[p].status = "DRAFT"
          /\ CalculationReturns(a)
          /\ UNCHANGED store
       \/ /\ assess[p].status \notin {"NONE", "DRAFT"} \/ Outstanding # {}
          /\ assess[p].status # "DRAFT"
          /\ FailCycle(a)
       \/ /\ assess[p].status = "NONE" /\ Outstanding = {}
          /\ AdminGoes(a, "read")
          /\ UNCHANGED store
    /\ UNCHANGED <<sessions, events, cust, hook, budgets>>

\* calculateAssessment 3-6: the running totals and the period's ledger entries.
ReadPerformance(a) ==
    LET p == admin[a].period IN
    /\ AdminAt(a, "read")
    /\ admin' = [admin EXCEPT ![a].pc = "save", ![a].total = perf.total, ![a].hwm = perf.hwm,
                              ![a].sum = IF p \in ledger THEN Pnl[p] ELSE 0]
    /\ UNCHANGED <<store, sessions, events, cust, hook, budgets>>

\* The assessment that the copy a request has read leads to.
Assessed(a) ==
    LET total == admin[a].total + admin[a].sum
        fee == computeFeeAmount(realisedProfitForFee(total, admin[a].hwm))
    IN [status |-> IF fee > 0 THEN "ASSESSED" ELSE "DRAFT", invoice |-> 0,
        start |-> admin[a].hwm, ending |-> total, fee |-> fee]

\* calculateAssessment 7-10; the unique index refuses a second one for the period.
SaveAssessment(a) ==
    LET p == admin[a].period IN
    /\ AdminAt(a, "save")
    /\ \/ /\ assess[p].status = "NONE"
          /\ assess' = [assess EXCEPT ![p] = Assessed(a)]
          /\ AdminGoes(a, "total")
          /\ UNCHANGED <<perf, ledger, feePaid, cycle, invoices, sessions, events, cust,
                         hook>>
       \/ /\ assess[p].status # "NONE"
          /\ FailCycle(a)
    /\ UNCHANGED budgets

\* calculateAssessment 11: the total of the copy, whatever it is by now.
UpdateTotal(a) ==
    /\ AdminAt(a, "total")
    /\ perf' = [perf EXCEPT !.total = admin[a].total + admin[a].sum]
    /\ CalculationReturns(a)
    /\ UNCHANGED <<ledger, feePaid, assess, cycle, invoices, sessions, events, cust, hook,
                   budgets>>

\* ASSESSED, then NO_FEE_DUE, or on to the invoice.
CycleAssessed(a) ==
    /\ AdminAt(a, "assessed")
    /\ \/ /\ assess[admin[a].period].fee > 0
          /\ SetCycle(a, "ASSESSED")
          /\ AdminGoes(a, "load")
       \/ /\ assess[admin[a].period].fee = 0
          /\ SetCycle(a, "NO_FEE_DUE")
          /\ AdminEnds(a)
    /\ UNCHANGED <<perf, ledger, feePaid, assess, invoices, sessions, events, cust, hook,
                   budgets>>

\* invoiceAssessment: only an ASSESSED one, read once.
LoadForInvoice(a) ==
    /\ AdminAt(a, "load")
    /\ \/ /\ assess[admin[a].period].status = "ASSESSED"
          /\ AdminGoes(a, "issue")
          /\ UNCHANGED <<store, sessions, events, cust, hook>>
       \/ /\ assess[admin[a].period].status # "ASSESSED"
          /\ FailCycle(a)
    /\ UNCHANGED budgets

\* The invoice and its PENDING transaction; neither can be paid until linked.
IssueInvoice(a) ==
    LET p == admin[a].period IN
    /\ AdminAt(a, "issue")
    /\ Len(invoices) < MaxInvoices
    /\ invoices' = Append(invoices, [period |-> p, amount |-> assess[p].fee,
                                     status |-> "ISSUED", tx |-> "PENDING", ref |-> 0])
    /\ admin' = [admin EXCEPT ![a].pc = "link", ![a].inv = Len(invoices) + 1]
    /\ UNCHANGED <<perf, ledger, feePaid, assess, cycle, sessions, events, cust, hook, budgets>>

\* Mutant: the assessment is given the status of its invoice.
LinkInvoice_InvoiceStatus(a) ==
    /\ AdminAt(a, "link")
    /\ assess' = [assess EXCEPT ![admin[a].period].invoice = admin[a].inv,
                                ![admin[a].period].status = "ISSUED"]
    /\ AdminGoes(a, "close")
    /\ UNCHANGED <<perf, ledger, feePaid, cycle, invoices, sessions, events, cust, hook,
                   budgets>>

\* The assessment is saved, whatever its status by now.
LinkInvoice(a) ==
    /\ AdminAt(a, "link")
    /\ assess' = [assess EXCEPT ![admin[a].period].invoice = admin[a].inv,
                                ![admin[a].period].status = "INVOICED"]
    /\ AdminGoes(a, "close")
    /\ UNCHANGED <<perf, ledger, feePaid, cycle, invoices, sessions, events, cust, hook,
                   budgets>>

\* The FEE_ASSESSED entry, which no reader sums, and the cycle's last update.
CloseCycle(a) ==
    /\ AdminAt(a, "close")
    /\ SetCycle(a, "INVOICED")
    /\ AdminEnds(a)
    /\ UNCHANGED <<perf, ledger, feePaid, assess, invoices, sessions, events, cust, hook,
                   budgets>>

BillingRequest ==
    \/ \E p \in Periods : CreateBillingCycle(p)
    \/ \E a \in Admins, p \in Periods : OpenCycle(a, p) \/ CallFeeService(a, p)

AdminStep(a) ==
    \/ CancelBillingCycle(a) \/ BeginReconciling(a) \/ Reconcile(a) \/ CheckAssessments(a)
    \/ ReadPerformance(a) \/ SaveAssessment(a) \/ UpdateTotal(a) \/ CycleAssessed(a)
    \/ LoadForInvoice(a) \/ IssueInvoice(a) \/ LinkInvoice(a) \/ CloseCycle(a)

-----------------------------------------------------------------------------
(* Checkout of an invoice.                                                  *)

CustAt(c, step) == cust[c].pc = step

CustGoes(c, step) == cust' = [cust EXCEPT ![c].pc = step]

CustEnds(c) == cust' = [cust EXCEPT ![c] = CustIdle]

\* A session in progress that buildReuseResult hands out again.
Reusable(i) == invoices[i].tx = "PROCESSING" /\ invoices[i].ref # 0

\* loadPayableContext and the first look at the transaction.  Requests that end
\* here, with a refusal or with the reused session, change nothing.
LoadPayable(c, i) ==
    /\ CustAt(c, "idle")
    /\ invoices[i].status = "ISSUED"
    /\ \E p \in Periods : assess[p].invoice = i /\ assess[p].status = "INVOICED"
    /\ invoices[i].tx # "SUCCEEDED" /\ ~Reusable(i)
    /\ cust' = [cust EXCEPT ![c] = [pc |-> "claim", inv |-> i, session |-> 0]]
    /\ UNCHANGED <<store, sessions, events, admin, hook, budgets>>

\* Mutant: the claim forgets the status condition.
Claimable_Always(i) == invoices[i].tx # "SUCCEEDED"

\* The statuses the conditional update claims.
Claimable(i) == invoices[i].tx \in {"PENDING", "FAILED"}

Claim(c) ==
    LET i == cust[c].inv IN
    /\ CustAt(c, "claim")
    /\ \/ /\ Claimable(i)
          /\ invoices' = [invoices EXCEPT ![i].tx = "PROCESSING"]
          /\ CustGoes(c, "call")
       \/ /\ ~Claimable(i)
          /\ CustEnds(c)
          /\ UNCHANGED invoices
    /\ UNCHANGED <<perf, ledger, feePaid, assess, cycle, sessions, events, admin, hook,
                   budgets>>

\* provider.createCheckoutSession answers.
CreateSession(c) ==
    LET i == cust[c].inv IN
    /\ CustAt(c, "call")
    /\ Len(sessions) < MaxSessions
    /\ sessions' = Append(sessions, [invoice |-> i, amount |-> invoices[i].amount,
                                     status |-> "OPEN", given |-> FALSE, acked |-> FALSE])
    /\ cust' = [cust EXCEPT ![c].pc = "save", ![c].session = Len(sessions) + 1]
    /\ UNCHANGED <<store, events, admin, hook, budgets>>

\* The provider refuses, or the reference it gave is in use: the transaction is
\* released.  Routing or validation fails before the call, or the statement that
\* stores the reference throws: the safety net alone looks at it.
CheckoutFails(c) ==
    /\ CustAt(c, "call") \/ CustAt(c, "save")
    /\ CallFails /\ interrupted' = TRUE
    /\ \/ invoices' = [invoices EXCEPT ![cust[c].inv].tx = "PENDING"]
       \/ UNCHANGED invoices
    /\ CustGoes(c, "net")
    /\ UNCHANGED <<perf, ledger, feePaid, assess, cycle, sessions, events, admin, hook,
                   repeats, again>>

\* The outer catch reads the transaction and releases a claim without reference.
SafetyNetReads(c) ==
    LET i == cust[c].inv IN
    /\ CustAt(c, "net")
    /\ IF invoices[i].tx = "PROCESSING" /\ invoices[i].ref = 0
       THEN CustGoes(c, "release")
       ELSE CustEnds(c)
    /\ UNCHANGED <<store, sessions, events, admin, hook, budgets>>

SafetyNetReleases(c) ==
    /\ CustAt(c, "release")
    /\ invoices' = [invoices EXCEPT ![cust[c].inv].tx = "PENDING"]
    /\ CustEnds(c)
    /\ UNCHANGED <<perf, ledger, feePaid, assess, cycle, sessions, events, admin, hook,
                   budgets>>

\* The reference is stored, by id, and the customer is sent to the session.
SaveReference(c) ==
    LET i == cust[c].inv IN
    /\ CustAt(c, "save")
    /\ invoices' = [invoices EXCEPT ![i].ref = cust[c].session, ![i].tx = "PROCESSING"]
    /\ sessions' = [sessions EXCEPT ![cust[c].session].given = TRUE]
    /\ CustEnds(c)
    /\ UNCHANGED <<perf, ledger, feePaid, assess, cycle, events, admin, hook, budgets>>

CustomerStep(c) ==
    \/ Claim(c) \/ CreateSession(c) \/ CheckoutFails(c) \/ SafetyNetReads(c)
    \/ SafetyNetReleases(c) \/ SaveReference(c)

\* What becomes of a session the customer was sent to: paid, or expired.
SessionEnds(s) ==
    /\ sessions[s].status = "OPEN" /\ sessions[s].given
    /\ \E result \in {"PAID", "FAILED"} :
          sessions' = [sessions EXCEPT ![s].status = result]
    /\ UNCHANGED <<store, events, admin, cust, hook, budgets>>

-----------------------------------------------------------------------------
(* Webhooks.  A session ends once, so its event is named by the session.    *)

HookAt(d, step) == hook[d].pc = step

HookGoes(d, step) == hook' = [hook EXCEPT ![d].pc = step]

\* The requests that process the event of session s.
Processing(s) == {e \in Deliverers : ~HookAt(e, "idle") /\ hook[e].session = s}

\* What does not count as a repeat: an event nobody has answered or works on, and
\* one that was processed, for it is only answered once more.
Expected(s) == events[s] = "PROCESSED" \/ (~sessions[s].acked /\ Processing(s) = {})

\* processWebhook stores the event; a stored one that was processed is answered
\* at once, any other is processed, also while another request is at it.  The
\* provider sends an event until it is answered, and sometimes again.
Deliver(d, s) ==
    /\ HookAt(d, "idle")
    /\ sessions[s].status # "OPEN"
    /\ \/ Expected(s) /\ UNCHANGED repeats
       \/ ~Expected(s) /\ repeats < MaxRepeats /\ repeats' = repeats + 1
    /\ \/ /\ events[s] = "PROCESSED"
          /\ sessions' = [sessions EXCEPT ![s].acked = TRUE]
          /\ UNCHANGED <<events, hook, again>>
       \/ /\ events[s] # "PROCESSED"
          /\ events' = [events EXCEPT ![s] = "STORED"]
          /\ hook' = [hook EXCEPT ![d] = [HookIdle EXCEPT !.pc = "find", !.session = s]]
          /\ \/ Processing(s) = {} /\ UNCHANGED again
             \/ /\ Processing(s) # {} /\ again[s] < MaxOverlaps
                /\ again' = [again EXCEPT ![s] = @ + 1]
          /\ UNCHANGED sessions
    /\ UNCHANGED <<store, admin, cust, faults, interrupted>>

\* Mutant: every event of a known transaction is a success.
FindTransaction_AnyEvent(d) ==
    LET Found == {i \in Invoices : invoices[i].ref = hook[d].session} IN
    /\ HookAt(d, "find")
    /\ hook' = [hook EXCEPT
         ![d].pc = IF Found = {} THEN "finish" ELSE "succeed",
         ![d].inv = IF Found = {} THEN 0 ELSE CHOOSE i \in Found : TRUE]
    /\ UNCHANGED <<store, sessions, events, admin, cust, budgets>>

\* The transaction the provider's reference names, if its amount is the event's.
FindTransaction(d) ==
    LET s == hook[d].session
        Found == {i \in Invoices : invoices[i].ref = s}
    IN
    /\ HookAt(d, "find")
    /\ hook' = [hook EXCEPT
         ![d].pc = IF Found = {} THEN "finish"
                   ELSE IF sessions[s].status = "FAILED" THEN "fail"
                   ELSE IF \E i \in Found : amountMatches(s, i) THEN "succeed"
                   ELSE "finish",
         ![d].inv = IF Found = {} THEN 0 ELSE CHOOSE i \in Found : TRUE]
    /\ UNCHANGED <<store, sessions, events, admin, cust, budgets>>

\* handlePaymentFailed updates by id, whatever the transaction is by now.
MarkFailed(d) ==
    /\ HookAt(d, "fail")
    /\ invoices' = [invoices EXCEPT ![hook[d].inv].tx = "FAILED"]
    /\ HookGoes(d, "finish")
    /\ UNCHANGED <<perf, ledger, feePaid, assess, cycle, sessions, events, admin, cust,
                   budgets>>

MarkSucceeded(d) ==
    /\ HookAt(d, "succeed")
    /\ invoices' = [invoices EXCEPT ![hook[d].inv].tx = "SUCCEEDED"]
    /\ HookGoes(d, "pay")
    /\ UNCHANGED <<perf, ledger, feePaid, assess, cycle, sessions, events, admin, cust,
                   budgets>>

PayInvoice(d) ==
    /\ HookAt(d, "pay")
    /\ invoices' = [invoices EXCEPT ![hook[d].inv].status = "PAID"]
    /\ HookGoes(d, "assessment")
    /\ UNCHANGED <<perf, ledger, feePaid, assess, cycle, sessions, events, admin, cust,
                   budgets>>

\* Mutant: a paid assessment is paid again.
ReadAssessment_PaidAgain(d) ==
    LET Linked == {p \in Periods : assess[p].invoice = hook[d].inv} IN
    /\ HookAt(d, "assessment")
    /\ hook' = [hook EXCEPT
         ![d].pc = IF Linked = {} THEN "finish" ELSE "paid",
         ![d].period = IF Linked = {} THEN 1 ELSE CHOOSE p \in Linked : TRUE]
    /\ UNCHANGED <<store, sessions, events, admin, cust, budgets>>

\* handlePerformanceFeePaymentSucceeded: the assessment of the invoice, unless
\* there is none or it is PAID already.
ReadAssessment(d) ==
    LET Unpaid == {p \in Periods : assess[p].invoice = hook[d].inv /\ assess[p].status # "PAID"}
    IN
    /\ HookAt(d, "assessment")
    /\ hook' = [hook EXCEPT
         ![d].pc = IF Unpaid = {} THEN "finish" ELSE "paid",
         ![d].period = IF Unpaid = {} THEN 1 ELSE CHOOSE p \in Unpaid : TRUE]
    /\ UNCHANGED <<store, sessions, events, admin, cust, budgets>>

MarkPaid(d) ==
    /\ HookAt(d, "paid")
    /\ assess' = [assess EXCEPT ![hook[d].period].status = "PAID"]
    /\ HookGoes(d, "entry")
    /\ UNCHANGED <<perf, ledger, feePaid, cycle, invoices, sessions, events, admin, cust,
                   budgets>>

AddFeePaid(d) ==
    /\ HookAt(d, "entry")
    /\ feePaid' = [feePaid EXCEPT ![hook[d].session] = @ + 1]
    /\ HookGoes(d, "performance")
    /\ UNCHANGED <<perf, ledger, assess, cycle, invoices, sessions, events, admin, cust,
                   budgets>>

HookReadsPerformance(d) ==
    /\ HookAt(d, "performance")
    /\ hook' = [hook EXCEPT ![d].pc = "mark", ![d].hwm = perf.hwm, ![d].fees = perf.fees]
    /\ UNCHANGED <<store, sessions, events, admin, cust, budgets>>

\* The mark never below the one read; the fees on top of those read.
UpdateHighWaterMark(d) ==
    LET p == hook[d].period IN
    /\ HookAt(d, "mark")
    /\ perf' = [perf EXCEPT !.hwm = Max({hook[d].hwm, assess[p].ending}),
                            !.fees = hook[d].fees + invoices[hook[d].inv].amount]
    /\ HookGoes(d, "finish")
    /\ UNCHANGED <<ledger, feePaid, assess, cycle, invoices, sessions, events, admin, cust,
                   budgets>>

FinishWebhook(d) ==
    /\ HookAt(d, "finish")
    /\ events' = [events EXCEPT ![hook[d].session] = "PROCESSED"]
    /\ sessions' = [sessions EXCEPT ![hook[d].session].acked = TRUE]
    /\ hook' = [hook EXCEPT ![d] = HookIdle]
    /\ UNCHANGED <<store, admin, cust, budgets>>

HookStep(d) ==
    \/ FindTransaction(d) \/ MarkFailed(d) \/ MarkSucceeded(d) \/ PayInvoice(d)
    \/ ReadAssessment(d) \/ MarkPaid(d) \/ AddFeePaid(d) \/ HookReadsPerformance(d)
    \/ UpdateHighWaterMark(d) \/ FinishWebhook(d)

\* A statement of the handler throws: the event stays unprocessed, and the
\* provider is told that it was received.
WebhookFails(d) ==
    /\ hook[d].pc \notin {"idle", "finish"}
    /\ CallFails /\ interrupted' = TRUE
    /\ sessions' = [sessions EXCEPT ![hook[d].session].acked = TRUE]
    /\ hook' = [hook EXCEPT ![d] = HookIdle]
    /\ UNCHANGED <<store, events, admin, cust, repeats, again>>

-----------------------------------------------------------------------------
\* A request dies between two statements and answers nobody.
Crash ==
    /\ faults < MaxFaults
    /\ faults' = faults + 1
    /\ \/ \E a \in Admins :
             ~AdminAt(a, "idle") /\ AdminEnds(a) /\ UNCHANGED <<cust, hook, interrupted>>
       \/ \E c \in Customers :
             ~CustAt(c, "idle") /\ CustEnds(c) /\ UNCHANGED <<admin, hook, interrupted>>
       \/ \E d \in Deliverers :
             /\ ~HookAt(d, "idle")
             /\ hook' = [hook EXCEPT ![d] = HookIdle]
             /\ interrupted' = TRUE
             /\ UNCHANGED <<admin, cust>>
    /\ UNCHANGED <<store, sessions, events, repeats, again>>

Next ==
    \/ BillingRequest
    \/ \E a \in Admins : AdminStep(a) \/ CaughtFailure(a)
    \/ \E c \in Customers : CustomerStep(c) \/ \E i \in Invoices : LoadPayable(c, i)
    \/ \E s \in Sessions : SessionEnds(s) \/ \E d \in Deliverers : Deliver(d, s)
    \/ \E d \in Deliverers : HookStep(d) \/ WebhookFails(d)
    \/ Crash

Spec == Init /\ [][Next]_vars

\* Fairness: the event loop runs every accepted webhook to its end, and the
\* provider sends an unanswered event until it is answered.
FairSpec ==
    /\ Spec
    /\ \A d \in Deliverers : WF_vars(HookStep(d))
    /\ \A s \in 1 .. MaxSessions :
          WF_vars(s \in Sessions /\ ~sessions[s].acked /\ \E d \in Deliverers : Deliver(d, s))

-----------------------------------------------------------------------------
\* Every variable has its type; an account never owes or has paid a negative fee.
TypeOK ==
    /\ perf \in [total: Int, hwm: Nat, fees: Nat]
    /\ ledger \subseteq Periods
    /\ feePaid \in [1 .. MaxSessions -> Nat]
    /\ assess \in [Periods -> [status: AssessmentStatus, invoice: 0 .. MaxInvoices, start: Int,
                              ending: Int, fee: Nat]]
    /\ cycle \in [Periods -> CycleStatus]
    /\ \A i \in Invoices :
          invoices[i] \in [period: Periods, amount: Nat, status: {"ISSUED", "PAID"},
                           tx: {"PENDING", "PROCESSING", "SUCCEEDED", "FAILED"},
                           ref: 0 .. MaxSessions]
    /\ events \in [1 .. MaxSessions -> {"NONE", "STORED", "PROCESSED"}]
    /\ again \in [1 .. MaxSessions -> Nat]

\* The paid sessions of the invoices of p: what the provider collected for it.
Collected(p) ==
    {s \in Sessions : sessions[s].status = "PAID" /\ invoices[sessions[s].invoice].period = p}

\* A fee counts as paid only when the provider collected it: an assessment is
\* PAID only if a session of one of its invoices was paid, for its exact fee.
PaidWasCollected ==
    \A p \in Periods : assess[p].status = "PAID" =>
        \E s \in Collected(p) : sessions[s].amount = assess[p].fee

\* "Prevent stacking unpaid assessments": the account never has more unpaid
\* assessments than admin requests run at once, whatever fails between their
\* statements, so that admins one after the other never leave two.  Two at once
\* can: findOutstandingAssessment and the save are separate statements.
OneOutstanding ==
    Cardinality({p \in Periods : assess[p].status \in {"ASSESSED", "INVOICED"}})
        <= Cardinality(Admins)

\* The fees entered as paid for session s.
EnteredFor(s) == IF feePaid[s] = 0 THEN 0 ELSE feePaid[s] * sessions[s].amount

\* However often an event is repeated, and wherever its processing stops, its
\* payment is entered as paid only if it was collected, once, and once more at
\* most for every time the event was sent while it was being processed: the
\* record's processed flag is no lock.  The account's total never exceeds the
\* fees entered.
FeePaidOnce ==
    /\ \A s \in 1 .. MaxSessions :
          feePaid[s] > 0 =>
              s \in Sessions /\ sessions[s].status = "PAID" /\ feePaid[s] <= 1 + again[s]
    /\ perf.fees <= SumFunctionOnSet([s \in 1 .. MaxSessions |-> EnteredFor(s)], 1 .. MaxSessions)

\* A checkout never orphans a session: one that the customer can still pay, or
\* has paid, is the one its transaction names, so that its webhook finds the
\* transaction.  Admins and customers may die at any step; a checkout that fails
\* after its claim, a webhook that fails or dies half-way and an event sent while
\* it is processed are excluded, for each can write PENDING or FAILED over the
\* claim of a later checkout.
SessionIsTracked ==
    ~interrupted /\ (\A s \in 1 .. MaxSessions : again[s] = 0) =>
        \A s \in Sessions :
            sessions[s].given /\ sessions[s].status # "FAILED"
                => invoices[sessions[s].invoice].ref = s

\* What the provider collected is recorded: once a session is paid, the
\* assessment it was for becomes PAID, however checkouts and events interleave.
CollectedIsRecorded ==
    \A s \in 1 .. MaxSessions :
        (s \in Sessions /\ sessions[s].status = "PAID")
            ~> (s \in Sessions /\ assess[invoices[sessions[s].invoice].period].status = "PAID")

\* The same profit is charged once: the spans between the high-water mark and
\* the realised balance of any two charged assessments do not overlap.  Not kept
\* by an assessment made between a webhook's PAID and its high-water mark.
NoProfitChargedTwice ==
    \A p, q \in Periods :
        /\ p # q
        /\ assess[p].fee > 0 /\ assess[q].fee > 0
        => assess[p].ending <= assess[q].start \/ assess[q].ending <= assess[p].start

=============================================================================
