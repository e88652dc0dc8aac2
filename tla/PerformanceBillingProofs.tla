---------------------- MODULE PerformanceBillingProofs ----------------------
(***************************************************************************)
(* The performance fees of an account, for any number of periods, admins,  *)
(* checkouts and webhook requests and any results.                         *)
(*                                                                         *)
(* The rows refer to each other by number: an assessment to its invoice,   *)
(* an invoice to its session, a session to its invoice, and a request      *)
(* carries such numbers across statements.  RefInv says that every number  *)
(* means the row it should, at every moment; the properties rest on it.    *)
(***************************************************************************)
EXTENDS PerformanceBilling, FunctionSums

AdminPc == {"idle", "begin", "cancel", "check", "load", "reconcile", "read", "save", "total",
            "assessed", "issue", "link", "close"}
CustPc == {"idle", "claim", "call", "save", "net", "release"}
\* The steps of a webhook that found its transaction, in their order.
Entering == {"paid", "entry"}
Entered == {"performance", "mark"}
Settling == {"succeed", "pay", "assessment"} \union Entering \union Entered
HookPc == {"idle", "find", "fail", "finish"} \union Settling

AssessRows == [status: AssessmentStatus, invoice: 0 .. MaxInvoices, start: Int, ending: Int,
               fee: Nat]
InvoiceRows == [period: Periods, amount: Nat, status: {"ISSUED", "PAID"},
                tx: {"PENDING", "PROCESSING", "SUCCEEDED", "FAILED"}, ref: 0 .. MaxSessions]
SessionRows == [invoice: 1 .. MaxInvoices, amount: Nat, status: {"OPEN", "PAID", "FAILED"},
                given: BOOLEAN, acked: BOOLEAN]
EventStates == {"NONE", "STORED", "PROCESSED"}
AdminRows == [pc: AdminPc, period: Periods, cycled: BOOLEAN, total: Int, hwm: Nat, sum: Int,
              inv: 0 .. MaxInvoices]
CustRows == [pc: CustPc, inv: 0 .. MaxInvoices, session: 0 .. MaxSessions]
HookRows == [pc: HookPc, session: 0 .. MaxSessions, inv: 0 .. MaxInvoices, period: Periods,
             hwm: Nat, fees: Nat]

\* Types, of what the requests hold too.
RowsTyped ==
    /\ assess \in [Periods -> AssessRows]
    /\ invoices \in Seq(InvoiceRows) /\ Len(invoices) <= MaxInvoices
    /\ sessions \in Seq(SessionRows) /\ Len(sessions) <= MaxSessions
BooksTyped ==
    /\ perf \in [total: Int, hwm: Nat, fees: Nat]
    /\ ledger \subseteq Periods
    /\ feePaid \in [1 .. MaxSessions -> Nat] /\ again \in [1 .. MaxSessions -> Nat]
    /\ cycle \in [Periods -> CycleStatus]
    /\ events \in [1 .. MaxSessions -> EventStates]
    /\ repeats \in Nat /\ faults \in Nat /\ interrupted \in BOOLEAN
RequestsTyped ==
    /\ admin \in [Admins -> AdminRows]
    /\ cust \in [Customers -> CustRows]
    /\ hook \in [Deliverers -> HookRows]
Typed == RowsTyped /\ BooksTyped /\ RequestsTyped

\* An invoice is for its assessment's fee, and its reference is a session of it.
InvoiceSound(i) ==
    /\ assess[invoices[i].period].status # "NONE"
    /\ invoices[i].amount = assess[invoices[i].period].fee
    /\ invoices[i].ref # 0 =>
          invoices[i].ref \in Sessions /\ sessions[invoices[i].ref].invoice = i
SessionSound(s) ==
    /\ sessions[s].invoice \in Invoices
    /\ sessions[s].amount = invoices[sessions[s].invoice].amount
\* An assessment's invoice is for its period, and PAID means collected.
AssessSound(p) ==
    /\ assess[p].invoice # 0 =>
          assess[p].invoice \in Invoices /\ invoices[assess[p].invoice].period = p
    /\ assess[p].status \in {"INVOICED", "PAID"} => assess[p].invoice # 0
    /\ assess[p].status = "PAID" => \E s \in Sessions : s \in Collected(p)
\* What the requests hold.
AdminSound(a) ==
    /\ admin[a].pc \in {"issue", "link"} => assess[admin[a].period].status # "NONE"
    /\ admin[a].pc = "link" =>
          admin[a].inv \in Invoices /\ invoices[admin[a].inv].period = admin[a].period
CustSound(c) ==
    /\ cust[c].pc # "idle" => cust[c].inv \in Invoices
    /\ cust[c].pc = "save" =>
          cust[c].session \in Sessions /\ sessions[cust[c].session].invoice = cust[c].inv
HookHolds(m) ==
    /\ m.pc # "idle" => m.session \in Sessions /\ sessions[m.session].status # "OPEN"
    /\ m.pc \in Settling \union {"fail"} =>
          m.inv \in Invoices /\ sessions[m.session].invoice = m.inv
    /\ m.pc \in Settling => sessions[m.session].status = "PAID"
    /\ m.pc = "fail" => sessions[m.session].status = "FAILED"
    /\ m.pc \in Entering \union Entered =>
          invoices[m.inv].period = m.period /\ assess[m.period].invoice # 0
HookSound(d) == HookHolds(hook[d])

RefInv ==
    /\ \A i \in Invoices : InvoiceSound(i)
    /\ \A s \in Sessions : SessionSound(s)
    /\ \A p \in Periods : AssessSound(p)
    /\ \A a \in Admins : AdminSound(a)
    /\ \A c \in Customers : CustSound(c)
    /\ \A d \in Deliverers : HookSound(d)

-----------------------------------------------------------------------------
(* Sequences of rows.                                                       *)

\* Replacing one row of a table.
LEMMA RowReplaced ==
  ASSUME NEW S, NEW q \in Seq(S), NEW i \in 1 .. Len(q), NEW e \in S,
         NEW r, r = [q EXCEPT ![i] = e]
  PROVE  /\ r \in Seq(S) /\ Len(r) = Len(q)
         /\ r[i] = e
         /\ \A j \in 1 .. Len(q) : j # i => r[j] = q[j]
OBVIOUS

\* Appending a row to a table.
LEMMA RowAppended ==
  ASSUME NEW S, NEW q \in Seq(S), NEW e \in S, NEW r, r = Append(q, e)
  PROVE  /\ r \in Seq(S) /\ Len(r) = Len(q) + 1
         /\ r[Len(q) + 1] = e
         /\ \A j \in 1 .. Len(q) : r[j] = q[j]
OBVIOUS

-----------------------------------------------------------------------------
(* What every step does to the rows: numbers keep their meaning.            *)

InvoicesGrow ==
    \A i \in Invoices :
        /\ i \in Invoices'
        /\ invoices'[i].period = invoices[i].period
        /\ invoices'[i].amount = invoices[i].amount
SessionsGrow ==
    \A s \in Sessions :
        /\ s \in Sessions'
        /\ sessions'[s].invoice = sessions[s].invoice
        /\ sessions'[s].amount = sessions[s].amount
        /\ sessions[s].status # "OPEN" => sessions'[s].status = sessions[s].status
AssessGrow ==
    \A p \in Periods :
        /\ assess[p].status # "NONE" =>
              assess'[p].status # "NONE" /\ assess'[p].fee = assess[p].fee
        /\ assess[p].invoice # 0 => assess'[p].invoice # 0
Grow == InvoicesGrow /\ SessionsGrow /\ AssessGrow

\* A row is kept, or sound as it is written.
RowsKeep ==
    /\ \A i \in Invoices' :
          (i \in Invoices /\ invoices'[i].ref = invoices[i].ref) \/ InvoiceSound(i)'
    /\ \A s \in Sessions' : s \in Sessions \/ SessionSound(s)'
    /\ \A p \in Periods : assess'[p] = assess[p] \/ AssessSound(p)'
RequestsKeep ==
    /\ \A a \in Admins : admin'[a] = admin[a] \/ AdminSound(a)'
    /\ \A c \in Customers : cust'[c] = cust[c] \/ CustSound(c)'
    /\ \A d \in Deliverers : hook'[d] = hook[d] \/ HookSound(d)'

\* Such a step keeps every reference.
LEMMA RefsKept ==
  ASSUME Typed, RefInv, Grow, RowsKeep, RequestsKeep
  PROVE  RefInv'
<1>0. /\ \A i \in Invoices : invoices[i] \in InvoiceRows
      /\ \A s \in Sessions : sessions[s] \in SessionRows
      /\ \A p \in Periods : assess[p] \in AssessRows
  BY DEF Typed, RowsTyped, Invoices, Sessions
<1>1. ASSUME NEW i \in Invoices' PROVE InvoiceSound(i)'
  <2> SUFFICES ASSUME i \in Invoices, invoices'[i].ref = invoices[i].ref
               PROVE  InvoiceSound(i)'
    BY DEF RowsKeep
  <2>1. InvoiceSound(i) /\ invoices[i].period \in Periods BY <1>0 DEF RefInv, InvoiceRows
  <2> QED BY <2>1 DEF InvoiceSound, Grow, InvoicesGrow, SessionsGrow, AssessGrow
<1>2. ASSUME NEW s \in Sessions' PROVE SessionSound(s)'
  <2> SUFFICES ASSUME s \in Sessions PROVE SessionSound(s)' BY DEF RowsKeep
  <2>1. SessionSound(s) BY DEF RefInv
  <2> QED BY <2>1 DEF SessionSound, Grow, InvoicesGrow, SessionsGrow
<1>3. ASSUME NEW p \in Periods PROVE AssessSound(p)'
  <2> SUFFICES ASSUME assess'[p] = assess[p] PROVE AssessSound(p)' BY DEF RowsKeep
  <2>1. AssessSound(p) BY DEF RefInv
  <2>2. ASSUME NEW s \in Sessions, s \in Collected(p) PROVE s \in Sessions' /\ s \in Collected(p)'
    <3>1. SessionSound(s) BY DEF RefInv
    <3> QED BY <2>2, <3>1 DEF Collected, SessionSound, Grow, InvoicesGrow, SessionsGrow
  <2>3. assess[p].status = "PAID" => \E s \in Sessions' : s \in Collected(p)'
    BY <2>1, <2>2 DEF AssessSound
  <2>4. assess[p].invoice # 0 =>
          assess'[p].invoice \in Invoices' /\ invoices'[assess'[p].invoice].period = p
    BY <2>1 DEF AssessSound, Grow, InvoicesGrow
  <2> QED BY <2>1, <2>3, <2>4 DEF AssessSound
<1>4. ASSUME NEW a \in Admins PROVE AdminSound(a)'
  <2> SUFFICES ASSUME admin'[a] = admin[a] PROVE AdminSound(a)' BY DEF RequestsKeep
  <2>1. AdminSound(a) /\ admin[a].period \in Periods
    BY DEF RefInv, Typed, RequestsTyped, AdminRows
  <2> QED BY <2>1 DEF AdminSound, Grow, InvoicesGrow, AssessGrow
<1>5. ASSUME NEW c \in Customers PROVE CustSound(c)'
  <2> SUFFICES ASSUME cust'[c] = cust[c] PROVE CustSound(c)' BY DEF RequestsKeep
  <2>1. CustSound(c) BY DEF RefInv
  <2> QED BY <2>1 DEF CustSound, Grow, InvoicesGrow, SessionsGrow
<1>6. ASSUME NEW d \in Deliverers PROVE HookSound(d)'
  <2> SUFFICES ASSUME hook'[d] = hook[d] PROVE HookSound(d)' BY DEF RequestsKeep
  <2>1. HookSound(d) /\ hook[d].period \in Periods
    BY DEF RefInv, Typed, RequestsTyped, HookRows
  <2> QED BY <2>1 DEF HookSound, HookHolds, Grow, InvoicesGrow, SessionsGrow, AssessGrow,
                      Settling, Entering, Entered
<1> QED BY <1>1, <1>2, <1>3, <1>4, <1>5, <1>6 DEF RefInv

\* Rows nobody writes.
LEMMA RowsStay ==
  ASSUME Typed, UNCHANGED <<assess, invoices, sessions>>
  PROVE  RowsTyped' /\ Grow /\ RowsKeep
<1>1. RowsTyped' BY DEF Typed, RowsTyped
<1>2. Invoices' = Invoices /\ Sessions' = Sessions BY DEF Invoices, Sessions
<1>3. Grow BY <1>2 DEF Grow, InvoicesGrow, SessionsGrow, AssessGrow
<1>4. RowsKeep BY <1>2 DEF RowsKeep
<1> QED BY <1>1, <1>3, <1>4

\* An admin request in a new state m.
LEMMA AdminMoves ==
  ASSUME Typed, NEW a \in Admins, NEW m \in AdminRows, admin' = [admin EXCEPT ![a] = m],
         UNCHANGED <<cust, hook>>,
         m.pc \in {"issue", "link"} => assess'[m.period].status # "NONE",
         m.pc = "link" => m.inv \in Invoices' /\ invoices'[m.inv].period = m.period
  PROVE  RequestsTyped' /\ RequestsKeep
<1>1. /\ admin' \in [Admins -> AdminRows] /\ admin'[a] = m
      /\ \A b \in Admins : b # a => admin'[b] = admin[b]
  BY DEF Typed, RequestsTyped
<1>2. AdminSound(a)' BY <1>1 DEF AdminSound
<1>3. RequestsTyped' BY <1>1 DEF Typed, RequestsTyped
<1>4. RequestsKeep BY <1>1, <1>2 DEF RequestsKeep
<1> QED BY <1>3, <1>4

\* A checkout request in a new state m.
LEMMA CustMoves ==
  ASSUME Typed, NEW c \in Customers, NEW m \in CustRows, cust' = [cust EXCEPT ![c] = m],
         UNCHANGED <<admin, hook>>,
         m.pc # "idle" => m.inv \in Invoices',
         m.pc = "save" => m.session \in Sessions' /\ sessions'[m.session].invoice = m.inv
  PROVE  RequestsTyped' /\ RequestsKeep
<1>1. /\ cust' \in [Customers -> CustRows] /\ cust'[c] = m
      /\ \A b \in Customers : b # c => cust'[b] = cust[b]
  BY DEF Typed, RequestsTyped
<1>2. CustSound(c)' BY <1>1 DEF CustSound
<1>3. RequestsTyped' BY <1>1 DEF Typed, RequestsTyped
<1>4. RequestsKeep BY <1>1, <1>2 DEF RequestsKeep
<1> QED BY <1>3, <1>4

\* A webhook request in a new state m.
LEMMA HookMoves ==
  ASSUME Typed, NEW d \in Deliverers, NEW m \in HookRows, hook' = [hook EXCEPT ![d] = m],
         UNCHANGED <<admin, cust>>, HookHolds(m)'
  PROVE  RequestsTyped' /\ RequestsKeep
<1>1. /\ hook' \in [Deliverers -> HookRows] /\ hook'[d] = m
      /\ \A b \in Deliverers : b # d => hook'[b] = hook[b]
  BY DEF Typed, RequestsTyped
<1>2. HookSound(d)' BY <1>1 DEF HookSound, HookHolds
<1>3. RequestsTyped' BY <1>1 DEF Typed, RequestsTyped
<1>4. RequestsKeep BY <1>1, <1>2 DEF RequestsKeep
<1> QED BY <1>3, <1>4

\* Nobody moves.
LEMMA RequestsStay ==
  ASSUME Typed, UNCHANGED <<admin, cust, hook>>
  PROVE  RequestsTyped' /\ RequestsKeep
BY DEF Typed, RequestsTyped, RequestsKeep

-----------------------------------------------------------------------------
(* Rows as they are written.                                                *)

\* An invoice's payment status.
LEMMA InvoiceWritten ==
  ASSUME Typed, UNCHANGED <<assess, sessions>>, NEW i \in Invoices, NEW e \in InvoiceRows,
         invoices' = [invoices EXCEPT ![i] = e],
         e.period = invoices[i].period, e.amount = invoices[i].amount, e.ref = invoices[i].ref
  PROVE  RowsTyped' /\ Grow /\ RowsKeep /\ Invoices' = Invoices
<1>1. /\ invoices' \in Seq(InvoiceRows) /\ Len(invoices') = Len(invoices)
      /\ invoices'[i] = e
      /\ \A j \in Invoices : j # i => invoices'[j] = invoices[j]
  BY RowReplaced DEF Typed, RowsTyped, Invoices
<1>2. Invoices' = Invoices /\ Sessions' = Sessions BY <1>1 DEF Invoices, Sessions
<1>3. RowsTyped' BY <1>1 DEF Typed, RowsTyped
<1>4. Grow BY <1>1, <1>2 DEF Grow, InvoicesGrow, SessionsGrow, AssessGrow
<1>5. RowsKeep BY <1>1, <1>2 DEF RowsKeep
<1> QED BY <1>2, <1>3, <1>4, <1>5

\* A session's progress at the provider.
LEMMA SessionWritten ==
  ASSUME Typed, UNCHANGED <<assess, invoices>>, NEW s \in Sessions, NEW e \in SessionRows,
         sessions' = [sessions EXCEPT ![s] = e],
         e.invoice = sessions[s].invoice, e.amount = sessions[s].amount,
         sessions[s].status # "OPEN" => e.status = sessions[s].status
  PROVE  RowsTyped' /\ Grow /\ RowsKeep /\ Sessions' = Sessions
<1>1. /\ sessions' \in Seq(SessionRows) /\ Len(sessions') = Len(sessions)
      /\ sessions'[s] = e
      /\ \A j \in Sessions : j # s => sessions'[j] = sessions[j]
  BY RowReplaced DEF Typed, RowsTyped, Sessions
<1>2. Invoices' = Invoices /\ Sessions' = Sessions BY <1>1 DEF Invoices, Sessions
<1>3. RowsTyped' BY <1>1 DEF Typed, RowsTyped
<1>4. Grow BY <1>1, <1>2 DEF Grow, InvoicesGrow, SessionsGrow, AssessGrow
<1>5. RowsKeep BY <1>1, <1>2 DEF RowsKeep
<1> QED BY <1>2, <1>3, <1>4, <1>5

\* An assessment.
LEMMA AssessWritten ==
  ASSUME Typed, UNCHANGED <<invoices, sessions>>, NEW p \in Periods, NEW e \in AssessRows,
         assess' = [assess EXCEPT ![p] = e], e.status # "NONE",
         assess[p].status # "NONE" => e.fee = assess[p].fee,
         assess[p].invoice # 0 => e.invoice # 0,
         e.invoice # 0 => e.invoice \in Invoices /\ invoices[e.invoice].period = p,
         e.status \in {"INVOICED", "PAID"} => e.invoice # 0,
         e.status = "PAID" => \E s \in Sessions : s \in Collected(p)
  PROVE  RowsTyped' /\ Grow /\ RowsKeep
<1>1. /\ assess' \in [Periods -> AssessRows] /\ assess'[p] = e
      /\ \A q \in Periods : q # p => assess'[q] = assess[q]
  BY DEF Typed, RowsTyped
<1>2. /\ Invoices' = Invoices /\ Sessions' = Sessions
      /\ Collected(p)' = Collected(p)
  BY DEF Invoices, Sessions, Collected
<1>3. RowsTyped' BY <1>1 DEF Typed, RowsTyped
<1>4. Grow BY <1>1, <1>2 DEF Grow, InvoicesGrow, SessionsGrow, AssessGrow
<1>5. AssessSound(p)' BY <1>1, <1>2 DEF AssessSound
<1>6. RowsKeep BY <1>1, <1>2, <1>5 DEF RowsKeep
<1> QED BY <1>3, <1>4, <1>6

-----------------------------------------------------------------------------
(* The steps.                                                               *)

StepSound == Typed' /\ Grow /\ RowsKeep /\ RequestsKeep

\* The cycle's status, of a request that runs one.
LEMMA CycleTyped ==
  ASSUME Typed, NEW a \in Admins, NEW status \in CycleStatus, SetCycle(a, status)
  PROVE  cycle' \in [Periods -> CycleStatus]
BY DEF Typed, BooksTyped, RequestsTyped, AdminRows, SetCycle

\* A request goes on, or ends.
LEMMA AdminGoesOn ==
  ASSUME Typed, NEW a \in Admins, NEW step \in AdminPc \ {"issue", "link"},
         AdminGoes(a, step) \/ AdminEnds(a), UNCHANGED <<cust, hook>>
  PROVE  RequestsTyped' /\ RequestsKeep
<1>1. AdminIdle \in AdminRows /\ AdminIdle.pc = "idle"
  BY AccountIsWellFormed, BillingBoundsAreNaturals DEF AdminIdle, AdminRows, AdminPc, Periods
<1>2. CASE AdminEnds(a) BY <1>1, <1>2, AdminMoves DEF AdminEnds
<1>3. CASE AdminGoes(a, step)
  <2> DEFINE m == [admin[a] EXCEPT !.pc = step]
  <2>1. m \in AdminRows /\ m.pc = step BY DEF Typed, RequestsTyped, AdminRows
  <2>2. admin' = [admin EXCEPT ![a] = m] BY <1>3 DEF AdminGoes
  <2> HIDE DEF m
  <2> QED BY <2>1, <2>2, AdminMoves
<1> QED BY <1>2, <1>3

\* failCycle.
LEMMA FailCycleSound ==
  ASSUME Typed, NEW a \in Admins, FailCycle(a), repeats' \in Nat, faults' \in Nat,
         UNCHANGED <<again, interrupted>>
  PROVE  StepSound
<1>1. RowsTyped' /\ Grow /\ RowsKeep BY RowsStay DEF FailCycle
<1>2. RequestsTyped' /\ RequestsKeep BY AdminGoesOn DEF FailCycle, AdminPc
<1>3. cycle' \in [Periods -> CycleStatus] BY CycleTyped DEF FailCycle, CycleStatus
<1>4. BooksTyped' BY <1>3 DEF Typed, BooksTyped, FailCycle
<1> QED BY <1>1, <1>2, <1>4 DEF StepSound, Typed

\* The steps of an admin request that write no row.
LEMMA AdminLocalSound ==
  ASSUME Typed, NEW a \in Admins,
         \/ CancelBillingCycle(a) \/ BeginReconciling(a) \/ Reconcile(a) \/ CheckAssessments(a)
         \/ UpdateTotal(a) \/ CycleAssessed(a) \/ CloseCycle(a) \/ CaughtFailure(a)
  PROVE  StepSound
<1>0. admin[a] \in AdminRows BY DEF Typed, RequestsTyped
<1>1. CASE CancelBillingCycle(a)
  <2>1. cycle' \in [Periods -> CycleStatus]
    BY <1>1, CycleTyped DEF CancelBillingCycle, CycleStatus, FINAL_BILLING_CYCLE_STATUSES
  <2>2. BooksTyped' BY <1>1, <2>1 DEF Typed, BooksTyped, CancelBillingCycle, budgets
  <2>3. RequestsTyped' /\ RequestsKeep BY <1>1, AdminGoesOn DEF CancelBillingCycle, AdminPc
  <2>4. RowsTyped' /\ Grow /\ RowsKeep BY <1>1, RowsStay DEF CancelBillingCycle
  <2> QED BY <2>2, <2>3, <2>4 DEF StepSound, Typed
<1>2. CASE BeginReconciling(a)
  <2>1. cycle' \in [Periods -> CycleStatus]
    BY <1>2, CycleTyped DEF BeginReconciling, CycleStatus
  <2>2. BooksTyped' BY <1>2, <2>1 DEF Typed, BooksTyped, BeginReconciling, budgets
  <2>3. RequestsTyped' /\ RequestsKeep BY <1>2, AdminGoesOn DEF BeginReconciling, AdminPc
  <2>4. RowsTyped' /\ Grow /\ RowsKeep BY <1>2, RowsStay DEF BeginReconciling
  <2> QED BY <2>2, <2>3, <2>4 DEF StepSound, Typed
<1>3. CASE Reconcile(a)
  <2>1. cycle' \in [Periods -> CycleStatus] BY <1>3, CycleTyped DEF Reconcile, CycleStatus
  <2>2. ledger' \subseteq Periods /\ repeats' \in Nat /\ faults' \in Nat
    BY <1>0, <1>3 DEF Typed, BooksTyped, Reconcile, AdminRows
  <2>3. BooksTyped' BY <1>3, <2>1, <2>2 DEF Typed, BooksTyped, Reconcile
  <2>4. RequestsTyped' /\ RequestsKeep BY <1>3, AdminGoesOn DEF Reconcile, AdminPc
  <2>5. RowsTyped' /\ Grow /\ RowsKeep BY <1>3, RowsStay DEF Reconcile
  <2> QED BY <2>3, <2>4, <2>5 DEF StepSound, Typed
<1>4. CASE CheckAssessments(a)
  <2>1. UNCHANGED <<sessions, events, cust, hook, repeats, faults, again, interrupted>>
    BY <1>4 DEF CheckAssessments, budgets
  <2>2. repeats' \in Nat /\ faults' \in Nat BY <2>1 DEF Typed, BooksTyped
  <2>3. CASE FailCycle(a) BY <2>1, <2>2, <2>3, FailCycleSound
  <2>4. CASE UNCHANGED store /\ (CalculationReturns(a) \/ AdminGoes(a, "read"))
    <3>1. BooksTyped' BY <2>1, <2>4 DEF Typed, BooksTyped, store
    <3>2. RequestsTyped' /\ RequestsKeep
      BY <2>1, <2>4, AdminGoesOn DEF CalculationReturns, AdminPc
    <3>3. RowsTyped' /\ Grow /\ RowsKeep BY <2>1, <2>4, RowsStay DEF store
    <3> QED BY <3>1, <3>2, <3>3 DEF StepSound, Typed
  <2> QED BY <1>4, <2>3, <2>4 DEF CheckAssessments
<1>5. CASE UpdateTotal(a)
  <2>1. perf' \in [total: Int, hwm: Nat, fees: Nat]
    BY <1>0, <1>5 DEF Typed, BooksTyped, UpdateTotal, AdminRows
  <2>2. BooksTyped' BY <1>5, <2>1 DEF Typed, BooksTyped, UpdateTotal, budgets
  <2>3. RequestsTyped' /\ RequestsKeep
    BY <1>5, AdminGoesOn DEF UpdateTotal, CalculationReturns, AdminPc
  <2>4. RowsTyped' /\ Grow /\ RowsKeep BY <1>5, RowsStay DEF UpdateTotal
  <2> QED BY <2>2, <2>3, <2>4 DEF StepSound, Typed
<1>6. CASE CycleAssessed(a)
  <2>1. cycle' \in [Periods -> CycleStatus]
    BY <1>6, CycleTyped DEF CycleAssessed, CycleStatus, FINAL_BILLING_CYCLE_STATUSES
  <2>2. BooksTyped' BY <1>6, <2>1 DEF Typed, BooksTyped, CycleAssessed, budgets
  <2>3. RequestsTyped' /\ RequestsKeep BY <1>6, AdminGoesOn DEF CycleAssessed, AdminPc
  <2>4. RowsTyped' /\ Grow /\ RowsKeep BY <1>6, RowsStay DEF CycleAssessed
  <2> QED BY <2>2, <2>3, <2>4 DEF StepSound, Typed
<1>7. CASE CaughtFailure(a)
  <2>1. repeats' \in Nat /\ faults' \in Nat
    BY <1>7 DEF Typed, BooksTyped, CaughtFailure, CallFails
  <2> QED BY <1>7, <2>1, FailCycleSound DEF CaughtFailure
<1>8. CASE CloseCycle(a)
  <2>1. cycle' \in [Periods -> CycleStatus]
    BY <1>8, CycleTyped DEF CloseCycle, CycleStatus, FINAL_BILLING_CYCLE_STATUSES
  <2>2. BooksTyped' BY <1>8, <2>1 DEF Typed, BooksTyped, CloseCycle, budgets
  <2>3. RequestsTyped' /\ RequestsKeep BY <1>8, AdminGoesOn DEF CloseCycle, AdminPc
  <2>4. RowsTyped' /\ Grow /\ RowsKeep BY <1>8, RowsStay DEF CloseCycle
  <2> QED BY <2>2, <2>3, <2>4 DEF StepSound, Typed
<1> QED BY <1>1, <1>2, <1>3, <1>4, <1>5, <1>6, <1>7, <1>8

\* A fee is a natural number of minor units.
LEMMA FeeIsNatural == \A profit \in Int : computeFeeAmount(profit) \in Nat
<1> SUFFICES ASSUME NEW profit \in Int, profit > 0 PROVE computeFeeAmount(profit) \in Nat
  BY SMT DEF computeFeeAmount
<1>0. FeeScaled \in Nat BY PolicyIsPercentage, SMT
<1>1. profit \in Nat BY SMT
<1>2. \A n \in Nat, k \in Nat : n * k \in Nat BY SMT
<1>3. profit * FeeScaled \in Nat BY <1>0, <1>1, <1>2, SMT
<1>4. \A n \in Nat : n \div 1000000 \in Nat BY SMT
<1> QED BY <1>3, <1>4, SMT DEF computeFeeAmount

\* The assessment a request has computed.
LEMMA AssessedTyped ==
  ASSUME Typed, NEW a \in Admins
  PROVE  /\ Assessed(a) \in AssessRows
         /\ Assessed(a).status \in {"DRAFT", "ASSESSED"} /\ Assessed(a).invoice = 0
<1> DEFINE total == admin[a].total + admin[a].sum
           fee == computeFeeAmount(realisedProfitForFee(total, admin[a].hwm))
<1>1. admin[a].total \in Int /\ admin[a].sum \in Int /\ admin[a].hwm \in Nat
  BY DEF Typed, RequestsTyped, AdminRows
<1>2. total \in Int /\ realisedProfitForFee(total, admin[a].hwm) \in Int
  BY <1>1 DEF realisedProfitForFee
<1>3. fee \in Nat BY <1>2, FeeIsNatural
<1>4. Assessed(a) = [status |-> IF fee > 0 THEN "ASSESSED" ELSE "DRAFT", invoice |-> 0,
                     start |-> admin[a].hwm, ending |-> total, fee |-> fee]
  BY DEF Assessed
<1> HIDE DEF total, fee
<1> QED BY <1>1, <1>2, <1>3, <1>4, BillingBoundsAreNaturals DEF AssessRows, AssessmentStatus

\* What a step needs whose books stay.
LEMMA BooksStay ==
  ASSUME Typed, UNCHANGED <<perf, ledger, feePaid, cycle, events, repeats, faults, again,
                           interrupted>>
  PROVE  BooksTyped'
BY DEF Typed, BooksTyped

\* The other steps of an admin request, and its start.
LEMMA AdminRestSound ==
  ASSUME Typed, RefInv, NEW a \in Admins,
         \/ ReadPerformance(a) \/ SaveAssessment(a) \/ LoadForInvoice(a) \/ IssueInvoice(a)
         \/ LinkInvoice(a)
  PROVE  StepSound
<1>0. admin[a] \in AdminRows /\ admin[a].period \in Periods /\ AdminSound(a)
  BY DEF Typed, RequestsTyped, AdminRows, RefInv
<1>1. CASE ReadPerformance(a)
  <2> DEFINE x == IF admin[a].period \in ledger THEN Pnl[admin[a].period] ELSE 0
             m == [admin[a] EXCEPT !.pc = "save", !.total = perf.total, !.hwm = perf.hwm,
                                   !.sum = x]
  <2>1. x \in Int BY <1>0, AccountIsWellFormed
  <2>2. admin' = [admin EXCEPT ![a] = m]
    BY <1>0, <1>1 DEF ReadPerformance, Typed, RequestsTyped, AdminRows
  <2> HIDE DEF x
  <2>3. perf.total \in Int /\ perf.hwm \in Nat BY DEF Typed, BooksTyped
  <2>4. m \in AdminRows /\ m.pc = "save" BY <1>0, <2>1, <2>3 DEF AdminRows, AdminPc
  <2> HIDE DEF m
  <2>5. RequestsTyped' /\ RequestsKeep BY <1>1, <2>2, <2>4, AdminMoves DEF ReadPerformance
  <2>6. RowsTyped' /\ Grow /\ RowsKeep BY <1>1, RowsStay DEF ReadPerformance, store
  <2>7. BooksTyped' BY <1>1, BooksStay DEF ReadPerformance, store, budgets
  <2> QED BY <2>5, <2>6, <2>7 DEF StepSound, Typed
<1>2. CASE SaveAssessment(a)
  <2>1. UNCHANGED <<repeats, faults, again, interrupted>> BY <1>2 DEF SaveAssessment, budgets
  <2>2. CASE FailCycle(a) BY <2>1, <2>2, FailCycleSound DEF Typed, BooksTyped
  <2>3. CASE /\ assess[admin[a].period].status = "NONE"
             /\ assess' = [assess EXCEPT ![admin[a].period] = Assessed(a)]
             /\ AdminGoes(a, "total")
             /\ UNCHANGED <<perf, ledger, feePaid, cycle, invoices, sessions, events, cust,
                            hook>>
    <3>1. PICK p \in Periods : p = admin[a].period BY <1>0
    <3>2. PICK e \in AssessRows : e = Assessed(a) BY AssessedTyped
    <3>3. e.status \in {"DRAFT", "ASSESSED"} /\ e.invoice = 0 BY <3>2, AssessedTyped
    <3>4. assess[p].invoice = 0
      BY <2>3, <3>1 DEF RefInv, AssessSound, InvoiceSound
    <3>5. assess' = [assess EXCEPT ![p] = e] BY <2>3, <3>1, <3>2
    <3>6. RowsTyped' /\ Grow /\ RowsKeep
      BY <2>3, <3>1, <3>3, <3>4, <3>5, AssessWritten
    <3>7. RequestsTyped' /\ RequestsKeep BY <2>3, AdminGoesOn DEF AdminPc
    <3>8. BooksTyped' BY <2>1, <2>3, BooksStay
    <3> QED BY <3>6, <3>7, <3>8 DEF StepSound, Typed
  <2> QED BY <1>2, <2>2, <2>3 DEF SaveAssessment
<1>3. CASE LoadForInvoice(a)
  <2>1. UNCHANGED <<repeats, faults, again, interrupted>> BY <1>3 DEF LoadForInvoice, budgets
  <2>2. CASE FailCycle(a) BY <2>1, <2>2, FailCycleSound DEF Typed, BooksTyped
  <2>3. CASE /\ assess[admin[a].period].status = "ASSESSED"
             /\ AdminGoes(a, "issue")
             /\ UNCHANGED <<store, sessions, events, cust, hook>>
    <3> DEFINE m == [admin[a] EXCEPT !.pc = "issue"]
    <3>1. m \in AdminRows /\ m.pc = "issue" /\ m.period = admin[a].period
      BY <1>0 DEF AdminRows, AdminPc
    <3>2. admin' = [admin EXCEPT ![a] = m] BY <2>3 DEF AdminGoes
    <3>3. assess' = assess BY <2>3 DEF store
    <3> HIDE DEF m
    <3>4. RequestsTyped' /\ RequestsKeep BY <2>3, <3>1, <3>2, <3>3, AdminMoves
    <3>5. RowsTyped' /\ Grow /\ RowsKeep BY <2>3, RowsStay DEF store
    <3>6. BooksTyped' BY <2>1, <2>3, BooksStay DEF store
    <3> QED BY <3>4, <3>5, <3>6 DEF StepSound, Typed
  <2> QED BY <1>3, <2>2, <2>3 DEF LoadForInvoice
<1>4. CASE IssueInvoice(a)
  <2>1. PICK p \in Periods : p = admin[a].period BY <1>0
  <2>7. Len(invoices) \in Nat BY DEF Typed, RowsTyped
  <2>0. PICK n \in Nat : n = Len(invoices) + 1 BY <2>7
  <2> DEFINE e == [period |-> p, amount |-> assess[p].fee, status |-> "ISSUED",
                   tx |-> "PENDING", ref |-> 0]
             m == [admin[a] EXCEPT !.pc = "link", !.inv = n]
  <2>2. assess[p] \in AssessRows /\ assess[p].fee \in Nat
    BY DEF Typed, RowsTyped, AssessRows
  <2>3. e \in InvoiceRows BY <2>2, BillingBoundsAreNaturals DEF InvoiceRows
  <2>4. /\ invoices' = Append(invoices, e) /\ Len(invoices) < MaxInvoices
        /\ admin' = [admin EXCEPT ![a] = m]
        /\ UNCHANGED <<assess, sessions, cust, hook>>
    BY <1>0, <1>4, <2>0, <2>1 DEF IssueInvoice, Typed, RequestsTyped, AdminRows
  <2>5. e.period = p /\ e.amount = assess[p].fee /\ e.ref = 0 OBVIOUS
  <2> HIDE DEF e
  <2>6. /\ invoices' \in Seq(InvoiceRows) /\ Len(invoices') = n /\ invoices'[n] = e
        /\ \A j \in Invoices : invoices'[j] = invoices[j]
    BY <2>0, <2>3, <2>4, RowAppended DEF Typed, RowsTyped, Invoices
  <2>8. n \in 1 .. MaxInvoices /\ n \in Invoices' /\ \A j \in Invoices' : j \in Invoices \/ j = n
    BY <2>0, <2>4, <2>6, <2>7, BillingBoundsAreNaturals DEF Invoices
  <2>9. (\A j \in Invoices : j \in Invoices') /\ Sessions' = Sessions
    BY <2>0, <2>4, <2>6, <2>7 DEF Invoices, Sessions
  <2>10. m \in AdminRows /\ m.pc = "link" /\ m.inv = n /\ m.period = p
    <3>1. n \in 0 .. MaxInvoices BY <2>8, BillingBoundsAreNaturals
    <3> QED BY <1>0, <2>1, <3>1 DEF AdminRows, AdminPc
  <2> HIDE DEF m
  <2>11. assess[p].status # "NONE" BY <1>0, <1>4, <2>1 DEF AdminSound, IssueInvoice, AdminAt
  <2>12. RequestsTyped' /\ RequestsKeep
    BY <2>4, <2>5, <2>6, <2>8, <2>10, <2>11, AdminMoves
  <2>13. RowsTyped' BY <2>4, <2>6, <2>8 DEF Typed, RowsTyped
  <2>14. Grow
    BY <2>4, <2>6, <2>9 DEF Grow, InvoicesGrow, SessionsGrow, AssessGrow
  <2>15. InvoiceSound(n)'
    BY <2>4, <2>5, <2>6, <2>11 DEF InvoiceSound
  <2>16. RowsKeep BY <2>4, <2>6, <2>8, <2>9, <2>15 DEF RowsKeep
  <2>17. BooksTyped' BY <1>4, BooksStay DEF IssueInvoice, budgets
  <2> QED BY <2>12, <2>13, <2>14, <2>16, <2>17 DEF StepSound, Typed
<1>5. CASE LinkInvoice(a)
  <2>1. PICK p \in Periods : p = admin[a].period BY <1>0
  <2>2. PICK n \in Invoices : n = admin[a].inv /\ invoices[n].period = p
    BY <1>0, <1>5, <2>1 DEF AdminSound, LinkInvoice, AdminAt
  <2> DEFINE e == [assess[p] EXCEPT !.invoice = n, !.status = "INVOICED"]
  <2>3. assess' = [assess EXCEPT ![p] = e]
    BY <1>5, <2>1, <2>2 DEF LinkInvoice, Typed, RowsTyped, AssessRows
  <2>4. n \in 1 .. MaxInvoices /\ n # 0
    BY BillingBoundsAreNaturals DEF Typed, RowsTyped, Invoices
  <2>5. /\ e \in AssessRows /\ e.invoice = n /\ e.status = "INVOICED"
        /\ e.fee = assess[p].fee
    <3>1. n \in 0 .. MaxInvoices BY <2>4, BillingBoundsAreNaturals
    <3>2. assess[p] \in AssessRows BY DEF Typed, RowsTyped
    <3> QED BY <3>1, <3>2 DEF AssessRows, AssessmentStatus
  <2> HIDE DEF e
  <2>6. RowsTyped' /\ Grow /\ RowsKeep
    BY <1>5, <2>2, <2>3, <2>4, <2>5, AssessWritten DEF LinkInvoice
  <2>7. RequestsTyped' /\ RequestsKeep BY <1>5, AdminGoesOn DEF LinkInvoice, AdminPc
  <2>8. BooksTyped' BY <1>5, BooksStay DEF LinkInvoice, budgets
  <2> QED BY <2>6, <2>7, <2>8 DEF StepSound, Typed
<1> QED BY <1>1, <1>2, <1>3, <1>4, <1>5

\* Billing requests start.
LEMMA BillingRequestSound ==
  ASSUME Typed, BillingRequest
  PROVE  StepSound
<1>1. ASSUME NEW p \in Periods, CreateBillingCycle(p) PROVE StepSound
  <2>1. cycle' \in [Periods -> CycleStatus]
    BY <1>1 DEF CreateBillingCycle, CycleStatus, Typed, BooksTyped
  <2>2. BooksTyped' BY <1>1, <2>1 DEF Typed, BooksTyped, CreateBillingCycle, budgets
  <2>3. RequestsTyped' /\ RequestsKeep BY <1>1, RequestsStay DEF CreateBillingCycle
  <2>4. RowsTyped' /\ Grow /\ RowsKeep BY <1>1, RowsStay DEF CreateBillingCycle
  <2> QED BY <2>2, <2>3, <2>4 DEF StepSound, Typed
<1>2. ASSUME NEW a \in Admins, NEW p \in Periods, OpenCycle(a, p) \/ CallFeeService(a, p)
      PROVE  StepSound
  <2>1. UNCHANGED <<store, sessions, events, cust, hook, budgets>>
    BY <1>2 DEF OpenCycle, CallFeeService
  <2>2. AdminIdle \in AdminRows
    BY AccountIsWellFormed, BillingBoundsAreNaturals DEF AdminIdle, AdminRows, AdminPc, Periods
  <2>3. PICK step \in {"begin", "cancel", "check", "load"} :
          \/ admin' = [admin EXCEPT ![a] = [AdminIdle EXCEPT !.pc = step, !.period = p,
                                                             !.cycled = TRUE]]
          \/ admin' = [admin EXCEPT ![a] = [AdminIdle EXCEPT !.pc = step, !.period = p]]
    BY <1>2 DEF OpenCycle, CallFeeService
  <2>4. PICK m \in AdminRows : m.pc = step /\ admin' = [admin EXCEPT ![a] = m]
    <3> DEFINE m1 == [AdminIdle EXCEPT !.pc = step, !.period = p, !.cycled = TRUE]
               m2 == [AdminIdle EXCEPT !.pc = step, !.period = p]
    <3>1. m1 \in AdminRows /\ m1.pc = step BY <2>2 DEF AdminRows, AdminPc
    <3>2. m2 \in AdminRows /\ m2.pc = step BY <2>2 DEF AdminRows, AdminPc
    <3>3. admin' = [admin EXCEPT ![a] = m1] \/ admin' = [admin EXCEPT ![a] = m2] BY <2>3
    <3> HIDE DEF m1, m2
    <3> QED BY <3>1, <3>2, <3>3
  <2>5. RequestsTyped' /\ RequestsKeep BY <2>1, <2>4, AdminMoves
  <2>6. RowsTyped' /\ Grow /\ RowsKeep BY <2>1, RowsStay DEF store
  <2>7. BooksTyped' BY <2>1, BooksStay DEF store, budgets
  <2> QED BY <2>5, <2>6, <2>7 DEF StepSound, Typed
<1> QED BY <1>1, <1>2 DEF BillingRequest

\* A checkout request goes on with its invoice, or ends.
LEMMA CustGoesOn ==
  ASSUME Typed, RefInv, NEW c \in Customers, NEW step \in CustPc \ {"save"},
         cust[c].pc # "idle", CustGoes(c, step) \/ CustEnds(c), UNCHANGED <<admin, hook>>,
         InvoicesGrow
  PROVE  RequestsTyped' /\ RequestsKeep
<1>0. cust[c] \in CustRows /\ cust[c].inv \in Invoices
  BY DEF Typed, RequestsTyped, RefInv, CustSound
<1>1. CustIdle \in CustRows /\ CustIdle.pc = "idle"
  BY BillingBoundsAreNaturals DEF CustIdle, CustRows, CustPc
<1>2. CASE CustEnds(c) BY <1>1, <1>2, CustMoves DEF CustEnds
<1>3. CASE CustGoes(c, step)
  <2> DEFINE m == [cust[c] EXCEPT !.pc = step]
  <2>1. m \in CustRows /\ m.pc = step /\ m.inv = cust[c].inv BY <1>0 DEF CustRows
  <2>2. cust' = [cust EXCEPT ![c] = m] BY <1>3 DEF CustGoes
  <2>3. m.inv \in Invoices' BY <1>0, <2>1 DEF InvoicesGrow
  <2> HIDE DEF m
  <2> QED BY <2>1, <2>2, <2>3, CustMoves
<1> QED BY <1>2, <1>3

\* A transaction's new status.
LEMMA TxWritten ==
  ASSUME Typed, UNCHANGED <<assess, sessions>>, NEW i \in Invoices,
         NEW tx \in {"PENDING", "PROCESSING", "SUCCEEDED", "FAILED"},
         invoices' = [invoices EXCEPT ![i].tx = tx]
  PROVE  RowsTyped' /\ Grow /\ RowsKeep /\ Invoices' = Invoices
<1> DEFINE e == [invoices[i] EXCEPT !.tx = tx]
<1>1. invoices[i] \in InvoiceRows BY DEF Typed, RowsTyped, Invoices
<1>2. /\ e \in InvoiceRows /\ e.period = invoices[i].period
      /\ e.amount = invoices[i].amount /\ e.ref = invoices[i].ref
  BY <1>1 DEF InvoiceRows
<1>3. invoices' = [invoices EXCEPT ![i] = e] OBVIOUS
<1> HIDE DEF e
<1> QED BY <1>2, <1>3, InvoiceWritten

\* The steps of a checkout that write at most a transaction's status.
LEMMA CustLocalSound ==
  ASSUME Typed, RefInv, NEW c \in Customers,
         \/ Claim(c) \/ CheckoutFails(c) \/ SafetyNetReads(c) \/ SafetyNetReleases(c)
  PROVE  StepSound
<1>0. cust[c].pc # "idle"
  BY DEF Claim, CheckoutFails, SafetyNetReads, SafetyNetReleases, CustAt
<1>1. PICK i \in Invoices : i = cust[c].inv BY <1>0 DEF RefInv, CustSound
<1>2. /\ UNCHANGED <<perf, ledger, feePaid, assess, cycle, sessions, events, admin, hook, repeats,
                      again>>
      /\ faults' \in Nat
  BY DEF Claim, CheckoutFails, SafetyNetReads, SafetyNetReleases, store, budgets, CallFails,
         Typed, BooksTyped
<1>6. interrupted' \in BOOLEAN
  <2>1. interrupted' = interrupted \/ interrupted' = TRUE
    BY Zenon DEF Claim, CheckoutFails, SafetyNetReads, SafetyNetReleases, budgets
  <2> QED BY <2>1, Zenon DEF Typed, BooksTyped
<1>3. BooksTyped' BY <1>2, <1>6 DEF Typed, BooksTyped
<1>4. RowsTyped' /\ Grow /\ RowsKeep
  <2>1. \/ UNCHANGED invoices
        \/ invoices' = [invoices EXCEPT ![i].tx = "PROCESSING"]
        \/ invoices' = [invoices EXCEPT ![i].tx = "PENDING"]
    BY <1>1 DEF Claim, CheckoutFails, SafetyNetReads, SafetyNetReleases, store
  <2>2. CASE UNCHANGED invoices BY <1>2, <2>2, RowsStay
  <2> QED BY <1>2, <2>1, <2>2, TxWritten
<1>5. RequestsTyped' /\ RequestsKeep
  <2>1. \/ CustGoes(c, "call") \/ CustGoes(c, "net") \/ CustGoes(c, "release")
        \/ CustEnds(c)
    BY DEF Claim, CheckoutFails, SafetyNetReads, SafetyNetReleases
  <2>2. InvoicesGrow BY <1>4 DEF Grow
  <2>3. {"call", "net", "release"} \subseteq CustPc \ {"save"} BY DEF CustPc
  <2> QED BY <1>0, <1>2, <2>1, <2>2, <2>3, CustGoesOn
<1> QED BY <1>3, <1>4, <1>5 DEF StepSound, Typed

\* The first look at an invoice.
LEMMA LoadPayableSound ==
  ASSUME Typed, NEW c \in Customers, NEW i \in Invoices, LoadPayable(c, i)
  PROVE  StepSound
<1> DEFINE m == [pc |-> "claim", inv |-> i, session |-> 0]
<1>1. /\ UNCHANGED <<store, sessions, events, admin, hook, budgets>>
      /\ cust' = [cust EXCEPT ![c] = m]
  BY DEF LoadPayable
<1>2. i \in 0 .. MaxInvoices BY BillingBoundsAreNaturals DEF Typed, RowsTyped, Invoices
<1>3. m \in CustRows /\ m.pc = "claim" /\ m.inv = i
  BY <1>2, BillingBoundsAreNaturals DEF CustRows, CustPc
<1> HIDE DEF m
<1>4. Invoices' = Invoices BY <1>1 DEF Invoices, store
<1>5. RequestsTyped' /\ RequestsKeep BY <1>1, <1>3, <1>4, CustMoves
<1>6. RowsTyped' /\ Grow /\ RowsKeep BY <1>1, RowsStay DEF store
<1>7. BooksTyped' BY <1>1, BooksStay DEF store, budgets
<1> QED BY <1>5, <1>6, <1>7 DEF StepSound, Typed

\* The provider creates a session.
LEMMA CreateSessionSound ==
  ASSUME Typed, RefInv, NEW c \in Customers, CreateSession(c)
  PROVE  StepSound
<1>0. cust[c] \in CustRows /\ cust[c].pc = "call"
  BY DEF Typed, RequestsTyped, CreateSession, CustAt
<1>1. PICK i \in Invoices : i = cust[c].inv BY <1>0 DEF RefInv, CustSound
<1>2. Len(sessions) \in Nat BY DEF Typed, RowsTyped
<1>3. PICK n \in Nat : n = Len(sessions) + 1 BY <1>2
<1> DEFINE e == [invoice |-> i, amount |-> invoices[i].amount, status |-> "OPEN",
                 given |-> FALSE, acked |-> FALSE]
           m == [cust[c] EXCEPT !.pc = "save", !.session = n]
<1>4. /\ sessions' = Append(sessions, e) /\ Len(sessions) < MaxSessions
      /\ cust' = [cust EXCEPT ![c] = m]
      /\ UNCHANGED <<store, events, admin, hook, budgets>>
  BY <1>0, <1>1, <1>3 DEF CreateSession, Typed, RequestsTyped, CustRows
<1>5. invoices[i].amount \in Nat /\ i \in 1 .. MaxInvoices
  <2>1. invoices[i] \in InvoiceRows /\ i \in 1 .. MaxInvoices
    BY BillingBoundsAreNaturals DEF Typed, RowsTyped, Invoices
  <2> QED BY <2>1 DEF InvoiceRows
<1>6. e \in SessionRows /\ e.invoice = i /\ e.amount = invoices[i].amount
  BY <1>5 DEF SessionRows
<1> HIDE DEF e
<1>7. /\ sessions' \in Seq(SessionRows) /\ Len(sessions') = n /\ sessions'[n] = e
      /\ \A j \in Sessions : sessions'[j] = sessions[j]
  BY <1>3, <1>4, <1>6, RowAppended DEF Typed, RowsTyped, Sessions
<1>8. /\ n \in 0 .. MaxSessions /\ n \in Sessions'
      /\ \A j \in Sessions' : j \in Sessions \/ j = n
      /\ \A j \in Sessions : j \in Sessions'
  BY <1>2, <1>3, <1>4, <1>7, BillingBoundsAreNaturals DEF Sessions
<1>9. UNCHANGED <<assess, invoices>> /\ Invoices' = Invoices BY <1>4 DEF store, Invoices
<1>10. /\ m \in CustRows /\ m.pc = "save" /\ m.session = n /\ m.inv = i
  BY <1>0, <1>1, <1>8 DEF CustRows, CustPc
<1> HIDE DEF m
<1>11. RequestsTyped' /\ RequestsKeep
  BY <1>4, <1>6, <1>7, <1>8, <1>9, <1>10, CustMoves
<1>12. RowsTyped' BY <1>4, <1>7, <1>8, <1>9 DEF Typed, RowsTyped
<1>13. Grow BY <1>7, <1>8, <1>9 DEF Grow, InvoicesGrow, SessionsGrow, AssessGrow
<1>14. SessionSound(n)' BY <1>6, <1>7, <1>9 DEF SessionSound
<1>15. RowsKeep BY <1>8, <1>9, <1>14 DEF RowsKeep
<1>16. BooksTyped' BY <1>4, BooksStay DEF store, budgets
<1> QED BY <1>11, <1>12, <1>13, <1>15, <1>16 DEF StepSound, Typed

\* The transaction is given its session.
LEMMA SaveReferenceSound ==
  ASSUME Typed, RefInv, NEW c \in Customers, SaveReference(c)
  PROVE  StepSound
<1>0. cust[c] \in CustRows /\ cust[c].pc = "save"
  BY DEF Typed, RequestsTyped, SaveReference, CustAt
<1>1. PICK i \in Invoices : i = cust[c].inv BY <1>0 DEF RefInv, CustSound
<1>2. PICK s \in Sessions : s = cust[c].session /\ sessions[s].invoice = i
  BY <1>0, <1>1 DEF RefInv, CustSound
<1> DEFINE e == [invoices[i] EXCEPT !.ref = s, !.tx = "PROCESSING"]
           f == [sessions[s] EXCEPT !.given = TRUE]
<1>3. invoices[i] \in InvoiceRows /\ sessions[s] \in SessionRows /\ s \in 0 .. MaxSessions
  BY BillingBoundsAreNaturals DEF Typed, RowsTyped, Invoices, Sessions
<1>4. /\ e \in InvoiceRows /\ e.period = invoices[i].period
      /\ e.amount = invoices[i].amount /\ e.ref = s
  BY <1>3 DEF InvoiceRows
<1>5. /\ f \in SessionRows /\ f.invoice = sessions[s].invoice
      /\ f.amount = sessions[s].amount /\ f.status = sessions[s].status
  BY <1>3 DEF SessionRows
<1>6. /\ invoices' = [invoices EXCEPT ![i] = e] /\ sessions' = [sessions EXCEPT ![s] = f]
      /\ UNCHANGED <<perf, ledger, feePaid, assess, cycle, events, admin, hook, budgets>>
      /\ CustEnds(c)
  BY <1>1, <1>2, <1>3 DEF SaveReference, InvoiceRows
<1> HIDE DEF e, f
<1>7. /\ invoices' \in Seq(InvoiceRows) /\ Len(invoices') = Len(invoices)
      /\ invoices'[i] = e
      /\ \A j \in Invoices : j # i => invoices'[j] = invoices[j]
  BY <1>4, <1>6, RowReplaced DEF Typed, RowsTyped, Invoices
<1>8. /\ sessions' \in Seq(SessionRows) /\ Len(sessions') = Len(sessions)
      /\ sessions'[s] = f
      /\ \A j \in Sessions : j # s => sessions'[j] = sessions[j]
  BY <1>5, <1>6, RowReplaced DEF Typed, RowsTyped, Sessions
<1>9. Invoices' = Invoices /\ Sessions' = Sessions BY <1>7, <1>8 DEF Invoices, Sessions
<1>10. RowsTyped' BY <1>6, <1>7, <1>8 DEF Typed, RowsTyped
<1>11. Grow
  BY <1>4, <1>5, <1>6, <1>7, <1>8, <1>9 DEF Grow, InvoicesGrow, SessionsGrow, AssessGrow
<1>12. InvoiceSound(i)'
  <2>1. InvoiceSound(i) BY DEF RefInv
  <2> QED BY <1>2, <1>4, <1>5, <1>6, <1>7, <1>8, <1>9, <2>1 DEF InvoiceSound
<1>13. RowsKeep BY <1>6, <1>7, <1>9, <1>12 DEF RowsKeep
<1>14. RequestsTyped' /\ RequestsKeep
  <2>1. "claim" \in CustPc \ {"save"} BY DEF CustPc
  <2> QED BY <1>0, <1>6, <1>11, <2>1, CustGoesOn DEF Grow
<1>15. BooksTyped' BY <1>6, BooksStay DEF budgets
<1> QED BY <1>10, <1>11, <1>13, <1>14, <1>15 DEF StepSound, Typed

\* A session ends at the provider.
LEMMA SessionEndsSound ==
  ASSUME Typed, NEW s \in Sessions, SessionEnds(s)
  PROVE  StepSound
<1>1. PICK result \in {"PAID", "FAILED"} : sessions' = [sessions EXCEPT ![s].status = result]
  BY DEF SessionEnds
<1>2. sessions[s].status = "OPEN" /\ UNCHANGED <<store, events, admin, cust, hook, budgets>>
  BY DEF SessionEnds
<1> DEFINE e == [sessions[s] EXCEPT !.status = result]
<1>3. sessions[s] \in SessionRows BY DEF Typed, RowsTyped, Sessions
<1>4. e \in SessionRows /\ e.invoice = sessions[s].invoice /\ e.amount = sessions[s].amount
  BY <1>3 DEF SessionRows
<1>5. sessions' = [sessions EXCEPT ![s] = e] BY <1>1
<1> HIDE DEF e
<1>6. RowsTyped' /\ Grow /\ RowsKeep BY <1>2, <1>4, <1>5, SessionWritten DEF store
<1>7. RequestsTyped' /\ RequestsKeep BY <1>2, RequestsStay
<1>8. BooksTyped' BY <1>2, BooksStay DEF store, budgets
<1> QED BY <1>6, <1>7, <1>8 DEF StepSound, Typed

\* A webhook that holds a session: what it may rely on.
LEMMA BusyHook ==
  ASSUME Typed, RefInv, NEW d \in Deliverers, hook[d].pc # "idle"
  PROVE  /\ hook[d] \in HookRows /\ HookHolds(hook[d])
         /\ hook[d].session \in Sessions
BY DEF Typed, RequestsTyped, RefInv, HookSound, HookHolds

\* A webhook goes on to step with what it holds.
LEMMA HookGoesOn ==
  ASSUME Typed, RefInv, NEW d \in Deliverers, NEW step \in HookPc, HookGoes(d, step),
         hook[d].pc # "idle", UNCHANGED <<admin, cust>>, Grow,
         step \in Settling => hook[d].pc \in Settling,
         step \in Entering \union Entered => hook[d].pc \in Entering \union Entered,
         step # "fail"
  PROVE  RequestsTyped' /\ RequestsKeep
<1> DEFINE m == [hook[d] EXCEPT !.pc = step]
<1>0. hook[d] \in HookRows /\ HookHolds(hook[d]) BY BusyHook
<1>1. /\ m \in HookRows /\ m.pc = step /\ m.session = hook[d].session /\ m.inv = hook[d].inv
      /\ m.period = hook[d].period /\ m.period \in Periods
  BY <1>0 DEF HookRows
<1>2. hook' = [hook EXCEPT ![d] = m] BY DEF HookGoes
<1> HIDE DEF m
<1>3. PICK k \in HookRows : k = m BY <1>1
<1>4. HookHolds(k)'
  BY <1>0, <1>1, <1>3
  DEF HookHolds, Grow, InvoicesGrow, SessionsGrow, AssessGrow, Entering, Entered, Settling
<1> QED BY <1>2, <1>3, <1>4, HookMoves

\* A webhook ends.
LEMMA HookEnds ==
  ASSUME Typed, NEW d \in Deliverers, hook' = [hook EXCEPT ![d] = HookIdle],
         UNCHANGED <<admin, cust>>
  PROVE  RequestsTyped' /\ RequestsKeep
<1>1. HookIdle \in HookRows /\ HookIdle.pc = "idle"
  BY AccountIsWellFormed, BillingBoundsAreNaturals DEF HookIdle, HookRows, HookPc, Periods
<1>2. HookHolds(HookIdle)' BY <1>1 DEF HookHolds, Settling, Entering, Entered
<1> QED BY <1>1, <1>2, HookMoves

\* The provider is told that the event was received.
LEMMA Acked ==
  ASSUME Typed, UNCHANGED <<assess, invoices>>, NEW s \in Sessions,
         sessions' = [sessions EXCEPT ![s].acked = TRUE]
  PROVE  RowsTyped' /\ Grow /\ RowsKeep
<1> DEFINE e == [sessions[s] EXCEPT !.acked = TRUE]
<1>1. sessions[s] \in SessionRows BY DEF Typed, RowsTyped, Sessions
<1>2. /\ e \in SessionRows /\ e.invoice = sessions[s].invoice
      /\ e.amount = sessions[s].amount /\ e.status = sessions[s].status
  BY <1>1 DEF SessionRows
<1>3. sessions' = [sessions EXCEPT ![s] = e] OBVIOUS
<1> HIDE DEF e
<1> QED BY <1>2, <1>3, SessionWritten

\* An event is delivered.
LEMMA DeliverSound ==
  ASSUME Typed, NEW d \in Deliverers, NEW s \in Sessions, Deliver(d, s)
  PROVE  StepSound
<1>0. s \in 1 .. MaxSessions BY BillingBoundsAreNaturals DEF Typed, RowsTyped, Sessions
<1>1. /\ UNCHANGED <<store, admin, cust, faults, interrupted>> /\ sessions[s].status # "OPEN"
      /\ repeats' \in Nat
  BY DEF Deliver, Typed, BooksTyped
<1>2. CASE /\ sessions' = [sessions EXCEPT ![s].acked = TRUE]
           /\ UNCHANGED <<events, hook, again>>
  <2>1. RowsTyped' /\ Grow /\ RowsKeep BY <1>1, <1>2, Acked DEF store
  <2>2. RequestsTyped' /\ RequestsKeep BY <1>1, <1>2, RequestsStay
  <2>3. BooksTyped' BY <1>1, <1>2 DEF Typed, BooksTyped, store
  <2> QED BY <2>1, <2>2, <2>3 DEF StepSound, Typed
<1>3. CASE /\ events' = [events EXCEPT ![s] = "STORED"]
           /\ hook' = [hook EXCEPT ![d] = [HookIdle EXCEPT !.pc = "find", !.session = s]]
           /\ UNCHANGED again \/ again' = [again EXCEPT ![s] = @ + 1]
           /\ UNCHANGED sessions
  <2> DEFINE m == [HookIdle EXCEPT !.pc = "find", !.session = s]
  <2>1. m \in HookRows /\ m.pc = "find" /\ m.session = s
    <3>1. HookIdle \in HookRows
      BY AccountIsWellFormed, BillingBoundsAreNaturals DEF HookIdle, HookRows, HookPc, Periods
    <3>2. s \in 0 .. MaxSessions BY <1>0, BillingBoundsAreNaturals
    <3> QED BY <3>1, <3>2 DEF HookRows, HookPc
  <2>2. hook' = [hook EXCEPT ![d] = m] BY <1>3
  <2> HIDE DEF m
  <2>3. PICK k \in HookRows : k = m BY <2>1
  <2>4. HookHolds(k)'
    BY <1>1, <1>3, <2>1, <2>3 DEF HookHolds, Settling, Entering, Entered, Sessions
  <2>5. RequestsTyped' /\ RequestsKeep BY <1>1, <2>2, <2>3, <2>4, HookMoves
  <2>6. RowsTyped' /\ Grow /\ RowsKeep BY <1>1, <1>3, RowsStay DEF store
  <2>7. events' \in [1 .. MaxSessions -> EventStates]
    BY <1>3 DEF Typed, BooksTyped, EventStates
  <2>8. again' \in [1 .. MaxSessions -> Nat] BY <1>0, <1>3 DEF Typed, BooksTyped
  <2>9. BooksTyped' BY <1>1, <2>7, <2>8 DEF Typed, BooksTyped, store
  <2> QED BY <2>5, <2>6, <2>9 DEF StepSound, Typed
<1> QED BY <1>2, <1>3 DEF Deliver

\* Two fields of one row, and the row as a whole.
LEMMA HookFields ==
  ASSUME hook \in [Deliverers -> HookRows], NEW d \in Deliverers, NEW pc, NEW inv
  PROVE  [hook EXCEPT ![d].pc = pc, ![d].inv = inv]
            = [hook EXCEPT ![d] = [hook[d] EXCEPT !.pc = pc, !.inv = inv]]
BY DEF HookRows

\* The event's transaction is looked up: the reference names one invoice.
LEMMA FindTransactionSound ==
  ASSUME Typed, RefInv, NEW d \in Deliverers, FindTransaction(d)
  PROVE  StepSound
<1>0. hook[d].pc = "find" BY DEF FindTransaction, HookAt
<1>1. hook[d] \in HookRows /\ HookHolds(hook[d]) BY <1>0, BusyHook
<1>2. hook[d].session \in Sessions BY <1>0, BusyHook
<1> DEFINE s == hook[d].session
           Found == {i \in Invoices : invoices[i].ref = s}
           pc == IF Found = {} THEN "finish"
                 ELSE IF sessions[s].status = "FAILED" THEN "fail"
                 ELSE IF \E i \in Found : amountMatches(s, i) THEN "succeed"
                 ELSE "finish"
           inv == IF Found = {} THEN 0 ELSE CHOOSE i \in Found : TRUE
           m == [hook[d] EXCEPT !.pc = pc, !.inv = inv]
<1>3. /\ hook' = [hook EXCEPT ![d] = m]
      /\ UNCHANGED <<store, sessions, events, admin, cust, budgets>>
  <2>1. hook' = [hook EXCEPT ![d].pc = pc, ![d].inv = inv] BY DEF FindTransaction
  <2>2. UNCHANGED <<store, sessions, events, admin, cust, budgets>> BY DEF FindTransaction
  <2> HIDE DEF pc, inv
  <2> QED BY <2>1, <2>2, HookFields DEF Typed, RequestsTyped
<1>4. /\ pc \in {"finish", "fail", "succeed"}
      /\ pc = "fail" => sessions[s].status = "FAILED"
      /\ pc = "succeed" => sessions[s].status # "FAILED"
      /\ pc # "finish" => Found # {}
  OBVIOUS
<1>5. Found # {} => inv \in Found OBVIOUS
<1>6. Found = {} => inv = 0 OBVIOUS
<1>7. \A i \in Found : i \in Invoices /\ sessions[s].invoice = i
  <2> SUFFICES ASSUME NEW i \in Invoices, invoices[i].ref = s PROVE sessions[s].invoice = i
    OBVIOUS
  <2>1. InvoiceSound(i) /\ s # 0 BY <1>2 DEF RefInv, Sessions
  <2> QED BY <2>1 DEF InvoiceSound
<1>8. Invoices \subseteq 1 .. MaxInvoices BY BillingBoundsAreNaturals DEF Typed, RowsTyped, Invoices
<1> HIDE DEF Found, pc, inv
<1>9. inv \in 0 .. MaxInvoices
  <2>1. CASE Found = {} BY <1>6, <2>1, BillingBoundsAreNaturals
  <2>2. CASE Found # {}
    <3>1. inv \in Invoices BY <1>5, <1>7, <2>2
    <3> QED BY <1>8, <3>1, BillingBoundsAreNaturals
  <2> QED BY <2>1, <2>2
<1>10. m \in HookRows /\ m.pc = pc /\ m.inv = inv /\ m.session = s
  BY <1>1, <1>2, <1>4, <1>9 DEF HookRows, HookPc, Settling
<1> HIDE DEF m
<1>11. PICK k \in HookRows : k = m BY <1>10
<1>12. sessions[s].status # "OPEN" /\ sessions[s].status \in {"OPEN", "PAID", "FAILED"}
  <2>1. sessions[s] \in SessionRows BY <1>2 DEF Typed, RowsTyped, Sessions
  <2> QED BY <1>0, <1>1, <1>2, <2>1 DEF HookHolds, SessionRows
<1>13. HookHolds(k)
  <2>1. k.pc = pc /\ k.inv = inv /\ k.session = s BY <1>10, <1>11
  <2>2. k.pc # "finish" => k.inv \in Invoices /\ sessions[k.session].invoice = k.inv
    BY <1>4, <1>5, <1>7, <2>1
  <2>3. k.session \in Sessions BY <1>2, <2>1
  <2>4. /\ k.pc = "fail" => sessions[k.session].status = "FAILED"
        /\ k.pc = "succeed" => sessions[k.session].status = "PAID"
        /\ k.pc \in {"finish", "fail", "succeed"}
        /\ sessions[k.session].status # "OPEN"
    BY <1>4, <1>12, <2>1
  <2> QED BY <2>2, <2>3, <2>4 DEF HookHolds, Settling, Entering, Entered
<1>14. HookHolds(k)' BY <1>3, <1>13 DEF HookHolds, store, Sessions, Invoices
<1>15. RequestsTyped' /\ RequestsKeep BY <1>3, <1>11, <1>14, HookMoves
<1>16. RowsTyped' /\ Grow /\ RowsKeep BY <1>3, RowsStay DEF store
<1>17. BooksTyped' BY <1>3, BooksStay DEF store, budgets
<1> QED BY <1>15, <1>16, <1>17 DEF StepSound, Typed

\* Transaction and invoice take the event's result.
LEMMA HookInvoiceSound ==
  ASSUME Typed, RefInv, NEW d \in Deliverers,
         MarkFailed(d) \/ MarkSucceeded(d) \/ PayInvoice(d)
  PROVE  StepSound
<1>0. hook[d].pc \in {"fail", "succeed", "pay"}
  BY DEF MarkFailed, MarkSucceeded, PayInvoice, HookAt
<1>1. PICK i \in Invoices : i = hook[d].inv
  BY <1>0, BusyHook DEF HookHolds, Settling
<1>2. UNCHANGED <<perf, ledger, feePaid, assess, cycle, sessions, events, admin, cust, budgets>>
  BY DEF MarkFailed, MarkSucceeded, PayInvoice
<1>3. RowsTyped' /\ Grow /\ RowsKeep
  <2>1. CASE MarkFailed(d) \/ MarkSucceeded(d)
    <3>1. PICK tx \in {"SUCCEEDED", "FAILED"} : invoices' = [invoices EXCEPT ![i].tx = tx]
      BY <1>1, <2>1 DEF MarkFailed, MarkSucceeded
    <3> QED BY <1>2, <3>1, TxWritten
  <2>2. CASE PayInvoice(d)
    <3> DEFINE e == [invoices[i] EXCEPT !.status = "PAID"]
    <3>1. invoices[i] \in InvoiceRows BY DEF Typed, RowsTyped, Invoices
    <3>2. /\ e \in InvoiceRows /\ e.period = invoices[i].period
          /\ e.amount = invoices[i].amount /\ e.ref = invoices[i].ref
      BY <3>1 DEF InvoiceRows
    <3>3. invoices' = [invoices EXCEPT ![i] = e] BY <1>1, <2>2 DEF PayInvoice
    <3> HIDE DEF e
    <3> QED BY <1>2, <3>2, <3>3, InvoiceWritten
  <2> QED BY <2>1, <2>2
<1>4. RequestsTyped' /\ RequestsKeep
  <2>1. \/ HookGoes(d, "finish")
        \/ HookGoes(d, "pay") /\ hook[d].pc \in Settling
        \/ HookGoes(d, "assessment") /\ hook[d].pc \in Settling
    BY DEF MarkFailed, MarkSucceeded, PayInvoice, HookAt, Settling
  <2>2. {"finish", "pay", "assessment"} \subseteq HookPc BY DEF HookPc, Settling
  <2>3. {"finish", "pay", "assessment"} \cap (Entering \union Entered) = {} /\ "finish" \notin Settling
    BY DEF Entering, Entered, Settling
  <2> QED BY <1>0, <1>2, <1>3, <2>1, <2>2, <2>3, HookGoesOn
<1>5. BooksTyped' BY <1>2, BooksStay DEF budgets
<1> QED BY <1>3, <1>4, <1>5 DEF StepSound, Typed

\* The invoice's assessment is looked up: it is that of the invoice's period.
LEMMA ReadAssessmentSound ==
  ASSUME Typed, RefInv, NEW d \in Deliverers, ReadAssessment(d)
  PROVE  StepSound
<1>0. hook[d].pc = "assessment" BY DEF ReadAssessment, HookAt
<1>1. hook[d] \in HookRows /\ HookHolds(hook[d]) BY <1>0, BusyHook
<1>2. PICK i \in Invoices : i = hook[d].inv BY <1>0, <1>1 DEF HookHolds, Settling
<1> DEFINE Unpaid == {p \in Periods : assess[p].invoice = hook[d].inv /\ assess[p].status # "PAID"}
           pc == IF Unpaid = {} THEN "finish" ELSE "paid"
           per == IF Unpaid = {} THEN 1 ELSE CHOOSE p \in Unpaid : TRUE
           m == [hook[d] EXCEPT !.pc = pc, !.period = per]
<1>3. /\ hook' = [hook EXCEPT ![d] = m]
      /\ UNCHANGED <<store, sessions, events, admin, cust, budgets>>
  <2>1. hook' = [hook EXCEPT ![d].pc = pc, ![d].period = per] BY DEF ReadAssessment
  <2>2. UNCHANGED <<store, sessions, events, admin, cust, budgets>> BY DEF ReadAssessment
  <2> HIDE DEF pc, per
  <2>3. [hook EXCEPT ![d].pc = pc, ![d].period = per]
          = [hook EXCEPT ![d] = [hook[d] EXCEPT !.pc = pc, !.period = per]]
    BY DEF Typed, RequestsTyped, HookRows
  <2> QED BY <2>1, <2>2, <2>3
<1>4. /\ pc \in {"finish", "paid"}
      /\ pc = "paid" => Unpaid # {}
  OBVIOUS
<1>5. Unpaid # {} => per \in Unpaid OBVIOUS
<1>6. Unpaid = {} => per = 1 OBVIOUS
<1>7. \A p \in Unpaid : p \in Periods /\ invoices[i].period = p /\ assess[p].invoice # 0
  <2> SUFFICES ASSUME NEW p \in Periods, assess[p].invoice = i
               PROVE  invoices[i].period = p /\ assess[p].invoice # 0
    BY <1>2
  <2>1. AssessSound(p) /\ i # 0 BY DEF RefInv, Invoices
  <2> QED BY <2>1 DEF AssessSound
<1> HIDE DEF Unpaid, pc, per
<1>8. per \in Periods
  <2>1. CASE Unpaid = {} BY <1>6, <2>1, AccountIsWellFormed DEF Periods
  <2>2. CASE Unpaid # {} BY <1>5, <1>7, <2>2
  <2> QED BY <2>1, <2>2
<1>9. m \in HookRows /\ m.pc = pc /\ m.inv = i /\ m.session = hook[d].session /\ m.period = per
  BY <1>1, <1>2, <1>4, <1>8 DEF HookRows, HookPc, Settling, Entering
<1> HIDE DEF m
<1>10. PICK k \in HookRows : k = m BY <1>9
<1>11. HookHolds(k)
  <2>1. k.pc \in {"finish", "paid"} /\ k.inv = hook[d].inv /\ k.session = hook[d].session
    BY <1>2, <1>4, <1>9, <1>10
  <2>2. k.pc = "paid" => invoices[k.inv].period = k.period /\ assess[k.period].invoice # 0
    BY <1>4, <1>5, <1>7, <1>9, <1>10
  <2>3. /\ hook[d].session \in Sessions /\ sessions[hook[d].session].status # "OPEN"
        /\ sessions[hook[d].session].invoice = hook[d].inv
        /\ sessions[hook[d].session].status = "PAID"
    BY <1>0, <1>1 DEF HookHolds, Settling
  <2> QED BY <1>2, <2>1, <2>2, <2>3 DEF HookHolds, Settling, Entering, Entered
<1>12. HookHolds(k)' BY <1>3, <1>11 DEF HookHolds, store, Sessions, Invoices
<1>13. RequestsTyped' /\ RequestsKeep BY <1>3, <1>10, <1>12, HookMoves
<1>14. RowsTyped' /\ Grow /\ RowsKeep BY <1>3, RowsStay DEF store
<1>15. BooksTyped' BY <1>3, BooksStay DEF store, budgets
<1> QED BY <1>13, <1>14, <1>15 DEF StepSound, Typed

\* The assessment is PAID: the webhook's own session was paid for it.
LEMMA MarkPaidSound ==
  ASSUME Typed, RefInv, NEW d \in Deliverers, MarkPaid(d)
  PROVE  StepSound
<1>0. hook[d].pc = "paid" BY DEF MarkPaid, HookAt
<1>1. hook[d] \in HookRows /\ HookHolds(hook[d]) BY <1>0, BusyHook
<1>2. PICK p \in Periods : p = hook[d].period BY <1>1 DEF HookRows
<1> DEFINE e == [assess[p] EXCEPT !.status = "PAID"]
<1>3. assess[p] \in AssessRows BY DEF Typed, RowsTyped
<1>4. /\ e \in AssessRows /\ e.status = "PAID" /\ e.fee = assess[p].fee
      /\ e.invoice = assess[p].invoice
  BY <1>3 DEF AssessRows, AssessmentStatus
<1>5. assess' = [assess EXCEPT ![p] = e] BY <1>2 DEF MarkPaid
<1> HIDE DEF e
<1>6. assess[p].invoice # 0 /\ AssessSound(p)
  BY <1>0, <1>1, <1>2 DEF HookHolds, Entering, Entered, RefInv
<1>7. hook[d].session \in Sessions /\ hook[d].session \in Collected(p)
  BY <1>0, <1>1, <1>2 DEF HookHolds, Settling, Entering, Entered, Collected
<1>8. RowsTyped' /\ Grow /\ RowsKeep
  <2>1. UNCHANGED <<invoices, sessions>> BY DEF MarkPaid
  <2>2. e.invoice \in Invoices /\ invoices[e.invoice].period = p BY <1>4, <1>6 DEF AssessSound
  <2>3. \E s \in Sessions : s \in Collected(p) BY <1>7
  <2> QED BY <1>4, <1>5, <1>6, <2>1, <2>2, <2>3, AssessWritten
<1>9. RequestsTyped' /\ RequestsKeep
  <2>1. "entry" \in HookPc /\ "entry" \in Entering /\ "paid" \in Entering /\ "paid" \in Settling
    BY DEF HookPc, Settling, Entering
  <2> QED BY <1>0, <1>8, <2>1, HookGoesOn DEF MarkPaid
<1>10. BooksTyped' BY BooksStay DEF MarkPaid, budgets
<1> QED BY <1>8, <1>9, <1>10 DEF StepSound, Typed

\* The steps of a webhook that write the books.
LEMMA HookBooksSound ==
  ASSUME Typed, RefInv, NEW d \in Deliverers,
         AddFeePaid(d) \/ HookReadsPerformance(d) \/ UpdateHighWaterMark(d)
  PROVE  StepSound
<1>0. hook[d].pc \in {"entry", "performance", "mark"}
  BY DEF AddFeePaid, HookReadsPerformance, UpdateHighWaterMark, HookAt
<1>1. hook[d] \in HookRows /\ HookHolds(hook[d]) BY <1>0, BusyHook
<1>2. UNCHANGED <<ledger, assess, cycle, invoices, sessions, events, admin, cust, repeats, faults,
                  again, interrupted>>
  BY DEF AddFeePaid, HookReadsPerformance, UpdateHighWaterMark, store, budgets
<1>3. RowsTyped' /\ Grow /\ RowsKeep BY <1>2, RowsStay
<1>4. {"performance", "finish"} \subseteq HookPc /\ "finish" \notin Settling
      /\ "finish" \notin Entering \union Entered
      /\ {"entry", "performance", "mark"} \subseteq Settling \cap (Entering \union Entered)
  BY DEF HookPc, Settling, Entering, Entered
<1>5. CASE AddFeePaid(d)
  <2>1. hook[d].session \in 1 .. MaxSessions
    BY <1>0, BusyHook, BillingBoundsAreNaturals DEF Typed, RowsTyped, Sessions
  <2>2. feePaid' \in [1 .. MaxSessions -> Nat] BY <1>5, <2>1 DEF AddFeePaid, Typed, BooksTyped
  <2>3. BooksTyped' BY <1>2, <1>5, <2>2 DEF AddFeePaid, Typed, BooksTyped
  <2>4. RequestsTyped' /\ RequestsKeep BY <1>0, <1>2, <1>3, <1>4, <1>5, HookGoesOn DEF AddFeePaid
  <2> QED BY <1>3, <2>3, <2>4 DEF StepSound, Typed
<1>6. CASE HookReadsPerformance(d)
  <2> DEFINE m == [hook[d] EXCEPT !.pc = "mark", !.hwm = perf.hwm, !.fees = perf.fees]
  <2>1. hook' = [hook EXCEPT ![d] = m]
    BY <1>1, <1>6 DEF HookReadsPerformance, Typed, RequestsTyped, HookRows
  <2>2. perf.hwm \in Nat /\ perf.fees \in Nat BY DEF Typed, BooksTyped
  <2>3. /\ m \in HookRows /\ m.pc = "mark" /\ m.session = hook[d].session
        /\ m.inv = hook[d].inv /\ m.period = hook[d].period
    BY <1>1, <2>2 DEF HookRows, HookPc, Settling, Entered
  <2> HIDE DEF m
  <2>4. PICK k \in HookRows : k = m BY <2>3
  <2>5. HookHolds(k)
    <3>1. hook[d].pc = "performance" BY <1>6 DEF HookReadsPerformance, HookAt
    <3> QED BY <1>1, <2>3, <2>4, <3>1 DEF HookHolds, Settling, Entering, Entered
  <2>6. HookHolds(k)' BY <1>2, <2>5 DEF HookHolds, Sessions, Invoices
  <2>7. RequestsTyped' /\ RequestsKeep BY <1>2, <2>1, <2>4, <2>6, HookMoves
  <2>8. BooksTyped' BY <1>6, BooksStay DEF HookReadsPerformance, store, budgets
  <2> QED BY <1>3, <2>7, <2>8 DEF StepSound, Typed
<1>7. CASE UpdateHighWaterMark(d)
  <2>1. PICK p \in Periods : p = hook[d].period BY <1>1 DEF HookRows
  <2>2. PICK i \in Invoices : i = hook[d].inv
    BY <1>0, <1>1 DEF HookHolds, Settling, Entering, Entered
  <2>3. assess[p] \in AssessRows /\ invoices[i] \in InvoiceRows
    BY DEF Typed, RowsTyped, Invoices
  <2>4. assess[p].ending \in Int /\ invoices[i].amount \in Nat
    BY <2>3 DEF AssessRows, InvoiceRows
  <2>5. hook[d].hwm \in Nat /\ hook[d].fees \in Nat BY <1>1 DEF HookRows
  <2>6. ASSUME NEW x \in Nat, NEW y \in Int PROVE Max({x, y}) \in Nat
    <3>1. \E z \in {x, y} : \A w \in {x, y} : z >= w
      <4>1. CASE x >= y BY <4>1
      <4>2. CASE ~(x >= y) BY <4>2
      <4> QED BY <4>1, <4>2
    <3>2. PICK z : z = Max({x, y}) OBVIOUS
    <3>3. z \in {x, y} /\ \A w \in {x, y} : z >= w BY <3>1, <3>2 DEF Max
    <3>4. z >= x /\ z \in Int BY <3>3
    <3>5. z \in Nat BY <3>4
    <3> QED BY <3>2, <3>5
  <2>7. perf' \in [total: Int, hwm: Nat, fees: Nat]
    <3>1. PICK h \in Nat : h = Max({hook[d].hwm, assess[p].ending}) BY <2>4, <2>5, <2>6
    <3>2. PICK f \in Nat : f = hook[d].fees + invoices[i].amount BY <2>4, <2>5
    <3>3. perf' = [perf EXCEPT !.hwm = h, !.fees = f]
      BY <1>7, <2>1, <2>2, <3>1, <3>2 DEF UpdateHighWaterMark
    <3> QED BY <3>3 DEF Typed, BooksTyped
  <2>8. BooksTyped' BY <1>2, <1>7, <2>7 DEF UpdateHighWaterMark, Typed, BooksTyped
  <2>9. RequestsTyped' /\ RequestsKeep
    BY <1>0, <1>2, <1>3, <1>4, <1>7, HookGoesOn DEF UpdateHighWaterMark
  <2> QED BY <1>3, <2>8, <2>9 DEF StepSound, Typed
<1> QED BY <1>5, <1>6, <1>7

\* A webhook ends, by its last statement or by an error.
LEMMA HookEndSound ==
  ASSUME Typed, RefInv, NEW d \in Deliverers, FinishWebhook(d) \/ WebhookFails(d)
  PROVE  StepSound
<1>0. hook[d].pc # "idle" BY DEF FinishWebhook, WebhookFails, HookAt
<1>1. PICK s \in Sessions : s = hook[d].session BY <1>0, BusyHook
<1>2. s \in 1 .. MaxSessions BY BillingBoundsAreNaturals DEF Typed, RowsTyped, Sessions
<1>3. /\ sessions' = [sessions EXCEPT ![s].acked = TRUE]
      /\ hook' = [hook EXCEPT ![d] = HookIdle]
      /\ UNCHANGED <<store, admin, cust, repeats, again>>
      /\ faults' \in Nat
  BY <1>1 DEF FinishWebhook, WebhookFails, budgets, CallFails, Typed, BooksTyped
<1>4. events' \in [1 .. MaxSessions -> EventStates]
  BY <1>1, <1>2 DEF FinishWebhook, WebhookFails, Typed, BooksTyped, EventStates
<1>5. RowsTyped' /\ Grow /\ RowsKeep BY <1>3, Acked DEF store
<1>6. RequestsTyped' /\ RequestsKeep BY <1>3, HookEnds
<1>8. interrupted' \in BOOLEAN
  <2>1. interrupted' = interrupted \/ interrupted' = TRUE
    BY Zenon DEF FinishWebhook, WebhookFails, budgets
  <2> QED BY <2>1, Zenon DEF Typed, BooksTyped
<1>7. BooksTyped' BY <1>3, <1>4, <1>8 DEF Typed, BooksTyped, store
<1> QED BY <1>5, <1>6, <1>7 DEF StepSound, Typed

\* A request dies.
LEMMA CrashSound ==
  ASSUME Typed, RefInv, Crash
  PROVE  StepSound
<1>0. interrupted' \in BOOLEAN
  <2>1. interrupted' = interrupted \/ interrupted' = TRUE BY Zenon DEF Crash
  <2> QED BY <2>1, Zenon DEF Typed, BooksTyped
<1>1. UNCHANGED <<store, sessions, events, repeats, again>> /\ faults' \in Nat
  BY DEF Crash, Typed, BooksTyped
<1>2. RowsTyped' /\ Grow /\ RowsKeep BY <1>1, RowsStay DEF store
<1>3. BooksTyped' BY <1>0, <1>1 DEF Typed, BooksTyped, store
<1>4. RequestsTyped' /\ RequestsKeep
  <2>1. ASSUME NEW a \in Admins, AdminEnds(a), UNCHANGED <<cust, hook>>
        PROVE  RequestsTyped' /\ RequestsKeep
    BY <2>1, AdminGoesOn DEF AdminPc
  <2>2. ASSUME NEW c \in Customers, ~CustAt(c, "idle"), CustEnds(c), UNCHANGED <<admin, hook>>
        PROVE  RequestsTyped' /\ RequestsKeep
    <3>1. "claim" \in CustPc \ {"save"} BY DEF CustPc
    <3> QED BY <1>2, <2>2, <3>1, CustGoesOn DEF CustAt, Grow
  <2>3. ASSUME NEW d \in Deliverers, hook' = [hook EXCEPT ![d] = HookIdle],
               UNCHANGED <<admin, cust>>
        PROVE  RequestsTyped' /\ RequestsKeep
    BY <2>3, HookEnds
  <2> QED BY <2>1, <2>2, <2>3 DEF Crash
<1> QED BY <1>2, <1>3, <1>4 DEF StepSound, Typed

-----------------------------------------------------------------------------
(* The invariant, and what follows from it.                                 *)

\* Every step is sound.
LEMMA NextSound ==
  ASSUME Typed, RefInv, Next
  PROVE  StepSound
<1>1. ASSUME NEW a \in Admins, AdminStep(a) PROVE StepSound
  BY <1>1, AdminLocalSound, AdminRestSound DEF AdminStep
<1>2. ASSUME NEW c \in Customers, CustomerStep(c) PROVE StepSound
  BY <1>2, CustLocalSound, CreateSessionSound, SaveReferenceSound DEF CustomerStep
<1>3. ASSUME NEW d \in Deliverers, HookStep(d) PROVE StepSound
  BY <1>3, FindTransactionSound, HookInvoiceSound, ReadAssessmentSound, MarkPaidSound,
     HookBooksSound, HookEndSound DEF HookStep
<1>4. ASSUME NEW a \in Admins, CaughtFailure(a) PROVE StepSound BY <1>4, AdminLocalSound
<1>5. ASSUME NEW c \in Customers, NEW i \in Invoices, LoadPayable(c, i) PROVE StepSound
  BY <1>5, LoadPayableSound
<1>6. ASSUME NEW s \in Sessions, SessionEnds(s) PROVE StepSound BY <1>6, SessionEndsSound
<1>7. ASSUME NEW s \in Sessions, NEW d \in Deliverers, Deliver(d, s) PROVE StepSound
  BY <1>7, DeliverSound
<1>8. ASSUME NEW d \in Deliverers, WebhookFails(d) PROVE StepSound BY <1>8, HookEndSound
<1> QED
  BY <1>1, <1>2, <1>3, <1>4, <1>5, <1>6, <1>7, <1>8, BillingRequestSound, CrashSound DEF Next

\* The account starts without rows.
LEMMA InitSound ==
  ASSUME Init
  PROVE  Typed /\ RefInv
<1>1. invoices = <<>> /\ sessions = <<>> /\ Len(invoices) = 0 /\ Len(sessions) = 0 BY DEF Init
<1>2. Invoices = {} /\ Sessions = {} BY <1>1 DEF Invoices, Sessions
<1>3. NoAssessment \in AssessRows /\ NoAssessment.invoice = 0 /\ NoAssessment.status = "NONE"
  BY BillingBoundsAreNaturals DEF NoAssessment, AssessRows, AssessmentStatus
<1>4. RowsTyped
  BY <1>1, <1>3, BillingBoundsAreNaturals DEF RowsTyped, Init
<1>9. interrupted \in BOOLEAN BY Zenon DEF Init
<1>5. BooksTyped BY <1>9 DEF BooksTyped, Init, CycleStatus, EventStates
<1>6. /\ AdminIdle \in AdminRows /\ AdminIdle.pc = "idle"
      /\ CustIdle \in CustRows /\ CustIdle.pc = "idle"
      /\ HookIdle \in HookRows /\ HookIdle.pc = "idle"
  BY AccountIsWellFormed, BillingBoundsAreNaturals
  DEF AdminIdle, AdminRows, AdminPc, CustIdle, CustRows, CustPc, HookIdle, HookRows, HookPc,
      Periods
<1>7. RequestsTyped BY <1>6 DEF RequestsTyped, Init
<1>8. RefInv
  <2>1. \A p \in Periods : AssessSound(p) BY <1>3 DEF Init, AssessSound
  <2>2. \A a \in Admins : AdminSound(a) BY <1>6 DEF Init, AdminSound
  <2>3. \A c \in Customers : CustSound(c) BY <1>6 DEF Init, CustSound
  <2>4. \A d \in Deliverers : HookSound(d)
    BY <1>6 DEF Init, HookSound, HookHolds, Settling, Entering, Entered
  <2> QED BY <1>2, <2>1, <2>2, <2>3, <2>4 DEF RefInv
<1> QED BY <1>4, <1>5, <1>7, <1>8 DEF Typed

\* Stuttering.
LEMMA StutterSound ==
  ASSUME Typed, RefInv, UNCHANGED vars
  PROVE  StepSound
<1>1. UNCHANGED <<perf, ledger, feePaid, assess, cycle, invoices, sessions, events, admin,
                  cust, hook, repeats, faults, again, interrupted>>
  BY DEF vars, store, budgets
<1>2. RowsTyped' /\ Grow /\ RowsKeep BY <1>1, RowsStay
<1>3. RequestsTyped' /\ RequestsKeep BY <1>1, RequestsStay
<1>4. BooksTyped' BY <1>1, BooksStay
<1> QED BY <1>2, <1>3, <1>4 DEF StepSound, Typed

\* Every reference between rows and requests means the row it should, always.
THEOREM SoundAlways == Spec => [](Typed /\ RefInv)
<1>1. Init => Typed /\ RefInv BY InitSound
<1>2. Typed /\ RefInv /\ [Next]_vars => (Typed /\ RefInv)'
  <2> SUFFICES ASSUME Typed, RefInv, [Next]_vars PROVE Typed' /\ RefInv' OBVIOUS
  <2>1. StepSound BY NextSound, StutterSound
  <2>2. Typed' BY <2>1 DEF StepSound
  <2>3. RefInv' BY <2>1, RefsKept DEF StepSound
  <2> QED BY <2>2, <2>3
<1> QED BY <1>1, <1>2, PTL DEF Spec

\* Every variable keeps its type, and no fee is ever negative.
THEOREM TypeCorrect == Spec => []TypeOK
<1>1. Typed => TypeOK
  <2> SUFFICES ASSUME Typed PROVE TypeOK OBVIOUS
  <2>1. \A i \in Invoices : invoices[i] \in InvoiceRows BY DEF Typed, RowsTyped, Invoices
  <2> QED BY <2>1 DEF TypeOK, Typed, RowsTyped, BooksTyped, AssessRows, InvoiceRows, EventStates
<1> QED BY <1>1, SoundAlways, PTL

\* A fee counts as paid only when the provider collected it, for its exact
\* amount: the webhook that writes PAID holds a paid session of an invoice of
\* the assessment, and amounts are copied from the assessment to both.
THEOREM PaidIsCollected == Spec => []PaidWasCollected
<1>1. Typed /\ RefInv => PaidWasCollected
  <2> SUFFICES ASSUME Typed, RefInv, NEW p \in Periods, assess[p].status = "PAID"
               PROVE  \E s \in Collected(p) : sessions[s].amount = assess[p].fee
    BY DEF PaidWasCollected
  <2>1. PICK s \in Sessions : s \in Collected(p) BY DEF RefInv, AssessSound
  <2>2. SessionSound(s) /\ sessions[s].invoice \in Invoices BY DEF RefInv, SessionSound
  <2>3. InvoiceSound(sessions[s].invoice) /\ invoices[sessions[s].invoice].period = p
    BY <2>1, <2>2 DEF RefInv, Collected
  <2> QED BY <2>1, <2>2, <2>3 DEF SessionSound, InvoiceSound
<1> QED BY <1>1, SoundAlways, PTL

-----------------------------------------------------------------------------
(* How many assessments can be unpaid.                                       *)

\* The steps of an admin request that has passed the check of the outstanding
\* assessments or has found an assessment to invoice.
Holding == {"read", "save", "issue", "link"}
\* The periods that are unpaid, or may become unpaid by what a request holds.
Held == Outstanding \union {admin[a].period : a \in {b \in Admins : admin[b].pc \in Holding}}
StackInv == Cardinality(Held) <= Cardinality(Admins)

\* Whatever a step writes or a request goes on with was held before.
HeldBefore ==
    /\ \A p \in Periods :
          \/ assess'[p] = assess[p] \/ assess'[p].status \notin {"ASSESSED", "INVOICED"}
          \/ p \in Held
    /\ \A a \in Admins :
          \/ admin'[a] = admin[a] \/ admin'[a].pc \notin Holding \/ admin'[a].period \in Held

\* Periods are held, so that they can be counted.
LEMMA HeldFinite == Typed => IsFiniteSet(Held)
<1> SUFFICES ASSUME Typed PROVE IsFiniteSet(Held) OBVIOUS
<1>1. IsFiniteSet(Periods) BY AccountIsWellFormed, FS_Interval DEF Periods
<1>2. Held \subseteq Periods
  <2>1. \A a \in Admins : admin[a].period \in Periods BY DEF Typed, RequestsTyped, AdminRows
  <2> QED BY <2>1 DEF Held, Outstanding
<1> QED BY <1>1, <1>2, FS_Subset

\* Such a step keeps the bound.
LEMMA StackKept ==
  ASSUME Typed, StackInv, HeldBefore
  PROVE  StackInv'
<1>1. Held' \subseteq Held
  <2>1. ASSUME NEW p \in Outstanding' PROVE p \in Held
    <3>1. p \in Periods /\ assess'[p].status \in {"ASSESSED", "INVOICED"} BY DEF Outstanding
    <3> QED BY <3>1 DEF HeldBefore, Held, Outstanding
  <2>2. ASSUME NEW a \in Admins, admin'[a].pc \in Holding PROVE admin'[a].period \in Held
    <3>1. CASE admin'[a] = admin[a] BY <2>2, <3>1 DEF Held
    <3> QED BY <2>2, <3>1 DEF HeldBefore
  <2>3. Held' = Outstanding' \union
                  {admin'[a].period : a \in {b \in Admins : admin'[b].pc \in Holding}}
    BY DEF Held
  <2> QED BY <2>1, <2>2, <2>3
<1>2. PICK S : S = Held' OBVIOUS
<1>3. IsFiniteSet(Held) BY HeldFinite
<1>4. /\ Cardinality(S) <= Cardinality(Held)
      /\ Cardinality(S) \in Nat /\ Cardinality(Held) \in Nat /\ Cardinality(Admins) \in Nat
  <2>1. S \subseteq Held BY <1>1, <1>2
  <2> QED BY <1>3, <2>1, FS_Subset, FS_CardinalityType, AccountIsWellFormed
<1>5. Cardinality(Held)' = Cardinality(S) BY <1>2
<1> QED BY <1>4, <1>5 DEF StackInv

\* A request in a new state: its step and what it holds.
LEMMA AdminWent ==
  ASSUME Typed, NEW a \in Admins, NEW step, AdminGoes(a, step)
  PROVE  /\ admin'[a].pc = step /\ admin'[a].period = admin[a].period
         /\ \A b \in Admins : b # a => admin'[b] = admin[b]
<1>1. admin[a] \in AdminRows BY DEF Typed, RequestsTyped
<1>2. admin'[a] = [admin[a] EXCEPT !.pc = step] /\ \A b \in Admins : b # a => admin'[b] = admin[b]
  BY DEF AdminGoes, Typed, RequestsTyped
<1>3. [admin[a] EXCEPT !.pc = step].pc = step
      /\ [admin[a] EXCEPT !.pc = step].period = admin[a].period
  BY <1>1 DEF AdminRows
<1> QED BY <1>2, <1>3

\* A request is over.
LEMMA AdminEnded ==
  ASSUME Typed, NEW a \in Admins, AdminEnds(a)
  PROVE  /\ admin'[a].pc = "idle"
         /\ \A b \in Admins : b # a => admin'[b] = admin[b]
BY DEF Typed, RequestsTyped, AdminEnds, AdminIdle

\* A request that holds a period ends, or goes on with it or without it.
LEMMA HolderMoves ==
  ASSUME Typed, UNCHANGED assess, NEW a \in Admins, NEW step, AdminEnds(a) \/ AdminGoes(a, step),
         step \in Holding => admin[a].period \in Held
  PROVE  HeldBefore
<1>1. CASE AdminEnds(a) BY <1>1, AdminEnded DEF HeldBefore, Holding
<1>2. CASE AdminGoes(a, step) BY <1>2, AdminWent DEF HeldBefore
<1> QED BY <1>1, <1>2

\* The check passes while nothing is outstanding: only periods that requests
\* hold are held then, one for each.
LEMMA CheckPasses ==
  ASSUME Typed, UNCHANGED assess, Outstanding = {}
  PROVE  StackInv'
<1>1. Outstanding' = {} BY DEF Outstanding
<1> DEFINE f == [a \in Admins |-> admin'[a].period]
           T == {b \in Admins : admin'[b].pc \in Holding}
           Im == {f[a] : a \in Admins}
<1>2. Held' = {admin'[a].period : a \in T} BY <1>1 DEF Held
<1>3. Held' \subseteq Im BY <1>2
<1>4. IsFiniteSet(Im) /\ Cardinality(Im) <= Cardinality(Admins)
  <2>1. f \in [Admins -> Im] OBVIOUS
  <2>2. f \in Surjection(Admins, Im)
    <3> HIDE DEF f
    <3>1. \A t \in Im : \E a \in Admins : f[a] = t OBVIOUS
    <3> HIDE DEF Im
    <3> QED BY <2>1, <3>1 DEF Surjection
  <2> HIDE DEF Im, f
  <2> QED BY <2>2, FS_Surjection, AccountIsWellFormed
<1> HIDE DEF Im, f
<1>5. PICK S : S = Held' OBVIOUS
<1>6. Cardinality(S) <= Cardinality(Im) /\ Cardinality(S) \in Nat
  BY <1>3, <1>4, <1>5, FS_Subset, FS_CardinalityType
<1>7. Cardinality(Im) \in Nat /\ Cardinality(Admins) \in Nat
  BY <1>4, FS_CardinalityType, AccountIsWellFormed
<1>8. Cardinality(Held)' = Cardinality(S) BY <1>5
<1> QED BY <1>4, <1>6, <1>7, <1>8 DEF StackInv

\* The steps of an admin request that write no assessment.
LEMMA AdminReadsStack ==
  ASSUME Typed, StackInv, NEW a \in Admins,
         \/ CancelBillingCycle(a) \/ BeginReconciling(a) \/ Reconcile(a) \/ CheckAssessments(a)
         \/ ReadPerformance(a) \/ UpdateTotal(a) \/ CycleAssessed(a) \/ LoadForInvoice(a)
         \/ IssueInvoice(a) \/ CloseCycle(a) \/ CaughtFailure(a)
  PROVE  StackInv'
<1>0. admin[a] \in AdminRows /\ admin[a].period \in Periods BY DEF Typed, RequestsTyped, AdminRows
<1>1. ASSUME UNCHANGED assess, NEW step, step \notin Holding, AdminEnds(a) \/ AdminGoes(a, step)
      PROVE  StackInv'
  BY <1>1, HolderMoves, StackKept
<1>2. {"idle", "reconcile", "check", "assessed", "load"} \cap Holding = {} BY DEF Holding
<1>3. CASE FailCycle(a) BY <1>1, <1>2, <1>3 DEF FailCycle
<1>4. CASE CancelBillingCycle(a) \/ CloseCycle(a)
  BY <1>1, <1>2, <1>4 DEF CancelBillingCycle, CloseCycle
<1>5. CASE BeginReconciling(a) BY <1>1, <1>2, <1>5 DEF BeginReconciling
<1>6. CASE Reconcile(a) BY <1>1, <1>2, <1>6 DEF Reconcile
<1>7. CASE CheckAssessments(a)
  <2>1. CASE CalculationReturns(a) /\ UNCHANGED store
    BY <1>1, <1>2, <2>1 DEF CalculationReturns, store
  <2>2. CASE Outstanding = {} /\ UNCHANGED store BY <2>2, CheckPasses DEF store
  <2> QED BY <1>3, <1>7, <2>1, <2>2 DEF CheckAssessments
<1>8. CASE ReadPerformance(a)
  <2>1. /\ admin'[a].pc = "save" /\ admin'[a].period = admin[a].period
        /\ \A b \in Admins : b # a => admin'[b] = admin[b]
    BY <1>0, <1>8 DEF ReadPerformance, Typed, RequestsTyped, AdminRows
  <2>2. admin[a].period \in Held /\ UNCHANGED assess
    BY <1>8 DEF ReadPerformance, AdminAt, Held, Holding, store
  <2>3. HeldBefore BY <2>1, <2>2 DEF HeldBefore
  <2> QED BY <2>3, StackKept
<1>9. CASE UpdateTotal(a) BY <1>1, <1>2, <1>9 DEF UpdateTotal, CalculationReturns
<1>10. CASE CycleAssessed(a) BY <1>1, <1>2, <1>10 DEF CycleAssessed
<1>11. CASE LoadForInvoice(a)
  <2>1. CASE /\ assess[admin[a].period].status = "ASSESSED" /\ AdminGoes(a, "issue")
             /\ UNCHANGED store
    <3>1. admin[a].period \in Held BY <1>0, <2>1 DEF Held, Outstanding
    <3> QED BY <2>1, <3>1, HolderMoves, StackKept DEF store
  <2> QED BY <1>3, <1>11, <2>1 DEF LoadForInvoice
<1>12. CASE IssueInvoice(a)
  <2>1. /\ admin'[a].pc = "link" /\ admin'[a].period = admin[a].period
        /\ \A b \in Admins : b # a => admin'[b] = admin[b]
    BY <1>0, <1>12 DEF IssueInvoice, Typed, RequestsTyped, AdminRows
  <2>2. admin[a].period \in Held /\ UNCHANGED assess
    BY <1>12 DEF IssueInvoice, AdminAt, Held, Holding
  <2>3. HeldBefore BY <2>1, <2>2 DEF HeldBefore
  <2> QED BY <2>3, StackKept
<1>13. CASE CaughtFailure(a) BY <1>3, <1>13 DEF CaughtFailure
<1> QED BY <1>4, <1>5, <1>6, <1>7, <1>8, <1>9, <1>10, <1>11, <1>12, <1>13

\* An assessment is saved or linked: its period was held by the request.
LEMMA AdminWritesStack ==
  ASSUME Typed, StackInv, NEW a \in Admins, SaveAssessment(a) \/ LinkInvoice(a)
  PROVE  StackInv'
<1>1. CASE FailCycle(a)
  <2>1. HeldBefore BY <1>1, HolderMoves DEF FailCycle, Holding
  <2> QED BY <2>1, StackKept
<1>2. CASE ~FailCycle(a)
  <2>1. PICK p \in Periods : p = admin[a].period BY DEF Typed, RequestsTyped, AdminRows
  <2>2. p \in Held BY <2>1 DEF SaveAssessment, LinkInvoice, AdminAt, Held, Holding
  <2>3. \A q \in Periods : q # p => assess'[q] = assess[q]
    BY <1>2, <2>1 DEF SaveAssessment, LinkInvoice, Typed, RowsTyped
  <2>4. AdminGoes(a, "total") \/ AdminGoes(a, "close")
    BY <1>2 DEF SaveAssessment, LinkInvoice
  <2>5. /\ admin'[a].pc \notin Holding
        /\ \A b \in Admins : b # a => admin'[b] = admin[b]
    BY <2>4, AdminWent DEF Holding
  <2>6. HeldBefore BY <2>2, <2>3, <2>5 DEF HeldBefore
  <2> QED BY <2>6, StackKept
<1> QED BY <1>1, <1>2

\* A webhook pays an assessment.
LEMMA MarkPaidStack ==
  ASSUME Typed, RefInv, StackInv, NEW d \in Deliverers, MarkPaid(d)
  PROVE  StackInv'
<1>1. PICK p \in Periods : p = hook[d].period BY DEF Typed, RequestsTyped, HookRows
<1>2. assess[p] \in AssessRows BY DEF Typed, RowsTyped
<1>3. assess'[p].status = "PAID" /\ \A q \in Periods : q # p => assess'[q] = assess[q]
  BY <1>1, <1>2 DEF Typed, RowsTyped, MarkPaid, AssessRows
<1>4. HeldBefore BY <1>3 DEF HeldBefore, MarkPaid
<1> QED BY <1>4, StackKept

\* Every step keeps the bound.
LEMMA NextStack ==
  ASSUME Typed, RefInv, StackInv, [Next]_vars
  PROVE  StackInv'
<1>0. ASSUME UNCHANGED <<assess, admin>> PROVE StackInv'
  BY <1>0, StackKept DEF HeldBefore
<1>1. CASE UNCHANGED vars BY <1>0, <1>1 DEF vars, store
<1>2. ASSUME NEW a \in Admins, AdminStep(a) \/ CaughtFailure(a) PROVE StackInv'
  BY <1>2, AdminReadsStack, AdminWritesStack DEF AdminStep
<1>3. ASSUME NEW c \in Customers, CustomerStep(c) PROVE StackInv'
  <2>1. UNCHANGED <<assess, admin>>
    BY <1>3 DEF CustomerStep, Claim, CreateSession, CheckoutFails, SafetyNetReads,
                SafetyNetReleases, SaveReference, store
  <2> QED BY <1>0, <2>1
<1>4. ASSUME NEW c \in Customers, NEW i \in Invoices, LoadPayable(c, i) PROVE StackInv'
  BY <1>0, <1>4 DEF LoadPayable, store
<1>5. ASSUME NEW s \in Sessions, SessionEnds(s) PROVE StackInv'
  BY <1>0, <1>5 DEF SessionEnds, store
<1>6. ASSUME NEW s \in Sessions, NEW d \in Deliverers, Deliver(d, s) PROVE StackInv'
  BY <1>0, <1>6 DEF Deliver, store
<1>7. ASSUME NEW d \in Deliverers, HookStep(d) \/ WebhookFails(d) PROVE StackInv'
  <2>1. CASE ~MarkPaid(d)
    <3>1. UNCHANGED <<assess, admin>>
      BY <1>7, <2>1 DEF HookStep, FindTransaction, MarkFailed, MarkSucceeded, PayInvoice,
         ReadAssessment, AddFeePaid, HookReadsPerformance, UpdateHighWaterMark, FinishWebhook,
         WebhookFails, store
    <3> QED BY <1>0, <3>1
  <2> QED BY <2>1, MarkPaidStack
<1>8. CASE Crash
  <2>1. UNCHANGED assess BY <1>8 DEF Crash, store
  <2>2. CASE UNCHANGED admin BY <1>0, <2>1, <2>2
  <2>3. ASSUME NEW a \in Admins, AdminEnds(a) PROVE StackInv'
    BY <2>1, <2>3, HolderMoves, StackKept DEF Holding
  <2> QED BY <1>8, <2>2, <2>3 DEF Crash
<1>9. CASE BillingRequest
  <2>1. ASSUME NEW p \in Periods, CreateBillingCycle(p) PROVE StackInv'
    BY <1>0, <2>1 DEF CreateBillingCycle
  <2>2. ASSUME NEW a \in Admins, NEW p \in Periods, OpenCycle(a, p) \/ CallFeeService(a, p)
        PROVE  StackInv'
    <3>1. UNCHANGED assess BY <2>2 DEF OpenCycle, CallFeeService, store
    <3>2. /\ admin'[a].pc \in {"begin", "cancel", "check", "load"}
          /\ \A b \in Admins : b # a => admin'[b] = admin[b]
      BY <2>2 DEF OpenCycle, CallFeeService, Typed, RequestsTyped, AdminIdle
    <3>3. HeldBefore BY <3>1, <3>2 DEF HeldBefore, Holding
    <3> QED BY <3>3, StackKept
  <2> QED BY <1>9, <2>1, <2>2 DEF BillingRequest
<1> QED BY <1>1, <1>2, <1>3, <1>4, <1>5, <1>6, <1>7, <1>8, <1>9 DEF Next

\* "Prevent stacking unpaid assessments": the account never has more unpaid
\* assessments than admin requests run at once - one, when they do not overlap -
\* whatever calls fail and requests die, and however checkouts and webhooks run
\* between.
THEOREM NothingStacks == Spec => []OneOutstanding
<1>1. Init => StackInv
  <2> SUFFICES ASSUME Init PROVE StackInv OBVIOUS
  <2>1. \A p \in Periods : assess[p].status = "NONE" BY DEF Init, NoAssessment
  <2>2. \A a \in Admins : admin[a].pc = "idle" BY DEF Init, AdminIdle
  <2>3. Held = {} BY <2>1, <2>2 DEF Held, Outstanding, Holding
  <2>4. Cardinality({}) = 0 /\ Cardinality(Admins) \in Nat
    BY FS_EmptySet, FS_CardinalityType, AccountIsWellFormed
  <2> QED BY <2>3, <2>4 DEF StackInv
<1>2. Typed /\ RefInv /\ StackInv /\ [Next]_vars => StackInv' BY NextStack
<1>3. Typed /\ StackInv => OneOutstanding
  <2> SUFFICES ASSUME Typed, StackInv PROVE OneOutstanding OBVIOUS
  <2>1. Outstanding \subseteq Held /\ IsFiniteSet(Held) BY HeldFinite DEF Held
  <2>2. /\ Cardinality(Outstanding) <= Cardinality(Held) /\ Cardinality(Outstanding) \in Nat
        /\ Cardinality(Held) \in Nat /\ Cardinality(Admins) \in Nat
    BY <2>1, FS_Subset, FS_CardinalityType, AccountIsWellFormed
  <2>3. Cardinality(Outstanding) <= Cardinality(Admins) BY <2>2 DEF StackInv
  <2> QED BY <2>3 DEF OneOutstanding, Outstanding
<1> QED BY <1>1, <1>2, <1>3, SoundAlways, PTL DEF Spec

-----------------------------------------------------------------------------
(* What enters a fee, and for what.                                          *)

\* A step that enters nothing and adds nothing to the total.
Quiet ==
    /\ UNCHANGED feePaid /\ perf'.fees = perf.fees
    /\ \A d \in Deliverers :
          \/ hook'[d] = hook[d]
          \/ hook'[d].pc \notin Entered
          \/ /\ hook[d].pc = "performance" /\ hook'[d].pc = "mark"
             /\ hook'[d].inv = hook[d].inv /\ hook'[d].fees = perf.fees

\* A webhook goes on to step: what it holds, and nobody else moves.
LEMMA HookWent ==
  ASSUME Typed, NEW d \in Deliverers, NEW step, HookGoes(d, step)
  PROVE  /\ hook'[d].pc = step /\ hook'[d].session = hook[d].session
         /\ hook'[d].inv = hook[d].inv /\ hook'[d].period = hook[d].period
         /\ hook'[d].fees = hook[d].fees
         /\ \A e \in Deliverers : e # d => hook'[e] = hook[e]
<1>1. hook[d] \in HookRows BY DEF Typed, RequestsTyped
<1> DEFINE m == [hook[d] EXCEPT !.pc = step]
<1>2. hook'[d] = m /\ \A e \in Deliverers : e # d => hook'[e] = hook[e]
  BY DEF HookGoes, Typed, RequestsTyped
<1>3. /\ m.pc = step /\ m.session = hook[d].session /\ m.inv = hook[d].inv
      /\ m.period = hook[d].period /\ m.fees = hook[d].fees
  BY <1>1 DEF HookRows
<1> HIDE DEF m
<1> QED BY <1>2, <1>3

\* Admin requests write neither entries nor the total of fees.
LEMMA AdminQuiet ==
  ASSUME Typed, RefInv, NEW a \in Admins, AdminStep(a) \/ CaughtFailure(a)
  PROVE  Quiet
<1>1. UNCHANGED <<feePaid, hook>>
  BY DEF AdminStep, CaughtFailure, FailCycle, CancelBillingCycle, BeginReconciling, Reconcile,
         CheckAssessments, ReadPerformance, SaveAssessment, UpdateTotal, CycleAssessed,
         LoadForInvoice, IssueInvoice, LinkInvoice, CloseCycle, store
<1>2. perf'.fees = perf.fees
  <2>1. CASE UpdateTotal(a) BY <2>1 DEF UpdateTotal, Typed, BooksTyped
  <2>2. CASE ~UpdateTotal(a)
    <3>1. UNCHANGED perf
      BY <2>2 DEF AdminStep, CaughtFailure, FailCycle, CancelBillingCycle, BeginReconciling,
         Reconcile, CheckAssessments, ReadPerformance, SaveAssessment, CycleAssessed,
         LoadForInvoice, IssueInvoice, LinkInvoice, CloseCycle, store
    <3> QED BY <3>1
  <2> QED BY <2>1, <2>2
<1> QED BY <1>1, <1>2 DEF Quiet

\* Nor do steps that leave the books and the webhooks alone.
LEMMA StillQuiet ==
  ASSUME UNCHANGED <<feePaid, perf, hook>>
  PROVE  Quiet
BY DEF Quiet

\* A webhook request that is over.
LEMMA HookEnded ==
  ASSUME Typed, NEW d \in Deliverers, hook' = [hook EXCEPT ![d] = HookIdle]
  PROVE  /\ hook'[d].pc = "idle" /\ \A e \in Deliverers : e # d => hook'[e] = hook[e]
BY DEF Typed, RequestsTyped, HookIdle

\* A webhook that moves to a step without an amount to add.
LEMMA HookMovesQuiet ==
  ASSUME UNCHANGED <<feePaid, perf>>, NEW d \in Deliverers, hook'[d].pc \notin Entered,
         \A e \in Deliverers : e # d => hook'[e] = hook[e]
  PROVE  Quiet
BY DEF Quiet

\* The lookups of a webhook.
LEMMA LookupWent ==
  ASSUME Typed, NEW d \in Deliverers, FindTransaction(d) \/ ReadAssessment(d)
  PROVE  /\ UNCHANGED <<feePaid, perf, assess, invoices, sessions, events>>
         /\ hook'[d].pc \in {"finish", "fail", "succeed", "paid"}
         /\ hook'[d].session = hook[d].session
         /\ \A e \in Deliverers : e # d => hook'[e] = hook[e]
<1>1. UNCHANGED <<feePaid, perf, assess, invoices, sessions, events>>
  BY DEF FindTransaction, ReadAssessment, store
<1>2. hook[d] \in HookRows /\ hook \in [Deliverers -> HookRows] BY DEF Typed, RequestsTyped
<1>3. /\ hook'[d].pc \in {"finish", "fail", "succeed", "paid"}
      /\ hook'[d].session = hook[d].session
      /\ \A e \in Deliverers : e # d => hook'[e] = hook[e]
  <2>1. CASE FindTransaction(d)
    <3> DEFINE s == hook[d].session
               Found == {i \in Invoices : invoices[i].ref = s}
               pc == IF Found = {} THEN "finish"
                     ELSE IF sessions[s].status = "FAILED" THEN "fail"
                     ELSE IF \E i \in Found : amountMatches(s, i) THEN "succeed"
                     ELSE "finish"
               inv == IF Found = {} THEN 0 ELSE CHOOSE i \in Found : TRUE
               m == [hook[d] EXCEPT !.pc = pc, !.inv = inv]
    <3>1. hook' = [hook EXCEPT ![d].pc = pc, ![d].inv = inv] BY <2>1 DEF FindTransaction
    <3>2. pc \in {"finish", "fail", "succeed"} OBVIOUS
    <3> HIDE DEF pc, inv
    <3>3. hook' = [hook EXCEPT ![d] = m] BY <1>2, <3>1, HookFields
    <3>4. m.pc = pc /\ m.session = hook[d].session BY <1>2 DEF HookRows
    <3> HIDE DEF m
    <3> QED BY <1>2, <3>2, <3>3, <3>4
  <2>2. CASE ReadAssessment(d)
    <3> DEFINE Unpaid == {p \in Periods : assess[p].invoice = hook[d].inv /\ assess[p].status # "PAID"}
               pc == IF Unpaid = {} THEN "finish" ELSE "paid"
               per == IF Unpaid = {} THEN 1 ELSE CHOOSE p \in Unpaid : TRUE
               m == [hook[d] EXCEPT !.pc = pc, !.period = per]
    <3>1. hook' = [hook EXCEPT ![d].pc = pc, ![d].period = per] BY <2>2 DEF ReadAssessment
    <3>2. pc \in {"finish", "paid"} OBVIOUS
    <3> HIDE DEF pc, per
    <3>3. hook' = [hook EXCEPT ![d] = m] BY <1>2, <3>1 DEF HookRows
    <3>4. m.pc = pc /\ m.session = hook[d].session BY <1>2 DEF HookRows
    <3> HIDE DEF m
    <3> QED BY <1>2, <3>2, <3>3, <3>4
  <2> QED BY <2>1, <2>2
<1> QED BY <1>1, <1>3

\* The steps of a webhook that neither enter the fee nor add it.
LEMMA HookQuiet ==
  ASSUME Typed, RefInv, NEW d \in Deliverers, HookStep(d) \/ WebhookFails(d),
         ~AddFeePaid(d), ~UpdateHighWaterMark(d)
  PROVE  Quiet
<1>1. CASE FindTransaction(d) \/ ReadAssessment(d)
  BY <1>1, LookupWent, HookMovesQuiet DEF Entered
<1>2. CASE MarkFailed(d) \/ MarkSucceeded(d) \/ PayInvoice(d)
  <2>1. UNCHANGED <<feePaid, perf, assess>> BY <1>2 DEF MarkFailed, MarkSucceeded, PayInvoice
  <2>2. HookGoes(d, "finish") \/ HookGoes(d, "pay") \/ HookGoes(d, "assessment")
    BY <1>2 DEF MarkFailed, MarkSucceeded, PayInvoice
  <2> QED BY <2>1, <2>2, HookWent, HookMovesQuiet DEF Entered
<1>3. CASE MarkPaid(d)
  <2>1. UNCHANGED <<feePaid, perf>> BY <1>3 DEF MarkPaid
  <2>2. HookGoes(d, "entry") BY <1>3 DEF MarkPaid
  <2> QED BY <2>1, <2>2, HookWent, HookMovesQuiet DEF Entered
<1>4. CASE HookReadsPerformance(d)
  <2>1. UNCHANGED <<feePaid, perf, assess>> /\ hook[d].pc = "performance"
    BY <1>4 DEF HookReadsPerformance, store, HookAt
  <2>2. hook[d] \in HookRows BY DEF Typed, RequestsTyped
  <2>3. /\ hook'[d].pc = "mark" /\ hook'[d].inv = hook[d].inv /\ hook'[d].fees = perf.fees
        /\ \A e \in Deliverers : e # d => hook'[e] = hook[e]
    BY <1>4, <2>2 DEF HookReadsPerformance, Typed, RequestsTyped, HookRows
  <2> QED BY <2>1, <2>3 DEF Quiet
<1>5. CASE FinishWebhook(d) \/ WebhookFails(d)
  <2>1. UNCHANGED <<feePaid, perf, assess>> /\ hook' = [hook EXCEPT ![d] = HookIdle]
    BY <1>5 DEF FinishWebhook, WebhookFails, store
  <2> QED BY <2>1, HookEnded, HookMovesQuiet DEF Entered
<1> QED BY <1>1, <1>2, <1>3, <1>4, <1>5 DEF HookStep

\* Only two statements of a webhook are not quiet.
LEMMA NextQuiet ==
  ASSUME Typed, RefInv, [Next]_vars
  PROVE  Quiet \/ \E d \in Deliverers : AddFeePaid(d) \/ UpdateHighWaterMark(d)
<1>1. CASE UNCHANGED vars BY <1>1, StillQuiet DEF vars, store
<1>2. CASE BillingRequest
  BY <1>2, StillQuiet DEF BillingRequest, CreateBillingCycle, OpenCycle, CallFeeService, store
<1>3. ASSUME NEW a \in Admins, AdminStep(a) \/ CaughtFailure(a) PROVE Quiet
  BY <1>3, AdminQuiet
<1>4. ASSUME NEW c \in Customers, CustomerStep(c) PROVE Quiet
  BY <1>4, StillQuiet DEF CustomerStep, Claim, CreateSession, CheckoutFails, SafetyNetReads,
     SafetyNetReleases, SaveReference, store
<1>5. ASSUME NEW c \in Customers, NEW i \in Invoices, LoadPayable(c, i) PROVE Quiet
  BY <1>5, StillQuiet DEF LoadPayable, store
<1>6. ASSUME NEW s \in Sessions, SessionEnds(s) PROVE Quiet
  BY <1>6, StillQuiet DEF SessionEnds, store
<1>7. ASSUME NEW s \in Sessions, NEW d \in Deliverers, Deliver(d, s) PROVE Quiet
  <2>1. UNCHANGED <<feePaid, perf, assess>> BY <1>7 DEF Deliver, store
  <2>2. CASE UNCHANGED hook BY <2>1, <2>2, StillQuiet
  <2>3. CASE hook' = [hook EXCEPT ![d] = [HookIdle EXCEPT !.pc = "find", !.session = s]]
    <3>1. hook'[d].pc = "find" /\ \A e \in Deliverers : e # d => hook'[e] = hook[e]
      BY <2>3 DEF Typed, RequestsTyped, HookIdle
    <3> QED BY <2>1, <3>1, HookMovesQuiet DEF Entered
  <2> QED BY <1>7, <2>2, <2>3 DEF Deliver
<1>8. CASE Crash
  <2>1. UNCHANGED <<feePaid, perf, assess>> BY <1>8 DEF Crash, store
  <2>2. CASE UNCHANGED hook BY <2>1, <2>2, StillQuiet
  <2>3. ASSUME NEW d \in Deliverers, hook' = [hook EXCEPT ![d] = HookIdle] PROVE Quiet
    BY <2>1, <2>3, HookEnded, HookMovesQuiet DEF Entered
  <2> QED BY <1>8, <2>2, <2>3 DEF Crash
<1>9. ASSUME NEW d \in Deliverers, HookStep(d) \/ WebhookFails(d),
             ~AddFeePaid(d), ~UpdateHighWaterMark(d)
      PROVE  Quiet
  BY <1>9, HookQuiet
<1> QED BY <1>1, <1>2, <1>3, <1>4, <1>5, <1>6, <1>7, <1>8, <1>9 DEF Next

\* Only a paid session's fee is entered.
EntriesPaid ==
    \A s \in 1 .. MaxSessions : feePaid[s] # 0 => s \in Sessions /\ sessions[s].status = "PAID"

\* The webhook that enters a fee holds a paid session.
LEMMA EntriesPaidKept ==
  ASSUME Typed, RefInv, EntriesPaid, StepSound, [Next]_vars
  PROVE  EntriesPaid'
<1> SUFFICES ASSUME NEW s \in 1 .. MaxSessions, feePaid'[s] # 0
             PROVE  s \in Sessions' /\ sessions'[s].status = "PAID"
  BY DEF EntriesPaid
<1>1. s \in Sessions /\ sessions[s].status = "PAID"
  <2>1. CASE feePaid'[s] = feePaid[s] BY <2>1 DEF EntriesPaid
  <2>2. ASSUME NEW d \in Deliverers, AddFeePaid(d), hook[d].session = s
        PROVE  s \in Sessions /\ sessions[s].status = "PAID"
    <3>1. hook[d].pc = "entry" BY <2>2 DEF AddFeePaid, HookAt
    <3> QED BY <2>2, <3>1, BusyHook DEF HookHolds, Settling, Entering
  <2>3. ASSUME NEW d \in Deliverers, AddFeePaid(d), hook[d].session # s
        PROVE  feePaid'[s] = feePaid[s]
    BY <2>3 DEF AddFeePaid, Typed, BooksTyped
  <2>4. ASSUME NEW d \in Deliverers, UpdateHighWaterMark(d) PROVE feePaid'[s] = feePaid[s]
    BY <2>4 DEF UpdateHighWaterMark
  <2> QED BY <2>1, <2>2, <2>3, <2>4, NextQuiet DEF Quiet
<1> QED BY <1>1 DEF StepSound, Grow, SessionsGrow

\* An entry is made only for a session that the provider collected.
LEMMA EntriesArePaid == Spec => []EntriesPaid
<1>1. Init => EntriesPaid BY DEF Init, EntriesPaid
<1>2. Typed /\ RefInv /\ EntriesPaid /\ [Next]_vars => EntriesPaid'
  <2> SUFFICES ASSUME Typed, RefInv, EntriesPaid, [Next]_vars PROVE EntriesPaid' OBVIOUS
  <2>1. StepSound BY NextSound, StutterSound
  <2> QED BY <2>1, EntriesPaidKept
<1> QED BY <1>1, <1>2, SoundAlways, PTL DEF Spec

-----------------------------------------------------------------------------
(* The account's total of fees never exceeds the entries of the ledger.      *)

\* Fees entered in the ledger, and those a webhook still adds to the total.
EntriesOf == [s \in 1 .. MaxSessions |-> EnteredFor(s)]
FeesEntered == SumFunctionOnSet(EntriesOf, 1 .. MaxSessions)
Pending == [d \in Deliverers |-> IF hook[d].pc \in Entered THEN invoices[hook[d].inv].amount ELSE 0]
ToAdd == SumFunctionOnSet(Pending, Deliverers)
TotalInv ==
    /\ perf.fees + ToAdd <= FeesEntered
    /\ \A d \in Deliverers : hook[d].pc = "mark" => hook[d].fees + ToAdd <= FeesEntered

\* The summands are naturals.
LEMMA SumsTyped ==
  ASSUME Typed, RefInv, EntriesPaid
  PROVE  /\ EntriesOf \in [1 .. MaxSessions -> Nat] /\ FeesEntered \in Nat
         /\ Pending \in [Deliverers -> Nat] /\ ToAdd \in Nat
         /\ IsFiniteSet(1 .. MaxSessions) /\ IsFiniteSet(Deliverers)
<1>1. IsFiniteSet(1 .. MaxSessions) /\ IsFiniteSet(Deliverers)
  BY AccountIsWellFormed, BillingBoundsAreNaturals, FS_Interval
<1>2. ASSUME NEW s \in 1 .. MaxSessions PROVE EnteredFor(s) \in Nat
  <2>1. feePaid[s] \in Nat BY DEF Typed, BooksTyped
  <2>2. CASE feePaid[s] # 0
    <3>1. sessions[s] \in SessionRows BY <2>2 DEF EntriesPaid, Typed, RowsTyped, Sessions
    <3>2. sessions[s].amount \in Nat BY <3>1 DEF SessionRows
    <3>3. \A m, n \in Nat : m * n \in Nat BY SMT
    <3> QED BY <2>1, <3>2, <3>3 DEF EnteredFor
  <2> QED BY <2>2 DEF EnteredFor
<1>3. EntriesOf \in [1 .. MaxSessions -> Nat] BY <1>2 DEF EntriesOf
<1>4. ASSUME NEW d \in Deliverers, hook[d].pc \in Entered PROVE invoices[hook[d].inv].amount \in Nat
  <2>1. hook[d].inv \in Invoices
    BY <1>4, BusyHook DEF HookHolds, Entered, Settling
  <2>2. invoices[hook[d].inv] \in InvoiceRows BY <2>1 DEF Typed, RowsTyped, Invoices
  <2> QED BY <2>2 DEF InvoiceRows
<1>5. Pending \in [Deliverers -> Nat] BY <1>4 DEF Pending
<1>6. (1 .. MaxSessions) \in SUBSET (1 .. MaxSessions) /\ Deliverers \in SUBSET Deliverers OBVIOUS
<1>7. FeesEntered \in Nat BY <1>1, <1>3, <1>6, SumRemoves DEF FeesEntered
<1>8. ToAdd \in Nat BY <1>1, <1>5, <1>6, SumRemoves DEF ToAdd
<1> QED BY <1>1, <1>3, <1>5, <1>7, <1>8

SummandsTyped ==
    /\ EntriesOf \in [1 .. MaxSessions -> Nat] /\ FeesEntered \in Nat
    /\ Pending \in [Deliverers -> Nat] /\ ToAdd \in Nat

\* The same after a step.
LEMMA SumsTypedNext == Typed' /\ RefInv' /\ EntriesPaid' => SummandsTyped'
<1>1. Typed /\ RefInv /\ EntriesPaid => SummandsTyped BY SumsTyped DEF SummandsTyped
<1> QED BY <1>1, PTL

\* The sums after a step, as constants of the proof.
LEMMA SumsNext ==
  ASSUME Typed', RefInv', EntriesPaid'
  PROVE  /\ \E w \in [1 .. MaxSessions -> Nat] :
               w = EntriesOf' /\ FeesEntered' = SumFunctionOnSet(w, 1 .. MaxSessions)
         /\ \E w \in [Deliverers -> Nat] : w = Pending' /\ ToAdd' = SumFunctionOnSet(w, Deliverers)
         /\ FeesEntered' \in Nat /\ ToAdd' \in Nat
<1>1. /\ EntriesOf' \in [1 .. MaxSessions -> Nat] /\ FeesEntered' \in Nat
      /\ Pending' \in [Deliverers -> Nat] /\ ToAdd' \in Nat
  BY SumsTypedNext DEF SummandsTyped
<1>2. FeesEntered' = SumFunctionOnSet(EntriesOf', 1 .. MaxSessions) BY DEF FeesEntered
<1>3. ToAdd' = SumFunctionOnSet(Pending', Deliverers) BY DEF ToAdd
<1> QED BY <1>1, <1>2, <1>3

\* The ledger's sum stays while no entry is made.
LEMMA EntriesKept ==
  ASSUME EntriesPaid, StepSound, UNCHANGED feePaid
  PROVE  FeesEntered' = FeesEntered
<1>1. ASSUME NEW s \in 1 .. MaxSessions PROVE EnteredFor(s)' = EnteredFor(s)
  <2>1. CASE feePaid[s] = 0 BY <2>1 DEF EnteredFor
  <2>2. CASE feePaid[s] # 0
    <3>1. sessions'[s].amount = sessions[s].amount
      BY <2>2 DEF EntriesPaid, StepSound, Grow, SessionsGrow
    <3> QED BY <2>2, <3>1 DEF EnteredFor
  <2> QED BY <2>1, <2>2
<1>2. EntriesOf' = EntriesOf BY <1>1 DEF EntriesOf
<1> QED BY <1>2 DEF FeesEntered

\* A webhook's amount is that of its invoice, which never changes.
LEMMA PendingKept ==
  ASSUME Typed, RefInv, EntriesPaid, StepSound, NEW d \in Deliverers,
         \/ hook'[d] = hook[d]
         \/ hook'[d].pc \in Entered => hook[d].pc \in Entered /\ hook'[d].inv = hook[d].inv
  PROVE  Pending'[d] <= Pending[d]
<1>1. Pending'[d] = IF hook'[d].pc \in Entered THEN invoices'[hook'[d].inv].amount ELSE 0
  BY DEF Pending
<1>2. Pending[d] = IF hook[d].pc \in Entered THEN invoices[hook[d].inv].amount ELSE 0
  BY DEF Pending
<1>3. Pending[d] \in Nat BY SumsTyped
<1>4. CASE hook'[d].pc \in Entered
  <2>1. hook[d].pc \in Entered /\ hook'[d].inv = hook[d].inv BY <1>4
  <2>2. hook[d].inv \in Invoices BY <2>1, BusyHook DEF HookHolds, Entered, Settling
  <2>3. invoices'[hook[d].inv].amount = invoices[hook[d].inv].amount
    BY <2>2 DEF StepSound, Grow, InvoicesGrow
  <2> QED BY <1>1, <1>2, <1>3, <2>1, <2>3
<1>5. CASE hook'[d].pc \notin Entered BY <1>1, <1>3, <1>5
<1> QED BY <1>4, <1>5

\* Quiet steps keep the bound.
LEMMA TotalKept ==
  ASSUME Typed, RefInv, EntriesPaid, TotalInv, StepSound, RefInv', EntriesPaid', Quiet
  PROVE  TotalInv'
<1>0. /\ FeesEntered \in Nat /\ ToAdd \in Nat /\ FeesEntered' \in Nat /\ ToAdd' \in Nat
      /\ Pending \in [Deliverers -> Nat] /\ IsFiniteSet(Deliverers)
  BY SumsTyped, SumsNext DEF StepSound
<1>1. FeesEntered' = FeesEntered BY EntriesKept DEF Quiet
<1>2. ToAdd' <= ToAdd
  <2>1. PICK w \in [Deliverers -> Nat] :
           w = Pending' /\ ToAdd' = SumFunctionOnSet(w, Deliverers)
    BY SumsNext DEF StepSound
  <2>2. \A d \in Deliverers : Pending'[d] <= Pending[d]
    BY PendingKept DEF Quiet, Entered
  <2>3. \A d \in Deliverers : w[d] <= Pending[d] BY <2>1, <2>2
  <2>4. SumFunctionOnSet(w, Deliverers) <= SumFunctionOnSet(Pending, Deliverers)
    BY <1>0, <2>3, SumGrows
  <2> QED BY <2>1, <2>4 DEF ToAdd
<1>4. perf.fees \in Nat /\ perf.fees + ToAdd <= FeesEntered
  BY DEF Typed, BooksTyped, TotalInv
<1>5. perf'.fees + ToAdd' <= FeesEntered' BY <1>0, <1>1, <1>2, <1>4 DEF Quiet
<1>6. ASSUME NEW d \in Deliverers, hook'[d].pc = "mark"
      PROVE  hook'[d].fees + ToAdd' <= FeesEntered'
  <2>1. hook[d].fees \in Nat BY DEF Typed, RequestsTyped, HookRows
  <2>2. \/ hook'[d].fees = hook[d].fees /\ hook[d].pc = "mark"
        \/ hook'[d].fees = perf.fees
    BY <1>6 DEF Quiet, Entered
  <2>3. hook[d].pc = "mark" => hook[d].fees + ToAdd <= FeesEntered BY DEF TotalInv
  <2> QED BY <1>0, <1>1, <1>2, <1>4, <2>1, <2>2, <2>3
<1> QED BY <1>5, <1>6 DEF TotalInv

\* The fee is entered, and its amount is still to be added to the total.
LEMMA AddFeePaidTotal ==
  ASSUME Typed, RefInv, EntriesPaid, TotalInv, StepSound, RefInv', EntriesPaid',
         NEW d \in Deliverers, AddFeePaid(d)
  PROVE  TotalInv'
<1>0. hook[d].pc = "entry" BY DEF AddFeePaid, HookAt
<1>1. hook[d] \in HookRows /\ HookHolds(hook[d]) BY <1>0, BusyHook
<1>2. PICK s \in Sessions : s = hook[d].session BY <1>0, <1>1 DEF HookHolds
<1>13. s \in 1 .. MaxSessions BY BillingBoundsAreNaturals DEF Typed, RowsTyped, Sessions
<1>3. PICK i \in Invoices : i = hook[d].inv /\ sessions[s].invoice = i
  BY <1>0, <1>1, <1>2 DEF HookHolds, Settling, Entering
<1>4. PICK x \in Nat : x = invoices[i].amount /\ x = sessions[s].amount
  <2>1. SessionSound(s) /\ sessions[s] \in SessionRows BY DEF RefInv, Typed, RowsTyped, Sessions
  <2> QED BY <1>3, <2>1 DEF SessionSound, SessionRows
<1>5. UNCHANGED <<perf, sessions, invoices>> BY DEF AddFeePaid
<1>6. /\ hook'[d].pc = "performance" /\ hook'[d].inv = i
      /\ \A e \in Deliverers : e # d => hook'[e] = hook[e]
  BY <1>3, HookWent DEF AddFeePaid
<1>7. /\ feePaid'[s] = feePaid[s] + 1 /\ feePaid[s] \in Nat
      /\ \A q \in 1 .. MaxSessions : q # s => feePaid'[q] = feePaid[q]
  BY <1>2, <1>13 DEF AddFeePaid, Typed, BooksTyped
<1>8. FeesEntered' = FeesEntered + x
  <2>1. PICK w \in [1 .. MaxSessions -> Nat] :
           w = EntriesOf' /\ FeesEntered' = SumFunctionOnSet(w, 1 .. MaxSessions)
    BY SumsNext DEF StepSound
  <2>2. EntriesOf \in [1 .. MaxSessions -> Nat] /\ IsFiniteSet(1 .. MaxSessions) BY SumsTyped
  <2>3. \A q \in 1 .. MaxSessions : q # s => w[q] = EntriesOf[q]
    BY <1>5, <1>7, <2>1 DEF EntriesOf, EnteredFor
  <2>4. \A m, n \in Nat : (m + 1) * n = m * n + n /\ 0 * n = 0 BY SMT
  <2>5. w[s] = (feePaid[s] + 1) * x
    <3>1. w[s] = EnteredFor(s)' BY <1>13, <2>1 DEF EntriesOf
    <3>2. feePaid'[s] # 0 BY <1>7
    <3> QED BY <1>4, <1>5, <1>7, <3>1, <3>2 DEF EnteredFor
  <2>6. EntriesOf[s] = feePaid[s] * x
    <3>1. EntriesOf[s] = EnteredFor(s) BY <1>13 DEF EntriesOf
    <3>2. CASE feePaid[s] = 0 BY <2>4, <3>1, <3>2 DEF EnteredFor
    <3>3. CASE feePaid[s] # 0 BY <1>4, <3>1, <3>3 DEF EnteredFor
    <3> QED BY <3>2, <3>3
  <2>7. w[s] = EntriesOf[s] + x BY <1>7, <2>4, <2>5, <2>6
  <2>8. /\ SumFunctionOnSet(EntriesOf, 1 .. MaxSessions) \in Nat
        /\ SumFunctionOnSet(w, 1 .. MaxSessions) \in Nat
        /\ SumFunctionOnSet(w, 1 .. MaxSessions) + EntriesOf[s]
              = SumFunctionOnSet(EntriesOf, 1 .. MaxSessions) + w[s]
    <3>1. PICK S : S = 1 .. MaxSessions OBVIOUS
    <3>2. /\ EntriesOf \in [S -> Nat] /\ IsFiniteSet(S) /\ w \in [S -> Nat] /\ s \in S
          /\ \A q \in S : q # s => w[q] = EntriesOf[q]
      BY <1>13, <2>1, <2>2, <2>3, <3>1
    <3>3. /\ SumFunctionOnSet(EntriesOf, S) \in Nat /\ SumFunctionOnSet(w, S) \in Nat
          /\ SumFunctionOnSet(w, S) + EntriesOf[s] = SumFunctionOnSet(EntriesOf, S) + w[s]
      <4>1. PICK v : v = EntriesOf OBVIOUS
      <4>4. PICK u : u = w OBVIOUS
      <4>5. PICK t : t = s OBVIOUS
      <4>2. /\ IsFiniteSet(S) /\ v \in [S -> Nat] /\ u \in [S -> Nat] /\ t \in S
            /\ \A y \in S : y # t => u[y] = v[y]
        BY <3>2, <4>1, <4>4, <4>5
      <4>3. /\ SumFunctionOnSet(v, S) \in Nat /\ SumFunctionOnSet(u, S) \in Nat
            /\ SumFunctionOnSet(u, S) + v[t] = SumFunctionOnSet(v, S) + u[t]
        BY ONLY <4>2, SumChanges
      <4> QED BY <4>1, <4>3, <4>4, <4>5
    <3> QED BY <3>1, <3>3
  <2>9. EntriesOf[s] \in Nat BY <1>13, <2>2
  <2> QED BY <2>1, <2>7, <2>8, <2>9 DEF FeesEntered
<1>9. ToAdd' = ToAdd + x
  <2>1. PICK w \in [Deliverers -> Nat] :
           w = Pending' /\ ToAdd' = SumFunctionOnSet(w, Deliverers)
    BY SumsNext DEF StepSound
  <2>2. Pending \in [Deliverers -> Nat] /\ IsFiniteSet(Deliverers) BY SumsTyped
  <2>3. \A e \in Deliverers : e # d => w[e] = Pending[e] BY <1>5, <1>6, <2>1 DEF Pending
  <2>4. Pending[d] = 0 BY <1>0 DEF Pending, Entered
  <2>5. w[d] = x BY <1>4, <1>5, <1>6, <2>1 DEF Pending, Entered
  <2>6. /\ SumFunctionOnSet(Pending, Deliverers) \in Nat /\ SumFunctionOnSet(w, Deliverers) \in Nat
        /\ SumFunctionOnSet(w, Deliverers) + Pending[d] = SumFunctionOnSet(Pending, Deliverers) + w[d]
    BY <2>2, <2>3, SumChanges
  <2> QED BY <2>1, <2>4, <2>5, <2>6 DEF ToAdd
<1>10. FeesEntered \in Nat /\ ToAdd \in Nat /\ perf.fees \in Nat
  BY SumsTyped DEF Typed, BooksTyped
<1>11. perf'.fees + ToAdd' <= FeesEntered' BY <1>5, <1>8, <1>9, <1>10 DEF TotalInv
<1>12. ASSUME NEW e \in Deliverers, hook'[e].pc = "mark"
       PROVE  hook'[e].fees + ToAdd' <= FeesEntered'
  <2>1. hook'[e] = hook[e] /\ hook[e].fees \in Nat
    BY <1>6, <1>12 DEF Typed, RequestsTyped, HookRows
  <2>2. hook[e].fees + ToAdd <= FeesEntered BY <1>12, <2>1 DEF TotalInv
  <2> QED BY <1>8, <1>9, <1>10, <2>1, <2>2
<1> QED BY <1>11, <1>12 DEF TotalInv

\* The amount is added to the total the webhook has read.
LEMMA UpdateMarkTotal ==
  ASSUME Typed, RefInv, EntriesPaid, TotalInv, StepSound, RefInv', EntriesPaid',
         NEW d \in Deliverers, UpdateHighWaterMark(d)
  PROVE  TotalInv'
<1>0. hook[d].pc = "mark" BY DEF UpdateHighWaterMark, HookAt
<1>1. hook[d] \in HookRows /\ HookHolds(hook[d]) BY <1>0, BusyHook
<1>2. PICK i \in Invoices : i = hook[d].inv
  BY <1>0, <1>1 DEF HookHolds, Settling, Entered
<1>3. PICK x \in Nat : x = invoices[i].amount
  <2>1. invoices[i] \in InvoiceRows BY DEF Typed, RowsTyped, Invoices
  <2> QED BY <2>1 DEF InvoiceRows
<1>4. UNCHANGED <<feePaid, assess, invoices>> BY DEF UpdateHighWaterMark
<1>5. hook'[d].pc = "finish" /\ \A e \in Deliverers : e # d => hook'[e] = hook[e]
  BY HookWent DEF UpdateHighWaterMark
<1>6. perf'.fees = hook[d].fees + x
  BY <1>2, <1>3 DEF UpdateHighWaterMark, Typed, BooksTyped
<1>7. FeesEntered' = FeesEntered BY <1>4, EntriesKept
<1>8. ToAdd' + x = ToAdd
  <2>1. PICK w \in [Deliverers -> Nat] :
           w = Pending' /\ ToAdd' = SumFunctionOnSet(w, Deliverers)
    BY SumsNext DEF StepSound
  <2>2. Pending \in [Deliverers -> Nat] /\ IsFiniteSet(Deliverers) BY SumsTyped
  <2>3. \A e \in Deliverers : e # d => w[e] = Pending[e] BY <1>4, <1>5, <2>1 DEF Pending
  <2>4. Pending[d] = x BY <1>0, <1>2, <1>3 DEF Pending, Entered
  <2>5. w[d] = 0 BY <1>5, <2>1 DEF Pending, Entered
  <2>6. /\ SumFunctionOnSet(Pending, Deliverers) \in Nat /\ SumFunctionOnSet(w, Deliverers) \in Nat
        /\ SumFunctionOnSet(w, Deliverers) + Pending[d] = SumFunctionOnSet(Pending, Deliverers) + w[d]
    BY <2>2, <2>3, SumChanges
  <2> QED BY <2>1, <2>4, <2>5, <2>6 DEF ToAdd
<1>9. FeesEntered \in Nat /\ ToAdd \in Nat /\ ToAdd' \in Nat
  BY SumsTyped, SumsNext DEF StepSound
<1>10. hook[d].fees \in Nat /\ hook[d].fees + ToAdd <= FeesEntered
  BY <1>0, <1>1 DEF HookRows, TotalInv
<1>11. perf'.fees + ToAdd' <= FeesEntered' BY <1>3, <1>6, <1>7, <1>8, <1>9, <1>10
<1>12. ASSUME NEW e \in Deliverers, hook'[e].pc = "mark"
       PROVE  hook'[e].fees + ToAdd' <= FeesEntered'
  <2>1. hook'[e] = hook[e] /\ hook[e].fees \in Nat
    BY <1>5, <1>12 DEF Typed, RequestsTyped, HookRows
  <2>2. hook[e].fees + ToAdd <= FeesEntered BY <1>12, <2>1 DEF TotalInv
  <2> QED BY <1>3, <1>7, <1>8, <1>9, <2>1, <2>2
<1> QED BY <1>11, <1>12 DEF TotalInv

\* However webhooks, checkouts and admin requests overlap, fail and die, the
\* account's total never exceeds the fees entered as paid.
THEOREM TotalIsEntered == Spec => [](perf.fees <= FeesEntered)
<1>1. Init => TotalInv
  <2> SUFFICES ASSUME Init PROVE TotalInv OBVIOUS
  <2>1. Typed /\ RefInv /\ EntriesPaid BY InitSound DEF Init, EntriesPaid
  <2>2. FeesEntered \in Nat /\ Pending \in [Deliverers -> Nat] /\ IsFiniteSet(Deliverers)
    BY <2>1, SumsTyped
  <2>3. \A d \in Deliverers : hook[d].pc = "idle" BY DEF Init, HookIdle
  <2>4. ToAdd = 0
    <3>1. \A d \in Deliverers : Pending[d] = 0 BY <2>3 DEF Pending, Entered
    <3> QED BY <2>2, <3>1, SumOfZeros DEF ToAdd
  <2>5. perf.fees = 0 BY DEF Init
  <2> QED BY <2>2, <2>3, <2>4, <2>5 DEF TotalInv
<1>2. /\ Typed /\ RefInv /\ EntriesPaid /\ TotalInv /\ Typed' /\ RefInv' /\ EntriesPaid'
      /\ [Next]_vars
      => TotalInv'
  <2> SUFFICES ASSUME Typed, RefInv, EntriesPaid, TotalInv, RefInv', EntriesPaid', [Next]_vars
               PROVE  TotalInv'
    OBVIOUS
  <2>1. StepSound BY NextSound, StutterSound
  <2> QED BY <2>1, NextQuiet, TotalKept, AddFeePaidTotal, UpdateMarkTotal
<1>3. Typed /\ RefInv /\ EntriesPaid /\ TotalInv => perf.fees <= FeesEntered
  <2> SUFFICES ASSUME Typed, RefInv, EntriesPaid, TotalInv PROVE perf.fees <= FeesEntered OBVIOUS
  <2> QED BY SumsTyped DEF TotalInv, Typed, BooksTyped
<1> QED BY <1>1, <1>2, <1>3, SoundAlways, EntriesArePaid, PTL DEF Spec

-----------------------------------------------------------------------------
(* An invoice that is not linked yet is nobody's but its admin's.            *)

\* The invoices an assessment, a session or a checkout refers to.
Used ==
    {assess[p].invoice : p \in Periods} \union {sessions[s].invoice : s \in Sessions}
    \union {cust[c].inv : c \in {b \in Customers : cust[b].pc # "idle"}}
Linking == {a \in Admins : admin[a].pc = "link"}
FreshInv ==
    \A a \in Linking :
        /\ admin[a].inv \notin Used
        /\ \A b \in Linking : admin[b].inv = admin[a].inv => a = b

\* How references spread: a session takes its checkout's, a checkout an
\* assessment's, and an assessment made anew has none.
Spreads ==
    /\ \A p \in Periods : assess'[p].invoice \in {assess[p].invoice, 0}
    /\ \A s \in Sessions' :
          \/ s \in Sessions /\ sessions'[s].invoice = sessions[s].invoice
          \/ \E c \in Customers : cust[c].pc # "idle" /\ sessions'[s].invoice = cust[c].inv
    /\ \A c \in Customers :
          \/ cust'[c].pc = "idle"
          \/ cust[c].pc # "idle" /\ cust'[c].inv = cust[c].inv
          \/ \E p \in Periods : cust'[c].inv = assess[p].invoice

\* Such a step uses no other invoice.
LEMMA UsedKept ==
  ASSUME Spreads
  PROVE  Used' \subseteq Used \union {0}
<1>1. Used' = {assess'[p].invoice : p \in Periods} \union {sessions'[s].invoice : s \in Sessions'}
              \union {cust'[c].inv : c \in {b \in Customers : cust'[b].pc # "idle"}}
  BY DEF Used
<1>2. ASSUME NEW p \in Periods PROVE assess'[p].invoice \in Used \union {0}
  BY DEF Spreads, Used
<1>3. ASSUME NEW s \in Sessions' PROVE sessions'[s].invoice \in Used
  BY DEF Spreads, Used
<1>4. ASSUME NEW c \in Customers, cust'[c].pc # "idle" PROVE cust'[c].inv \in Used
  BY <1>4 DEF Spreads, Used
<1> QED BY <1>1, <1>2, <1>3, <1>4

\* And while no admin comes to link one, all stay fresh.
LEMMA FreshKept ==
  ASSUME RefInv, FreshInv, Used' \subseteq Used \union {0},
         \A a \in Admins : admin'[a].pc = "link" => admin'[a] = admin[a]
  PROVE  FreshInv'
<1> SUFFICES ASSUME NEW a \in Admins, admin'[a].pc = "link"
             PROVE  /\ admin'[a].inv \notin Used'
                    /\ \A b \in Admins : admin'[b].pc = "link" /\ admin'[b].inv = admin'[a].inv => a = b
  BY DEF FreshInv, Linking
<1>1. admin'[a] = admin[a] /\ a \in Linking BY DEF Linking
<1>2. admin[a].inv # 0
  <2>1. AdminSound(a) BY DEF RefInv
  <2> QED BY <1>1, <2>1 DEF AdminSound, Linking, Invoices
<1>3. admin[a].inv \notin Used BY <1>1 DEF FreshInv
<1>4. ASSUME NEW b \in Admins, admin'[b].pc = "link", admin'[b].inv = admin'[a].inv PROVE a = b
  BY <1>1, <1>4 DEF FreshInv, Linking
<1> QED BY <1>1, <1>2, <1>3, <1>4

\* Every number in use is that of an invoice.
LEMMA UsedAreIssued ==
  ASSUME RefInv
  PROVE  Used \subseteq Invoices \union {0}
<1>1. \A p \in Periods : assess[p].invoice = 0 \/ assess[p].invoice \in Invoices
  BY DEF RefInv, AssessSound
<1>2. \A s \in Sessions : sessions[s].invoice \in Invoices BY DEF RefInv, SessionSound
<1>3. \A c \in Customers : cust[c].pc # "idle" => cust[c].inv \in Invoices BY DEF RefInv, CustSound
<1> QED BY <1>1, <1>2, <1>3 DEF Used

\* An invoice is issued under a new number.
LEMMA IssueFresh ==
  ASSUME Typed, RefInv, FreshInv, NEW a \in Admins, IssueInvoice(a)
  PROVE  FreshInv'
<1>0. admin[a] \in AdminRows /\ Len(invoices) \in Nat BY DEF Typed, RequestsTyped, RowsTyped
<1>1. PICK n \in Nat : n = Len(invoices) + 1 BY <1>0
<1>2. /\ admin'[a].pc = "link" /\ admin'[a].inv = n
      /\ \A b \in Admins : b # a => admin'[b] = admin[b]
  BY <1>0, <1>1 DEF IssueInvoice, Typed, RequestsTyped, AdminRows
<1>3. n \notin Invoices \union {0} BY <1>0, <1>1 DEF Invoices
<1>4. Used' = Used BY DEF IssueInvoice, Used, Sessions
<1>5. n \notin Used' BY <1>3, <1>4, UsedAreIssued
<1>6. \A b \in Admins : b # a /\ admin'[b].pc = "link" => b \in Linking /\ admin'[b].inv = admin[b].inv
  BY <1>2 DEF Linking
<1>7. \A b \in Linking : admin[b].inv \in Invoices BY DEF Linking, RefInv, AdminSound
<1>8. \A b \in Linking : admin[b].inv # n BY <1>3, <1>7
<1>9. \A b \in Linking' : b \in Admins /\ (b = a \/ (b \in Linking /\ admin'[b].inv = admin[b].inv))
  BY <1>6 DEF Linking
<1> QED BY <1>2, <1>4, <1>5, <1>8, <1>9 DEF FreshInv

\* It is linked, and no other admin holds it.
LEMMA LinkFresh ==
  ASSUME Typed, RefInv, FreshInv, NEW a \in Admins, LinkInvoice(a)
  PROVE  FreshInv'
<1>1. PICK q \in Periods : q = admin[a].period BY DEF Typed, RequestsTyped, AdminRows
<1>2. a \in Linking BY DEF LinkInvoice, AdminAt, Linking
<1>3. assess[q] \in AssessRows BY DEF Typed, RowsTyped
<1>4. assess'[q].invoice = admin[a].inv /\ \A p \in Periods : p # q => assess'[p] = assess[p]
  BY <1>1, <1>3 DEF LinkInvoice, Typed, RowsTyped, AssessRows
<1>5. admin'[a].pc = "close" /\ \A b \in Admins : b # a => admin'[b] = admin[b]
  BY AdminWent DEF LinkInvoice
<1>6. Used' \subseteq Used \union {admin[a].inv}
  <2>1. \A p \in Periods : assess'[p].invoice \in Used \union {admin[a].inv} BY <1>4 DEF Used
  <2>2. UNCHANGED <<sessions, cust>> /\ Sessions' = Sessions BY DEF LinkInvoice, Sessions
  <2>3. Used' = {assess'[p].invoice : p \in Periods} \union {sessions[s].invoice : s \in Sessions}
                \union {cust[c].inv : c \in {b \in Customers : cust[b].pc # "idle"}}
    BY <2>2 DEF Used
  <2> QED BY <2>1, <2>3 DEF Used
<1>7. \A b \in Linking' : b \in Linking /\ b # a /\ admin'[b] = admin[b] BY <1>5 DEF Linking
<1>8. \A b \in Linking : b # a => admin[b].inv \notin Used /\ admin[b].inv # admin[a].inv
  BY <1>2 DEF FreshInv
<1>9. \A b, c \in Linking : admin[b].inv = admin[c].inv => b = c BY DEF FreshInv
<1> QED BY <1>6, <1>7, <1>8, <1>9 DEF FreshInv

\* The steps of an admin request that neither issue an invoice nor link one.
LEMMA AdminFresh ==
  ASSUME Typed, RefInv, FreshInv, NEW a \in Admins, AdminStep(a) \/ CaughtFailure(a),
         ~IssueInvoice(a), ~LinkInvoice(a)
  PROVE  FreshInv'
<1>1. UNCHANGED <<sessions, cust>> /\ Sessions' = Sessions
  BY DEF AdminStep, CaughtFailure, FailCycle, CancelBillingCycle, BeginReconciling, Reconcile,
         CheckAssessments, ReadPerformance, SaveAssessment, UpdateTotal, CycleAssessed,
         LoadForInvoice, CloseCycle, store, Sessions
<1>2. \A p \in Periods : assess'[p].invoice \in {assess[p].invoice, 0}
  <2>1. CASE UNCHANGED assess BY <2>1
  <2>2. CASE assess' = [assess EXCEPT ![admin[a].period] = Assessed(a)]
    <3>1. Assessed(a).invoice = 0 BY AssessedTyped
    <3> QED BY <2>2, <3>1 DEF Typed, RowsTyped
  <2> QED
    BY <2>1, <2>2 DEF AdminStep, CaughtFailure, FailCycle, CancelBillingCycle,
       BeginReconciling, Reconcile, CheckAssessments, ReadPerformance, SaveAssessment,
       UpdateTotal, CycleAssessed, LoadForInvoice, CloseCycle, store
<1>3. Spreads BY <1>1, <1>2 DEF Spreads
<1>4. admin'[a].pc # "link" /\ \A b \in Admins : b # a => admin'[b] = admin[b]
  <2>1. CASE ReadPerformance(a)
    BY <2>1 DEF ReadPerformance, Typed, RequestsTyped, AdminRows
  <2>2. ASSUME NEW step, step # "link", AdminGoes(a, step) \/ AdminEnds(a)
        PROVE  admin'[a].pc # "link" /\ \A b \in Admins : b # a => admin'[b] = admin[b]
    BY <2>2, AdminWent, AdminEnded
  <2>3. CASE ~ReadPerformance(a)
    <3>1. \/ AdminEnds(a) \/ AdminGoes(a, "reconcile") \/ AdminGoes(a, "check")
          \/ AdminGoes(a, "assessed") \/ AdminGoes(a, "read") \/ AdminGoes(a, "total")
          \/ AdminGoes(a, "load") \/ AdminGoes(a, "issue")
      BY <2>3 DEF AdminStep, CaughtFailure, FailCycle, CancelBillingCycle,
         BeginReconciling, Reconcile, CheckAssessments, SaveAssessment, UpdateTotal,
         CycleAssessed, LoadForInvoice, CloseCycle, CalculationReturns
    <3> QED BY <2>2, <3>1
  <2> QED BY <2>1, <2>3
<1> QED BY <1>3, <1>4, UsedKept, FreshKept

\* A checkout goes on with its invoice, or ends.
LEMMA CustWent ==
  ASSUME Typed, NEW c \in Customers, NEW step, CustGoes(c, step) \/ CustEnds(c)
  PROVE  /\ \A b \in Customers : b # c => cust'[b] = cust[b]
         /\ cust'[c].pc = "idle" \/ (cust'[c].pc = step /\ cust'[c].inv = cust[c].inv)
<1>0. cust[c] \in CustRows BY DEF Typed, RequestsTyped
<1>1. CASE CustEnds(c) BY <1>1 DEF CustEnds, CustIdle, Typed, RequestsTyped
<1>2. CASE CustGoes(c, step) BY <1>0, <1>2 DEF CustGoes, Typed, RequestsTyped, CustRows
<1> QED BY <1>1, <1>2

\* The steps of a checkout: its session is for the invoice it holds.
LEMMA CustomerSpreads ==
  ASSUME Typed, RefInv, NEW c \in Customers, CustomerStep(c)
  PROVE  Spreads
<1>0. cust[c] \in CustRows /\ cust[c].pc # "idle"
  BY DEF Typed, RequestsTyped, CustomerStep, Claim, CreateSession, CheckoutFails,
         SafetyNetReads, SafetyNetReleases, SaveReference, CustAt
<1>1. UNCHANGED assess
  BY DEF CustomerStep, Claim, CreateSession, CheckoutFails, SafetyNetReads, SafetyNetReleases,
         SaveReference, store
<1>2. CASE CreateSession(c)
  <2>1. PICK i \in Invoices : i = cust[c].inv BY <1>0 DEF RefInv, CustSound
  <2>2. Len(sessions) \in Nat BY DEF Typed, RowsTyped
  <2>3. PICK n \in Nat : n = Len(sessions) + 1 BY <2>2
  <2> DEFINE e == [invoice |-> i, amount |-> invoices[i].amount, status |-> "OPEN",
                   given |-> FALSE, acked |-> FALSE]
  <2>4. sessions' = Append(sessions, e) BY <1>2, <2>1 DEF CreateSession
  <2>5. e.invoice = i OBVIOUS
  <2> HIDE DEF e
  <2>6. Len(sessions') = n /\ sessions'[n] = e /\ \A j \in Sessions : sessions'[j] = sessions[j]
    BY <2>3, <2>4 DEF Sessions, Typed, RowsTyped
  <2>7. \A s \in Sessions' : s \in Sessions \/ s = n BY <2>2, <2>3, <2>6 DEF Sessions
  <2>8. /\ \A b \in Customers : b # c => cust'[b] = cust[b]
        /\ cust'[c].inv = cust[c].inv
    BY <1>0, <1>2 DEF CreateSession, Typed, RequestsTyped, CustRows
  <2>9. \A s \in Sessions' :
          \/ s \in Sessions /\ sessions'[s].invoice = sessions[s].invoice
          \/ cust[c].pc # "idle" /\ sessions'[s].invoice = cust[c].inv
    BY <1>0, <2>1, <2>5, <2>6, <2>7
  <2> QED BY <1>0, <1>1, <2>8, <2>9 DEF Spreads
<1>3. CASE ~CreateSession(c)
  <2>1. \/ CustEnds(c) \/ CustGoes(c, "call") \/ CustGoes(c, "net") \/ CustGoes(c, "release")
    BY <1>3 DEF CustomerStep, Claim, CheckoutFails, SafetyNetReads, SafetyNetReleases,
                SaveReference
  <2>2. /\ \A b \in Customers : b # c => cust'[b] = cust[b]
        /\ cust'[c].pc = "idle" \/ cust'[c].inv = cust[c].inv
    BY <2>1, CustWent
  <2>3. Sessions' = Sessions /\ \A s \in Sessions : sessions'[s].invoice = sessions[s].invoice
    <3>1. CASE UNCHANGED sessions BY <3>1 DEF Sessions
    <3>2. CASE SaveReference(c)
      <4>1. PICK t \in Sessions : t = cust[c].session
        BY <3>2 DEF SaveReference, CustAt, RefInv, CustSound
      <4>2. sessions[t] \in SessionRows BY DEF Typed, RowsTyped, Sessions
      <4>3. sessions' = [sessions EXCEPT ![t].given = TRUE] BY <3>2, <4>1 DEF SaveReference
      <4>4. Len(sessions') = Len(sessions) BY <4>3 DEF Typed, RowsTyped
      <4>5. \A s \in Sessions : sessions'[s].invoice = sessions[s].invoice
        BY <4>2, <4>3 DEF Typed, RowsTyped, Sessions, SessionRows
      <4> QED BY <4>4, <4>5 DEF Sessions
    <3> QED
      BY <1>3, <3>1, <3>2 DEF CustomerStep, Claim, CheckoutFails, SafetyNetReads,
         SafetyNetReleases, store
  <2> QED BY <1>0, <1>1, <2>2, <2>3 DEF Spreads
<1> QED BY <1>2, <1>3

\* What the provider and the webhooks do to sessions makes no new one.
LEMMA SessionsStay ==
  ASSUME Typed, NEW s, NEW x,
         \/ UNCHANGED sessions
         \/ sessions' = [sessions EXCEPT ![s].acked = x]
         \/ sessions' = [sessions EXCEPT ![s].status = x]
  PROVE  Sessions' = Sessions
BY DEF Typed, RowsTyped, Sessions

\* The steps of the webhooks use no invoice that was not used.
LEMMA HookSpreads ==
  ASSUME Typed, RefInv, StepSound, NEW d \in Deliverers, HookStep(d) \/ WebhookFails(d)
  PROVE  Spreads /\ UNCHANGED admin
<1>1. UNCHANGED <<cust, admin>>
  BY DEF HookStep, FindTransaction, MarkFailed, MarkSucceeded, PayInvoice, ReadAssessment,
         MarkPaid, AddFeePaid, HookReadsPerformance, UpdateHighWaterMark, FinishWebhook,
         WebhookFails
<1>2. UNCHANGED sessions \/ sessions' = [sessions EXCEPT ![hook[d].session].acked = TRUE]
  BY DEF HookStep, FindTransaction, MarkFailed, MarkSucceeded, PayInvoice, ReadAssessment,
         MarkPaid, AddFeePaid, HookReadsPerformance, UpdateHighWaterMark, FinishWebhook,
         WebhookFails
<1>3. PICK s : s = hook[d].session OBVIOUS
<1>4. Sessions' = Sessions BY <1>2, <1>3, SessionsStay
<1>5. \A t \in Sessions : sessions'[t].invoice = sessions[t].invoice
  BY DEF StepSound, Grow, SessionsGrow
<1>6. \A p \in Periods : assess'[p].invoice = assess[p].invoice
  <2>1. CASE UNCHANGED assess BY <2>1
  <2>2. CASE MarkPaid(d)
    <3>1. PICK q \in Periods : q = hook[d].period BY DEF Typed, RequestsTyped, HookRows
    <3>2. assess[q] \in AssessRows BY DEF Typed, RowsTyped
    <3> QED BY <2>2, <3>1, <3>2 DEF MarkPaid, Typed, RowsTyped, AssessRows
  <2> QED
    BY <2>1, <2>2 DEF HookStep, FindTransaction, MarkFailed, MarkSucceeded, PayInvoice,
       ReadAssessment, AddFeePaid, HookReadsPerformance, UpdateHighWaterMark, FinishWebhook,
       WebhookFails, store
<1> QED BY <1>1, <1>4, <1>5, <1>6 DEF Spreads

\* Every step keeps unlinked invoices fresh.
LEMMA NextFresh ==
  ASSUME Typed, RefInv, StepSound, FreshInv, [Next]_vars
  PROVE  FreshInv'
<1>0. ASSUME Spreads, UNCHANGED admin PROVE FreshInv' BY <1>0, UsedKept, FreshKept
<1>1. ASSUME UNCHANGED <<assess, cust>>, Sessions' = Sessions PROVE Spreads
  <2>1. \A s \in Sessions : sessions'[s].invoice = sessions[s].invoice
    BY DEF StepSound, Grow, SessionsGrow
  <2> QED BY <1>1, <2>1 DEF Spreads
<1>2. CASE UNCHANGED vars BY <1>0, <1>1, <1>2 DEF vars, store, Sessions
<1>3. CASE BillingRequest
  <2>1. Spreads
    BY <1>1, <1>3 DEF BillingRequest, CreateBillingCycle, OpenCycle, CallFeeService, store, Sessions
  <2>2. \A a \in Admins : admin'[a].pc = "link" => admin'[a] = admin[a]
    BY <1>3 DEF BillingRequest, CreateBillingCycle, OpenCycle, CallFeeService, Typed,
       RequestsTyped, AdminIdle
  <2> QED BY <2>1, <2>2, UsedKept, FreshKept
<1>4. ASSUME NEW a \in Admins, AdminStep(a) \/ CaughtFailure(a) PROVE FreshInv'
  BY <1>4, AdminFresh, IssueFresh, LinkFresh
<1>5. ASSUME NEW c \in Customers, CustomerStep(c) PROVE FreshInv'
  <2>1. UNCHANGED admin
    BY <1>5 DEF CustomerStep, Claim, CreateSession, CheckoutFails, SafetyNetReads,
                SafetyNetReleases, SaveReference
  <2> QED BY <1>0, <1>5, <2>1, CustomerSpreads
<1>6. ASSUME NEW c \in Customers, NEW i \in Invoices, LoadPayable(c, i) PROVE FreshInv'
  <2>1. UNCHANGED <<assess, sessions, admin>> /\ Sessions' = Sessions
    BY <1>6 DEF LoadPayable, store, Sessions
  <2>2. /\ \A b \in Customers : b # c => cust'[b] = cust[b]
        /\ cust'[c].inv = i /\ \E p \in Periods : assess[p].invoice = i
    BY <1>6 DEF LoadPayable, Typed, RequestsTyped
  <2>3. Spreads BY <2>1, <2>2 DEF Spreads
  <2> QED BY <1>0, <2>1, <2>3
<1>7. ASSUME NEW s \in Sessions, SessionEnds(s) PROVE FreshInv'
  <2>1. Sessions' = Sessions BY <1>7, SessionsStay DEF SessionEnds
  <2> QED BY <1>0, <1>1, <1>7, <2>1 DEF SessionEnds, store
<1>8. ASSUME NEW s \in Sessions, NEW d \in Deliverers, Deliver(d, s) PROVE FreshInv'
  <2>1. Sessions' = Sessions BY <1>8, SessionsStay DEF Deliver
  <2> QED BY <1>0, <1>1, <1>8, <2>1 DEF Deliver, store
<1>9. ASSUME NEW d \in Deliverers, HookStep(d) \/ WebhookFails(d) PROVE FreshInv'
  BY <1>0, <1>9, HookSpreads
<1>10. CASE Crash
  <2>1. UNCHANGED <<assess, sessions>> /\ Sessions' = Sessions BY <1>10 DEF Crash, store, Sessions
  <2>2. Spreads
    <3>1. CASE UNCHANGED cust BY <1>1, <2>1, <3>1
    <3>2. ASSUME NEW c \in Customers, CustEnds(c) PROVE Spreads
      <4>1. \A b \in Customers : b # c => cust'[b] = cust[b] BY <3>2, CustWent
      <4>2. cust'[c].pc = "idle" BY <3>2 DEF CustEnds, CustIdle, Typed, RequestsTyped
      <4> QED BY <2>1, <4>1, <4>2 DEF Spreads
    <3> QED BY <1>10, <3>1, <3>2 DEF Crash
  <2>3. \A a \in Admins : admin'[a].pc = "link" => admin'[a] = admin[a]
    <3>1. ASSUME NEW a \in Admins, AdminEnds(a)
          PROVE  \A b \in Admins : admin'[b].pc = "link" => admin'[b] = admin[b]
      BY <3>1, AdminEnded
    <3> QED BY <1>10, <3>1 DEF Crash
  <2> QED BY <2>2, <2>3, UsedKept, FreshKept
<1> QED BY <1>2, <1>3, <1>4, <1>5, <1>6, <1>7, <1>8, <1>9, <1>10 DEF Next

\* An invoice that an admin is about to link is referred to by no row and by no
\* other request.
LEMMA LinksAreFresh == Spec => []FreshInv
<1>1. Init => FreshInv
  <2> SUFFICES ASSUME Init PROVE FreshInv OBVIOUS
  <2>1. Linking = {} BY DEF Init, AdminIdle, Linking
  <2> QED BY <2>1 DEF FreshInv
<1>2. Typed /\ RefInv /\ FreshInv /\ [Next]_vars => FreshInv'
  <2> SUFFICES ASSUME Typed, RefInv, FreshInv, [Next]_vars PROVE FreshInv' OBVIOUS
  <2>1. StepSound BY NextSound, StutterSound
  <2> QED BY <2>1, NextFresh
<1> QED BY <1>1, <1>2, SoundAlways, PTL DEF Spec

-----------------------------------------------------------------------------
(* How often a payment is entered.                                           *)

\* The requests that are about to enter the payment of session s.
AtWork(s) == {d \in Deliverers : hook[d].pc \in Entering /\ hook[d].session = s}
\* One request at a time works on an event, but for those sent meanwhile, and
\* none of them enters the payment twice.
Counts(s) ==
    /\ Cardinality(Processing(s)) <= 1 + again[s]
    /\ feePaid[s] + Cardinality(AtWork(s)) <= 1 + again[s]
CountInv == \A s \in 1 .. MaxSessions : Counts(s)

\* No assessment is left for the next delivery of the event to pay.
PaidFor(s) ==
    \A p \in Periods : assess[p].invoice = sessions[s].invoice => assess[p].status = "PAID"
Settled(s) ==
    feePaid[s] # 0 \/ \E d \in Deliverers : hook[d].pc = "entry" /\ hook[d].session = s
SettledInv == \A s \in Sessions : Settled(s) => PaidFor(s)

\* The requests can be counted.
LEMMA WorkersFinite ==
  ASSUME NEW S, S \subseteq Deliverers
  PROVE  /\ IsFiniteSet(S) /\ Cardinality(S) \in Nat
         /\ \A T : T \subseteq S => Cardinality(T) <= Cardinality(S) /\ Cardinality(T) \in Nat
<1>1. IsFiniteSet(S) BY AccountIsWellFormed, FS_Subset
<1>2. ASSUME NEW T, T \subseteq S PROVE Cardinality(T) <= Cardinality(S) /\ Cardinality(T) \in Nat
  BY <1>1, <1>2, FS_Subset, FS_CardinalityType
<1> QED BY <1>1, <1>2, FS_CardinalityType

\* A busy webhook keeps its session, and comes to the entry from the step
\* before, or while nothing is entered.
BusyStays(d) == hook'[d].pc # "idle" => hook[d].pc # "idle" /\ hook'[d].session = hook[d].session
EntersWell(d) == hook'[d].pc \in Entering => hook[d].pc \in Entering \/ feePaid[hook[d].session] = 0

\* Who works on session s after a step.
LEMMA WorkersKept ==
  ASSUME NEW s, \A d \in Deliverers : BusyStays(d) /\ EntersWell(d)
  PROVE  /\ Processing(s)' \subseteq Processing(s)
         /\ AtWork(s)' \subseteq Processing(s)
         /\ feePaid[s] # 0 => AtWork(s)' \subseteq AtWork(s)
<1>1. Processing(s)' = {e \in Deliverers : hook'[e].pc # "idle" /\ hook'[e].session = s}
  BY DEF Processing, HookAt
<1>2. Processing(s) = {e \in Deliverers : hook[e].pc # "idle" /\ hook[e].session = s}
  BY DEF Processing, HookAt
<1>3. AtWork(s)' = {e \in Deliverers : hook'[e].pc \in Entering /\ hook'[e].session = s}
  BY DEF AtWork
<1>4. ASSUME NEW d \in Deliverers, hook'[d].pc # "idle", hook'[d].session = s
      PROVE  hook[d].pc # "idle" /\ hook[d].session = s
  BY <1>4 DEF BusyStays
<1>5. "idle" \notin Entering BY DEF Entering
<1>6. ASSUME feePaid[s] # 0, NEW d \in Deliverers, hook'[d].pc \in Entering, hook'[d].session = s
      PROVE  hook[d].pc \in Entering
  BY <1>4, <1>5, <1>6 DEF EntersWell
<1> QED BY <1>1, <1>2, <1>3, <1>4, <1>5, <1>6 DEF AtWork

\* Steps that enter nothing and deliver nothing.
LEMMA CountsKept ==
  ASSUME Typed, CountInv, UNCHANGED <<feePaid, again>>,
         \A d \in Deliverers : BusyStays(d) /\ EntersWell(d)
  PROVE  CountInv'
<1> SUFFICES ASSUME NEW s \in 1 .. MaxSessions PROVE Counts(s)' BY DEF CountInv
<1>1. PICK P, W : P = Processing(s)' /\ W = AtWork(s)' OBVIOUS
<1>2. P \subseteq Processing(s) /\ W \subseteq Processing(s) /\ (feePaid[s] # 0 => W \subseteq AtWork(s))
  BY <1>1, WorkersKept
<1>3. Processing(s) \subseteq Deliverers /\ AtWork(s) \subseteq Deliverers BY DEF Processing, AtWork
<1>4. /\ Cardinality(P) <= Cardinality(Processing(s)) /\ Cardinality(P) \in Nat
      /\ Cardinality(W) <= Cardinality(Processing(s)) /\ Cardinality(W) \in Nat
      /\ Cardinality(Processing(s)) \in Nat /\ Cardinality(AtWork(s)) \in Nat
      /\ feePaid[s] # 0 => Cardinality(W) <= Cardinality(AtWork(s))
  BY <1>2, <1>3, WorkersFinite
<1>5. feePaid[s] \in Nat /\ again[s] \in Nat BY DEF Typed, BooksTyped
<1>6. /\ Cardinality(Processing(s)) <= 1 + again[s]
      /\ feePaid[s] + Cardinality(AtWork(s)) <= 1 + again[s]
  BY DEF CountInv, Counts
<1>7. Cardinality(P) <= 1 + again[s] BY <1>4, <1>5, <1>6
<1>8. feePaid[s] + Cardinality(W) <= 1 + again[s]
  <2>1. CASE feePaid[s] = 0 BY <1>4, <1>5, <1>6, <2>1
  <2>2. CASE feePaid[s] # 0 BY <1>4, <1>5, <1>6, <2>2
  <2> QED BY <2>1, <2>2
<1>9. Cardinality(Processing(s)') = Cardinality(P) /\ Cardinality(AtWork(s)') = Cardinality(W)
  BY <1>1
<1> QED BY <1>7, <1>8, <1>9 DEF Counts

\* The assessments of a session's invoice stay paid.
PaidKept == \A s \in Sessions : PaidFor(s) => PaidFor(s)'

\* An assessment that is written keeps its payment, or goes to an invoice that
\* no session is for.
LEMMA AssessmentsKept ==
  ASSUME StepSound,
         \A p \in Periods :
             \/ /\ assess'[p].invoice = assess[p].invoice
                /\ assess[p].status = "PAID" => assess'[p].status = "PAID"
             \/ \A s \in Sessions : sessions[s].invoice # assess'[p].invoice
  PROVE  PaidKept
<1> SUFFICES ASSUME NEW s \in Sessions, PaidFor(s), NEW p \in Periods,
                    assess'[p].invoice = sessions'[s].invoice
             PROVE  assess'[p].status = "PAID"
  BY DEF PaidKept, PaidFor
<1>1. sessions'[s].invoice = sessions[s].invoice BY DEF StepSound, Grow, SessionsGrow
<1> QED BY <1>1 DEF PaidFor

\* Steps that settle nothing anew.
LEMMA SettledKept ==
  ASSUME Typed, RefInv, EntriesPaid, SettledInv, PaidKept, StepSound,
         \A s \in Sessions : Settled(s)' => Settled(s) \/ PaidFor(s)',
         \A s \in 1 .. MaxSessions : Settled(s)' => s \in Sessions
  PROVE  SettledInv'
<1> SUFFICES ASSUME NEW s \in Sessions', Settled(s)' PROVE PaidFor(s)'
  BY DEF SettledInv
<1>1. s \in 1 .. MaxSessions
  BY BillingBoundsAreNaturals DEF StepSound, Typed, RowsTyped, Sessions
<1>2. s \in Sessions BY <1>1
<1>3. CASE PaidFor(s)' BY <1>3
<1>4. CASE Settled(s) BY <1>2, <1>4 DEF SettledInv, PaidKept
<1> QED BY <1>2, <1>3, <1>4

\* Whoever is settled is a session.
LEMMA SettledIsSession ==
  ASSUME Typed, RefInv, EntriesPaid, NEW s \in 1 .. MaxSessions, Settled(s)
  PROVE  s \in Sessions
<1>1. ASSUME NEW d \in Deliverers, hook[d].pc = "entry", hook[d].session = s PROVE s \in Sessions
  BY <1>1, BusyHook
<1> QED BY <1>1 DEF Settled, EntriesPaid

\* Webhooks that move on as they do, entering nothing.
LEMMA EntryKept ==
  ASSUME Typed, RefInv, EntriesPaid, StepSound, CountInv, SettledInv, PaidKept,
         UNCHANGED <<feePaid, again>>,
         \A d \in Deliverers : BusyStays(d) /\ EntersWell(d),
         \A d \in Deliverers : hook'[d].pc = "entry" => hook[d].pc = "entry"
  PROVE  CountInv' /\ SettledInv'
<1>1. CountInv' BY CountsKept
<1>2. ASSUME NEW s, Settled(s)' PROVE Settled(s)
  <2>1. CASE feePaid'[s] # 0 BY <2>1 DEF Settled
  <2>2. ASSUME NEW d \in Deliverers, hook'[d].pc = "entry", hook'[d].session = s PROVE Settled(s)
    BY <2>2 DEF Settled, BusyStays
  <2> QED BY <1>2, <2>1, <2>2 DEF Settled
<1>3. SettledInv' BY <1>2, SettledIsSession, SettledKept
<1> QED BY <1>1, <1>3

\* A webhook that moves, or ends, without an entry.
LEMMA HookEntry ==
  ASSUME Typed, RefInv, EntriesPaid, StepSound, CountInv, SettledInv, PaidKept,
         UNCHANGED <<feePaid, again>>, NEW d \in Deliverers,
         \A e \in Deliverers : e # d => hook'[e] = hook[e],
         BusyStays(d), EntersWell(d), hook'[d].pc # "entry"
  PROVE  CountInv' /\ SettledInv'
<1>1. \A e \in Deliverers : BusyStays(e) /\ EntersWell(e) BY DEF BusyStays, EntersWell
<1>2. \A e \in Deliverers : hook'[e].pc = "entry" => hook[e].pc = "entry" OBVIOUS
<1> QED BY <1>1, <1>2, EntryKept

\* Steps that leave webhooks and entries alone.
LEMMA EntryStill ==
  ASSUME Typed, RefInv, EntriesPaid, StepSound, CountInv, SettledInv, PaidKept,
         UNCHANGED <<feePaid, again, hook>>
  PROVE  CountInv' /\ SettledInv'
<1>1. \A e \in Deliverers : BusyStays(e) /\ EntersWell(e) BY DEF BusyStays, EntersWell
<1> QED BY <1>1, EntryKept

\* Assessments that nobody writes.
LEMMA UnwrittenKept ==
  ASSUME StepSound, UNCHANGED assess
  PROVE  PaidKept
BY AssessmentsKept

\* The requests of an admin: a new assessment has no invoice, and an invoice is
\* linked before any session is for it.
LEMMA AdminEntry ==
  ASSUME Typed, RefInv, FreshInv, StepSound, NEW a \in Admins, AdminStep(a) \/ CaughtFailure(a)
  PROVE  PaidKept /\ UNCHANGED <<feePaid, again, hook>>
<1>1. UNCHANGED <<feePaid, again, hook>>
  BY DEF AdminStep, CaughtFailure, FailCycle, CancelBillingCycle, BeginReconciling, Reconcile,
         CheckAssessments, ReadPerformance, SaveAssessment, UpdateTotal, CycleAssessed,
         LoadForInvoice, IssueInvoice, LinkInvoice, CloseCycle, store, budgets
<1>2. PICK q \in Periods : q = admin[a].period BY DEF Typed, RequestsTyped, AdminRows
<1>3. \A s \in Sessions : sessions[s].invoice # 0 BY DEF RefInv, SessionSound, Invoices
<1>4. \/ UNCHANGED assess
      \/ /\ \A p \in Periods : p # q => assess'[p] = assess[p]
         /\ \A s \in Sessions : sessions[s].invoice # assess'[q].invoice
  <2>1. CASE SaveAssessment(a)
    <3>1. CASE FailCycle(a) BY <3>1 DEF FailCycle
    <3>2. CASE assess' = [assess EXCEPT ![q] = Assessed(a)]
      <4>1. Assessed(a).invoice = 0 BY AssessedTyped
      <4> QED BY <1>3, <3>2, <4>1 DEF Typed, RowsTyped
    <3> QED BY <1>2, <2>1, <3>1, <3>2 DEF SaveAssessment
  <2>2. CASE LinkInvoice(a)
    <3>1. assess[q] \in AssessRows BY DEF Typed, RowsTyped
    <3>2. assess'[q].invoice = admin[a].inv /\ \A p \in Periods : p # q => assess'[p] = assess[p]
      BY <1>2, <2>2, <3>1 DEF LinkInvoice, Typed, RowsTyped, AssessRows
    <3>3. a \in Linking BY <2>2 DEF LinkInvoice, AdminAt, Linking
    <3>4. \A s \in Sessions : sessions[s].invoice \in Used BY DEF Used
    <3> QED BY <3>2, <3>3, <3>4 DEF FreshInv
  <2>3. CASE ~SaveAssessment(a) /\ ~LinkInvoice(a)
    BY <2>3 DEF AdminStep, CaughtFailure, FailCycle, CancelBillingCycle, BeginReconciling,
       Reconcile, CheckAssessments, ReadPerformance, UpdateTotal, CycleAssessed,
       LoadForInvoice, IssueInvoice, CloseCycle, store
  <2> QED BY <2>1, <2>2, <2>3
<1>5. PaidKept BY <1>4, AssessmentsKept
<1> QED BY <1>1, <1>5

\* A webhook goes on with an assessment of its invoice that is not PAID.
LEMMA ReadAssessmentUnpaid ==
  ASSUME Typed, NEW d \in Deliverers, ReadAssessment(d), hook'[d].pc = "paid"
  PROVE  \E p \in Periods : assess[p].invoice = hook[d].inv /\ assess[p].status # "PAID"
<1> DEFINE Unpaid == {p \in Periods : assess[p].invoice = hook[d].inv /\ assess[p].status # "PAID"}
           pc == IF Unpaid = {} THEN "finish" ELSE "paid"
           per == IF Unpaid = {} THEN 1 ELSE CHOOSE p \in Unpaid : TRUE
           m == [hook[d] EXCEPT !.pc = pc, !.period = per]
<1>0. hook[d] \in HookRows /\ hook \in [Deliverers -> HookRows] BY DEF Typed, RequestsTyped
<1>1. hook' = [hook EXCEPT ![d].pc = pc, ![d].period = per] BY DEF ReadAssessment
<1>2. pc = "paid" => Unpaid # {} OBVIOUS
<1> HIDE DEF pc, per
<1>3. hook' = [hook EXCEPT ![d] = m] BY <1>0, <1>1 DEF HookRows
<1>4. m.pc = pc BY <1>0 DEF HookRows
<1> HIDE DEF m
<1>5. pc = "paid" BY <1>0, <1>3, <1>4
<1> QED BY <1>2, <1>5

\* Hence its session's payment is not entered yet.
LEMMA UnpaidUnentered ==
  ASSUME Typed, RefInv, SettledInv, NEW d \in Deliverers, ReadAssessment(d), hook'[d].pc = "paid"
  PROVE  feePaid[hook[d].session] = 0
<1>1. hook[d].pc = "assessment" BY DEF ReadAssessment, HookAt
<1>2. /\ hook[d].session \in Sessions
      /\ sessions[hook[d].session].invoice = hook[d].inv
  BY <1>1, BusyHook DEF HookHolds, Settling
<1>3. ~PaidFor(hook[d].session) BY <1>2, ReadAssessmentUnpaid DEF PaidFor
<1> QED BY <1>2, <1>3 DEF SettledInv, Settled

\* The transaction is looked up: no step towards an entry.
LEMMA FindWent ==
  ASSUME Typed, NEW d \in Deliverers, FindTransaction(d)
  PROVE  hook'[d].pc # "paid"
<1> DEFINE Found == {i \in Invoices : invoices[i].ref = hook[d].session}
           pc == IF Found = {} THEN "finish"
                 ELSE IF sessions[hook[d].session].status = "FAILED" THEN "fail"
                 ELSE IF \E i \in Found : amountMatches(hook[d].session, i) THEN "succeed"
                 ELSE "finish"
           inv == IF Found = {} THEN 0 ELSE CHOOSE i \in Found : TRUE
<1>1. hook' = [hook EXCEPT ![d].pc = pc, ![d].inv = inv] BY DEF FindTransaction
<1>2. pc # "paid" OBVIOUS
<1> HIDE DEF pc, inv
<1>3. hook'[d].pc = pc BY <1>1, HookFields DEF Typed, RequestsTyped, HookRows
<1> QED BY <1>2, <1>3

\* MarkPaid settles the session of the request.
LEMMA MarkPaidEntry ==
  ASSUME Typed, RefInv, EntriesPaid, StepSound, CountInv, SettledInv,
         NEW d \in Deliverers, MarkPaid(d)
  PROVE  CountInv' /\ SettledInv'
<1>1. UNCHANGED <<feePaid, again, sessions>> /\ hook[d].pc = "paid" BY DEF MarkPaid, HookAt, budgets
<1>2. PICK p \in Periods : p = hook[d].period BY DEF Typed, RequestsTyped, HookRows
<1>3. assess[p] \in AssessRows BY DEF Typed, RowsTyped
<1>4. /\ assess'[p].status = "PAID" /\ assess'[p].invoice = assess[p].invoice
      /\ \A q \in Periods : q # p => assess'[q] = assess[q]
  BY <1>2, <1>3 DEF MarkPaid, Typed, RowsTyped, AssessRows
<1>5. PaidKept BY <1>4, AssessmentsKept
<1>6. /\ hook'[d].pc = "entry" /\ hook'[d].session = hook[d].session
      /\ \A e \in Deliverers : e # d => hook'[e] = hook[e]
  BY HookWent DEF MarkPaid
<1>7. \A e \in Deliverers : BusyStays(e) /\ EntersWell(e)
  BY <1>1, <1>6 DEF BusyStays, EntersWell, Entering
<1>8. CountInv' BY <1>1, <1>7, CountsKept
<1>9. PICK t \in Sessions : t = hook[d].session BY <1>1, BusyHook
<1>10. /\ sessions[t].invoice = hook[d].inv /\ hook[d].inv \in Invoices /\ hook[d].inv # 0
       /\ invoices[hook[d].inv].period = p
  BY <1>1, <1>2, <1>9, BusyHook DEF HookHolds, Settling, Entering, Invoices
<1>11. \A q \in Periods : assess[q].invoice = hook[d].inv => q = p
  BY <1>10 DEF RefInv, AssessSound
<1>12. PaidFor(t)' BY <1>1, <1>4, <1>10, <1>11 DEF PaidFor
<1>13. ASSUME NEW s \in 1 .. MaxSessions, Settled(s)' PROVE Settled(s) \/ s = t
  <2>1. CASE feePaid'[s] # 0 BY <1>1, <2>1 DEF Settled
  <2>2. ASSUME NEW e \in Deliverers, hook'[e].pc = "entry", hook'[e].session = s
        PROVE  Settled(s) \/ s = t
    BY <1>6, <1>9, <2>2 DEF Settled
  <2> QED BY <1>13, <2>1, <2>2 DEF Settled
<1>14. \A s \in 1 .. MaxSessions : Settled(s)' => s \in Sessions BY <1>9, <1>13, SettledIsSession
<1>15. \A s \in Sessions : s \in 1 .. MaxSessions
  BY BillingBoundsAreNaturals DEF Typed, RowsTyped, Sessions
<1>16. ASSUME NEW s \in Sessions, Settled(s)' PROVE Settled(s) \/ PaidFor(s)'
  <2>1. Settled(s) \/ s = t BY <1>13, <1>15, <1>16
  <2> QED BY <1>12, <2>1
<1>17. SettledInv' BY <1>5, <1>14, <1>16, SettledKept
<1> QED BY <1>8, <1>17

\* The entry is made: one request less is about to make it.
LEMMA AddFeePaidEntry ==
  ASSUME Typed, RefInv, EntriesPaid, StepSound, CountInv, SettledInv,
         NEW d \in Deliverers, AddFeePaid(d)
  PROVE  CountInv' /\ SettledInv'
<1>1. UNCHANGED <<again, sessions, assess>> /\ hook[d].pc = "entry" BY DEF AddFeePaid, HookAt, budgets
<1>2. PICK t \in Sessions : t = hook[d].session BY <1>1, BusyHook
<1>3. t \in 1 .. MaxSessions BY <1>2, BillingBoundsAreNaturals DEF Typed, RowsTyped, Sessions
<1>4. /\ hook'[d].pc = "performance" /\ hook'[d].session = hook[d].session
      /\ \A e \in Deliverers : e # d => hook'[e] = hook[e]
  BY HookWent DEF AddFeePaid
<1>5. /\ feePaid \in [1 .. MaxSessions -> Nat] /\ again \in [1 .. MaxSessions -> Nat]
      /\ feePaid'[t] = feePaid[t] + 1 /\ \A s \in 1 .. MaxSessions : s # t => feePaid'[s] = feePaid[s]
  BY <1>2, <1>3 DEF AddFeePaid, Typed, BooksTyped
<1>6. ASSUME NEW s \in 1 .. MaxSessions PROVE Counts(s)'
  <2>1. Processing(s)' = {e \in Deliverers : hook'[e].pc # "idle" /\ hook'[e].session = s}
    BY DEF Processing, HookAt
  <2>2. Processing(s) = {e \in Deliverers : hook[e].pc # "idle" /\ hook[e].session = s}
    BY DEF Processing, HookAt
  <2>3. Processing(s)' = Processing(s) BY <1>1, <1>4, <2>1, <2>2
  <2>4. AtWork(s)' = {e \in Deliverers : hook'[e].pc \in Entering /\ hook'[e].session = s}
    BY DEF AtWork
  <2>5. AtWork(s)' = AtWork(s) \ {d} BY <1>4, <2>4 DEF AtWork, Entering
  <2>6. PICK W, W2 : W = AtWork(s) /\ W2 = W \ {d} OBVIOUS
  <2>7. W \subseteq Deliverers BY <2>6 DEF AtWork
  <2>8. IsFiniteSet(W) /\ Cardinality(W) \in Nat BY <2>7, WorkersFinite
  <2>9. feePaid'[s] + Cardinality(W2) = feePaid[s] + Cardinality(W)
    <3>1. CASE s = t
      <4>1. d \in W BY <1>1, <1>2, <2>6, <3>1 DEF AtWork, Entering
      <4>2. Cardinality(W2) = Cardinality(W) - 1 BY <2>6, <2>8, <4>1, FS_RemoveElement
      <4> QED BY <1>3, <1>5, <2>8, <3>1, <4>2
    <3>2. CASE s # t
      <4>1. W2 = W BY <1>2, <2>6, <3>2 DEF AtWork
      <4> QED BY <1>5, <3>2, <4>1
    <3> QED BY <3>1, <3>2
  <2>10. /\ Cardinality(Processing(s)) <= 1 + again[s]
         /\ feePaid[s] + Cardinality(W) <= 1 + again[s]
    BY <2>6 DEF CountInv, Counts
  <2>11. Cardinality(AtWork(s)') = Cardinality(W2) BY <2>5, <2>6
  <2>12. Cardinality(Processing(s)') = Cardinality(Processing(s)) BY <2>3
  <2> QED BY <1>1, <2>9, <2>10, <2>11, <2>12 DEF Counts
<1>7. CountInv' BY <1>6 DEF CountInv
<1>8. ASSUME NEW s \in 1 .. MaxSessions, Settled(s)' PROVE Settled(s)
  <2>1. CASE s = t BY <1>1, <1>2, <2>1 DEF Settled
  <2>2. CASE s # t
    <3>1. CASE feePaid'[s] # 0 BY <1>5, <2>2, <3>1 DEF Settled
    <3>2. ASSUME NEW e \in Deliverers, hook'[e].pc = "entry", hook'[e].session = s PROVE Settled(s)
      BY <1>4, <3>2 DEF Settled
    <3> QED BY <1>8, <3>1, <3>2 DEF Settled
  <2> QED BY <2>1, <2>2
<1>9. \A s \in 1 .. MaxSessions : Settled(s)' => s \in Sessions BY <1>8, SettledIsSession
<1>10. \A s \in Sessions : s \in 1 .. MaxSessions
  BY BillingBoundsAreNaturals DEF Typed, RowsTyped, Sessions
<1>11. PaidKept BY <1>1, UnwrittenKept
<1>12. \A s \in Sessions : Settled(s)' => Settled(s) \/ PaidFor(s)' BY <1>8, <1>10
<1>13. SettledInv' BY <1>9, <1>11, <1>12, SettledKept
<1> QED BY <1>7, <1>13

\* An event is delivered, also while it is processed.
LEMMA DeliverEntry ==
  ASSUME Typed, RefInv, EntriesPaid, StepSound, CountInv, SettledInv,
         NEW d \in Deliverers, NEW t \in Sessions, Deliver(d, t)
  PROVE  CountInv' /\ SettledInv'
<1>1. UNCHANGED <<feePaid, assess>> /\ hook[d].pc = "idle" BY DEF Deliver, store, HookAt
<1>2. PaidKept BY <1>1, UnwrittenKept
<1>3. CASE UNCHANGED <<hook, again>> BY <1>1, <1>2, <1>3, EntryStill
<1>4. CASE /\ hook' = [hook EXCEPT ![d] = [HookIdle EXCEPT !.pc = "find", !.session = t]]
           /\ \/ Processing(t) = {} /\ UNCHANGED again
              \/ again' = [again EXCEPT ![t] = @ + 1]
  <2>1. /\ hook'[d].pc = "find" /\ hook'[d].session = t
        /\ \A e \in Deliverers : e # d => hook'[e] = hook[e]
    BY <1>4 DEF Typed, RequestsTyped, HookIdle
  <2>2. t \in 1 .. MaxSessions BY BillingBoundsAreNaturals DEF Typed, RowsTyped, Sessions
  <2>3. again \in [1 .. MaxSessions -> Nat] /\ feePaid \in [1 .. MaxSessions -> Nat]
    BY DEF Typed, BooksTyped
  <2>4. /\ again'[t] = again[t] \/ again'[t] = again[t] + 1
        /\ \A s \in 1 .. MaxSessions : s # t => again'[s] = again[s]
        /\ Processing(t) = {} \/ again'[t] = again[t] + 1
    BY <1>4, <2>2, <2>3
  <2>5. ASSUME NEW s \in 1 .. MaxSessions PROVE Counts(s)'
    <3>1. Processing(s)' = {e \in Deliverers : hook'[e].pc # "idle" /\ hook'[e].session = s}
      BY DEF Processing, HookAt
    <3>2. Processing(s) = {e \in Deliverers : hook[e].pc # "idle" /\ hook[e].session = s}
      BY DEF Processing, HookAt
    <3>3. AtWork(s)' = {e \in Deliverers : hook'[e].pc \in Entering /\ hook'[e].session = s}
      BY DEF AtWork
    <3>4. AtWork(s)' = AtWork(s) BY <1>1, <2>1, <3>3 DEF AtWork, Entering
    <3>5. PICK P, P2, W : P = Processing(s) /\ P2 = Processing(s)' /\ W = AtWork(s) OBVIOUS
    <3>6. P \subseteq Deliverers /\ W \subseteq Deliverers BY <3>5 DEF Processing, AtWork
    <3>7. IsFiniteSet(P) /\ Cardinality(P) \in Nat /\ Cardinality(W) \in Nat
      BY <3>6, WorkersFinite
    <3>8. Cardinality(P) <= 1 + again[s] /\ feePaid[s] + Cardinality(W) <= 1 + again[s]
      BY <3>5 DEF CountInv, Counts
    <3>9. Cardinality(P2) <= 1 + again'[s]
      <4>1. CASE s # t
        <5>1. P2 = P BY <1>1, <2>1, <3>1, <3>2, <3>5, <4>1
        <5> QED BY <2>4, <3>8, <4>1, <5>1
      <4>2. CASE s = t
        <5>1. P2 = P \union {d} BY <2>1, <3>1, <3>2, <3>5, <4>2
        <5>2. d \notin P BY <1>1, <3>2, <3>5
        <5>3. Cardinality(P2) = Cardinality(P) + 1 BY <3>7, <5>1, <5>2, FS_AddElement
        <5>4. CASE P = {}
          <6>1. Cardinality(P) = 0 BY <5>4, FS_EmptySet
          <6> QED BY <2>2, <2>3, <2>4, <4>2, <5>3, <6>1
        <5>5. CASE P # {}
          <6>1. again'[s] = again[s] + 1 BY <2>4, <3>5, <4>2, <5>5
          <6> QED BY <2>3, <3>7, <3>8, <5>3, <6>1
        <5> QED BY <5>4, <5>5
      <4> QED BY <4>1, <4>2
    <3>10. feePaid'[s] + Cardinality(W) <= 1 + again'[s]
      <4>1. again[s] <= again'[s] /\ again[s] \in Nat /\ again'[s] \in Nat BY <2>3, <2>4
      <4>2. feePaid'[s] = feePaid[s] /\ feePaid[s] \in Nat BY <1>1, <2>3
      <4> QED BY <3>7, <3>8, <4>1, <4>2
    <3>11. Cardinality(Processing(s)') = Cardinality(P2) /\ Cardinality(AtWork(s)') = Cardinality(W)
      BY <3>4, <3>5
    <3> QED BY <3>9, <3>10, <3>11 DEF Counts
  <2>6. CountInv' BY <2>5 DEF CountInv
  <2>7. ASSUME NEW s, Settled(s)' PROVE Settled(s)
    <3>1. CASE feePaid'[s] # 0 BY <1>1, <3>1 DEF Settled
    <3>2. ASSUME NEW e \in Deliverers, hook'[e].pc = "entry", hook'[e].session = s PROVE Settled(s)
      BY <2>1, <3>2 DEF Settled
    <3> QED BY <2>7, <3>1, <3>2 DEF Settled
  <2>8. SettledInv' BY <1>2, <2>7, SettledIsSession, SettledKept
  <2> QED BY <2>6, <2>8
<1> QED BY <1>3, <1>4 DEF Deliver

\* The steps of a webhook.
LEMMA HookStepEntry ==
  ASSUME Typed, RefInv, EntriesPaid, StepSound, CountInv, SettledInv,
         NEW d \in Deliverers, HookStep(d) \/ WebhookFails(d)
  PROVE  CountInv' /\ SettledInv'
<1>0. hook[d].pc # "idle" /\ UNCHANGED again
  BY DEF HookStep, FindTransaction, MarkFailed, MarkSucceeded, PayInvoice, ReadAssessment,
         MarkPaid, AddFeePaid, HookReadsPerformance, UpdateHighWaterMark, FinishWebhook,
         WebhookFails, HookAt, budgets
<1>1. CASE FindTransaction(d) \/ ReadAssessment(d)
  <2>1. /\ UNCHANGED <<feePaid, assess>>
        /\ hook'[d].pc \in {"finish", "fail", "succeed", "paid"}
        /\ hook'[d].session = hook[d].session
        /\ \A e \in Deliverers : e # d => hook'[e] = hook[e]
    BY <1>1, LookupWent
  <2>2. PaidKept BY <2>1, UnwrittenKept
  <2>3. EntersWell(d)
    <3>1. CASE hook'[d].pc # "paid" BY <2>1, <3>1 DEF EntersWell, Entering
    <3>2. CASE hook'[d].pc = "paid" BY <1>1, <3>2, UnpaidUnentered, FindWent DEF EntersWell
    <3> QED BY <3>1, <3>2
  <2>4. BusyStays(d) BY <1>0, <2>1 DEF BusyStays
  <2> QED BY <1>0, <2>1, <2>2, <2>3, <2>4, HookEntry
<1>2. CASE MarkFailed(d) \/ MarkSucceeded(d) \/ PayInvoice(d) \/ UpdateHighWaterMark(d)
  <2>1. UNCHANGED <<feePaid, assess>>
    BY <1>2 DEF MarkFailed, MarkSucceeded, PayInvoice, UpdateHighWaterMark
  <2>2. HookGoes(d, "finish") \/ HookGoes(d, "pay") \/ HookGoes(d, "assessment")
    BY <1>2 DEF MarkFailed, MarkSucceeded, PayInvoice, UpdateHighWaterMark
  <2>3. /\ hook'[d].pc \in {"finish", "pay", "assessment"} /\ hook'[d].session = hook[d].session
        /\ \A e \in Deliverers : e # d => hook'[e] = hook[e]
    BY <2>2, HookWent
  <2>4. EntersWell(d) /\ BusyStays(d) BY <1>0, <2>3 DEF EntersWell, BusyStays, Entering
  <2> QED BY <1>0, <2>1, <2>3, <2>4, UnwrittenKept, HookEntry
<1>3. CASE MarkPaid(d) BY <1>3, MarkPaidEntry
<1>4. CASE AddFeePaid(d) BY <1>4, AddFeePaidEntry
<1>5. CASE HookReadsPerformance(d)
  <2>1. UNCHANGED <<feePaid, assess>> BY <1>5 DEF HookReadsPerformance, store
  <2>2. hook[d] \in HookRows BY DEF Typed, RequestsTyped
  <2>3. /\ hook'[d].pc = "mark" /\ hook'[d].session = hook[d].session
        /\ \A e \in Deliverers : e # d => hook'[e] = hook[e]
    BY <1>5, <2>2 DEF HookReadsPerformance, Typed, RequestsTyped, HookRows
  <2>4. EntersWell(d) /\ BusyStays(d) BY <1>0, <2>3 DEF EntersWell, BusyStays, Entering
  <2> QED BY <1>0, <2>1, <2>3, <2>4, UnwrittenKept, HookEntry
<1>6. CASE FinishWebhook(d) \/ WebhookFails(d)
  <2>1. UNCHANGED <<feePaid, assess>> /\ hook' = [hook EXCEPT ![d] = HookIdle]
    BY <1>6 DEF FinishWebhook, WebhookFails, store
  <2>2. hook'[d].pc = "idle" /\ \A e \in Deliverers : e # d => hook'[e] = hook[e]
    BY <2>1, HookEnded
  <2>3. EntersWell(d) /\ BusyStays(d) BY <2>2 DEF EntersWell, BusyStays, Entering
  <2> QED BY <1>0, <2>1, <2>2, <2>3, UnwrittenKept, HookEntry
<1> QED BY <1>1, <1>2, <1>3, <1>4, <1>5, <1>6 DEF HookStep

\* Every step keeps the counts.
LEMMA NextEntry ==
  ASSUME Typed, RefInv, EntriesPaid, FreshInv, StepSound, CountInv, SettledInv, [Next]_vars
  PROVE  CountInv' /\ SettledInv'
<1>s. UNCHANGED <<feePaid, hook, assess, again>> => CountInv' /\ SettledInv'
  BY UnwrittenKept, EntryStill
<1>1. CASE UNCHANGED vars BY <1>1, <1>s DEF vars, store, budgets
<1>2. CASE BillingRequest
  BY <1>2, <1>s DEF BillingRequest, CreateBillingCycle, OpenCycle, CallFeeService, store, budgets
<1>3. ASSUME NEW a \in Admins, AdminStep(a) \/ CaughtFailure(a) PROVE CountInv' /\ SettledInv'
  BY <1>3, AdminEntry, EntryStill
<1>4. ASSUME NEW c \in Customers, CustomerStep(c) PROVE CountInv' /\ SettledInv'
  BY <1>4, <1>s DEF CustomerStep, Claim, CreateSession, CheckoutFails, SafetyNetReads,
     SafetyNetReleases, SaveReference, store, budgets
<1>5. ASSUME NEW c \in Customers, NEW i \in Invoices, LoadPayable(c, i)
      PROVE  CountInv' /\ SettledInv'
  BY <1>5, <1>s DEF LoadPayable, store, budgets
<1>6. ASSUME NEW s \in Sessions, SessionEnds(s) PROVE CountInv' /\ SettledInv'
  BY <1>6, <1>s DEF SessionEnds, store, budgets
<1>7. ASSUME NEW s \in Sessions, NEW d \in Deliverers, Deliver(d, s) PROVE CountInv' /\ SettledInv'
  BY <1>7, DeliverEntry
<1>8. CASE Crash
  <2>1. UNCHANGED <<feePaid, assess, again>> BY <1>8 DEF Crash, store
  <2>2. CASE UNCHANGED hook BY <2>1, <2>2, <1>s
  <2>3. ASSUME NEW d \in Deliverers, hook' = [hook EXCEPT ![d] = HookIdle]
        PROVE  CountInv' /\ SettledInv'
    <3>1. hook'[d].pc = "idle" /\ \A e \in Deliverers : e # d => hook'[e] = hook[e]
      BY <2>3, HookEnded
    <3>2. EntersWell(d) /\ BusyStays(d) BY <3>1 DEF EntersWell, BusyStays, Entering
    <3> QED BY <2>1, <3>1, <3>2, UnwrittenKept, HookEntry
  <2> QED BY <1>8, <2>2, <2>3 DEF Crash
<1>9. ASSUME NEW d \in Deliverers, HookStep(d) \/ WebhookFails(d) PROVE CountInv' /\ SettledInv'
  BY <1>9, HookStepEntry
<1> QED BY <1>1, <1>2, <1>3, <1>4, <1>5, <1>6, <1>7, <1>8, <1>9 DEF Next

\* However often an event comes and wherever its processing stops, what the
\* provider collected is entered as paid once, and at most once more for every
\* time the event was sent while it was processed.
THEOREM EnteredOnce == Spec => []FeePaidOnce
<1>1. Init => CountInv /\ SettledInv
  <2> SUFFICES ASSUME Init PROVE CountInv /\ SettledInv OBVIOUS
  <2>1. \A d \in Deliverers : hook[d].pc = "idle" BY DEF Init, HookIdle
  <2>2. \A s \in 1 .. MaxSessions : feePaid[s] = 0 /\ again[s] = 0 BY DEF Init
  <2>3. ASSUME NEW s PROVE Processing(s) = {} /\ AtWork(s) = {}
    BY <2>1 DEF Processing, HookAt, AtWork, Entering
  <2>4. ASSUME NEW s \in 1 .. MaxSessions PROVE Counts(s)
    <3>1. Cardinality(Processing(s)) = 0 /\ Cardinality(AtWork(s)) = 0 BY <2>3, FS_EmptySet
    <3> QED BY <2>2, <3>1 DEF Counts
  <2>5. Sessions = {} BY DEF Init, Sessions
  <2> QED BY <2>4, <2>5 DEF CountInv, SettledInv
<1>2. /\ Typed /\ RefInv /\ EntriesPaid /\ FreshInv /\ CountInv /\ SettledInv /\ [Next]_vars
      => CountInv' /\ SettledInv'
  <2> SUFFICES ASSUME Typed, RefInv, EntriesPaid, FreshInv, CountInv, SettledInv, [Next]_vars
               PROVE  CountInv' /\ SettledInv'
    OBVIOUS
  <2>1. StepSound BY NextSound, StutterSound
  <2> QED BY <2>1, NextEntry
<1>3. Typed /\ EntriesPaid /\ CountInv /\ perf.fees <= FeesEntered => FeePaidOnce
  <2> SUFFICES ASSUME Typed, EntriesPaid, CountInv, perf.fees <= FeesEntered PROVE FeePaidOnce
    OBVIOUS
  <2>1. ASSUME NEW s \in 1 .. MaxSessions PROVE feePaid[s] <= 1 + again[s]
    <3>1. feePaid[s] \in Nat /\ again[s] \in Nat BY DEF Typed, BooksTyped
    <3>2. AtWork(s) \subseteq Deliverers BY DEF AtWork
    <3>3. Cardinality(AtWork(s)) \in Nat BY <3>2, WorkersFinite
    <3>4. feePaid[s] + Cardinality(AtWork(s)) <= 1 + again[s] BY DEF CountInv, Counts
    <3> QED BY <3>1, <3>3, <3>4
  <2>2. \A s \in 1 .. MaxSessions : feePaid[s] > 0 => feePaid[s] # 0 BY DEF Typed, BooksTyped
  <2> QED BY <2>1, <2>2 DEF FeePaidOnce, EntriesPaid, FeesEntered, EntriesOf
<1> QED BY <1>1, <1>2, <1>3, SoundAlways, EntriesArePaid, LinksAreFresh, TotalIsEntered, PTL DEF Spec

-----------------------------------------------------------------------------
(* Checkouts while none fails after its claim and webhooks run undisturbed.  *)

\* No checkout failed after its claim, no webhook stopped half-way, and no event
\* was sent while it was processed.
Calm == ~interrupted /\ \A s \in 1 .. MaxSessions : again[s] = 0

\* Nobody works on another's event.
Unique ==
    \A d, e \in Deliverers :
        hook[d].pc # "idle" /\ hook[e].pc # "idle" /\ hook[d].session = hook[e].session => d = e

\* The session failed, and no event of it is left to process.
Handled(s) ==
    /\ sessions[s].status = "FAILED"
    /\ \/ events[s] = "PROCESSED"
       \/ \E d \in Deliverers : hook[d].pc = "finish" /\ hook[d].session = s
\* The transaction names no session that could still be paid.
Free(i) == invoices[i].ref = 0 \/ Handled(invoices[i].ref)
Calling(c) == cust[c].pc \in {"call", "save"}

\* A webhook on its way to a transaction: the transaction still names its session.
HookTrack ==
    /\ Unique
    /\ \A d \in Deliverers :
          /\ hook[d].pc # "idle" => events[hook[d].session] # "PROCESSED"
          /\ hook[d].pc \in {"fail", "succeed"} => invoices[hook[d].inv].ref = hook[d].session
\* A session handed out is the one named, or done with.
GivenTrack ==
    \A s \in Sessions :
        sessions[s].given => invoices[sessions[s].invoice].ref = s \/ Handled(s)
\* A transaction is claimed, by one checkout, only when it is free.
ClaimTrack ==
    /\ \A i \in Invoices : invoices[i].tx \in {"PENDING", "FAILED"} => Free(i)
    /\ \A c \in Customers :
          /\ cust[c].pc \notin {"net", "release"}
          /\ Calling(c) => invoices[cust[c].inv].tx = "PROCESSING" /\ Free(cust[c].inv)
    /\ \A b, c \in Customers : Calling(b) /\ Calling(c) /\ cust[b].inv = cust[c].inv => b = c
TrackInv == HookTrack /\ GivenTrack /\ ClaimTrack

\* What most steps leave alone.
HandledStays == \A s \in Sessions : Handled(s) => Handled(s)'
RefsStay == \A i \in Invoices : i \in Invoices' /\ invoices'[i].ref = invoices[i].ref

\* A step keeps what was handed out.
LEMMA GivenKept ==
  ASSUME Typed, RefInv, GivenTrack, HandledStays, RefsStay,
         \A s \in Sessions' : sessions'[s].given =>
             s \in Sessions /\ sessions[s].given /\ sessions'[s].invoice = sessions[s].invoice
  PROVE  GivenTrack'
<1> SUFFICES ASSUME NEW s \in Sessions', sessions'[s].given
             PROVE  invoices'[sessions'[s].invoice].ref = s \/ Handled(s)'
  BY DEF GivenTrack
<1>1. s \in Sessions /\ sessions[s].given /\ sessions'[s].invoice = sessions[s].invoice OBVIOUS
<1>2. sessions[s].invoice \in Invoices BY <1>1 DEF RefInv, SessionSound
<1> QED BY <1>1, <1>2 DEF GivenTrack, HandledStays, RefsStay

\* A free transaction stays free.
LEMMA FreeKept ==
  ASSUME Typed, RefInv, HandledStays, RefsStay, NEW i \in Invoices, Free(i)
  PROVE  Free(i)'
<1>1. invoices[i].ref = 0 \/ invoices[i].ref \in Sessions BY DEF RefInv, InvoiceSound
<1>2. invoices'[i].ref = invoices[i].ref BY DEF RefsStay
<1> QED BY <1>1, <1>2 DEF Free, HandledStays

\* A step that claims nothing.
LEMMA ClaimKept ==
  ASSUME Typed, RefInv, ClaimTrack, HandledStays, RefsStay,
         \A i \in Invoices' :
             \/ i \in Invoices /\ invoices'[i].tx = invoices[i].tx
             \/ i \notin Invoices /\ invoices'[i].ref = 0,
         \A c \in Customers :
             \/ cust'[c] = cust[c]
             \/ cust'[c].pc \in {"idle", "claim"}
             \/ Calling(c) /\ cust'[c].pc = "save" /\ cust'[c].inv = cust[c].inv
  PROVE  ClaimTrack'
<1>1. ASSUME NEW i \in Invoices', invoices'[i].tx \in {"PENDING", "FAILED"} PROVE Free(i)'
  <2>1. CASE i \in Invoices /\ invoices'[i].tx = invoices[i].tx
    BY <1>1, <2>1, FreeKept DEF ClaimTrack
  <2>2. CASE invoices'[i].ref = 0 BY <2>2 DEF Free
  <2> QED BY <2>1, <2>2
<1>2. ASSUME NEW c \in Customers, Calling(c)'
      PROVE  Calling(c) /\ cust'[c].inv = cust[c].inv
  BY <1>2 DEF Calling
<1>3. ASSUME NEW c \in Customers, Calling(c)'
      PROVE  invoices'[cust'[c].inv].tx = "PROCESSING" /\ Free(cust[c].inv)'
  <2>1. Calling(c) /\ cust'[c].inv = cust[c].inv BY <1>2, <1>3
  <2>2. PICK i \in Invoices : i = cust[c].inv
    BY <2>1 DEF RefInv, CustSound, Calling
  <2>3. invoices[i].tx = "PROCESSING" /\ Free(i) BY <2>1, <2>2 DEF ClaimTrack
  <2>4. Free(i)' /\ i \in Invoices' BY <2>3, FreeKept DEF RefsStay
  <2>5. invoices'[i].tx = "PROCESSING" BY <2>3, <2>4
  <2>6. cust'[c].inv = i BY <2>1, <2>2
  <2>7. Free(cust[c].inv)' BY <2>4, <2>6 DEF Free, Handled
  <2> QED BY <2>5, <2>6, <2>7
<1>4. \A c \in Customers : cust'[c].pc \notin {"net", "release"} BY DEF ClaimTrack
<1>5. \A b, c \in Customers :
         Calling(b)' /\ Calling(c)' /\ cust'[b].inv = cust'[c].inv => b = c
  BY <1>2 DEF ClaimTrack
<1> QED BY <1>1, <1>3, <1>4, <1>5 DEF ClaimTrack

\* A busy webhook keeps its session.
LEMMA UniqueKept ==
  ASSUME Unique,
         \A d \in Deliverers : hook'[d].pc # "idle" =>
             hook[d].pc # "idle" /\ hook'[d].session = hook[d].session
  PROVE  Unique'
BY DEF Unique

\* A step of no webhook that neither moves a reference.
LEMMA HookTrackKept ==
  ASSUME Typed, RefInv, HookTrack, RefsStay, UNCHANGED <<hook, events>>
  PROVE  HookTrack'
<1>1. Unique' BY DEF HookTrack, Unique
<1>2. ASSUME NEW d \in Deliverers, hook[d].pc \in {"fail", "succeed"}
      PROVE  invoices'[hook[d].inv].ref = hook[d].session
  <2>1. hook[d].inv \in Invoices BY <1>2, BusyHook DEF HookHolds, Settling
  <2> QED BY <1>2, <2>1 DEF HookTrack, RefsStay
<1> QED BY <1>1, <1>2 DEF HookTrack

\* What is handled stays so while webhooks rest.
LEMMA HandledKept ==
  ASSUME Typed, UNCHANGED <<hook, events>>, SessionsGrow
  PROVE  HandledStays
BY DEF HandledStays, Handled, SessionsGrow

\* Steps of admins, and lookups of customers.
LEMMA TrackStill ==
  ASSUME Typed, RefInv, StepSound, TrackInv, UNCHANGED <<hook, events, sessions>>,
         \/ UNCHANGED invoices
         \/ \E r : invoices' = Append(invoices, r) /\ r.ref = 0,
         \A c \in Customers : cust'[c] = cust[c] \/ cust'[c].pc \in {"idle", "claim"}
  PROVE  TrackInv'
<1>1. HandledStays BY HandledKept DEF StepSound, Grow
<1>2. /\ RefsStay
      /\ \A i \in Invoices' :
             \/ i \in Invoices /\ invoices'[i].tx = invoices[i].tx
             \/ i \notin Invoices /\ invoices'[i].ref = 0
  <2>1. CASE UNCHANGED invoices BY <2>1 DEF RefsStay, Invoices
  <2>2. CASE \E r : invoices' = Append(invoices, r) /\ r.ref = 0
    <3>1. PICK r : invoices' = Append(invoices, r) /\ r.ref = 0 BY <2>2
    <3>2. invoices \in Seq(InvoiceRows) BY DEF Typed, RowsTyped
    <3>3. /\ Len(invoices) \in Nat /\ Len(invoices') = Len(invoices) + 1
          /\ invoices'[Len(invoices) + 1] = r
          /\ \A j \in 1 .. Len(invoices) : invoices'[j] = invoices[j]
      BY <3>1, <3>2
    <3> QED BY <3>1, <3>3 DEF RefsStay, Invoices
  <2> QED BY <2>1, <2>2
<1>3. Sessions' = Sessions BY DEF Sessions
<1>4. GivenTrack' BY <1>1, <1>2, <1>3, GivenKept DEF TrackInv
<1>5. ClaimTrack' BY <1>1, <1>2, ClaimKept DEF TrackInv
<1>6. HookTrack' BY <1>2, HookTrackKept DEF TrackInv
<1> QED BY <1>4, <1>5, <1>6 DEF TrackInv

\* A checkout request moves: what it holds, and nobody else moves.
LEMMA CheckoutWent ==
  ASSUME Typed, NEW c \in Customers, NEW step, CustGoes(c, step)
  PROVE  /\ cust'[c].pc = step /\ cust'[c].inv = cust[c].inv
         /\ \A b \in Customers : b # c => cust'[b] = cust[b]
<1>1. cust[c] \in CustRows BY DEF Typed, RequestsTyped
<1> DEFINE m == [cust[c] EXCEPT !.pc = step]
<1>2. cust'[c] = m /\ \A b \in Customers : b # c => cust'[b] = cust[b]
  BY DEF CustGoes, Typed, RequestsTyped
<1>3. m.pc = step /\ m.inv = cust[c].inv BY <1>1 DEF CustRows
<1> HIDE DEF m
<1> QED BY <1>2, <1>3

\* A checkout request ends.
LEMMA CustEnded ==
  ASSUME Typed, NEW c \in Customers, CustEnds(c)
  PROVE  cust'[c].pc = "idle" /\ \A b \in Customers : b # c => cust'[b] = cust[b]
BY DEF Typed, RequestsTyped, CustEnds, CustIdle

\* The status of one transaction is written.
LEMMA TxWent ==
  ASSUME Typed, NEW i \in Invoices, NEW tx, invoices' = [invoices EXCEPT ![i].tx = tx]
  PROVE  /\ RefsStay /\ Invoices' = Invoices /\ invoices'[i].tx = tx
         /\ \A j \in Invoices : j # i => invoices'[j] = invoices[j]
<1>1. invoices[i] \in InvoiceRows /\ invoices \in Seq(InvoiceRows)
  BY DEF Typed, RowsTyped, Invoices
<1> DEFINE e == [invoices[i] EXCEPT !.tx = tx]
<1>2. e.ref = invoices[i].ref /\ e.tx = tx BY <1>1 DEF InvoiceRows
<1>3. /\ invoices'[i] = e /\ Len(invoices') = Len(invoices)
      /\ \A j \in Invoices : j # i => invoices'[j] = invoices[j]
  BY <1>1 DEF Invoices
<1>4. Invoices' = Invoices BY <1>3 DEF Invoices
<1> HIDE DEF e
<1> QED BY <1>2, <1>3, <1>4 DEF RefsStay

\* A claim: the transaction was free, and nobody else had claimed it.
LEMMA ClaimTracks ==
  ASSUME Typed, RefInv, StepSound, TrackInv, NEW c \in Customers, Claim(c)
  PROVE  TrackInv'
<1>0. /\ UNCHANGED <<hook, events, sessions>> /\ cust[c].pc = "claim"
  BY DEF Claim, budgets, CustAt
<1>1. PICK i \in Invoices : i = cust[c].inv BY <1>0 DEF RefInv, CustSound
<1>2. CASE CustEnds(c) /\ UNCHANGED invoices BY <1>0, <1>2, CustEnded, TrackStill
<1>3. CASE /\ Claimable(i) /\ invoices' = [invoices EXCEPT ![i].tx = "PROCESSING"]
           /\ CustGoes(c, "call")
  <2>1. /\ RefsStay /\ Invoices' = Invoices /\ invoices'[i].tx = "PROCESSING"
        /\ \A j \in Invoices : j # i => invoices'[j] = invoices[j]
    BY <1>3, TxWent
  <2>2. HandledStays BY <1>0, HandledKept DEF StepSound, Grow
  <2>3. Sessions' = Sessions BY <1>0 DEF Sessions
  <2>4. GivenTrack' BY <1>0, <2>1, <2>2, <2>3, GivenKept DEF TrackInv
  <2>5. HookTrack' BY <1>0, <2>1, HookTrackKept DEF TrackInv
  <2>6. /\ cust'[c].pc = "call" /\ cust'[c].inv = i
        /\ \A b \in Customers : b # c => cust'[b] = cust[b]
    BY <1>1, <1>3, CheckoutWent
  <2>7. Free(i) /\ invoices[i].tx # "PROCESSING" BY <1>3 DEF Claimable, TrackInv, ClaimTrack
  <2>8. \A b \in Customers : Calling(b) => cust[b].inv # i BY <2>7 DEF TrackInv, ClaimTrack
  <2>9. Free(i)' BY <2>1, <2>2, <2>7, FreeKept
  <2>10. \A j \in Invoices' : invoices'[j].tx \in {"PENDING", "FAILED"} => Free(j)'
    <3> SUFFICES ASSUME NEW j \in Invoices, j # i, invoices[j].tx \in {"PENDING", "FAILED"}
                 PROVE  Free(j)'
      BY <2>1
    <3>1. Free(j) BY DEF TrackInv, ClaimTrack
    <3> QED BY <2>1, <2>2, <3>1, FreeKept
  <2>11. ASSUME NEW b \in Customers, Calling(b)'
         PROVE  invoices'[cust'[b].inv].tx = "PROCESSING" /\ Free(cust[b].inv)'
    <3>1. CASE b = c
      <4>1. Free(cust[b].inv)' BY <2>6, <2>9, <3>1 DEF Free, Handled
      <4> QED BY <2>1, <2>6, <3>1, <4>1
    <3>2. CASE b # c
      <4>1. Calling(b) /\ cust'[b] = cust[b] BY <2>6, <2>11, <3>2 DEF Calling
      <4>2. PICK j \in Invoices : j = cust[b].inv BY <4>1 DEF RefInv, CustSound, Calling
      <4>3. invoices[j].tx = "PROCESSING" /\ Free(j) /\ j # i
        BY <2>8, <4>1, <4>2 DEF TrackInv, ClaimTrack
      <4>4. Free(j)' /\ invoices'[j].tx = "PROCESSING" BY <2>1, <2>2, <4>3, FreeKept
      <4>5. Free(cust[b].inv)' BY <4>1, <4>2, <4>4 DEF Free, Handled
      <4> QED BY <4>1, <4>2, <4>4, <4>5
    <3> QED BY <3>1, <3>2
  <2>12. \A b \in Customers : cust'[b].pc \notin {"net", "release"}
    BY <2>6 DEF TrackInv, ClaimTrack
  <2>13. \A a, b \in Customers :
            Calling(a)' /\ Calling(b)' /\ cust'[a].inv = cust'[b].inv => a = b
    BY <2>6, <2>8 DEF TrackInv, ClaimTrack, Calling
  <2>14. ClaimTrack' BY <2>10, <2>11, <2>12, <2>13 DEF ClaimTrack
  <2> QED BY <1>0, <2>4, <2>5, <2>14 DEF TrackInv
<1> QED BY <1>1, <1>2, <1>3 DEF Claim

\* A session is created; it is not handed out yet.
LEMMA CreateSessionTracks ==
  ASSUME Typed, RefInv, StepSound, TrackInv, NEW c \in Customers, CreateSession(c)
  PROVE  TrackInv'
<1>0. UNCHANGED <<hook, events, invoices>> /\ cust[c].pc = "call"
  BY DEF CreateSession, store, budgets, CustAt
<1>1. cust[c] \in CustRows BY DEF Typed, RequestsTyped
<1>2. /\ cust'[c].pc = "save" /\ cust'[c].inv = cust[c].inv
      /\ \A b \in Customers : b # c => cust'[b] = cust[b]
  BY <1>1 DEF CreateSession, Typed, RequestsTyped, CustRows
<1>3. RefsStay /\ Invoices' = Invoices BY <1>0 DEF RefsStay, Invoices
<1>4. HandledStays BY <1>0, HandledKept DEF StepSound, Grow
<1>5. \A s \in Sessions' : sessions'[s].given =>
         s \in Sessions /\ sessions[s].given /\ sessions'[s].invoice = sessions[s].invoice
  <2> DEFINE e == [invoice |-> cust[c].inv, amount |-> invoices[cust[c].inv].amount,
                   status |-> "OPEN", given |-> FALSE, acked |-> FALSE]
  <2>1. sessions' = Append(sessions, e) /\ sessions \in Seq(SessionRows)
    BY DEF CreateSession, Typed, RowsTyped
  <2>2. e.given = FALSE OBVIOUS
  <2> HIDE DEF e
  <2>3. /\ Len(sessions) \in Nat /\ Len(sessions') = Len(sessions) + 1
        /\ sessions'[Len(sessions) + 1] = e
        /\ \A j \in 1 .. Len(sessions) : sessions'[j] = sessions[j]
    BY <2>1
  <2> QED BY <2>2, <2>3 DEF Sessions
<1>6. GivenTrack' BY <1>3, <1>4, <1>5, GivenKept DEF TrackInv
<1>7. ClaimTrack'
  <2>1. Calling(c) BY <1>0 DEF Calling
  <2> QED BY <1>0, <1>2, <1>3, <1>4, <2>1, ClaimKept DEF TrackInv
<1>8. HookTrack' BY <1>0, <1>3, HookTrackKept DEF TrackInv
<1> QED BY <1>0, <1>6, <1>7, <1>8 DEF TrackInv

\* The progress of one session at the provider.
LEMMA SessionTracks ==
  ASSUME Typed, RefInv, StepSound, TrackInv, NEW s \in Sessions, NEW e \in SessionRows,
         sessions' = [sessions EXCEPT ![s] = e], e.given <=> sessions[s].given,
         UNCHANGED <<hook, events, invoices, cust>>
  PROVE  TrackInv'
<1>1. RefsStay /\ Invoices' = Invoices BY DEF RefsStay, Invoices
<1>2. HandledStays BY HandledKept DEF StepSound, Grow
<1>3. /\ Len(sessions') = Len(sessions) /\ sessions'[s] = e
      /\ \A j \in Sessions : j # s => sessions'[j] = sessions[j]
  BY RowReplaced DEF Typed, RowsTyped, Sessions
<1>4. \A j \in Sessions' : sessions'[j].given =>
         j \in Sessions /\ sessions[j].given /\ sessions'[j].invoice = sessions[j].invoice
  <2>1. Sessions' = Sessions BY <1>3 DEF Sessions
  <2>2. \A j \in Sessions : sessions'[j].invoice = sessions[j].invoice
    BY DEF StepSound, Grow, SessionsGrow
  <2> QED BY <1>3, <2>1, <2>2
<1>5. GivenTrack' BY <1>1, <1>2, <1>4, GivenKept DEF TrackInv
<1>6. ClaimTrack' BY <1>1, <1>2, ClaimKept DEF TrackInv
<1>7. HookTrack' BY <1>1, HookTrackKept DEF TrackInv
<1> QED BY <1>5, <1>6, <1>7 DEF TrackInv

\* A session ends.
LEMMA SessionEndsTracks ==
  ASSUME Typed, RefInv, StepSound, TrackInv, NEW s \in Sessions, SessionEnds(s)
  PROVE  TrackInv'
<1>1. PICK result \in {"PAID", "FAILED"} : sessions' = [sessions EXCEPT ![s].status = result]
  BY DEF SessionEnds
<1> DEFINE e == [sessions[s] EXCEPT !.status = result]
<1>2. sessions[s] \in SessionRows BY DEF Typed, RowsTyped, Sessions
<1>3. e \in SessionRows /\ (e.given <=> sessions[s].given) BY <1>2 DEF SessionRows
<1>4. sessions' = [sessions EXCEPT ![s] = e] BY <1>1
<1> HIDE DEF e
<1>5. UNCHANGED <<hook, events, invoices, cust>> BY DEF SessionEnds, store, budgets
<1> QED BY <1>3, <1>4, <1>5, SessionTracks

\* The reference is stored: the one it replaces is done with.
LEMMA SaveReferenceTracks ==
  ASSUME Typed, RefInv, StepSound, TrackInv, NEW c \in Customers, SaveReference(c)
  PROVE  TrackInv'
<1>0. cust[c].pc = "save" /\ Calling(c) /\ UNCHANGED <<hook, events>>
  BY DEF SaveReference, CustAt, Calling, budgets
<1>1. PICK i \in Invoices : i = cust[c].inv BY <1>0 DEF RefInv, CustSound
<1>2. PICK s \in Sessions : s = cust[c].session /\ sessions[s].invoice = i
  BY <1>0, <1>1 DEF RefInv, CustSound
<1>3. Free(i) BY <1>0, <1>1 DEF TrackInv, ClaimTrack
<1>4. HandledStays BY <1>0, HandledKept DEF StepSound, Grow
<1>5. /\ Invoices' = Invoices /\ invoices'[i].ref = s /\ invoices'[i].tx = "PROCESSING"
      /\ \A j \in Invoices : j # i => invoices'[j] = invoices[j]
  <2> DEFINE e == [invoices[i] EXCEPT !.ref = s, !.tx = "PROCESSING"]
  <2>1. invoices[i] \in InvoiceRows /\ invoices \in Seq(InvoiceRows)
    BY DEF Typed, RowsTyped, Invoices
  <2>2. e.ref = s /\ e.tx = "PROCESSING" BY <2>1 DEF InvoiceRows
  <2>3. invoices' = [invoices EXCEPT ![i] = e] BY <1>1, <1>2, <2>1 DEF SaveReference, InvoiceRows
  <2> HIDE DEF e
  <2>4. /\ invoices'[i] = e /\ Len(invoices') = Len(invoices)
        /\ \A j \in Invoices : j # i => invoices'[j] = invoices[j]
    BY <2>1, <2>3 DEF Invoices
  <2> QED BY <2>2, <2>4 DEF Invoices
<1>6. /\ Sessions' = Sessions
      /\ \A j \in Sessions : j # s => sessions'[j] = sessions[j]
  <2>1. sessions' = [sessions EXCEPT ![s].given = TRUE] BY <1>2 DEF SaveReference
  <2>2. sessions \in Seq(SessionRows) BY DEF Typed, RowsTyped
  <2> QED BY <2>1, <2>2 DEF Sessions
<1>7. cust'[c].pc = "idle" /\ \A b \in Customers : b # c => cust'[b] = cust[b]
  BY CustEnded DEF SaveReference
<1>8. GivenTrack'
  <2> SUFFICES ASSUME NEW j \in Sessions, sessions'[j].given
               PROVE  invoices'[sessions'[j].invoice].ref = j \/ Handled(j)'
    BY <1>6 DEF GivenTrack
  <2>1. sessions'[j].invoice = sessions[j].invoice BY DEF StepSound, Grow, SessionsGrow
  <2>2. CASE j = s BY <1>2, <1>5, <2>1, <2>2
  <2>3. CASE j # s
    <3>1. sessions[j].given /\ sessions[j].invoice \in Invoices
      BY <1>6, <2>3 DEF RefInv, SessionSound
    <3>2. invoices[sessions[j].invoice].ref = j \/ Handled(j)
      BY <3>1 DEF TrackInv, GivenTrack
    <3>3. CASE Handled(j) BY <1>4, <3>3 DEF HandledStays
    <3>4. CASE invoices[sessions[j].invoice].ref = j /\ sessions[j].invoice = i
      <4>1. j # 0 BY DEF Sessions
      <4>2. Handled(j) BY <1>3, <3>4, <4>1 DEF Free
      <4> QED BY <1>4, <4>2 DEF HandledStays
    <3>5. CASE invoices[sessions[j].invoice].ref = j /\ sessions[j].invoice # i
      BY <1>5, <2>1, <3>1, <3>5
    <3> QED BY <3>2, <3>3, <3>4, <3>5
  <2> QED BY <2>2, <2>3
<1>9. HookTrack'
  <2>1. Unique' BY <1>0 DEF TrackInv, HookTrack, Unique
  <2>2. ASSUME NEW d \in Deliverers, hook[d].pc \in {"fail", "succeed"}
        PROVE  invoices'[hook[d].inv].ref = hook[d].session
    <3>1. /\ hook[d].inv \in Invoices /\ hook[d].session \in Sessions
          /\ invoices[hook[d].inv].ref = hook[d].session
      BY <2>2, BusyHook DEF HookHolds, Settling, TrackInv, HookTrack
    <3>2. hook[d].inv # i
      <4> SUFFICES ASSUME hook[d].inv = i PROVE FALSE OBVIOUS
      <4>1. Handled(hook[d].session) BY <1>3, <3>1 DEF Free, Sessions
      <4>2. events[hook[d].session] # "PROCESSED" BY <2>2 DEF TrackInv, HookTrack
      <4>3. PICK e \in Deliverers : hook[e].pc = "finish" /\ hook[e].session = hook[d].session
        BY <4>1, <4>2 DEF Handled
      <4> QED BY <2>2, <4>3 DEF TrackInv, HookTrack, Unique
    <3> QED BY <1>5, <3>1, <3>2
  <2> QED BY <1>0, <2>1, <2>2 DEF TrackInv, HookTrack
<1>10. ClaimTrack'
  <2>1. ASSUME NEW j \in Invoices, j # i, Free(j) PROVE Free(j)'
    <3>1. invoices[j].ref = 0 \/ invoices[j].ref \in Sessions BY DEF RefInv, InvoiceSound
    <3>2. invoices'[j].ref = invoices[j].ref BY <1>5, <2>1
    <3> QED BY <1>4, <2>1, <3>1, <3>2 DEF Free, HandledStays
  <2>2. \A j \in Invoices' : invoices'[j].tx \in {"PENDING", "FAILED"} => Free(j)'
    BY <1>5, <2>1 DEF TrackInv, ClaimTrack
  <2>3. ASSUME NEW b \in Customers, Calling(b)'
        PROVE  invoices'[cust'[b].inv].tx = "PROCESSING" /\ Free(cust[b].inv)'
    <3>1. b # c /\ Calling(b) /\ cust'[b] = cust[b] BY <1>7, <2>3 DEF Calling
    <3>2. PICK j \in Invoices : j = cust[b].inv BY <3>1 DEF RefInv, CustSound, Calling
    <3>3. j # i /\ invoices[j].tx = "PROCESSING" /\ Free(j)
      BY <1>0, <1>1, <3>1, <3>2 DEF TrackInv, ClaimTrack
    <3>4. Free(j)' BY <2>1, <3>3
    <3>5. Free(cust[b].inv)' BY <3>1, <3>2, <3>4 DEF Free, Handled
    <3> QED BY <1>5, <3>1, <3>2, <3>3, <3>5
  <2>4. \A b \in Customers : cust'[b].pc \notin {"net", "release"}
    BY <1>7 DEF TrackInv, ClaimTrack
  <2>5. \A a, b \in Customers :
            Calling(a)' /\ Calling(b)' /\ cust'[a].inv = cust'[b].inv => a = b
    BY <1>7 DEF TrackInv, ClaimTrack, Calling
  <2> QED BY <2>2, <2>3, <2>4, <2>5 DEF ClaimTrack
<1> QED BY <1>0, <1>8, <1>9, <1>10 DEF TrackInv

\* A delivery: answered at once, or a webhook sets out on an event nobody is
\* working on.
LEMMA DeliverTracks ==
  ASSUME Typed, RefInv, StepSound, TrackInv, Calm', NEW d \in Deliverers,
         NEW s \in Sessions, Deliver(d, s)
  PROVE  TrackInv'
<1>0. UNCHANGED <<invoices, cust>> /\ hook[d].pc = "idle" BY DEF Deliver, store, HookAt
<1>1. CASE sessions' = [sessions EXCEPT ![s].acked = TRUE] /\ UNCHANGED <<events, hook>>
  <2> DEFINE e == [sessions[s] EXCEPT !.acked = TRUE]
  <2>1. sessions[s] \in SessionRows BY DEF Typed, RowsTyped, Sessions
  <2>2. e \in SessionRows /\ (e.given <=> sessions[s].given) BY <2>1 DEF SessionRows
  <2>3. sessions' = [sessions EXCEPT ![s] = e] BY <1>1
  <2> HIDE DEF e
  <2> QED BY <1>0, <1>1, <2>2, <2>3, SessionTracks
<1>2. CASE /\ events[s] # "PROCESSED" /\ events' = [events EXCEPT ![s] = "STORED"]
           /\ hook' = [hook EXCEPT ![d] = [HookIdle EXCEPT !.pc = "find", !.session = s]]
           /\ UNCHANGED sessions
  <2>1. /\ hook'[d].pc = "find" /\ hook'[d].session = s
        /\ \A e \in Deliverers : e # d => hook'[e] = hook[e]
    BY <1>2 DEF Typed, RequestsTyped, HookIdle
  <2>2. \A e \in Deliverers : hook[e].pc = "idle" \/ hook[e].session # s
    <3>1. s \in 1 .. MaxSessions BY BillingBoundsAreNaturals DEF Typed, RowsTyped, Sessions
    <3>2. again'[s] = 0 /\ again \in [1 .. MaxSessions -> Nat] BY <3>1 DEF Calm, Typed, BooksTyped
    <3>3. ASSUME again' = [again EXCEPT ![s] = @ + 1] PROVE FALSE
      <4>1. again'[s] = again[s] + 1 BY <3>1, <3>2, <3>3
      <4>2. again[s] \in Nat BY <3>1, <3>2
      <4> QED BY <3>2, <4>1, <4>2
    <3>4. Processing(s) = {} BY <1>2, <3>3 DEF Deliver
    <3> QED BY <3>4 DEF Processing, HookAt
  <2>3. Sessions \subseteq 1 .. MaxSessions
    BY BillingBoundsAreNaturals DEF Typed, RowsTyped, Sessions
  <2>4. /\ events'[s] = "STORED"
        /\ \A j \in 1 .. MaxSessions : j # s => events'[j] = events[j]
    BY <1>2, <2>3 DEF Typed, BooksTyped
  <2>5. RefsStay /\ Invoices' = Invoices /\ Sessions' = Sessions
    BY <1>0, <1>2 DEF RefsStay, Invoices, Sessions
  <2>6. HandledStays
    <3> SUFFICES ASSUME NEW j \in Sessions, Handled(j) PROVE Handled(j)' BY DEF HandledStays
    <3>1. CASE events[j] = "PROCESSED"
      <4>1. events'[j] = "PROCESSED" BY <1>2, <2>3, <2>4, <3>1
      <4> QED BY <1>2, <4>1 DEF Handled
    <3>2. CASE events[j] # "PROCESSED"
      <4>1. PICK e \in Deliverers : hook[e].pc = "finish" /\ hook[e].session = j
        BY <3>2 DEF Handled
      <4>2. hook'[e] = hook[e] BY <1>0, <2>1, <4>1
      <4> QED BY <1>2, <4>1, <4>2 DEF Handled
    <3> QED BY <3>1, <3>2
  <2>7. GivenTrack' BY <1>2, <2>5, <2>6, GivenKept DEF TrackInv
  <2>8. ClaimTrack' BY <1>0, <2>5, <2>6, ClaimKept DEF TrackInv
  <2>9. HookTrack'
    <3>1. Unique' BY <2>1, <2>2 DEF TrackInv, HookTrack, Unique
    <3>2. ASSUME NEW e \in Deliverers, hook'[e].pc # "idle"
          PROVE  events'[hook'[e].session] # "PROCESSED"
      <4>1. CASE e = d BY <2>1, <2>4, <4>1
      <4>2. CASE e # d
        <5>1. hook'[e] = hook[e] /\ hook[e].session # s BY <2>1, <2>2, <3>2, <4>2
        <5>2. hook[e].session \in 1 .. MaxSessions BY <2>3, <3>2, <5>1, BusyHook
        <5>3. events[hook[e].session] # "PROCESSED" BY <3>2, <5>1 DEF TrackInv, HookTrack
        <5> QED BY <2>4, <5>1, <5>2, <5>3
      <4> QED BY <4>1, <4>2
    <3>3. ASSUME NEW e \in Deliverers, hook'[e].pc \in {"fail", "succeed"}
          PROVE  invoices'[hook'[e].inv].ref = hook'[e].session
      BY <1>0, <2>1, <3>3 DEF TrackInv, HookTrack
    <3> QED BY <3>1, <3>2, <3>3 DEF HookTrack
  <2> QED BY <1>0, <2>7, <2>8, <2>9 DEF TrackInv
<1> QED BY <1>1, <1>2 DEF Deliver

\* A webhook moves on, with its session, from a step before the last.
HookAdvances(d) ==
    /\ hook[d].pc \notin {"idle", "finish"} /\ hook'[d].pc # "idle"
    /\ hook'[d].session = hook[d].session
    /\ \A e \in Deliverers : e # d => hook'[e] = hook[e]
    /\ UNCHANGED <<events, sessions, cust>>

\* What such a step leaves to show.
LEMMA AdvanceTracks ==
  ASSUME Typed, RefInv, TrackInv, NEW d \in Deliverers, HookAdvances(d), RefsStay,
         hook'[d].pc \in {"fail", "succeed"} => invoices'[hook'[d].inv].ref = hook'[d].session
  PROVE  HookTrack' /\ GivenTrack' /\ HandledStays
<1>1. HandledStays
  <2> SUFFICES ASSUME NEW s \in Sessions, Handled(s) PROVE Handled(s)' BY DEF HandledStays
  <2>1. CASE events[s] = "PROCESSED" BY <2>1 DEF Handled, HookAdvances
  <2>2. CASE events[s] # "PROCESSED"
    <3>1. PICK e \in Deliverers : hook[e].pc = "finish" /\ hook[e].session = s
      BY <2>2 DEF Handled
    <3>2. hook'[e] = hook[e] BY <3>1 DEF HookAdvances
    <3> QED BY <3>1, <3>2 DEF Handled, HookAdvances
  <2> QED BY <2>1, <2>2
<1>2. GivenTrack'
  <2>1. Sessions' = Sessions BY DEF Sessions, HookAdvances
  <2> QED BY <1>1, <2>1, GivenKept DEF TrackInv, HookAdvances
<1>3. HookTrack'
  <2>1. \A e \in Deliverers : hook'[e].pc # "idle" =>
           hook[e].pc # "idle" /\ hook'[e].session = hook[e].session
    BY DEF HookAdvances
  <2>2. Unique' BY <2>1, UniqueKept DEF TrackInv, HookTrack
  <2>3. \A e \in Deliverers : hook'[e].pc # "idle" => events'[hook'[e].session] # "PROCESSED"
    BY <2>1 DEF TrackInv, HookTrack, HookAdvances
  <2>4. ASSUME NEW e \in Deliverers, hook'[e].pc \in {"fail", "succeed"}
        PROVE  invoices'[hook'[e].inv].ref = hook'[e].session
    <3>1. CASE e = d BY <2>4, <3>1
    <3>2. CASE e # d
      <4>1. hook'[e] = hook[e] BY <3>2 DEF HookAdvances
      <4>2. hook[e].inv \in Invoices BY <2>4, <4>1, BusyHook DEF HookHolds, Settling
      <4> QED BY <2>4, <4>1, <4>2 DEF TrackInv, HookTrack, RefsStay
    <3> QED BY <3>1, <3>2
  <2> QED BY <2>2, <2>3, <2>4 DEF HookTrack
<1> QED BY <1>1, <1>2, <1>3 DEF TrackInv, HookAdvances

\* A webhook that is about to write a transaction: nobody is claiming it.
LEMMA NobodyCalls ==
  ASSUME Typed, RefInv, TrackInv, NEW d \in Deliverers, hook[d].pc \in {"fail", "succeed"},
         NEW c \in Customers, Calling(c)
  PROVE  cust[c].inv # hook[d].inv
<1> SUFFICES ASSUME cust[c].inv = hook[d].inv PROVE FALSE OBVIOUS
<1>1. /\ hook[d].session \in Sessions /\ hook[d].inv \in Invoices
      /\ invoices[hook[d].inv].ref = hook[d].session
  BY BusyHook DEF HookHolds, Settling, TrackInv, HookTrack
<1>2. Free(hook[d].inv) BY DEF TrackInv, ClaimTrack
<1>3. Handled(hook[d].session) BY <1>1, <1>2 DEF Free, Sessions
<1>4. events[hook[d].session] # "PROCESSED" BY DEF TrackInv, HookTrack
<1>5. PICK e \in Deliverers : hook[e].pc = "finish" /\ hook[e].session = hook[d].session
  BY <1>3, <1>4 DEF Handled
<1> QED BY <1>5 DEF TrackInv, HookTrack, Unique

\* The steps that write a transaction's status.
LEMMA HookTxTracks ==
  ASSUME Typed, RefInv, StepSound, TrackInv, NEW d \in Deliverers,
         MarkFailed(d) \/ MarkSucceeded(d)
  PROVE  TrackInv'
<1>0. hook[d].pc \in {"fail", "succeed"} BY DEF MarkFailed, MarkSucceeded, HookAt
<1>1. PICK i \in Invoices : i = hook[d].inv BY <1>0, BusyHook DEF HookHolds, Settling
<1>2. PICK s \in Sessions : s = hook[d].session /\ invoices[i].ref = s
  BY <1>0, <1>1, BusyHook DEF TrackInv, HookTrack
<1>3. /\ HookAdvances(d) /\ hook'[d].pc \in {"finish", "pay"}
      /\ UNCHANGED <<cust, sessions>>
  <2>1. HookGoes(d, "finish") \/ HookGoes(d, "pay") BY DEF MarkFailed, MarkSucceeded
  <2>2. UNCHANGED <<events, sessions, cust>> BY DEF MarkFailed, MarkSucceeded, budgets
  <2> QED BY <1>0, <2>1, <2>2, HookWent DEF HookAdvances
<1>4. PICK tx \in {"FAILED", "SUCCEEDED"} :
         /\ invoices' = [invoices EXCEPT ![i].tx = tx]
         /\ tx = "FAILED" => hook[d].pc = "fail" /\ hook'[d].pc = "finish"
  <2>1. MarkFailed(d) => hook'[d].pc = "finish" BY HookWent DEF MarkFailed
  <2> QED BY <1>1, <2>1 DEF MarkFailed, MarkSucceeded, HookAt
<1>5. /\ RefsStay /\ Invoices' = Invoices /\ invoices'[i].tx = tx
      /\ \A j \in Invoices : j # i => invoices'[j] = invoices[j]
  BY <1>4, TxWent
<1>6. HookTrack' /\ GivenTrack' /\ HandledStays
  BY <1>3, <1>5, AdvanceTracks
<1>7. \A b \in Customers : Calling(b) => cust[b].inv # i BY <1>0, <1>1, NobodyCalls
<1>8. ASSUME tx = "FAILED" PROVE Free(i)'
  <2>1. sessions[s].status = "FAILED" BY <1>2, <1>4, <1>8, BusyHook DEF HookHolds
  <2>2. hook'[d].pc = "finish" /\ hook'[d].session = s BY <1>2, <1>3, <1>4, <1>8 DEF HookAdvances
  <2>3. Handled(s)' BY <1>3, <2>1, <2>2 DEF Handled
  <2>4. invoices'[i].ref = s BY <1>2, <1>5 DEF RefsStay
  <2> QED BY <2>3, <2>4 DEF Free, Handled
<1>9. ClaimTrack'
  <2>1. ASSUME NEW j \in Invoices', invoices'[j].tx \in {"PENDING", "FAILED"} PROVE Free(j)'
    <3>1. CASE j = i BY <1>5, <1>8, <2>1, <3>1
    <3>2. CASE j # i
      <4>1. j \in Invoices /\ Free(j) BY <1>5, <2>1, <3>2 DEF TrackInv, ClaimTrack
      <4> QED BY <1>5, <1>6, <4>1, FreeKept
    <3> QED BY <3>1, <3>2
  <2>2. ASSUME NEW b \in Customers, Calling(b)'
        PROVE  invoices'[cust'[b].inv].tx = "PROCESSING" /\ Free(cust[b].inv)'
    <3>1. Calling(b) /\ cust'[b] = cust[b] BY <1>3, <2>2 DEF Calling
    <3>2. PICK j \in Invoices : j = cust[b].inv BY <3>1 DEF RefInv, CustSound, Calling
    <3>3. j # i /\ invoices[j].tx = "PROCESSING" /\ Free(j)
      BY <1>7, <3>1, <3>2 DEF TrackInv, ClaimTrack
    <3>4. Free(j)' BY <1>5, <1>6, <3>3, FreeKept
    <3>5. Free(cust[b].inv)' BY <3>1, <3>2, <3>4 DEF Free, Handled
    <3> QED BY <1>5, <3>1, <3>2, <3>3, <3>5
  <2>3. \A b \in Customers : cust'[b].pc \notin {"net", "release"}
    BY <1>3 DEF TrackInv, ClaimTrack
  <2>4. \A a, b \in Customers :
            Calling(a)' /\ Calling(b)' /\ cust'[a].inv = cust'[b].inv => a = b
    BY <1>3 DEF TrackInv, ClaimTrack, Calling
  <2> QED BY <2>1, <2>2, <2>3, <2>4 DEF ClaimTrack
<1> QED BY <1>6, <1>9 DEF TrackInv

\* The other steps of a webhook before its last.
LEMMA HookRestTracks ==
  ASSUME Typed, RefInv, StepSound, TrackInv, NEW d \in Deliverers,
         \/ FindTransaction(d) \/ PayInvoice(d) \/ ReadAssessment(d) \/ MarkPaid(d)
         \/ AddFeePaid(d) \/ HookReadsPerformance(d) \/ UpdateHighWaterMark(d)
  PROVE  TrackInv'
<1>1. UNCHANGED <<events, sessions, cust>> /\ hook[d].pc \notin {"idle", "finish"}
  BY DEF FindTransaction, PayInvoice, ReadAssessment, MarkPaid, AddFeePaid,
         HookReadsPerformance, UpdateHighWaterMark, HookAt, store, budgets
<1>2. /\ RefsStay /\ Invoices' = Invoices
      /\ \A i \in Invoices : invoices'[i].tx = invoices[i].tx
  <2>1. CASE PayInvoice(d)
    <3>1. PICK i \in Invoices : i = hook[d].inv
      BY <2>1, BusyHook DEF PayInvoice, HookAt, HookHolds, Settling
    <3>2. invoices[i] \in InvoiceRows /\ invoices \in Seq(InvoiceRows)
      BY DEF Typed, RowsTyped, Invoices
    <3> DEFINE e == [invoices[i] EXCEPT !.status = "PAID"]
    <3>3. e.ref = invoices[i].ref /\ e.tx = invoices[i].tx BY <3>2 DEF InvoiceRows
    <3>4. invoices' = [invoices EXCEPT ![i] = e] BY <2>1, <3>1 DEF PayInvoice
    <3> HIDE DEF e
    <3>5. /\ invoices'[i] = e /\ Len(invoices') = Len(invoices)
          /\ \A j \in Invoices : j # i => invoices'[j] = invoices[j]
      BY <3>2, <3>4 DEF Invoices
    <3>6. Invoices' = Invoices BY <3>5 DEF Invoices
    <3> QED BY <3>3, <3>5, <3>6 DEF RefsStay
  <2>2. CASE ~PayInvoice(d)
    <3>1. UNCHANGED invoices
      BY <2>2 DEF FindTransaction, ReadAssessment, MarkPaid, AddFeePaid,
         HookReadsPerformance, UpdateHighWaterMark, store
    <3> QED BY <3>1 DEF RefsStay, Invoices
  <2> QED BY <2>1, <2>2
<1>3. /\ HookAdvances(d)
      /\ hook'[d].pc \in {"fail", "succeed"} => invoices'[hook'[d].inv].ref = hook'[d].session
  <2>1. CASE FindTransaction(d)
    <3> DEFINE s == hook[d].session
               Found == {i \in Invoices : invoices[i].ref = s}
               pc == IF Found = {} THEN "finish"
                     ELSE IF sessions[s].status = "FAILED" THEN "fail"
                     ELSE IF \E i \in Found : amountMatches(s, i) THEN "succeed"
                     ELSE "finish"
               inv == IF Found = {} THEN 0 ELSE CHOOSE i \in Found : TRUE
               m == [hook[d] EXCEPT !.pc = pc, !.inv = inv]
    <3>0. hook[d] \in HookRows /\ hook \in [Deliverers -> HookRows] BY DEF Typed, RequestsTyped
    <3>1. hook' = [hook EXCEPT ![d].pc = pc, ![d].inv = inv] BY <2>1 DEF FindTransaction
    <3>2. /\ pc \in {"finish", "fail", "succeed"}
          /\ pc # "finish" => Found # {}
      OBVIOUS
    <3>3. Found # {} => inv \in Found OBVIOUS
    <3> HIDE DEF pc, inv
    <3>4. hook' = [hook EXCEPT ![d] = m] BY <3>0, <3>1, HookFields
    <3>5. m.pc = pc /\ m.session = s /\ m.inv = inv BY <3>0 DEF HookRows
    <3> HIDE DEF m
    <3>6. hook'[d] = m /\ \A e \in Deliverers : e # d => hook'[e] = hook[e] BY <3>0, <3>4
    <3>7. HookAdvances(d) BY <1>1, <3>2, <3>5, <3>6 DEF HookAdvances
    <3>8. pc \in {"fail", "succeed"} => inv \in Invoices /\ invoices[inv].ref = s
      BY <3>2, <3>3
    <3>9. hook'[d].pc \in {"fail", "succeed"} => invoices'[hook'[d].inv].ref = hook'[d].session
      BY <1>2, <3>5, <3>6, <3>8 DEF RefsStay
    <3> QED BY <3>7, <3>9
  <2>2. CASE ~FindTransaction(d)
    <3>1. /\ hook'[d].pc \in {"finish", "assessment", "paid", "entry", "performance", "mark"}
          /\ hook'[d].session = hook[d].session
          /\ \A e \in Deliverers : e # d => hook'[e] = hook[e]
      <4>1. CASE ReadAssessment(d)
        <5>1. /\ hook'[d].session = hook[d].session
              /\ \A e \in Deliverers : e # d => hook'[e] = hook[e]
          BY <4>1, LookupWent
        <5> DEFINE Unpaid == {p \in Periods : assess[p].invoice = hook[d].inv /\ assess[p].status # "PAID"}
                   pc == IF Unpaid = {} THEN "finish" ELSE "paid"
                   per == IF Unpaid = {} THEN 1 ELSE CHOOSE p \in Unpaid : TRUE
                   m == [hook[d] EXCEPT !.pc = pc, !.period = per]
        <5>0. hook[d] \in HookRows /\ hook \in [Deliverers -> HookRows]
          BY DEF Typed, RequestsTyped
        <5>2. hook' = [hook EXCEPT ![d].pc = pc, ![d].period = per] BY <4>1 DEF ReadAssessment
        <5>3. pc \in {"finish", "paid"} OBVIOUS
        <5> HIDE DEF pc, per
        <5>4. hook' = [hook EXCEPT ![d] = m] BY <5>0, <5>2 DEF HookRows
        <5>5. m.pc = pc BY <5>0 DEF HookRows
        <5> HIDE DEF m
        <5>6. hook'[d].pc = pc BY <5>0, <5>4, <5>5
        <5> QED BY <5>1, <5>3, <5>6
      <4>2. CASE HookReadsPerformance(d)
        <5>1. hook[d] \in HookRows BY DEF Typed, RequestsTyped
        <5> QED BY <4>2, <5>1 DEF HookReadsPerformance, Typed, RequestsTyped, HookRows
      <4>3. CASE PayInvoice(d) \/ MarkPaid(d) \/ AddFeePaid(d) \/ UpdateHighWaterMark(d)
        <5>1. \/ HookGoes(d, "assessment") \/ HookGoes(d, "entry")
              \/ HookGoes(d, "performance") \/ HookGoes(d, "finish")
          BY <4>3 DEF PayInvoice, MarkPaid, AddFeePaid, UpdateHighWaterMark
        <5> QED BY <5>1, HookWent
      <4> QED BY <2>2, <4>1, <4>2, <4>3
    <3> QED BY <1>1, <3>1 DEF HookAdvances
  <2> QED BY <2>1, <2>2
<1>4. HookTrack' /\ GivenTrack' /\ HandledStays BY <1>2, <1>3, AdvanceTracks
<1>5. ClaimTrack' BY <1>1, <1>2, <1>4, ClaimKept DEF TrackInv
<1> QED BY <1>4, <1>5 DEF TrackInv

\* The event is processed.
LEMMA FinishTracks ==
  ASSUME Typed, RefInv, StepSound, TrackInv, NEW d \in Deliverers, FinishWebhook(d)
  PROVE  TrackInv'
<1>0. /\ hook[d].pc = "finish" /\ UNCHANGED <<invoices, cust>>
  BY DEF FinishWebhook, HookAt, store, budgets
<1>1. PICK s \in Sessions : s = hook[d].session BY <1>0, BusyHook
<1>2. Sessions \subseteq 1 .. MaxSessions
  BY BillingBoundsAreNaturals DEF Typed, RowsTyped, Sessions
<1>3. /\ events'[s] = "PROCESSED"
      /\ \A j \in 1 .. MaxSessions : j # s => events'[j] = events[j]
  BY <1>1, <1>2 DEF FinishWebhook, Typed, BooksTyped
<1>4. hook'[d].pc = "idle" /\ \A e \in Deliverers : e # d => hook'[e] = hook[e]
  BY HookEnded DEF FinishWebhook
<1>5. /\ Sessions' = Sessions
      /\ \A j \in Sessions : sessions'[j].given <=> sessions[j].given
  <2> DEFINE e == [sessions[s] EXCEPT !.acked = TRUE]
  <2>1. sessions[s] \in SessionRows /\ sessions \in Seq(SessionRows)
    BY DEF Typed, RowsTyped, Sessions
  <2>2. e.given <=> sessions[s].given BY <2>1 DEF SessionRows
  <2>3. sessions' = [sessions EXCEPT ![s] = e] BY <1>1 DEF FinishWebhook
  <2> HIDE DEF e
  <2>4. /\ sessions'[s] = e /\ Len(sessions') = Len(sessions)
        /\ \A j \in Sessions : j # s => sessions'[j] = sessions[j]
    BY <2>1, <2>3 DEF Sessions
  <2> QED BY <2>2, <2>4 DEF Sessions
<1>6. RefsStay /\ Invoices' = Invoices BY <1>0 DEF RefsStay, Invoices
<1>7. HandledStays
  <2> SUFFICES ASSUME NEW j \in Sessions, Handled(j) PROVE Handled(j)' BY DEF HandledStays
  <2>1. sessions'[j].status = "FAILED" BY DEF Handled, StepSound, Grow, SessionsGrow
  <2>2. CASE events[j] = "PROCESSED" \/ j = s
    <3>1. events'[j] = "PROCESSED" BY <1>2, <1>3, <2>2
    <3> QED BY <2>1, <3>1 DEF Handled
  <2>3. CASE events[j] # "PROCESSED" /\ j # s
    <3>1. PICK e \in Deliverers : hook[e].pc = "finish" /\ hook[e].session = j
      BY <2>3 DEF Handled
    <3>2. hook'[e] = hook[e] BY <1>1, <1>4, <2>3, <3>1
    <3> QED BY <2>1, <3>1, <3>2 DEF Handled
  <2> QED BY <2>2, <2>3
<1>8. GivenTrack'
  <2>1. \A j \in Sessions : sessions'[j].invoice = sessions[j].invoice
    BY DEF StepSound, Grow, SessionsGrow
  <2> QED BY <1>5, <1>6, <1>7, <2>1, GivenKept DEF TrackInv
<1>9. ClaimTrack' BY <1>0, <1>6, <1>7, ClaimKept DEF TrackInv
<1>10. HookTrack'
  <2>1. \A e \in Deliverers : hook'[e].pc # "idle" => e # d /\ hook'[e] = hook[e] BY <1>4
  <2>2. Unique' BY <2>1, UniqueKept DEF TrackInv, HookTrack
  <2>3. ASSUME NEW e \in Deliverers, hook'[e].pc # "idle"
        PROVE  events'[hook'[e].session] # "PROCESSED"
    <3>1. e # d /\ hook'[e] = hook[e] BY <2>1, <2>3
    <3>2. hook[e].session # s BY <1>0, <1>1, <2>3, <3>1 DEF TrackInv, HookTrack, Unique
    <3>3. hook[e].session \in 1 .. MaxSessions BY <1>2, <2>3, <3>1, BusyHook
    <3>4. events[hook[e].session] # "PROCESSED" BY <2>3, <3>1 DEF TrackInv, HookTrack
    <3> QED BY <1>3, <3>1, <3>2, <3>3, <3>4
  <2>4. ASSUME NEW e \in Deliverers, hook'[e].pc \in {"fail", "succeed"}
        PROVE  invoices'[hook'[e].inv].ref = hook'[e].session
    BY <1>0, <2>1, <2>4 DEF TrackInv, HookTrack
  <2> QED BY <2>2, <2>3, <2>4 DEF HookTrack
<1> QED BY <1>0, <1>8, <1>9, <1>10 DEF TrackInv

\* What disturbed the account is remembered.
LEMMA CalmBefore ==
  ASSUME Typed, Calm', [Next]_vars
  PROVE  Calm
<1>1. again \in [1 .. MaxSessions -> Nat] BY DEF Typed, BooksTyped
<1>2. again' = again \/ \E s \in Sessions : again' = [again EXCEPT ![s] = @ + 1]
  <2>1. CASE UNCHANGED vars BY <2>1 DEF vars, budgets
  <2>2. CASE BillingRequest
    BY <2>2 DEF BillingRequest, CreateBillingCycle, OpenCycle, CallFeeService, budgets
  <2>3. ASSUME NEW a \in Admins, AdminStep(a) \/ CaughtFailure(a) PROVE again' = again
    BY <2>3 DEF AdminStep, CaughtFailure, FailCycle, CancelBillingCycle, BeginReconciling,
       Reconcile, CheckAssessments, ReadPerformance, SaveAssessment, UpdateTotal, CycleAssessed,
       LoadForInvoice, IssueInvoice, LinkInvoice, CloseCycle, budgets
  <2>4. ASSUME NEW c \in Customers, CustomerStep(c) PROVE again' = again
    BY <2>4 DEF CustomerStep, Claim, CreateSession, CheckoutFails, SafetyNetReads,
       SafetyNetReleases, SaveReference, budgets
  <2>5. ASSUME NEW c \in Customers, NEW i \in Invoices, LoadPayable(c, i) PROVE again' = again
    BY <2>5 DEF LoadPayable, budgets
  <2>6. ASSUME NEW s \in Sessions, SessionEnds(s) PROVE again' = again
    BY <2>6 DEF SessionEnds, budgets
  <2>7. ASSUME NEW s \in Sessions, NEW d \in Deliverers, Deliver(d, s)
        PROVE  again' = again \/ again' = [again EXCEPT ![s] = @ + 1]
    BY <2>7 DEF Deliver
  <2>8. ASSUME NEW d \in Deliverers, HookStep(d) \/ WebhookFails(d) PROVE again' = again
    BY <2>8 DEF HookStep, FindTransaction, MarkFailed, MarkSucceeded, PayInvoice,
       ReadAssessment, MarkPaid, AddFeePaid, HookReadsPerformance, UpdateHighWaterMark,
       FinishWebhook, WebhookFails, budgets
  <2>9. CASE Crash BY <2>9 DEF Crash
  <2> QED BY <2>1, <2>2, <2>3, <2>4, <2>5, <2>6, <2>7, <2>8, <2>9 DEF Next
<1>3. interrupted' = interrupted \/ interrupted' = TRUE
  <2>1. CASE UNCHANGED vars BY <2>1 DEF vars, budgets
  <2>2. CASE BillingRequest
    BY <2>2 DEF BillingRequest, CreateBillingCycle, OpenCycle, CallFeeService, budgets
  <2>3. ASSUME NEW a \in Admins, AdminStep(a) \/ CaughtFailure(a) PROVE interrupted' = interrupted
    BY <2>3 DEF AdminStep, CaughtFailure, FailCycle, CancelBillingCycle, BeginReconciling,
       Reconcile, CheckAssessments, ReadPerformance, SaveAssessment, UpdateTotal, CycleAssessed,
       LoadForInvoice, IssueInvoice, LinkInvoice, CloseCycle, budgets
  <2>4. ASSUME NEW c \in Customers, CustomerStep(c)
        PROVE  interrupted' = interrupted \/ interrupted' = TRUE
    BY <2>4 DEF CustomerStep, Claim, CreateSession, CheckoutFails, SafetyNetReads,
       SafetyNetReleases, SaveReference, budgets
  <2>5. ASSUME NEW c \in Customers, NEW i \in Invoices, LoadPayable(c, i)
        PROVE  interrupted' = interrupted
    BY <2>5 DEF LoadPayable, budgets
  <2>6. ASSUME NEW s \in Sessions, SessionEnds(s) PROVE interrupted' = interrupted
    BY <2>6 DEF SessionEnds, budgets
  <2>7. ASSUME NEW s \in Sessions, NEW d \in Deliverers, Deliver(d, s)
        PROVE  interrupted' = interrupted
    BY <2>7 DEF Deliver
  <2>8. ASSUME NEW d \in Deliverers, HookStep(d) \/ WebhookFails(d)
        PROVE  interrupted' = interrupted \/ interrupted' = TRUE
    BY <2>8 DEF HookStep, FindTransaction, MarkFailed, MarkSucceeded, PayInvoice,
       ReadAssessment, MarkPaid, AddFeePaid, HookReadsPerformance, UpdateHighWaterMark,
       FinishWebhook, WebhookFails, budgets
  <2>9. CASE Crash BY <2>9 DEF Crash
  <2> QED BY <2>1, <2>2, <2>3, <2>4, <2>5, <2>6, <2>7, <2>8, <2>9 DEF Next
<1>4. ~interrupted BY <1>3, Zenon DEF Calm
<1>5. ASSUME NEW s \in 1 .. MaxSessions PROVE again[s] = 0
  <2>1. again'[s] = 0 BY DEF Calm
  <2>2. ASSUME NEW t \in Sessions, again' = [again EXCEPT ![t] = @ + 1] PROVE again[s] = 0
    <3>1. t \in 1 .. MaxSessions BY BillingBoundsAreNaturals DEF Typed, RowsTyped, Sessions
    <3>2. again'[t] = again[t] + 1 /\ again[t] \in Nat BY <1>1, <2>2, <3>1
    <3>3. again'[t] = 0 BY <3>1 DEF Calm
    <3> QED BY <3>2, <3>3
  <2> QED BY <1>2, <2>1, <2>2
<1> QED BY <1>4, <1>5 DEF Calm

\* Every step that leaves the account calm keeps the invariant.
LEMMA NextTracks ==
  ASSUME Typed, RefInv, StepSound, TrackInv, Calm', [Next]_vars
  PROVE  TrackInv'
<1>0. interrupted' # TRUE BY Zenon DEF Calm
<1>s. UNCHANGED <<hook, events, sessions, invoices, cust>> => TrackInv' BY TrackStill
<1>1. CASE UNCHANGED vars BY <1>1, <1>s DEF vars, store
<1>2. CASE BillingRequest
  BY <1>2, <1>s DEF BillingRequest, CreateBillingCycle, OpenCycle, CallFeeService, store
<1>3. ASSUME NEW a \in Admins, AdminStep(a) \/ CaughtFailure(a) PROVE TrackInv'
  <2>1. CASE IssueInvoice(a)
    <3> DEFINE r == [period |-> admin[a].period, amount |-> assess[admin[a].period].fee,
                     status |-> "ISSUED", tx |-> "PENDING", ref |-> 0]
    <3>1. invoices' = Append(invoices, r) /\ r.ref = 0 BY <2>1 DEF IssueInvoice
    <3> HIDE DEF r
    <3>2. UNCHANGED <<hook, events, sessions, cust>> BY <2>1 DEF IssueInvoice
    <3> QED BY <3>1, <3>2, TrackStill
  <2>2. CASE ~IssueInvoice(a)
    <3>1. UNCHANGED <<hook, events, sessions, invoices, cust>>
      BY <1>3, <2>2 DEF AdminStep, CaughtFailure, FailCycle, CancelBillingCycle,
         BeginReconciling, Reconcile, CheckAssessments, ReadPerformance, SaveAssessment,
         UpdateTotal, CycleAssessed, LoadForInvoice, LinkInvoice, CloseCycle, store
    <3> QED BY <1>s, <3>1
  <2> QED BY <2>1, <2>2
<1>4. ASSUME NEW c \in Customers, CustomerStep(c) PROVE TrackInv'
  <2>1. ~SafetyNetReads(c) /\ ~SafetyNetReleases(c)
    BY DEF SafetyNetReads, SafetyNetReleases, CustAt, TrackInv, ClaimTrack
  <2>2. ~CheckoutFails(c) BY <1>0 DEF CheckoutFails
  <2> QED BY <1>4, <2>1, <2>2, ClaimTracks, CreateSessionTracks, SaveReferenceTracks
          DEF CustomerStep
<1>5. ASSUME NEW c \in Customers, NEW i \in Invoices, LoadPayable(c, i) PROVE TrackInv'
  <2>1. UNCHANGED <<hook, events, sessions, invoices>> BY <1>5 DEF LoadPayable, store
  <2>2. \A b \in Customers : cust'[b] = cust[b] \/ cust'[b].pc \in {"idle", "claim"}
    BY <1>5 DEF LoadPayable, Typed, RequestsTyped
  <2> QED BY <2>1, <2>2, TrackStill
<1>6. ASSUME NEW s \in Sessions, SessionEnds(s) PROVE TrackInv' BY <1>6, SessionEndsTracks
<1>7. ASSUME NEW s \in Sessions, NEW d \in Deliverers, Deliver(d, s) PROVE TrackInv'
  BY <1>7, DeliverTracks
<1>8. CASE Crash
  <2>1. UNCHANGED <<hook, events, sessions, invoices>> BY <1>0, <1>8 DEF Crash, store
  <2>2. CASE UNCHANGED cust BY <1>s, <2>1, <2>2
  <2>3. ASSUME NEW c \in Customers, CustEnds(c) PROVE TrackInv'
    BY <2>1, <2>3, CustEnded, TrackStill
  <2> QED BY <1>8, <2>2, <2>3 DEF Crash
<1>9. ASSUME NEW d \in Deliverers, HookStep(d) PROVE TrackInv'
  BY <1>9, HookTxTracks, HookRestTracks, FinishTracks DEF HookStep
<1>10. \A d \in Deliverers : ~WebhookFails(d) BY <1>0 DEF WebhookFails
<1> QED BY <1>1, <1>2, <1>3, <1>4, <1>5, <1>6, <1>7, <1>8, <1>9, <1>10 DEF Next

\* A checkout never orphans a session: until a checkout fails after its claim, a
\* webhook stops half-way or an event is sent while it is processed, a session
\* the customer can still pay or has paid is the one its transaction names,
\* however many admins and checkouts run at once, and whichever of them die.
THEOREM SessionsAreTracked == Spec => []SessionIsTracked
<1>1. Init => (Calm => TrackInv)
  <2> SUFFICES ASSUME Init PROVE TrackInv OBVIOUS
  <2>1. invoices = <<>> /\ sessions = <<>> /\ Len(invoices) = 0 /\ Len(sessions) = 0 BY DEF Init
  <2>2. Invoices = {} /\ Sessions = {} BY <2>1 DEF Invoices, Sessions
  <2>3. \A d \in Deliverers : hook[d].pc = "idle" BY DEF Init, HookIdle
  <2>4. \A c \in Customers : cust[c].pc = "idle" BY DEF Init, CustIdle
  <2>5. HookTrack BY <2>3 DEF HookTrack, Unique
  <2>6. GivenTrack BY <2>2 DEF GivenTrack
  <2>7. ClaimTrack BY <2>2, <2>4 DEF ClaimTrack, Calling
  <2> QED BY <2>5, <2>6, <2>7 DEF TrackInv
<1>2. Typed /\ RefInv /\ (Calm => TrackInv) /\ [Next]_vars => (Calm' => TrackInv')
  <2> SUFFICES ASSUME Typed, RefInv, Calm => TrackInv, [Next]_vars, Calm' PROVE TrackInv' OBVIOUS
  <2>1. StepSound BY NextSound, StutterSound
  <2>2. TrackInv BY CalmBefore
  <2> QED BY <2>1, <2>2, NextTracks
<1>3. (Calm => TrackInv) => SessionIsTracked
  BY DEF Calm, TrackInv, GivenTrack, SessionIsTracked, Handled
<1> QED BY <1>1, <1>2, <1>3, SoundAlways, PTL DEF Spec
=============================================================================
