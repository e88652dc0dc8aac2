-------------------------- MODULE CapitalAllocation --------------------------
(***************************************************************************)
(* The capital of one (user, logical account): the explicit budget, the    *)
(* reservation of every AI decision (capital_allocations), the decision's   *)
(* TradeIntent and the trade that may come of it.  Four actors write these  *)
(* rows: pipeline workers (processSignal and executeTrade, two of them for  *)
(* one signal when it is delivered twice), the user who sets the budget,    *)
(* the expiry sweeper, and state reconciliation.                            *)
(*                                                                          *)
(* Every action is one statement or one transaction.  What a statement      *)
(* reads it writes under: the advisory lock serialises the reservations and *)
(* the budget, the compare-and-sets on intents, trades and reservations     *)
(* run outside it.  The earlier reads of resolveOrAllocate (the fast path,  *)
(* the budget row, broker equity) are repeated in the transaction or are an *)
(* arbitrary answer of the broker, so they are part of its step.            *)
(*                                                                          *)
(* The provider side of a committed order is OrderLifecycle's subject; here *)
(* its trade moves along the trade state machine as it likes.               *)
(***************************************************************************)
EXTENDS Naturals, FiniteSets, Functions

CONSTANTS
    Intents,            \* AI decisions (one signal, one intent key each)
    Workers,            \* deliveries being processed at once
    Instrument,         \* the instrument of a decision
    Strategy,           \* the strategy code of a decision
    MaxCapital,         \* budget and equity, in account currency, are 1 .. MaxCapital
    Sizes               \* the capital that sizing may ask for

ASSUME AllocationAssumption ==
    /\ IsFiniteSet(Intents) /\ "none" \notin Intents
    /\ MaxCapital \in Nat \ {0}
    /\ Sizes \subseteq 1 .. MaxCapital

VARIABLES
    budget,             \* capital_budgets.total_capital, 0 when there is no row
    intent,             \* trade_intents.status, "none" before the row exists;
                        \* "STALE" is CREATED with expires_at in the past
    alloc,              \* capital_allocations: status and allocated_capital
    trade,              \* trades.status of the decision's trade; "OPEN" is OPEN or
                        \* RECONCILIATION_PENDING, which capital counts alike
    order,              \* the entry order: "RESERVED", "COMMITTED", or "none" when there
                        \* is none or it was rejected before its commitment
    worker,             \* where each delivery is, and for which decision
    sweep               \* the expiry job: ids it still expires, ids it then releases

rows == <<intent, alloc, trade, order>>
vars == <<budget, rows, worker, sweep>>

Amounts == 1 .. MaxCapital
Created == {"CREATED", "STALE"}
LiveTrade == {"PENDING", "OPEN"}
IdleWorker == [pc |-> "idle", intent |-> "none"]
IdleSweep == [expire |-> {}, release |-> {}]

Init ==
    /\ budget = 0
    /\ intent = [i \in Intents |-> "none"]
    /\ alloc = [i \in Intents |-> [status |-> "none", capital |-> 0]]
    /\ trade = [i \in Intents |-> "none"]
    /\ order = [i \in Intents |-> "none"]
    /\ worker = [w \in Workers |-> IdleWorker]
    /\ sweep = IdleSweep

-----------------------------------------------------------------------------
\* The join of aggregateActiveAllocations: which reservations count.
InFlight(i) ==
    alloc[i].status = "ACTIVE" /\ trade[i] = "none" /\ intent[i] \in Created
Counts(i) == InFlight(i) \/ (alloc[i].status = "ACTIVE" /\ trade[i] \in LiveTrade)
CapitalOf(I) == SumFunctionOnSet([i \in Intents |-> alloc[i].capital], I)
Committed == CapitalOf({i \in Intents : Counts(i)})

\* Guarded compare-and-sets: zero rows affected is not an error.
CasIntent(i, to) ==
    intent' = IF intent[i] \in Created THEN [intent EXCEPT ![i] = to] ELSE intent
Release(i) ==
    alloc' = IF alloc[i].status = "ACTIVE" THEN [alloc EXCEPT ![i].status = "RELEASED"] ELSE alloc
CasTrade(i, to) ==
    trade' = IF trade[i] = "PENDING" THEN [trade EXCEPT ![i] = to] ELSE trade

Goto(w, pc) == worker' = [worker EXCEPT ![w].pc = pc]
Finish(w) == worker' = [worker EXCEPT ![w] = IdleWorker]
WorkerOnly == UNCHANGED <<budget, rows, sweep>>
Others == UNCHANGED <<budget, sweep>>

\* setUserCapitalBudget: at most the equity the broker reports, at least what
\* is committed, under the account's lock.
SetUserCapitalBudget ==
    \E amount \in Amounts :
        /\ amount >= Committed
        /\ budget' = amount
    /\ UNCHANGED <<rows, worker, sweep>>

-----------------------------------------------------------------------------
\* A delivery of signal i.  A duplicate goes on only while no intent exists:
\* recoverDuplicateOutcome finds neither a trade nor an intent.
Deliver(w, i) ==
    /\ worker[w].pc = "idle"
    /\ intent[i] = "none"
    /\ worker' = [worker EXCEPT ![w] = [pc |-> "record", intent |-> i]]
    /\ WorkerOnly

\* recordOrReuseIntent: the loser of the unique key reuses the winner's row.
RecordIntent(w) ==
    LET i == worker[w].intent IN
    /\ worker[w].pc = "record"
    /\ intent' = IF intent[i] = "none" THEN [intent EXCEPT ![i] = "CREATED"] ELSE intent
    /\ Goto(w, "allocate")
    /\ UNCHANGED <<alloc, trade, order>> /\ Others

\* Concentration caps: 50% of the total per instrument, 60% per strategy, for
\* every session but a PAPER_ONLY one.
WithinCaps(i, requested, total) ==
    LET counted == {j \in Intents : Counts(j)} IN
    /\ 100 * (CapitalOf({j \in counted : Instrument[j] = Instrument[i]}) + requested) <= 50 * total
    /\ 100 * (CapitalOf({j \in counted : Strategy[j] = Strategy[i]}) + requested) <= 60 * total

\* Mutant: the commitments of other decisions are forgotten.
Reservable_Alone(i, requested, equity, capped) ==
    LET total == IF equity < budget THEN equity ELSE budget IN
    /\ budget > 0
    /\ requested <= total
    /\ capped => WithinCaps(i, requested, total)

\* The reservation itself: within what budget and equity leave, and the caps.
Reservable(i, requested, equity, capped) ==
    LET total == IF equity < budget THEN equity ELSE budget IN
    /\ budget > 0
    /\ requested + Committed <= total
    /\ capped => WithinCaps(i, requested, total)

\* Mutant: only an ACTIVE row stops a second reservation.
ResolveOrAllocate_Again(w) ==
    LET i == worker[w].intent IN
    /\ worker[w].pc = "allocate"
    /\ \E requested \in Sizes, equity \in Amounts :
          /\ alloc[i].status # "ACTIVE"
          /\ Reservable(i, requested, equity, FALSE)
          /\ alloc' = [alloc EXCEPT ![i] = [status |-> "ACTIVE", capital |-> requested]]
          /\ Goto(w, "risk")
    /\ UNCHANGED <<intent, trade, order>> /\ Others

\* resolveOrAllocate: an ACTIVE row is reused, a RELEASED one refuses the
\* decision; otherwise the transaction reserves what sizing asked for.
ResolveOrAllocate(w) ==
    LET i == worker[w].intent IN
    /\ worker[w].pc = "allocate"
    /\ \/ /\ alloc[i].status = "ACTIVE"
          /\ Goto(w, "risk")
          /\ UNCHANGED alloc
       \/ \E requested \in Sizes, equity \in Amounts, capped \in BOOLEAN :
          /\ alloc[i].status = "none"
          /\ Reservable(i, requested, equity, capped)
          /\ alloc' = [alloc EXCEPT ![i] = [status |-> "ACTIVE", capital |-> requested]]
          /\ Goto(w, "risk")
    /\ UNCHANGED <<intent, trade, order>> /\ Others

\* Mutant: the failure is logged and the decision goes on.
SizingAllocationFails_GoesOn(w) ==
    /\ worker[w].pc = "allocate"
    /\ Goto(w, "risk")
    /\ WorkerOnly

\* Sizing fails, the broker answers nothing, the capital is not there, or the
\* reservation was released: the intent is rejected and nothing is released.
SizingAllocationFails(w) ==
    LET i == worker[w].intent IN
    /\ worker[w].pc = "allocate"
    /\ CasIntent(i, "REJECTED")
    /\ Finish(w)
    /\ UNCHANGED <<alloc, trade, order>> /\ Others

\* validateProposedTrade, by what this module sees of it: an existing trade of
\* the signal is DUPLICATE_SIGNAL, anything else may be approved.  A SEMI_AUTO
\* approval waits at "guard" for the user.
RiskApproves(w) ==
    /\ worker[w].pc = "risk"
    /\ trade[worker[w].intent] = "none"
    /\ Goto(w, "guard")
    /\ WorkerOnly

\* Any other decision, and an exception of the engine: the intent is rejected,
\* which may fail, and then its capital is released.
RiskRejects(w) ==
    /\ worker[w].pc = "risk"
    /\ CasIntent(worker[w].intent, "REJECTED") \/ UNCHANGED intent
    /\ Goto(w, "release")
    /\ UNCHANGED <<alloc, trade, order>> /\ Others

ReleaseRejected(w) ==
    /\ worker[w].pc = "release"
    /\ Release(worker[w].intent)
    /\ Finish(w)
    /\ UNCHANGED <<intent, trade, order>> /\ Others

\* executeTrade step 1c, resolveIntentForExecutionBySignal: only an intent that
\* is CREATED and not stale.
IntentGuardPasses(w) ==
    /\ worker[w].pc = "guard"
    /\ intent[worker[w].intent] = "CREATED"
    /\ Goto(w, "reserve")
    /\ WorkerOnly

\* The guard's refusal (a stale intent becomes EXPIRED), or
\* one of the gates around it: grant, boundary authorisation, controls.
ExecutionRefused(w) ==
    LET i == worker[w].intent IN
    /\ worker[w].pc \in {"guard", "reserve"}
    /\ IF worker[w].pc = "guard" /\ intent[i] = "STALE"
       THEN CasIntent(i, "EXPIRED") ELSE UNCHANGED intent
    /\ Finish(w)
    /\ UNCHANGED <<alloc, trade, order>> /\ Others

\* atomicallyReserveTradeSlot: a new PENDING trade, or the existing one, to which
\* a duplicate delivery binds the intent before it ends.
ReserveTradeSlot(w) ==
    LET i == worker[w].intent IN
    /\ worker[w].pc = "reserve"
    /\ IF trade[i] = "none"
       THEN trade' = [trade EXCEPT ![i] = "PENDING"] /\ Goto(w, "bind") /\ UNCHANGED intent
       ELSE CasIntent(i, "EXECUTED") /\ Finish(w) /\ UNCHANGED trade
    /\ UNCHANGED <<alloc, order>> /\ Others

\* markExecuted by the delivery that owns the slot.
BindIntent(w) ==
    /\ worker[w].pc = "bind"
    /\ CasIntent(worker[w].intent, "EXECUTED")
    /\ Goto(w, "order")
    /\ UNCHANGED <<alloc, trade, order>> /\ Others

\* dispatchOrder up to the commitment.
ReserveOrder(w) ==
    LET i == worker[w].intent IN
    /\ worker[w].pc = "order"
    /\ order' = [order EXCEPT ![i] = "RESERVED"]
    /\ Goto(w, "commit")
    /\ UNCHANGED <<intent, alloc, trade>> /\ Others

CommitDispatch(w) ==
    LET i == worker[w].intent IN
    /\ worker[w].pc = "commit"
    /\ order[i] = "RESERVED"
    /\ order' = [order EXCEPT ![i] = "COMMITTED"]
    /\ Finish(w)
    /\ UNCHANGED <<intent, alloc, trade>> /\ Others

\* Market safety or the final boundary blocks, or 7d was faster: order and trade
\* are rejected, and the intent unless it is no longer CREATED.
BlockDispatch(w) ==
    LET i == worker[w].intent IN
    /\ worker[w].pc = "commit"
    /\ order' = [order EXCEPT ![i] = "none"]
    /\ CasTrade(i, "REJECTED")
    /\ CasIntent(i, "REJECTED")
    /\ Finish(w)
    /\ UNCHANGED alloc /\ Others

\* Any other error of the orchestration: the outcome counts as unknown, and the
\* trade becomes RECONCILIATION_PENDING.
OrchestrationFails(w) ==
    /\ worker[w].pc \in {"order", "commit"}
    /\ CasTrade(worker[w].intent, "OPEN")
    /\ Finish(w)
    /\ UNCHANGED <<intent, alloc, order>> /\ Others

\* The process that runs the delivery dies; a SEMI_AUTO user never confirms.
WorkerDies(w) ==
    /\ worker[w].pc # "idle"
    /\ Finish(w)
    /\ WorkerOnly

-----------------------------------------------------------------------------
\* What the dispatch's answer and later reconciliation make of a trade whose
\* order was committed.
TradeMoves(i, to) ==
    /\ order[i] = "COMMITTED"
    /\ \/ trade[i] = "PENDING" /\ to \in {"OPEN", "REJECTED"}
       \/ trade[i] = "OPEN" /\ to = "CLOSED"
    /\ trade' = [trade EXCEPT ![i] = to]
    /\ UNCHANGED <<intent, alloc, order, worker>> /\ Others

\* State reconciliation 7d: a reservation without a commitment is rejected, then
\* its trade, then the capital of the intent bound to that trade is released,
\* which only an EXECUTED intent is.  A run that dies after the first or the second
\* statement never resumes: a terminal order is not swept again.
RecoverPreCommitment(i) ==
    /\ order[i] = "RESERVED"
    /\ order' = [order EXCEPT ![i] = "none"]
    /\ \/ CasTrade(i, "REJECTED") /\ intent[i] = "EXECUTED" /\ Release(i)
       \/ CasTrade(i, "REJECTED") /\ UNCHANGED alloc
       \/ UNCHANGED <<trade, alloc>>
    /\ UNCHANGED <<intent, worker>> /\ Others

\* 7b: the provider no longer knows the position.  The trade is closed and its
\* capital released; CLOSED no longer counts, so this too is one step.
CloseFromProvider(i) ==
    /\ order[i] = "COMMITTED" /\ trade[i] = "OPEN"
    /\ trade' = [trade EXCEPT ![i] = "CLOSED"]
    /\ Release(i)
    /\ UNCHANGED <<intent, order, worker>> /\ Others

-----------------------------------------------------------------------------
\* expires_at passes; nobody reads it once the intent is terminal.
Expire(i) ==
    /\ intent[i] = "CREATED"
    /\ intent' = [intent EXCEPT ![i] = "STALE"]
    /\ UNCHANGED <<budget, alloc, trade, order, worker, sweep>>

\* ExecutionExpiryJob: one read lists the stale CREATED intents, ...
Stale == {i \in Intents : intent[i] = "STALE"}
SweepFind ==
    /\ sweep = IdleSweep /\ Stale # {}
    /\ sweep' = [expire |-> Stale, release |-> {}]
    /\ UNCHANGED <<budget, rows, worker>>

\* Mutant: the intent is left as it is; only the release follows.
SweepExpire_NoCas(i) ==
    /\ i \in sweep.expire
    /\ sweep' = [expire |-> sweep.expire \ {i}, release |-> sweep.release \union {i}]
    /\ UNCHANGED <<budget, rows, worker>>

\* ... each is marked EXPIRED if it still is CREATED, ...
SweepExpire(i) ==
    /\ i \in sweep.expire
    /\ CasIntent(i, "EXPIRED")
    /\ sweep' = [expire |-> sweep.expire \ {i}, release |-> sweep.release \union {i}]
    /\ UNCHANGED <<budget, alloc, trade, order, worker>>

\* ... and every listed one is released, whatever its compare-and-set said.
Released(i) ==
    /\ sweep.expire = {} /\ i \in sweep.release
    /\ sweep' = [sweep EXCEPT !.release = @ \ {i}]
SweepRelease(i) ==
    /\ Released(i)
    /\ Release(i)
    /\ UNCHANGED <<budget, intent, trade, order, worker>>

\* A failed release is logged and skipped.
SweepReleaseFails(i) ==
    /\ Released(i)
    /\ UNCHANGED <<budget, rows, worker>>

\* An error of the first phase, or the process's end, abandons the sweep.
SweepDies ==
    /\ sweep # IdleSweep
    /\ sweep' = IdleSweep
    /\ UNCHANGED <<budget, rows, worker>>

-----------------------------------------------------------------------------
WorkerStep(w) ==
    \/ RecordIntent(w) \/ ResolveOrAllocate(w) \/ SizingAllocationFails(w)
    \/ RiskApproves(w) \/ RiskRejects(w) \/ ReleaseRejected(w)
    \/ IntentGuardPasses(w) \/ ExecutionRefused(w) \/ ReserveTradeSlot(w) \/ BindIntent(w)
    \/ ReserveOrder(w) \/ CommitDispatch(w) \/ BlockDispatch(w)
    \/ OrchestrationFails(w) \/ WorkerDies(w)

Sweeper ==
    \/ SweepFind \/ SweepDies
    \/ \E i \in Intents : SweepExpire(i) \/ SweepRelease(i) \/ SweepReleaseFails(i)

Next ==
    \/ SetUserCapitalBudget
    \/ \E w \in Workers : WorkerStep(w) \/ \E i \in Intents : Deliver(w, i)
    \/ \E i \in Intents :
          \/ Expire(i) \/ RecoverPreCommitment(i) \/ CloseFromProvider(i)
          \/ \E to \in {"OPEN", "REJECTED", "CLOSED"} : TradeMoves(i, to)
    \/ Sweeper

Spec == Init /\ [][Next]_vars

\* Fairness: time passes, the job is scheduled every minute and does not die in
\* every sweep that found an intent.  Nothing is assumed of workers, users or
\* reconciliation.
FairSpec ==
    /\ Spec
    /\ WF_vars(Sweeper)
    /\ WF_vars(\E i \in Intents : Expire(i))
    /\ SF_vars(\E i \in Intents : SweepExpire(i))

-----------------------------------------------------------------------------
WorkerPc == {"idle", "record", "allocate", "risk", "release", "guard", "reserve", "bind",
             "order", "commit"}

\* Type invariant; an idle process holds nothing, and rows come in the order in
\* which the pipeline writes them.
TypeOK ==
    /\ budget \in 0 .. MaxCapital
    /\ intent \in [Intents -> Created \union {"none", "EXECUTED", "REJECTED", "EXPIRED"}]
    /\ alloc \in [Intents -> [status : {"none", "ACTIVE", "RELEASED"}, capital : 0 .. MaxCapital]]
    /\ trade \in [Intents -> LiveTrade \union {"none", "REJECTED", "CLOSED"}]
    /\ order \in [Intents -> {"none", "RESERVED", "COMMITTED"}]
    /\ worker \in [Workers -> [pc : WorkerPc, intent : Intents \union {"none"}]]
    /\ sweep \in [expire : SUBSET Intents, release : SUBSET Intents]
    /\ \A w \in Workers : (worker[w].pc = "idle") = (worker[w].intent = "none")
    /\ \A i \in Intents : /\ order[i] # "none" => trade[i] # "none"
                          /\ trade[i] # "none" => alloc[i].status # "none"
                          /\ alloc[i].status # "none" => intent[i] # "none"

\* A trade whose slot was taken while its intent was still open.
OnTime(i) == trade[i] # "none" => intent[i] \in Created \union {"EXECUTED"}

\* allocation.service.ts, "two allocations can never both consume the last
\* available capital": what is committed stays within the budget, however
\* reservations, budget changes, releases and trades interleave.  Left out are
\* trades reserved after the sweeper or another delivery closed their intent:
\* their capital may have been given away in between.
BudgetHolds == CapitalOf({i \in Intents : Counts(i) /\ OnTime(i)}) <= budget

\* allocation.service.ts, "EXACTLY-ONCE per decision": no delivery of a decision,
\* however late, resizes its reservation or revives a released one.
ReservedOnce ==
    [][\A i \in Intents :
          alloc[i].status # "none" =>
              /\ alloc'[i].capital = alloc[i].capital
              /\ alloc'[i].status \in {alloc[i].status, "RELEASED"}]_alloc

\* trade-intent.service.ts on the sweeper: capital of a decision that was never
\* traded does not stay in flight, also when its worker died.  (A decision is in
\* flight once, so for finitely many decisions this is one formula.)
InFlightEnds == <>[](\A i \in Intents : ~InFlight(i))

\* execution-expiry.job.ts and strategy-orchestrator.service.ts, "definite
\* non-exposure": the order of a released reservation is not on its way to the
\* provider, and there is no position.
ReleasedIsUnexposed ==
    \A i \in Intents :
        ~(alloc[i].status = "RELEASED" /\ order[i] = "COMMITTED" /\ trade[i] \in LiveTrade)
=============================================================================
