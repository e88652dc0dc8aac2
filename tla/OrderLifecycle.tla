--------------------------- MODULE OrderLifecycle ---------------------------
(***************************************************************************)
(* One entry order and its trade from their reservation to a terminal      *)
(* state.  Three parties write the two rows:                               *)
(*   - the live dispatch (execution-orchestrator.service.ts and            *)
(*     execution.service.ts): SUBMITTED, the commitment, the provider call *)
(*     with its retries, the outcome on the order and then on the trade;   *)
(*   - reconciliation runs (state-reconciliation.service.ts), which may    *)
(*     overlap one another and the dispatch: provider snapshot, then the   *)
(*     internal rows, then the passes 7a to 7d over those copies;          *)
(*   - the provider (external), which fills, rejects, cancels, closes.     *)
(* A statement of the order service (read the status, assert the           *)
(* transition, UPDATE ... WHERE status = read) is one step; that it fails, *)
(* because the row moved in between or because the store does, is a fault. *)
(***************************************************************************)
EXTENDS Integers, FiniteSets

CONSTANTS
    Requested,    \* the order's requested quantity, in fill units
    Runs,         \* reconciliation workers that may overlap
    Families,     \* the provider families: "ctrader" has position ids of its own
    MaxFaults     \* bound: failed statements and killed reconciliation runs

ASSUME RequestedAssumption == Requested \in Nat \ {0}
ASSUME FaultsAssumption == MaxFaults \in Nat
ASSUME FamiliesAssumption == Families \subseteq {"ctrader", "other"}

VARIABLES
    family,       \* connection.brokerId's family
    order,        \* the trading.orders row
    trade,        \* the trades row
    grant,        \* the risk grant the trade carries
    clock,        \* 0: grant valid, 1: expired, 2: order past the grace window
    provider,     \* the order and position at the provider
    wire,         \* a placement on its way to the provider
    answer,       \* the provider's reply, on its way back
    placements,   \* placements the provider received
    live,         \* the dispatching process
    runs,         \* the reconciliation runs
    faults

rows == <<order, trade, grant>>
outside == <<provider, wire, answer, placements>>
vars == <<family, rows, clock, outside, live, runs, faults>>

MAX_RETRY_ATTEMPTS == 3

TerminalOrder == {"FILLED", "REJECTED", "CANCELLED"}
TerminalTrade == {"CLOSED", "REJECTED"}
OrderStatus == TerminalOrder \union
    {"CREATED", "SUBMITTED", "DISPATCH_COMMITTED", "ACKNOWLEDGED",
     "PARTIALLY_FILLED", "RECONCILIATION_PENDING"}
TradeStatus == TerminalTrade \union {"PENDING", "OPEN", "RECONCILIATION_PENDING"}
\* What an identifier column holds: on cTrader a position has an id of its own.
Id == {"none", "order", "position"}
Certainty == {"none", "DEFINITELY_NOT_SENT", "MAY_HAVE_REACHED_PROVIDER"}

----------------------------------------------------------------------------
(* The two state machines and the statements built on them.                *)

InFlight == {"ACKNOWLEDGED", "PARTIALLY_FILLED", "FILLED", "REJECTED",
             "CANCELLED", "RECONCILIATION_PENDING"}

\* ALLOWED_TRANSITIONS of the order (EXPIRED behaves as CANCELLED).
OrderTransitions(from) ==
    CASE from = "CREATED" -> {"SUBMITTED", "REJECTED", "CANCELLED", "DISPATCH_COMMITTED"}
      [] from = "SUBMITTED" -> InFlight \union {"DISPATCH_COMMITTED"}
      [] from = "DISPATCH_COMMITTED" -> InFlight
      [] from \in {"ACKNOWLEDGED", "PARTIALLY_FILLED", "RECONCILIATION_PENDING"} ->
             InFlight \ ({from} \union
                 IF from = "PARTIALLY_FILLED" THEN {"ACKNOWLEDGED"} ELSE {})
      [] OTHER -> {}

\* ALLOWED_TRANSITIONS of the trade (user cancellation is not modelled).
TradeTransitions(from) ==
    CASE from = "PENDING" -> {"OPEN", "REJECTED", "RECONCILIATION_PENDING"}
      [] from = "OPEN" -> {"CLOSED", "RECONCILIATION_PENDING"}
      [] from = "RECONCILIATION_PENDING" -> {"OPEN", "CLOSED"}
      [] OTHER -> {}

\* Mutant: the UPDATE is keyed by the order's id alone.
CanTransition_ById(o, to) == o.status \in OrderStatus

\* applyTransition: the row after it; a refused transition leaves it alone.
CanTransition(o, to) == to \in OrderTransitions(o.status)
Transition(o, to, id) ==
    IF CanTransition(o, to)
    THEN [o EXCEPT !.status = to, !.pid = IF id = "none" THEN @ ELSE id]
    ELSE o

IsFillable(status) ==
    status \in {"SUBMITTED", "DISPATCH_COMMITTED", "ACKNOWLEDGED",
                "PARTIALLY_FILLED", "RECONCILIATION_PENDING"}

\* Mutant: the UPDATE does not guard against an overfill.
CanFill_NoLimit(o, qty) == IsFillable(o.status)

\* applyFill: adds the quantity unless that would overfill the order.
CanFill(o, qty) == IsFillable(o.status) /\ o.filled + qty <= Requested
ApplyFill(o, qty, id) ==
    IF CanFill(o, qty)
    THEN [status |-> IF o.filled + qty = Requested THEN "FILLED" ELSE "PARTIALLY_FILLED",
          filled |-> o.filled + qty,
          pid |-> IF id = "none" THEN o.pid ELSE id]
    ELSE o

\* resolveReconciliationFillState: only a status the recorded fill supports.
FillState(o, to) ==
    IF /\ o.status = "RECONCILIATION_PENDING"
       /\ IF to = "FILLED" THEN o.filled = Requested ELSE o.filled > 0
    THEN Transition(o, to, "order")
    ELSE o

\* resolveOrderFromProviderState: seen is the provider's order, copy the run's
\* stale copy of the row, and current the row the statement meets.
Resolved(copy, seen, current) ==
    CASE seen.status = "WORKING" /\ copy.status = "RECONCILIATION_PENDING" ->
             Transition(current, "ACKNOWLEDGED", "order")
      [] /\ seen.status \in {"FILLED", "PARTIALLY_FILLED"}
         /\ seen.filled > copy.filled ->
             ApplyFill(current, seen.filled - copy.filled, "order")
      [] /\ seen.status \in {"FILLED", "PARTIALLY_FILLED"}
         /\ seen.filled <= copy.filled
         /\ copy.status = "RECONCILIATION_PENDING" ->
             FillState(current, seen.status)
      [] seen.status \in {"CANCELLED", "REJECTED"} ->
             Transition(current, seen.status, "order")
      [] OTHER -> current

\* TradeLifecycleCasService.applyCasTransition with expectedFrom = PENDING: a
\* lost CAS reloads the row and converges it when the transition is legal.
TradeCas(t, to, patched) == IF to \in TradeTransitions(t.status) THEN patched ELSE t

----------------------------------------------------------------------------
NoAnswer == [kind |-> "none", qty |-> 0, id |-> "none"]
NoOrder == [status |-> "none", filled |-> 0, pid |-> "none"]
NoTrade == [status |-> "none", certainty |-> "none", xref |-> "none", xpos |-> FALSE]
IdleRun == [pc |-> "idle", seen |-> NoOrder, matched |-> FALSE,
            ord |-> NoOrder, trd |-> NoTrade, plan |-> "none"]

\* The rows reserved by executeTrade and submitOrder.
Init ==
    /\ family \in Families
    /\ order = [status |-> "CREATED", filled |-> 0, pid |-> "none"]
    /\ trade = [status |-> "PENDING", certainty |-> "none", xref |-> "none", xpos |-> FALSE]
    /\ grant = "ACTIVE"
    /\ clock = 0
    /\ provider = [status |-> "none", filled |-> 0, position |-> "none", visible |-> FALSE]
    /\ wire = FALSE
    /\ answer = NoAnswer
    /\ placements = 0
    /\ live = [pc |-> "reserved", certainty |-> "none", attempt |-> 0,
               qty |-> 0, id |-> "none"]
    /\ runs = [r \in Runs |-> IdleRun]
    /\ faults = 0

----------------------------------------------------------------------------
(* The live dispatch.                                                      *)

Goto(pc) == live' = [live EXCEPT !.pc = pc]
Uncertain(certainty) == live' = [live EXCEPT !.pc = "uncertain", !.certainty = certainty]
LiveOnly == UNCHANGED <<family, rows, clock, outside, runs, faults>>
LiveOrder == UNCHANGED <<family, trade, grant, clock, outside, runs, faults>>

\* markSubmitted; a refusal reaches executeTrade's catch.
MarkSubmitted ==
    /\ live.pc = "reserved"
    /\ order' = Transition(order, "SUBMITTED", "none")
    /\ Goto(IF CanTransition(order, "SUBMITTED") THEN "submitted" ELSE "error")
    /\ LiveOrder

\* The commitment's transaction consumes the grant and commits the order.
CommitGuard == clock = 0 /\ grant = "ACTIVE" /\ order.status = "SUBMITTED"
Commitment ==
    /\ live.pc = "submitted"
    /\ CommitGuard
    /\ order' = [order EXCEPT !.status = "DISPATCH_COMMITTED"]
    /\ grant' = "CONSUMED"

Commit ==
    /\ Commitment
    /\ Goto("committed")
    /\ UNCHANGED <<family, trade, clock, outside, runs, faults>>

\* COMMIT succeeds but its acknowledgement is lost: handled as a block.
CommitAckLost ==
    /\ faults < MaxFaults
    /\ Commitment
    /\ Goto("refused")
    /\ faults' = faults + 1
    /\ UNCHANGED <<family, trade, clock, outside, runs>>

\* A gate or the commitment refuses: market, authority, a lost CAS.
Block ==
    /\ live.pc = "submitted"
    /\ Goto("refused")
    /\ LiveOnly

RejectRefused ==
    /\ live.pc = "refused"
    /\ order' = Transition(order, "REJECTED", "none")
    /\ Goto("blocked")
    /\ LiveOrder

\* dispatchToProvider throws before placeOrder: connect, credentials, the
\* environment fence.
ConnectFails ==
    /\ live.pc = "committed" /\ live.attempt = 0
    /\ \E c \in Certainty \ {"none"} : Uncertain(c)
    /\ LiveOnly

\* withRetry: an attempt that provably never left is retried while any remain.
AttemptNotSent ==
    /\ live.pc = "committed"
    /\ IF live.attempt = MAX_RETRY_ATTEMPTS - 1
       THEN Uncertain("DEFINITELY_NOT_SENT")
       ELSE live' = [live EXCEPT !.attempt = @ + 1]
    /\ LiveOnly

PlaceOrder ==
    /\ live.pc = "committed"
    /\ Goto("awaiting")
    /\ wire' = TRUE
    /\ UNCHANGED <<family, rows, clock, provider, answer, placements, runs, faults>>

\* Mutant: a timed-out call is retried like one that was never sent.
CallUncertain_Resends ==
    /\ live.pc = "awaiting"
    /\ live.attempt < MAX_RETRY_ATTEMPTS - 1
    /\ live' = [live EXCEPT !.pc = "committed", !.attempt = @ + 1]
    /\ answer' = NoAnswer
    /\ UNCHANGED <<family, rows, clock, provider, wire, placements, runs, faults>>

\* Mutant: a timeout is classified as never sent.
CallUncertain_NotSent ==
    /\ live.pc = "awaiting"
    /\ Uncertain("DEFINITELY_NOT_SENT")
    /\ answer' = NoAnswer
    /\ UNCHANGED <<family, rows, clock, provider, wire, placements, runs, faults>>

\* withRetry's timeout or an ambiguous write: surfaced, never resent; the call
\* itself stays in flight.
CallUncertain ==
    /\ live.pc = "awaiting"
    /\ Uncertain("MAY_HAVE_REACHED_PROVIDER")
    /\ answer' = NoAnswer
    /\ UNCHANGED <<family, rows, clock, provider, wire, placements, runs, faults>>

\* mapProviderOrderResponse on the answer that arrived.
MapResponse ==
    /\ live.pc = "awaiting"
    /\ answer.kind # "none"
    /\ CASE answer.kind = "FILLED" ->
                live' = [live EXCEPT !.pc = IF answer.id = "none" THEN "fill" ELSE "ackFill",
                                     !.qty = answer.qty, !.id = answer.id]
         [] answer.kind = "PENDING" /\ answer.id # "none" ->
                live' = [live EXCEPT !.pc = "ack", !.id = answer.id]
         [] answer.kind = "REJECTED" -> Goto("reject")
         [] OTHER -> Uncertain("MAY_HAVE_REACHED_PROVIDER")
    /\ answer' = NoAnswer
    /\ UNCHANGED <<family, rows, clock, provider, wire, placements, runs, faults>>

\* markAcknowledged, applyFill, rejectOrder: an exception lands in the catch.
OrStep(ok, next) == IF ok THEN Goto(next) ELSE Uncertain("MAY_HAVE_REACHED_PROVIDER")

MarkAcknowledged ==
    /\ live.pc \in {"ack", "ackFill"}
    /\ order' = Transition(order, "ACKNOWLEDGED", live.id)
    /\ OrStep(CanTransition(order, "ACKNOWLEDGED"),
              IF live.pc = "ack" THEN "WORKING" ELSE "fill")
    /\ LiveOrder

LiveFill ==
    /\ live.pc = "fill"
    /\ order' = ApplyFill(order, live.qty, live.id)
    /\ IF CanFill(order, live.qty)
       THEN live' = [live EXCEPT !.pc = "FILLED", !.id = order'.pid]
       ELSE Uncertain("MAY_HAVE_REACHED_PROVIDER")
    /\ LiveOrder

RejectByProvider ==
    /\ live.pc = "reject"
    /\ order' = Transition(order, "REJECTED", "none")
    /\ OrStep(CanTransition(order, "REJECTED"), "REJECTED")
    /\ LiveOrder

\* The catch: markReconciliationPending, best effort.
MarkUncertain ==
    /\ live.pc = "uncertain"
    /\ order' = Transition(order, "RECONCILIATION_PENDING", "none")
    /\ Goto("UNKNOWN")
    /\ LiveOrder

\* executeTrade maps the dispatch's outcome on the trade.
TradeOutcome(pc, to, patched) ==
    /\ live.pc = pc
    /\ trade' = TradeCas(trade, to, patched)
    /\ Goto("done")
    /\ UNCHANGED <<family, order, grant, clock, outside, runs, faults>>

TradeBlocked ==
    TradeOutcome("blocked", "REJECTED",
        [trade EXCEPT !.status = "REJECTED", !.certainty = "DEFINITELY_NOT_SENT"])
TradeError ==
    TradeOutcome("error", "RECONCILIATION_PENDING",
        [trade EXCEPT !.status = "RECONCILIATION_PENDING",
                      !.certainty = "MAY_HAVE_REACHED_PROVIDER"])
TradeFilled ==
    TradeOutcome("FILLED", "OPEN", [trade EXCEPT !.status = "OPEN", !.xref = live.id])
TradeRejected ==
    TradeOutcome("REJECTED", "REJECTED", [trade EXCEPT !.status = "REJECTED"])
TradeUnknown ==
    TradeOutcome("UNKNOWN", "RECONCILIATION_PENDING",
        [trade EXCEPT !.status = "RECONCILIATION_PENDING", !.certainty = live.certainty])

\* WORKING: the provider's id is stored whatever the trade's status is.
TradeWorking ==
    /\ live.pc = "WORKING"
    /\ trade' = [trade EXCEPT !.xref = live.id]
    /\ Goto("done")
    /\ UNCHANGED <<family, order, grant, clock, outside, runs, faults>>

\* A statement of the dispatch fails: the store, the row moved between the read
\* and the UPDATE, or the UPDATE succeeded and only its answer was lost.
LiveStatementFails ==
    /\ faults < MaxFaults
    /\ \/ live.pc \in {"reserved", "submitted"} /\ Goto("error")
       \/ live.pc = "refused" /\ Goto("blocked")
       \/ /\ live.pc \in {"ack", "ackFill", "fill", "reject", "FILLED", "WORKING", "REJECTED"}
          /\ Uncertain("MAY_HAVE_REACHED_PROVIDER")
       \/ live.pc = "uncertain" /\ Goto("UNKNOWN")
       \/ /\ live.pc \in {"blocked", "error", "FILLED", "REJECTED", "UNKNOWN", "WORKING"}
          /\ Goto("done")
    /\ faults' = faults + 1
    /\ UNCHANGED <<family, rows, clock, outside, runs>>

LiveCrash ==
    /\ live.pc \notin {"done", "dead"}
    /\ Goto("dead")
    /\ answer' = NoAnswer
    /\ UNCHANGED <<family, rows, clock, provider, wire, placements, runs, faults>>

----------------------------------------------------------------------------
(* A reconciliation run over its connection.                               *)

RunOnly == UNCHANGED <<family, rows, clock, outside, live, faults>>
RunOrder == UNCHANGED <<family, trade, grant, clock, outside, live, faults>>
RunTrade == UNCHANGED <<family, order, grant, clock, outside, live, faults>>

ProviderOrder == [status |-> provider.status, filled |-> provider.filled, pid |-> "none"]
Listed == provider.visible /\ provider.status \in {"WORKING", "PARTIALLY_FILLED"}

\* Which copies a pass applies to.
TimedOutGuard(run) ==
    /\ family = "ctrader" /\ run.matched
    /\ run.trd.status \in {"PENDING", "RECONCILIATION_PENDING"}
    /\ run.trd.certainty = "MAY_HAVE_REACHED_PROVIDER"
    /\ run.trd.xref = "none" /\ ~run.trd.xpos
PositionsGuard(run) == run.trd.xref # "none" \/ run.trd.xpos
OrdersGuard(run) == run.ord.pid # "none"
CrashWindowGuard(run) == run.ord.status = "DISPATCH_COMMITTED" /\ run.ord.pid = "none"

\* Mutant: only CREATED reservations are recovered.
PreCommitmentGuard_CreatedOnly(run) == run.ord.status = "CREATED" /\ run.ord.pid = "none"

PreCommitmentGuard(run) ==
    run.ord.status \in {"CREATED", "SUBMITTED"} /\ run.ord.pid = "none"

\* The passes come in this order; one that does not apply is skipped.
OrderPass(run) ==
    CASE OrdersGuard(run) -> "orders"
      [] CrashWindowGuard(run) -> "crashWindow"
      [] PreCommitmentGuard(run) -> "preCommitment"
      [] OTHER -> "idle"
PositionPass(run) == IF PositionsGuard(run) THEN "positions" ELSE OrderPass(run)
FirstPass(run) == IF TimedOutGuard(run) THEN "timedOut" ELSE PositionPass(run)
Enter(run, pc) == IF pc = "idle" THEN IdleRun ELSE [run EXCEPT !.pc = pc, !.plan = "none"]
Continue(r, pc) == runs' = [runs EXCEPT ![r] = Enter(@, pc)]
End(r) == Continue(r, "idle")

\* The provider snapshot is taken before the internal rows are read.
ReadProvider(r) ==
    /\ runs[r].pc = "idle"
    /\ runs' = [runs EXCEPT
           ![r].pc = "rows",
           ![r].seen = IF Listed THEN ProviderOrder ELSE NoOrder,
           ![r].matched = provider.position = "open" /\ provider.filled = Requested]
    /\ RunOnly

\* Only RECONCILABLE orders and trades enter the sweep.
ReadRows(r) ==
    /\ runs[r].pc = "rows"
    /\ LET run == [runs[r] EXCEPT
               !.ord = IF order.status \in TerminalOrder THEN NoOrder ELSE order,
               !.trd = IF trade.status \in TerminalTrade THEN NoTrade ELSE trade]
       IN  runs' = [runs EXCEPT ![r] = Enter(run, FirstPass(run))]
    /\ RunOnly

\* recoverTradeToOpen: guarded by the copy's status, then resolveLinkedOrder.
RecoverTradeToOpen(r, next) ==
    IF trade.status = runs[r].trd.status
    THEN /\ trade' = [trade EXCEPT !.status = "OPEN", !.xpos = TRUE]
         /\ runs' = [runs EXCEPT ![r].pc = "link", ![r].plan = next,
                                 ![r].trd.status = "OPEN", ![r].trd.xpos = TRUE]
    ELSE trade' = trade /\ Continue(r, next)

\* recoverTimedOutProviderPositions: cTrader only, by instrument, side and size.
RecoverTimedOut(r) ==
    /\ runs[r].pc = "timedOut"
    /\ RecoverTradeToOpen(r, IF trade.status = runs[r].trd.status
                             THEN "positions" ELSE OrderPass(runs[r]))
    /\ RunTrade

\* resolveLinkedOrder: a RECONCILIATION_PENDING order becomes ACKNOWLEDGED.
ResolveLinkedOrder(r) ==
    /\ runs[r].pc = "link"
    /\ order' = IF order.status = "RECONCILIATION_PENDING"
                THEN Transition(order, "ACKNOWLEDGED", "none")
                ELSE order
    /\ Continue(r, runs[r].plan)
    /\ RunOrder

\* 7a's reference of the position: its own id, the one the order's record names,
\* or the order id, under which only the other families file the position.
PositionRef(t) ==
    IF \/ t.xpos
       \/ /\ t.status = "PENDING" /\ provider.visible
          /\ provider.status \in {"FILLED", "PARTIALLY_FILLED"}
    THEN "position" ELSE t.xref

PositionFound(ref) ==
    /\ provider.position = "open"
    /\ ref = "position" \/ (ref = "order" /\ family = "other")

\* Mutant: a trade with a reference is recovered whether or not the provider
\* still has the position.
PositionPlan_ByRef(t) ==
    IF t.status \in {"PENDING", "RECONCILIATION_PENDING"} THEN "open"
    ELSE IF PositionFound(PositionRef(t)) THEN "none" ELSE "close"

\* 7a's decision on a trade with a reference.
PositionPlan(t) ==
    IF PositionFound(PositionRef(t))
    THEN IF t.status \in {"PENDING", "RECONCILIATION_PENDING"} THEN "open" ELSE "none"
    ELSE IF t.status = "PENDING" THEN "none" ELSE "close"

\* 7a asks the provider for the position ...
CheckPosition(r) ==
    /\ runs[r].pc = "positions"
    /\ LET plan == PositionPlan(runs[r].trd)
       IN  runs' = [runs EXCEPT ![r] =
               IF plan = "none" THEN Enter(@, OrderPass(@))
               ELSE [@ EXCEPT !.pc = "applyPosition", !.plan = plan]]
    /\ RunOnly

\* ... and then recovers or closes the trade, guarded by the copy's status.
ApplyPosition(r) ==
    /\ runs[r].pc = "applyPosition"
    /\ IF runs[r].plan = "open"
       THEN RecoverTradeToOpen(r, OrderPass(runs[r]))
       ELSE /\ trade' = IF trade.status = runs[r].trd.status
                        THEN [trade EXCEPT !.status = "CLOSED"] ELSE trade
            /\ Continue(r, OrderPass(runs[r]))
    /\ RunTrade

\* 7b looks an order up by the provider id of its copy ...
OrderFound(id) == provider.visible /\ (id = "order" \/ family = "other")
LookUpOrder(r) ==
    /\ runs[r].pc = "orders"
    /\ runs' = [runs EXCEPT ![r] =
           IF OrderFound(@.ord.pid)
           THEN [@ EXCEPT !.pc = "applyOrder", !.seen = ProviderOrder]
           ELSE IdleRun]
    /\ RunOnly

\* ... and applies what it found.
ApplyOrder(r) ==
    /\ runs[r].pc = "applyOrder"
    /\ order' = Resolved(runs[r].ord, runs[r].seen, order)
    /\ End(r)
    /\ RunOrder

\* 7c, a committed order without provider id: by clientOrderId in the snapshot,
\* else RECONCILIATION_PENDING, the order first and then its PENDING trade.
CrashWindowOrder(r) ==
    /\ runs[r].pc = "crashWindow"
    /\ IF runs[r].seen.status # "none"
       THEN order' = Resolved(runs[r].ord, runs[r].seen, order) /\ End(r)
       ELSE /\ order' = Transition(order, "RECONCILIATION_PENDING", "none")
            /\ Continue(r, "crashWindowTrade")
    /\ RunOrder

CrashWindowTrade(r) ==
    /\ runs[r].pc = "crashWindowTrade"
    /\ trade' = IF runs[r].trd.status = "PENDING" /\ trade.status = "PENDING"
                THEN [trade EXCEPT !.status = "RECONCILIATION_PENDING",
                                   !.certainty = "MAY_HAVE_REACHED_PROVIDER"]
                ELSE trade
    /\ End(r)
    /\ RunTrade

\* Mutant: the sweep takes reservations however young they are.
GraceOver_Immediately == TRUE

\* 7d, a reservation past the grace window: the linked trade and grant are read
\* afresh; a consumed grant is never auto-rejected.
GraceOver == clock = 2
PreCommitmentTarget == IF grant = "CONSUMED" THEN "RECONCILIATION_PENDING" ELSE "REJECTED"
ReadPreCommitment(r) ==
    /\ runs[r].pc = "preCommitment"
    /\ runs' = [runs EXCEPT ![r] =
           IF GraceOver
           THEN [@ EXCEPT !.pc = "preCommitmentOrder", !.plan = PreCommitmentTarget,
                          !.trd = trade]
           ELSE IdleRun]
    /\ RunOnly

PreCommitmentOrder(r) ==
    /\ runs[r].pc = "preCommitmentOrder"
    /\ order' = Transition(order, runs[r].plan, "none")
    /\ Continue(r, IF /\ CanTransition(order, runs[r].plan)
                      /\ runs[r].plan = "REJECTED"
                      /\ runs[r].trd.status = "PENDING"
                   THEN "preCommitmentTrade" ELSE "idle")
    /\ RunOrder

PreCommitmentTrade(r) ==
    /\ runs[r].pc = "preCommitmentTrade"
    /\ trade' = IF trade.status = "PENDING"
                THEN [trade EXCEPT !.status = "REJECTED",
                                   !.certainty = "DEFINITELY_NOT_SENT"]
                ELSE trade
    /\ End(r)
    /\ RunTrade

\* The run is killed or its provider fails, or a statement throws and the loop
\* goes on with the next pass.
NextPass(run) ==
    CASE run.pc \in {"positions", "applyPosition"} -> OrderPass(run)
      [] run.pc = "link" -> run.plan
      [] run.pc = "crashWindow" /\ run.seen.status = "none" -> "crashWindowTrade"
      [] OTHER -> "idle"
RunFails(r) ==
    /\ faults < MaxFaults
    /\ runs[r].pc # "idle"
    /\ \E pc \in {"idle", NextPass(runs[r])} : Continue(r, pc)
    /\ faults' = faults + 1
    /\ UNCHANGED <<family, rows, clock, outside, live>>

----------------------------------------------------------------------------
(* The environment: time and the provider.                                 *)

\* The grant's 60 s end before the 5 min grace window of its order does.
Tick ==
    /\ clock < 2
    /\ clock' = clock + 1
    /\ UNCHANGED <<family, rows, outside, live, runs, faults>>

EnvOnly == UNCHANGED <<family, rows, clock, live, runs, faults>>

\* The placement arrives: rejected, accepted as working, or filled at once.  The
\* answer to a fill may lack its price or an id, the one to an acceptance its id.
OwnId == IF family = "ctrader" THEN "position" ELSE "order"
Replies ==
    [kind : {"REJECTED"}, qty : {0}, id : {"none"}]
        \union [kind : {"PENDING"}, qty : {0}, id : {"none", "order"}]
        \union [kind : {"FILLED", "UNPRICED"}, qty : 1 .. Requested, id : {"none", OwnId}]
FillStatus(filled) ==
    IF filled = 0 THEN "WORKING"
    ELSE IF filled = Requested THEN "FILLED" ELSE "PARTIALLY_FILLED"
Accepted(status, filled) ==
    [provider EXCEPT !.status = status, !.filled = filled,
                     !.position = IF filled > 0 THEN "open" ELSE "none"]
ProviderReceives ==
    /\ wire
    /\ wire' = FALSE
    /\ placements' = placements + 1
    /\ \E reply \in Replies :
           /\ provider' = Accepted(IF reply.kind = "REJECTED" THEN "REJECTED"
                                   ELSE FillStatus(reply.qty), reply.qty)
           /\ answer' = IF live.pc = "awaiting" THEN reply ELSE NoAnswer
    /\ EnvOnly

WireLost ==
    /\ wire
    /\ wire' = FALSE
    /\ UNCHANGED <<provider, answer, placements>>
    /\ EnvOnly

ProviderChange ==
    \/ /\ provider.status \in {"WORKING", "PARTIALLY_FILLED"}
       /\ provider.position # "closed"
       /\ provider' = Accepted(FillStatus(provider.filled + 1), provider.filled + 1)
    \/ /\ provider.status \in {"WORKING", "PARTIALLY_FILLED"}
       /\ provider' = [provider EXCEPT !.status = "CANCELLED"]
    \/ /\ provider.position = "open"
       /\ provider' = [provider EXCEPT !.position = "closed"]

ProviderMoves == ProviderChange /\ UNCHANGED <<wire, answer, placements>> /\ EnvOnly

\* The provider's order record becomes visible to queries.
ProviderSyncs ==
    /\ provider.status # "none" /\ ~provider.visible
    /\ provider' = [provider EXCEPT !.visible = TRUE]
    /\ UNCHANGED <<wire, answer, placements>>
    /\ EnvOnly

----------------------------------------------------------------------------
LiveStep ==
    \/ MarkSubmitted \/ Commit \/ Block \/ RejectRefused
    \/ ConnectFails \/ AttemptNotSent \/ PlaceOrder \/ CallUncertain \/ MapResponse
    \/ MarkAcknowledged \/ LiveFill \/ RejectByProvider \/ MarkUncertain
    \/ TradeBlocked \/ TradeError \/ TradeFilled \/ TradeRejected
    \/ TradeUnknown \/ TradeWorking

RunStep(r) ==
    \/ ReadProvider(r) \/ ReadRows(r) \/ RecoverTimedOut(r) \/ ResolveLinkedOrder(r)
    \/ CheckPosition(r) \/ ApplyPosition(r) \/ LookUpOrder(r) \/ ApplyOrder(r)
    \/ CrashWindowOrder(r) \/ CrashWindowTrade(r)
    \/ ReadPreCommitment(r) \/ PreCommitmentOrder(r) \/ PreCommitmentTrade(r)

Environment == Tick \/ ProviderReceives \/ WireLost \/ ProviderMoves \/ ProviderSyncs

Next ==
    \/ LiveStep \/ CommitAckLost \/ LiveStatementFails \/ LiveCrash
    \/ \E r \in Runs : RunStep(r) \/ RunFails(r)
    \/ Environment

Spec == Init /\ [][Next]_vars

\* The repeatable job keeps running, time passes, the provider's record becomes
\* visible, and a dispatch that was not killed takes its next step.
FairSpec ==
    /\ Spec
    /\ WF_vars(LiveStep)
    /\ \A r \in Runs : WF_vars(RunStep(r))
    /\ WF_vars(Tick)
    /\ WF_vars(ProviderSyncs)

----------------------------------------------------------------------------
(* Properties.                                                             *)

OrderRow == [status : OrderStatus, filled : 0 .. Requested, pid : Id]
TradeRow == [status : TradeStatus, certainty : Certainty, xref : Id, xpos : BOOLEAN]
ProviderStatus == {"none", "WORKING", "PARTIALLY_FILLED", "FILLED", "CANCELLED", "REJECTED"}

\* The rows, the provider and the processes keep to their value sets; a fill
\* never exceeds the requested quantity.
TypeOK ==
    /\ family \in Families
    /\ order \in OrderRow
    /\ trade \in TradeRow
    /\ grant \in {"ACTIVE", "CONSUMED"}
    /\ clock \in 0 .. 2
    /\ provider \in [status : ProviderStatus, filled : 0 .. Requested,
                     position : {"none", "open", "closed"}, visible : BOOLEAN]
    /\ wire \in BOOLEAN
    /\ answer \in [kind : {"none", "REJECTED", "PENDING", "FILLED", "UNPRICED"},
                   qty : 0 .. Requested, id : Id]
    /\ placements \in Nat
    /\ live \in [pc : {"reserved", "submitted", "committed", "awaiting", "ack", "ackFill",
                       "fill", "reject", "uncertain", "refused", "blocked", "error",
                       "FILLED", "WORKING", "REJECTED", "UNKNOWN", "done", "dead"},
                 certainty : Certainty, attempt : 0 .. MAX_RETRY_ATTEMPTS - 1,
                 qty : 0 .. Requested, id : Id]
    /\ runs \in [Runs -> [pc : {"idle", "rows", "timedOut", "link", "positions",
                                "applyPosition", "orders", "applyOrder", "crashWindow",
                                "crashWindowTrade", "preCommitment", "preCommitmentOrder",
                                "preCommitmentTrade"},
                          seen : [status : ProviderStatus, filled : 0 .. Requested,
                                  pid : {"none"}],
                          matched : BOOLEAN,
                          ord : OrderRow \union {NoOrder},
                          trd : TradeRow \union {NoTrade},
                          plan : {"none", "idle", "positions", "orders", "crashWindow",
                                  "preCommitment", "open", "close",
                                  "REJECTED", "RECONCILIATION_PENDING"}]]
    /\ faults \in 0 .. MaxFaults

\* The provider is asked for the position at most once: withRetry resends only
\* what provably never left, whatever times out, fails or is reconciled.
AtMostOnePlacement == placements + (IF wire THEN 1 ELSE 0) <= 1

\* A trade stamped DEFINITELY_NOT_SENT releases its capacity reservation: its
\* order is not at the provider and not on its way there, although 7d stamps
\* it from stale copies while the dispatch may still be running.
NotSentIsTrue ==
    trade.certainty = "DEFINITELY_NOT_SENT" => placements = 0 /\ ~wire

\* A trade is REJECTED, by the dispatch or by 7d, only when no position can
\* come of it: the order never reached the provider, or the provider refused it.
RejectedTradeHasNoPosition ==
    trade.status = "REJECTED" =>
        ~wire /\ (placements = 0 \/ provider.status = "REJECTED")

\* Neither row invents exposure: a fill is recorded and a trade is OPEN only
\* when the provider has filled something.
ExposureIsReal ==
    order.filled > 0 \/ trade.status = "OPEN" => provider.filled > 0

\* No writer, however stale its copy, moves a row out of a terminal state.
TerminalIsFinal ==
    [][/\ order.status \in TerminalOrder => order'.status = order.status
       /\ trade.status \in TerminalTrade => trade'.status = trade.status]_vars

\* A reservation abandoned before the commitment is converged by a later run.
ReservationConverges ==
    order.status \in {"CREATED", "SUBMITTED"} ~> order.status \notin {"CREATED", "SUBMITTED"}

\* reconciliation-resolution.service.ts, "never double-applies": the order's
\* recorded fill is at most what the provider filled.
FillNotDoubled == order.filled <= provider.filled

\* state-reconciliation.service.ts 7c, "fail-closed, never auto-close": a trade
\* is CLOSED only when the provider's position is closed.  Not kept when 7c meets
\* a dispatch that is waiting for its answer.
ClosedIsClosed == trade.status = "CLOSED" => provider.position = "closed"

\* state-reconciliation.service.ts 7c, "Every later cycle re-attempts (a) --
\* sync lag heals": an uncertain order working at the provider is recognised.
\* Not kept: the fallback takes the order out of every later pass.
SyncLagHeals ==
    (order.status = "RECONCILIATION_PENDING" /\ provider.status = "WORKING")
        ~> (order.status # "RECONCILIATION_PENDING" \/ provider.status # "WORKING")
=============================================================================
