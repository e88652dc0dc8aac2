------------------------ MODULE OrderLifecycleProofs ------------------------
(***************************************************************************)
(* Proofs about the order and its trade, for every requested quantity,     *)
(* every set of overlapping reconciliation runs and every number of        *)
(* faults: type correctness, that a terminal row stays as it is, that the  *)
(* provider is asked at most once, and that what the rows say of the       *)
(* provider (not sent, refused, exposed) is true.                          *)
(***************************************************************************)
EXTENDS OrderLifecycle, TLAPS

----------------------------------------------------------------------------
(* The inductive invariant.                                                *)

\* A placement has left: it is on its way to the provider or arrived there.
Sent == wire \/ placements # 0

\* The steps of the dispatch before placeOrder, and the ones at which the grant
\* is not consumed.
PreSend == {"reserved", "submitted", "committed", "refused", "blocked", "error"}
PreCommit == {"reserved", "submitted", "refused", "blocked", "error", "done", "dead"}

\* Nothing was sent and nothing will be: the dispatch is past its placement, or
\* its grant ran out before the commitment.
Unsendable ==
    /\ ~Sent
    /\ live.pc # "committed"
    /\ live.pc \in {"reserved", "submitted"} => clock > 0

\* The provider refused the one placement there was.
Refused == ~wire /\ placements # 0 /\ provider.status = "REJECTED"

\* The provider knows nothing before the placement arrives; an open or closed
\* position has a fill behind it, and an order that still works room for one.
ProviderInv ==
    /\ placements = 0 => /\ provider.status = "none" /\ provider.filled = 0
                         /\ provider.position = "none"
                         /\ answer = NoAnswer
    /\ provider.position # "none" => provider.filled > 0
    /\ provider.status \in {"WORKING", "PARTIALLY_FILLED"} => provider.filled < Requested

\* One placement, after the commitment consumed the grant.
SendInv ==
    /\ AtMostOnePlacement
    /\ live.pc \in PreSend => ~Sent
    /\ grant = "ACTIVE" => ~Sent /\ live.pc \in PreCommit

\* What the dispatch believes of the provider is true.
LiveInv ==
    /\ live.certainty = "DEFINITELY_NOT_SENT" =>
           ~Sent /\ live.pc \in {"uncertain", "UNKNOWN", "done", "dead"}
    /\ live.pc = "blocked" => ~Sent
    /\ answer.kind = "REJECTED" \/ live.pc \in {"reject", "REJECTED"} => Refused
    /\ answer.kind = "FILLED" => provider.filled > 0
    /\ live.pc \in {"ackFill", "fill", "FILLED"} \/ live.qty > 0 => provider.filled > 0

\* What a reconciliation run believes is true, however old its copies are.
Believes(run) ==
    /\ run.pc = "link" =>
           run.plan \in {"idle", "positions", "orders", "crashWindow", "preCommitment"}
    /\ run.pc \notin {"preCommitmentOrder", "preCommitmentTrade"} =>
           run.trd.status \notin TerminalTrade
    /\ run.seen.filled > 0 => provider.filled > 0
    /\ run.matched => provider.filled > 0
    /\ run.pc = "timedOut" => run.matched
    /\ run.pc = "applyPosition" /\ run.plan = "open" => provider.filled > 0
    /\ run.pc = "preCommitmentOrder" /\ run.plan = "REJECTED" => clock = 2 /\ grant = "ACTIVE"
    /\ run.pc = "preCommitmentTrade" => Unsendable

RunInv(r) == Believes(runs[r])

\* What the trade's row says is true.
RowInv ==
    /\ trade.certainty = "DEFINITELY_NOT_SENT" => Unsendable
    /\ trade.status = "REJECTED" => Unsendable \/ Refused
    /\ ExposureIsReal

IInv ==
    /\ TypeOK
    /\ ProviderInv
    /\ SendInv
    /\ LiveInv
    /\ \A r \in Runs : RunInv(r)
    /\ RowInv

----------------------------------------------------------------------------
(* The operators the two state machines are built from.                    *)

Seen == [status : ProviderStatus, filled : 0 .. Requested, pid : {"none"}]

Pass == {"idle", "positions", "orders", "crashWindow", "preCommitment"}

Steps == {"idle", "rows", "timedOut", "link", "positions", "applyPosition", "orders",
          "applyOrder", "crashWindow", "crashWindowTrade", "preCommitment",
          "preCommitmentOrder", "preCommitmentTrade"}

Run == [pc : Steps, seen : Seen, matched : BOOLEAN, ord : OrderRow \union {NoOrder},
        trd : TradeRow \union {NoTrade},
        plan : {"none", "idle", "positions", "orders", "crashWindow", "preCommitment",
                "open", "close", "REJECTED", "RECONCILIATION_PENDING"}]

Live == [pc : {"reserved", "submitted", "committed", "awaiting", "ack", "ackFill",
               "fill", "reject", "uncertain", "refused", "blocked", "error",
               "FILLED", "WORKING", "REJECTED", "UNKNOWN", "done", "dead"},
         certainty : Certainty, attempt : 0 .. MAX_RETRY_ATTEMPTS - 1,
         qty : 0 .. Requested, id : Id]

\* The tables lead from a state to states, and out of a terminal state nowhere.
LEMMA Tables ==
    /\ \A s : OrderTransitions(s) \subseteq OrderStatus
    /\ \A s \in TerminalOrder : OrderTransitions(s) = {}
    /\ \A s \in TerminalTrade : TradeTransitions(s) = {}
<1>1. \A s : OrderTransitions(s) \subseteq OrderStatus
    BY DEF OrderTransitions, InFlight, OrderStatus, TerminalOrder
<1>2. \A s \in TerminalOrder : OrderTransitions(s) = {}
    BY DEF OrderTransitions, TerminalOrder
<1>3. \A s \in TerminalTrade : TradeTransitions(s) = {}
    BY DEF TradeTransitions, TerminalTrade
<1> QED
    BY <1>1, <1>2, <1>3

\* applyTransition keeps the row a row and its fill, and leaves a terminal one alone.
LEMMA TransitionFacts ==
    ASSUME NEW o \in OrderRow, NEW to, NEW id \in Id
    PROVE  /\ Transition(o, to, id) \in OrderRow
           /\ Transition(o, to, id).filled = o.filled
           /\ o.status \in TerminalOrder => Transition(o, to, id) = o
BY Tables DEF Transition, CanTransition, OrderRow

\* applyFill keeps the row a row, leaves a terminal one alone, and records a fill
\* only when there was one or it is given one.
LEMMA ApplyFillFacts ==
    ASSUME NEW o \in OrderRow, NEW qty \in Nat, NEW id \in Id
    PROVE  /\ ApplyFill(o, qty, id) \in OrderRow
           /\ ApplyFill(o, qty, id).filled > 0 => o.filled > 0 \/ qty > 0
           /\ o.status \in TerminalOrder => ApplyFill(o, qty, id) = o
<1> USE RequestedAssumption
<1>1. CASE ~CanFill(o, qty)
    BY <1>1 DEF ApplyFill, OrderRow
<1>2. CASE CanFill(o, qty)
    <2>1. o.status \notin TerminalOrder
        BY <1>2 DEF CanFill, IsFillable, TerminalOrder
    <2>2. o.filled + qty \in 0 .. Requested
        BY <1>2 DEF CanFill, OrderRow
    <2> QED
        BY <1>2, <2>1, <2>2 DEF ApplyFill, OrderRow, OrderStatus, TerminalOrder
<1> QED
    BY <1>1, <1>2

\* So does resolveOrderFromProviderState: what it records, the provider reported.
LEMMA ResolvedFacts ==
    ASSUME NEW copy \in OrderRow \union {NoOrder}, NEW seen \in Seen, NEW o \in OrderRow
    PROVE  /\ Resolved(copy, seen, o) \in OrderRow
           /\ Resolved(copy, seen, o).filled > 0 => o.filled > 0 \/ seen.filled > 0
           /\ o.status \in TerminalOrder => Resolved(copy, seen, o) = o
<1> DEFINE res == Resolved(copy, seen, o)
<1>1. copy.filled \in Nat /\ seen.filled \in Nat /\ "order" \in Id
    BY RequestedAssumption DEF OrderRow, NoOrder, Seen, Id
<1>2. \/ res = o
      \/ \E to : res = Transition(o, to, "order")
      \/ /\ seen.filled > copy.filled
         /\ res = ApplyFill(o, seen.filled - copy.filled, "order")
    BY DEF Resolved, FillState
<1>3. CASE res = o
    BY <1>3 DEF OrderRow
<1>4. CASE \E to : res = Transition(o, to, "order")
    BY <1>1, <1>4, TransitionFacts
<1>5. CASE seen.filled > copy.filled /\ res = ApplyFill(o, seen.filled - copy.filled, "order")
    <2>1. seen.filled - copy.filled \in Nat /\ seen.filled > 0
        BY <1>1, <1>5
    <2> QED
        BY <1>1, <1>5, <2>1, ApplyFillFacts
<1> QED
    BY <1>2, <1>3, <1>4, <1>5

\* A pass of a run leads to a pass, and entering one keeps the run a run.
LEMMA PassFacts ==
    ASSUME NEW run \in Run
    PROVE  /\ OrderPass(run) \in Pass
           /\ FirstPass(run) \in Pass \union {"timedOut"}
           /\ FirstPass(run) = "timedOut" => run.matched
           /\ \A pc \in Steps : Enter(run, pc) \in Run
           /\ IdleRun \in Run
<1>1. OrderPass(run) \in Pass
    BY DEF OrderPass, Pass
<1>2. FirstPass(run) \in Pass \union {"timedOut"} /\ (FirstPass(run) = "timedOut" => run.matched)
    BY <1>1 DEF FirstPass, PositionPass, TimedOutGuard, Pass
<1>3. IdleRun \in Run
    BY RequestedAssumption DEF IdleRun, Run, Steps, Seen, NoOrder, NoTrade, ProviderStatus
<1>4. \A pc \in Steps : Enter(run, pc) \in Run
    BY <1>3 DEF Enter, Run
<1> QED
    BY <1>1, <1>2, <1>3, <1>4

----------------------------------------------------------------------------
(* Types.                                                                  *)

ProviderRow == [status : ProviderStatus, filled : 0 .. Requested,
                position : {"none", "open", "closed"}, visible : BOOLEAN]

Answer == [kind : {"none", "REJECTED", "PENDING", "FILLED", "UNPRICED"},
           qty : 0 .. Requested, id : Id]

Typed ==
    /\ family \in Families
    /\ order \in OrderRow /\ trade \in TradeRow
    /\ grant \in {"ACTIVE", "CONSUMED"} /\ clock \in 0 .. 2
    /\ provider \in ProviderRow /\ wire \in BOOLEAN /\ answer \in Answer
    /\ placements \in Nat /\ live \in Live
    /\ runs \in [Runs -> Run] /\ faults \in 0 .. MaxFaults

\* The type invariant by the names used here.
LEMMA TypeParts == (TypeOK <=> Typed) /\ (TypeOK' <=> Typed')
<1>1. TypeOK <=> Typed
    BY DEF TypeOK, Typed, ProviderRow, Answer, Live, Run, Steps, Seen
<1>2. TypeOK' <=> Typed'
    BY DEF TypeOK, Typed, ProviderRow, Answer, Live, Run, Steps, Seen
<1> QED
    BY <1>1, <1>2

\* The dispatch moves within its steps.
LEMMA LiveMoves ==
    ASSUME live \in Live
    PROVE  /\ \A pc \in {"submitted", "committed", "awaiting", "uncertain", "refused",
                         "blocked", "error", "reject", "fill", "WORKING", "REJECTED",
                         "UNKNOWN", "done", "dead"} : Goto(pc) => live' \in Live
           /\ \A c \in Certainty : Uncertain(c) => live' \in Live
<1>1. \A pc \in {"submitted", "committed", "awaiting", "uncertain", "refused",
                 "blocked", "error", "reject", "fill", "WORKING", "REJECTED",
                 "UNKNOWN", "done", "dead"} : Goto(pc) => live' \in Live
    BY DEF Goto, Live
<1>2. \A c \in Certainty : Uncertain(c) => live' \in Live
    BY DEF Uncertain, Live
<1> QED
    BY <1>1, <1>2

\* A step of the dispatch, a fault of it and its end keep the types.
LEMMA LiveType ==
    ASSUME TypeOK, LiveStep \/ CommitAckLost \/ LiveStatementFails \/ LiveCrash
    PROVE  TypeOK'
<1> USE RequestedAssumption, FaultsAssumption
<1>t. Typed
    BY TypeParts
<1> USE DEF Typed
<1>n. NoAnswer \in Answer /\ "none" \in Id /\ live.id \in Id /\ live.qty \in Nat
      /\ {"DEFINITELY_NOT_SENT", "MAY_HAVE_REACHED_PROVIDER", live.certainty} \subseteq Certainty
    BY <1>t DEF NoAnswer, Answer, Id, Live, Certainty
<1>m. ApplyFill(order, live.qty, live.id) \in OrderRow
    BY <1>t, <1>n, ApplyFillFacts
<1>k. \A to : Transition(order, to, "none") \in OrderRow /\ Transition(order, to, live.id) \in OrderRow
    BY <1>t, <1>n, TransitionFacts
<1>1. CASE MarkSubmitted \/ Block \/ RejectRefused \/ MarkUncertain \/ RejectByProvider
    <2>1. live' \in Live
        BY <1>1, <1>t, <1>n, LiveMoves
        DEF MarkSubmitted, Block, RejectRefused, MarkUncertain, RejectByProvider, OrStep
    <2>2. order' \in OrderRow
        BY <1>1, <1>t, <1>k DEF MarkSubmitted, Block, RejectRefused, MarkUncertain,
           RejectByProvider, LiveOnly, rows
    <2>3. UNCHANGED <<family, trade, grant, clock, outside, runs, faults>>
        BY <1>1 DEF MarkSubmitted, Block, RejectRefused, MarkUncertain, RejectByProvider,
           LiveOrder, LiveOnly, rows
    <2> QED
        BY <1>t, <2>1, <2>2, <2>3, TypeParts DEF outside
<1>2. CASE Commit \/ CommitAckLost
    <2>1. live' \in Live
        BY <1>2, <1>t, LiveMoves DEF Commit, CommitAckLost
    <2>2. order' \in OrderRow /\ grant' \in {"ACTIVE", "CONSUMED"}
        BY <1>2, <1>t DEF Commit, CommitAckLost, Commitment, OrderRow, OrderStatus
    <2>3. faults' \in 0 .. MaxFaults
        BY <1>2, <1>t DEF Commit, CommitAckLost
    <2>4. UNCHANGED <<family, trade, clock, outside, runs>>
        BY <1>2 DEF Commit, CommitAckLost
    <2> QED
        BY <1>t, <2>1, <2>2, <2>3, <2>4, TypeParts DEF outside
<1>3. CASE ConnectFails \/ AttemptNotSent
    <2>1. live' \in Live
        <3>1. CASE ConnectFails
            BY <1>t, <3>1, LiveMoves DEF ConnectFails
        <3>2. CASE AttemptNotSent
            BY <1>t, <1>n, <3>2, LiveMoves DEF AttemptNotSent, Live, MAX_RETRY_ATTEMPTS
        <3> QED
            BY <1>3, <3>1, <3>2
    <2>2. LiveOnly
        BY <1>3 DEF ConnectFails, AttemptNotSent
    <2> QED
        BY <1>t, <2>1, <2>2, TypeParts DEF LiveOnly, rows, outside
<1>4. CASE PlaceOrder \/ CallUncertain \/ MapResponse \/ LiveCrash
    <2>1. live' \in Live
        <3>1. CASE MapResponse
            <4>1. answer.id \in Id /\ answer.qty \in 0 .. Requested
                BY <1>t DEF Answer
            <4>2. \/ live' = [live EXCEPT !.pc = IF answer.id = "none" THEN "fill" ELSE "ackFill",
                                          !.qty = answer.qty, !.id = answer.id]
                  \/ live' = [live EXCEPT !.pc = "ack", !.id = answer.id]
                  \/ Goto("reject")
                  \/ Uncertain("MAY_HAVE_REACHED_PROVIDER")
                BY <3>1 DEF MapResponse
            <4> QED
                BY <1>t, <1>n, <4>1, <4>2, LiveMoves DEF Live
        <3>2. CASE PlaceOrder \/ CallUncertain \/ LiveCrash
            BY <1>t, <1>n, <3>2, LiveMoves DEF PlaceOrder, CallUncertain, LiveCrash
        <3> QED
            BY <1>4, <3>1, <3>2
    <2>2. answer' \in Answer /\ wire' \in BOOLEAN
        BY <1>4, <1>t, <1>n DEF PlaceOrder, CallUncertain, MapResponse, LiveCrash
    <2>3. UNCHANGED <<family, rows, clock, provider, placements, runs, faults>>
        BY <1>4 DEF PlaceOrder, CallUncertain, MapResponse, LiveCrash
    <2> QED
        BY <1>t, <2>1, <2>2, <2>3, TypeParts DEF rows
<1>5. CASE MarkAcknowledged
    BY <1>5, <1>t, <1>n, <1>k, LiveMoves, TypeParts DEF MarkAcknowledged, OrStep, LiveOrder, outside
<1>6. CASE LiveFill
    <2>1. order' \in OrderRow
        BY <1>6, <1>m DEF LiveFill
    <2>2. live' \in Live
        BY <1>6, <2>1, <1>t, <1>n, LiveMoves DEF LiveFill, Live, OrderRow
    <2> QED
        BY <1>6, <1>t, <2>1, <2>2, TypeParts DEF LiveFill, LiveOrder, outside
<1>7. CASE TradeBlocked \/ TradeError \/ TradeFilled \/ TradeRejected \/ TradeUnknown \/ TradeWorking
    <2>1. live' \in Live
        BY <1>7, <1>t, LiveMoves DEF TradeBlocked, TradeError, TradeFilled, TradeRejected,
           TradeUnknown, TradeWorking, TradeOutcome
    <2>2. trade' \in TradeRow
        BY <1>7, <1>t, <1>n DEF TradeBlocked, TradeError, TradeFilled, TradeRejected,
           TradeUnknown, TradeWorking, TradeOutcome, TradeCas, TradeRow, TradeStatus, TerminalTrade
    <2>3. UNCHANGED <<family, order, grant, clock, outside, runs, faults>>
        BY <1>7 DEF TradeBlocked, TradeError, TradeFilled, TradeRejected,
           TradeUnknown, TradeWorking, TradeOutcome
    <2> QED
        BY <1>t, <2>1, <2>2, <2>3, TypeParts DEF outside
<1>8. CASE LiveStatementFails
    <2>1. live' \in Live
        BY <1>8, <1>t, <1>n, LiveMoves DEF LiveStatementFails
    <2>2. faults' \in 0 .. MaxFaults
        BY <1>8, <1>t DEF LiveStatementFails
    <2> QED
        BY <1>8, <1>t, <2>1, <2>2, TypeParts DEF LiveStatementFails, rows, outside
<1> QED
    BY <1>1, <1>2, <1>3, <1>4, <1>5, <1>6, <1>7, <1>8 DEF LiveStep

\* A reconciliation run goes on with a pass, or ends.
LEMMA RunMoves ==
    ASSUME NEW r \in Runs, runs \in [Runs -> Run]
    PROVE  /\ runs[r] \in Run
           /\ \A pc \in Steps : Continue(r, pc) => runs' \in [Runs -> Run]
           /\ End(r) => runs' \in [Runs -> Run]
<1>1. runs[r] \in Run
    OBVIOUS
<1>2. \A pc \in Steps : Continue(r, pc) => runs' \in [Runs -> Run]
    <2>1. \A pc \in Steps : Enter(runs[r], pc) \in Run
        BY <1>1, PassFacts
    <2> QED
        BY <2>1 DEF Continue
<1> QED
    BY <1>1, <1>2 DEF End, Steps

\* A step of a reconciliation run and its failure keep the types.
LEMMA RunType ==
    ASSUME TypeOK, NEW r \in Runs, RunInv(r), RunStep(r) \/ RunFails(r)
    PROVE  TypeOK'
<1> USE RequestedAssumption, FaultsAssumption DEF Typed
<1>t. Typed
    BY TypeParts
<1>r. /\ runs[r] \in Run
      /\ \A pc \in Steps : Continue(r, pc) => runs' \in [Runs -> Run]
      /\ End(r) => runs' \in [Runs -> Run]
    BY <1>t, RunMoves
<1>p. /\ Pass \subseteq Steps /\ OrderPass(runs[r]) \in Pass
      /\ OrderPass(runs[r]) \in Steps /\ IdleRun \in Run /\ "none" \in Id
      /\ runs[r].pc = "link" => runs[r].plan \in Pass
    BY <1>r, PassFacts DEF Pass, Steps, Id, RunInv, Believes
<1>s. ProviderOrder \in Seen /\ NoOrder \in Seen
    BY <1>t DEF ProviderOrder, Seen, ProviderRow, NoOrder, ProviderStatus
<1>o. /\ \A to : Transition(order, to, "none") \in OrderRow
      /\ Resolved(runs[r].ord, runs[r].seen, order) \in OrderRow
    BY <1>t, <1>r, <1>p, TransitionFacts, ResolvedFacts DEF Run
<1>c. \A pc \in Pass : RecoverTradeToOpen(r, pc) =>
          trade' \in TradeRow /\ runs' \in [Runs -> Run]
    <2> SUFFICES ASSUME NEW pc \in Pass, RecoverTradeToOpen(r, pc)
                 PROVE  trade' \in TradeRow /\ runs' \in [Runs -> Run]
        OBVIOUS
    <2>1. CASE trade.status = runs[r].trd.status
        <3>1. runs[r].trd \in TradeRow
            BY <1>t, <1>r, <2>1 DEF Run, TradeRow, NoTrade, TradeStatus, TerminalTrade
        <3>2. [runs[r] EXCEPT !.pc = "link", !.plan = pc, !.trd.status = "OPEN",
                              !.trd.xpos = TRUE] \in Run
            BY <1>r, <3>1 DEF Run, Steps, Pass, TradeRow, TradeStatus
        <3> DEFINE s == [runs[r] EXCEPT !.pc = "link", !.plan = pc, !.trd.status = "OPEN",
                              !.trd.xpos = TRUE]
        <3>3. runs' = [runs EXCEPT ![r] = s]
            BY <1>t, <2>1 DEF RecoverTradeToOpen
        <3>4. trade' \in TradeRow
            BY <1>t, <2>1 DEF RecoverTradeToOpen, TradeRow, TradeStatus
        <3> HIDE DEF s
        <3> QED
            BY <1>t, <3>2, <3>3, <3>4 DEF s
    <2>2. CASE trade.status # runs[r].trd.status
        BY <1>t, <1>r, <1>p, <2>2 DEF RecoverTradeToOpen
    <2> QED
        BY <2>1, <2>2
<1>1. CASE ReadProvider(r)
    BY <1>1, <1>t, <1>r, <1>s, TypeParts DEF ReadProvider, RunOnly, rows, outside, Run, Steps
<1>2. CASE ReadRows(r)
    <2> DEFINE run == [runs[r] EXCEPT
               !.ord = IF order.status \in TerminalOrder THEN NoOrder ELSE order,
               !.trd = IF trade.status \in TerminalTrade THEN NoTrade ELSE trade]
    <2>1. run \in Run
        BY <1>t, <1>r DEF Run
    <2>2. runs' = [runs EXCEPT ![r] = Enter(run, FirstPass(run))]
        BY <1>2 DEF ReadRows
    <2> HIDE DEF run
    <2>3. FirstPass(run) \in Steps
        BY <2>1, PassFacts DEF Pass, Steps
    <2>4. Enter(run, FirstPass(run)) \in Run
        BY <2>1, <2>3, PassFacts
    <2> QED
        BY <1>2, <1>t, <2>2, <2>4, TypeParts DEF ReadRows, RunOnly, rows, outside
<1>3. CASE RecoverTimedOut(r)
    <2>1. RecoverTradeToOpen(r, IF trade.status = runs[r].trd.status
                                THEN "positions" ELSE OrderPass(runs[r]))
        BY <1>3 DEF RecoverTimedOut
    <2>2. (IF trade.status = runs[r].trd.status THEN "positions" ELSE OrderPass(runs[r])) \in Pass
        BY <1>p DEF Pass
    <2>3. trade' \in TradeRow /\ runs' \in [Runs -> Run]
        BY <1>c, <2>1, <2>2
    <2> QED
        BY <1>3, <1>t, <2>3, TypeParts DEF RecoverTimedOut, RunTrade, outside
<1>4. CASE ResolveLinkedOrder(r)
    BY <1>4, <1>t, <1>r, <1>p, <1>o, TypeParts DEF ResolveLinkedOrder, RunOrder, outside
<1>5. CASE CheckPosition(r)
    <2>1. PositionPlan(runs[r].trd) \in {"none", "open", "close"}
        BY DEF PositionPlan
    <2>2. \A plan \in {"open", "close"} :
              [runs[r] EXCEPT !.pc = "applyPosition", !.plan = plan] \in Run
        BY <1>r DEF Run, Steps
    <2>3. Enter(runs[r], OrderPass(runs[r])) \in Run
        BY <1>r, <1>p, PassFacts
    <2> QED
        BY <1>5, <1>t, <2>1, <2>2, <2>3, TypeParts DEF CheckPosition, RunOnly, rows, outside
<1>6. CASE ApplyPosition(r)
    <2>1. trade' \in TradeRow /\ runs' \in [Runs -> Run]
        <3>1. CASE runs[r].plan = "open"
            BY <1>6, <1>c, <1>p, <3>1 DEF ApplyPosition
        <3>2. CASE runs[r].plan # "open"
            BY <1>6, <1>t, <1>r, <1>p, <3>2
            DEF ApplyPosition, TradeRow, TradeStatus, TerminalTrade
        <3> QED
            BY <3>1, <3>2
    <2> QED
        BY <1>6, <1>t, <2>1, TypeParts DEF ApplyPosition, RunTrade, outside
<1>7. CASE LookUpOrder(r)
    <2>1. [runs[r] EXCEPT !.pc = "applyOrder", !.seen = ProviderOrder] \in Run
        BY <1>r, <1>s DEF Run, Steps
    <2> QED
        BY <1>7, <1>t, <1>p, <2>1, TypeParts DEF LookUpOrder, RunOnly, rows, outside
<1>8. CASE ApplyOrder(r) \/ CrashWindowOrder(r) \/ PreCommitmentOrder(r)
    <2>1. order' \in OrderRow
        BY <1>8, <1>o DEF ApplyOrder, CrashWindowOrder, PreCommitmentOrder
    <2>2. runs' \in [Runs -> Run]
        BY <1>8, <1>r DEF ApplyOrder, CrashWindowOrder, PreCommitmentOrder, Steps
    <2>3. RunOrder
        BY <1>8 DEF ApplyOrder, CrashWindowOrder, PreCommitmentOrder
    <2> QED
        BY <1>t, <2>1, <2>2, <2>3, TypeParts DEF RunOrder, outside
<1>9. CASE CrashWindowTrade(r) \/ PreCommitmentTrade(r)
    <2>1. trade' \in TradeRow
        BY <1>9, <1>t DEF CrashWindowTrade, PreCommitmentTrade, TradeRow, TradeStatus,
           TerminalTrade, Certainty
    <2> QED
        BY <1>9, <1>t, <1>r, <2>1, TypeParts
        DEF CrashWindowTrade, PreCommitmentTrade, RunTrade, outside
<1>10. CASE ReadPreCommitment(r)
    <2>1. [runs[r] EXCEPT !.pc = "preCommitmentOrder", !.plan = PreCommitmentTarget,
                          !.trd = trade] \in Run
        BY <1>t, <1>r DEF Run, Steps, PreCommitmentTarget
    <2> QED
        BY <1>10, <1>t, <1>p, <2>1, TypeParts DEF ReadPreCommitment, RunOnly, rows, outside
<1>11. CASE RunFails(r)
    <2>1. NextPass(runs[r]) \in Steps /\ "idle" \in Steps
        BY <1>p DEF NextPass, Steps
    <2>2. runs' \in [Runs -> Run]
        BY <1>11, <1>r, <2>1 DEF RunFails
    <2>3. faults' \in 0 .. MaxFaults
        BY <1>11, <1>t DEF RunFails
    <2> QED
        BY <1>11, <1>t, <2>2, <2>3, TypeParts DEF RunFails, rows, outside
<1> QED
    BY <1>1, <1>2, <1>3, <1>4, <1>5, <1>6, <1>7, <1>8, <1>9, <1>10, <1>11 DEF RunStep

\* Time and the provider keep the types: an order that still works has room for
\* one more unit.
LEMMA EnvironmentType ==
    ASSUME TypeOK, ProviderInv, Environment
    PROVE  TypeOK'
<1> USE RequestedAssumption DEF Typed
<1>t. Typed
    BY TypeParts
<1>f. \A n \in 0 .. Requested : FillStatus(n) \in ProviderStatus
    BY DEF FillStatus, ProviderStatus
<1>a. \A n \in 0 .. Requested : \A s \in ProviderStatus : Accepted(s, n) \in ProviderRow
    BY <1>t DEF Accepted, ProviderRow
<1>1. CASE Tick
    BY <1>1, <1>t, TypeParts DEF Tick, rows, outside
<1>2. CASE ProviderReceives
    <2>1. Replies \subseteq Answer /\ NoAnswer \in Answer
        BY DEF Replies, Answer, OwnId, Id, NoAnswer
    <2>2. PICK reply \in Replies :
              /\ provider' = Accepted(IF reply.kind = "REJECTED" THEN "REJECTED"
                                      ELSE FillStatus(reply.qty), reply.qty)
              /\ answer' = IF live.pc = "awaiting" THEN reply ELSE NoAnswer
        BY <1>2 DEF ProviderReceives
    <2>3. reply.qty \in 0 .. Requested
        BY <2>1 DEF Answer
    <2>4. provider' \in ProviderRow
        BY <1>a, <1>f, <2>2, <2>3 DEF ProviderStatus
    <2>5. answer' \in Answer
        BY <2>1, <2>2
    <2>6. /\ wire' = FALSE /\ placements' = placements + 1
          /\ UNCHANGED <<family, order, trade, grant, clock, live, runs, faults>>
        BY <1>2 DEF ProviderReceives, EnvOnly, rows
    <2>7. placements' \in Nat
        BY <1>t, <2>6
    <2>8. wire' \in BOOLEAN
        BY <2>6
    <2>9. Typed'
        BY <1>t, <2>4, <2>5, <2>6, <2>7, <2>8
    <2> QED
        BY <2>9, TypeParts
<1>3. CASE WireLost
    BY <1>3, <1>t, TypeParts DEF WireLost, EnvOnly, rows
<1>4. CASE ProviderMoves \/ ProviderSyncs
    <2>1. provider.status \in {"WORKING", "PARTIALLY_FILLED"} => provider.filled + 1 \in 0 .. Requested
        BY <1>t DEF ProviderInv, ProviderRow
    <2>2. provider' \in ProviderRow
        <3>1. CASE provider' = Accepted(FillStatus(provider.filled + 1), provider.filled + 1)
                   /\ provider.status \in {"WORKING", "PARTIALLY_FILLED"}
            BY <1>a, <1>f, <2>1, <3>1
        <3>2. CASE provider' \in {[provider EXCEPT !.status = "CANCELLED"],
                                  [provider EXCEPT !.position = "closed"],
                                  [provider EXCEPT !.visible = TRUE]}
            BY <1>t, <3>2 DEF ProviderRow, ProviderStatus
        <3> QED
            BY <1>4, <3>1, <3>2 DEF ProviderMoves, ProviderChange, ProviderSyncs
    <2> QED
        BY <1>4, <1>t, <2>2, TypeParts DEF ProviderMoves, ProviderSyncs, EnvOnly, rows
<1> QED
    BY <1>1, <1>2, <1>3, <1>4 DEF Environment

----------------------------------------------------------------------------
(* The steps of the dispatch.                                              *)

\* The dispatch records a fill only when the provider has one.
LEMMA LiveFillIsReal ==
    ASSUME IInv, LiveStep \/ CommitAckLost \/ LiveStatementFails \/ LiveCrash
    PROVE  order'.filled > 0 => provider.filled > 0
<1>t. order \in OrderRow /\ live \in Live /\ "none" \in Id /\ live.id \in Id /\ live.qty \in Nat
    BY TypeParts, RequestedAssumption DEF IInv, Typed, Live, Id
<1>e. order.filled > 0 => provider.filled > 0
    BY DEF IInv, RowInv, ExposureIsReal
<1>1. CASE LiveFill
    <2>1. live.qty > 0 => provider.filled > 0
        BY DEF IInv, LiveInv
    <2>2. order' = ApplyFill(order, live.qty, live.id)
        BY <1>1 DEF LiveFill
    <2> QED
        BY <1>t, <1>e, <2>1, <2>2, ApplyFillFacts
<1>2. CASE MarkSubmitted \/ RejectRefused \/ MarkUncertain \/ RejectByProvider \/ MarkAcknowledged
    <2>1. \E to : \E id \in {"none", live.id} : order' = Transition(order, to, id)
        BY <1>2 DEF MarkSubmitted, RejectRefused, MarkUncertain, RejectByProvider,
           MarkAcknowledged
    <2> QED
        BY <1>t, <1>e, <2>1, TransitionFacts
<1>3. CASE Commit \/ CommitAckLost
    BY <1>3, <1>t, <1>e DEF Commit, CommitAckLost, Commitment, OrderRow
<1>4. CASE \/ Block \/ ConnectFails \/ AttemptNotSent \/ PlaceOrder \/ CallUncertain
           \/ MapResponse \/ LiveStatementFails \/ LiveCrash
    BY <1>4, <1>e DEF Block, ConnectFails, AttemptNotSent, PlaceOrder, CallUncertain,
       MapResponse, LiveStatementFails, LiveCrash, LiveOnly, rows
<1>5. CASE \/ TradeBlocked \/ TradeError \/ TradeFilled \/ TradeRejected
           \/ TradeUnknown \/ TradeWorking
    BY <1>5, <1>e DEF TradeBlocked, TradeError, TradeFilled, TradeRejected,
       TradeUnknown, TradeWorking, TradeOutcome
<1> QED
    BY <1>1, <1>2, <1>3, <1>4, <1>5 DEF LiveStep

\* What the dispatch moves: it places only from "committed", it consumes the grant
\* only from "submitted" while the clock is 0, and after the commitment it never
\* comes back to a step before it.
Advances ==
    /\ UNCHANGED <<family, clock, provider, placements, runs>>
    /\ answer' \in {answer, NoAnswer}
    /\ wire' = wire \/ (live.pc = "committed" /\ wire' = TRUE /\ live'.pc = "awaiting")
    /\ \/ grant' = grant
       \/ clock = 0 /\ live.pc = "submitted" /\ grant' = "CONSUMED"
    /\ live'.pc = "submitted" => live.pc = "reserved"
    /\ live'.pc # "reserved"
    /\ live'.pc = "committed" => \/ live.pc = "submitted" /\ clock = 0 /\ grant' = "CONSUMED"
                                 \/ live.pc = "committed" /\ grant' = grant
    /\ live'.pc \in {"refused", "error"} => live.pc \in {"reserved", "submitted"}
    /\ live'.pc = "blocked" => live.pc = "refused"
    /\ live.pc \in {"committed", "awaiting", "ack", "ackFill", "fill", "reject",
                    "uncertain", "FILLED", "WORKING", "REJECTED", "UNKNOWN"} =>
           live'.pc \notin {"submitted", "refused", "error", "blocked"}
    /\ live.pc \in {"refused", "error", "blocked"} =>
           live'.pc \in {"blocked", "done", "dead"}
    /\ live.pc \in {"reserved", "submitted"} =>
           live'.pc \in {"submitted", "committed", "refused", "error", "dead"}
    /\ live.pc \notin {"done", "dead"}

\* Every step of the dispatch moves that way.
LEMMA LiveAdvances ==
    ASSUME TypeOK, LiveStep \/ CommitAckLost \/ LiveStatementFails \/ LiveCrash
    PROVE  Advances
<1>t. live \in Live /\ wire \in BOOLEAN
    BY TypeParts DEF Typed
<1> USE <1>t DEF Advances, Live
<1>1. CASE \/ MarkSubmitted \/ Block \/ RejectRefused \/ MarkUncertain
           \/ RejectByProvider \/ MarkAcknowledged \/ LiveFill
    BY <1>1 DEF MarkSubmitted, Block, RejectRefused, MarkUncertain, RejectByProvider,
       MarkAcknowledged, LiveFill, OrStep, Goto, Uncertain, LiveOrder, LiveOnly, rows, outside
<1>2. CASE Commit \/ CommitAckLost
    BY <1>2 DEF Commit, CommitAckLost, Commitment, CommitGuard, Goto, outside
<1>3. CASE ConnectFails \/ AttemptNotSent
    BY <1>3 DEF ConnectFails, AttemptNotSent, Uncertain, LiveOnly, rows, outside
<1>4. CASE PlaceOrder \/ CallUncertain \/ LiveCrash
    BY <1>4 DEF PlaceOrder, CallUncertain, LiveCrash, Goto, Uncertain, rows
<1>5. CASE MapResponse
    <2>1. live'.pc \in {"fill", "ackFill", "ack", "reject", "uncertain"}
        BY <1>5 DEF MapResponse, Goto, Uncertain
    <2> QED
        BY <1>5, <2>1 DEF MapResponse, rows
<1>6. CASE \/ TradeBlocked \/ TradeError \/ TradeFilled \/ TradeRejected
           \/ TradeUnknown \/ TradeWorking
    BY <1>6 DEF TradeBlocked, TradeError, TradeFilled, TradeRejected, TradeUnknown,
       TradeWorking, TradeOutcome, Goto, outside
<1>7. CASE LiveStatementFails
    BY <1>7 DEF LiveStatementFails, Goto, Uncertain, rows, outside
<1> QED
    BY <1>1, <1>2, <1>3, <1>4, <1>5, <1>6, <1>7 DEF LiveStep

\* So it keeps the provider's part and the sending part of the invariant, and
\* what cannot be sent any more stays so.
LEMMA LiveKeepsSending ==
    ASSUME IInv, Advances, TypeOK'
    PROVE  /\ ProviderInv' /\ SendInv'
           /\ Unsendable => Unsendable'
           /\ Refused => Refused'
<1>t. /\ live \in Live /\ wire \in BOOLEAN /\ placements \in Nat /\ live' \in Live
      /\ wire' \in BOOLEAN /\ clock \in 0 .. 2 /\ grant \in {"ACTIVE", "CONSUMED"}
    BY TypeParts DEF Typed, IInv
<1>1. ProviderInv'
    BY DEF IInv, ProviderInv, Advances
<1>2. SendInv'
    <2>1. wire' = TRUE /\ ~wire => live.pc = "committed" /\ live'.pc = "awaiting"
        BY <1>t DEF Advances
    <2>2. live.pc = "committed" => ~wire /\ placements = 0 /\ grant = "CONSUMED"
        BY <1>t DEF IInv, SendInv, PreSend, PreCommit, Sent
    <2>3. AtMostOnePlacement'
        BY <1>t, <2>1, <2>2 DEF IInv, SendInv, AtMostOnePlacement, Advances
    <2>4. live'.pc \in PreSend => live.pc \in PreSend /\ live'.pc # "awaiting"
        BY <1>t DEF Advances, PreSend
    <2>5. live'.pc \in PreSend => ~Sent'
        BY <1>t, <2>1, <2>4 DEF IInv, SendInv, Sent, Advances
    <2>6. grant' = "ACTIVE" => ~Sent' /\ live'.pc \in PreCommit
        <3> SUFFICES ASSUME grant' = "ACTIVE"
                     PROVE  ~Sent' /\ live'.pc \in PreCommit
            OBVIOUS
        <3>1. grant = "ACTIVE" /\ ~Sent /\ live.pc \in PreCommit
            BY <1>t DEF Advances, IInv, SendInv
        <3>2. ~Sent'
            BY <1>t, <2>1, <2>2, <3>1 DEF Advances, Sent
        <3> QED
            BY <1>t, <3>1, <3>2 DEF Advances, PreCommit, Live
    <2> QED
        BY <2>3, <2>5, <2>6 DEF SendInv
<1>3. Unsendable => Unsendable'
    BY <1>t DEF Unsendable, Sent, Advances
<1>4. Refused => Refused'
    BY <1>t DEF Refused, Advances, IInv, SendInv, PreSend, Sent
<1> QED
    BY <1>1, <1>2, <1>3, <1>4

\* What the dispatch believes stays true.
LEMMA LiveKeepsBelief ==
    ASSUME IInv, TypeOK', Advances, Refused => Refused',
           LiveStep \/ CommitAckLost \/ LiveStatementFails \/ LiveCrash
    PROVE  LiveInv'
<1>t. /\ live \in Live /\ wire \in BOOLEAN /\ placements \in Nat /\ live' \in Live
      /\ wire' \in BOOLEAN /\ answer \in Answer
    BY TypeParts DEF Typed, IInv
<1>a. answer' \in {answer, NoAnswer} /\ UNCHANGED <<provider, placements>>
    BY DEF Advances
<1>u. \A c : Uncertain(c) => live'.pc = "uncertain" /\ live'.certainty = c /\ live'.qty = live.qty
    BY <1>t DEF Uncertain, Live
<1>g. \A pc : Goto(pc) => live'.pc = pc /\ live'.certainty = live.certainty /\ live'.qty = live.qty
    BY <1>t DEF Goto, Live
<1>m. MapResponse =>
          \/ /\ answer.kind = "FILLED" /\ live'.certainty = live.certainty
             /\ live'.pc \in {"fill", "ackFill"}
          \/ /\ live'.qty = live.qty
             /\ \/ live'.pc = "ack" /\ live'.certainty = live.certainty
                \/ /\ live'.pc = "reject" /\ answer.kind = "REJECTED"
                   /\ live'.certainty = live.certainty
                \/ live'.pc = "uncertain" /\ live'.certainty = "MAY_HAVE_REACHED_PROVIDER"
    <2> SUFFICES ASSUME MapResponse
                 PROVE  \/ /\ answer.kind = "FILLED" /\ live'.certainty = live.certainty
                           /\ live'.pc \in {"fill", "ackFill"}
                        \/ /\ live'.qty = live.qty
                           /\ \/ live'.pc = "ack" /\ live'.certainty = live.certainty
                              \/ /\ live'.pc = "reject" /\ answer.kind = "REJECTED"
                                 /\ live'.certainty = live.certainty
                              \/ /\ live'.pc = "uncertain"
                                 /\ live'.certainty = "MAY_HAVE_REACHED_PROVIDER"
        OBVIOUS
    <2>1. CASE answer.kind = "FILLED"
        <3>1. live' = [live EXCEPT !.pc = IF answer.id = "none" THEN "fill" ELSE "ackFill",
                                   !.qty = answer.qty, !.id = answer.id]
            BY <2>1 DEF MapResponse
        <3> QED
            BY <1>t, <2>1, <3>1 DEF Live
    <2>2. CASE answer.kind = "PENDING" /\ answer.id # "none"
        <3>1. live' = [live EXCEPT !.pc = "ack", !.id = answer.id]
            BY <2>2 DEF MapResponse
        <3> QED
            BY <1>t, <3>1 DEF Live
    <2>3. CASE answer.kind = "REJECTED"
        <3>1. Goto("reject")
            BY <2>3 DEF MapResponse
        <3> QED
            BY <1>g, <2>3, <3>1
    <2>4. CASE answer.kind \notin {"FILLED", "REJECTED"}
               /\ ~(answer.kind = "PENDING" /\ answer.id # "none")
        <3>1. Uncertain("MAY_HAVE_REACHED_PROVIDER")
            BY <2>4 DEF MapResponse
        <3> QED
            BY <1>u, <3>1
    <2> QED
        BY <2>1, <2>2, <2>3, <2>4
<1>f. LiveFill => \/ live'.pc = "FILLED" /\ live'.certainty = live.certainty
                  \/ live'.pc = "uncertain" /\ live'.certainty = "MAY_HAVE_REACHED_PROVIDER"
    <2>1. LiveFill => \/ live' = [live EXCEPT !.pc = "FILLED", !.id = order'.pid]
                      \/ Uncertain("MAY_HAVE_REACHED_PROVIDER")
        BY DEF LiveFill
    <2>2. ASSUME live' = [live EXCEPT !.pc = "FILLED", !.id = order'.pid]
          PROVE  live'.pc = "FILLED" /\ live'.certainty = live.certainty
        BY <1>t, <2>2 DEF Live
    <2> QED
        BY <1>u, <2>1, <2>2
<1>n. AttemptNotSent =>
          \/ live'.pc = "uncertain"
          \/ live'.pc = live.pc /\ live'.certainty = live.certainty /\ live'.qty = live.qty
    BY <1>t, <1>u DEF AttemptNotSent, Live
<1>1. live'.certainty = "DEFINITELY_NOT_SENT" =>
          ~Sent' /\ live'.pc \in {"uncertain", "UNKNOWN", "done", "dead"}
    <2> SUFFICES ASSUME live'.certainty = "DEFINITELY_NOT_SENT"
                 PROVE  ~Sent' /\ live'.pc \in {"uncertain", "UNKNOWN", "done", "dead"}
        OBVIOUS
    <2>1. CASE ConnectFails \/ AttemptNotSent
        <3>1. live.pc = "committed" /\ ~Sent /\ UNCHANGED <<wire, placements>>
            BY <2>1 DEF ConnectFails, AttemptNotSent, IInv, SendInv, PreSend, LiveOnly, outside
        <3>2. live.certainty # "DEFINITELY_NOT_SENT"
            BY <3>1 DEF IInv, LiveInv
        <3>3. live'.pc = "uncertain"
            BY <1>t, <1>u, <2>1, <3>2 DEF ConnectFails, AttemptNotSent, Live
        <3> QED
            BY <3>1, <3>3 DEF Sent
    <2>2. CASE ~(ConnectFails \/ AttemptNotSent)
        <3>1. live.certainty = "DEFINITELY_NOT_SENT"
            <4>1. CASE MapResponse
                BY <1>m, <4>1
            <4>2. CASE LiveFill
                BY <1>f, <4>2
            <4>3. CASE ~MapResponse /\ ~LiveFill
                BY <1>u, <1>g, <2>2, <4>3
                DEF LiveStep, LiveStatementFails, LiveCrash, CommitAckLost, Commit, Block,
                    MarkSubmitted, RejectRefused, PlaceOrder, CallUncertain, MarkAcknowledged,
                    RejectByProvider, MarkUncertain, OrStep, TradeBlocked, TradeError,
                    TradeFilled, TradeRejected, TradeUnknown, TradeWorking, TradeOutcome
            <4> QED
                BY <4>1, <4>2, <4>3
        <3>2. ~Sent /\ live.pc \in {"uncertain", "UNKNOWN", "done", "dead"}
            BY <3>1 DEF IInv, LiveInv
        <3>3. ~Sent'
            BY <1>t, <3>2 DEF Advances, Sent
        <3>4. live'.pc \in {"uncertain", "UNKNOWN", "done", "dead"}
            BY <1>u, <1>g, <3>2
            DEF LiveStep, LiveStatementFails, LiveCrash, CommitAckLost, Commitment, Commit, Block,
                MarkSubmitted, RejectRefused, PlaceOrder, CallUncertain, MarkAcknowledged,
                RejectByProvider, MarkUncertain, OrStep, TradeBlocked, TradeError,
                TradeFilled, TradeRejected, TradeUnknown, TradeWorking, TradeOutcome,
                MapResponse, LiveFill, ConnectFails, AttemptNotSent
        <3> QED
            BY <3>3, <3>4
    <2> QED
        BY <2>1, <2>2
<1>2. live'.pc = "blocked" => ~Sent'
    BY <1>t DEF Advances, IInv, SendInv, PreSend, Sent
<1>q. AttemptNotSent => live'.qty = live.qty
    BY <1>t, <1>u DEF AttemptNotSent, Live
<1>w. AttemptNotSent => live'.pc \in {"uncertain", "committed"}
    BY <1>n DEF AttemptNotSent
<1>3. answer'.kind = "REJECTED" \/ live'.pc \in {"reject", "REJECTED"} => Refused'
    <2>1. answer'.kind = "REJECTED" => Refused
        BY <1>a DEF IInv, LiveInv, NoAnswer
    <2>2. live'.pc = "reject" => answer.kind = "REJECTED"
        BY <1>t, <1>u, <1>g, <1>m, <1>f, <1>w
        DEF LiveStep, LiveStatementFails, LiveCrash, CommitAckLost, Commit, Block,
            MarkSubmitted, RejectRefused, PlaceOrder, CallUncertain, MarkAcknowledged,
            RejectByProvider, MarkUncertain, OrStep, TradeBlocked, TradeError,
            TradeFilled, TradeRejected, TradeUnknown, TradeWorking, TradeOutcome,
            ConnectFails
    <2>3. live'.pc = "REJECTED" => live.pc = "reject"
        BY <1>t, <1>u, <1>g, <1>m, <1>f, <1>w
        DEF LiveStep, LiveStatementFails, LiveCrash, CommitAckLost, Commit, Block,
            MarkSubmitted, RejectRefused, PlaceOrder, CallUncertain, MarkAcknowledged,
            RejectByProvider, MarkUncertain, OrStep, TradeBlocked, TradeError,
            TradeFilled, TradeRejected, TradeUnknown, TradeWorking, TradeOutcome,
            ConnectFails
    <2> QED
        BY <2>1, <2>2, <2>3 DEF IInv, LiveInv
<1>4. answer'.kind = "FILLED" => provider'.filled > 0
    BY <1>a DEF IInv, LiveInv, NoAnswer
<1>5. live'.pc \in {"ackFill", "fill", "FILLED"} \/ live'.qty > 0 => provider'.filled > 0
    <2>1. CASE MapResponse
        <3>1. answer.kind = "FILLED" \/ (live'.qty = live.qty /\ live'.pc \notin {"ackFill", "fill", "FILLED"})
            BY <1>m, <2>1
        <3> QED
            BY <1>a, <3>1 DEF IInv, LiveInv
    <2>2. CASE LiveFill
        <3>1. live.pc = "fill"
            BY <2>2 DEF LiveFill
        <3> QED
            BY <1>a, <3>1 DEF IInv, LiveInv
    <2>3. CASE ~MapResponse /\ ~LiveFill
        <3>1. live'.qty = live.qty /\ (live'.pc \in {"ackFill", "fill", "FILLED"} =>
                                         live.pc \in {"ackFill", "fill", "FILLED"})
            BY <1>t, <1>u, <1>g, <1>q, <1>w, <2>3
            DEF LiveStep, LiveStatementFails, LiveCrash, CommitAckLost, Commit, Block,
                MarkSubmitted, RejectRefused, PlaceOrder, CallUncertain, MarkAcknowledged,
                RejectByProvider, MarkUncertain, OrStep, TradeBlocked, TradeError,
                TradeFilled, TradeRejected, TradeUnknown, TradeWorking, TradeOutcome,
                ConnectFails
        <3> QED
            BY <1>a, <3>1 DEF IInv, LiveInv
    <2> QED
        BY <2>1, <2>2, <2>3
<1> QED
    BY <1>1, <1>2, <1>3, <1>4, <1>5 DEF LiveInv

\* What the trade's row says stays true.
LEMMA LiveKeepsRows ==
    ASSUME IInv, TypeOK', Advances, Refused => Refused', Unsendable => Unsendable',
           LiveStep \/ CommitAckLost \/ LiveStatementFails \/ LiveCrash
    PROVE  RowInv'
<1>t. trade \in TradeRow /\ trade' \in TradeRow /\ live' \in Live /\ live \in Live
    BY TypeParts DEF Typed, IInv
<1>e. ExposureIsReal' <=>
          (order'.filled > 0 \/ trade'.status = "OPEN" => provider'.filled > 0)
    BY DEF ExposureIsReal
<1>p. UNCHANGED <<provider, placements>>
    BY DEF Advances
<1>f. order'.filled > 0 => provider'.filled > 0
    BY <1>p, LiveFillIsReal
<1>1. CASE trade' = trade
    BY <1>1, <1>e, <1>f, <1>p DEF IInv, RowInv, ExposureIsReal
<1>2. CASE TradeBlocked
    <2>1. ~Sent /\ live.pc = "blocked" /\ live'.pc = "done" /\ wire' = wire
        BY <1>2, <1>t DEF TradeBlocked, TradeOutcome, Goto, Live, IInv, LiveInv, outside
    <2>2. Unsendable'
        BY <1>p, <2>1 DEF Unsendable, Sent
    <2>3. trade'.status = "OPEN" => trade.status = "OPEN"
        BY <1>2, <1>t DEF TradeBlocked, TradeOutcome, TradeCas, TradeRow
    <2> QED
        BY <1>e, <1>f, <1>p, <2>2, <2>3 DEF IInv, RowInv, ExposureIsReal
<1>3. CASE TradeError
    <2>1. \/ trade' = trade
          \/ trade'.status = "RECONCILIATION_PENDING" /\ trade'.certainty = "MAY_HAVE_REACHED_PROVIDER"
        BY <1>3, <1>t DEF TradeError, TradeOutcome, TradeCas, TradeRow
    <2> QED
        BY <1>1, <1>e, <1>f, <2>1 DEF RowInv
<1>4. CASE TradeFilled
    <2>1. provider.filled > 0
        BY <1>4 DEF TradeFilled, TradeOutcome, IInv, LiveInv
    <2>2. \/ trade' = trade
          \/ trade'.status = "OPEN" /\ trade'.certainty = trade.certainty
        BY <1>4, <1>t DEF TradeFilled, TradeOutcome, TradeCas, TradeRow
    <2> QED
        BY <1>1, <1>e, <1>f, <1>p, <2>1, <2>2 DEF IInv, RowInv
<1>5. CASE TradeRejected
    <2>1. Refused
        BY <1>5 DEF TradeRejected, TradeOutcome, IInv, LiveInv
    <2>2. \/ trade' = trade
          \/ trade'.status = "REJECTED" /\ trade'.certainty = trade.certainty
        BY <1>5, <1>t DEF TradeRejected, TradeOutcome, TradeCas, TradeRow
    <2> QED
        BY <1>1, <1>e, <1>f, <2>1, <2>2 DEF IInv, RowInv
<1>6. CASE TradeUnknown
    <2>1. live.certainty = "DEFINITELY_NOT_SENT" => Unsendable
        BY DEF IInv, LiveInv, Unsendable
    <2>2. \/ trade' = trade
          \/ /\ trade'.status = "RECONCILIATION_PENDING"
             /\ trade'.certainty = live.certainty
        BY <1>6, <1>t DEF TradeUnknown, TradeOutcome, TradeCas, TradeRow
    <2> QED
        BY <1>1, <1>e, <1>f, <2>1, <2>2 DEF IInv, RowInv
<1>7. CASE TradeWorking
    <2>1. trade'.status = trade.status /\ trade'.certainty = trade.certainty
        BY <1>7, <1>t DEF TradeWorking, TradeRow
    <2> QED
        BY <1>e, <1>f, <1>p, <2>1 DEF IInv, RowInv, ExposureIsReal
<1>8. CASE \/ MarkSubmitted \/ Block \/ RejectRefused \/ MarkUncertain \/ RejectByProvider
           \/ MarkAcknowledged \/ LiveFill \/ Commit \/ CommitAckLost \/ ConnectFails
           \/ AttemptNotSent \/ PlaceOrder \/ CallUncertain \/ MapResponse \/ LiveCrash
           \/ LiveStatementFails
    <2>1. trade' = trade
        BY <1>8 DEF MarkSubmitted, Block, RejectRefused, MarkUncertain, RejectByProvider,
           MarkAcknowledged, LiveFill, Commit, CommitAckLost, ConnectFails, AttemptNotSent,
           PlaceOrder, CallUncertain, MapResponse, LiveCrash, LiveStatementFails,
           LiveOrder, LiveOnly, rows
    <2> QED
        BY <1>1, <2>1
<1> QED
    BY <1>2, <1>3, <1>4, <1>5, <1>6, <1>7, <1>8 DEF LiveStep

\* A step of the dispatch keeps the invariant.
LEMMA LiveKeepsInv ==
    ASSUME IInv, LiveStep \/ CommitAckLost \/ LiveStatementFails \/ LiveCrash
    PROVE  IInv'
<1>1. TypeOK' /\ Advances
    BY LiveType, LiveAdvances DEF IInv
<1>2. ProviderInv' /\ SendInv' /\ (Unsendable => Unsendable') /\ (Refused => Refused')
    BY <1>1, LiveKeepsSending
<1>3. LiveInv' /\ RowInv'
    BY <1>1, <1>2, LiveKeepsBelief, LiveKeepsRows
<1>4. ASSUME NEW r \in Runs
      PROVE  RunInv(r)'
    <2>1. RunInv(r)
        BY DEF IInv
    <2>2. UNCHANGED <<runs, provider, clock>>
        BY <1>1 DEF Advances
    <2>3. clock = 2 /\ grant = "ACTIVE" => grant' = "ACTIVE"
        BY <1>1 DEF Advances
    <2> QED
        BY <1>2, <2>1, <2>2, <2>3 DEF RunInv, Believes
<1> QED
    BY <1>1, <1>2, <1>3, <1>4 DEF IInv

----------------------------------------------------------------------------
(* The steps of a reconciliation run.                                      *)

\* A run records a fill only when the provider has one.
LEMMA RunFillIsReal ==
    ASSUME IInv, NEW r \in Runs, RunStep(r) \/ RunFails(r)
    PROVE  order'.filled > 0 => provider.filled > 0
<1>t. order \in OrderRow /\ runs[r] \in Run /\ "none" \in Id
    BY TypeParts DEF IInv, Typed, Id
<1>e. (order.filled > 0 => provider.filled > 0) /\ (runs[r].seen.filled > 0 => provider.filled > 0)
    BY DEF IInv, RowInv, ExposureIsReal, RunInv, Believes
<1>1. CASE ApplyOrder(r)
    BY <1>1, <1>t, <1>e, ResolvedFacts DEF ApplyOrder, Run
<1>2. CASE CrashWindowOrder(r)
    <2>1. CASE order' = Resolved(runs[r].ord, runs[r].seen, order)
        BY <1>t, <1>e, <2>1, ResolvedFacts DEF Run
    <2>2. CASE order' = Transition(order, "RECONCILIATION_PENDING", "none")
        BY <1>t, <1>e, <2>2, TransitionFacts
    <2> QED
        BY <1>2, <2>1, <2>2 DEF CrashWindowOrder
<1>3. CASE PreCommitmentOrder(r)
    BY <1>3, <1>t, <1>e, TransitionFacts DEF PreCommitmentOrder
<1>4. CASE ResolveLinkedOrder(r)
    BY <1>4, <1>t, <1>e, TransitionFacts DEF ResolveLinkedOrder
<1>5. CASE \/ ReadProvider(r) \/ ReadRows(r) \/ RecoverTimedOut(r) \/ CheckPosition(r)
           \/ ApplyPosition(r) \/ LookUpOrder(r) \/ CrashWindowTrade(r)
           \/ ReadPreCommitment(r) \/ PreCommitmentTrade(r) \/ RunFails(r)
    BY <1>5, <1>e DEF RunFails, ReadProvider, ReadRows, RecoverTimedOut, CheckPosition,
       ApplyPosition, LookUpOrder, CrashWindowTrade, ReadPreCommitment, PreCommitmentTrade,
       RunOnly, RunTrade, rows
<1> QED
    BY <1>1, <1>2, <1>3, <1>4, <1>5 DEF RunStep

\* A run changes no row but the order's and the trade's and leaves the dispatch
\* and the provider alone.
LEMMA RunFrame ==
    ASSUME NEW r \in Runs, RunStep(r) \/ RunFails(r)
    PROVE  UNCHANGED <<family, grant, clock, provider, wire, answer, placements, live>>
BY DEF RunStep, RunFails, ReadProvider, ReadRows, RecoverTimedOut, ResolveLinkedOrder,
   CheckPosition, ApplyPosition, LookUpOrder, ApplyOrder, CrashWindowOrder,
   CrashWindowTrade, ReadPreCommitment, PreCommitmentOrder, PreCommitmentTrade,
   RunOnly, RunTrade, RunOrder, rows, outside

\* A run that goes on with a pass believes no more than it did.
LEMMA EnterBelieves ==
    ASSUME IInv, NEW run \in Run, Believes(run), NEW pc \in Steps,
           run.pc \notin {"preCommitmentOrder", "preCommitmentTrade"} \/ pc = "idle",
           pc \notin {"link", "timedOut", "preCommitmentTrade"}
    PROVE  Believes(Enter(run, pc)) /\ Believes(IdleRun)
<1>1. Believes(IdleRun)
    BY DEF Believes, IdleRun, NoOrder, NoTrade, TerminalTrade
<1>2. CASE pc = "idle"
    BY <1>1, <1>2 DEF Enter
<1>3. CASE pc # "idle"
    <2>1. Enter(run, pc) = [run EXCEPT !.pc = pc, !.plan = "none"]
        BY <1>3 DEF Enter
    <2> DEFINE x == [run EXCEPT !.pc = pc, !.plan = "none"]
    <2>2. /\ x.pc = pc /\ x.plan = "none" /\ x.trd = run.trd /\ x.seen = run.seen
          /\ x.matched = run.matched
        BY DEF Run
    <2> HIDE DEF x
    <2>3. Believes(x)
        BY <1>3, <2>2 DEF Believes
    <2> QED
        BY <1>1, <2>1, <2>3 DEF x
<1> QED
    BY <1>2, <1>3

\* The other runs keep their beliefs when one moves.
LEMMA RunReplaced ==
    ASSUME IInv, NEW r \in Runs, NEW x, Believes(x), runs' = [runs EXCEPT ![r] = x],
           UNCHANGED <<grant, clock, provider, wire, placements, live>>
    PROVE  \A q \in Runs : RunInv(q)'
<1>1. runs \in [Runs -> Run]
    BY TypeParts DEF IInv, Typed
<1>2. Unsendable' <=> Unsendable
    BY DEF Unsendable, Sent
<1> SUFFICES ASSUME NEW q \in Runs
             PROVE  RunInv(q)'
    OBVIOUS
<1>3. runs'[q] = x \/ runs'[q] = runs[q]
    BY <1>1
<1>4. Believes(runs[q])
    BY DEF IInv, RunInv
<1>5. CASE runs'[q] = x
    BY <1>2, <1>5 DEF RunInv, Believes
<1>6. CASE runs'[q] = runs[q]
    BY <1>2, <1>4, <1>6 DEF RunInv, Believes
<1> QED
    BY <1>3, <1>5, <1>6

\* A step of a run keeps what the runs believe.
LEMMA RunKeepsBelief ==
    ASSUME IInv, NEW r \in Runs, RunStep(r) \/ RunFails(r)
    PROVE  \A q \in Runs : RunInv(q)'
<1> USE RequestedAssumption
<1>t. /\ runs[r] \in Run /\ runs \in [Runs -> Run] /\ Believes(runs[r])
      /\ provider \in ProviderRow /\ order \in OrderRow /\ trade \in TradeRow
    BY TypeParts DEF IInv, Typed, RunInv
<1>f. UNCHANGED <<grant, clock, provider, wire, placements, live>>
    BY RunFrame
<1>p. OrderPass(runs[r]) \in Pass /\ Pass \subseteq Steps
    BY <1>t, PassFacts DEF Pass, Steps
<1>c. \A pc \in Steps : (/\ runs[r].pc \notin {"preCommitmentOrder", "preCommitmentTrade"} \/ pc = "idle"
                        /\ pc \notin {"link", "timedOut", "preCommitmentTrade"}
                        /\ Continue(r, pc)) => \A q \in Runs : RunInv(q)'
    BY <1>t, <1>f, EnterBelieves, RunReplaced DEF Continue
<1>e. End(r) => \A q \in Runs : RunInv(q)'
    BY <1>c DEF End, Steps
<1>q. provider.position = "open" => provider.filled > 0
    BY DEF IInv, ProviderInv
<1>o. \A pc \in Pass : RecoverTradeToOpen(r, pc)
          /\ runs[r].pc \in {"timedOut", "applyPosition"} => \A q \in Runs : RunInv(q)'
    <2> SUFFICES ASSUME NEW pc \in Pass, RecoverTradeToOpen(r, pc),
                        runs[r].pc \in {"timedOut", "applyPosition"}
                 PROVE  \A q \in Runs : RunInv(q)'
        OBVIOUS
    <2>1. CASE trade.status = runs[r].trd.status
        <3> DEFINE x == [runs[r] EXCEPT !.pc = "link", !.plan = pc, !.trd.status = "OPEN",
                              !.trd.xpos = TRUE]
        <3>1. runs' = [runs EXCEPT ![r] = x]
            BY <1>t, <2>1 DEF RecoverTradeToOpen
        <3>2. runs[r].trd \in TradeRow
            BY <1>t, <2>1 DEF Run, TradeRow, NoTrade, TradeStatus, TerminalTrade
        <3>3. /\ x.pc = "link" /\ x.plan = pc /\ x.trd.status = "OPEN"
              /\ x.seen = runs[r].seen /\ x.matched = runs[r].matched
            BY <1>t, <3>2 DEF Run, TradeRow
        <3> HIDE DEF x
        <3>4. Believes(x)
            BY <1>t, <3>3 DEF Believes, Pass, TerminalTrade
        <3> QED
            BY <1>f, <3>1, <3>4, RunReplaced
    <2>2. CASE trade.status # runs[r].trd.status
        BY <1>c, <1>p, <2>2 DEF RecoverTradeToOpen, Pass, Steps
    <2> QED
        BY <2>1, <2>2
<1>1. CASE ReadProvider(r)
    <2> DEFINE x == [runs[r] EXCEPT !.pc = "rows",
           !.seen = IF Listed THEN ProviderOrder ELSE NoOrder,
           !.matched = provider.position = "open" /\ provider.filled = Requested]
    <2>1. runs' = [runs EXCEPT ![r] = x]
        BY <1>1, <1>t DEF ReadProvider
    <2>x. /\ x.pc = "rows" /\ x.trd = runs[r].trd
          /\ x.seen = IF Listed THEN ProviderOrder ELSE NoOrder
        BY <1>t DEF Run
    <2>m. x.matched => provider.position = "open"
        BY <1>t DEF Run
    <2>s. ProviderOrder.filled = provider.filled /\ NoOrder.filled = 0
        BY DEF ProviderOrder, NoOrder
    <2> HIDE DEF x
    <2>2. /\ x.pc = "rows" /\ x.trd = runs[r].trd
          /\ x.seen.filled > 0 => provider.filled > 0
          /\ x.matched => provider.filled > 0
        <3>1. x.seen.filled \in {provider.filled, 0}
            BY <2>x, <2>s
        <3> QED
            BY <1>q, <2>x, <2>m, <3>1
    <2>3. runs[r].trd.status \notin TerminalTrade
        BY <1>1, <1>t DEF ReadProvider, Believes
    <2>4. Believes(x)
        BY <2>2, <2>3 DEF Believes
    <2> QED
        BY <1>f, <2>1, <2>4, RunReplaced
<1>2. CASE ReadRows(r)
    <2> DEFINE run == [runs[r] EXCEPT
               !.ord = IF order.status \in TerminalOrder THEN NoOrder ELSE order,
               !.trd = IF trade.status \in TerminalTrade THEN NoTrade ELSE trade]
    <2>1. runs' = [runs EXCEPT ![r] = Enter(run, FirstPass(run))]
        BY <1>2 DEF ReadRows
    <2>2. /\ run \in Run /\ run.pc = "rows" /\ run.trd.status \notin TerminalTrade
          /\ run.seen = runs[r].seen /\ run.matched = runs[r].matched
        BY <1>2, <1>t DEF ReadRows, Run, NoTrade, TerminalTrade
    <2> HIDE DEF run
    <2>3. Believes(run)
        BY <1>t, <2>2 DEF Believes
    <2>4. CASE FirstPass(run) = "timedOut"
        <3> DEFINE x == [run EXCEPT !.pc = "timedOut", !.plan = "none"]
        <3>1. Enter(run, FirstPass(run)) = x
            BY <2>4 DEF Enter
        <3>2. /\ x.pc = "timedOut" /\ x.plan = "none" /\ x.trd = run.trd /\ x.seen = run.seen
              /\ x.matched = run.matched /\ run.matched
            BY <2>2, <2>4, PassFacts DEF Run
        <3> HIDE DEF x
        <3>3. Believes(x)
            BY <2>2, <2>3, <3>2 DEF Believes
        <3> QED
            BY <1>f, <2>1, <3>1, <3>3, RunReplaced
    <2>5. CASE FirstPass(run) # "timedOut"
        <3>1. FirstPass(run) \in Pass
            BY <2>2, <2>5, PassFacts
        <3>2. Believes(Enter(run, FirstPass(run)))
            BY <1>p, <2>2, <2>3, <3>1, EnterBelieves DEF Pass
        <3> QED
            BY <1>f, <2>1, <3>2, RunReplaced
    <2> QED
        BY <2>4, <2>5
<1>3. CASE RecoverTimedOut(r)
    <2>1. (IF trade.status = runs[r].trd.status THEN "positions" ELSE OrderPass(runs[r])) \in Pass
        BY <1>p DEF Pass
    <2> QED
        BY <1>3, <1>o, <2>1 DEF RecoverTimedOut
<1>4. CASE ResolveLinkedOrder(r)
    <2>1. runs[r].plan \in Pass /\ runs[r].pc = "link" /\ Continue(r, runs[r].plan)
        BY <1>4, <1>t DEF ResolveLinkedOrder, Believes, Pass
    <2> QED
        BY <1>c, <1>p, <2>1 DEF Pass
<1>5. CASE CheckPosition(r)
    <2>1. CASE PositionPlan(runs[r].trd) = "none"
        <3>1. Continue(r, OrderPass(runs[r]))
            BY <1>5, <1>t, <2>1 DEF CheckPosition, Continue
        <3> QED
            BY <1>5, <1>c, <1>p, <3>1 DEF CheckPosition, Pass
    <2>2. CASE PositionPlan(runs[r].trd) # "none"
        <3> DEFINE x == [runs[r] EXCEPT !.pc = "applyPosition",
                                        !.plan = PositionPlan(runs[r].trd)]
        <3>1. runs' = [runs EXCEPT ![r] = x]
            BY <1>5, <1>t, <2>2 DEF CheckPosition
        <3>2. /\ x.pc = "applyPosition" /\ x.plan = PositionPlan(runs[r].trd)
              /\ x.trd = runs[r].trd /\ x.seen = runs[r].seen /\ x.matched = runs[r].matched
            BY <1>t DEF Run
        <3>3. PositionPlan(runs[r].trd) = "open" => provider.filled > 0
            BY <1>q DEF PositionPlan, PositionFound
        <3> HIDE DEF x
        <3>4. Believes(x)
            BY <1>5, <1>t, <3>2, <3>3 DEF CheckPosition, Believes
        <3> QED
            BY <1>f, <3>1, <3>4, RunReplaced
    <2> QED
        BY <2>1, <2>2
<1>6. CASE ApplyPosition(r)
    BY <1>6, <1>o, <1>c, <1>p DEF ApplyPosition, Pass
<1>7. CASE LookUpOrder(r)
    <2>1. CASE OrderFound(runs[r].ord.pid)
        <3> DEFINE x == [runs[r] EXCEPT !.pc = "applyOrder", !.seen = ProviderOrder]
        <3>1. runs' = [runs EXCEPT ![r] = x]
            BY <1>7, <1>t, <2>1 DEF LookUpOrder
        <3>2. /\ x.pc = "applyOrder" /\ x.trd = runs[r].trd
              /\ x.seen.filled = provider.filled /\ x.matched = runs[r].matched
            BY <1>t DEF Run, ProviderOrder
        <3> HIDE DEF x
        <3>3. Believes(x)
            BY <1>7, <1>t, <3>2 DEF LookUpOrder, Believes
        <3> QED
            BY <1>f, <3>1, <3>3, RunReplaced
    <2>2. CASE ~OrderFound(runs[r].ord.pid)
        <3>1. runs' = [runs EXCEPT ![r] = IdleRun]
            BY <1>7, <1>t, <2>2 DEF LookUpOrder
        <3>2. Believes(IdleRun)
            BY <1>t, EnterBelieves DEF Steps
        <3> QED
            BY <1>f, <3>1, <3>2, RunReplaced
    <2> QED
        BY <2>1, <2>2
<1>8. CASE ApplyOrder(r) \/ CrashWindowTrade(r) \/ PreCommitmentTrade(r)
    BY <1>8, <1>e DEF ApplyOrder, CrashWindowTrade, PreCommitmentTrade
<1>9. CASE CrashWindowOrder(r)
    BY <1>9, <1>e, <1>c DEF CrashWindowOrder, Steps
<1>10. CASE ReadPreCommitment(r)
    <2>1. CASE GraceOver
        <3> DEFINE x == [runs[r] EXCEPT !.pc = "preCommitmentOrder", !.plan = PreCommitmentTarget,
                          !.trd = trade]
        <3>1. runs' = [runs EXCEPT ![r] = x]
            BY <1>10, <1>t, <2>1 DEF ReadPreCommitment
        <3>2. /\ x.pc = "preCommitmentOrder" /\ x.plan = PreCommitmentTarget
              /\ x.seen = runs[r].seen /\ x.matched = runs[r].matched
            BY <1>t DEF Run
        <3>3. PreCommitmentTarget = "REJECTED" => clock = 2 /\ grant = "ACTIVE"
            BY <2>1, TypeParts DEF PreCommitmentTarget, GraceOver, IInv, Typed
        <3> HIDE DEF x
        <3>4. Believes(x)
            BY <1>t, <3>2, <3>3 DEF Believes
        <3> QED
            BY <1>f, <3>1, <3>4, RunReplaced
    <2>2. CASE ~GraceOver
        <3>1. runs' = [runs EXCEPT ![r] = IdleRun]
            BY <1>10, <1>t, <2>2 DEF ReadPreCommitment
        <3>2. Believes(IdleRun)
            BY <1>t, EnterBelieves DEF Steps
        <3> QED
            BY <1>f, <3>1, <3>2, RunReplaced
    <2> QED
        BY <2>1, <2>2
<1>11. CASE PreCommitmentOrder(r)
    <2>1. CASE /\ CanTransition(order, runs[r].plan) /\ runs[r].plan = "REJECTED"
               /\ runs[r].trd.status = "PENDING"
        <3> DEFINE x == [runs[r] EXCEPT !.pc = "preCommitmentTrade", !.plan = "none"]
        <3>1. runs' = [runs EXCEPT ![r] = x]
            BY <1>11, <1>t, <2>1 DEF PreCommitmentOrder, Continue, Enter
        <3>2. /\ x.pc = "preCommitmentTrade" /\ x.plan = "none"
              /\ x.seen = runs[r].seen /\ x.matched = runs[r].matched
            BY <1>t DEF Run
        <3>3. Unsendable
            BY <1>11, <1>t, <2>1
            DEF PreCommitmentOrder, Believes, IInv, SendInv, PreCommit, Unsendable
        <3> HIDE DEF x
        <3>4. Believes(x)
            BY <1>t, <3>2, <3>3 DEF Believes
        <3> QED
            BY <1>f, <3>1, <3>4, RunReplaced
    <2>2. CASE ~(/\ CanTransition(order, runs[r].plan) /\ runs[r].plan = "REJECTED"
                 /\ runs[r].trd.status = "PENDING")
        BY <1>11, <1>e, <2>2 DEF PreCommitmentOrder, End
    <2> QED
        BY <2>1, <2>2
<1>12. CASE RunFails(r)
    <2>1. PICK pc \in {"idle", NextPass(runs[r])} : Continue(r, pc)
        BY <1>12 DEF RunFails
    <2>2. CASE pc = "idle"
        BY <1>e, <2>1, <2>2 DEF End
    <2>3. CASE pc # "idle"
        <3>1. pc = NextPass(runs[r])
            BY <2>3
        <3>2. CASE runs[r].pc \in {"positions", "applyPosition"}
            BY <1>c, <1>p, <2>1, <3>1, <3>2 DEF NextPass, Pass
        <3>3. CASE runs[r].pc = "link"
            <4>1. pc = runs[r].plan /\ runs[r].plan \in Pass
                BY <1>t, <3>1, <3>3 DEF NextPass, Believes, Pass
            <4> QED
                BY <1>c, <1>p, <2>1, <3>3, <4>1 DEF Pass
        <3>4. CASE runs[r].pc \notin {"positions", "applyPosition", "link"}
            <4>1. pc = "crashWindowTrade" /\ runs[r].pc = "crashWindow"
                BY <2>3, <3>1, <3>4 DEF NextPass
            <4> QED
                BY <1>c, <2>1, <4>1 DEF Steps
        <3> QED
            BY <3>2, <3>3, <3>4
    <2> QED
        BY <2>2, <2>3
<1> QED
    BY <1>1, <1>2, <1>3, <1>4, <1>5, <1>6, <1>7, <1>8, <1>9, <1>10, <1>11, <1>12 DEF RunStep

\* What the trade's row says stays true.
LEMMA RunKeepsRows ==
    ASSUME IInv, TypeOK', NEW r \in Runs, RunStep(r) \/ RunFails(r)
    PROVE  RowInv'
<1>t. trade \in TradeRow /\ runs[r] \in Run /\ Believes(runs[r])
    BY TypeParts DEF Typed, IInv, RunInv
<1>p. UNCHANGED <<clock, provider, wire, placements, live>>
    BY RunFrame
<1>u. (Unsendable' <=> Unsendable) /\ (Refused' <=> Refused)
    BY <1>p DEF Unsendable, Refused, Sent
<1>f. order'.filled > 0 => provider'.filled > 0
    BY <1>p, RunFillIsReal
<1>k. ASSUME /\ trade'.certainty = "DEFINITELY_NOT_SENT" =>
                  trade.certainty = "DEFINITELY_NOT_SENT" \/ Unsendable
             /\ trade'.status = "REJECTED" => trade.status = "REJECTED" \/ Unsendable
             /\ trade'.status = "OPEN" => trade.status = "OPEN" \/ provider.filled > 0
      PROVE  RowInv'
    BY <1>k, <1>u, <1>f, <1>p DEF IInv, RowInv, ExposureIsReal
<1>o. \A pc : RecoverTradeToOpen(r, pc) =>
          trade' = trade \/ (trade'.status = "OPEN" /\ trade'.certainty = trade.certainty)
    BY <1>t DEF RecoverTradeToOpen, TradeRow
<1>1. CASE RecoverTimedOut(r)
    <2>1. provider.filled > 0
        BY <1>1, <1>t DEF RecoverTimedOut, Believes
    <2>2. trade' = trade \/ (trade'.status = "OPEN" /\ trade'.certainty = trade.certainty)
        BY <1>1, <1>o DEF RecoverTimedOut
    <2> QED
        BY <1>k, <2>1, <2>2
<1>2. CASE ApplyPosition(r)
    <2>1. CASE runs[r].plan = "open"
        <3>1. provider.filled > 0
            BY <1>2, <1>t, <2>1 DEF ApplyPosition, Believes
        <3>2. trade' = trade \/ (trade'.status = "OPEN" /\ trade'.certainty = trade.certainty)
            BY <1>2, <1>o, <2>1 DEF ApplyPosition
        <3> QED
            BY <1>k, <3>1, <3>2
    <2>2. CASE runs[r].plan # "open"
        <3>1. trade' = trade \/ (trade'.status = "CLOSED" /\ trade'.certainty = trade.certainty)
            BY <1>2, <1>t, <2>2 DEF ApplyPosition, TradeRow
        <3> QED
            BY <1>k, <3>1
    <2> QED
        BY <2>1, <2>2
<1>3. CASE CrashWindowTrade(r)
    <2>1. trade' = trade \/ (/\ trade'.status = "RECONCILIATION_PENDING"
                             /\ trade'.certainty = "MAY_HAVE_REACHED_PROVIDER")
        BY <1>3, <1>t DEF CrashWindowTrade, TradeRow
    <2> QED
        BY <1>k, <2>1
<1>4. CASE PreCommitmentTrade(r)
    <2>1. Unsendable
        BY <1>4, <1>t DEF PreCommitmentTrade, Believes
    <2>2. trade' = trade \/ trade'.status = "REJECTED"
        BY <1>4, <1>t DEF PreCommitmentTrade, TradeRow
    <2> QED
        BY <1>k, <2>1, <2>2
<1>5. CASE \/ ReadProvider(r) \/ ReadRows(r) \/ ResolveLinkedOrder(r) \/ CheckPosition(r)
           \/ LookUpOrder(r) \/ ApplyOrder(r) \/ CrashWindowOrder(r)
           \/ ReadPreCommitment(r) \/ PreCommitmentOrder(r) \/ RunFails(r)
    <2>1. trade' = trade
        BY <1>5 DEF RunFails, ReadProvider, ReadRows, ResolveLinkedOrder, CheckPosition,
           LookUpOrder, ApplyOrder, CrashWindowOrder, ReadPreCommitment,
           PreCommitmentOrder, RunOnly, RunOrder, rows
    <2> QED
        BY <1>k, <2>1
<1> QED
    BY <1>1, <1>2, <1>3, <1>4, <1>5 DEF RunStep

\* A step of a reconciliation run keeps the invariant.
LEMMA RunKeepsInv ==
    ASSUME IInv, NEW r \in Runs, RunStep(r) \/ RunFails(r)
    PROVE  IInv'
<1>1. TypeOK'
    BY RunType DEF IInv
<1>2. UNCHANGED <<family, grant, clock, provider, wire, answer, placements, live>>
    BY RunFrame
<1>3. ProviderInv' /\ SendInv' /\ LiveInv'
    BY <1>2 DEF IInv, ProviderInv, SendInv, LiveInv, AtMostOnePlacement, Sent, Refused
<1>4. (\A q \in Runs : RunInv(q)') /\ RowInv'
    BY <1>1, RunKeepsBelief, RunKeepsRows
<1> QED
    BY <1>1, <1>3, <1>4 DEF IInv

----------------------------------------------------------------------------
(* Time and the provider.                                                  *)

\* A step of the provider takes no fill back, moves no refused order, and answers
\* with what it did.
LEMMA ProviderMonotone ==
    ASSUME IInv, Environment, TypeOK'
    PROVE  /\ provider.filled > 0 => provider'.filled > 0
           /\ Unsendable => Unsendable'
           /\ Refused => Refused'
           /\ ProviderInv' /\ SendInv' /\ LiveInv'
<1> USE RequestedAssumption
<1>t. /\ provider \in ProviderRow /\ wire \in BOOLEAN /\ placements \in Nat /\ live \in Live
      /\ clock \in 0 .. 2 /\ grant \in {"ACTIVE", "CONSUMED"} /\ provider' \in ProviderRow
    BY TypeParts DEF Typed, IInv
<1>1. CASE Tick
    BY <1>1, <1>t DEF Tick, rows, outside, IInv, ProviderInv, SendInv, LiveInv,
       AtMostOnePlacement, Sent, Unsendable, Refused
<1>2. CASE ProviderReceives
    <2>1. wire /\ placements = 0 /\ wire' = FALSE /\ placements' = 1
        BY <1>2, <1>t DEF ProviderReceives, IInv, SendInv, AtMostOnePlacement
    <2>2. UNCHANGED <<live, grant, clock>>
        BY <1>2 DEF ProviderReceives, EnvOnly, rows
    <2>3. /\ live.pc \notin PreSend /\ grant # "ACTIVE" /\ ~Unsendable /\ ~Refused
          /\ live.certainty # "DEFINITELY_NOT_SENT" /\ provider.filled = 0
          /\ live.pc \notin {"reject", "REJECTED", "ackFill", "fill", "FILLED"}
          /\ ~(live.qty > 0)
        BY <2>1 DEF IInv, SendInv, LiveInv, ProviderInv, Sent, Unsendable, Refused
    <2>4. PICK reply \in Replies :
              /\ provider' = Accepted(IF reply.kind = "REJECTED" THEN "REJECTED"
                                      ELSE FillStatus(reply.qty), reply.qty)
              /\ answer' = IF live.pc = "awaiting" THEN reply ELSE NoAnswer
        BY <1>2 DEF ProviderReceives
    <2>5. /\ reply.qty \in 0 .. Requested
          /\ reply.kind = "FILLED" => reply.qty > 0
        BY DEF Replies
    <2>6. /\ provider'.filled = reply.qty
          /\ provider'.status = IF reply.kind = "REJECTED" THEN "REJECTED" ELSE FillStatus(reply.qty)
          /\ provider'.position = IF reply.qty > 0 THEN "open" ELSE "none"
        BY <1>t, <2>4 DEF Accepted, ProviderRow
    <2>7. ProviderInv'
        BY <2>1, <2>5, <2>6 DEF ProviderInv, FillStatus
    <2>8. SendInv'
        BY <2>1, <2>2, <2>3 DEF SendInv, AtMostOnePlacement
    <2>9. LiveInv'
        <3>1. answer'.kind = "REJECTED" => Refused'
            BY <2>1, <2>4, <2>6 DEF Refused, NoAnswer
        <3>2. answer'.kind = "FILLED" => provider'.filled > 0
            BY <2>4, <2>5, <2>6 DEF NoAnswer
        <3>3. live'.pc \notin {"blocked"}
            BY <2>2, <2>3 DEF PreSend
        <3> QED
            BY <2>2, <2>3, <3>1, <3>2, <3>3 DEF LiveInv
    <2> QED
        BY <2>3, <2>7, <2>8, <2>9
<1>3. CASE WireLost
    <2>1. wire /\ wire' = FALSE /\ UNCHANGED <<provider, answer, placements, live, grant, clock>>
        BY <1>3 DEF WireLost, EnvOnly, rows
    <2> QED
        BY <1>t, <2>1 DEF IInv, ProviderInv, SendInv, LiveInv, AtMostOnePlacement, Sent,
           Unsendable, Refused
<1>4. CASE ProviderMoves \/ ProviderSyncs
    <2>1. UNCHANGED <<wire, answer, placements, live, grant, clock>>
        BY <1>4 DEF ProviderMoves, ProviderSyncs, EnvOnly, rows
    <2>2. placements # 0
        BY <1>4 DEF ProviderMoves, ProviderChange, ProviderSyncs, IInv, ProviderInv
    <2>3. /\ provider'.filled > 0 \/ provider'.filled = provider.filled
          /\ provider.status = "REJECTED" => provider'.status = "REJECTED"
          /\ provider'.position # "none" => provider'.filled > 0
          /\ provider'.status \in {"WORKING", "PARTIALLY_FILLED"} => provider'.filled < Requested
        <3>1. CASE /\ provider.status \in {"WORKING", "PARTIALLY_FILLED"}
                   /\ provider' = Accepted(FillStatus(provider.filled + 1), provider.filled + 1)
            <4>1. provider.filled \in Nat /\ provider.filled < Requested
                BY <1>t, <3>1 DEF IInv, ProviderInv, ProviderRow
            <4>2. provider'.filled = provider.filled + 1
                  /\ provider'.status = FillStatus(provider.filled + 1)
                BY <1>t, <3>1 DEF Accepted, ProviderRow
            <4> QED
                BY <3>1, <4>1, <4>2 DEF FillStatus
        <3>2. CASE /\ provider.status \in {"WORKING", "PARTIALLY_FILLED"}
                   /\ provider' = [provider EXCEPT !.status = "CANCELLED"]
            BY <1>t, <3>2 DEF IInv, ProviderInv, ProviderRow
        <3>3. CASE /\ provider.position = "open"
                   /\ provider' = [provider EXCEPT !.position = "closed"]
            BY <1>t, <3>3 DEF IInv, ProviderInv, ProviderRow
        <3>4. CASE provider' = [provider EXCEPT !.visible = TRUE]
            BY <1>t, <3>4 DEF IInv, ProviderInv, ProviderRow
        <3> QED
            BY <1>4, <3>1, <3>2, <3>3, <3>4 DEF ProviderMoves, ProviderChange, ProviderSyncs
    <2>4. ProviderInv'
        BY <2>1, <2>2, <2>3 DEF ProviderInv
    <2>5. SendInv' /\ (Unsendable => Unsendable') /\ (Refused => Refused')
        BY <2>1, <2>3 DEF IInv, SendInv, AtMostOnePlacement, Sent, Unsendable, Refused
    <2>6. LiveInv'
        BY <2>1, <2>3, <2>5 DEF IInv, LiveInv, Sent
    <2> QED
        BY <2>3, <2>4, <2>5, <2>6
<1> QED
    BY <1>1, <1>2, <1>3, <1>4 DEF Environment

\* Time and the provider keep the invariant.
LEMMA EnvironmentKeepsInv ==
    ASSUME IInv, Environment
    PROVE  IInv'
<1>1. TypeOK'
    BY EnvironmentType DEF IInv
<1>2. /\ provider.filled > 0 => provider'.filled > 0
      /\ Unsendable => Unsendable'
      /\ Refused => Refused'
      /\ ProviderInv' /\ SendInv' /\ LiveInv'
    BY <1>1, ProviderMonotone
<1>3. UNCHANGED <<order, trade, grant, runs>> /\ (clock = 2 => clock' = 2)
    BY DEF Environment, Tick, ProviderReceives, WireLost, ProviderMoves, ProviderSyncs,
       EnvOnly, rows
<1>4. ASSUME NEW r \in Runs
      PROVE  RunInv(r)'
    <2>1. RunInv(r)
        BY DEF IInv
    <2> QED
        BY <1>2, <1>3, <2>1 DEF RunInv, Believes
<1>5. RowInv'
    BY <1>2, <1>3 DEF IInv, RowInv, ExposureIsReal
<1> QED
    BY <1>1, <1>2, <1>4, <1>5 DEF IInv

----------------------------------------------------------------------------
(* The theorems.                                                           *)

\* The invariant holds when the rows are reserved.
LEMMA InitInv == Init => IInv
<1> SUFFICES ASSUME Init
             PROVE  IInv
    OBVIOUS
<1> USE RequestedAssumption, FaultsAssumption DEF Init
<1>1. TypeOK
    <2>1. IdleRun \in Run
        BY DEF IdleRun, Run, Steps, Seen, NoOrder, NoTrade, ProviderStatus
    <2>2. runs \in [Runs -> Run]
        BY <2>1
    <2>3. order \in OrderRow /\ trade \in TradeRow
        BY DEF OrderRow, TradeRow, OrderStatus, TradeStatus, Id, Certainty
    <2>4. provider \in ProviderRow /\ answer \in Answer
        BY DEF ProviderRow, ProviderStatus, Answer, NoAnswer, Id
    <2>5. live \in Live
        BY DEF Live, Certainty, Id, MAX_RETRY_ATTEMPTS
    <2>6. placements \in Nat /\ clock \in 0 .. 2 /\ faults \in 0 .. MaxFaults
        OBVIOUS
    <2>8. wire \in BOOLEAN
        OBVIOUS
    <2>7. family \in Families /\ grant \in {"ACTIVE", "CONSUMED"}
        OBVIOUS
    <2> HIDE DEF Init
    <2> QED
        BY <2>2, <2>3, <2>4, <2>5, <2>6, <2>7, <2>8, TypeParts DEF Typed
<1>2. ProviderInv /\ SendInv
    BY DEF ProviderInv, SendInv, AtMostOnePlacement, PreSend, PreCommit, Sent
<1>3. LiveInv
    BY DEF LiveInv, NoAnswer, Sent
<1>4. ASSUME NEW r \in Runs
      PROVE  RunInv(r)
    BY DEF RunInv, Believes, IdleRun, NoOrder, NoTrade, TerminalTrade
<1>5. RowInv
    BY DEF RowInv, ExposureIsReal
<1> QED
    BY <1>1, <1>2, <1>3, <1>4, <1>5 DEF IInv

\* It is inductive: the dispatch, every overlapping reconciliation run, every
\* failure of them and every move of the provider keep it.
THEOREM Inductive == IInv /\ [Next]_vars => IInv'
<1> SUFFICES ASSUME IInv, [Next]_vars
             PROVE  IInv'
    OBVIOUS
<1>1. CASE LiveStep \/ CommitAckLost \/ LiveStatementFails \/ LiveCrash
    BY <1>1, LiveKeepsInv
<1>2. CASE \E r \in Runs : RunStep(r) \/ RunFails(r)
    BY <1>2, RunKeepsInv
<1>3. CASE Environment
    BY <1>3, EnvironmentKeepsInv
<1>4. CASE UNCHANGED vars
    <2>1. UNCHANGED <<family, order, trade, grant, clock, provider, wire, answer, placements,
                      live, runs, faults>>
        BY <1>4 DEF vars, rows, outside
    <2>2. TypeOK'
        BY <2>1, TypeParts DEF IInv, Typed
    <2>3. Unsendable' <=> Unsendable
        BY <2>1 DEF Unsendable, Sent
    <2>4. Refused' <=> Refused
        BY <2>1 DEF Refused
    <2>5. ProviderInv' /\ SendInv' /\ LiveInv' /\ RowInv'
        BY <2>1, <2>3, <2>4 DEF IInv, ProviderInv, SendInv, LiveInv, RowInv, ExposureIsReal,
           AtMostOnePlacement, Sent
    <2>6. \A r \in Runs : RunInv(r)'
        BY <2>1, <2>3 DEF IInv, RunInv, Believes
    <2> QED
        BY <2>2, <2>5, <2>6 DEF IInv
<1> QED
    BY <1>1, <1>2, <1>3, <1>4 DEF Next

\* The invariant holds throughout.
THEOREM Invariance == Spec => []IInv
BY InitInv, Inductive, PTL DEF Spec

\* The rows, the provider and the processes keep to their value sets; no sequence
\* of dispatch and reconciliation steps overfills an order.
THEOREM TypeCorrect == Spec => []TypeOK
<1>1. IInv => TypeOK
    BY DEF IInv
<1> QED
    BY <1>1, Invariance, PTL

\* The provider receives at most one placement, however the dispatch retries,
\* times out or dies and whatever the reconciliation runs do beside it.
THEOREM OnePlacement == Spec => []AtMostOnePlacement
<1>1. IInv => AtMostOnePlacement
    BY DEF IInv, SendInv
<1> QED
    BY <1>1, Invariance, PTL

\* A trade stamped DEFINITELY_NOT_SENT has no order at the provider, nor one on
\* its way there, then or ever after.
THEOREM NotSent == Spec => []NotSentIsTrue
<1>1. IInv => NotSentIsTrue
    BY DEF IInv, RowInv, Unsendable, Sent, NotSentIsTrue
<1> QED
    BY <1>1, Invariance, PTL

\* No position can come of a trade that the dispatch or pass 7d rejected.
THEOREM RejectedIsFlat == Spec => []RejectedTradeHasNoPosition
<1>1. IInv => RejectedTradeHasNoPosition
    BY DEF IInv, RowInv, Unsendable, Refused, Sent, RejectedTradeHasNoPosition
<1> QED
    BY <1>1, Invariance, PTL

\* A recorded fill and an OPEN trade have a fill at the provider behind them,
\* however stale the copies were from which they were recorded.
THEOREM RealExposure == Spec => []ExposureIsReal
<1>1. IInv => ExposureIsReal
    BY DEF IInv, RowInv
<1> QED
    BY <1>1, Invariance, PTL

\* The dispatch moves neither row out of a terminal state.
LEMMA LiveKeepsTerminal ==
    ASSUME IInv, LiveStep \/ CommitAckLost \/ LiveStatementFails \/ LiveCrash
    PROVE  /\ order.status \in TerminalOrder => order'.status = order.status
           /\ trade.status \in TerminalTrade => trade'.status = trade.status
<1>t. /\ order \in OrderRow /\ trade \in TradeRow /\ live \in Live
      /\ "none" \in Id /\ live.id \in Id /\ live.qty \in Nat
    BY TypeParts, RequestedAssumption DEF IInv, Typed, Live, Id
<1>1. CASE \/ MarkSubmitted \/ RejectRefused \/ MarkUncertain \/ RejectByProvider
           \/ MarkAcknowledged \/ LiveFill
    <2>1. trade' = trade
        BY <1>1 DEF MarkSubmitted, RejectRefused, MarkUncertain, RejectByProvider,
           MarkAcknowledged, LiveFill, LiveOrder
    <2>2. \/ \E to : \E id \in {"none", live.id} : order' = Transition(order, to, id)
          \/ order' = ApplyFill(order, live.qty, live.id)
        BY <1>1 DEF MarkSubmitted, RejectRefused, MarkUncertain, RejectByProvider,
           MarkAcknowledged, LiveFill
    <2> QED
        BY <1>t, <2>1, <2>2, TransitionFacts, ApplyFillFacts
<1>2. CASE Commit \/ CommitAckLost
    BY <1>2 DEF Commit, CommitAckLost, Commitment, CommitGuard, TerminalOrder
<1>3. CASE \/ Block \/ ConnectFails \/ AttemptNotSent \/ PlaceOrder \/ CallUncertain
           \/ MapResponse \/ LiveStatementFails \/ LiveCrash
    BY <1>3 DEF Block, ConnectFails, AttemptNotSent, PlaceOrder, CallUncertain,
       MapResponse, LiveStatementFails, LiveCrash, LiveOnly, rows
<1>4. CASE TradeBlocked \/ TradeError \/ TradeFilled \/ TradeRejected \/ TradeUnknown
    BY <1>4, Tables DEF TradeBlocked, TradeError, TradeFilled, TradeRejected,
       TradeUnknown, TradeOutcome, TradeCas
<1>5. CASE TradeWorking
    BY <1>5, <1>t DEF TradeWorking, TradeRow
<1> QED
    BY <1>1, <1>2, <1>3, <1>4, <1>5 DEF LiveStep

\* Nor does a reconciliation run: the copy it compares the trade with is never
\* one of a terminal row.
LEMMA RunKeepsTerminal ==
    ASSUME IInv, NEW r \in Runs, RunStep(r) \/ RunFails(r)
    PROVE  /\ order.status \in TerminalOrder => order'.status = order.status
           /\ trade.status \in TerminalTrade => trade'.status = trade.status
<1>t. /\ order \in OrderRow /\ trade \in TradeRow /\ runs[r] \in Run /\ "none" \in Id
      /\ Believes(runs[r])
    BY TypeParts DEF IInv, Typed, Id, RunInv
<1>1. CASE ApplyOrder(r) \/ CrashWindowOrder(r)
    <2>1. \/ order' = Resolved(runs[r].ord, runs[r].seen, order)
          \/ order' = Transition(order, "RECONCILIATION_PENDING", "none")
        BY <1>1 DEF ApplyOrder, CrashWindowOrder
    <2>2. trade' = trade
        BY <1>1 DEF ApplyOrder, CrashWindowOrder, RunOrder
    <2>3. Resolved(runs[r].ord, runs[r].seen, order) = order \/ order.status \notin TerminalOrder
        BY <1>t, ResolvedFacts DEF Run
    <2> QED
        BY <1>t, <2>1, <2>2, <2>3, TransitionFacts
<1>2. CASE PreCommitmentOrder(r) \/ ResolveLinkedOrder(r)
    <2>1. order' = order \/ \E to : order' = Transition(order, to, "none")
        BY <1>2 DEF PreCommitmentOrder, ResolveLinkedOrder
    <2>2. trade' = trade
        BY <1>2 DEF PreCommitmentOrder, ResolveLinkedOrder, RunOrder
    <2> QED
        BY <1>t, <2>1, <2>2, TransitionFacts
<1>3. CASE RecoverTimedOut(r) \/ ApplyPosition(r)
    <2>1. runs[r].trd.status \notin TerminalTrade
        BY <1>3, <1>t DEF RecoverTimedOut, ApplyPosition, Believes
    <2>2. trade.status = runs[r].trd.status \/ trade' = trade
        BY <1>3 DEF RecoverTimedOut, ApplyPosition, RecoverTradeToOpen
    <2>3. order' = order
        BY <1>3 DEF RecoverTimedOut, ApplyPosition, RunTrade
    <2> QED
        BY <2>1, <2>2, <2>3
<1>4. CASE CrashWindowTrade(r) \/ PreCommitmentTrade(r)
    BY <1>4 DEF CrashWindowTrade, PreCommitmentTrade, RunTrade, TerminalTrade
<1>5. CASE \/ ReadProvider(r) \/ ReadRows(r) \/ CheckPosition(r) \/ LookUpOrder(r)
           \/ ReadPreCommitment(r) \/ RunFails(r)
    BY <1>5 DEF RunFails, ReadProvider, ReadRows, CheckPosition, LookUpOrder,
       ReadPreCommitment, RunOnly, rows
<1> QED
    BY <1>1, <1>2, <1>3, <1>4, <1>5 DEF RunStep

\* A FILLED, REJECTED or CANCELLED order and a CLOSED or REJECTED trade stay what
\* they are, whoever writes and however old its copy is.
THEOREM TerminalStays == Spec => TerminalIsFinal
<1>1. IInv /\ [Next]_vars =>
          [/\ order.status \in TerminalOrder => order'.status = order.status
           /\ trade.status \in TerminalTrade => trade'.status = trade.status]_vars
    <2>1. ASSUME IInv, Environment
          PROVE  order' = order /\ trade' = trade
        BY <2>1 DEF Environment, Tick, ProviderReceives, WireLost, ProviderMoves,
           ProviderSyncs, EnvOnly, rows
    <2> QED
        BY <2>1, LiveKeepsTerminal, RunKeepsTerminal DEF Next
<1> QED
    BY <1>1, Invariance, PTL DEF Spec, TerminalIsFinal
=============================================================================
