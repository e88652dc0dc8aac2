---------------------- MODULE CapitalAllocationProofs ----------------------
(***************************************************************************)
(* The capital of an account, for every set of decisions, deliveries and   *)
(* sizes: the rows are always well formed, a decision is reserved at most  *)
(* once, and what the trades taken in time commit stays within the budget. *)
(*                                                                         *)
(* Every action but the user's writes the rows of one decision.  Hence the *)
(* two predicates the proof is built from: RowsMove(i), what such a write  *)
(* does to the rows of decision i and of all others, and WorkersMove, what *)
(* it does to the deliveries.  The budget rests on one fact about sums:    *)
(* only a reservation adds a decision to those that count.                 *)
(***************************************************************************)
EXTENDS CapitalAllocation, FunctionSums

IntentStates == Created \union {"none", "EXECUTED", "REJECTED", "EXPIRED"}
AllocRows == [status : {"none", "ACTIVE", "RELEASED"}, capital : 0 .. MaxCapital]
TradeStates == LiveTrade \union {"none", "REJECTED", "CLOSED"}
OrderStates == {"none", "RESERVED", "COMMITTED"}
Sweeps == [expire : SUBSET Intents, release : SUBSET Intents]
Locals == [pc : WorkerPc, intent : Intents \union {"none"}]

RowsTyped ==
    /\ intent \in [Intents -> IntentStates]
    /\ alloc \in [Intents -> AllocRows]
    /\ trade \in [Intents -> TradeStates]
    /\ order \in [Intents -> OrderStates]

\* The rows of one decision: each is written after the one it needs, and an
\* intent is EXECUTED only once a trade exists.
RowSound(i) ==
    /\ order[i] # "none" => trade[i] # "none"
    /\ trade[i] # "none" => alloc[i].status # "none"
    /\ alloc[i].status # "none" => intent[i] # "none"
    /\ trade[i] = "none" => intent[i] # "EXECUTED"

\* What a delivery in state m has already written.
Recorded(m) == m.pc \notin {"idle", "record"} => intent[m.intent] # "none"
Allocated(m) == m.pc \notin {"idle", "record", "allocate"} => alloc[m.intent].status # "none"
Traded(m) == m.pc \in {"bind", "order", "commit"} => trade[m.intent] # "none"
WorkerSound(m) ==
    /\ m \in Locals
    /\ (m.pc = "idle") = (m.intent = "none")
    /\ Recorded(m) /\ Allocated(m) /\ Traded(m)

\* The inductive invariant, without the budget.
SoundInv ==
    /\ budget \in 0 .. MaxCapital
    /\ sweep \in Sweeps
    /\ RowsTyped
    /\ \A i \in Intents : RowSound(i)
    /\ worker \in [Workers -> Locals]
    /\ \A w \in Workers : WorkerSound(worker[w])

\* A reservation that counts and whose trade, if any, was taken in time.
On(i) == Counts(i) /\ OnTime(i)

\* No row disappears.
RowsLast(i) ==
    /\ intent[i] # "none" => intent'[i] # "none"
    /\ alloc[i].status # "none" => alloc'[i].status # "none"
    /\ trade[i] # "none" => trade'[i] # "none"

RowsSame(i) ==
    intent'[i] = intent[i] /\ alloc'[i] = alloc[i] /\ trade'[i] = trade[i] /\ order'[i] = order[i]

\* A write to the rows of decision i.
RowsMove(i) ==
    /\ RowsTyped'
    /\ \A j \in Intents : j # i => RowsSame(j)
    /\ RowSound(i)'
    /\ RowsLast(i)

WorkersMove ==
    /\ worker' \in [Workers -> Locals]
    /\ \A w \in Workers : worker'[w] = worker[w] \/ WorkerSound(worker[w])'

\* The reservation of decision i, once made, is at most released.
Kept(i) ==
    alloc[i].status # "none" =>
        /\ alloc'[i].capital = alloc[i].capital
        /\ alloc'[i].status \in {alloc[i].status, "RELEASED"}

\* Decision i does not start to count.
NotAdded(i) == On(i)' => On(i) /\ alloc'[i].capital = alloc[i].capital

-----------------------------------------------------------------------------
\* The invariant has the type invariant as its consequence.
LEMMA SoundIsTyped == SoundInv => TypeOK
BY DEF SoundInv, TypeOK, RowsTyped, RowSound, WorkerSound, IntentStates, AllocRows,
       TradeStates, OrderStates, Sweeps, Locals

\* The compare-and-set of an intent: the row changes only if it is CREATED.
LEMMA CasIntentEffect ==
  ASSUME RowsTyped, NEW i \in Intents, NEW to \in {"EXECUTED", "REJECTED", "EXPIRED"},
         CasIntent(i, to)
  PROVE  /\ intent' \in [Intents -> IntentStates]
         /\ \A j \in Intents : j # i => intent'[j] = intent[j]
         /\ intent[i] \in Created => intent'[i] = to
         /\ intent[i] \notin Created => intent'[i] = intent[i]
BY DEF RowsTyped, CasIntent, IntentStates

\* The release of a reservation: only an ACTIVE one changes, and only its status.
LEMMA ReleaseEffect ==
  ASSUME RowsTyped, NEW i \in Intents, Release(i)
  PROVE  /\ alloc' \in [Intents -> AllocRows]
         /\ \A j \in Intents : j # i => alloc'[j] = alloc[j]
         /\ alloc'[i].capital = alloc[i].capital
         /\ alloc[i].status = "ACTIVE" => alloc'[i].status = "RELEASED"
         /\ alloc[i].status # "ACTIVE" => alloc'[i].status = alloc[i].status
BY DEF RowsTyped, Release, AllocRows

\* The compare-and-set of a trade: only a PENDING one changes.
LEMMA CasTradeEffect ==
  ASSUME RowsTyped, NEW i \in Intents, NEW to \in {"OPEN", "REJECTED"}, CasTrade(i, to)
  PROVE  /\ trade' \in [Intents -> TradeStates]
         /\ \A j \in Intents : j # i => trade'[j] = trade[j]
         /\ trade[i] = "PENDING" => trade'[i] = to
         /\ trade[i] # "PENDING" => trade'[i] = trade[i]
BY DEF RowsTyped, CasTrade, TradeStates, LiveTrade

\* A delivery moves on within its decision.
LEMMA GotoEffect ==
  ASSUME worker \in [Workers -> Locals], NEW w \in Workers, NEW pc \in WorkerPc, Goto(w, pc)
  PROVE  /\ worker' \in [Workers -> Locals]
         /\ \A v \in Workers : v # w => worker'[v] = worker[v]
         /\ worker'[w] = [pc |-> pc, intent |-> worker[w].intent]
BY DEF Goto, Locals

\* A delivery that ends holds nothing.
LEMMA FinishEffect ==
  ASSUME worker \in [Workers -> Locals], NEW w \in Workers, Finish(w)
  PROVE  WorkersMove
<1>1. IdleWorker \in Locals BY DEF IdleWorker, Locals, WorkerPc
<1>2. /\ worker' \in [Workers -> Locals]
      /\ \A v \in Workers : v # w => worker'[v] = worker[v]
      /\ worker'[w] = IdleWorker
  BY <1>1 DEF Finish
<1>3. WorkerSound(worker[w])'
  BY <1>1, <1>2 DEF WorkerSound, Recorded, Allocated, Traded, IdleWorker, Locals
<1> QED BY <1>2, <1>3 DEF WorkersMove

\* A write to the rows of one decision, and any sound move of the deliveries,
\* keep the invariant.
LEMMA MoveKeeps ==
  ASSUME SoundInv, NEW i \in Intents, RowsMove(i), WorkersMove,
         (budget \in 0 .. MaxCapital)',
         (sweep \in Sweeps)'
  PROVE  SoundInv'
<1>1. \A j \in Intents : RowSound(j)' BY DEF SoundInv, RowsMove, RowsSame, RowSound
<1>2. \A j \in Intents : RowsLast(j) BY DEF RowsMove, RowsSame, RowsLast
<1>3. ASSUME NEW w \in Workers, worker'[w] = worker[w] PROVE WorkerSound(worker[w])'
  <2>1. WorkerSound(worker[w]) BY DEF SoundInv
  <2>2. CASE worker[w].pc = "idle"
    BY <1>3, <2>1, <2>2 DEF WorkerSound, Recorded, Allocated, Traded
  <2>3. CASE worker[w].pc # "idle"
    <3>1. worker[w].intent \in Intents BY <2>1, <2>3 DEF WorkerSound, Locals
    <3> QED BY <1>2, <1>3, <2>1, <3>1 DEF WorkerSound, Recorded, Allocated, Traded, RowsLast
  <2> QED BY <2>2, <2>3
<1>4. \A w \in Workers : WorkerSound(worker[w])' BY <1>3 DEF WorkersMove
<1> QED BY <1>1, <1>4 DEF SoundInv, RowsMove, WorkersMove

-----------------------------------------------------------------------------
\* What a step of a delivery for decision i does to the reservations: it makes
\* decision i's, or lets nothing new count.
Reserves(i) ==
    /\ alloc[i].status = "none"
    /\ \E requested \in Sizes :
          /\ requested + Committed <= budget
          /\ alloc' = [alloc EXCEPT ![i] = [status |-> "ACTIVE", capital |-> requested]]
    /\ UNCHANGED <<intent, trade>>

\* A write to the rows of decision i that respects its reservation.
RowsStep(i) == RowsMove(i) /\ Kept(i) /\ (NotAdded(i) \/ Reserves(i))

\* The deliveries' part when delivery w goes on to pc with its decision.
LEMMA GotoMoves ==
  ASSUME SoundInv, NEW w \in Workers, NEW pc \in WorkerPc, Goto(w, pc),
         worker[w].intent \in Intents, pc # "idle",
         pc # "record" => intent'[worker[w].intent] # "none",
         pc \notin {"record", "allocate"} => alloc'[worker[w].intent].status # "none",
         pc \in {"bind", "order", "commit"} => trade'[worker[w].intent] # "none"
  PROVE  WorkersMove
<1>1. /\ worker' \in [Workers -> Locals]
      /\ \A v \in Workers : v # w => worker'[v] = worker[v]
      /\ worker'[w] = [pc |-> pc, intent |-> worker[w].intent]
  BY GotoEffect DEF SoundInv
<1>2. WorkerSound(worker[w])'
  <2>1. worker'[w].pc = pc /\ worker'[w].intent = worker[w].intent BY <1>1
  <2>2. worker'[w].intent # "none" BY <2>1, AllocationAssumption
  <2> QED BY <1>1, <2>1, <2>2 DEF WorkerSound, Recorded, Allocated, Traded
<1> QED BY <1>1, <1>2 DEF WorkersMove

\* Rows nobody writes are a write to any decision's rows.
LEMMA RowsUnchanged ==
  ASSUME SoundInv, NEW i \in Intents, UNCHANGED rows
  PROVE  RowsStep(i)
<1>1. RowsTyped' BY DEF SoundInv, RowsTyped, rows
<1>2. RowSound(i)' BY DEF SoundInv, RowSound, rows
<1>3. (\A j \in Intents : RowsSame(j)) /\ RowsLast(i) BY DEF RowsSame, RowsLast, rows
<1>4. Kept(i) BY DEF Kept, rows
<1>5. NotAdded(i) BY DEF NotAdded, On, Counts, InFlight, OnTime, rows
<1> QED BY <1>1, <1>2, <1>3, <1>4, <1>5 DEF RowsStep, RowsMove

\* Only the intent of decision i changes: along its life cycle, and to EXECUTED
\* only when there is a trade.
LEMMA IntentMoves ==
  ASSUME SoundInv, NEW i \in Intents, UNCHANGED <<alloc, trade, order>>,
         intent' \in [Intents -> IntentStates],
         \A j \in Intents : j # i => intent'[j] = intent[j],
         intent'[i] # "none",
         intent'[i] = "EXECUTED" => trade[i] # "none" \/ intent[i] = "EXECUTED",
         intent'[i] = intent[i] \/ intent[i] \in Created \/ alloc[i].status = "none"
  PROVE  RowsStep(i)
<1>1. RowsTyped' BY DEF SoundInv, RowsTyped
<1>2. RowSound(i)' BY DEF SoundInv, RowSound
<1>3. (\A j \in Intents : j # i => RowsSame(j)) /\ RowsLast(i) BY DEF RowsSame, RowsLast
<1>4. Kept(i) BY DEF Kept
<1>5. NotAdded(i) BY DEF NotAdded, On, Counts, InFlight, OnTime, Created, LiveTrade
<1> QED BY <1>1, <1>2, <1>3, <1>4, <1>5 DEF RowsStep, RowsMove

\* A compare-and-set of the intent alone.
LEMMA CasIntentMoves ==
  ASSUME SoundInv, NEW i \in Intents, UNCHANGED <<alloc, trade, order>>,
         NEW to \in {"EXECUTED", "REJECTED", "EXPIRED"}, CasIntent(i, to),
         intent[i] # "none", to = "EXECUTED" => trade[i] # "none"
  PROVE  RowsStep(i)
<1>1. RowsTyped BY DEF SoundInv
<1>2. /\ intent' \in [Intents -> IntentStates]
      /\ \A j \in Intents : j # i => intent'[j] = intent[j]
      /\ intent[i] \in Created => intent'[i] = to
      /\ intent[i] \notin Created => intent'[i] = intent[i]
  BY <1>1, CasIntentEffect
<1> QED BY <1>2, IntentMoves DEF Created

\* A release alone.
LEMMA ReleaseMoves ==
  ASSUME SoundInv, NEW i \in Intents, UNCHANGED <<intent, trade, order>>, Release(i)
  PROVE  RowsStep(i)
<1>1. RowsTyped BY DEF SoundInv
<1>2. /\ alloc' \in [Intents -> AllocRows]
      /\ \A j \in Intents : j # i => alloc'[j] = alloc[j]
      /\ alloc'[i].capital = alloc[i].capital
      /\ alloc[i].status = "ACTIVE" => alloc'[i].status = "RELEASED"
      /\ alloc[i].status # "ACTIVE" => alloc'[i].status = alloc[i].status
  BY <1>1, ReleaseEffect
<1>3. RowsTyped' BY <1>1, <1>2 DEF RowsTyped
<1>4. RowSound(i)' BY <1>2 DEF SoundInv, RowSound
<1>5. (\A j \in Intents : j # i => RowsSame(j)) /\ RowsLast(i) BY <1>2 DEF RowsSame, RowsLast
<1>6. Kept(i) BY <1>2 DEF Kept
<1>7. NotAdded(i) BY <1>2 DEF NotAdded, On, Counts, InFlight, OnTime
<1> QED BY <1>3, <1>4, <1>5, <1>6, <1>7 DEF RowsStep, RowsMove

\* A new order row, or a new state of it, for a decision that has its trade.
LEMMA OrderMoves ==
  ASSUME SoundInv, NEW i \in Intents, UNCHANGED <<intent, alloc, trade>>,
         NEW to \in OrderStates, order' = [order EXCEPT ![i] = to], trade[i] # "none"
  PROVE  RowsStep(i)
<1>1. RowsTyped' BY DEF SoundInv, RowsTyped
<1>2. RowSound(i)' BY DEF SoundInv, RowSound, RowsTyped
<1>3. (\A j \in Intents : j # i => RowsSame(j)) /\ RowsLast(i)
  BY DEF RowsSame, RowsLast, SoundInv, RowsTyped
<1>4. Kept(i) BY DEF Kept
<1>5. NotAdded(i) BY DEF NotAdded, On, Counts, InFlight, OnTime
<1> QED BY <1>1, <1>2, <1>3, <1>4, <1>5 DEF RowsStep, RowsMove

\* The trade moves on, the intent may be rejected with it, the reservation may be
\* released and the order may end or stay: nothing new counts.
LEMMA TradeStepMoves ==
  ASSUME SoundInv, NEW i \in Intents, RowsTyped',
         \A j \in Intents : j # i => RowsSame(j),
         trade[i] # "none",
         trade'[i] = trade[i] \/ (trade[i] \in LiveTrade /\ trade'[i] # "none"),
         intent'[i] = intent[i] \/ intent'[i] = "REJECTED",
         alloc'[i].capital = alloc[i].capital,
         alloc'[i].status = alloc[i].status \/ alloc'[i].status = "RELEASED"
  PROVE  RowsStep(i)
<1>1. RowSound(i)' BY DEF SoundInv, RowSound
<1>2. RowsLast(i) BY DEF RowsLast, SoundInv, RowSound
<1>3. Kept(i) BY DEF Kept
<1>4. NotAdded(i) BY DEF NotAdded, On, Counts, InFlight, OnTime, Created, LiveTrade
<1> QED BY <1>1, <1>2, <1>3, <1>4 DEF RowsStep, RowsMove
-----------------------------------------------------------------------------
\* The capital of every decision is a natural.
LEMMA CapitalNat == SoundInv => [i \in Intents |-> alloc[i].capital] \in [Intents -> Nat]
BY AllocationAssumption DEF SoundInv, RowsTyped, AllocRows

\* What is committed is a natural.
LEMMA CommittedNat == ASSUME SoundInv PROVE Committed \in Nat
<1> DEFINE v == [i \in Intents |-> alloc[i].capital]
           I == {i \in Intents : Counts(i)}
<1>2. v \in [Intents -> Nat] BY CapitalNat
<1>3. I \in SUBSET Intents OBVIOUS
<1> HIDE DEF v, I
<1>4. SumFunctionOnSet(v, I) \in Nat
  BY <1>2, <1>3, SumRemoves, AllocationAssumption
<1> QED BY <1>4 DEF Committed, CapitalOf, v, I

\* A delivery past its first statement has a decision, whose intent exists.
LEMMA BusyWorker ==
  ASSUME SoundInv, NEW w \in Workers, worker[w].pc # "idle"
  PROVE  /\ worker[w].intent \in Intents
         /\ Recorded(worker[w]) /\ Allocated(worker[w]) /\ Traded(worker[w])
<1>1. WorkerSound(worker[w]) BY DEF SoundInv
<1> QED BY <1>1 DEF WorkerSound, Locals

\* Every step of a delivery writes the rows of its own decision.
LEMMA WorkerStepMoves ==
  ASSUME SoundInv, NEW w \in Workers, NEW i \in Intents, worker[w].intent = i,
         WorkerStep(w)
  PROVE  RowsStep(i) /\ WorkersMove /\ UNCHANGED <<budget, sweep>>
<1>0. worker[w].pc # "idle"
  BY DEF WorkerStep, RecordIntent, ResolveOrAllocate, SizingAllocationFails, RiskApproves,
         RiskRejects, ReleaseRejected, IntentGuardPasses, ExecutionRefused,
         ReserveTradeSlot, BindIntent, ReserveOrder, CommitDispatch, BlockDispatch,
         OrchestrationFails, WorkerDies
<1>1. Recorded(worker[w]) /\ Allocated(worker[w]) /\ Traded(worker[w])
  BY <1>0, BusyWorker
<1>2. RowSound(i) /\ RowsTyped /\ worker \in [Workers -> Locals] BY <1>1 DEF SoundInv
<1>3. UNCHANGED <<budget, sweep>>
  BY DEF WorkerStep, RecordIntent, ResolveOrAllocate, SizingAllocationFails, RiskApproves,
         RiskRejects, ReleaseRejected, IntentGuardPasses, ExecutionRefused,
         ReserveTradeSlot, BindIntent, ReserveOrder, CommitDispatch, BlockDispatch,
         OrchestrationFails, WorkerDies, Others, WorkerOnly
<1> DEFINE Done == RowsStep(i) /\ WorkersMove
<1> SUFFICES Done BY <1>3
<1>4. CASE RecordIntent(w)
  <2>1. /\ intent' \in [Intents -> IntentStates]
        /\ \A j \in Intents : j # i => intent'[j] = intent[j]
        /\ intent'[i] = IF intent[i] = "none" THEN "CREATED" ELSE intent[i]
    BY <1>1, <1>2, <1>4 DEF RecordIntent, RowsTyped, IntentStates, Created
  <2>2. RowsStep(i)
    BY <1>1, <1>2, <1>4, <2>1, IntentMoves DEF RecordIntent, RowSound, Created
  <2>3. WorkersMove
    BY <1>1, <1>4, <2>1, GotoMoves DEF RecordIntent, WorkerPc
  <2> QED BY <2>2, <2>3
<1>5. CASE ResolveOrAllocate(w)
  <2>1. CASE alloc[i].status = "ACTIVE" /\ Goto(w, "risk") /\ UNCHANGED alloc
    <3>1. UNCHANGED rows BY <1>5, <2>1 DEF ResolveOrAllocate, rows
    <3>2. intent'[i] # "none" BY <1>2, <2>1, <3>1 DEF RowSound, rows
    <3>3. WorkersMove BY <1>1, <2>1, <3>2, GotoMoves DEF WorkerPc
    <3> QED BY <1>1, <3>1, <3>3, RowsUnchanged
  <2>2. ASSUME NEW requested \in Sizes, NEW equity \in Amounts, NEW capped \in BOOLEAN,
               alloc[i].status = "none", Reservable(i, requested, equity, capped),
               alloc' = [alloc EXCEPT ![i] = [status |-> "ACTIVE", capital |-> requested]],
               Goto(w, "risk")
        PROVE  Done
    <3> DEFINE row == [status |-> "ACTIVE", capital |-> requested]
    <3>1. UNCHANGED <<intent, trade, order>> BY <1>5 DEF ResolveOrAllocate
    <3>2. row \in AllocRows BY AllocationAssumption DEF AllocRows
    <3>3. /\ alloc' \in [Intents -> AllocRows]
          /\ \A j \in Intents : j # i => alloc'[j] = alloc[j]
          /\ alloc'[i] = row
      BY <1>1, <1>2, <2>2, <3>2 DEF RowsTyped
    <3>4. intent[i] # "none"
      BY <1>1, <1>5 DEF ResolveOrAllocate, Recorded
    <3>5. alloc'[i].status # "none" BY <3>3
    <3>6. WorkersMove BY <1>1, <2>2, <3>1, <3>4, <3>5, GotoMoves DEF WorkerPc
    <3>7. Reserves(i)
      <4>1. requested + Committed <= budget
        <5> DEFINE c == requested + Committed
        <5>1. \/ c <= equity /\ equity < budget
              \/ c <= budget
          BY <2>2 DEF Reservable
        <5>2. SoundInv /\ budget \in Nat /\ equity \in Nat
          BY AllocationAssumption DEF SoundInv, Amounts
        <5>3. c \in Int BY <5>2, AllocationAssumption, CommittedNat
        <5> HIDE DEF c
        <5>4. c <= budget BY <5>1, <5>2, <5>3
        <5> QED BY <5>4 DEF c
      <4> QED BY <2>2, <3>1, <4>1 DEF Reserves
    <3>8. RowsMove(i) /\ Kept(i)
      <4>1. RowsTyped' BY <1>2, <3>1, <3>3 DEF RowsTyped
      <4>2. RowSound(i)' BY <1>2, <2>2, <3>1, <3>4 DEF RowSound
      <4>3. (\A j \in Intents : j # i => RowsSame(j)) /\ RowsLast(i)
        BY <2>2, <3>1, <3>3, <3>5 DEF RowsSame, RowsLast
      <4>4. Kept(i) BY <2>2 DEF Kept
      <4> QED BY <4>1, <4>2, <4>3, <4>4 DEF RowsMove
    <3> QED BY <3>6, <3>7, <3>8 DEF RowsStep
  <2> QED BY <1>5, <2>1, <2>2 DEF ResolveOrAllocate
<1>6. CASE SizingAllocationFails(w)
  <2>1. RowsStep(i)
    BY <1>1, <1>6, CasIntentMoves DEF SizingAllocationFails, Recorded
  <2> QED BY <1>2, <1>6, <2>1, FinishEffect DEF SizingAllocationFails
<1>7. CASE RiskApproves(w)
  <2>1. UNCHANGED rows BY <1>7 DEF RiskApproves, WorkerOnly
  <2>2. WorkersMove
    BY <1>1, <1>7, <2>1, GotoMoves DEF RiskApproves, Recorded, Allocated, WorkerPc, rows
  <2> QED BY <1>1, <2>1, <2>2, RowsUnchanged
<1>8. CASE RiskRejects(w)
  <2>1. RowsStep(i)
    <3>1. CASE CasIntent(i, "REJECTED")
      BY <1>1, <1>8, <3>1, CasIntentMoves DEF RiskRejects, Recorded
    <3>2. CASE UNCHANGED intent BY <1>1, <1>8, <3>2, RowsUnchanged DEF RiskRejects, rows
    <3> QED BY <1>8, <3>1, <3>2 DEF RiskRejects
  <2>2. intent'[i] # "none" /\ alloc'[i].status # "none"
    BY <1>1, <1>8, <2>1 DEF RiskRejects, Recorded, Allocated, RowsStep, RowsMove, RowsLast
  <2>3. WorkersMove BY <1>1, <1>8, <2>2, GotoMoves DEF RiskRejects, WorkerPc
  <2> QED BY <2>1, <2>3
<1>9. CASE ReleaseRejected(w)
  BY <1>1, <1>2, <1>9, ReleaseMoves, FinishEffect DEF ReleaseRejected
<1>10. CASE IntentGuardPasses(w)
  <2>1. UNCHANGED rows BY <1>10 DEF IntentGuardPasses, WorkerOnly
  <2>2. WorkersMove
    BY <1>1, <1>10, <2>1, GotoMoves DEF IntentGuardPasses, Recorded, Allocated, WorkerPc, rows
  <2> QED BY <1>1, <2>1, <2>2, RowsUnchanged
<1>11. CASE ExecutionRefused(w)
  <2>1. UNCHANGED <<alloc, trade, order>> /\ Finish(w) BY <1>11 DEF ExecutionRefused
  <2>2. intent[i] # "none" BY <1>1, <1>11 DEF ExecutionRefused, Recorded
  <2>3. RowsStep(i)
    <3>1. CASE CasIntent(i, "EXPIRED") BY <1>1, <2>1, <2>2, <3>1, CasIntentMoves
    <3>2. CASE UNCHANGED intent BY <1>1, <2>1, <3>2, RowsUnchanged DEF rows
    <3> QED BY <1>11, <3>1, <3>2 DEF ExecutionRefused
  <2> QED BY <1>2, <2>1, <2>3, FinishEffect
<1>12. CASE ReserveTradeSlot(w)
  <2>0. intent[i] # "none" /\ alloc[i].status # "none" /\ UNCHANGED <<alloc, order>>
    BY <1>1, <1>12 DEF ReserveTradeSlot, Recorded, Allocated
  <2>1. CASE trade[i] = "none"
    <3>1. /\ trade' = [trade EXCEPT ![i] = "PENDING"]
          /\ Goto(w, "bind") /\ UNCHANGED intent
      BY <1>12, <2>1 DEF ReserveTradeSlot
    <3>2. /\ trade' \in [Intents -> TradeStates]
          /\ \A j \in Intents : j # i => trade'[j] = trade[j]
          /\ trade'[i] = "PENDING"
      BY <1>1, <1>2, <3>1 DEF RowsTyped, TradeStates, LiveTrade
    <3>3. WorkersMove BY <1>1, <2>0, <3>1, <3>2, GotoMoves DEF WorkerPc
    <3>4. RowsTyped' BY <1>2, <2>0, <3>1, <3>2 DEF RowsTyped
    <3>5. RowSound(i)' BY <1>2, <2>0, <3>1, <3>2 DEF RowSound
    <3>6. (\A j \in Intents : j # i => RowsSame(j)) /\ RowsLast(i)
      BY <2>0, <3>1, <3>2 DEF RowsSame, RowsLast
    <3>7. Kept(i) BY <2>0 DEF Kept
    <3>8. NotAdded(i)
      BY <1>2, <2>0, <2>1, <3>1, <3>2
      DEF RowSound, NotAdded, On, Counts, InFlight, OnTime, Created, LiveTrade
    <3> QED BY <3>3, <3>4, <3>5, <3>6, <3>7, <3>8 DEF RowsStep, RowsMove
  <2>2. CASE trade[i] # "none"
    <3>1. CasIntent(i, "EXECUTED") /\ Finish(w) /\ UNCHANGED trade
      BY <1>12, <2>2 DEF ReserveTradeSlot
    <3>2. RowsStep(i) BY <1>1, <2>0, <2>2, <3>1, CasIntentMoves
    <3> QED BY <1>2, <3>1, <3>2, FinishEffect
  <2> QED BY <2>1, <2>2
<1>13. CASE BindIntent(w)
  <2>1. intent[i] # "none" /\ alloc[i].status # "none" /\ trade[i] # "none"
    BY <1>1, <1>13 DEF BindIntent, Recorded, Allocated, Traded
  <2>2. RowsStep(i) BY <1>1, <1>13, <2>1, CasIntentMoves DEF BindIntent
  <2>3. intent'[i] # "none" BY <2>1, <2>2 DEF RowsStep, RowsMove, RowsLast
  <2>4. WorkersMove BY <1>1, <1>13, <2>1, <2>3, GotoMoves DEF BindIntent, WorkerPc
  <2> QED BY <2>2, <2>4
<1>14. CASE ReserveOrder(w)
  <2>1. intent[i] # "none" /\ alloc[i].status # "none" /\ trade[i] # "none"
    BY <1>1, <1>14 DEF ReserveOrder, Recorded, Allocated, Traded
  <2>2. RowsStep(i) BY <1>1, <1>14, <2>1, OrderMoves DEF ReserveOrder, OrderStates
  <2>3. WorkersMove BY <1>1, <1>14, <2>1, GotoMoves DEF ReserveOrder, WorkerPc
  <2> QED BY <2>2, <2>3
<1>15. CASE CommitDispatch(w)
  <2>1. trade[i] # "none" BY <1>1, <1>15 DEF CommitDispatch, Traded
  <2>2. RowsStep(i) BY <1>1, <1>15, <2>1, OrderMoves DEF CommitDispatch, OrderStates
  <2> QED BY <1>2, <1>15, <2>2, FinishEffect DEF CommitDispatch
<1>16. CASE BlockDispatch(w)
  <2>1. /\ order' = [order EXCEPT ![i] = "none"] /\ UNCHANGED alloc
        /\ CasTrade(i, "REJECTED") /\ CasIntent(i, "REJECTED") /\ Finish(w)
    BY <1>16 DEF BlockDispatch
  <2>2. /\ intent' \in [Intents -> IntentStates]
        /\ \A j \in Intents : j # i => intent'[j] = intent[j]
        /\ intent'[i] = intent[i] \/ intent'[i] = "REJECTED"
    BY <1>1, <1>2, <2>1, CasIntentEffect
  <2>3. /\ trade' \in [Intents -> TradeStates]
        /\ \A j \in Intents : j # i => trade'[j] = trade[j]
        /\ trade[i] = "PENDING" => trade'[i] = "REJECTED"
        /\ trade[i] # "PENDING" => trade'[i] = trade[i]
    BY <1>1, <1>2, <2>1, CasTradeEffect
  <2>4. /\ order' \in [Intents -> OrderStates]
        /\ \A j \in Intents : j # i => order'[j] = order[j]
    BY <1>1, <1>2, <2>1 DEF RowsTyped, OrderStates
  <2>5. RowsTyped' BY <1>2, <2>1, <2>2, <2>3, <2>4 DEF RowsTyped
  <2>6. \A j \in Intents : j # i => RowsSame(j) BY <2>1, <2>2, <2>3, <2>4 DEF RowsSame
  <2>7. trade[i] # "none" BY <1>1, <1>16 DEF BlockDispatch, Traded
  <2>8. RowsStep(i)
    BY <1>1, <2>1, <2>2, <2>3, <2>5, <2>6, <2>7, TradeStepMoves DEF LiveTrade
  <2> QED BY <1>2, <2>1, <2>8, FinishEffect
<1>17. CASE OrchestrationFails(w)
  <2>1. UNCHANGED <<intent, alloc, order>> /\ CasTrade(i, "OPEN") /\ Finish(w)
    BY <1>17 DEF OrchestrationFails
  <2>2. /\ trade' \in [Intents -> TradeStates]
        /\ \A j \in Intents : j # i => trade'[j] = trade[j]
        /\ trade[i] = "PENDING" => trade'[i] = "OPEN"
        /\ trade[i] # "PENDING" => trade'[i] = trade[i]
    BY <1>1, <1>2, <2>1, CasTradeEffect
  <2>3. RowsTyped' BY <1>2, <2>1, <2>2 DEF RowsTyped
  <2>4. \A j \in Intents : j # i => RowsSame(j) BY <2>1, <2>2 DEF RowsSame
  <2>5. trade[i] # "none" BY <1>1, <1>17 DEF OrchestrationFails, Traded
  <2>6. RowsStep(i)
    BY <1>1, <2>1, <2>2, <2>3, <2>4, <2>5, TradeStepMoves DEF LiveTrade
  <2> QED BY <1>2, <2>1, <2>6, FinishEffect
<1>18. CASE WorkerDies(w)
  BY <1>1, <1>2, <1>18, RowsUnchanged, FinishEffect DEF WorkerDies, WorkerOnly
<1> HIDE DEF Done
<1> QED BY <1>4, <1>5, <1>6, <1>7, <1>8, <1>9, <1>10, <1>11, <1>12, <1>13, <1>14, <1>15,
           <1>16, <1>17, <1>18 DEF WorkerStep
\* Nobody's delivery changes.
LEMMA WorkersStay == ASSUME SoundInv, UNCHANGED worker PROVE WorkersMove
BY DEF SoundInv, WorkersMove

\* A signal is delivered: no row is written.
LEMMA DeliverMoves ==
  ASSUME SoundInv, NEW w \in Workers, NEW i \in Intents, Deliver(w, i)
  PROVE  RowsStep(i) /\ WorkersMove /\ UNCHANGED <<budget, sweep>>
<1> DEFINE m == [pc |-> "record", intent |-> i]
<1>1. UNCHANGED rows /\ UNCHANGED <<budget, sweep>> /\ worker' = [worker EXCEPT ![w] = m]
  BY DEF Deliver, WorkerOnly
<1>2. m \in Locals BY DEF Locals, WorkerPc
<1>3. /\ worker' \in [Workers -> Locals]
      /\ \A v \in Workers : v # w => worker'[v] = worker[v]
      /\ worker'[w] = m
  BY <1>1, <1>2 DEF SoundInv
<1>4. WorkerSound(worker[w])'
  BY <1>2, <1>3, AllocationAssumption DEF WorkerSound, Recorded, Allocated, Traded
<1>5. WorkersMove BY <1>3, <1>4 DEF WorkersMove
<1> QED BY <1>1, <1>5, RowsUnchanged

\* The steps of reconciliation, of the provider's answers and of time: each writes
\* the rows of one decision and leaves deliveries and sweep alone.
LEMMA OutsideMoves ==
  ASSUME SoundInv, NEW i \in Intents,
         \/ Expire(i) \/ RecoverPreCommitment(i) \/ CloseFromProvider(i)
         \/ \E to \in {"OPEN", "REJECTED", "CLOSED"} : TradeMoves(i, to)
  PROVE  RowsStep(i) /\ WorkersMove /\ UNCHANGED <<budget, sweep>>
<1>1. UNCHANGED <<budget, sweep, worker>>
  BY DEF Expire, RecoverPreCommitment, CloseFromProvider, TradeMoves, Others
<1> SUFFICES RowsStep(i) BY <1>1, WorkersStay
<1>2. RowSound(i) /\ RowsTyped BY DEF SoundInv
<1>3. CASE Expire(i)
  <2>1. /\ intent' \in [Intents -> IntentStates]
        /\ \A j \in Intents : j # i => intent'[j] = intent[j]
        /\ intent'[i] = "STALE"
    BY <1>2, <1>3 DEF Expire, RowsTyped, IntentStates, Created
  <2> QED BY <1>3, <2>1, IntentMoves DEF Expire, Created
<1>4. CASE RecoverPreCommitment(i)
  <2>1. /\ order[i] = "RESERVED" /\ order' = [order EXCEPT ![i] = "none"]
        /\ UNCHANGED intent
        /\ CasTrade(i, "REJECTED") \/ UNCHANGED trade
        /\ Release(i) \/ UNCHANGED alloc
    BY <1>4 DEF RecoverPreCommitment
  <2>2. trade[i] # "none" BY <1>2, <2>1 DEF RowSound
  <2>3. /\ order' \in [Intents -> OrderStates]
        /\ \A j \in Intents : j # i => order'[j] = order[j]
    BY <1>2, <2>1 DEF RowsTyped, OrderStates
  <2>4. /\ trade' \in [Intents -> TradeStates]
        /\ \A j \in Intents : j # i => trade'[j] = trade[j]
        /\ trade'[i] = trade[i] \/ (trade[i] \in LiveTrade /\ trade'[i] # "none")
    <3>1. CASE CasTrade(i, "REJECTED") BY <1>2, <3>1, CasTradeEffect DEF LiveTrade
    <3>2. CASE UNCHANGED trade BY <1>2, <3>2 DEF RowsTyped
    <3> QED BY <2>1, <3>1, <3>2
  <2>5. /\ alloc' \in [Intents -> AllocRows]
        /\ \A j \in Intents : j # i => alloc'[j] = alloc[j]
        /\ alloc'[i].capital = alloc[i].capital
        /\ alloc'[i].status = alloc[i].status \/ alloc'[i].status = "RELEASED"
    <3>1. CASE Release(i) BY <1>2, <3>1, ReleaseEffect
    <3>2. CASE UNCHANGED alloc BY <1>2, <3>2 DEF RowsTyped
    <3> QED BY <2>1, <3>1, <3>2
  <2>6. RowsTyped' BY <1>2, <2>1, <2>3, <2>4, <2>5 DEF RowsTyped
  <2>7. \A j \in Intents : j # i => RowsSame(j) BY <2>1, <2>3, <2>4, <2>5 DEF RowsSame
  <2> QED BY <2>1, <2>2, <2>4, <2>5, <2>6, <2>7, TradeStepMoves
<1>5. CASE CloseFromProvider(i)
  <2>1. /\ trade[i] = "OPEN" /\ trade' = [trade EXCEPT ![i] = "CLOSED"] /\ Release(i)
        /\ UNCHANGED <<intent, order>>
    BY <1>5 DEF CloseFromProvider
  <2>2. /\ trade' \in [Intents -> TradeStates]
        /\ \A j \in Intents : j # i => trade'[j] = trade[j]
        /\ trade'[i] = "CLOSED"
    BY <1>2, <2>1 DEF RowsTyped, TradeStates
  <2>3. /\ alloc' \in [Intents -> AllocRows]
        /\ \A j \in Intents : j # i => alloc'[j] = alloc[j]
        /\ alloc'[i].capital = alloc[i].capital
        /\ alloc'[i].status = alloc[i].status \/ alloc'[i].status = "RELEASED"
    BY <1>2, <2>1, ReleaseEffect
  <2>4. RowsTyped' BY <1>2, <2>1, <2>2, <2>3 DEF RowsTyped
  <2>5. \A j \in Intents : j # i => RowsSame(j) BY <2>1, <2>2, <2>3 DEF RowsSame
  <2> QED BY <2>1, <2>2, <2>3, <2>4, <2>5, TradeStepMoves DEF LiveTrade
<1>6. ASSUME NEW to \in {"OPEN", "REJECTED", "CLOSED"}, TradeMoves(i, to)
      PROVE  RowsStep(i)
  <2>1. /\ trade[i] \in LiveTrade /\ trade' = [trade EXCEPT ![i] = to]
        /\ UNCHANGED <<intent, alloc, order>>
    BY <1>6 DEF TradeMoves, LiveTrade
  <2>2. /\ trade' \in [Intents -> TradeStates]
        /\ \A j \in Intents : j # i => trade'[j] = trade[j]
        /\ trade'[i] = to
    BY <1>2, <2>1 DEF RowsTyped, TradeStates, LiveTrade
  <2>3. RowsTyped' BY <1>2, <2>1, <2>2 DEF RowsTyped
  <2>4. \A j \in Intents : j # i => RowsSame(j) BY <2>1, <2>2 DEF RowsSame
  <2> QED BY <2>1, <2>2, <2>3, <2>4, TradeStepMoves DEF LiveTrade
<1> QED BY <1>3, <1>4, <1>5, <1>6

\* The sweeper's statements about decision i.
LEMMA SweepMoves ==
  ASSUME SoundInv, NEW i \in Intents,
         SweepExpire(i) \/ SweepRelease(i) \/ SweepReleaseFails(i)
  PROVE  RowsStep(i) /\ WorkersMove /\ UNCHANGED budget /\ sweep' \in Sweeps
<1>1. UNCHANGED <<budget, worker>>
  BY DEF SweepExpire, SweepRelease, SweepReleaseFails
<1>2. sweep' \in Sweeps
  BY DEF SoundInv, Sweeps, SweepExpire, SweepRelease, SweepReleaseFails, Released
<1> SUFFICES RowsStep(i) BY <1>1, <1>2, WorkersStay
<1>3. CASE SweepExpire(i)
  <2>1. CASE intent[i] = "none"
    BY <1>3, <2>1, RowsUnchanged DEF SweepExpire, CasIntent, Created, rows
  <2>2. CASE intent[i] # "none" BY <1>3, <2>2, CasIntentMoves DEF SweepExpire
  <2> QED BY <2>1, <2>2
<1>4. CASE SweepRelease(i) BY <1>4, ReleaseMoves DEF SweepRelease
<1>5. CASE SweepReleaseFails(i) BY <1>5, RowsUnchanged DEF SweepReleaseFails
<1> QED BY <1>3, <1>4, <1>5

-----------------------------------------------------------------------------
\* What a step other than the user's is to the rows: a write to one decision's,
\* or none at all.
Moves == \E i \in Intents : RowsStep(i)
Stays == UNCHANGED <<rows, worker>>

\* Every step of the system is one of these, and only the user moves the budget.
LEMMA NextMoves ==
  ASSUME SoundInv, Next
  PROVE  \/ SetUserCapitalBudget
         \/ Moves /\ WorkersMove /\ UNCHANGED budget /\ sweep' \in Sweeps
         \/ Stays /\ UNCHANGED budget /\ sweep' \in Sweeps
<1> DEFINE Good == \/ Moves /\ WorkersMove /\ UNCHANGED budget /\ sweep' \in Sweeps
                   \/ Stays /\ UNCHANGED budget /\ sweep' \in Sweeps
<1>0. sweep \in Sweeps BY DEF SoundInv
<1>1. ASSUME NEW w \in Workers, WorkerStep(w) PROVE Good
  <2>1. worker[w].pc # "idle"
    BY <1>1
    DEF WorkerStep, RecordIntent, ResolveOrAllocate, SizingAllocationFails, RiskApproves,
        RiskRejects, ReleaseRejected, IntentGuardPasses, ExecutionRefused,
        ReserveTradeSlot, BindIntent, ReserveOrder, CommitDispatch, BlockDispatch,
        OrchestrationFails, WorkerDies
  <2>2. PICK i \in Intents : worker[w].intent = i BY <2>1, BusyWorker
  <2>3. RowsStep(i) /\ WorkersMove /\ UNCHANGED <<budget, sweep>>
    BY <1>1, <2>2, WorkerStepMoves
  <2> QED BY <1>0, <2>3 DEF Moves
<1>2. ASSUME NEW w \in Workers, NEW i \in Intents, Deliver(w, i) PROVE Good
  BY <1>0, <1>2, DeliverMoves DEF Moves
<1>3. ASSUME NEW i \in Intents,
             \/ Expire(i) \/ RecoverPreCommitment(i) \/ CloseFromProvider(i)
             \/ \E to \in {"OPEN", "REJECTED", "CLOSED"} : TradeMoves(i, to)
      PROVE  Good
  <2>1. RowsStep(i) /\ WorkersMove /\ UNCHANGED <<budget, sweep>> BY <1>3, OutsideMoves
  <2> QED BY <1>0, <2>1 DEF Moves
<1>4. ASSUME SweepFind \/ SweepDies PROVE Good
  <2>1. UNCHANGED <<rows, worker, budget>> BY <1>4 DEF SweepFind, SweepDies
  <2>2. sweep' \in Sweeps BY <1>4 DEF SweepFind, SweepDies, IdleSweep, Sweeps, Stale
  <2> QED BY <2>1, <2>2 DEF Stays
<1>5. ASSUME NEW i \in Intents, SweepExpire(i) \/ SweepRelease(i) \/ SweepReleaseFails(i)
      PROVE  Good
  <2>1. RowsStep(i) /\ WorkersMove /\ UNCHANGED budget /\ sweep' \in Sweeps
    BY <1>5, SweepMoves
  <2> QED BY <2>1 DEF Moves
<1> HIDE DEF Good
<1>6. SetUserCapitalBudget \/ Good BY <1>1, <1>2, <1>3, <1>4, <1>5 DEF Next, Sweeper
<1> QED BY <1>6 DEF Good

\* A step in which rows and deliveries stay keeps the invariant.
LEMMA StayKeeps ==
  ASSUME SoundInv, Stays, (budget \in 0 .. MaxCapital)', (sweep \in Sweeps)'
  PROVE  SoundInv'
<1>1. RowsTyped' BY DEF SoundInv, RowsTyped, Stays, rows
<1>2. \A i \in Intents : RowSound(i)' BY DEF SoundInv, RowSound, Stays, rows
<1>3. \A w \in Workers : WorkerSound(worker[w])'
  BY DEF SoundInv, WorkerSound, Recorded, Allocated, Traded, Stays, rows
<1> QED BY <1>1, <1>2, <1>3 DEF SoundInv, Stays

\* The budget the user sets is an amount.
LEMMA BudgetIsAmount ==
  ASSUME SoundInv, SetUserCapitalBudget
  PROVE  Stays /\ budget' \in 0 .. MaxCapital /\ sweep' \in Sweeps /\ Committed <= budget'
BY DEF SoundInv, SetUserCapitalBudget, Amounts, Stays, AllocationAssumption

\* Before anything happens the invariant holds.
LEMMA SoundInit == Init => SoundInv
<1> SUFFICES ASSUME Init PROVE SoundInv OBVIOUS
<1>1. RowsTyped
  BY AllocationAssumption DEF Init, RowsTyped, IntentStates, AllocRows, TradeStates, OrderStates
<1>2. \A i \in Intents : RowSound(i) BY DEF Init, RowSound
<1>3. IdleWorker \in Locals BY DEF IdleWorker, Locals, WorkerPc
<1>4. \A w \in Workers : WorkerSound(worker[w])
  BY <1>3 DEF Init, WorkerSound, Recorded, Allocated, Traded, IdleWorker
<1>5. sweep \in Sweeps BY DEF Init, IdleSweep, Sweeps
<1>6. budget \in 0 .. MaxCapital BY AllocationAssumption DEF Init
<1> QED BY <1>1, <1>2, <1>3, <1>4, <1>5, <1>6 DEF SoundInv, Init

\* Every step keeps the invariant.
LEMMA SoundStep == SoundInv /\ [Next]_vars => SoundInv'
<1> SUFFICES ASSUME SoundInv, [Next]_vars PROVE SoundInv' OBVIOUS
<1>0. budget \in 0 .. MaxCapital /\ sweep \in Sweeps BY DEF SoundInv
<1>1. CASE UNCHANGED vars
  <2>1. Stays /\ UNCHANGED <<budget, sweep>> BY <1>1 DEF vars, Stays, rows
  <2> QED BY <1>0, <2>1, StayKeeps
<1>2. CASE SetUserCapitalBudget BY <1>2, BudgetIsAmount, StayKeeps
<1>3. CASE Moves /\ WorkersMove /\ UNCHANGED budget /\ sweep' \in Sweeps
  <2>1. PICK i \in Intents : RowsStep(i) BY <1>3 DEF Moves
  <2> QED BY <1>0, <1>3, <2>1, MoveKeeps DEF RowsStep
<1>4. CASE Stays /\ UNCHANGED budget /\ sweep' \in Sweeps BY <1>0, <1>4, StayKeeps
<1> QED BY <1>1, <1>2, <1>3, <1>4, NextMoves

\* The invariant always holds.
LEMMA SoundAlways == Spec => []SoundInv
BY SoundInit, SoundStep, PTL DEF Spec

-----------------------------------------------------------------------------
\* While nothing new counts for any decision, what counts stays within a budget
\* that stays.
LEMMA NotAddedFits ==
  ASSUME SoundInv, SoundInv', \A i \in Intents : NotAdded(i), BudgetHolds, budget' = budget
  PROVE  BudgetHolds'
<1> DEFINE v == [i \in Intents |-> alloc[i].capital]
           v1 == [i \in Intents |-> alloc'[i].capital]
           s == {i \in Intents : Counts(i) /\ OnTime(i)}
           s1 == {i \in Intents : Counts(i)' /\ OnTime(i)'}
<1>1. v \in [Intents -> Nat] /\ v1 \in [Intents -> Nat]
  BY AllocationAssumption DEF SoundInv, RowsTyped, AllocRows
<1>2. s \in SUBSET Intents /\ s1 \in SUBSET Intents OBVIOUS
<1>3. s1 \subseteq s /\ \A i \in s1 : v1[i] <= v[i]
  <2>1. \A i \in s1 : i \in s /\ v1[i] = v[i] BY DEF NotAdded, On
  <2> QED BY <1>1, <1>2, <2>1
<1>4. SumFunctionOnSet(v, s) <= budget BY DEF BudgetHolds, CapitalOf
<1>5. BudgetHolds' <=> (SumFunctionOnSet(v1, s1) <= budget') BY DEF BudgetHolds, CapitalOf
<1>6. budget \in Nat BY AllocationAssumption DEF SoundInv
<1> HIDE DEF v, v1, s, s1
<1>7. SumFunctionOnSet(v1, s1) <= SumFunctionOnSet(v, s)
  BY <1>1, <1>2, <1>3, SumGrows, AllocationAssumption
<1>8. SumFunctionOnSet(v1, s1) \in Nat /\ SumFunctionOnSet(v, s) \in Nat
  BY <1>1, <1>2, SumRemoves, AllocationAssumption
<1> QED BY <1>4, <1>5, <1>6, <1>7, <1>8

\* A reservation takes no more than what the commitments leave of the budget.
LEMMA ReservationFits ==
  ASSUME SoundInv, SoundInv', NEW i \in Intents, RowsMove(i), Reserves(i), budget' = budget
  PROVE  BudgetHolds'
<1> DEFINE v == [j \in Intents |-> alloc[j].capital]
           v1 == [j \in Intents |-> alloc'[j].capital]
           c == {j \in Intents : Counts(j)}
           s1 == {j \in Intents : Counts(j)' /\ OnTime(j)'}
<1>1. v \in [Intents -> Nat] /\ v1 \in [Intents -> Nat]
  BY AllocationAssumption DEF SoundInv, RowsTyped, AllocRows
<1>2. c \in SUBSET Intents /\ s1 \in SUBSET Intents OBVIOUS
<1>3. (s1 \ {i}) \subseteq c /\ \A j \in s1 \ {i} : v1[j] <= v[j]
  <2>1. \A j \in s1 \ {i} : j \in c /\ v1[j] = v[j]
    BY DEF RowsMove, RowsSame, Counts, InFlight
  <2> QED BY <1>1, <1>2, <2>1
<1>4. PICK requested \in Sizes : requested + Committed <= budget /\ v1[i] = requested
  <2>1. PICK r \in Sizes : /\ r + Committed <= budget
                           /\ alloc' = [alloc EXCEPT ![i] = [status |-> "ACTIVE", capital |-> r]]
    BY DEF Reserves
  <2>2. v1[i] = r BY <2>1 DEF SoundInv, RowsTyped
  <2> QED BY <2>1, <2>2
<1>5. Committed = SumFunctionOnSet(v, c) BY DEF Committed, CapitalOf
<1>6. BudgetHolds' <=> (SumFunctionOnSet(v1, s1) <= budget') BY DEF BudgetHolds, CapitalOf
<1>7. budget \in Nat /\ requested \in Nat BY AllocationAssumption DEF SoundInv
<1> DEFINE q == s1 \ {i}
<1> HIDE DEF v, v1, c, s1
<1>8. q \in SUBSET Intents /\ q \subseteq c BY <1>2, <1>3
<1>9. SumFunctionOnSet(v1, q) <= SumFunctionOnSet(v, c)
  <2>1. \A j \in q : v1[j] <= v[j] BY <1>3
  <2> HIDE DEF q
  <2> QED BY <1>1, <1>2, <1>8, <2>1, SumGrows, AllocationAssumption
<1>10. /\ SumFunctionOnSet(v1, s1) \in Nat /\ SumFunctionOnSet(v, c) \in Nat
       /\ SumFunctionOnSet(v1, q) \in Nat
  <2> HIDE DEF q
  <2> QED BY <1>1, <1>2, <1>8, SumRemoves, AllocationAssumption
<1>11. SumFunctionOnSet(v1, s1) <= v1[i] + SumFunctionOnSet(v1, q)
  <2>1. CASE i \in s1
    <3>1. SumFunctionOnSet(v1, s1) = v1[i] + SumFunctionOnSet(v1, s1 \ {i})
      BY <1>1, <1>2, <2>1, SumRemoves, AllocationAssumption
    <3>2. SumFunctionOnSet(v1, s1) = v1[i] + SumFunctionOnSet(v1, q) BY <3>1
    <3> HIDE DEF q
    <3> QED BY <1>4, <1>7, <1>10, <3>2
  <2>2. CASE i \notin s1
    <3>1. q = s1 BY <2>2
    <3> HIDE DEF q
    <3> QED BY <1>4, <1>7, <1>10, <3>1
  <2> QED BY <2>1, <2>2
<1> HIDE DEF q
<1> QED BY <1>4, <1>5, <1>6, <1>7, <1>9, <1>10, <1>11

\* The user's budget covers everything that counts.
LEMMA UserBudgetFits ==
  ASSUME SoundInv, SoundInv', SetUserCapitalBudget
  PROVE  BudgetHolds'
<1> DEFINE v == [j \in Intents |-> alloc[j].capital]
           c == {j \in Intents : Counts(j)}
           s == {j \in Intents : Counts(j) /\ OnTime(j)}
<1>1. Stays /\ Committed <= budget' /\ budget' \in Nat
  BY BudgetIsAmount, AllocationAssumption
<1>2. Committed = SumFunctionOnSet(v, c) BY DEF Committed, CapitalOf
<1>3. BudgetHolds' <=> (SumFunctionOnSet(v, s) <= budget')
  BY <1>1 DEF BudgetHolds, CapitalOf, Counts, InFlight, OnTime, Stays, rows
<1>4. v \in [Intents -> Nat] BY CapitalNat
<1>5. s \subseteq c /\ s \in SUBSET Intents /\ c \in SUBSET Intents OBVIOUS
<1> HIDE DEF v, c, s
<1>6. /\ SumFunctionOnSet(v, s) <= SumFunctionOnSet(v, c)
      /\ SumFunctionOnSet(v, s) \in Nat /\ SumFunctionOnSet(v, c) \in Nat
  <2>1. \A j \in s : v[j] <= v[j] BY <1>4, <1>5
  <2> QED BY <1>4, <1>5, <2>1, SumGrows, SumRemoves, AllocationAssumption
<1> QED BY <1>1, <1>2, <1>3, <1>6

\* Every step keeps what counts within the budget.
LEMMA BudgetStep == SoundInv /\ SoundInv' /\ BudgetHolds /\ [Next]_vars => BudgetHolds'
<1> SUFFICES ASSUME SoundInv, SoundInv', BudgetHolds, [Next]_vars PROVE BudgetHolds'
  OBVIOUS
<1>1. ASSUME Stays, UNCHANGED budget PROVE BudgetHolds'
  <2>1. \A i \in Intents : NotAdded(i)
    BY <1>1 DEF NotAdded, On, Counts, InFlight, OnTime, Stays, rows
  <2> QED BY <1>1, <2>1, NotAddedFits
<1>2. CASE UNCHANGED vars
  <2>1. Stays /\ UNCHANGED budget BY <1>2 DEF vars, Stays, rows
  <2> QED BY <1>1, <2>1
<1>3. CASE SetUserCapitalBudget BY <1>3, UserBudgetFits
<1>4. CASE Moves /\ UNCHANGED budget
  <2>1. PICK i \in Intents : RowsStep(i) BY <1>4 DEF Moves
  <2>2. CASE Reserves(i) BY <1>4, <2>1, <2>2, ReservationFits DEF RowsStep
  <2>3. CASE NotAdded(i)
    <3>1. ASSUME NEW j \in Intents, j # i PROVE NotAdded(j)
      BY <2>1, <3>1
      DEF RowsStep, RowsMove, RowsSame, NotAdded, On, Counts, InFlight, OnTime
    <3> QED BY <1>4, <2>3, <3>1, NotAddedFits
  <2> QED BY <2>1, <2>2, <2>3 DEF RowsStep
<1> QED BY <1>1, <1>2, <1>3, <1>4, NextMoves

\* Nothing counts before anything happens.
LEMMA BudgetInit == Init => BudgetHolds
<1> SUFFICES ASSUME Init PROVE BudgetHolds OBVIOUS
<1> DEFINE v == [j \in Intents |-> alloc[j].capital]
<1>1. {j \in Intents : Counts(j) /\ OnTime(j)} = {} BY DEF Init, Counts, InFlight
<1>2. BudgetHolds <=> (SumFunctionOnSet(v, {}) <= budget) BY <1>1 DEF BudgetHolds, CapitalOf
<1>3. v \in [Intents -> Nat] BY SoundInit, CapitalNat
<1> HIDE DEF v
<1>4. SumFunctionOnSet(v, {}) = 0 BY <1>3, SumUnfolds, FS_EmptySet, AllocationAssumption
<1> QED BY <1>2, <1>4 DEF Init

-----------------------------------------------------------------------------
\* Whatever deliveries, sweeps, crashes and reconciliation do, the rows are well
\* formed and were written in the pipeline's order.
THEOREM TypeCorrect == Spec => []TypeOK
BY SoundAlways, SoundIsTyped, PTL

\* allocation.service.ts, "two allocations can never both consume the last
\* available capital": for any number of decisions, deliveries and sizes, what the
\* reservations with a timely trade commit never exceeds the budget.
THEOREM BudgetAlwaysHolds == Spec => []BudgetHolds
<1>1. Init => BudgetHolds BY BudgetInit
<1>2. SoundInv /\ SoundInv' /\ BudgetHolds /\ [Next]_vars => BudgetHolds' BY BudgetStep
<1> QED BY <1>1, <1>2, SoundAlways, PTL DEF Spec

\* allocation.service.ts, "EXACTLY-ONCE per decision": no step resizes or revives
\* a reservation.
THEOREM ReservationIsFinal == Spec => ReservedOnce
<1> DEFINE A == \A i \in Intents :
                  alloc[i].status # "none" =>
                     /\ alloc'[i].capital = alloc[i].capital
                     /\ alloc'[i].status \in {alloc[i].status, "RELEASED"}
<1>1. SoundInv /\ [Next]_vars => [A]_alloc
  <2> SUFFICES ASSUME SoundInv, [Next]_vars PROVE [A]_alloc OBVIOUS
  <2>1. CASE UNCHANGED vars BY <2>1 DEF vars, rows
  <2>2. CASE SetUserCapitalBudget BY <2>2 DEF SetUserCapitalBudget, rows
  <2>3. CASE Stays BY <2>3 DEF Stays, rows
  <2>4. CASE Moves
    <3>1. PICK i \in Intents : RowsStep(i) BY <2>4 DEF Moves
    <3> QED BY <3>1 DEF RowsStep, RowsMove, RowsSame, Kept
  <2> QED BY <2>1, <2>2, <2>3, <2>4, NextMoves
<1> QED BY <1>1, SoundAlways, PTL DEF Spec, ReservedOnce
=============================================================================
