------------------------- MODULE NewExposureProofs -------------------------
(***************************************************************************)
(* The commitment properties of NewExposure for any number of signals,      *)
(* dispatches, revokers, rows and authority changes.                        *)
(***************************************************************************)
EXTENDS NewExposure, TLAPS

USE NewExposureAssumption

\* The first state satisfies the invariant.
LEMMA InitAuthority == Init => AuthorityInv
<1> SUFFICES ASSUME Init PROVE AuthorityInv
  OBVIOUS
<1> USE DEF Init
<1>1. TypeOK
  <2>1. facts \in [Facts -> Nat] /\ NoFacts \in [Facts -> Nat] BY DEF NoFacts
  <2>2. FreeGrant \in GrantRow BY <2>1 DEF FreeGrant, GrantRow, Modes, SignalOrNone
  <2>3. FreeConf \in ConfRow BY DEF FreeConf, ConfRow, SignalOrNone, None
  <2>4. Fresh \in Locals BY <2>1 DEF Fresh, Locals, Modes, SignalOrNone, None
  <2>5. NoJob \in Job /\ NoCopy \in Edit BY DEF NoJob, Job, NoCopy, Edit
  <2>6. pc \in [Dispatches -> Stages] BY DEF Stages
  <2>7. grant \in [Grants -> GrantRow] /\ conf \in [Confs -> ConfRow] BY <2>2, <2>3
  <2>8. my \in [Dispatches -> Locals] /\ job \in [Revokers -> Job]
        /\ edit \in [Editors -> Edit]
    BY <2>4, <2>5
  <2> QED BY <2>1, <2>6, <2>7, <2>8 DEF TypeOK, IntentStatus, TradeStatus, OrderStatus, Modes
<1>2. \A g \in Grants : GrantSound(g)
  BY DEF GrantSound, IsIssued, FreeGrant
<1>3. \A d \in Dispatches : DispatchSound(d)
  BY DEF DispatchSound, EvaluationSound, HoldsGrant, Evaluated, Bound, Holding, Fresh, None
<1>4. FencedBelow /\ JobBelow
  BY DEF FencedBelow, JobBelow, NoJob
<1>5. \A e \in Editors : EditSound(e)
  BY DEF EditSound, NoCopy
<1> QED BY <1>1, <1>2, <1>3, <1>4, <1>5 DEF AuthorityInv

-----------------------------------------------------------------------------
(* What a step has to show.                                                 *)

\* A step of one dispatch: the authority facts stay, a grant row is only
\* inserted or leaves ACTIVE, and the dispatch itself stays sound.
LEMMA DispatchPreserves ==
  ASSUME AuthorityInv, TypeOK', NEW d \in Dispatches,
         UNCHANGED <<facts, controlled, killed, edit, overwritten, job, fenced>>,
         \A e \in Dispatches \ {d} : pc'[e] = pc[e] /\ my'[e] = my[e],
         \A g \in Grants : IsIssued(g) =>
            /\ IsIssued(g)'
            /\ grant'[g].bound = grant[g].bound
            /\ grant'[g].status = "ACTIVE" => grant[g].status = "ACTIVE",
         \A g \in Grants : ~IsIssued(g) => GrantSound(g)',
         DispatchSound(d)'
  PROVE  AuthorityInv'
<1>1. (\A g \in Grants : GrantSound(g))'
  <2> SUFFICES ASSUME NEW g \in Grants, IsIssued(g) PROVE GrantSound(g)'
    OBVIOUS
  <2>1. GrantSound(g) BY DEF AuthorityInv
  <2> QED BY <2>1 DEF GrantSound, RevisionSound
<1>2. (\A e \in Dispatches : DispatchSound(e))'
  <2> SUFFICES ASSUME NEW e \in Dispatches, e # d PROVE DispatchSound(e)'
    OBVIOUS
  <2>1. DispatchSound(e) /\ TypeOK BY DEF AuthorityInv
  <2>2. EvaluationSound(e)' BY <2>1 DEF DispatchSound, EvaluationSound, RevisionSound
  <2>3. my[e].grant # None => my[e].grant \in Grants /\ IsIssued(my[e].grant)
    BY <2>1 DEF TypeOK, Locals, DispatchSound, HoldsGrant
  <2>4. HoldsGrant(e)' BY <2>1, <2>3 DEF DispatchSound, HoldsGrant
  <2>5. my[e].grant # None => PermissionSound(e)'
    BY <2>1, <2>3 DEF DispatchSound, PermissionSound
  <2>6. my[e].grant # None => Unfenced(e)'
    BY <2>1, <2>3 DEF DispatchSound, Unfenced
  <2> QED BY <2>2, <2>4, <2>5, <2>6 DEF DispatchSound
<1>3. FencedBelow' BY DEF AuthorityInv, FencedBelow
<1>4. JobBelow' BY DEF AuthorityInv, JobBelow
<1>5. (\A e \in Editors : EditSound(e))' BY DEF AuthorityInv, EditSound
<1> QED BY <1>1, <1>2, <1>3, <1>4, <1>5 DEF AuthorityInv

\* A step that only moves a dispatch to another stage.
LEMMA StagePreserves ==
  ASSUME AuthorityInv, TypeOK', NEW d \in Dispatches, NEW to \in Stages,
         Goto(d, to),
         UNCHANGED <<facts, controlled, killed, edit, overwritten, grant, my, job, fenced>>,
         to \in Evaluated => pc[d] \in Evaluated,
         to \in Bound => pc[d] \in Bound,
         to \in Holding => pc[d] \in Holding,
         to \in Permitted => pc[d] \in Permitted \/ ~controlled,
         to \in PastAuthority => pc[d] \in PastAuthority \/ Same(d, "authority"),
         to \in PastSession => pc[d] \in PastSession \/ Same(d, "session")
  PROVE  AuthorityInv'
<1>1. DispatchSound(d) /\ TypeOK /\ FencedBelow BY DEF AuthorityInv
<1>2. pc'[d] = to /\ \A e \in Dispatches \ {d} : pc'[e] = pc[e]
  BY <1>1 DEF Goto, TypeOK
<1>3. EvaluationSound(d)' BY <1>1, <1>2 DEF DispatchSound, EvaluationSound, RevisionSound
<1>4. HoldsGrant(d)' BY <1>1, <1>2 DEF DispatchSound, HoldsGrant, IsIssued
<1>5. my[d].grant # None => PermissionSound(d)'
  BY <1>1, <1>2 DEF DispatchSound, PermissionSound
<1>6. ASSUME my[d].grant # None PROVE Unfenced(d)'
  <2>1. my[d].grant \in Grants BY <1>1, <1>6 DEF TypeOK, Locals
  <2>2. \A f \in Facts : facts[f] \in Nat BY <1>1 DEF TypeOK
  <2>3. \A f \in {"authority", "session"} :
           Same(d, f) => <<f, grant[my[d].grant].bound[f]>> \notin fenced
    <3> SUFFICES ASSUME NEW f \in {"authority", "session"}, Same(d, f)
                 PROVE  <<f, grant[my[d].grant].bound[f]>> \notin fenced
      OBVIOUS
    <3>1. facts[f] = grant[my[d].grant].bound[f] /\ facts[f] \in Nat BY <2>2 DEF Same, Facts
    <3> QED BY ONLY <1>1, <3>1, f \in {"authority", "session"} DEF FencedBelow
  <2> QED BY <1>1, <1>2, <1>6, <2>3 DEF DispatchSound, Unfenced
<1>7. DispatchSound(d)' BY <1>3, <1>4, <1>5, <1>6 DEF DispatchSound
<1>8. \A g \in Grants : ~IsIssued(g) => GrantSound(g)' BY DEF GrantSound, IsIssued
<1> QED BY <1>2, <1>7, <1>8, DispatchPreserves DEF IsIssued

\* What a step does to the profile row: an old copy was written back, now or
\* before, or the revision does not fall and covers the kill switch.
ProfileStep ==
  \/ overwritten'
  \/ /\ ~overwritten /\ facts'["profile"] >= facts["profile"]
     /\ killed' => \/ killed /\ facts'["profile"] = facts["profile"]
                   \/ facts'["profile"] > facts["profile"]
     /\ \A e \in Editors : EditSound(e)'

\* A step that leaves the profile row and the copies alone.
LEMMA ProfileStays ==
  ASSUME AuthorityInv, UNCHANGED <<killed, edit, overwritten>>,
         facts'["profile"] = facts["profile"]
  PROVE  ProfileStep
<1>1. facts["profile"] \in Nat BY DEF AuthorityInv, TypeOK, Facts
<1>2. (\A e \in Editors : EditSound(e))' BY DEF AuthorityInv, EditSound
<1> QED BY <1>1, <1>2 DEF ProfileStep

\* A change of authority: the other counters only grow, the two switches are
\* covered by a counter, and what is newly fenced has no ACTIVE grant left.
LEMMA ChangePreserves ==
  ASSUME AuthorityInv, TypeOK', UNCHANGED <<pc, my>>, ProfileStep,
         \A f \in Facts \ {"profile"} : facts'[f] >= facts[f],
         controlled' => \/ controlled /\ facts'["control"] = facts["control"]
                        \/ facts'["control"] > facts["control"],
         \A g \in Grants :
            /\ IsIssued(g)' <=> IsIssued(g)
            /\ grant'[g].bound = grant[g].bound
            /\ grant'[g].status = "ACTIVE" => grant[g].status = "ACTIVE",
         \A f \in {"authority", "session"}, n \in Nat :
            <<f, n>> \in fenced' =>
                \/ <<f, n>> \in fenced
                \/ /\ n < facts'[f]
                   /\ \A g \in Grants : grant[g].bound[f] = n => grant'[g].status # "ACTIVE",
         JobBelow'
  PROVE  AuthorityInv'
<1>1. TypeOK /\ FencedBelow BY DEF AuthorityInv
<1>2. \A f \in Facts : facts[f] \in Nat /\ facts'[f] \in Nat BY <1>1 DEF TypeOK
<1>3. \A g \in Grants, f \in Facts : grant[g].bound[f] \in Nat BY <1>1 DEF TypeOK, GrantRow
<1>4. (\A g \in Grants : GrantSound(g))'
  <2> SUFFICES ASSUME NEW g \in Grants, IsIssued(g) PROVE GrantSound(g)'
    BY DEF GrantSound
  <2>1. GrantSound(g) BY DEF AuthorityInv
  <2> QED BY <1>2, <1>3, <2>1 DEF GrantSound, RevisionSound, ProfileStep, Facts
<1>5. (\A e \in Dispatches : DispatchSound(e))'
  <2> SUFFICES ASSUME NEW e \in Dispatches PROVE DispatchSound(e)'
    OBVIOUS
  <2>1. DispatchSound(e) BY DEF AuthorityInv
  <2>2. \A f \in Facts : my[e].seen[f] \in Nat BY <1>1 DEF TypeOK, Locals
  <2>3. EvaluationSound(e)'
    BY <1>2, <2>1, <2>2 DEF DispatchSound, EvaluationSound, RevisionSound, ProfileStep, Facts
  <2>4. my[e].grant # None => my[e].grant \in Grants /\ IsIssued(my[e].grant)
    BY <1>1, <2>1 DEF TypeOK, Locals, DispatchSound, HoldsGrant
  <2>5. HoldsGrant(e)' BY <2>1, <2>4 DEF DispatchSound, HoldsGrant
  <2>6. ASSUME my[e].grant # None PROVE PermissionSound(e)'
    <3>1. GrantSound(my[e].grant) BY <2>4, <2>6 DEF AuthorityInv
    <3>2. grant[my[e].grant].bound["control"] <= facts["control"]
      BY <2>4, <2>6, <3>1 DEF GrantSound
    <3>3. facts'["control"] >= facts["control"] /\ facts["control"] \in Nat /\ facts'["control"] \in Nat
      BY <1>2 DEF Facts
    <3>4. grant[my[e].grant].bound["control"] \in Nat BY <1>3, <2>4, <2>6 DEF Facts
    <3>5. grant'[my[e].grant].bound = grant[my[e].grant].bound BY <2>4, <2>6
    <3>6. PermissionSound(e) BY <2>1, <2>6 DEF DispatchSound
    <3>7. \/ ~controlled'
          \/ controlled /\ facts'["control"] = facts["control"]
          \/ facts'["control"] > facts["control"]
      OBVIOUS
    <3>8. pc' = pc /\ my' = my OBVIOUS
    <3> QED BY ONLY <3>2, <3>3, <3>4, <3>5, <3>6, <3>7, <3>8 DEF PermissionSound
  <2>7. ASSUME my[e].grant # None PROVE Unfenced(e)'
    <3>1. \A f \in {"authority", "session"} :
             /\ grant'[my[e].grant].status = "ACTIVE"
             /\ <<f, grant[my[e].grant].bound[f]>> \notin fenced
             => <<f, grant'[my[e].grant].bound[f]>> \notin fenced'
      BY <1>3, <2>4, <2>7 DEF Facts
    <3> QED BY <2>1, <2>4, <2>7, <3>1 DEF DispatchSound, Unfenced
  <2> QED BY <2>3, <2>5, <2>6, <2>7 DEF DispatchSound
<1>6. FencedBelow'
  <2> SUFFICES ASSUME NEW f \in {"authority", "session"}, NEW n \in Nat, <<f, n>> \in fenced'
               PROVE  n < facts'[f]
    BY DEF FencedBelow
  <2> QED BY <1>1, <1>2 DEF FencedBelow, Facts
<1>7. (\A e \in Editors : EditSound(e))' BY DEF ProfileStep, EditSound
<1> QED BY <1>4, <1>5, <1>6, <1>7 DEF AuthorityInv

-----------------------------------------------------------------------------
(* The steps of one dispatch.                                               *)

\* Moving to a stage keeps the type of pc.
LEMMA GotoType ==
  ASSUME TypeOK, NEW d \in Dispatches, NEW to \in Stages, Goto(d, to)
  PROVE  pc' \in [Dispatches -> Stages]
BY DEF TypeOK, Goto

\* An intent changes by a CAS to one of its statuses.
LEMMA MarkIntentType ==
  ASSUME TypeOK, NEW s \in SignalOrNone, NEW status \in {"EXECUTED", "REJECTED", "EXPIRED"},
         MarkIntent(s, status)
  PROVE  intent' \in [Signals -> IntentStatus]
BY DEF TypeOK, MarkIntent, IntentStatus

\* Statements that read, and move on.
LEMMA ReadingSteps ==
  ASSUME AuthorityInv, NEW d \in Dispatches, UNCHANGED <<factVars, rows, my, job, fenced, changes>>,
         \/ FindNone(d) \/ AwaitUser(d) \/ Preflight(d) \/ Abandon(d) \/ Authorize(d)
         \/ Permit(d) \/ MarketSafe(d) \/ ReverifyChain(d) \/ Unreadable(d) \/ CommitLost(d)
         \/ Crash(d)
  PROVE  AuthorityInv'
<1> USE DEF factVars, editing, rows
<1>0. TypeOK BY DEF AuthorityInv
<1>1. ASSUME NEW to \in Stages, Goto(d, to),
             to \in Evaluated => pc[d] \in Evaluated,
             to \in Bound => pc[d] \in Bound,
             to \in Holding => pc[d] \in Holding,
             to \in Permitted => pc[d] \in Permitted \/ ~controlled,
             to \in PastAuthority => pc[d] \in PastAuthority \/ Same(d, "authority"),
             to \in PastSession => pc[d] \in PastSession \/ Same(d, "session")
      PROVE  AuthorityInv'
  <2>1. pc' \in [Dispatches -> Stages] BY <1>0, <1>1, GotoType
  <2>2. TypeOK' BY <1>0, <2>1 DEF TypeOK
  <2> QED BY <1>1, <2>2, StagePreserves
<1> USE DEF Stages, Evaluated, Bound, Holding, Permitted, PastAuthority, PastSession
<1>2. CASE FindNone(d) BY <1>1, <1>2 DEF FindNone
<1>3. CASE AwaitUser(d) BY <1>1, <1>3 DEF AwaitUser
<1>4. CASE Preflight(d) BY <1>1, <1>4 DEF Preflight
<1>5. CASE Abandon(d) BY <1>1, <1>5 DEF Abandon
<1>6. CASE Authorize(d) BY <1>1, <1>6 DEF Authorize
<1>7. CASE Permit(d) BY <1>1, <1>7 DEF Permit
<1>8. CASE MarketSafe(d) BY <1>1, <1>8 DEF MarketSafe
<1>9. CASE Unreadable(d) BY <1>1, <1>9 DEF Unreadable
<1>10. CASE CommitLost(d) BY <1>1, <1>10 DEF CommitLost
<1>11. CASE Crash(d) BY <1>1, <1>11 DEF Crash
<1>12. CASE ReverifyChain(d)
  <2>1. CASE Reverify(d, "cGrant", GrantUsable(my[d].grant), "cAuthority")
    BY <1>1, <2>1 DEF Reverify
  <2>2. CASE ReverifyAuthority(d)
    BY <1>1, <2>2 DEF ReverifyAuthority, Reverify
  <2>3. CASE Reverify(d, "cPolicy", Same(d, "policy"), "cCatalog")
    BY <1>1, <2>3 DEF Reverify
  <2>4. CASE Reverify(d, "cCatalog", Same(d, "catalog"), "cControl")
    BY <1>1, <2>4 DEF Reverify
  <2>5. CASE Reverify(d, "cControl", Same(d, "control"), "cProfile")
    BY <1>1, <2>5 DEF Reverify
  <2>6. CASE Reverify(d, "cProfile", Same(d, "profile"), "cSession")
    BY <1>1, <2>6 DEF Reverify
  <2>7. CASE ReverifySession(d)
    BY <1>1, <2>7 DEF ReverifySession, Reverify
  <2>8. CASE Reverify(d, "cCredential", connected /\ Same(d, "credential"), "commit")
    BY <1>1, <2>8 DEF Reverify
  <2> QED BY <1>12, <2>1, <2>2, <2>3, <2>4, <2>5, <2>6, <2>7, <2>8 DEF ReverifyChain
<1> QED BY <1>2, <1>3, <1>4, <1>5, <1>6, <1>7, <1>8, <1>9, <1>10, <1>11, <1>12

\* Statements that write the intent, trade or order row, or start the call.
LEMMA WritingSteps ==
  ASSUME AuthorityInv, NEW d \in Dispatches,
         \/ Refuse(d) \/ IssuanceFails(d) \/ DuplicateTrade(d) \/ MarkExecuted(d)
         \/ Reserve(d) \/ Submit(d) \/ MarketUnsafe(d) \/ Send(d)
         \/ RejectOrder(d) \/ RejectTrade(d) \/ StoreError(d)
  PROVE  AuthorityInv'
<1> USE DEF factVars, editing, TradeStatus, OrderStatus
<1>0. TypeOK /\ SignalOf(d) \in SignalOrNone BY DEF AuthorityInv, TypeOK, Locals, SignalOf
<1>1. ASSUME NEW to \in Stages, Goto(d, to),
             UNCHANGED <<factVars, grant, conf, my, job, fenced, changes>>,
             intent' \in [Signals -> IntentStatus],
             trade' \in [Signals -> TradeStatus],
             order' \in [Signals -> OrderStatus],
             calls' \in [Signals -> Nat],
             to \in Evaluated => pc[d] \in Evaluated,
             to \in Bound => pc[d] \in Bound,
             to \in Holding => pc[d] \in Holding,
             to \in Permitted => pc[d] \in Permitted,
             to \notin PastAuthority, to \notin PastSession
      PROVE  AuthorityInv'
  <2>1. pc' \in [Dispatches -> Stages] BY <1>0, <1>1, GotoType
  <2>2. TypeOK' BY ONLY <1>0, <1>1, <2>1 DEF TypeOK, factVars, editing
  <2> QED BY <1>1, <2>2, StagePreserves
<1> USE DEF Stages, Evaluated, Bound, Holding, Permitted, PastAuthority, PastSession
<1>2. CASE Refuse(d)
  <2>1. intent' \in [Signals -> IntentStatus]
    BY <1>0, <1>2, MarkIntentType DEF Refuse, NotApproved, TypeOK
  <2>2. /\ trade' \in [Signals -> TradeStatus]
        /\ order' \in [Signals -> OrderStatus]
        /\ calls' \in [Signals -> Nat]
    BY <1>0, <1>2 DEF Refuse, TypeOK
  <2> QED BY <1>1, <1>2, <2>1, <2>2 DEF Refuse, NotApproved
<1>3. CASE IssuanceFails(d)
  <2>1. intent' \in [Signals -> IntentStatus]
    BY <1>0, <1>3, MarkIntentType DEF IssuanceFails, NotApproved, TypeOK
  <2>2. /\ trade' \in [Signals -> TradeStatus]
        /\ order' \in [Signals -> OrderStatus]
        /\ calls' \in [Signals -> Nat]
    BY <1>0, <1>3 DEF IssuanceFails, TypeOK
  <2> QED BY <1>1, <1>3, <2>1, <2>2 DEF IssuanceFails, NotApproved
<1>4. CASE DuplicateTrade(d)
  <2>1. intent' \in [Signals -> IntentStatus]
    BY <1>0, <1>4, MarkIntentType DEF DuplicateTrade, TypeOK
  <2>2. /\ trade' \in [Signals -> TradeStatus]
        /\ order' \in [Signals -> OrderStatus]
        /\ calls' \in [Signals -> Nat]
    BY <1>0, <1>4 DEF DuplicateTrade, TypeOK
  <2> QED BY <1>1, <1>4, <2>1, <2>2 DEF DuplicateTrade
<1>5. CASE MarkExecuted(d)
  <2>1. intent' \in [Signals -> IntentStatus]
    BY <1>0, <1>5, MarkIntentType DEF MarkExecuted, TypeOK
  <2>2. /\ trade' \in [Signals -> TradeStatus]
        /\ order' \in [Signals -> OrderStatus]
        /\ calls' \in [Signals -> Nat]
    BY <1>0, <1>5 DEF MarkExecuted, TypeOK
  <2> QED BY <1>1, <1>5, <2>1, <2>2 DEF MarkExecuted
<1>6. CASE Reserve(d)
  <2>1. intent' \in [Signals -> IntentStatus]
    BY <1>0, <1>6 DEF Reserve, TypeOK
  <2>2. /\ trade' \in [Signals -> TradeStatus]
        /\ order' \in [Signals -> OrderStatus]
        /\ calls' \in [Signals -> Nat]
    BY <1>0, <1>6 DEF Reserve, TypeOK
  <2> QED BY <1>1, <1>6, <2>1, <2>2 DEF Reserve
<1>7. CASE Submit(d)
  <2>1. intent' \in [Signals -> IntentStatus]
    BY <1>0, <1>7 DEF Submit, TypeOK
  <2>2. /\ trade' \in [Signals -> TradeStatus]
        /\ order' \in [Signals -> OrderStatus]
        /\ calls' \in [Signals -> Nat]
    BY <1>0, <1>7 DEF Submit, TypeOK
  <2> QED BY <1>1, <1>7, <2>1, <2>2 DEF Submit
<1>8. CASE MarketUnsafe(d)
  <2>1. intent' \in [Signals -> IntentStatus]
    BY <1>0, <1>8 DEF MarketUnsafe, TypeOK
  <2>2. /\ trade' \in [Signals -> TradeStatus]
        /\ order' \in [Signals -> OrderStatus]
        /\ calls' \in [Signals -> Nat]
    BY <1>0, <1>8 DEF MarketUnsafe, TypeOK
  <2> QED BY <1>1, <1>8, <2>1, <2>2 DEF MarketUnsafe
<1>9. CASE Send(d)
  <2>1. intent' \in [Signals -> IntentStatus]
    BY <1>0, <1>9 DEF Send, TypeOK
  <2>0. \A s \in Signals : calls[s] + 1 \in Nat BY <1>0 DEF TypeOK
  <2>2. trade' \in [Signals -> TradeStatus] /\ order' \in [Signals -> OrderStatus]
    BY <1>0, <1>9 DEF Send, TypeOK
  <2>3. calls' \in [Signals -> Nat] BY <1>0, <1>9, <2>0 DEF Send, TypeOK
  <2> QED BY <1>1, <1>9, <2>1, <2>2, <2>3 DEF Send
<1>10. CASE RejectOrder(d)
  <2>1. intent' \in [Signals -> IntentStatus]
    BY <1>0, <1>10 DEF RejectOrder, TypeOK
  <2>2. /\ trade' \in [Signals -> TradeStatus]
        /\ order' \in [Signals -> OrderStatus]
        /\ calls' \in [Signals -> Nat]
    BY <1>0, <1>10 DEF RejectOrder, TypeOK
  <2> QED BY <1>1, <1>10, <2>1, <2>2 DEF RejectOrder
<1>11. CASE RejectTrade(d)
  <2>1. intent' \in [Signals -> IntentStatus]
    BY <1>0, <1>11, MarkIntentType DEF RejectTrade, TypeOK
  <2>2. /\ trade' \in [Signals -> TradeStatus]
        /\ order' \in [Signals -> OrderStatus]
        /\ calls' \in [Signals -> Nat]
    BY <1>0, <1>11 DEF RejectTrade, TypeOK
  <2> QED BY <1>1, <1>11, <2>1, <2>2 DEF RejectTrade
<1>12. CASE StoreError(d)
  <2>1. intent' \in [Signals -> IntentStatus]
    BY <1>0, <1>12 DEF StoreError, TypeOK
  <2>2. /\ trade' \in [Signals -> TradeStatus]
        /\ order' \in [Signals -> OrderStatus]
        /\ calls' \in [Signals -> Nat]
    BY <1>0, <1>12 DEF StoreError, TypeOK
  <2> QED BY <1>1, <1>12, <2>1, <2>2 DEF StoreError
<1> QED BY <1>2, <1>3, <1>4, <1>5, <1>6, <1>7, <1>8, <1>9, <1>10, <1>11, <1>12

\* Statements that only change the dispatch's stage and locals: what the
\* dispatch then relies on has just been read.
LEMMA LocalPreserves ==
  ASSUME AuthorityInv, NEW d \in Dispatches, NEW to \in Stages, Goto(d, to), NEW m \in Locals,
         my' = [my EXCEPT ![d] = m],
         UNCHANGED <<factVars, rows, job, fenced, changes>>,
         to \in {"evaluate", "bind", "find", "supersede", "confirmation", "issued"},
         to \in Evaluated /\ ~overwritten => RevisionSound(m.seen["profile"]),
         to \in Bound => m.seen["control"] <= facts["control"],
         to \in Holding => m.grant # None,
         m.grant # None => IsIssued(m.grant)
  PROVE  AuthorityInv'
<1> USE DEF factVars, editing, rows
<1>1. TypeOK BY DEF AuthorityInv
<1>2. /\ my' \in [Dispatches -> Locals] /\ my'[d] = m
      /\ \A e \in Dispatches \ {d} : my'[e] = my[e]
  BY <1>1 DEF TypeOK
<1>3. /\ pc' \in [Dispatches -> Stages] /\ pc'[d] = to
      /\ \A e \in Dispatches \ {d} : pc'[e] = pc[e]
  BY <1>1 DEF TypeOK, Goto
<1>4. TypeOK' BY <1>1, <1>2, <1>3 DEF TypeOK
<1>5. EvaluationSound(d)' BY <1>2, <1>3 DEF EvaluationSound, RevisionSound
<1>6. HoldsGrant(d)' BY <1>2, <1>3 DEF HoldsGrant, IsIssued
<1>7. PermissionSound(d)' BY <1>3 DEF PermissionSound, Permitted
<1>8. Unfenced(d)' BY <1>3 DEF Unfenced, PastAuthority, PastSession
<1>9. DispatchSound(d)' BY <1>5, <1>6, <1>7, <1>8 DEF DispatchSound
<1>10. \A g \in Grants : ~IsIssued(g) => GrantSound(g)' BY DEF GrantSound, IsIssued
<1> QED BY <1>2, <1>3, <1>4, <1>9, <1>10, DispatchPreserves DEF IsIssued

\* Delivery, confirmation, the two groups of reads and the grant lookup.
LEMMA LocalSteps ==
  ASSUME AuthorityInv, NEW d \in Dispatches,
         \/ \E s \in Signals : Deliver(d, s)
         \/ \E c \in Confs : Confirm(d, c)
         \/ Evaluate(d) \/ Bind(d) \/ Reuse(d) \/ FindOther(d)
  PROVE  AuthorityInv'
<1>0. TypeOK /\ DispatchSound(d) BY DEF AuthorityInv
<1>1. /\ my[d] \in Locals
      /\ my[d].grant # None => IsIssued(my[d].grant)
      /\ \A f \in Facts : facts[f] \in Nat
      /\ my[d].seen \in [Facts -> Nat]
  BY <1>0 DEF TypeOK, DispatchSound, HoldsGrant, Locals
<1> USE DEF Stages, Evaluated, Bound, Holding
<1>2. ASSUME NEW s \in Signals, Deliver(d, s) PROVE AuthorityInv'
  <2> DEFINE m == [my[d] EXCEPT !.signal = s]
  <2>1. m \in Locals /\ m.grant = my[d].grant BY <1>1 DEF Locals, SignalOrNone
  <2>2. my' = [my EXCEPT ![d] = m] BY <1>2 DEF Deliver
  <2> HIDE DEF m
  <2> QED BY <1>1, <1>2, <2>1, <2>2, LocalPreserves DEF Deliver
<1>3. ASSUME NEW c \in Confs, Confirm(d, c) PROVE AuthorityInv'
  <2> DEFINE m == [my[d] EXCEPT !.signal = conf[c].signal, !.conf = c]
  <2>1. conf[c].signal \in SignalOrNone BY <1>0 DEF TypeOK, ConfRow
  <2>2. m \in Locals /\ m.grant = my[d].grant BY <1>1, <2>1 DEF Locals
  <2>3. my' = [my EXCEPT ![d] = m] BY <1>3 DEF Confirm
  <2> HIDE DEF m
  <2> QED BY <1>1, <1>3, <2>2, <2>3, LocalPreserves DEF Confirm
<1>4. CASE Evaluate(d)
  <2> DEFINE v == [f \in Facts |->
                     IF f \in {"profile", "session", "credential"} THEN facts[f] ELSE 0]
             m == [my[d] EXCEPT !.mode = sessionMode, !.seen = v]
  <2>1. v \in [Facts -> Nat] /\ v["profile"] = facts["profile"] BY <1>1 DEF Facts
  <2>2. m \in Locals /\ m.grant = my[d].grant /\ m.seen = v
    BY <1>0, <1>1, <2>1 DEF Locals, TypeOK
  <2>3. my' = [my EXCEPT ![d] = m] BY <1>4 DEF Evaluate
  <2>4. facts["profile"] \in Nat /\ ~killed BY <1>1, <1>4 DEF Facts, Evaluate
  <2> HIDE DEF m, v
  <2>5. RevisionSound(m.seen["profile"])
    BY <2>1, <2>2, <2>4 DEF RevisionSound
  <2>6. Goto(d, "bind") /\ UNCHANGED <<factVars, rows, job, fenced, changes>> BY <1>4 DEF Evaluate
  <2>7. m.grant # None => IsIssued(m.grant) BY <1>1, <2>2
  <2> QED BY <2>2, <2>3, <2>5, <2>6, <2>7, LocalPreserves
<1>5. CASE Bind(d)
  <2> DEFINE v == [f \in Facts |-> IF f \in {"authority", "policy", "catalog", "control"}
                                   THEN facts[f] ELSE my[d].seen[f]]
             m == [my[d] EXCEPT !.attempt = 1, !.seen = v]
  <2>1. /\ v \in [Facts -> Nat]
        /\ v["profile"] = my[d].seen["profile"]
        /\ v["control"] = facts["control"]
    BY <1>1 DEF Facts
  <2>2. m \in Locals /\ m.grant = my[d].grant /\ m.seen = v
    <3> HIDE DEF v
    <3>1. 1 \in 0 .. 3 OBVIOUS
    <3> QED BY ONLY <1>1, <2>1, <3>1 DEF Locals
  <2>3. my' = [my EXCEPT ![d] = m] BY <1>5 DEF Bind
  <2>4. EvaluationSound(d) /\ pc[d] = "bind" /\ facts["control"] \in Nat
    BY <1>0, <1>1, <1>5 DEF DispatchSound, Bind, Facts
  <2> HIDE DEF m, v
  <2>5. ~overwritten => RevisionSound(m.seen["profile"])
    BY <2>1, <2>2, <2>4 DEF EvaluationSound
  <2>6. m.seen["control"] <= facts["control"] BY <2>1, <2>2, <2>4
  <2>7. Goto(d, "find") /\ UNCHANGED <<factVars, rows, job, fenced, changes>> BY <1>5 DEF Bind
  <2>8. m.grant # None => IsIssued(m.grant) BY <1>1, <2>2
  <2> QED BY <2>2, <2>3, <2>5, <2>6, <2>7, <2>8, LocalPreserves
<1>6. CASE Reuse(d) \/ FindOther(d)
  <2>1. PICK g \in Grants : my' = [my EXCEPT ![d].grant = g] /\ grant[g].status = "ACTIVE"
    BY <1>6 DEF Reuse, FindOther, ActiveFor
  <2> DEFINE m == [my[d] EXCEPT !.grant = g]
  <2>2. m \in Locals /\ m.grant = g /\ m.seen = my[d].seen BY ONLY <1>1, g \in Grants DEF Locals
  <2>3. my' = [my EXCEPT ![d] = m] BY <2>1
  <2>4. IsIssued(g) /\ g # None BY <2>1 DEF IsIssued, None
  <2>5. EvaluationSound(d) /\ pc[d] = "find" BY <1>0, <1>6 DEF DispatchSound, Reuse, FindOther
  <2> HIDE DEF m
  <2>6. PICK to \in {"confirmation", "issued", "supersede"} : Goto(d, to)
    BY <1>6 DEF Reuse, FindOther
  <2>7. UNCHANGED <<factVars, rows, job, fenced, changes>> BY <1>6 DEF Reuse, FindOther
  <2> QED BY <2>2, <2>3, <2>4, <2>5, <2>6, <2>7, LocalPreserves DEF EvaluationSound
<1> QED BY <1>2, <1>3, <1>4, <1>5, <1>6

\* Statements of the issuance and the commitment itself: the dispatch keeps its
\* grant, and grant rows only leave ACTIVE.
LEMMA RowPreserves ==
  ASSUME AuthorityInv, TypeOK', NEW d \in Dispatches,
         UNCHANGED <<facts, controlled, killed, edit, overwritten, job, fenced>>,
         \A e \in Dispatches \ {d} : pc'[e] = pc[e] /\ my'[e] = my[e],
         my'[d].grant = my[d].grant, my'[d].seen = my[d].seen,
         pc'[d] \notin Permitted \union PastAuthority \union PastSession,
         pc'[d] \in Evaluated => pc[d] \in Bound,
         pc'[d] \in Holding => pc[d] \in Holding,
         \A g \in Grants :
            /\ IsIssued(g)' <=> IsIssued(g)
            /\ grant'[g].bound = grant[g].bound
            /\ grant'[g].status = "ACTIVE" => grant[g].status = "ACTIVE"
  PROVE  AuthorityInv'
<1>1. DispatchSound(d) /\ TypeOK BY DEF AuthorityInv
<1>2. EvaluationSound(d)' BY <1>1 DEF DispatchSound, EvaluationSound, RevisionSound, Evaluated, Bound
<1>3. my[d].grant # None => my[d].grant \in Grants /\ IsIssued(my[d].grant)
  BY <1>1 DEF TypeOK, Locals, DispatchSound, HoldsGrant
<1>4. HoldsGrant(d)' BY <1>1, <1>3 DEF DispatchSound, HoldsGrant
<1>5. PermissionSound(d)' /\ Unfenced(d)' BY DEF PermissionSound, Unfenced
<1>6. DispatchSound(d)' BY <1>2, <1>4, <1>5 DEF DispatchSound
<1>7. \A g \in Grants : ~IsIssued(g) => GrantSound(g)' BY DEF GrantSound
<1> QED BY <1>6, <1>7, DispatchPreserves

\* UPDATE ... SET status = INVALIDATED leaves everything else of the rows alone.
LEMMA InvalidateGrantsFacts ==
  ASSUME TypeOK, NEW G, InvalidateGrants(G)
  PROVE  /\ grant' \in [Grants -> GrantRow]
         /\ \A g \in Grants :
              /\ IsIssued(g)' <=> IsIssued(g)
              /\ grant'[g].bound = grant[g].bound
              /\ grant'[g].status = "ACTIVE" => grant[g].status = "ACTIVE" /\ g \notin G
<1>1. ASSUME NEW g \in Grants
      PROVE  /\ grant'[g] \in GrantRow
             /\ IsIssued(g)' <=> IsIssued(g)
             /\ grant'[g].bound = grant[g].bound
             /\ grant'[g].status = "ACTIVE" => grant[g].status = "ACTIVE" /\ g \notin G
  <2>1. grant[g] \in GrantRow BY DEF TypeOK
  <2>2. CASE g \in G /\ grant[g].status = "ACTIVE"
    <3>1. grant'[g] = [grant[g] EXCEPT !.status = "INVALIDATED"]
      BY <2>2 DEF InvalidateGrants
    <3> QED BY <2>1, <2>2, <3>1 DEF IsIssued, GrantRow
  <2>3. CASE ~(g \in G /\ grant[g].status = "ACTIVE")
    <3>1. grant'[g] = grant[g] BY <2>3 DEF InvalidateGrants
    <3> QED BY <2>1, <2>3, <3>1 DEF IsIssued
  <2> QED BY <2>2, <2>3
<1>2. grant' = [g \in Grants |-> grant'[g]] BY DEF InvalidateGrants
<1> QED BY <1>1, <1>2

\* UPDATE ... SET status = REVOKED keeps the type of the confirmations.
LEMMA RevokeConfsType ==
  ASSUME TypeOK, NEW C, RevokeConfs(C)
  PROVE  conf' \in [Confs -> ConfRow]
<1>1. ASSUME NEW c \in Confs PROVE conf'[c] \in ConfRow
  <2>1. conf[c] \in ConfRow BY DEF TypeOK
  <2>2. [conf[c] EXCEPT !.status = "REVOKED"] \in ConfRow BY <2>1 DEF ConfRow
  <2> QED BY <2>1, <2>2 DEF RevokeConfs
<1> QED BY <1>1 DEF RevokeConfs

\* The end of an iteration of the convergence loop.
LEMMA NextAttemptFacts ==
  ASSUME TypeOK, NEW d \in Dispatches, NextAttempt(d)
  PROVE  /\ pc' \in [Dispatches -> Stages] /\ my' \in [Dispatches -> Locals]
         /\ intent' \in [Signals -> IntentStatus]
         /\ \A e \in Dispatches \ {d} : pc'[e] = pc[e] /\ my'[e] = my[e]
         /\ my'[d].grant = my[d].grant /\ my'[d].seen = my[d].seen
         /\ pc'[d] \in {"find", "done"}
<1>1. my[d] \in Locals /\ SignalOf(d) \in SignalOrNone BY DEF TypeOK, Locals, SignalOf
<1>2. CASE /\ my[d].attempt < 3
           /\ my' = [my EXCEPT ![d].attempt = @ + 1]
           /\ Goto(d, "find")
           /\ UNCHANGED intent
  <2> DEFINE m == [my[d] EXCEPT !.attempt = my[d].attempt + 1]
  <2>1. my[d].attempt + 1 \in 0 .. 3 BY <1>1, <1>2 DEF Locals
  <2>2. m \in Locals /\ m.grant = my[d].grant /\ m.seen = my[d].seen
    BY ONLY <1>1, <2>1 DEF Locals
  <2>3. my' = [my EXCEPT ![d] = m] BY <1>2
  <2> HIDE DEF m
  <2>4. my' \in [Dispatches -> Locals] /\ my'[d] = m /\ \A e \in Dispatches \ {d} : my'[e] = my[e]
    BY <2>2, <2>3 DEF TypeOK
  <2>5. pc' \in [Dispatches -> Stages] /\ pc'[d] = "find"
        /\ \A e \in Dispatches \ {d} : pc'[e] = pc[e]
    BY <1>2 DEF TypeOK, Goto, Stages
  <2> QED BY <1>2, <2>2, <2>4, <2>5 DEF TypeOK
<1>3. CASE my[d].attempt = 3 /\ UNCHANGED my /\ NotApproved(d)
  <2>1. pc' \in [Dispatches -> Stages] /\ pc'[d] = "done"
        /\ \A e \in Dispatches \ {d} : pc'[e] = pc[e]
    BY <1>3 DEF TypeOK, NotApproved, Goto, Stages
  <2>2. intent' \in [Signals -> IntentStatus]
    BY <1>1, <1>3, MarkIntentType DEF NotApproved, TypeOK
  <2> QED BY <1>3, <2>1, <2>2 DEF TypeOK
<1> QED BY <1>2, <1>3 DEF NextAttempt

\* Supersession and the lost INSERT.
LEMMA LoopSteps ==
  ASSUME AuthorityInv, NEW d \in Dispatches,
         Supersede(d) \/ RevokeSuperseded(d) \/ InsertLost(d)
  PROVE  AuthorityInv'
<1> USE DEF factVars, editing
<1>1. TypeOK BY DEF AuthorityInv
<1> DEFINE Untouched == \A g \in Grants :
              /\ IsIssued(g)' <=> IsIssued(g)
              /\ grant'[g].bound = grant[g].bound
              /\ grant'[g].status = "ACTIVE" => grant[g].status = "ACTIVE"
           Moved == /\ pc' \in [Dispatches -> Stages] /\ my' \in [Dispatches -> Locals]
                    /\ intent' \in [Signals -> IntentStatus]
                    /\ \A e \in Dispatches \ {d} : pc'[e] = pc[e] /\ my'[e] = my[e]
                    /\ my'[d].grant = my[d].grant /\ my'[d].seen = my[d].seen
                    /\ \/ pc'[d] \in {"find", "done"}
                       \/ pc'[d] = "revoke" /\ pc[d] = "supersede"
<1>2. ASSUME Moved, Untouched, pc[d] \in Bound,
             grant' \in [Grants -> GrantRow], conf' \in [Confs -> ConfRow],
             UNCHANGED <<factVars, trade, order, calls, job, fenced, changes>>
      PROVE  AuthorityInv'
  <2>1. TypeOK' BY <1>1, <1>2 DEF TypeOK
  <2>2. pc'[d] \notin Permitted \union PastAuthority \union PastSession
    BY <1>2 DEF Permitted, PastAuthority, PastSession
  <2>3. pc'[d] \in Holding => pc[d] \in Holding BY <1>2 DEF Holding, Stages
  <2> QED BY <1>2, <2>1, <2>2, <2>3, RowPreserves
<1>3. CASE Supersede(d)
  <2>1. grant' \in [Grants -> GrantRow] /\ Untouched
    BY <1>1, <1>3, InvalidateGrantsFacts DEF Supersede
  <2>2. Moved
    <3>1. CASE IsConfirm(d) BY <1>1, <1>3, <3>1, NextAttemptFacts DEF Supersede
    <3>2. CASE ~IsConfirm(d)
      BY <1>1, <1>3, <3>2 DEF Supersede, TypeOK, Goto, Stages
    <3> QED BY <3>1, <3>2
  <2>3. pc[d] \in Bound /\ conf' \in [Confs -> ConfRow]
    BY <1>1, <1>3 DEF Supersede, Bound, TypeOK
  <2> QED BY <1>2, <1>3, <2>1, <2>2, <2>3 DEF Supersede
<1>4. CASE RevokeSuperseded(d)
  <2>1. conf' \in [Confs -> ConfRow] BY <1>1, <1>4, RevokeConfsType DEF RevokeSuperseded
  <2>2. NextAttempt(d) BY <1>4 DEF RevokeSuperseded
  <2>3. Moved BY <1>1, <2>2, NextAttemptFacts
  <2>4. pc[d] \in Bound /\ grant' \in [Grants -> GrantRow] /\ Untouched
    BY <1>1, <1>4 DEF RevokeSuperseded, Bound, TypeOK, IsIssued
  <2> QED BY <1>2, <1>4, <2>1, <2>3, <2>4 DEF RevokeSuperseded
<1>5. CASE InsertLost(d)
  <2>0. NextAttempt(d) BY <1>5 DEF InsertLost
  <2>1. Moved BY <1>1, <2>0, NextAttemptFacts
  <2>2. /\ pc[d] \in Bound /\ grant' \in [Grants -> GrantRow] /\ Untouched
        /\ conf' \in [Confs -> ConfRow]
    BY <1>1, <1>5 DEF InsertLost, Bound, TypeOK, IsIssued
  <2> QED BY <1>2, <1>5, <2>1, <2>2 DEF InsertLost
<1> QED BY <1>3, <1>4, <1>5

\* The INSERT binds what the evaluation has read.
LEMMA InsertStep ==
  ASSUME AuthorityInv, NEW d \in Dispatches, Insert(d)
  PROVE  AuthorityInv'
<1> USE DEF factVars, editing
<1>1. TypeOK /\ DispatchSound(d) BY DEF AuthorityInv
<1> DEFINE new == [status |-> "ACTIVE", signal |-> SignalOf(d), mode |-> my[d].mode,
                   bound |-> my[d].seen, lapsed |-> FALSE]
<1>2. PICK g \in Grants : NextGrant(g) /\ grant' = [grant EXCEPT ![g] = new]
                          /\ my' = [my EXCEPT ![d].grant = g]
  BY DEF Insert
<1> DEFINE m == [my[d] EXCEPT !.grant = g]
<1>3. my[d] \in Locals /\ my[d].seen \in [Facts -> Nat] BY <1>1 DEF TypeOK, Locals
<1>4. m \in Locals /\ m.grant = g /\ m.seen = my[d].seen BY ONLY <1>3, g \in Grants DEF Locals
<1>5. new \in GrantRow /\ new.bound = my[d].seen /\ new.status = "ACTIVE"
  BY ONLY <1>3 DEF GrantRow, Locals, SignalOf
<1>6. my' = [my EXCEPT ![d] = m] BY <1>2
<1> HIDE DEF m, new
<1>7. my' \in [Dispatches -> Locals] /\ my'[d] = m /\ \A e \in Dispatches \ {d} : my'[e] = my[e]
  BY <1>1, <1>4, <1>6 DEF TypeOK
<1>8. grant' \in [Grants -> GrantRow] /\ grant'[g] = new /\ \A h \in Grants \ {g} : grant'[h] = grant[h]
  BY <1>1, <1>2, <1>5 DEF TypeOK
<1>9. /\ pc' \in [Dispatches -> Stages] /\ pc'[d] \in {"confirmation", "issued"}
      /\ \A e \in Dispatches \ {d} : pc'[e] = pc[e]
  BY <1>1 DEF TypeOK, Insert, Goto, Stages
<1>10. TypeOK' BY <1>1, <1>7, <1>8, <1>9 DEF TypeOK, Insert
<1>11. ~IsIssued(g) /\ IsIssued(g)' BY <1>2, <1>5, <1>8 DEF IsIssued, NextGrant
<1>12. GrantSound(g)'
  <2>1. EvaluationSound(d) /\ pc[d] = "insert" BY <1>1 DEF DispatchSound, Insert
  <2> QED BY <1>5, <1>8, <2>1 DEF GrantSound, EvaluationSound, RevisionSound, Evaluated, Bound, Insert
<1>13. DispatchSound(d)'
  <2>1. EvaluationSound(d)' BY <1>9 DEF EvaluationSound, Evaluated, Bound
  <2>2. HoldsGrant(d)' BY <1>4, <1>7, <1>11 DEF HoldsGrant, None
  <2>3. PermissionSound(d)' /\ Unfenced(d)'
    BY <1>9 DEF PermissionSound, Unfenced, Permitted, PastAuthority, PastSession
  <2> QED BY <2>1, <2>2, <2>3 DEF DispatchSound
<1>14. \A h \in Grants : ~IsIssued(h) => GrantSound(h)'
  BY <1>8, <1>12 DEF GrantSound, IsIssued
<1>15. \A h \in Grants : IsIssued(h) =>
         /\ IsIssued(h)'
         /\ grant'[h].bound = grant[h].bound
         /\ grant'[h].status = "ACTIVE" => grant[h].status = "ACTIVE"
  BY <1>8, <1>11 DEF IsIssued
<1>16. UNCHANGED <<facts, controlled, killed, edit, overwritten, job, fenced>> BY DEF Insert
<1> QED BY <1>7, <1>9, <1>10, <1>13, <1>14, <1>15, <1>16, DispatchPreserves

\* The two ways a confirmation is bound to the grant.
LEMMA ConfirmationSteps ==
  ASSUME AuthorityInv, NEW d \in Dispatches, CreateConfirmation(d) \/ Rebind(d)
  PROVE  AuthorityInv'
<1> USE DEF factVars, editing
<1>1. TypeOK /\ DispatchSound(d) BY DEF AuthorityInv
<1>2. my[d].grant \in Grants /\ my[d].signal \in SignalOrNone /\ my[d].conf \in Confs \union {None}
  BY <1>1 DEF TypeOK, Locals, DispatchSound, HoldsGrant, Holding, Stages, CreateConfirmation, Rebind
<1>3. conf' \in [Confs -> ConfRow]
  <2>1. CASE CreateConfirmation(d)
    <3> DEFINE row == [status |-> "PENDING", signal |-> SignalOf(d), grant |-> my[d].grant,
                       session |-> grant[my[d].grant].bound["session"], lapsed |-> FALSE]
    <3>1. grant[my[d].grant].bound \in [Facts -> Nat] BY <1>1, <1>2 DEF TypeOK, GrantRow
    <3>2. row \in ConfRow BY ONLY <1>2, <3>1 DEF ConfRow, SignalOf, Facts
    <3> HIDE DEF row
    <3>3. conf' = conf \/ \E c \in Confs : conf' = [conf EXCEPT ![c] = row]
      BY <2>1 DEF CreateConfirmation, row
    <3> QED BY <1>1, <3>2, <3>3 DEF TypeOK
  <2>2. CASE Rebind(d)
    <3>1. my[d].conf \in Confs BY <1>2, <2>2 DEF Rebind, IsConfirm
    <3> DEFINE row == [conf[my[d].conf] EXCEPT !.grant = my[d].grant]
    <3>2. row \in ConfRow BY <1>1, <1>2, <3>1 DEF TypeOK, ConfRow
    <3> HIDE DEF row
    <3>3. conf' = conf \/ conf' = [conf EXCEPT ![my[d].conf] = row] BY <2>2 DEF Rebind, row
    <3> QED BY <1>1, <3>2, <3>3 DEF TypeOK
  <2> QED BY <2>1, <2>2
<1>4. PICK to \in {"issued", "done"} : Goto(d, to) BY DEF CreateConfirmation, Rebind
<1>5. pc' \in [Dispatches -> Stages] BY <1>1, <1>4, GotoType DEF Stages
<1>6. UNCHANGED <<factVars, grant, intent, trade, order, calls, my, job, fenced, changes>>
  BY DEF CreateConfirmation, Rebind
<1>7. TypeOK' BY <1>1, <1>3, <1>5, <1>6 DEF TypeOK
<1>8. pc[d] \in Holding BY DEF CreateConfirmation, Rebind, Holding, Stages
<1> QED BY <1>4, <1>6, <1>7, <1>8, StagePreserves
        DEF Stages, Evaluated, Bound, Permitted, PastAuthority, PastSession

\* The commitment's transaction.
LEMMA CommitSteps ==
  ASSUME AuthorityInv, NEW d \in Dispatches, Commit(d) \/ CommitAckLost(d)
  PROVE  AuthorityInv'
<1> USE DEF factVars, editing
<1>1. TypeOK /\ DispatchSound(d) BY DEF AuthorityInv
<1>2. CommitReady(d) /\ CommitRows(d) /\ pc[d] = "commit" BY DEF Commit, CommitAckLost
<1>3. /\ my[d].grant \in Grants /\ my[d].conf \in Confs \union {None}
      /\ grant[my[d].grant] \in GrantRow
  BY <1>1, <1>2 DEF TypeOK, Locals, DispatchSound, HoldsGrant, Holding, Stages
<1> DEFINE g == my[d].grant
           spent == [grant[g] EXCEPT !.status = "CONSUMED"]
<1>4. spent \in GrantRow /\ spent.status = "CONSUMED" /\ spent.bound = grant[g].bound
  BY <1>3 DEF GrantRow
<1>5. grant[g].status = "ACTIVE" BY <1>2 DEF CommitReady, GrantUsable
<1>6. grant' = [grant EXCEPT ![g] = spent] BY <1>2 DEF CommitRows
<1> HIDE DEF spent
<1>7. grant' \in [Grants -> GrantRow] /\ grant'[g] = spent /\ \A h \in Grants \ {g} : grant'[h] = grant[h]
  BY <1>1, <1>3, <1>4, <1>6 DEF TypeOK
<1>8. conf' \in [Confs -> ConfRow]
  <2>1. CASE IsConfirm(d)
    <3>1. my[d].conf \in Confs BY <1>3, <2>1 DEF IsConfirm
    <3> DEFINE row == [conf[my[d].conf] EXCEPT !.status = "CONSUMED"]
    <3>2. row \in ConfRow BY <1>1, <3>1 DEF TypeOK, ConfRow
    <3>3. conf' = [conf EXCEPT ![my[d].conf] = row] BY <1>2, <2>1 DEF CommitRows
    <3> HIDE DEF row
    <3> QED BY <1>1, <3>2, <3>3 DEF TypeOK
  <2>2. CASE ~IsConfirm(d) BY <1>1, <1>2, <2>2 DEF CommitRows, TypeOK
  <2> QED BY <2>1, <2>2
<1>9. order' \in [Signals -> OrderStatus] BY <1>1, <1>2 DEF CommitRows, TypeOK, OrderStatus
<1>10. PICK to \in {"committed", "blocked"} : Goto(d, to) BY DEF Commit, CommitAckLost
<1>11. /\ pc' \in [Dispatches -> Stages] /\ pc'[d] = to
       /\ \A e \in Dispatches \ {d} : pc'[e] = pc[e]
  BY <1>1, <1>10 DEF TypeOK, Goto, Stages
<1>12. UNCHANGED <<factVars, intent, trade, calls, my, job, fenced, changes>>
  BY DEF Commit, CommitAckLost
<1>13. TypeOK' BY <1>1, <1>7, <1>8, <1>9, <1>11, <1>12 DEF TypeOK
<1>14. \A h \in Grants :
         /\ IsIssued(h)' <=> IsIssued(h)
         /\ grant'[h].bound = grant[h].bound
         /\ grant'[h].status = "ACTIVE" => grant[h].status = "ACTIVE"
  BY <1>4, <1>5, <1>7 DEF IsIssued
<1>15. /\ pc'[d] \notin Permitted \union PastAuthority \union PastSession
       /\ pc'[d] \notin Evaluated
       /\ pc[d] \in Holding
  BY <1>2, <1>10, <1>11 DEF Permitted, PastAuthority, PastSession, Evaluated, Holding, Stages
<1> QED BY <1>11, <1>12, <1>13, <1>14, <1>15, RowPreserves

-----------------------------------------------------------------------------
(* The steps of the environment.                                            *)

\* Counters only grow, by one.
LEMMA AdvanceFacts ==
  ASSUME TypeOK, NEW F, Advance(F)
  PROVE  /\ facts' \in [Facts -> Nat]
         /\ \A f \in Facts : facts'[f] = IF f \in F THEN facts[f] + 1 ELSE facts[f]
         /\ \A f \in Facts : facts'[f] >= facts[f]
<1>1. \A f \in Facts : facts[f] \in Nat BY DEF TypeOK
<1>2. \A f \in Facts : facts'[f] = IF f \in F THEN facts[f] + 1 ELSE facts[f] BY DEF Advance
<1>3. ASSUME NEW f \in Facts PROVE facts'[f] \in Nat /\ facts'[f] >= facts[f] BY <1>1, <1>2
<1>4. facts' = [f \in Facts |-> facts'[f]] BY DEF Advance
<1>5. facts' \in [Facts -> Nat] BY <1>3, <1>4
<1> QED BY <1>2, <1>3, <1>5

\* A change that touches neither the grants, nor what is fenced, nor the jobs.
LEMMA FactPreserves ==
  ASSUME AuthorityInv, TypeOK', UNCHANGED <<pc, my, grant, fenced>>,
         \A f \in Facts : facts'[f] >= facts[f],
         UNCHANGED <<killed, edit, overwritten>>, facts'["profile"] = facts["profile"],
         controlled' => \/ controlled /\ facts'["control"] = facts["control"]
                        \/ facts'["control"] > facts["control"],
         JobBelow'
  PROVE  AuthorityInv'
BY ProfileStays, ChangePreserves DEF IsIssued

\* The atomic changes: governance and the kill switch.
LEMMA AtomicSteps ==
  ASSUME AuthorityInv, Governance \/ \E on \in BOOLEAN : KillSwitch(on)
  PROVE  AuthorityInv'
<1>1. PICK F \in SUBSET Facts : AtomicChange(F) /\ (killed' = killed \/ "profile" \in F)
  BY DEF Governance, KillSwitch, Facts
<1>2. TypeOK /\ JobBelow BY DEF AuthorityInv
<1>3. Advance(F \union {"authority"}) /\ InvalidateGrants(Grants) /\ RevokeConfs(Confs)
      /\ Change /\ fenced' = fenced \union Below("authority", facts["authority"])
  BY <1>1 DEF AtomicChange, RevokeAuthority
<1>4. /\ facts' \in [Facts -> Nat]
      /\ \A f \in Facts : facts'[f] >= facts[f]
      /\ \A f \in Facts : facts'[f] = IF f \in F \union {"authority"} THEN facts[f] + 1 ELSE facts[f]
  BY <1>2, <1>3, AdvanceFacts
<1>5. /\ grant' \in [Grants -> GrantRow]
      /\ \A g \in Grants :
           /\ IsIssued(g)' <=> IsIssued(g)
           /\ grant'[g].bound = grant[g].bound
           /\ grant'[g].status # "ACTIVE"
  BY <1>2, <1>3, InvalidateGrantsFacts
<1>6. conf' \in [Confs -> ConfRow] BY <1>2, <1>3, RevokeConfsType
<1>7. facts["authority"] \in Nat /\ facts["profile"] \in Nat BY <1>2 DEF TypeOK, Facts
<1>8. fenced' \subseteq {"authority", "session"} \X Nat
  BY <1>2, <1>3, <1>7 DEF TypeOK, Below
<1>9. /\ UNCHANGED <<sessionStatus, sessionMode, connected, controlled>>
       /\ UNCHANGED <<intent, trade, order, calls, pc, my, job, edit, overwritten>>
       /\ killed' \in BOOLEAN
  BY <1>2 DEF Governance, KillSwitch, TypeOK, editing
<1>10. changes' \in Nat BY <1>2, <1>3 DEF Change, TypeOK
<1>11. TypeOK' BY <1>2, <1>4, <1>5, <1>6, <1>8, <1>9, <1>10 DEF TypeOK
<1>12. \A f \in {"authority", "session"}, n \in Nat :
         <<f, n>> \in fenced' => <<f, n>> \in fenced \/ n < facts'[f]
  <2> SUFFICES ASSUME NEW f \in {"authority", "session"}, NEW n \in Nat,
                      <<f, n>> \in fenced', <<f, n>> \notin fenced
               PROVE  n < facts'[f]
    OBVIOUS
  <2>1. f = "authority" /\ n \in 0 .. facts["authority"] BY <1>3 DEF Below
  <2>2. facts'["authority"] = facts["authority"] + 1 BY <1>4 DEF Facts
  <2> QED BY <1>7, <2>1, <2>2
<1>13. JobBelow'
  <2>1. facts'["session"] >= facts["session"] /\ facts["session"] \in Nat /\ facts'["session"] \in Nat
    BY <1>2, <1>4 DEF Facts, TypeOK
  <2>2. \A r \in Revokers : job[r].gen \in Nat BY <1>2 DEF TypeOK, Job
  <2> QED BY <1>2, <1>9, <2>1, <2>2 DEF JobBelow
<1>14. ProfileStep
  <2>1. facts'["profile"] = IF "profile" \in F THEN facts["profile"] + 1 ELSE facts["profile"]
    BY <1>4 DEF Facts
  <2>2. CASE "profile" \in F
    <3>1. facts'["profile"] > facts["profile"] BY ONLY <1>7, <2>1, <2>2
    <3>2. \A e \in Editors : EditSound(e) /\ edit[e].rev \in Nat BY <1>2 DEF AuthorityInv, TypeOK, Edit
    <3>3. ~overwritten => \A e \in Editors : EditSound(e)'
      BY <1>7, <1>9, <2>1, <2>2, <3>2 DEF EditSound
    <3> QED BY <1>7, <1>9, <2>1, <2>2, <3>1, <3>3 DEF ProfileStep
  <2>3. CASE "profile" \notin F BY <1>1, <1>9, <2>1, <2>3, ProfileStays
  <2> QED BY <2>2, <2>3
<1>15. controlled' => \/ controlled /\ facts'["control"] = facts["control"]
                      \/ facts'["control"] > facts["control"]
  <2>1. "control" \in Facts /\ facts["control"] \in Nat BY <1>2 DEF Facts, TypeOK
  <2> QED BY <1>4, <1>9, <2>1
<1> QED BY <1>4, <1>5, <1>9, <1>11, <1>12, <1>13, <1>14, <1>15, ChangePreserves

\* An editor loads the row: its copy is the present one.
LEMMA LoadStep ==
  ASSUME AuthorityInv, NEW e \in Editors, LoadProfile(e)
  PROVE  AuthorityInv'
<1> USE DEF rows
<1>1. TypeOK /\ JobBelow /\ \A x \in Editors : EditSound(x) BY DEF AuthorityInv
<1>2. \A f \in Facts : facts[f] \in Nat BY <1>1 DEF TypeOK
<1> DEFINE copy == [step |-> "loaded", rev |-> facts["profile"], killed |-> killed]
<1>3. /\ copy \in Edit /\ copy.rev = facts["profile"] /\ copy.killed = killed
      /\ facts["profile"] \in Nat
  BY <1>1, <1>2 DEF TypeOK, Edit, Facts
<1>4. edit' = [edit EXCEPT ![e] = copy] BY DEF LoadProfile
<1> HIDE DEF copy
<1>5. edit' \in [Editors -> Edit] /\ edit'[e] = copy /\ \A x \in Editors \ {e} : edit'[x] = edit[x]
  BY <1>1, <1>3, <1>4 DEF TypeOK
<1>6. UNCHANGED <<facts, sessionStatus, sessionMode, connected, controlled, killed, overwritten>>
      /\ UNCHANGED <<grant, conf, intent, trade, order, calls, pc, my, job, fenced, changes>>
  BY DEF LoadProfile
<1>7. TypeOK' BY <1>1, <1>5, <1>6 DEF TypeOK
<1>8. ~overwritten => \A x \in Editors : EditSound(x)'
  BY <1>1, <1>3, <1>5, <1>6 DEF EditSound
<1>9. ProfileStep BY <1>3, <1>6, <1>8 DEF ProfileStep
<1>10. \A f \in Facts : facts'[f] >= facts[f] BY <1>2, <1>6
<1>11. JobBelow' BY <1>1, <1>6 DEF JobBelow
<1> QED BY <1>6, <1>7, <1>9, <1>10, <1>11, ChangePreserves DEF IsIssued

\* What a save leaves of the copies: those of the other editors.
LEMMA SavedCopies ==
  ASSUME AuthorityInv, NEW e \in Editors, SaveCopy(e), facts' \in [Facts -> Nat],
         \/ facts'["profile"] = edit[e].rev /\ killed' = edit[e].killed
         \/ facts'["profile"] = edit[e].rev + 1
  PROVE  edit' \in [Editors -> Edit] /\ overwritten' \in BOOLEAN /\ ProfileStep
<1>1. TypeOK /\ \A x \in Editors : EditSound(x) BY DEF AuthorityInv
<1>2. NoCopy \in Edit /\ NoCopy.step = "idle" BY DEF NoCopy, Edit
<1>3. /\ edit' \in [Editors -> Edit] /\ edit'[e] = NoCopy
      /\ \A x \in Editors \ {e} : edit'[x] = edit[x]
  BY <1>1, <1>2 DEF SaveCopy, TypeOK
<1>4. overwritten' \in BOOLEAN BY <1>1 DEF SaveCopy, TypeOK
<1>5. ASSUME ~overwritten'
      PROVE  /\ ~overwritten /\ edit[e].rev = facts["profile"] /\ edit[e].killed = killed
             /\ facts["profile"] \in Nat
  BY <1>1, <1>5 DEF SaveCopy, EditSound, TypeOK, Facts
<1>6. ASSUME ~overwritten' PROVE \A x \in Editors : EditSound(x)'
  <2>1. \A x \in Editors : edit[x].rev \in Nat BY <1>1 DEF TypeOK, Edit
  <2>2. facts'["profile"] \in Nat BY DEF Facts
  <2> QED BY <1>1, <1>2, <1>3, <1>5, <1>6, <2>1, <2>2 DEF EditSound
<1>7. ProfileStep BY <1>4, <1>5, <1>6 DEF ProfileStep
<1> QED BY <1>3, <1>4, <1>7

\* A save of the copy, with or without the bump that follows it.
LEMMA SaveSteps ==
  ASSUME AuthorityInv, NEW e \in Editors,
         SaveDisplayEdit(e) \/ \E on \in BOOLEAN : SaveProfile(e, on)
  PROVE  AuthorityInv'
<1>1. TypeOK /\ JobBelow BY DEF AuthorityInv
<1>2. /\ \A f \in Facts : facts[f] \in Nat
      /\ facts["authority"] \in Nat /\ facts["session"] \in Nat
      /\ edit[e].rev \in Nat /\ edit[e].killed \in BOOLEAN
  BY <1>1 DEF TypeOK, Facts, Edit
<1>3. CASE SaveDisplayEdit(e)
  <2>1. facts' = [facts EXCEPT !["profile"] = edit[e].rev] BY <1>3 DEF SaveDisplayEdit
  <2>2. /\ facts' \in [Facts -> Nat] /\ facts'["profile"] = edit[e].rev
        /\ \A f \in Facts \ {"profile"} : facts'[f] = facts[f]
    BY <1>1, <1>2, <2>1 DEF TypeOK, Facts
  <2>3. killed' = edit[e].killed /\ SaveCopy(e) BY <1>3 DEF SaveDisplayEdit
  <2>4. edit' \in [Editors -> Edit] /\ overwritten' \in BOOLEAN /\ ProfileStep
    BY <2>2, <2>3, SavedCopies
  <2>5. /\ UNCHANGED <<sessionStatus, sessionMode, connected, controlled>>
        /\ UNCHANGED <<grant, conf, intent, trade, order, calls, pc, my, job, fenced, changes>>
    BY <1>3 DEF SaveDisplayEdit, rows
  <2>6. TypeOK' BY <1>1, <1>2, <2>2, <2>3, <2>4, <2>5 DEF TypeOK
  <2>7. JobBelow' BY <1>1, <2>2, <2>5 DEF JobBelow, Facts
  <2>8. \A f \in Facts \ {"profile"} : facts'[f] >= facts[f] BY <1>2, <2>2
  <2>9. controlled' => controlled /\ facts'["control"] = facts["control"] BY <2>2, <2>5 DEF Facts
  <2> QED BY <2>4, <2>5, <2>6, <2>7, <2>8, <2>9, ChangePreserves DEF IsIssued
<1>4. ASSUME NEW on \in BOOLEAN, SaveProfile(e, on) PROVE AuthorityInv'
  <2>1. facts' = [facts EXCEPT !["profile"] = edit[e].rev + 1,
                               !["authority"] = facts["authority"] + 1]
    BY <1>1, <1>4 DEF SaveProfile, TypeOK, Facts
  <2>2. /\ facts' \in [Facts -> Nat] /\ facts'["profile"] = edit[e].rev + 1
        /\ facts'["authority"] = facts["authority"] + 1
        /\ \A f \in Facts \ {"profile", "authority"} : facts'[f] = facts[f]
    <3>1. edit[e].rev + 1 \in Nat /\ facts["authority"] + 1 \in Nat BY <1>2
    <3> QED BY <1>1, <2>1, <3>1 DEF TypeOK, Facts
  <2>3. /\ killed' = on /\ SaveCopy(e) /\ InvalidateGrants(Grants) /\ RevokeConfs(Confs)
        /\ fenced' = fenced \union Below("authority", facts["authority"])
        /\ changes' = changes + 1
    BY <1>4 DEF SaveProfile, RevokeAuthority, Change
  <2>4. edit' \in [Editors -> Edit] /\ overwritten' \in BOOLEAN /\ ProfileStep
    BY <2>2, <2>3, SavedCopies
  <2>5. /\ UNCHANGED <<sessionStatus, sessionMode, connected, controlled>>
        /\ UNCHANGED <<intent, trade, order, calls, pc, my, job>>
    BY <1>4 DEF SaveProfile
  <2>6. /\ grant' \in [Grants -> GrantRow]
        /\ \A g \in Grants :
             /\ IsIssued(g)' <=> IsIssued(g)
             /\ grant'[g].bound = grant[g].bound
             /\ grant'[g].status # "ACTIVE"
    BY <1>1, <2>3, InvalidateGrantsFacts
  <2>7. conf' \in [Confs -> ConfRow] BY <1>1, <2>3, RevokeConfsType
  <2>8. fenced' \subseteq {"authority", "session"} \X Nat BY <1>1, <1>2, <2>3 DEF TypeOK, Below
  <2>9. changes' \in Nat BY <1>1, <2>3 DEF TypeOK
  <2>10. TypeOK' BY <1>1, <2>2, <2>3, <2>4, <2>5, <2>6, <2>7, <2>8, <2>9 DEF TypeOK
  <2>11. JobBelow' BY <1>1, <2>2, <2>5 DEF JobBelow, Facts
  <2>12. \A f \in Facts \ {"profile"} : facts'[f] >= facts[f]
    <3>1. facts'["authority"] >= facts["authority"] BY <1>2, <2>2
    <3> QED BY <1>2, <2>2, <3>1
  <2>13. controlled' => controlled /\ facts'["control"] = facts["control"] BY <2>2, <2>5 DEF Facts
  <2>14. \A f \in {"authority", "session"}, n \in Nat :
           <<f, n>> \in fenced' => <<f, n>> \in fenced \/ n < facts'[f]
    <3> SUFFICES ASSUME NEW f \in {"authority", "session"}, NEW n \in Nat,
                        <<f, n>> \in fenced', <<f, n>> \notin fenced
                 PROVE  n < facts'[f]
      OBVIOUS
    <3>1. f = "authority" /\ n \in 0 .. facts["authority"] BY <2>3 DEF Below
    <3> QED BY <1>2, <2>2, <3>1
  <2> QED BY <2>4, <2>5, <2>6, <2>10, <2>11, <2>12, <2>13, <2>14, ChangePreserves
<1> QED BY <1>3, <1>4

\* The shared revisions, the emergency controls and the connection coming back.
LEMMA SwitchSteps ==
  ASSUME AuthorityInv,
         \/ \E f \in {"policy", "catalog"} : SharedAdvance(f)
         \/ \E on \in BOOLEAN : SetControl(on)
         \/ ControlExpires \/ Reconnect
  PROVE  AuthorityInv'
<1> USE DEF rows
<1>1. TypeOK /\ JobBelow BY DEF AuthorityInv
<1>2. PICK F \in SUBSET {"policy", "catalog", "control"} :
        /\ Advance(F) \/ (F = {} /\ facts' = facts)
        /\ controlled' => controlled \/ "control" \in F
  <2>1. ASSUME NEW f \in {"policy", "catalog"}, SharedAdvance(f)
        PROVE  Advance({f}) /\ controlled' = controlled
    BY <2>1 DEF SharedAdvance
  <2>2. ASSUME NEW on \in BOOLEAN, SetControl(on) PROVE Advance({"control"})
    BY <2>2 DEF SetControl
  <2>3. ControlExpires \/ Reconnect =>
          {} \in SUBSET {"policy", "catalog", "control"} /\ facts' = facts /\ (controlled' => controlled)
    BY DEF ControlExpires, Reconnect
  <2> QED BY <2>1, <2>2, <2>3
<1>3. /\ facts' \in [Facts -> Nat]
      /\ \A f \in Facts : facts'[f] = IF f \in F THEN facts[f] + 1 ELSE facts[f]
      /\ \A f \in Facts : facts[f] \in Nat /\ facts'[f] >= facts[f]
  <2>1. \A f \in Facts : facts[f] \in Nat BY <1>1 DEF TypeOK
  <2>2. CASE Advance(F) BY <1>1, <2>1, <2>2, AdvanceFacts
  <2>3. CASE F = {} /\ facts' = facts BY <1>1, <2>1, <2>3 DEF TypeOK
  <2> QED BY <1>2, <2>2, <2>3
<1>4. /\ UNCHANGED <<sessionStatus, sessionMode, killed, edit, overwritten, rows, pc, my, job, fenced>>
      /\ connected' \in BOOLEAN /\ controlled' \in BOOLEAN /\ changes' \in Nat
  <2>1. \A f \in {"policy", "catalog"} : SharedAdvance(f) =>
          /\ UNCHANGED <<sessionStatus, sessionMode, killed, edit, overwritten, rows, pc, my, job, fenced>>
          /\ UNCHANGED <<connected, controlled>> /\ changes' = changes + 1
    BY DEF SharedAdvance, Change, editing
  <2>2. \A on \in BOOLEAN : SetControl(on) =>
          /\ UNCHANGED <<sessionStatus, sessionMode, killed, edit, overwritten, rows, pc, my, job, fenced>>
          /\ UNCHANGED connected /\ controlled' = on /\ changes' = changes + 1
    BY DEF SetControl, Change, editing
  <2>3. ControlExpires \/ Reconnect =>
          /\ UNCHANGED <<sessionStatus, sessionMode, killed, edit, overwritten, rows, pc, my, job, fenced>>
          /\ connected' \in {connected, TRUE} /\ controlled' \in {controlled, FALSE}
          /\ changes' = changes
    BY DEF ControlExpires, Reconnect, editing
  <2>4. /\ connected \in BOOLEAN /\ controlled \in BOOLEAN
        /\ changes \in Nat /\ changes + 1 \in Nat
    BY <1>1 DEF TypeOK
  <2> QED BY ONLY <2>1, <2>2, <2>3, <2>4,
             \/ \E f \in {"policy", "catalog"} : SharedAdvance(f)
             \/ \E on \in BOOLEAN : SetControl(on)
             \/ ControlExpires \/ Reconnect
<1>5. TypeOK' BY <1>1, <1>3, <1>4 DEF TypeOK
<1>6. facts'["profile"] = facts["profile"] /\ facts'["session"] = facts["session"]
  BY <1>2, <1>3 DEF Facts
<1>7. controlled' => \/ controlled /\ facts'["control"] = facts["control"]
                     \/ facts'["control"] > facts["control"]
  <2>1. /\ facts["control"] \in Nat
        /\ facts'["control"] = IF "control" \in F THEN facts["control"] + 1 ELSE facts["control"]
    BY <1>3 DEF Facts
  <2>2. CASE "control" \in F BY ONLY <2>1, <2>2
  <2>3. CASE "control" \notin F BY ONLY <1>2, <2>1, <2>3
  <2> QED BY <2>2, <2>3
<1>8. JobBelow' BY <1>1, <1>4, <1>6 DEF JobBelow
<1> QED BY <1>3, <1>4, <1>5, <1>6, <1>7, <1>8, FactPreserves

\* The first statement of a multi-statement change, and the generation bump.
LEMMA RevokerSteps ==
  ASSUME AuthorityInv, NEW r \in Revokers,
         \/ BrokerDown(r) \/ RotateCredential(r) \/ BumpAuthority(r)
         \/ \E status \in {"ACTIVE", "SUSPENDED_RISK_LIMIT", "ENDED"}, mode \in Modes,
               kind \in {"session", "suspend"} : SessionChange(r, status, mode, kind)
         \/ SweepConfs(r) \/ JobFails(r)
  PROVE  AuthorityInv'
<1> USE DEF factVars, editing, rows
<1>1. TypeOK /\ JobBelow BY DEF AuthorityInv
<1>2. \A f \in Facts : facts[f] \in Nat BY <1>1 DEF TypeOK
<1>3. PICK F \in {{}, {"credential"}, {"authority"}, {"session"}} :
        Advance(F) \/ (F = {} /\ facts' = facts)
  BY DEF BrokerDown, RotateCredential, BumpAuthority, SessionChange, SweepConfs, JobFails
<1>4. /\ facts' \in [Facts -> Nat]
      /\ \A f \in Facts : facts'[f] >= facts[f]
      /\ \A f \in Facts : facts'[f] = IF f \in F THEN facts[f] + 1 ELSE facts[f]
  <2>1. CASE Advance(F) BY <1>1, <2>1, AdvanceFacts
  <2>2. CASE F = {} /\ facts' = facts BY <1>1, <1>2, <2>2 DEF TypeOK
  <2> QED BY <1>3, <2>1, <2>2
<1>5. /\ UNCHANGED <<controlled, killed, edit, overwritten, grant, intent, trade, order,
                                calls, pc, my, fenced>>
      /\ sessionStatus' \in {"ACTIVE", "SUSPENDED_RISK_LIMIT", "ENDED"} /\ sessionMode' \in Modes
      /\ connected' \in BOOLEAN /\ changes' \in Nat
  <2>1. changes + 1 \in Nat BY <1>1 DEF TypeOK
  <2>2. CASE BrokerDown(r) BY <1>1, <2>1, <2>2 DEF BrokerDown, TypeOK, Change
  <2>3. CASE RotateCredential(r) BY <1>1, <2>1, <2>3 DEF RotateCredential, TypeOK, Change
  <2>4. CASE BumpAuthority(r) \/ JobFails(r) BY <1>1, <2>4 DEF BumpAuthority, JobFails, TypeOK
  <2>5. CASE SweepConfs(r) BY <1>1, <2>5 DEF SweepConfs, TypeOK
  <2>6. ASSUME NEW status \in {"ACTIVE", "SUSPENDED_RISK_LIMIT", "ENDED"}, NEW mode \in Modes,
               NEW kind \in {"session", "suspend"}, SessionChange(r, status, mode, kind)
        PROVE  /\ UNCHANGED <<controlled, killed, edit, overwritten, grant, intent, trade, order,
                                calls, pc, my, fenced>>
               /\ sessionStatus' = status /\ sessionMode' = mode
               /\ connected' \in BOOLEAN /\ changes' \in Nat
    BY <1>1, <2>1, <2>6 DEF SessionChange, TypeOK, Change
  <2> QED BY <2>2, <2>3, <2>4, <2>5, <2>6
<1>6. conf' \in [Confs -> ConfRow]
  <2>1. CASE SweepConfs(r) BY <1>1, <2>1, RevokeConfsType DEF SweepConfs
  <2>2. CASE conf' = conf BY <1>1, <2>2 DEF TypeOK
  <2> QED BY <2>1, <2>2 DEF BrokerDown, RotateCredential, BumpAuthority, SessionChange, JobFails
<1>7. PICK j \in Job :
        /\ job' = [job EXCEPT ![r] = j]
        /\ j.step = "bump" => j.kind = "user"
        /\ j.step = "grants" /\ j.kind # "user" => j.gen < facts'["session"]
  <2>1. CASE BrokerDown(r) \/ RotateCredential(r)
    <3>1. [step |-> "bump", kind |-> "user", gen |-> 0] \in Job BY DEF Job
    <3> QED BY <2>1, <3>1 DEF BrokerDown, RotateCredential
  <2>2. CASE SweepConfs(r) \/ JobFails(r)
    <3>1. NoJob \in Job /\ NoJob.step = "idle" BY DEF Job, NoJob
    <3> QED BY <2>2, <3>1 DEF SweepConfs, JobFails
  <2>3. CASE BumpAuthority(r)
    <3> DEFINE j == [job[r] EXCEPT !.step = "grants"]
    <3>1. job[r] \in Job /\ job[r].step = "bump" BY <1>1, <2>3 DEF TypeOK, BumpAuthority
    <3>2. j \in Job /\ j.kind = job[r].kind /\ j.step = "grants" BY <3>1 DEF Job
    <3>3. job' = [job EXCEPT ![r] = j] BY <2>3 DEF BumpAuthority
    <3>4. j.kind = "user" BY <1>1, <3>1, <3>2 DEF JobBelow
    <3> QED BY <3>2, <3>3, <3>4
  <2>4. ASSUME NEW status \in {"ACTIVE", "SUSPENDED_RISK_LIMIT", "ENDED"}, NEW mode \in Modes,
               NEW kind \in {"session", "suspend"}, SessionChange(r, status, mode, kind)
        PROVE  \E j \in Job :
                 /\ job' = [job EXCEPT ![r] = j]
                 /\ j.step = "bump" => j.kind = "user"
                 /\ j.step = "grants" /\ j.kind # "user" => j.gen < facts'["session"]
    <3> DEFINE j == [step |-> "grants", kind |-> kind, gen |-> facts["session"]]
    <3>1. facts["session"] \in Nat BY <1>2 DEF Facts
    <3>2. j \in Job /\ j.gen = facts["session"] BY <3>1 DEF Job
    <3>3. job' = [job EXCEPT ![r] = j] BY <2>4 DEF SessionChange
    <3>4. facts'["session"] = facts["session"] + 1 BY <1>1, <2>4, AdvanceFacts DEF SessionChange, Facts
    <3>5. j.gen < facts'["session"] /\ j.step = "grants" BY <3>1, <3>2, <3>4
    <3> HIDE DEF j
    <3> QED BY ONLY <3>2, <3>3, <3>5
  <2> QED BY <2>1, <2>2, <2>3, <2>4
<1>8. job' \in [Revokers -> Job] /\ job'[r] = j /\ \A q \in Revokers \ {r} : job'[q] = job[q]
  BY <1>1, <1>7 DEF TypeOK
<1>9. TypeOK' BY <1>1, <1>4, <1>5, <1>6, <1>8 DEF TypeOK
<1>10. JobBelow'
  <2>1. \A q \in Revokers : job[q].gen \in Nat BY <1>1 DEF TypeOK, Job
  <2>2. facts'["session"] >= facts["session"] /\ facts["session"] \in Nat /\ facts'["session"] \in Nat
    BY <1>2, <1>4 DEF Facts
  <2> QED BY <1>1, <1>7, <1>8, <2>1, <2>2 DEF JobBelow
<1>11. facts'["profile"] = facts["profile"] /\ facts'["control"] = facts["control"]
  BY <1>3, <1>4 DEF Facts
<1> QED BY <1>4, <1>5, <1>9, <1>10, <1>11, FactPreserves

\* The sweep of the grants of a generation that has passed.
LEMMA SweepStep ==
  ASSUME AuthorityInv, NEW r \in Revokers, SweepGrants(r)
  PROVE  AuthorityInv'
<1> USE DEF factVars, editing
<1>1. TypeOK /\ JobBelow BY DEF AuthorityInv
<1>2. facts["authority"] \in Nat /\ facts["session"] \in Nat /\ job[r] \in Job /\ job[r].gen \in Nat
  BY <1>1 DEF TypeOK, Facts, Job
<1> DEFINE G == IF job[r].kind = "session"
                THEN {g \in Grants : grant[g].bound["session"] = job[r].gen} ELSE Grants
           N == IF job[r].kind = "user" THEN Below("authority", facts["authority"] - 1)
                ELSE IF job[r].kind = "session" THEN {<<"session", job[r].gen>>}
                ELSE Below("session", job[r].gen)
<1>3. InvalidateGrants(G) /\ fenced' = fenced \union N
  BY DEF SweepGrants
<1>4. /\ grant' \in [Grants -> GrantRow]
      /\ \A g \in Grants :
           /\ IsIssued(g)' <=> IsIssued(g)
           /\ grant'[g].bound = grant[g].bound
           /\ grant'[g].status = "ACTIVE" => grant[g].status = "ACTIVE" /\ g \notin G
  BY <1>1, <1>3, InvalidateGrantsFacts
<1>5. job[r].step = "grants" /\ (job[r].kind # "user" => job[r].gen < facts["session"])
  BY <1>1 DEF SweepGrants, JobBelow
<1>6. ASSUME NEW f \in {"authority", "session"}, NEW n \in Nat, <<f, n>> \in N
      PROVE  n < facts[f] /\ \A g \in Grants : grant[g].bound[f] = n => g \in G
  <2>1. CASE job[r].kind = "user"
    <3>1. f = "authority" /\ n \in 0 .. (facts["authority"] - 1) BY <1>6, <2>1 DEF Below
    <3> QED BY <1>2, <2>1, <3>1
  <2>2. CASE job[r].kind = "session"
    <3>1. f = "session" /\ n = job[r].gen BY <1>6, <2>2
    <3> QED BY <1>5, <2>2, <3>1
  <2>3. CASE job[r].kind \notin {"user", "session"}
    <3>1. f = "session" /\ n \in 0 .. job[r].gen BY <1>6, <2>3 DEF Below
    <3> QED BY <1>2, <1>5, <2>3, <3>1
  <2> QED BY <2>1, <2>2, <2>3
<1>7. N \subseteq {"authority", "session"} \X Nat
  <2>1. CASE job[r].kind = "user" BY <1>2, <2>1 DEF Below
  <2>2. CASE job[r].kind # "user" BY <1>2, <2>2 DEF Below
  <2> QED BY <2>1, <2>2
<1>8. fenced' \subseteq {"authority", "session"} \X Nat BY <1>1, <1>3, <1>7 DEF TypeOK
<1>9. PICK j \in Job : job' = [job EXCEPT ![r] = j] /\ j.step \in {"confs", "idle"}
  <2>1. CASE job' = [job EXCEPT ![r] = NoJob]
    <3>1. NoJob \in Job /\ NoJob.step = "idle" BY DEF Job, NoJob
    <3> QED BY <2>1, <3>1
  <2>2. CASE job' = [job EXCEPT ![r].step = "confs"]
    <3> DEFINE j == [job[r] EXCEPT !.step = "confs"]
    <3>1. j \in Job /\ j.step = "confs" BY <1>2 DEF Job
    <3>2. job' = [job EXCEPT ![r] = j] BY <2>2
    <3> HIDE DEF j
    <3> QED BY ONLY <3>1, <3>2
  <2> QED BY <2>1, <2>2 DEF SweepGrants
<1>10. job' \in [Revokers -> Job] /\ job'[r] = j /\ \A q \in Revokers \ {r} : job'[q] = job[q]
  BY <1>1, <1>9 DEF TypeOK
<1>11. UNCHANGED <<factVars, conf, intent, trade, order, calls, pc, my, changes>> BY DEF SweepGrants
<1> HIDE DEF G, N
<1>12. TypeOK' BY <1>1, <1>4, <1>8, <1>10, <1>11 DEF TypeOK
<1>13. JobBelow' BY <1>1, <1>9, <1>10, <1>11 DEF JobBelow
<1>14. \A f \in {"authority", "session"}, n \in Nat :
         <<f, n>> \in fenced' =>
             \/ <<f, n>> \in fenced
             \/ /\ n < facts'[f]
                /\ \A g \in Grants : grant[g].bound[f] = n => grant'[g].status # "ACTIVE"
  <2> SUFFICES ASSUME NEW f \in {"authority", "session"}, NEW n \in Nat, <<f, n>> \in fenced',
                      <<f, n>> \notin fenced
               PROVE  /\ n < facts'[f]
                      /\ \A g \in Grants : grant[g].bound[f] = n => grant'[g].status # "ACTIVE"
    OBVIOUS
  <2>1. <<f, n>> \in N BY <1>3
  <2>2. n < facts[f] /\ \A g \in Grants : grant[g].bound[f] = n => g \in G BY <1>6, <2>1
  <2> QED BY <1>4, <1>11, <2>2
<1>15. \A f \in Facts : facts'[f] >= facts[f] BY <1>1, <1>11 DEF TypeOK
<1>16. ProfileStep BY <1>11, ProfileStays
<1> QED BY <1>4, <1>11, <1>12, <1>13, <1>14, <1>15, <1>16, ChangePreserves

\* Expiry of a grant, a confirmation or an intent.
LEMMA TimeSteps ==
  ASSUME AuthorityInv,
         \/ \E g \in Grants : GrantLapses(g)
         \/ \E c \in Confs : ConfLapses(c) \/ ExpireConfirmation(c)
         \/ \E s \in Signals : ExpireIntent(s)
  PROVE  AuthorityInv'
<1> USE DEF factVars, editing
<1>1. TypeOK /\ JobBelow BY DEF AuthorityInv
<1>2. ASSUME grant' \in [Grants -> GrantRow], conf' \in [Confs -> ConfRow],
             intent' \in [Signals -> IntentStatus],
             \A g \in Grants : /\ grant'[g].status = grant[g].status
                               /\ grant'[g].bound = grant[g].bound,
             UNCHANGED <<factVars, trade, order, calls, pc, my, job, fenced, changes>>
      PROVE  AuthorityInv'
  <2>1. TypeOK' BY <1>1, <1>2 DEF TypeOK
  <2>2. JobBelow' BY <1>1, <1>2 DEF JobBelow
  <2>3. \A f \in Facts : facts'[f] >= facts[f] BY <1>1, <1>2 DEF TypeOK
  <2>4. ProfileStep BY <1>2, ProfileStays
  <2> QED BY <1>2, <2>1, <2>2, <2>3, <2>4, ChangePreserves DEF IsIssued
<1>3. grant \in [Grants -> GrantRow] /\ conf \in [Confs -> ConfRow] /\ intent \in [Signals -> IntentStatus]
  BY <1>1 DEF TypeOK
<1>4. ASSUME NEW g \in Grants, GrantLapses(g) PROVE AuthorityInv'
  <2> DEFINE row == [grant[g] EXCEPT !.lapsed = TRUE]
  <2>1. row \in GrantRow /\ row.status = grant[g].status /\ row.bound = grant[g].bound
    BY <1>3 DEF GrantRow
  <2>2. grant' = [grant EXCEPT ![g] = row] BY <1>4 DEF GrantLapses
  <2> HIDE DEF row
  <2>3. grant' \in [Grants -> GrantRow] /\ \A h \in Grants : /\ grant'[h].status = grant[h].status
                                                             /\ grant'[h].bound = grant[h].bound
    BY <1>3, <2>1, <2>2
  <2> QED BY <1>2, <1>3, <1>4, <2>3 DEF GrantLapses
<1>5. ASSUME NEW c \in Confs, ConfLapses(c) \/ ExpireConfirmation(c) PROVE AuthorityInv'
  <2>1. [conf[c] EXCEPT !.lapsed = TRUE] \in ConfRow /\ [conf[c] EXCEPT !.status = "EXPIRED"] \in ConfRow
    BY <1>3 DEF ConfRow
  <2>2. conf' \in [Confs -> ConfRow] BY <1>3, <1>5, <2>1 DEF ConfLapses, ExpireConfirmation
  <2> QED BY <1>2, <1>3, <1>5, <2>2 DEF ConfLapses, ExpireConfirmation
<1>6. ASSUME NEW s \in Signals, ExpireIntent(s) PROVE AuthorityInv'
  <2>1. intent' \in [Signals -> IntentStatus]
    BY <1>1, <1>6, MarkIntentType DEF ExpireIntent, SignalOrNone
  <2> QED BY <1>2, <1>3, <1>6, <2>1 DEF ExpireIntent
<1> QED BY <1>4, <1>5, <1>6

-----------------------------------------------------------------------------
(* The theorems.                                                            *)

\* Every step preserves the invariant.
LEMMA NextAuthority == AuthorityInv /\ [Next]_vars => AuthorityInv'
<1> SUFFICES ASSUME AuthorityInv, [Next]_vars PROVE AuthorityInv'
  OBVIOUS
<1>1. ASSUME NEW d \in Dispatches,
             \/ \E s \in Signals : Deliver(d, s)
             \/ \E c \in Confs : Confirm(d, c)
             \/ DispatchStep(d) \/ Failure(d)
      PROVE  AuthorityInv'
  <2>1. CASE \/ FindNone(d) \/ AwaitUser(d) \/ Preflight(d) \/ Abandon(d) \/ Authorize(d)
             \/ Permit(d) \/ MarketSafe(d) \/ ReverifyChain(d) \/ Unreadable(d) \/ CommitLost(d)
             \/ Crash(d)
    <3>1. UNCHANGED <<factVars, rows, my, job, fenced, changes>>
      BY <2>1 DEF FindNone, AwaitUser, Preflight, Abandon, Authorize, Permit, MarketSafe,
                  ReverifyChain, ReverifyAuthority, ReverifySession, Reverify, Unreadable,
                  CommitLost, Crash
    <3> QED BY <2>1, <3>1, ReadingSteps
  <2>2. CASE \/ Refuse(d) \/ IssuanceFails(d) \/ DuplicateTrade(d) \/ MarkExecuted(d)
             \/ Reserve(d) \/ Submit(d) \/ MarketUnsafe(d) \/ Send(d)
             \/ RejectOrder(d) \/ RejectTrade(d) \/ StoreError(d)
    BY <2>2, WritingSteps
  <2>3. CASE \/ \E s \in Signals : Deliver(d, s)
             \/ \E c \in Confs : Confirm(d, c)
             \/ Evaluate(d) \/ Bind(d) \/ Reuse(d) \/ FindOther(d)
    BY <2>3, LocalSteps
  <2>4. CASE Supersede(d) \/ RevokeSuperseded(d) \/ InsertLost(d) BY <2>4, LoopSteps
  <2>5. CASE Insert(d) BY <2>5, InsertStep
  <2>6. CASE CreateConfirmation(d) \/ Rebind(d) BY <2>6, ConfirmationSteps
  <2>7. CASE Commit(d) \/ CommitAckLost(d) BY <2>7, CommitSteps
  <2> QED BY <1>1, <2>1, <2>2, <2>3, <2>4, <2>5, <2>6, <2>7 DEF DispatchStep, Failure
<1>2. CASE Environment
  <2>1. CASE Governance \/ \E on \in BOOLEAN : KillSwitch(on) BY <2>1, AtomicSteps
  <2>2. CASE \/ \E f \in {"policy", "catalog"} : SharedAdvance(f)
             \/ \E on \in BOOLEAN : SetControl(on)
             \/ ControlExpires \/ Reconnect
    BY <2>2, SwitchSteps
  <2>3. ASSUME NEW r \in Revokers, SweepGrants(r) PROVE AuthorityInv' BY <2>3, SweepStep
  <2>4. ASSUME NEW r \in Revokers,
               \/ BrokerDown(r) \/ RotateCredential(r)
               \/ \E mode \in Modes : ChangeMode(r, mode)
               \/ SuspendForRiskLimit(r) \/ Resume(r) \/ EndSession(r)
               \/ BumpAuthority(r) \/ SweepConfs(r) \/ JobFails(r)
        PROVE  AuthorityInv'
    <3>1. sessionMode \in Modes BY DEF AuthorityInv, TypeOK
    <3>2. \/ BrokerDown(r) \/ RotateCredential(r) \/ BumpAuthority(r)
          \/ \E status \in {"ACTIVE", "SUSPENDED_RISK_LIMIT", "ENDED"}, mode \in Modes,
                kind \in {"session", "suspend"} : SessionChange(r, status, mode, kind)
          \/ SweepConfs(r) \/ JobFails(r)
      BY <2>4, <3>1 DEF ChangeMode, SuspendForRiskLimit, Resume, EndSession
    <3> QED BY <3>2, RevokerSteps
  <2>5. CASE \/ \E g \in Grants : GrantLapses(g)
             \/ \E c \in Confs : ConfLapses(c) \/ ExpireConfirmation(c)
             \/ \E s \in Signals : ExpireIntent(s)
    BY <2>5, TimeSteps
  <2>6. ASSUME NEW e \in Editors,
               \/ LoadProfile(e) \/ SaveDisplayEdit(e)
               \/ \E on \in BOOLEAN : SaveProfile(e, on)
        PROVE  AuthorityInv'
    BY <2>6, LoadStep, SaveSteps
  <2> QED BY <1>2, <2>1, <2>2, <2>3, <2>4, <2>5, <2>6 DEF Environment
<1>3. CASE UNCHANGED vars
  <2>1. TypeOK /\ JobBelow BY DEF AuthorityInv
  <2>2. UNCHANGED <<factVars, rows, pc, my, job, fenced, changes>> BY <1>3 DEF vars
  <2>3. TypeOK' /\ JobBelow' BY <2>1, <2>2 DEF TypeOK, JobBelow, factVars, editing, rows
  <2>4. \A f \in Facts : facts'[f] >= facts[f] BY <2>1, <2>2 DEF TypeOK, factVars, editing
  <2> QED BY <2>2, <2>3, <2>4, FactPreserves DEF factVars, editing, rows
<1> QED BY <1>1, <1>2, <1>3 DEF Next

\* The conjunction of the types and of what grants, dispatches and revokers may
\* rely on holds in every reachable state.
THEOREM AuthorityInvariant == Spec => []AuthorityInv
BY InitAuthority, NextAuthority, PTL DEF Spec

\* Every variable keeps its type: the loop of issueGrant never exceeds three
\* iterations, and every row keeps a status of its column.
THEOREM TypeCorrect == Spec => []TypeOK
<1>1. AuthorityInv => TypeOK BY DEF AuthorityInv
<1> QED BY <1>1, AuthorityInvariant, PTL

\* An ACTIVE grant becomes CONSUMED only by the commitment of its dispatch.
LEMMA OnlyCommitConsumes ==
  ASSUME TypeOK, Next, NEW g \in Grants,
         grant[g].status = "ACTIVE", grant'[g].status = "CONSUMED"
  PROVE  \E d \in Dispatches : (Commit(d) \/ CommitAckLost(d)) /\ my[d].grant = g
<1>1. grant' # grant OBVIOUS
<1>2. \A G : ~InvalidateGrants(G)
  <2> SUFFICES ASSUME NEW G, InvalidateGrants(G) PROVE FALSE
    OBVIOUS
  <2>1. grant[g] \in GrantRow BY DEF TypeOK
  <2>2. grant'[g] = [grant[g] EXCEPT !.status = "INVALIDATED"] \/ grant'[g] = grant[g]
    BY DEF InvalidateGrants
  <2> QED BY <2>1, <2>2 DEF GrantRow
<1>3. ~Environment
  <2>1. \A h \in Grants : ~GrantLapses(h)
    <3> SUFFICES ASSUME NEW h \in Grants, GrantLapses(h) PROVE FALSE
      OBVIOUS
    <3>1. grant[h] \in GrantRow /\ grant[g] \in GrantRow BY DEF TypeOK
    <3> QED BY <3>1 DEF GrantLapses, TypeOK, GrantRow
  <2>2. ~Governance /\ \A on \in BOOLEAN : ~KillSwitch(on)
    BY <1>2 DEF Governance, KillSwitch, AtomicChange, RevokeAuthority
  <2>5. \A e \in Editors : /\ ~LoadProfile(e) /\ ~SaveDisplayEdit(e)
                           /\ \A on \in BOOLEAN : ~SaveProfile(e, on)
    BY <1>1, <1>2 DEF LoadProfile, SaveDisplayEdit, SaveProfile, RevokeAuthority, rows
  <2>3. \A r \in Revokers : ~SweepGrants(r) BY <1>2 DEF SweepGrants
  <2>4. \A r \in Revokers : \A status, mode, kind : ~SessionChange(r, status, mode, kind)
    BY <1>1 DEF SessionChange, rows
  <2> QED BY <1>1, <2>1, <2>2, <2>3, <2>4, <2>5
          DEF Environment, SharedAdvance, SetControl, ControlExpires, Reconnect, BrokerDown,
              RotateCredential, ChangeMode, SuspendForRiskLimit, Resume, EndSession,
              BumpAuthority, SweepConfs, JobFails, ConfLapses, ExpireConfirmation,
              ExpireIntent, rows
<1>4. PICK d \in Dispatches : \/ \E s \in Signals : Deliver(d, s)
                              \/ \E c \in Confs : Confirm(d, c)
                              \/ DispatchStep(d) \/ Failure(d)
  BY <1>3 DEF Next
<1>5. ~Insert(d)
  <2> SUFFICES ASSUME Insert(d) PROVE FALSE
    OBVIOUS
  <2>1. PICK h \in Grants : /\ NextGrant(h)
                            /\ \E row : row.status = "ACTIVE" /\ grant' = [grant EXCEPT ![h] = row]
    BY DEF Insert
  <2> QED BY <2>1 DEF TypeOK
<1>6. ~Supersede(d) BY <1>2 DEF Supersede
<1>7. Commit(d) \/ CommitAckLost(d)
  BY <1>1, <1>4, <1>5, <1>6
     DEF DispatchStep, Failure, Deliver, Confirm, Evaluate, Bind, Refuse, Reuse, FindOther,
         FindNone, RevokeSuperseded, InsertLost, CreateConfirmation, Rebind, AwaitUser,
         Preflight, Abandon, Authorize, Permit, Reserve, DuplicateTrade, MarkExecuted, Submit,
         MarketSafe, MarketUnsafe, ReverifyChain, ReverifyAuthority, ReverifySession, Reverify,
         CommitLost, Send, RejectOrder, RejectTrade, IssuanceFails, Unreadable, StoreError,
         Crash, rows
<1>8. my[d].grant = g
  <2>1. grant' = [grant EXCEPT ![my[d].grant].status = "CONSUMED"]
    BY <1>7 DEF Commit, CommitAckLost, CommitRows
  <2> QED BY <2>1 DEF TypeOK
<1> QED BY <1>7, <1>8

\* No grant of a swept generation is ever consumed, for any number of
\* dispatches, changes and half-finished revocations.
THEOREM RevocationFences == Spec => RevocationFencesCommitment
<1>1. AuthorityInv /\ [Next]_vars =>
        [\A g \in Grants :
            grant[g].status = "ACTIVE" /\ grant'[g].status = "CONSUMED" =>
                \A f \in {"authority", "session"} : <<f, grant[g].bound[f]>> \notin fenced]_vars
  <2> SUFFICES ASSUME AuthorityInv, Next, NEW g \in Grants,
                      grant[g].status = "ACTIVE", grant'[g].status = "CONSUMED"
               PROVE  \A f \in {"authority", "session"} : <<f, grant[g].bound[f]>> \notin fenced
    OBVIOUS
  <2>1. \E d \in Dispatches : (Commit(d) \/ CommitAckLost(d)) /\ my[d].grant = g
    BY OnlyCommitConsumes DEF AuthorityInv
  <2>2. PICK d \in Dispatches : pc[d] = "commit" /\ my[d].grant = g
    BY <2>1 DEF Commit, CommitAckLost
  <2>3. Unfenced(d)
    BY <2>2 DEF AuthorityInv, DispatchSound, None
  <2> QED BY <2>2, <2>3 DEF Unfenced, PastAuthority, PastSession
<1> QED BY <1>1, AuthorityInvariant, PTL DEF Spec, RevocationFencesCommitment

\* A dispatch leaves a read of the re-verification for the next one only if
\* that read compared equal.
LEMMA ChainStep ==
  ASSUME TypeOK, [Next]_vars, NEW d \in Dispatches,
         \/ pc[d] = "cControl" /\ pc'[d] = "cProfile"
         \/ pc[d] = "cProfile" /\ pc'[d] = "cSession"
  PROVE  \/ pc[d] = "cControl" /\ Same(d, "control")
         \/ pc[d] = "cProfile" /\ Same(d, "profile")
<1>1. pc' # pc OBVIOUS
<1>2. ~Environment
  <2>1. \A r \in Revokers : \A status, mode, kind : ~SessionChange(r, status, mode, kind)
    BY <1>1 DEF SessionChange
  <2> QED BY <1>1, <2>1
          DEF Environment, Governance, KillSwitch, LoadProfile, SaveDisplayEdit, SaveProfile,
              SharedAdvance, SetControl, ControlExpires,
              Reconnect, BrokerDown, RotateCredential, ChangeMode, SuspendForRiskLimit, Resume,
              EndSession, BumpAuthority, SweepGrants, SweepConfs, JobFails, GrantLapses,
              ConfLapses, ExpireConfirmation, ExpireIntent
<1>3. PICK e \in Dispatches : \/ \E s \in Signals : Deliver(e, s)
                              \/ \E c \in Confs : Confirm(e, c)
                              \/ DispatchStep(e) \/ Failure(e)
  BY <1>1, <1>2 DEF Next, vars
<1>4. \E to \in Stages : Goto(e, to)
  BY <1>3
     DEF DispatchStep, Failure, Deliver, Confirm, Evaluate, Bind, Refuse, Reuse, FindOther,
         FindNone, Supersede, RevokeSuperseded, Insert, InsertLost, CreateConfirmation, Rebind,
         AwaitUser, Preflight, Abandon, Authorize, Permit, Reserve, DuplicateTrade,
         MarkExecuted, Submit, MarketSafe, MarketUnsafe, ReverifyChain, ReverifyAuthority,
         ReverifySession, Reverify, Commit, CommitAckLost, CommitLost, Send, RejectOrder,
         RejectTrade, IssuanceFails, Unreadable, StoreError, Crash, NextAttempt, NotApproved,
         Stages
<1>5. e = d BY <1>4 DEF Goto, TypeOK
<1>6. ReverifyChain(d) \/ Unreadable(d) \/ StoreError(d) \/ Crash(d)
  BY <1>3, <1>5
     DEF DispatchStep, Failure, Deliver, Confirm, Evaluate, Bind, Refuse, Reuse, FindOther,
         FindNone, Supersede, RevokeSuperseded, Insert, InsertLost, CreateConfirmation, Rebind,
         AwaitUser, Preflight, Abandon, Authorize, Permit, Reserve, DuplicateTrade,
         MarkExecuted, Submit, MarketSafe, MarketUnsafe, Commit, CommitAckLost, CommitLost,
         Send, RejectOrder, RejectTrade, IssuanceFails
<1> QED BY <1>6 DEF ReverifyChain, ReverifyAuthority, ReverifySession, Reverify, Unreadable,
                    StoreError, Crash, Goto, TypeOK

\* When the control revision still compares equal, no emergency control is in
\* force, for any number of activations and deactivations.
THEOREM ControlStops == Spec => ControlStopsCommitment
<1>1. AuthorityInv /\ [Next]_vars =>
        [\A d \in Dispatches : pc[d] = "cControl" /\ pc'[d] = "cProfile" => ~controlled]_vars
  <2> SUFFICES ASSUME AuthorityInv, [Next]_vars, NEW d \in Dispatches,
                      pc[d] = "cControl", pc'[d] = "cProfile"
               PROVE  ~controlled
    OBVIOUS
  <2>1. Same(d, "control") BY ChainStep DEF AuthorityInv
  <2>2. PermissionSound(d) BY DEF AuthorityInv, DispatchSound, HoldsGrant, Holding, Stages
  <2> QED BY <2>1, <2>2 DEF PermissionSound, Same, Permitted
<1> QED BY <1>1, AuthorityInvariant, PTL DEF Spec, ControlStopsCommitment

\* When the profile revision still compares equal, the kill switch is off or an
\* outdated profile was written back before, for any number of toggles and edits.
THEOREM KillSwitchStops == Spec => KillSwitchStopsCommitment
<1>1. AuthorityInv /\ [Next]_vars =>
        [\A d \in Dispatches : pc[d] = "cProfile" /\ pc'[d] = "cSession" => ~killed \/ overwritten]_vars
  <2> SUFFICES ASSUME AuthorityInv, [Next]_vars, NEW d \in Dispatches,
                      pc[d] = "cProfile", pc'[d] = "cSession"
               PROVE  ~killed \/ overwritten
    OBVIOUS
  <2>1. Same(d, "profile") BY ChainStep DEF AuthorityInv
  <2>2. my[d].grant \in Grants /\ IsIssued(my[d].grant)
    BY DEF AuthorityInv, TypeOK, Locals, DispatchSound, HoldsGrant, Holding, Stages
  <2>3. GrantSound(my[d].grant) BY <2>2 DEF AuthorityInv
  <2> QED BY <2>1, <2>2, <2>3 DEF GrantSound, RevisionSound, Same
<1> QED BY <1>1, AuthorityInvariant, PTL DEF Spec, KillSwitchStopsCommitment
-----------------------------------------------------------------------------
(* The trade slot.                                                          *)

\* From the slot to the provider call, or to the verdict that there is none.
AfterSlot == {"reserved", "submit", "safety", "cGrant", "cAuthority", "cPolicy", "cCatalog",
              "cControl", "cProfile", "cSession", "cCredential", "commit", "committed",
              "blocked", "rejectTrade"}

\* A proposal that exists, and a dispatch that has started, name a signal.
ConfNamed(c) == conf[c].status # "free" => conf[c].signal \in Signals
DispatchNamed(d) == pc[d] # "idle" => SignalOf(d) \in Signals

\* A dispatch past the slot finds the trade as it reserved it, and unsent.
SlotOpen(d) == pc[d] \in AfterSlot => trade[SignalOf(d)] = "PENDING" /\ calls[SignalOf(d)] = 0

\* The slot of a signal is in the hands of one dispatch.
OneInSlot ==
    \A d, e \in Dispatches :
        pc[d] \in AfterSlot /\ pc[e] \in AfterSlot /\ SignalOf(d) = SignalOf(e) => d = e

\* A trade that does not exist or was rejected has not been sent.
NothingSent == \A s \in Signals : trade[s] \in {"none", "REJECTED"} => calls[s] = 0

SlotInv ==
    /\ \A c \in Confs : ConfNamed(c)
    /\ \A d \in Dispatches : DispatchNamed(d)
    /\ \A d \in Dispatches : SlotOpen(d)
    /\ OneInSlot
    /\ NothingSent

\* A step that leaves the slot's rows alone keeps the invariant when it lets no
\* dispatch pass the slot.
LEMMA SlotKept ==
  ASSUME SlotInv, UNCHANGED <<trade, calls>>,
         \A c \in Confs : ConfNamed(c)',
         \A e \in Dispatches : DispatchNamed(e)',
         \A e \in Dispatches :
            pc'[e] \in AfterSlot => pc[e] \in AfterSlot /\ my'[e].signal = my[e].signal
  PROVE  SlotInv'
<1>1. (\A e \in Dispatches : SlotOpen(e))' BY DEF SlotInv, SlotOpen, SignalOf
<1>2. OneInSlot' BY DEF SlotInv, OneInSlot, SignalOf
<1>3. NothingSent' BY DEF SlotInv, NothingSent
<1> QED BY <1>1, <1>2, <1>3 DEF SlotInv

\* The same for a step of one dispatch that keeps its signal.
LEMMA SlotMove ==
  ASSUME SlotInv, NEW d \in Dispatches, UNCHANGED <<trade, calls>>,
         \A c \in Confs : ConfNamed(c)',
         \A e \in Dispatches \ {d} : pc'[e] = pc[e] /\ my'[e] = my[e],
         pc[d] # "idle", my'[d].signal = my[d].signal,
         pc'[d] \in AfterSlot => pc[d] \in AfterSlot
  PROVE  SlotInv'
<1>1. \A e \in Dispatches : DispatchNamed(e) BY DEF SlotInv
<1>2. \A e \in Dispatches : DispatchNamed(e)' BY <1>1 DEF DispatchNamed, SignalOf
<1> QED BY <1>2, SlotKept

\* Revoking changes nothing but the status of PENDING proposals.
LEMMA RevokeConfsRows ==
  ASSUME TypeOK, NEW C, RevokeConfs(C), NEW c \in Confs
  PROVE  /\ conf'[c].status = "free" <=> conf[c].status = "free"
         /\ conf'[c].status = "CONSUMED" <=> conf[c].status = "CONSUMED"
         /\ conf'[c].signal = conf[c].signal
         /\ conf'[c].grant = conf[c].grant
<1>1. conf[c] \in ConfRow BY DEF TypeOK
<1> DEFINE row == [conf[c] EXCEPT !.status = "REVOKED"]
<1>2. row.status = "REVOKED" /\ row.signal = conf[c].signal /\ row.grant = conf[c].grant
  BY <1>1 DEF ConfRow
<1>3. conf'[c] = IF c \in C /\ conf[c].status = "PENDING" THEN row ELSE conf[c]
  BY DEF RevokeConfs
<1> HIDE DEF row
<1> QED BY <1>2, <1>3

\* Nor does the passing of time.
LEMMA TimedConfRows ==
  ASSUME TypeOK, NEW x \in Confs, ConfLapses(x) \/ ExpireConfirmation(x), NEW c \in Confs
  PROVE  /\ conf'[c].status = "free" <=> conf[c].status = "free"
         /\ conf'[c].status = "CONSUMED" <=> conf[c].status = "CONSUMED"
         /\ conf'[c].signal = conf[c].signal
         /\ conf'[c].grant = conf[c].grant
<1>1. conf[x] \in ConfRow /\ conf[x].status = "PENDING"
  BY DEF TypeOK, ConfLapses, ExpireConfirmation, ConfUsable
<1>2. CASE ConfLapses(x)
  <2> DEFINE row == [conf[x] EXCEPT !.lapsed = TRUE]
  <2>1. row.status = "PENDING" /\ row.signal = conf[x].signal /\ row.grant = conf[x].grant
    BY <1>1 DEF ConfRow
  <2>2. conf' = [conf EXCEPT ![x] = row] BY <1>2 DEF ConfLapses
  <2> HIDE DEF row
  <2> QED BY <1>1, <2>1, <2>2 DEF TypeOK
<1>3. CASE ExpireConfirmation(x)
  <2> DEFINE row == [conf[x] EXCEPT !.status = "EXPIRED"]
  <2>1. row.status = "EXPIRED" /\ row.signal = conf[x].signal /\ row.grant = conf[x].grant
    BY <1>1 DEF ConfRow
  <2>2. conf' = [conf EXCEPT ![x] = row] BY <1>3 DEF ExpireConfirmation
  <2> HIDE DEF row
  <2> QED BY <1>1, <2>1, <2>2 DEF TypeOK
<1> QED BY <1>2, <1>3

\* Statements that keep a dispatch's locals, the proposals and the slot.
LEMMA SlotReading ==
  ASSUME TypeOK, SlotInv, NEW d \in Dispatches,
         \/ Refuse(d) \/ IssuanceFails(d) \/ FindNone(d) \/ AwaitUser(d) \/ Preflight(d)
         \/ Abandon(d) \/ Authorize(d) \/ Permit(d) \/ DuplicateTrade(d) \/ MarkExecuted(d)
         \/ Submit(d) \/ MarketSafe(d) \/ MarketUnsafe(d) \/ ReverifyChain(d) \/ Unreadable(d)
         \/ CommitLost(d) \/ RejectOrder(d) \/ Crash(d)
  PROVE  SlotInv'
<1> USE DEF rows
<1>1. ASSUME NEW to, Goto(d, to), UNCHANGED <<conf, trade, calls, my>>,
             pc[d] # "idle", to \in AfterSlot => pc[d] \in AfterSlot
      PROVE  SlotInv'
  <2>1. pc'[d] = to /\ \A e \in Dispatches \ {d} : pc'[e] = pc[e] BY <1>1 DEF Goto, TypeOK
  <2>2. \A c \in Confs : ConfNamed(c)' BY <1>1 DEF SlotInv, ConfNamed
  <2> QED BY <1>1, <2>1, <2>2, SlotMove
<1> USE DEF AfterSlot
<1>2. CASE Refuse(d) BY <1>1, <1>2 DEF Refuse, NotApproved
<1>3. CASE IssuanceFails(d) BY <1>1, <1>3 DEF IssuanceFails, NotApproved
<1>4. CASE FindNone(d) BY <1>1, <1>4 DEF FindNone
<1>5. CASE AwaitUser(d) \/ Preflight(d) BY <1>1, <1>5 DEF AwaitUser, Preflight
<1>6. CASE Abandon(d) BY <1>1, <1>6 DEF Abandon
<1>7. CASE Authorize(d) BY <1>1, <1>7 DEF Authorize
<1>8. CASE Permit(d) BY <1>1, <1>8 DEF Permit
<1>9. CASE DuplicateTrade(d) BY <1>1, <1>9 DEF DuplicateTrade
<1>10. CASE MarkExecuted(d) BY <1>1, <1>10 DEF MarkExecuted
<1>11. CASE Submit(d) BY <1>1, <1>11 DEF Submit
<1>12. CASE MarketSafe(d) BY <1>1, <1>12 DEF MarketSafe
<1>13. CASE MarketUnsafe(d) BY <1>1, <1>13 DEF MarketUnsafe
<1>14. CASE Unreadable(d) BY <1>1, <1>14 DEF Unreadable
<1>15. CASE CommitLost(d) BY <1>1, <1>15 DEF CommitLost
<1>16. CASE RejectOrder(d) BY <1>1, <1>16 DEF RejectOrder
<1>17. CASE Crash(d) BY <1>1, <1>17 DEF Crash
<1>18. CASE ReverifyChain(d)
  <2>1. PICK at, ok, next : Reverify(d, at, ok, next) /\ at \in AfterSlot \ {"idle"}
    BY <1>18 DEF ReverifyChain, ReverifyAuthority, ReverifySession
  <2> QED BY <1>1, <2>1 DEF Reverify
<1> QED BY <1>2, <1>3, <1>4, <1>5, <1>6, <1>7, <1>8, <1>9, <1>10, <1>11, <1>12, <1>13, <1>14,
           <1>15, <1>16, <1>17, <1>18

\* What the evaluation and the convergence loop write to a dispatch's locals.
LEMMA LoopLocals ==
  ASSUME TypeOK, NEW d \in Dispatches,
         \/ Evaluate(d) \/ Bind(d) \/ Reuse(d) \/ FindOther(d) \/ Insert(d) \/ NextAttempt(d)
  PROVE  /\ \A e \in Dispatches \ {d} : pc'[e] = pc[e] /\ my'[e] = my[e]
         /\ my'[d].signal = my[d].signal
         /\ my'[d].conf = my[d].conf
         /\ pc'[d] \in {"bind", "find", "confirmation", "issued", "supersede", "done"}
<1>1. my[d] \in Locals /\ my \in [Dispatches -> Locals] /\ pc \in [Dispatches -> Stages]
  BY DEF TypeOK
<1>2. ASSUME NEW m, my' = [my EXCEPT ![d] = m], m.signal = my[d].signal, m.conf = my[d].conf,
             NEW to \in {"bind", "find", "confirmation", "issued", "supersede", "done"},
             Goto(d, to)
      PROVE  /\ \A e \in Dispatches \ {d} : pc'[e] = pc[e] /\ my'[e] = my[e]
             /\ my'[d].signal = my[d].signal
             /\ my'[d].conf = my[d].conf
             /\ pc'[d] \in {"bind", "find", "confirmation", "issued", "supersede", "done"}
  BY <1>1, <1>2 DEF Goto
<1>3. CASE Evaluate(d)
  <2> DEFINE seen == [f \in Facts |->
                        IF f \in {"profile", "session", "credential"} THEN facts[f] ELSE 0]
             m == [my[d] EXCEPT !.mode = sessionMode, !.seen = seen]
  <2>1. my' = [my EXCEPT ![d] = m] BY <1>3 DEF Evaluate
  <2> HIDE DEF seen
  <2>2. m.signal = my[d].signal /\ m.conf = my[d].conf BY <1>1 DEF Locals
  <2> QED BY <1>2, <1>3, <2>1, <2>2 DEF Evaluate
<1>4. CASE Bind(d)
  <2> DEFINE seen == [f \in Facts |->
                        IF f \in {"authority", "policy", "catalog", "control"}
                        THEN facts[f] ELSE my[d].seen[f]]
             m == [my[d] EXCEPT !.attempt = 1, !.seen = seen]
  <2>1. my' = [my EXCEPT ![d] = m] BY <1>4 DEF Bind
  <2> HIDE DEF seen
  <2>2. m.signal = my[d].signal /\ m.conf = my[d].conf BY <1>1 DEF Locals
  <2> QED BY <1>2, <1>4, <2>1, <2>2 DEF Bind
<1>5. CASE Reuse(d) \/ FindOther(d) \/ Insert(d)
  <2>1. PICK g \in Grants : my' = [my EXCEPT ![d].grant = g]
    BY <1>5 DEF Reuse, FindOther, Insert, ActiveFor
  <2> DEFINE m == [my[d] EXCEPT !.grant = g]
  <2>2. my' = [my EXCEPT ![d] = m] BY <2>1
  <2>3. m.signal = my[d].signal /\ m.conf = my[d].conf BY <1>1 DEF Locals
  <2> QED BY <1>2, <1>5, <2>2, <2>3 DEF Reuse, FindOther, Insert
<1>6. CASE NextAttempt(d)
  <2>1. CASE /\ my[d].attempt < 3
             /\ my' = [my EXCEPT ![d].attempt = @ + 1]
             /\ Goto(d, "find")
    <3> DEFINE m == [my[d] EXCEPT !.attempt = my[d].attempt + 1]
    <3>1. my' = [my EXCEPT ![d] = m] BY <2>1
    <3>2. m.signal = my[d].signal /\ m.conf = my[d].conf BY <1>1 DEF Locals
    <3> QED BY <1>2, <2>1, <3>1, <3>2
  <2>2. CASE UNCHANGED my /\ Goto(d, "done") BY <1>1, <2>2 DEF Goto
  <2> QED BY <1>6, <2>1, <2>2 DEF NextAttempt, NotApproved
<1> QED BY <1>3, <1>4, <1>5, <1>6

\* Proposals keep their signals, and a new one takes its dispatch's.
LEMMA ConfsStayNamed ==
  ASSUME TypeOK, SlotInv,
         \/ UNCHANGED conf
         \/ \E C : RevokeConfs(C)
         \/ \E c \in Confs : ConfLapses(c) \/ ExpireConfirmation(c)
         \/ \E d \in Dispatches : \/ CreateConfirmation(d) \/ Rebind(d)
                                  \/ CommitReady(d) /\ CommitRows(d)
  PROVE  \A c \in Confs : ConfNamed(c)'
<1> SUFFICES ASSUME NEW c \in Confs PROVE ConfNamed(c)'
  OBVIOUS
<1>1. ConfNamed(c) /\ conf[c] \in ConfRow /\ conf \in [Confs -> ConfRow] BY DEF SlotInv, TypeOK
<1>2. CASE UNCHANGED conf BY <1>1, <1>2 DEF ConfNamed
<1>3. ASSUME NEW C, RevokeConfs(C) PROVE ConfNamed(c)'
  BY <1>1, <1>3, RevokeConfsRows DEF ConfNamed
<1>4. ASSUME NEW x \in Confs, ConfLapses(x) \/ ExpireConfirmation(x) PROVE ConfNamed(c)'
  BY <1>1, <1>4, TimedConfRows DEF ConfNamed
<1>5. ASSUME NEW d \in Dispatches, CreateConfirmation(d) PROVE ConfNamed(c)'
  <2>1. SignalOf(d) \in Signals BY <1>5 DEF SlotInv, DispatchNamed, CreateConfirmation
  <2> DEFINE row == [status |-> "PENDING", signal |-> SignalOf(d), grant |-> my[d].grant,
                     session |-> grant[my[d].grant].bound["session"], lapsed |-> FALSE]
  <2>2. row.signal = SignalOf(d) OBVIOUS
  <2>3. conf' = conf \/ \E x \in Confs : conf' = [conf EXCEPT ![x] = row]
    BY <1>5 DEF CreateConfirmation
  <2> HIDE DEF row
  <2>4. conf'[c] = conf[c] \/ conf'[c] = row BY <1>1, <2>3
  <2> QED BY <1>1, <2>1, <2>2, <2>4 DEF ConfNamed
<1>6. ASSUME NEW d \in Dispatches, Rebind(d) PROVE ConfNamed(c)'
  <2> DEFINE row == [conf[my[d].conf] EXCEPT !.grant = my[d].grant]
  <2>1. conf' = conf \/ conf' = [conf EXCEPT ![my[d].conf] = row] BY <1>6 DEF Rebind
  <2>2. c = my[d].conf => row.signal = conf[c].signal /\ row.status = conf[c].status
    BY <1>1 DEF ConfRow
  <2> HIDE DEF row
  <2>3. conf'[c] = conf[c] \/ (c = my[d].conf /\ conf'[c] = row) BY <1>1, <2>1
  <2> QED BY <1>1, <2>2, <2>3 DEF ConfNamed
<1>7. ASSUME NEW d \in Dispatches, CommitRows(d), CommitReady(d) PROVE ConfNamed(c)'
  <2> DEFINE row == [conf[my[d].conf] EXCEPT !.status = "CONSUMED"]
  <2>1. conf' = conf \/ (ConfUsable(my[d].conf) /\ conf' = [conf EXCEPT ![my[d].conf] = row])
    BY <1>7 DEF CommitRows, CommitReady
  <2>2. c = my[d].conf => row.signal = conf[c].signal BY <1>1 DEF ConfRow
  <2> HIDE DEF row
  <2>3. \/ conf'[c] = conf[c]
        \/ c = my[d].conf /\ conf'[c] = row /\ conf[c].status = "PENDING"
    BY <1>1, <2>1 DEF ConfUsable
  <2> QED BY <1>1, <2>2, <2>3 DEF ConfNamed
<1> QED BY <1>2, <1>3, <1>4, <1>5, <1>6, <1>7

\* The evaluation, the loop, and the three writers of a proposal.
LEMMA SlotLoop ==
  ASSUME TypeOK, SlotInv, NEW d \in Dispatches,
         \/ Evaluate(d) \/ Bind(d) \/ Reuse(d) \/ FindOther(d) \/ Insert(d)
         \/ Supersede(d) \/ RevokeSuperseded(d) \/ InsertLost(d)
         \/ CreateConfirmation(d) \/ Rebind(d) \/ Commit(d) \/ CommitAckLost(d)
  PROVE  SlotInv'
<1> USE DEF rows
<1>1. UNCHANGED <<trade, calls>> /\ pc[d] # "idle"
  BY DEF Evaluate, Bind, Reuse, FindOther, Insert, Supersede, RevokeSuperseded, InsertLost,
         CreateConfirmation, Rebind, Commit, CommitAckLost
<1>2. \A c \in Confs : ConfNamed(c)'
  BY ConfsStayNamed DEF Evaluate, Bind, Reuse, FindOther, Insert, Supersede, RevokeSuperseded,
                        InsertLost, Commit, CommitAckLost
<1>3. CASE \/ Evaluate(d) \/ Bind(d) \/ Reuse(d) \/ FindOther(d) \/ Insert(d) \/ NextAttempt(d)
  <2>1. /\ \A e \in Dispatches \ {d} : pc'[e] = pc[e] /\ my'[e] = my[e]
        /\ my'[d].signal = my[d].signal
        /\ pc'[d] \in {"bind", "find", "confirmation", "issued", "supersede", "done"}
    BY <1>3, LoopLocals
  <2> QED BY <1>1, <1>2, <2>1, SlotMove DEF AfterSlot
<1>4. ASSUME NEW to, Goto(d, to), UNCHANGED my, to \in AfterSlot => pc[d] \in AfterSlot
      PROVE  SlotInv'
  <2>1. pc'[d] = to /\ \A e \in Dispatches \ {d} : pc'[e] = pc[e] BY <1>4 DEF Goto, TypeOK
  <2> QED BY <1>1, <1>2, <1>4, <2>1, SlotMove
<1>5. CASE Supersede(d) BY <1>3, <1>4, <1>5 DEF Supersede, AfterSlot
<1>6. CASE RevokeSuperseded(d) \/ InsertLost(d) BY <1>3, <1>6 DEF RevokeSuperseded, InsertLost
<1>7. CASE CreateConfirmation(d) \/ Rebind(d)
  BY <1>4, <1>7 DEF CreateConfirmation, Rebind, AfterSlot
<1>8. CASE Commit(d) \/ CommitAckLost(d)
  BY <1>4, <1>8 DEF Commit, CommitAckLost, AfterSlot
<1> QED BY <1>3, <1>5, <1>6, <1>7, <1>8

\* A dispatch starts, for a delivered signal or for a proposal's.
LEMMA SlotStart ==
  ASSUME TypeOK, SlotInv, NEW d \in Dispatches,
         (\E s \in Signals : Deliver(d, s)) \/ (\E c \in Confs : Confirm(d, c))
  PROVE  SlotInv'
<1> USE DEF rows
<1>1. my[d] \in Locals /\ my \in [Dispatches -> Locals] BY DEF TypeOK
<1>2. PICK s, m : s \in Signals /\ my' = [my EXCEPT ![d] = m] /\ m.signal = s
  <2>1. CASE \E s \in Signals : Deliver(d, s)
    <3>1. PICK s \in Signals : my' = [my EXCEPT ![d].signal = s] BY <2>1 DEF Deliver
    <3> DEFINE m == [my[d] EXCEPT !.signal = s]
    <3>2. my' = [my EXCEPT ![d] = m] BY <3>1
    <3>3. m.signal = s BY <1>1 DEF Locals
    <3> QED BY <3>2, <3>3
  <2>2. CASE \E c \in Confs : Confirm(d, c)
    <3>1. PICK c \in Confs : /\ ConfUsable(c)
                             /\ my' = [my EXCEPT ![d].signal = conf[c].signal, ![d].conf = c]
      BY <2>2 DEF Confirm
    <3> DEFINE m == [my[d] EXCEPT !.signal = conf[c].signal, !.conf = c]
    <3>2. my' = [my EXCEPT ![d] = m] BY <3>1
    <3>3. m.signal = conf[c].signal BY <1>1 DEF Locals
    <3>4. conf[c].signal \in Signals BY <3>1 DEF SlotInv, ConfNamed, ConfUsable
    <3> QED BY <3>2, <3>3, <3>4
  <2> QED BY <2>1, <2>2
<1>3. my'[d].signal = s /\ \A e \in Dispatches \ {d} : my'[e] = my[e] BY <1>1, <1>2
<1>4. Goto(d, "evaluate") /\ UNCHANGED <<conf, trade, calls>> BY DEF Deliver, Confirm
<1>5. pc'[d] = "evaluate" /\ \A e \in Dispatches \ {d} : pc'[e] = pc[e]
  BY <1>4 DEF Goto, TypeOK
<1>6. \A c \in Confs : ConfNamed(c)' BY <1>4 DEF SlotInv, ConfNamed
<1>7. \A e \in Dispatches : DispatchNamed(e)'
  <2>1. \A e \in Dispatches : DispatchNamed(e) BY DEF SlotInv
  <2> QED BY <1>2, <1>3, <1>5, <2>1 DEF DispatchNamed, SignalOf
<1>8. \A e \in Dispatches :
         pc'[e] \in AfterSlot => pc[e] \in AfterSlot /\ my'[e].signal = my[e].signal
  BY <1>3, <1>5 DEF AfterSlot
<1> QED BY <1>4, <1>6, <1>7, <1>8, SlotKept

\* The four statements that write the slot.
LEMMA SlotWrites ==
  ASSUME TypeOK, SlotInv, NEW d \in Dispatches,
         Reserve(d) \/ Send(d) \/ RejectTrade(d) \/ StoreError(d)
  PROVE  SlotInv'
<1>1. /\ pc \in [Dispatches -> Stages] /\ trade \in [Signals -> TradeStatus]
      /\ calls \in [Signals -> Nat]
  BY DEF TypeOK
<1>2. pc[d] # "idle" /\ UNCHANGED <<conf, my>> BY DEF Reserve, Send, RejectTrade, StoreError
<1>3. SignalOf(d) \in Signals BY <1>2 DEF SlotInv, DispatchNamed
<1>4. PICK to \in {"reserved", "done"} : Goto(d, to) BY DEF Reserve, Send, RejectTrade, StoreError
<1>5. pc'[d] = to /\ \A e \in Dispatches \ {d} : pc'[e] = pc[e] BY <1>1, <1>4 DEF Goto
<1>6. \A c \in Confs : ConfNamed(c)' BY <1>2 DEF SlotInv, ConfNamed
<1>7. \A e \in Dispatches : DispatchNamed(e)'
  BY <1>2, <1>3, <1>5 DEF SlotInv, DispatchNamed, SignalOf
<1> DEFINE s == SignalOf(d)
<1>8. \A e \in Dispatches : e # d /\ pc[e] \in AfterSlot => SignalOf(e) # s
  <2>1. CASE Reserve(d)
    <3>1. trade[s] = "none" BY <2>1 DEF Reserve
    <3> QED BY <3>1 DEF SlotInv, SlotOpen
  <2>2. CASE Send(d) \/ RejectTrade(d) \/ StoreError(d)
    <3>1. pc[d] \in AfterSlot BY <2>2 DEF Send, RejectTrade, StoreError, AfterSlot
    <3> QED BY <3>1 DEF SlotInv, OneInSlot
  <2> QED BY <2>1, <2>2
<1>9. /\ \A t \in Signals \ {s} : trade'[t] = trade[t] /\ calls'[t] = calls[t]
      /\ calls'[s] = 0 \/ Send(d)
      /\ pc'[d] \in AfterSlot => trade'[s] = "PENDING" /\ calls'[s] = 0
      /\ trade'[s] \in {"none", "REJECTED"} => calls'[s] = 0
  <2>1. CASE Reserve(d)
    <3>1. calls[s] = 0 BY <1>3, <2>1 DEF Reserve, SlotInv, NothingSent
    <3> QED BY <1>1, <1>3, <2>1, <3>1 DEF Reserve
  <2>2. CASE Send(d)
    <3>1. trade[s] = "PENDING" BY <2>2 DEF Send, SlotInv, SlotOpen, AfterSlot
    <3> QED BY <1>1, <1>3, <1>5, <2>2, <3>1 DEF Send, Goto, AfterSlot
  <2>3. CASE RejectTrade(d) \/ StoreError(d)
    <3>1. calls[s] = 0 BY <2>3 DEF RejectTrade, StoreError, SlotInv, SlotOpen, AfterSlot
    <3> QED BY <1>1, <1>3, <1>5, <2>3, <3>1 DEF RejectTrade, StoreError, Goto, AfterSlot
  <2> QED BY <2>1, <2>2, <2>3
<1>10. (\A e \in Dispatches : SlotOpen(e))'
  <2> SUFFICES ASSUME NEW e \in Dispatches PROVE SlotOpen(e)'
    OBVIOUS
  <2>1. CASE e = d BY <1>2, <1>9, <2>1 DEF SlotOpen, SignalOf
  <2>2. CASE e # d /\ pc[e] \in AfterSlot
    <3>1. SignalOf(e) \in Signals \ {s}
      BY <1>8, <2>2 DEF SlotInv, DispatchNamed, AfterSlot
    <3> QED BY <1>2, <1>9, <2>2, <3>1 DEF SlotInv, SlotOpen, SignalOf
  <2>3. CASE e # d /\ pc[e] \notin AfterSlot BY <1>5, <2>3 DEF SlotOpen
  <2> QED BY <2>1, <2>2, <2>3
<1>11. OneInSlot'
  BY <1>2, <1>5, <1>8 DEF SlotInv, OneInSlot, SignalOf
<1>12. NothingSent'
  BY <1>9 DEF SlotInv, NothingSent
<1> QED BY <1>6, <1>7, <1>10, <1>11, <1>12 DEF SlotInv

\* The environment writes neither slots nor dispatches.
LEMMA SlotEnvironment ==
  ASSUME TypeOK, SlotInv, Environment
  PROVE  SlotInv'
<1>1. UNCHANGED <<trade, calls, pc, my>>
      /\ \/ UNCHANGED conf
         \/ \E C : RevokeConfs(C)
         \/ \E c \in Confs : ConfLapses(c) \/ ExpireConfirmation(c)
  <2>1. CASE Governance \/ \E on \in BOOLEAN : KillSwitch(on) \/ SetControl(on)
    BY <2>1 DEF Governance, KillSwitch, AtomicChange, RevokeAuthority, SetControl, rows
  <2>7. ASSUME NEW e \in Editors,
               \/ LoadProfile(e) \/ SaveDisplayEdit(e)
               \/ \E on \in BOOLEAN : SaveProfile(e, on)
        PROVE  UNCHANGED <<trade, calls, pc, my>> /\ (UNCHANGED conf \/ \E C : RevokeConfs(C))
    BY <2>7 DEF LoadProfile, SaveDisplayEdit, SaveProfile, RevokeAuthority, rows
  <2>2. CASE \/ \E f \in {"policy", "catalog"} : SharedAdvance(f)
             \/ ControlExpires \/ Reconnect
    BY <2>2 DEF SharedAdvance, ControlExpires, Reconnect, rows
  <2>3. ASSUME NEW r \in Revokers,
               \/ BrokerDown(r) \/ RotateCredential(r)
               \/ \E mode \in Modes : ChangeMode(r, mode)
               \/ SuspendForRiskLimit(r) \/ Resume(r) \/ EndSession(r)
               \/ BumpAuthority(r) \/ SweepGrants(r) \/ JobFails(r)
        PROVE  UNCHANGED <<trade, calls, pc, my, conf>>
    BY <2>3 DEF BrokerDown, RotateCredential, ChangeMode, SuspendForRiskLimit, Resume,
                EndSession, SessionChange, BumpAuthority, SweepGrants, JobFails, rows
  <2>4. ASSUME NEW r \in Revokers, SweepConfs(r)
        PROVE  UNCHANGED <<trade, calls, pc, my>> /\ \E C : RevokeConfs(C)
    BY <2>4 DEF SweepConfs
  <2>5. CASE \/ \E g \in Grants : GrantLapses(g)
             \/ \E s \in Signals : ExpireIntent(s)
    BY <2>5 DEF GrantLapses, ExpireIntent
  <2>6. ASSUME NEW c \in Confs, ConfLapses(c) \/ ExpireConfirmation(c)
        PROVE  UNCHANGED <<trade, calls, pc, my>>
    BY <2>6 DEF ConfLapses, ExpireConfirmation
  <2> QED BY <2>1, <2>2, <2>3, <2>4, <2>5, <2>6, <2>7 DEF Environment
<1>2. \A c \in Confs : ConfNamed(c)' BY <1>1, ConfsStayNamed
<1>3. \A e \in Dispatches : DispatchNamed(e)' BY <1>1 DEF SlotInv, DispatchNamed, SignalOf
<1> QED BY <1>1, <1>2, <1>3, SlotKept

\* Every step preserves the invariant of the slot.
LEMMA NextSlot == TypeOK /\ SlotInv /\ [Next]_vars => SlotInv'
<1> SUFFICES ASSUME TypeOK, SlotInv, [Next]_vars PROVE SlotInv'
  OBVIOUS
<1>1. ASSUME NEW d \in Dispatches, DispatchStep(d) \/ Failure(d) PROVE SlotInv'
  BY <1>1, SlotReading, SlotLoop, SlotWrites DEF DispatchStep, Failure
<1>2. CASE UNCHANGED vars
  BY <1>2 DEF vars, rows, SlotInv, ConfNamed, DispatchNamed, SlotOpen, OneInSlot, NothingSent,
              SignalOf
<1> QED BY <1>1, <1>2, SlotStart, SlotEnvironment DEF Next

\* A trade reported as definitely not sent never reached the provider, for any
\* number of signals, proposals and concurrent dispatches, wherever they die.
THEOREM RejectedNeverSent == Spec => []RejectedTradeNeverSent
<1>1. Init => SlotInv
  BY DEF Init, SlotInv, ConfNamed, DispatchNamed, SlotOpen, OneInSlot, NothingSent, FreeConf,
         AfterSlot
<1>2. SlotInv => RejectedTradeNeverSent
  BY DEF SlotInv, SlotOpen, NothingSent, RejectedTradeNeverSent, AfterSlot, SignalOf
<1> QED BY <1>1, <1>2, NextSlot, TypeCorrect, PTL DEF Spec

-----------------------------------------------------------------------------
(* The confirmation.                                                        *)

\* The dispatch has its grant; from "authorize" on it may also use it.
Issued == {"confirmation", "issued", "authorize", "permit", "reserve"} \union AfterSlot
Cleared == {"authorize", "permit", "reserve"} \union AfterSlot

\* A dispatch that answers a proposal names a row of its own signal.
AnswersOwn(d) ==
    /\ pc[d] = "idle" => my[d].conf = None
    /\ my[d].conf # None => /\ conf[my[d].conf].status # "free"
                            /\ conf[my[d].conf].signal = my[d].signal

\* The grant a dispatch holds was issued for its signal, in its mode.
OwnGrant(d) ==
    pc[d] \in Issued => /\ grant[my[d].grant].signal = my[d].signal
                        /\ grant[my[d].grant].mode = my[d].mode

\* Without an answer only FULL_AUTO goes beyond the pre-check.
MayProceed(d) == pc[d] \in Cleared => my[d].conf # None \/ my[d].mode = "FULL_AUTO"

RequestSound(d) == AnswersOwn(d) /\ OwnGrant(d) /\ MayProceed(d)

\* A spent confirmation names a spent grant.
SpentNames(c) ==
    conf[c].status = "CONSUMED" =>
        conf[c].grant \in Grants /\ grant[conf[c].grant].status = "CONSUMED"

\* A spent SEMI_AUTO grant is named by a spent confirmation of its signal.
SpentAnswered(g) ==
    grant[g].status = "CONSUMED" /\ grant[g].mode = "SEMI_AUTO" =>
        \E c \in Confs : /\ conf[c].status = "CONSUMED"
                         /\ conf[c].grant = g
                         /\ conf[c].signal = grant[g].signal

SpentInv ==
    /\ \A d \in Dispatches : RequestSound(d)
    /\ \A c \in Confs : SpentNames(c)
    /\ \A g \in Grants : SpentAnswered(g)

\* What a step may not do to a row that exists ...
GrantStays(g) == IsIssued(g) => grant'[g].signal = grant[g].signal /\ grant'[g].mode = grant[g].mode
ConfStays(c) == conf[c].status # "free" => conf'[c].status # "free" /\ conf'[c].signal = conf[c].signal

\* ... and what every step but the commitment leaves alone.
GrantUnspent(g) == grant'[g].status = "CONSUMED" <=> grant[g].status = "CONSUMED"
ConfUnspent(c) ==
    /\ conf'[c].status = "CONSUMED" <=> conf[c].status = "CONSUMED"
    /\ conf[c].status = "CONSUMED" => conf'[c].grant = conf[c].grant

RowsKept == (\A g \in Grants : GrantStays(g) /\ GrantUnspent(g))
            /\ \A c \in Confs : ConfStays(c) /\ ConfUnspent(c)

\* A dispatch that does not move stays sound.
LEMMA IdleRequest ==
  ASSUME AuthorityInv, SpentInv, NEW e \in Dispatches, pc'[e] = pc[e], my'[e] = my[e],
         \A g \in Grants : GrantStays(g), \A c \in Confs : ConfStays(c)
  PROVE  RequestSound(e)'
<1>1. RequestSound(e) /\ TypeOK /\ HoldsGrant(e) BY DEF SpentInv, AuthorityInv, DispatchSound
<1>2. my[e].conf # None => my[e].conf \in Confs BY <1>1 DEF TypeOK, Locals
<1>3. AnswersOwn(e)' BY <1>1, <1>2 DEF RequestSound, AnswersOwn, ConfStays
<1>4. pc[e] \in Issued => my[e].grant \in Grants /\ IsIssued(my[e].grant)
  BY <1>1 DEF Issued, AfterSlot, HoldsGrant, Holding, Stages, TypeOK, Locals
<1>5. OwnGrant(e)' BY <1>1, <1>4 DEF RequestSound, OwnGrant, GrantStays
<1>6. MayProceed(e)' BY <1>1 DEF RequestSound, MayProceed
<1> QED BY <1>3, <1>5, <1>6 DEF RequestSound

\* A step that spends nothing, of a dispatch that stays sound.
LEMMA SpentKept ==
  ASSUME AuthorityInv, SpentInv, RowsKept,
         \A e \in Dispatches : (pc'[e] = pc[e] /\ my'[e] = my[e]) \/ RequestSound(e)'
  PROVE  SpentInv'
<1>1. (\A e \in Dispatches : RequestSound(e))' BY IdleRequest DEF RowsKept
<1>2. (\A c \in Confs : SpentNames(c))'
  BY DEF SpentInv, SpentNames, RowsKept, ConfUnspent, GrantUnspent
<1>3. (\A g \in Grants : SpentAnswered(g))'
  <2> SUFFICES ASSUME NEW g \in Grants, grant'[g].status = "CONSUMED",
                      grant'[g].mode = "SEMI_AUTO"
               PROVE  \E c \in Confs : /\ conf'[c].status = "CONSUMED"
                                       /\ conf'[c].grant = g
                                       /\ conf'[c].signal = grant'[g].signal
    BY DEF SpentAnswered
  <2>1. grant[g].status = "CONSUMED" /\ grant'[g].signal = grant[g].signal
        /\ grant[g].mode = "SEMI_AUTO"
    BY DEF RowsKept, GrantUnspent, GrantStays, IsIssued
  <2>2. PICK c \in Confs : /\ conf[c].status = "CONSUMED"
                           /\ conf[c].grant = g
                           /\ conf[c].signal = grant[g].signal
    BY <2>1 DEF SpentInv, SpentAnswered
  <2>3. conf'[c].status = "CONSUMED" /\ conf'[c].grant = g /\ conf'[c].signal = conf[c].signal
    BY <2>2 DEF RowsKept, ConfUnspent, ConfStays
  <2> QED BY <2>1, <2>2, <2>3
<1> QED BY <1>1, <1>2, <1>3 DEF SpentInv

\* Invalidation changes nothing but the status of ACTIVE grants.
LEMMA InvalidateGrantsRows ==
  ASSUME TypeOK, NEW G, InvalidateGrants(G), NEW g \in Grants
  PROVE  GrantStays(g) /\ GrantUnspent(g)
<1>1. grant[g] \in GrantRow BY DEF TypeOK
<1> DEFINE row == [grant[g] EXCEPT !.status = "INVALIDATED"]
<1>2. row.status = "INVALIDATED" /\ row.signal = grant[g].signal /\ row.mode = grant[g].mode
  BY <1>1 DEF GrantRow
<1>3. grant'[g] = IF g \in G /\ grant[g].status = "ACTIVE" THEN row ELSE grant[g]
  BY DEF InvalidateGrants
<1> HIDE DEF row
<1> QED BY <1>2, <1>3 DEF GrantStays, GrantUnspent

\* A moving dispatch that keeps its proposal and its signal.
LEMMA MovingRequest ==
  ASSUME AuthorityInv, SpentInv, NEW d \in Dispatches, pc[d] # "idle", pc'[d] # "idle",
         \A c \in Confs : ConfStays(c),
         my'[d].signal = my[d].signal, my'[d].conf = my[d].conf,
         OwnGrant(d)', MayProceed(d)'
  PROVE  RequestSound(d)'
<1>1. RequestSound(d) /\ TypeOK BY DEF SpentInv, AuthorityInv
<1>2. my[d].conf # None => my[d].conf \in Confs BY <1>1 DEF TypeOK, Locals
<1>3. AnswersOwn(d)' BY <1>1, <1>2 DEF RequestSound, AnswersOwn, ConfStays
<1> QED BY <1>3 DEF RequestSound

\* A moving dispatch that keeps all its locals.
LEMMA StageRequest ==
  ASSUME AuthorityInv, SpentInv, RowsKept, NEW d \in Dispatches, NEW to, Goto(d, to),
         UNCHANGED my, pc[d] # "idle", to # "idle",
         to \in Issued => pc[d] \in Issued,
         to \in Cleared => pc[d] \in Cleared \/ my[d].conf # None \/ my[d].mode = "FULL_AUTO"
  PROVE  SpentInv'
<1>1. RequestSound(d) /\ TypeOK /\ HoldsGrant(d) BY DEF SpentInv, AuthorityInv, DispatchSound
<1>2. pc'[d] = to /\ \A e \in Dispatches \ {d} : pc'[e] = pc[e] BY <1>1 DEF Goto, TypeOK
<1>3. pc[d] \in Issued => my[d].grant \in Grants /\ IsIssued(my[d].grant)
  BY <1>1 DEF Issued, AfterSlot, HoldsGrant, Holding, Stages, TypeOK, Locals
<1>4. OwnGrant(d)' BY <1>1, <1>2, <1>3 DEF RequestSound, OwnGrant, RowsKept, GrantStays
<1>5. MayProceed(d)' BY <1>1, <1>2 DEF RequestSound, MayProceed
<1>6. RequestSound(d)' BY <1>2, <1>4, <1>5, MovingRequest DEF RowsKept
<1> QED BY <1>2, <1>6, SpentKept

\* Rows that do not change are kept.
LEMMA SameRows ==
  ASSUME UNCHANGED <<grant, conf>> PROVE RowsKept
BY DEF RowsKept, GrantStays, GrantUnspent, ConfStays, ConfUnspent, IsIssued

\* Statements that keep the grants, the proposals and a dispatch's locals.
LEMMA SpentReading ==
  ASSUME AuthorityInv, SpentInv, NEW d \in Dispatches,
         \/ Refuse(d) \/ IssuanceFails(d) \/ FindNone(d) \/ AwaitUser(d) \/ Preflight(d)
         \/ Abandon(d) \/ Authorize(d) \/ Permit(d) \/ DuplicateTrade(d) \/ MarkExecuted(d)
         \/ Submit(d) \/ MarketSafe(d) \/ MarketUnsafe(d) \/ ReverifyChain(d) \/ Unreadable(d)
         \/ CommitLost(d) \/ RejectOrder(d) \/ Crash(d)
         \/ Reserve(d) \/ Send(d) \/ RejectTrade(d) \/ StoreError(d)
  PROVE  SpentInv'
<1> USE DEF rows
<1>1. ASSUME NEW to, Goto(d, to), UNCHANGED <<grant, conf, my>>, pc[d] # "idle", to # "idle",
             to \in Issued => pc[d] \in Issued,
             to \in Cleared => pc[d] \in Cleared \/ my[d].conf # None \/ my[d].mode = "FULL_AUTO"
      PROVE  SpentInv'
  BY <1>1, SameRows, StageRequest
<1> USE DEF Issued, Cleared, AfterSlot
<1>2. CASE Refuse(d) BY <1>1, <1>2 DEF Refuse, NotApproved
<1>3. CASE IssuanceFails(d) BY <1>1, <1>3 DEF IssuanceFails, NotApproved
<1>4. CASE FindNone(d) BY <1>1, <1>4 DEF FindNone
<1>5. CASE AwaitUser(d) \/ Preflight(d) BY <1>1, <1>5 DEF AwaitUser, Preflight, IsConfirm
<1>6. CASE Abandon(d) BY <1>1, <1>6 DEF Abandon
<1>7. CASE Authorize(d) BY <1>1, <1>7 DEF Authorize
<1>8. CASE Permit(d) BY <1>1, <1>8 DEF Permit
<1>9. CASE DuplicateTrade(d) BY <1>1, <1>9 DEF DuplicateTrade
<1>10. CASE MarkExecuted(d) BY <1>1, <1>10 DEF MarkExecuted
<1>11. CASE Submit(d) BY <1>1, <1>11 DEF Submit
<1>12. CASE MarketSafe(d) BY <1>1, <1>12 DEF MarketSafe
<1>13. CASE MarketUnsafe(d) BY <1>1, <1>13 DEF MarketUnsafe
<1>14. CASE Unreadable(d) BY <1>1, <1>14 DEF Unreadable
<1>15. CASE CommitLost(d) BY <1>1, <1>15 DEF CommitLost
<1>16. CASE RejectOrder(d) BY <1>1, <1>16 DEF RejectOrder
<1>17. CASE Crash(d) BY <1>1, <1>17 DEF Crash
<1>18. CASE ReverifyChain(d)
  <2>1. pc[d] \in AfterSlot /\ \E to \in AfterSlot : Goto(d, to)
    BY <1>18 DEF ReverifyChain, ReverifyAuthority, ReverifySession, Reverify
  <2>2. UNCHANGED <<grant, conf, my>>
    BY <1>18 DEF ReverifyChain, ReverifyAuthority, ReverifySession, Reverify
  <2> QED BY <1>1, <2>1, <2>2
<1>19. CASE Reserve(d) BY <1>1, <1>19 DEF Reserve
<1>20. CASE Send(d) BY <1>1, <1>20 DEF Send
<1>21. CASE RejectTrade(d) BY <1>1, <1>21 DEF RejectTrade
<1>22. CASE StoreError(d) BY <1>1, <1>22 DEF StoreError
<1> QED BY <1>2, <1>3, <1>4, <1>5, <1>6, <1>7, <1>8, <1>9, <1>10, <1>11, <1>12, <1>13, <1>14,
           <1>15, <1>16, <1>17, <1>18, <1>19, <1>20, <1>21, <1>22

\* The evaluation and the convergence loop.
LEMMA SpentLoop ==
  ASSUME AuthorityInv, SpentInv, NEW d \in Dispatches,
         \/ Evaluate(d) \/ Bind(d) \/ FindOther(d) \/ Supersede(d) \/ RevokeSuperseded(d)
         \/ InsertLost(d)
  PROVE  SpentInv'
<1> USE DEF rows
<1>1. TypeOK BY DEF AuthorityInv
<1>2. pc[d] # "idle"
  BY DEF Evaluate, Bind, FindOther, Supersede, RevokeSuperseded, InsertLost
<1>3. RowsKept
  <2>1. CASE Supersede(d)
    <3>1. \A g \in Grants : GrantStays(g) /\ GrantUnspent(g)
      BY <1>1, <2>1, InvalidateGrantsRows DEF Supersede
    <3>2. UNCHANGED conf BY <2>1 DEF Supersede
    <3> QED BY <3>1, <3>2 DEF RowsKept, ConfStays, ConfUnspent
  <2>2. CASE RevokeSuperseded(d)
    <3>1. \A c \in Confs : ConfStays(c) /\ ConfUnspent(c)
      BY <1>1, <2>2, RevokeConfsRows DEF RevokeSuperseded, ConfStays, ConfUnspent
    <3>2. UNCHANGED grant BY <2>2 DEF RevokeSuperseded
    <3> QED BY <3>1, <3>2 DEF RowsKept, GrantStays, GrantUnspent
  <2>3. CASE Evaluate(d) \/ Bind(d) \/ FindOther(d) \/ InsertLost(d)
    BY <2>3, SameRows DEF Evaluate, Bind, FindOther, InsertLost
  <2> QED BY <2>1, <2>2, <2>3
<1>4. CASE Evaluate(d) \/ Bind(d) \/ FindOther(d) \/ NextAttempt(d)
  <2>1. /\ \A e \in Dispatches \ {d} : pc'[e] = pc[e] /\ my'[e] = my[e]
        /\ my'[d].signal = my[d].signal
        /\ my'[d].conf = my[d].conf
        /\ pc'[d] \in {"bind", "find", "confirmation", "issued", "supersede", "done"}
    BY <1>1, <1>4, LoopLocals
  <2>2. pc'[d] \in {"bind", "find", "supersede", "done"}
    BY <1>1, <1>4 DEF Evaluate, Bind, FindOther, NextAttempt, NotApproved, Goto, TypeOK
  <2>3. OwnGrant(d)' /\ MayProceed(d)'
    BY <2>2 DEF OwnGrant, MayProceed, Issued, Cleared, AfterSlot
  <2>4. RequestSound(d)' BY <1>2, <1>3, <2>1, <2>2, <2>3, MovingRequest DEF RowsKept
  <2> QED BY <1>3, <2>1, <2>4, SpentKept
<1>5. CASE Supersede(d) /\ ~IsConfirm(d)
  <2>1. Goto(d, "revoke") /\ UNCHANGED my BY <1>5 DEF Supersede
  <2> QED BY <1>2, <1>3, <2>1, StageRequest DEF Issued, Cleared, AfterSlot
<1> QED BY <1>4, <1>5 DEF Supersede, RevokeSuperseded, InsertLost

\* The two ways to obtain a grant.
LEMMA SpentIssue ==
  ASSUME AuthorityInv, SpentInv, NEW d \in Dispatches, Reuse(d) \/ Insert(d)
  PROVE  SpentInv'
<1> USE DEF rows
<1>1. TypeOK BY DEF AuthorityInv
<1>2. /\ \A e \in Dispatches \ {d} : pc'[e] = pc[e] /\ my'[e] = my[e]
      /\ my'[d].signal = my[d].signal
      /\ my'[d].conf = my[d].conf
  BY <1>1, LoopLocals
<1>3. pc'[d] \in {"confirmation", "issued"} BY <1>1 DEF Reuse, Insert, Goto, TypeOK
<1>4. my[d] \in Locals /\ my \in [Dispatches -> Locals] BY <1>1 DEF TypeOK
<1>5. RowsKept /\ OwnGrant(d)'
  <2>1. ASSUME NEW g, my' = [my EXCEPT ![d].grant = g]
        PROVE  my'[d].grant = g /\ my'[d].mode = my[d].mode
    <3> DEFINE m == [my[d] EXCEPT !.grant = g]
    <3>1. m.grant = g /\ m.mode = my[d].mode BY <1>4 DEF Locals
    <3>2. my' = [my EXCEPT ![d] = m] BY <2>1
    <3> HIDE DEF m
    <3> QED BY <1>4, <3>1, <3>2
  <2>2. CASE Reuse(d)
    <3>1. PICK g \in ActiveFor(SignalOf(d)) : /\ grant[g].mode = my[d].mode
                                              /\ my' = [my EXCEPT ![d].grant = g]
      BY <2>2 DEF Reuse
    <3>2. UNCHANGED <<grant, conf>> BY <2>2 DEF Reuse
    <3>3. grant[g].signal = my[d].signal BY <3>1 DEF ActiveFor, SignalOf
    <3>4. my'[d].grant = g /\ my'[d].mode = my[d].mode BY <2>1, <3>1
    <3> QED BY <1>2, <3>1, <3>2, <3>3, <3>4, SameRows DEF OwnGrant
  <2>3. CASE Insert(d)
    <3> DEFINE new == [status |-> "ACTIVE", signal |-> SignalOf(d), mode |-> my[d].mode,
                       bound |-> my[d].seen, lapsed |-> FALSE]
    <3>1. PICK g \in Grants : NextGrant(g) /\ grant' = [grant EXCEPT ![g] = new]
                              /\ my' = [my EXCEPT ![d].grant = g]
      BY <2>3 DEF Insert
    <3>2. new.status = "ACTIVE" /\ new.signal = my[d].signal /\ new.mode = my[d].mode
      BY DEF SignalOf
    <3> HIDE DEF new
    <3>3. grant'[g] = new /\ \A h \in Grants \ {g} : grant'[h] = grant[h]
      BY <1>1, <3>1 DEF TypeOK
    <3>4. grant[g].status = "free" /\ UNCHANGED conf BY <2>3, <3>1 DEF NextGrant, Insert
    <3>5. \A h \in Grants : GrantStays(h) /\ GrantUnspent(h)
      BY <3>2, <3>3, <3>4 DEF GrantStays, GrantUnspent, IsIssued
    <3>6. RowsKept BY <3>4, <3>5 DEF RowsKept, ConfStays, ConfUnspent
    <3>7. my'[d].grant = g /\ my'[d].mode = my[d].mode BY <2>1, <3>1
    <3> QED BY <1>2, <3>2, <3>3, <3>6, <3>7 DEF OwnGrant
  <2> QED BY <2>2, <2>3
<1>6. MayProceed(d)' BY <1>3 DEF MayProceed, Cleared, AfterSlot
<1>7. pc[d] # "idle" BY DEF Reuse, Insert
<1>8. RequestSound(d)' BY <1>2, <1>3, <1>5, <1>6, <1>7, MovingRequest DEF RowsKept
<1> QED BY <1>2, <1>5, <1>8, SpentKept

\* A proposal is created, or bound to the confirming dispatch's grant.
LEMMA SpentProposal ==
  ASSUME AuthorityInv, SpentInv, NEW d \in Dispatches, CreateConfirmation(d) \/ Rebind(d)
  PROVE  SpentInv'
<1>1. TypeOK BY DEF AuthorityInv
<1>2. pc[d] = "confirmation" /\ UNCHANGED <<grant, my>> /\ \E to \in {"issued", "done"} : Goto(d, to)
  BY DEF CreateConfirmation, Rebind
<1>3. \A g \in Grants : GrantStays(g) /\ GrantUnspent(g) BY <1>2 DEF GrantStays, GrantUnspent
<1>4. ASSUME NEW c \in Confs PROVE ConfStays(c) /\ ConfUnspent(c)
  <2>1. conf \in [Confs -> ConfRow] /\ conf[c] \in ConfRow BY <1>1 DEF TypeOK
  <2>2. CASE UNCHANGED conf BY <2>2 DEF ConfStays, ConfUnspent
  <2>3. CASE CreateConfirmation(d) /\ ~UNCHANGED conf
    <3> DEFINE row == [status |-> "PENDING", signal |-> SignalOf(d), grant |-> my[d].grant,
                       session |-> grant[my[d].grant].bound["session"], lapsed |-> FALSE]
    <3>1. row.status = "PENDING" OBVIOUS
    <3>2. PICK x \in Confs : NextConf(x) /\ conf' = [conf EXCEPT ![x] = row]
      BY <2>3 DEF CreateConfirmation
    <3> HIDE DEF row
    <3>3. conf'[c] = conf[c] \/ (conf[c].status = "free" /\ conf'[c] = row)
      BY <2>1, <3>2 DEF NextConf
    <3> QED BY <3>1, <3>3 DEF ConfStays, ConfUnspent
  <2>4. CASE Rebind(d) /\ ~UNCHANGED conf
    <3> DEFINE row == [conf[my[d].conf] EXCEPT !.grant = my[d].grant]
    <3>1. conf[my[d].conf].status = "PENDING" /\ conf' = [conf EXCEPT ![my[d].conf] = row]
      BY <2>4 DEF Rebind
    <3>2. c = my[d].conf => row.status = conf[c].status /\ row.signal = conf[c].signal
      BY <2>1 DEF ConfRow
    <3> HIDE DEF row
    <3>3. conf'[c] = conf[c] \/ (c = my[d].conf /\ conf'[c] = row) BY <2>1, <3>1
    <3> QED BY <3>1, <3>2, <3>3 DEF ConfStays, ConfUnspent
  <2> QED BY <2>2, <2>3, <2>4
<1>5. RowsKept BY <1>3, <1>4 DEF RowsKept
<1> QED BY <1>2, <1>5, StageRequest DEF Issued, Cleared, AfterSlot

\* A dispatch starts, without a proposal or with a usable one of its signal.
LEMMA SpentStart ==
  ASSUME AuthorityInv, SpentInv, NEW d \in Dispatches,
         (\E s \in Signals : Deliver(d, s)) \/ (\E c \in Confs : Confirm(d, c))
  PROVE  SpentInv'
<1> USE DEF rows
<1>1. TypeOK /\ AnswersOwn(d) BY DEF AuthorityInv, SpentInv, RequestSound
<1>2. my[d] \in Locals /\ my \in [Dispatches -> Locals] BY <1>1 DEF TypeOK
<1>3. UNCHANGED <<grant, conf>> /\ Goto(d, "evaluate") /\ pc[d] = "idle" BY DEF Deliver, Confirm
<1>4. pc'[d] = "evaluate" /\ \A e \in Dispatches \ {d} : pc'[e] = pc[e]
  BY <1>1, <1>3 DEF Goto, TypeOK
<1>5. /\ \A e \in Dispatches \ {d} : my'[e] = my[e]
      /\ my'[d].conf # None => /\ conf[my'[d].conf].status # "free"
                               /\ conf[my'[d].conf].signal = my'[d].signal
  <2>1. CASE \E s \in Signals : Deliver(d, s)
    <3>1. PICK s \in Signals : my' = [my EXCEPT ![d].signal = s] BY <2>1 DEF Deliver
    <3> DEFINE m == [my[d] EXCEPT !.signal = s]
    <3>2. m.conf = my[d].conf BY <1>2 DEF Locals
    <3>3. my' = [my EXCEPT ![d] = m] BY <3>1
    <3> HIDE DEF m
    <3>4. my[d].conf = None BY <1>1, <1>3 DEF AnswersOwn
    <3> QED BY <1>2, <3>2, <3>3, <3>4
  <2>2. CASE \E c \in Confs : Confirm(d, c)
    <3>1. PICK c \in Confs : /\ ConfUsable(c)
                             /\ my' = [my EXCEPT ![d].signal = conf[c].signal, ![d].conf = c]
      BY <2>2 DEF Confirm
    <3> DEFINE m == [my[d] EXCEPT !.signal = conf[c].signal, !.conf = c]
    <3>2. m.conf = c /\ m.signal = conf[c].signal BY <1>2 DEF Locals
    <3>3. my' = [my EXCEPT ![d] = m] BY <3>1
    <3> HIDE DEF m
    <3> QED BY <1>2, <3>1, <3>2, <3>3 DEF ConfUsable
  <2> QED BY <2>1, <2>2
<1>6. RequestSound(d)'
  BY <1>3, <1>4, <1>5 DEF RequestSound, AnswersOwn, OwnGrant, MayProceed, Issued, Cleared, AfterSlot
<1> QED BY <1>3, <1>4, <1>5, <1>6, SameRows, SpentKept

\* The commitment spends the grant and the answer it was given, together.
LEMMA SpentCommit ==
  ASSUME AuthorityInv, SpentInv, NEW d \in Dispatches, Commit(d) \/ CommitAckLost(d)
  PROVE  SpentInv'
<1>1. TypeOK /\ HoldsGrant(d) /\ RequestSound(d)
  BY DEF AuthorityInv, DispatchSound, SpentInv
<1>2. CommitReady(d) /\ CommitRows(d) /\ pc[d] = "commit" /\ UNCHANGED my
  BY DEF Commit, CommitAckLost
<1> DEFINE g == my[d].grant
           c == my[d].conf
           spent == [grant[g] EXCEPT !.status = "CONSUMED"]
           answered == [conf[c] EXCEPT !.status = "CONSUMED"]
<1>3. g \in Grants /\ grant[g] \in GrantRow
  BY <1>1, <1>2 DEF TypeOK, Locals, HoldsGrant, Holding, Stages
<1>4. c # None => c \in Confs /\ conf[c] \in ConfRow BY <1>1 DEF TypeOK, Locals
<1>5. /\ grant[g].status = "ACTIVE"
      /\ c # None => conf[c].status = "PENDING" /\ conf[c].grant = g
  BY <1>2 DEF CommitReady, GrantUsable, ConfUsable, IsConfirm
<1>6. spent.status = "CONSUMED" /\ spent.signal = grant[g].signal /\ spent.mode = grant[g].mode
  BY <1>3 DEF GrantRow
<1>7. c # None => /\ answered.status = "CONSUMED" /\ answered.signal = conf[c].signal
                  /\ answered.grant = conf[c].grant
  BY <1>4 DEF ConfRow
<1>8. /\ grant' = [grant EXCEPT ![g] = spent]
      /\ conf' = IF c # None THEN [conf EXCEPT ![c] = answered] ELSE conf
  BY <1>2 DEF CommitRows, IsConfirm
<1> HIDE DEF spent, answered
<1>9. grant'[g] = spent /\ \A h \in Grants \ {g} : grant'[h] = grant[h]
  BY <1>1, <1>3, <1>8 DEF TypeOK
<1>10. /\ c # None => conf'[c] = answered
       /\ \A x \in Confs : x # c \/ c = None => conf'[x] = conf[x]
  BY <1>1, <1>4, <1>8 DEF TypeOK
<1>11. (\A h \in Grants : GrantStays(h)) /\ \A x \in Confs : ConfStays(x)
  BY <1>4, <1>6, <1>7, <1>9, <1>10 DEF GrantStays, ConfStays
<1>12. /\ pc'[d] \in {"committed", "blocked"}
       /\ \A e \in Dispatches \ {d} : pc'[e] = pc[e]
  BY <1>1 DEF Commit, CommitAckLost, Goto, TypeOK
<1>13. (\A e \in Dispatches : RequestSound(e))'
  <2>1. \A e \in Dispatches \ {d} : RequestSound(e)' BY <1>2, <1>11, <1>12, IdleRequest
  <2>2. OwnGrant(d)'
    BY <1>1, <1>2, <1>6, <1>9 DEF RequestSound, OwnGrant, Issued, AfterSlot
  <2>3. MayProceed(d)' BY <1>1, <1>2 DEF RequestSound, MayProceed, Cleared, AfterSlot
  <2>4. RequestSound(d)' BY <1>2, <1>11, <1>12, <2>2, <2>3, MovingRequest
  <2> QED BY <2>1, <2>4
<1>14. (\A x \in Confs : SpentNames(x))'
  <2> SUFFICES ASSUME NEW x \in Confs PROVE SpentNames(x)'
    OBVIOUS
  <2>1. CASE x = c /\ c # None
    BY <1>3, <1>5, <1>6, <1>7, <1>9, <1>10, <2>1 DEF SpentNames
  <2>2. CASE x # c \/ c = None
    <3>1. conf'[x] = conf[x] /\ SpentNames(x) BY <1>10, <2>2 DEF SpentInv
    <3> QED BY <1>6, <1>9, <3>1 DEF SpentNames
  <2> QED BY <2>1, <2>2
<1>15. (\A h \in Grants : SpentAnswered(h))'
  <2> SUFFICES ASSUME NEW h \in Grants, grant'[h].status = "CONSUMED",
                      grant'[h].mode = "SEMI_AUTO"
               PROVE  \E x \in Confs : /\ conf'[x].status = "CONSUMED"
                                       /\ conf'[x].grant = h
                                       /\ conf'[x].signal = grant'[h].signal
    BY DEF SpentAnswered
  <2>1. CASE h = g
    <3>1. my[d].mode = "SEMI_AUTO" /\ grant[g].signal = my[d].signal
      BY <1>1, <1>2, <1>6, <1>9, <2>1 DEF RequestSound, OwnGrant, Issued, AfterSlot
    <3>2. c # None
      BY <1>1, <1>2, <3>1 DEF RequestSound, MayProceed, Cleared, AfterSlot
    <3>3. conf[c].signal = my[d].signal BY <1>1, <3>2 DEF RequestSound, AnswersOwn
    <3> QED BY <1>4, <1>5, <1>6, <1>7, <1>9, <1>10, <2>1, <3>1, <3>2, <3>3
  <2>2. CASE h # g
    <3>1. grant'[h] = grant[h] BY <1>9, <2>2
    <3>2. PICK x \in Confs : /\ conf[x].status = "CONSUMED"
                             /\ conf[x].grant = h
                             /\ conf[x].signal = grant[h].signal
      BY <3>1 DEF SpentInv, SpentAnswered
    <3>3. conf'[x] = conf[x] BY <1>5, <1>10, <3>2
    <3> QED BY <3>1, <3>2, <3>3
  <2> QED BY <2>1, <2>2
<1> QED BY <1>13, <1>14, <1>15 DEF SpentInv

\* The environment spends nothing.
LEMMA SpentEnvironment ==
  ASSUME AuthorityInv, SpentInv, Environment
  PROVE  SpentInv'
<1>0. TypeOK BY DEF AuthorityInv
<1>1. ASSUME NEW C, RevokeConfs(C), NEW c \in Confs PROVE ConfStays(c) /\ ConfUnspent(c)
  BY <1>0, <1>1, RevokeConfsRows DEF ConfStays, ConfUnspent
<1>2. ASSUME UNCHANGED conf, NEW c \in Confs PROVE ConfStays(c) /\ ConfUnspent(c)
  BY <1>2 DEF ConfStays, ConfUnspent
<1>3. ASSUME UNCHANGED grant, NEW g \in Grants PROVE GrantStays(g) /\ GrantUnspent(g)
  BY <1>3 DEF GrantStays, GrantUnspent
<1>4. UNCHANGED <<pc, my>> /\ RowsKept
  <2> USE DEF rows
  <2>1. CASE \/ Governance \/ \E on \in BOOLEAN : KillSwitch(on)
             \/ \E e \in Editors, on \in BOOLEAN : SaveProfile(e, on)
    <3>1. UNCHANGED <<pc, my>> /\ InvalidateGrants(Grants) /\ RevokeConfs(Confs)
      BY <2>1 DEF Governance, KillSwitch, AtomicChange, SaveProfile, RevokeAuthority
    <3>2. \A g \in Grants : GrantStays(g) /\ GrantUnspent(g)
      BY <1>0, <3>1, InvalidateGrantsRows
    <3> QED BY <1>1, <3>1, <3>2 DEF RowsKept
  <2>2. CASE \/ \E on \in BOOLEAN : SetControl(on)
             \/ \E f \in {"policy", "catalog"} : SharedAdvance(f)
             \/ ControlExpires \/ Reconnect
             \/ \E s \in Signals : ExpireIntent(s)
             \/ \E e \in Editors : LoadProfile(e) \/ SaveDisplayEdit(e)
    <3>1. UNCHANGED <<pc, my, grant, conf>>
      BY <2>2 DEF LoadProfile, SaveDisplayEdit, SetControl, SharedAdvance, ControlExpires, Reconnect, ExpireIntent
    <3> QED BY <3>1, SameRows
  <2>3. ASSUME NEW r \in Revokers,
               \/ BrokerDown(r) \/ RotateCredential(r)
               \/ \E mode \in Modes : ChangeMode(r, mode)
               \/ SuspendForRiskLimit(r) \/ Resume(r) \/ EndSession(r)
               \/ BumpAuthority(r) \/ JobFails(r)
        PROVE  UNCHANGED <<pc, my>> /\ RowsKept
    <3>1. UNCHANGED <<pc, my, grant, conf>>
      BY <2>3 DEF BrokerDown, RotateCredential, ChangeMode, SuspendForRiskLimit, Resume,
                  EndSession, SessionChange, BumpAuthority, JobFails
    <3> QED BY <3>1, SameRows
  <2>4. ASSUME NEW r \in Revokers, SweepGrants(r)
        PROVE  UNCHANGED <<pc, my>> /\ RowsKept
    <3>1. UNCHANGED <<pc, my, conf>> /\ \E G : InvalidateGrants(G) BY <2>4 DEF SweepGrants
    <3>2. \A g \in Grants : GrantStays(g) /\ GrantUnspent(g)
      BY <1>0, <3>1, InvalidateGrantsRows
    <3> QED BY <1>2, <3>1, <3>2 DEF RowsKept
  <2>5. ASSUME NEW r \in Revokers, SweepConfs(r)
        PROVE  UNCHANGED <<pc, my>> /\ RowsKept
    <3>1. UNCHANGED <<pc, my, grant>> /\ \E C : RevokeConfs(C) BY <2>5 DEF SweepConfs
    <3> QED BY <1>1, <1>3, <3>1 DEF RowsKept
  <2>6. ASSUME NEW h \in Grants, GrantLapses(h)
        PROVE  UNCHANGED <<pc, my>> /\ RowsKept
    <3> DEFINE row == [grant[h] EXCEPT !.lapsed = TRUE]
    <3>1. grant \in [Grants -> GrantRow] /\ grant[h] \in GrantRow BY <1>0 DEF TypeOK
    <3>2. row.status = grant[h].status /\ row.signal = grant[h].signal /\ row.mode = grant[h].mode
      BY <3>1 DEF GrantRow
    <3>3. grant' = [grant EXCEPT ![h] = row] /\ UNCHANGED <<pc, my, conf>>
      BY <2>6 DEF GrantLapses
    <3> HIDE DEF row
    <3>4. \A g \in Grants : GrantStays(g) /\ GrantUnspent(g)
      BY <3>1, <3>2, <3>3 DEF GrantStays, GrantUnspent
    <3> QED BY <1>2, <3>3, <3>4 DEF RowsKept
  <2>7. ASSUME NEW x \in Confs, ConfLapses(x) \/ ExpireConfirmation(x)
        PROVE  UNCHANGED <<pc, my>> /\ RowsKept
    <3>1. UNCHANGED <<pc, my, grant>> BY <2>7 DEF ConfLapses, ExpireConfirmation
    <3>2. \A c \in Confs : ConfStays(c) /\ ConfUnspent(c)
      BY <1>0, <2>7, TimedConfRows DEF ConfStays, ConfUnspent
    <3> QED BY <1>3, <3>1, <3>2 DEF RowsKept
  <2> QED BY <2>1, <2>2, <2>3, <2>4, <2>5, <2>6, <2>7 DEF Environment
<1> QED BY <1>4, SpentKept

\* Every step preserves the invariant of the confirmation.
LEMMA NextSpent == AuthorityInv /\ SpentInv /\ [Next]_vars => SpentInv'
<1> SUFFICES ASSUME AuthorityInv, SpentInv, [Next]_vars PROVE SpentInv'
  OBVIOUS
<1>1. ASSUME NEW d \in Dispatches, DispatchStep(d) \/ Failure(d) PROVE SpentInv'
  BY <1>1, SpentReading, SpentLoop, SpentIssue, SpentProposal, SpentCommit
     DEF DispatchStep, Failure
<1>2. CASE UNCHANGED vars BY <1>2, SameRows, SpentKept DEF vars, rows
<1> QED BY <1>1, <1>2, SpentStart, SpentEnvironment DEF Next

\* A SEMI_AUTO grant is spent only together with the user's confirmation of its
\* signal, bound to that grant, and no confirmation is spent alone, for any
\* number of proposals, answers, rebindings and revocations.
THEOREM SpentTogether == Spec => []ConfirmationSpentWithGrant
<1>1. Init => SpentInv
  BY DEF Init, SpentInv, RequestSound, AnswersOwn, OwnGrant, MayProceed, SpentNames,
         SpentAnswered, Fresh, FreeConf, FreeGrant, Issued, Cleared, AfterSlot
<1>2. SpentInv => ConfirmationSpentWithGrant
  BY DEF SpentInv, SpentNames, SpentAnswered, ConfirmationSpentWithGrant
<1> QED BY <1>1, <1>2, NextSpent, AuthorityInvariant, PTL DEF Spec
=============================================================================
