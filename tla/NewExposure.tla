---------------------------- MODULE NewExposure ----------------------------
(***************************************************************************)
(* How one user's AI signal becomes (at most) one provider order.           *)
(*                                                                         *)
(* A dispatch is one run of the pipeline for a signal, or one click on       *)
(* "confirm" for a SEMI_AUTO proposal: risk evaluation, issuance of a        *)
(* durable RiskGrant (and a PENDING ExecutionConfirmation), the read-only    *)
(* final boundary, the trade slot, the order row and the provider-dispatch   *)
(* commitment.  Meanwhile the authority it relies on moves: the kill switch, *)
(* account governance, emergency controls, shared revisions, the session and *)
(* the broker connection, some of them in handlers of several statements.    *)
(*                                                                         *)
(* Every await whose answer is used later is a step of its own; a process    *)
(* may die at any of them.  The account lease serialises dispatches of one   *)
(* process only, and the API runs as several replicas, so nothing here       *)
(* relies on it.                                                            *)
(***************************************************************************)
EXTENDS Naturals, FiniteSets

CONSTANTS
    Signals,        \* signals delivered for this user
    Dispatches,     \* executions of the pipeline or of confirm()
    Revokers,       \* executions of a multi-statement authority change
    Editors,        \* clients that save the risk profile from a loaded copy
    Grants,         \* ids of risk_grants rows
    Confs,          \* ids of execution_confirmations rows
    InitialMode,    \* execution mode the session was started in
    MaxChanges      \* bound: authority changes explored

Modes == {"FULL_AUTO", "SEMI_AUTO"}

ASSUME NewExposureAssumption ==
    /\ Grants \subseteq Nat \ {0}
    /\ Confs \subseteq Nat \ {0}
    /\ InitialMode \in Modes
    /\ MaxChanges \in Nat

None == 0           \* no grant, no confirmation

\* The monotonic counters a grant binds and the commitment compares.
Facts == {"authority", "policy", "catalog", "control", "profile", "session", "credential"}

VARIABLES
    facts,          \* their current values
    sessionStatus, sessionMode,     \* the trading session row
    connected,      \* broker connection status = CONNECTED
    controlled,     \* an emergency control in force covers this dispatch
    killed,         \* risk_profiles.kill_switch_active
    edit,           \* per editor: the copy of the profile row it will save
    overwritten,    \* history: a save wrote back a copy of an older revision
    grant,          \* risk_grants
    conf,           \* execution_confirmations
    intent, trade, order,           \* per signal: the three rows' statuses
    calls,          \* per signal: provider placements started
    pc, my,         \* per dispatch: the next statement and its locals
    job,            \* per revoker: what it still has to do
    fenced,         \* history: fact values whose grants have been swept
    changes         \* authority changes so far

editing == <<edit, overwritten>>
factVars == <<facts, sessionStatus, sessionMode, connected, controlled, killed, editing>>
rows == <<grant, conf, intent, trade, order, calls>>
vars == <<factVars, rows, pc, my, job, fenced, changes>>

NoFacts == [f \in Facts |-> 0]
FreeGrant == [status |-> "free", signal |-> "none", mode |-> "FULL_AUTO",
              bound |-> NoFacts, lapsed |-> FALSE]
FreeConf == [status |-> "free", signal |-> "none", grant |-> None,
             session |-> 0, lapsed |-> FALSE]
NoCopy == [step |-> "idle", rev |-> 0, killed |-> FALSE]
NoJob == [step |-> "idle", kind |-> "none", gen |-> 0]
Fresh == [signal |-> "none", conf |-> None, grant |-> None,
          seen |-> NoFacts, mode |-> "FULL_AUTO", attempt |-> 0]

Init ==
    /\ facts = [f \in Facts |-> 1]
    /\ sessionStatus \in {"ACTIVE", "SUSPENDED_RISK_LIMIT"}
    /\ sessionMode = InitialMode
    /\ connected = TRUE
    /\ controlled = FALSE
    /\ killed = FALSE
    /\ edit = [e \in Editors |-> NoCopy]
    /\ overwritten = FALSE
    /\ grant = [g \in Grants |-> FreeGrant]
    /\ conf = [c \in Confs |-> FreeConf]
    /\ intent = [s \in Signals |-> "CREATED"]
    /\ trade = [s \in Signals |-> "none"]
    /\ order = [s \in Signals |-> "none"]
    /\ calls = [s \in Signals |-> 0]
    /\ pc = [d \in Dispatches |-> "idle"]
    /\ my = [d \in Dispatches |-> Fresh]
    /\ job = [r \in Revokers |-> NoJob]
    /\ fenced = {}
    /\ changes = 0

-----------------------------------------------------------------------------
(* Rows.                                                                    *)

ActiveFor(s) == {g \in Grants : grant[g].status = "ACTIVE" /\ grant[g].signal = s}
PendingFor(s) == {c \in Confs : conf[c].status = "PENDING" /\ conf[c].signal = s}

\* The row a plain INSERT creates: ids are handed out in order.
NextGrant(g) == grant[g].status = "free" /\ \A h \in Grants : h < g => grant[h].status # "free"
NextConf(c) == conf[c].status = "free" /\ \A e \in Confs : e < c => conf[e].status # "free"

GrantUsable(g) == grant[g].status = "ACTIVE" /\ ~grant[g].lapsed
ConfUsable(c) == conf[c].status = "PENDING" /\ ~conf[c].lapsed

\* UPDATE risk_grants SET status = INVALIDATED WHERE ... AND status = ACTIVE.
InvalidateGrants(G) ==
    grant' = [g \in Grants |->
                IF g \in G /\ grant[g].status = "ACTIVE"
                THEN [grant[g] EXCEPT !.status = "INVALIDATED"] ELSE grant[g]]

\* UPDATE execution_confirmations SET status = REVOKED WHERE ... AND status = PENDING.
RevokeConfs(C) ==
    conf' = [c \in Confs |->
                IF c \in C /\ conf[c].status = "PENDING"
                THEN [conf[c] EXCEPT !.status = "REVOKED"] ELSE conf[c]]

\* markExecuted / markRejected / markExpired: a CAS from CREATED.
MarkIntent(s, status) ==
    intent' = IF intent[s] = "CREATED" THEN [intent EXCEPT ![s] = status] ELSE intent

Goto(d, stage) == pc' = [pc EXCEPT ![d] = stage]
IsConfirm(d) == my[d].conf # None
SignalOf(d) == my[d].signal

-----------------------------------------------------------------------------
(* Risk evaluation.                                                         *)

\* processSignal reaches the risk engine for a signal whose intent is recorded.
Deliver(d, s) ==
    /\ pc[d] = "idle"
    /\ intent[s] = "CREATED"
    /\ my' = [my EXCEPT ![d].signal = s]
    /\ Goto(d, "evaluate")
    /\ UNCHANGED <<factVars, rows, job, fenced, changes>>

\* confirm(): the user answers a PENDING, unexpired proposal.
Confirm(d, c) ==
    /\ pc[d] = "idle"
    /\ ConfUsable(c)
    /\ my' = [my EXCEPT ![d].signal = conf[c].signal, ![d].conf = c]
    /\ Goto(d, "evaluate")
    /\ UNCHANGED <<factVars, rows, job, fenced, changes>>

\* validateProposedTrade up to the approval: the gates, and the profile,
\* session and connection rows whose revisions the grant will bind.
Evaluate(d) ==
    /\ pc[d] = "evaluate"
    /\ ~controlled /\ ~killed /\ sessionStatus = "ACTIVE" /\ connected
    /\ IsConfirm(d) => /\ sessionMode = "SEMI_AUTO"
                       /\ conf[my[d].conf].session = facts["session"]
    /\ trade[SignalOf(d)] = "none"
    /\ my' = [my EXCEPT ![d].mode = sessionMode,
                        ![d].seen = [f \in Facts |->
                            IF f \in {"profile", "session", "credential"} THEN facts[f] ELSE 0]]
    /\ Goto(d, "bind")
    /\ UNCHANGED <<factVars, rows, job, fenced, changes>>

\* issueAuthorityGrant reads the generation and the shared revisions last.
Bind(d) ==
    /\ pc[d] = "bind"
    /\ my' = [my EXCEPT ![d].attempt = 1,
                        ![d].seen = [f \in Facts |->
                            IF f \in {"authority", "policy", "catalog", "control"}
                            THEN facts[f] ELSE my[d].seen[f]]]
    /\ Goto(d, "find")
    /\ UNCHANGED <<factVars, rows, job, fenced, changes>>

\* A decision other than APPROVED: the pipeline rejects the intent, a confirm()
\* call just fails.
NotApproved(d) ==
    /\ IF IsConfirm(d) THEN UNCHANGED intent ELSE MarkIntent(SignalOf(d), "REJECTED")
    /\ Goto(d, "done")

\* A gate or a limit rejects.
Refuse(d) ==
    /\ pc[d] = "evaluate"
    /\ NotApproved(d)
    /\ UNCHANGED <<factVars, grant, conf, trade, order, calls, my, job, fenced, changes>>

\* A statement of the issuance fails: approval is impossible without a grant.
IssuanceFails(d) ==
    /\ pc[d] \in {"bind", "find", "supersede", "revoke", "insert", "confirmation"}
    /\ NotApproved(d)
    /\ UNCHANGED <<factVars, grant, conf, trade, order, calls, my, job, fenced, changes>>

-----------------------------------------------------------------------------
(* issueGrant: the bounded convergence loop.                                *)

\* Mutant: the loop bound is off by one.
NextAttempt_FourTries(d) ==
    \/ /\ my[d].attempt <= 3
       /\ my' = [my EXCEPT ![d].attempt = @ + 1]
       /\ Goto(d, "find")
       /\ UNCHANGED intent
    \/ /\ my[d].attempt > 3
       /\ UNCHANGED my
       /\ NotApproved(d)

\* `continue', or RiskGrantIssuanceConflictError after the third iteration.
NextAttempt(d) ==
    \/ /\ my[d].attempt < 3
       /\ my' = [my EXCEPT ![d].attempt = @ + 1]
       /\ Goto(d, "find")
       /\ UNCHANGED intent
    \/ /\ my[d].attempt = 3
       /\ UNCHANGED my
       /\ NotApproved(d)

\* The binding digest matches (the quote included): reuse the ACTIVE grant.
Reuse(d) ==
    /\ pc[d] = "find"
    /\ \E g \in ActiveFor(SignalOf(d)) :
          /\ grant[g].bound = my[d].seen
          /\ grant[g].mode = my[d].mode
          /\ my' = [my EXCEPT ![d].grant = g]
    /\ Goto(d, IF IsConfirm(d) THEN "confirmation" ELSE "issued")
    /\ UNCHANGED <<factVars, rows, job, fenced, changes>>

\* Any difference of binding, a fresh quote included.
FindOther(d) ==
    /\ pc[d] = "find"
    /\ \E g \in ActiveFor(SignalOf(d)) : my' = [my EXCEPT ![d].grant = g]
    /\ Goto(d, "supersede")
    /\ UNCHANGED <<factVars, rows, job, fenced, changes>>

FindNone(d) ==
    /\ pc[d] = "find"
    /\ ActiveFor(SignalOf(d)) = {}
    /\ Goto(d, "insert")
    /\ UNCHANGED <<factVars, rows, my, job, fenced, changes>>

\* casInvalidateGrant of the grant that was found.
Supersede(d) ==
    /\ pc[d] = "supersede"
    /\ InvalidateGrants({my[d].grant})
    /\ IF IsConfirm(d) THEN NextAttempt(d)
       ELSE Goto(d, "revoke") /\ UNCHANGED <<my, intent>>
    /\ UNCHANGED <<factVars, conf, trade, order, calls, job, fenced, changes>>

\* revokeConfirmationsForGrant of the superseded grant.
RevokeSuperseded(d) ==
    /\ pc[d] = "revoke"
    /\ RevokeConfs({c \in Confs : conf[c].grant = my[d].grant})
    /\ NextAttempt(d)
    /\ UNCHANGED <<factVars, grant, trade, order, calls, job, fenced, changes>>

\* INSERT under the unique index on (user, signal) WHERE ACTIVE.
Insert(d) ==
    /\ pc[d] = "insert"
    /\ ActiveFor(SignalOf(d)) = {}
    /\ \E g \in Grants :
          /\ NextGrant(g)
          /\ grant' = [grant EXCEPT ![g] =
                [status |-> "ACTIVE", signal |-> SignalOf(d), mode |-> my[d].mode,
                 bound |-> my[d].seen, lapsed |-> FALSE]]
          /\ my' = [my EXCEPT ![d].grant = g]
    /\ Goto(d, IF IsConfirm(d) \/ my[d].mode = "SEMI_AUTO" THEN "confirmation" ELSE "issued")
    /\ UNCHANGED <<factVars, conf, intent, trade, order, calls, job, fenced, changes>>

\* Mutant: the unique violation retries the INSERT without reloading the winner.
InsertLost_NoReload(d) ==
    /\ pc[d] = "insert"
    /\ ActiveFor(SignalOf(d)) # {}
    /\ UNCHANGED vars

\* The unique violation: a concurrent issuance won the slot.
InsertLost(d) ==
    /\ pc[d] = "insert"
    /\ ActiveFor(SignalOf(d)) # {}
    /\ NextAttempt(d)
    /\ UNCHANGED <<factVars, grant, conf, trade, order, calls, job, fenced, changes>>

\* createPendingConfirmation; the unique violation keeps the original row.
CreateConfirmation(d) ==
    /\ pc[d] = "confirmation"
    /\ ~IsConfirm(d)
    /\ IF PendingFor(SignalOf(d)) # {} THEN UNCHANGED conf
       ELSE \E c \in Confs :
              /\ NextConf(c)
              /\ conf' = [conf EXCEPT ![c] =
                    [status |-> "PENDING", signal |-> SignalOf(d), grant |-> my[d].grant,
                     session |-> grant[my[d].grant].bound["session"], lapsed |-> FALSE]]
    /\ Goto(d, "issued")
    /\ UNCHANGED <<factVars, grant, intent, trade, order, calls, my, job, fenced, changes>>

\* rebindPendingConfirmation: a CAS on PENDING, without a look at the expiry.
Rebind(d) ==
    /\ pc[d] = "confirmation"
    /\ IsConfirm(d)
    /\ IF conf[my[d].conf].status = "PENDING"
       THEN conf' = [conf EXCEPT ![my[d].conf].grant = my[d].grant] /\ Goto(d, "issued")
       ELSE UNCHANGED conf /\ Goto(d, "done")
    /\ UNCHANGED <<factVars, grant, intent, trade, order, calls, my, job, fenced, changes>>

-----------------------------------------------------------------------------
(* executeTrade up to the commitment.                                       *)

\* An approved SEMI_AUTO signal waits for the user; the pipeline stops here.
AwaitUser(d) ==
    /\ pc[d] = "issued"
    /\ ~IsConfirm(d) /\ my[d].mode = "SEMI_AUTO"
    /\ Goto(d, "done")
    /\ UNCHANGED <<factVars, rows, my, job, fenced, changes>>

\* The grant pre-check and the trade-intent guard.
Preflight(d) ==
    /\ pc[d] = "issued"
    /\ IsConfirm(d) \/ my[d].mode = "FULL_AUTO"
    /\ GrantUsable(my[d].grant)
    /\ intent[SignalOf(d)] = "CREATED"
    /\ Goto(d, "authorize")
    /\ UNCHANGED <<factVars, rows, my, job, fenced, changes>>

\* A gate of confirm(), executeTrade() or authorize() throws before the slot.
Abandon(d) ==
    /\ pc[d] \in {"issued", "authorize", "permit"}
    /\ Goto(d, "done")
    /\ UNCHANGED <<factVars, rows, my, job, fenced, changes>>

\* authorize() with consume: false.
Authorize(d) ==
    /\ pc[d] = "authorize"
    /\ LET g == grant[my[d].grant] IN
       /\ GrantUsable(my[d].grant)
       /\ sessionStatus = "ACTIVE"
       /\ facts["session"] = g.bound["session"]
       /\ sessionMode = g.mode
       /\ connected
       /\ facts["credential"] = g.bound["credential"]
       /\ IsConfirm(d) => /\ conf[my[d].conf].status = "PENDING"
                          /\ conf[my[d].conf].session = facts["session"]
       /\ sessionMode = "SEMI_AUTO" => IsConfirm(d) /\ ConfUsable(my[d].conf)
       /\ ~controlled
    /\ Goto(d, "permit")
    /\ UNCHANGED <<factVars, rows, my, job, fenced, changes>>

\* assertDispatchable.
Permit(d) ==
    /\ pc[d] = "permit"
    /\ ~controlled
    /\ Goto(d, "reserve")
    /\ UNCHANGED <<factVars, rows, my, job, fenced, changes>>

\* Mutant: the slot is taken without looking for the signal's existing trade.
Reserve_NoIdempotency(d) ==
    /\ pc[d] = "reserve"
    /\ trade' = [trade EXCEPT ![SignalOf(d)] = "PENDING"]
    /\ Goto(d, "reserved")
    /\ UNCHANGED <<factVars, grant, conf, intent, order, calls, my, job, fenced, changes>>

\* atomicallyReserveTradeSlot: lock, look up, INSERT, in one transaction.
Reserve(d) ==
    /\ pc[d] = "reserve"
    /\ trade[SignalOf(d)] = "none"
    /\ trade' = [trade EXCEPT ![SignalOf(d)] = "PENDING"]
    /\ Goto(d, "reserved")
    /\ UNCHANGED <<factVars, grant, conf, intent, order, calls, my, job, fenced, changes>>

\* DUPLICATE_EXISTING: bind the intent to the existing trade and return it.
DuplicateTrade(d) ==
    /\ pc[d] = "reserve"
    /\ trade[SignalOf(d)] # "none"
    /\ MarkIntent(SignalOf(d), "EXECUTED")
    /\ Goto(d, "done")
    /\ UNCHANGED <<factVars, grant, conf, trade, order, calls, my, job, fenced, changes>>

MarkExecuted(d) ==
    /\ pc[d] = "reserved"
    /\ MarkIntent(SignalOf(d), "EXECUTED")
    /\ Goto(d, "submit")
    /\ UNCHANGED <<factVars, grant, conf, trade, order, calls, my, job, fenced, changes>>

\* submitOrder and markSubmitted.  UNIQUE (clientOrderId) never fires: its key
\* is the signal, and the trade slot has already arbitrated that.
Submit(d) ==
    /\ pc[d] = "submit"
    /\ order' = [order EXCEPT ![SignalOf(d)] = "SUBMITTED"]
    /\ Goto(d, "safety")
    /\ UNCHANGED <<factVars, grant, conf, intent, trade, calls, my, job, fenced, changes>>

\* The capability contract and the market-safety gate.
MarketSafe(d) ==
    /\ pc[d] = "safety"
    /\ Goto(d, "cGrant")
    /\ UNCHANGED <<factVars, rows, my, job, fenced, changes>>

MarketUnsafe(d) ==
    /\ pc[d] = "safety"
    /\ order' = [order EXCEPT ![SignalOf(d)] = "REJECTED"]
    /\ Goto(d, "rejectTrade")
    /\ UNCHANGED <<factVars, grant, conf, intent, trade, calls, my, job, fenced, changes>>

-----------------------------------------------------------------------------
(* commitProviderDispatch.                                                  *)

\* One re-read of the authority chain: go on, or FinalDispatchBlockedException.
Reverify(d, at, ok, next) ==
    /\ pc[d] = at
    /\ Goto(d, IF ok THEN next ELSE "blocked")
    /\ UNCHANGED <<factVars, rows, my, job, fenced, changes>>

Same(d, f) == facts[f] = grant[my[d].grant].bound[f]

\* Mutant: the commitment trusts the authorisation that ran before the slot.
ReverifyAuthority_Skipped(d) == Reverify(d, "cAuthority", TRUE, "cPolicy")

ReverifyAuthority(d) == Reverify(d, "cAuthority", Same(d, "authority"), "cPolicy")

ReverifySession(d) ==
    Reverify(d, "cSession",
             sessionStatus = "ACTIVE" /\ Same(d, "session") /\ sessionMode = grant[my[d].grant].mode,
             "cCredential")

ReverifyChain(d) ==
    \/ Reverify(d, "cGrant", GrantUsable(my[d].grant), "cAuthority")
    \/ ReverifyAuthority(d)
    \/ Reverify(d, "cPolicy", Same(d, "policy"), "cCatalog")
    \/ Reverify(d, "cCatalog", Same(d, "catalog"), "cControl")
    \/ Reverify(d, "cControl", Same(d, "control"), "cProfile")
    \/ Reverify(d, "cProfile", Same(d, "profile"), "cSession")
    \/ ReverifySession(d)
    \/ Reverify(d, "cCredential", connected /\ Same(d, "credential"), "commit")

\* A shared-revision or connection read fails: blocked as well.
Unreadable(d) ==
    /\ pc[d] \in {"cPolicy", "cCatalog", "cControl", "cCredential"}
    /\ Goto(d, "blocked")
    /\ UNCHANGED <<factVars, rows, my, job, fenced, changes>>

\* The three compare-and-sets of the transaction find their rows.
CommitReady(d) ==
    /\ GrantUsable(my[d].grant)
    /\ IsConfirm(d) => ConfUsable(my[d].conf) /\ conf[my[d].conf].grant = my[d].grant
    /\ order[SignalOf(d)] = "SUBMITTED"

\* Mutant: the transaction forgets the confirmation.
CommitRows_NoConfirmation(d) ==
    /\ grant' = [grant EXCEPT ![my[d].grant].status = "CONSUMED"]
    /\ order' = [order EXCEPT ![SignalOf(d)] = "DISPATCH_COMMITTED"]
    /\ UNCHANGED conf

CommitRows(d) ==
    /\ grant' = [grant EXCEPT ![my[d].grant].status = "CONSUMED"]
    /\ conf' = IF IsConfirm(d) THEN [conf EXCEPT ![my[d].conf].status = "CONSUMED"] ELSE conf
    /\ order' = [order EXCEPT ![SignalOf(d)] = "DISPATCH_COMMITTED"]

\* The commitment: grant, confirmation and order in one transaction.
Commit(d) ==
    /\ pc[d] = "commit"
    /\ CommitReady(d)
    /\ CommitRows(d)
    /\ Goto(d, "committed")
    /\ UNCHANGED <<factVars, intent, trade, calls, my, job, fenced, changes>>

\* The transaction commits, its acknowledgement is lost, the catch blocks.
CommitAckLost(d) ==
    /\ pc[d] = "commit"
    /\ CommitReady(d)
    /\ CommitRows(d)
    /\ Goto(d, "blocked")
    /\ UNCHANGED <<factVars, intent, trade, calls, my, job, fenced, changes>>

\* One of the three finds no row: the transaction rolls back.
CommitLost(d) ==
    /\ pc[d] = "commit"
    /\ ~CommitReady(d)
    /\ Goto(d, "blocked")
    /\ UNCHANGED <<factVars, rows, my, job, fenced, changes>>

\* The provider call starts; its outcome is OrderLifecycle's subject.
Send(d) ==
    /\ pc[d] = "committed"
    /\ calls' = [calls EXCEPT ![SignalOf(d)] = @ + 1]
    /\ Goto(d, "done")
    /\ UNCHANGED <<factVars, grant, conf, intent, trade, order, my, job, fenced, changes>>

\* The blocked branch: rejectOrder, a guarded transition.
RejectOrder(d) ==
    /\ pc[d] = "blocked"
    /\ order' = IF order[SignalOf(d)] \in {"SUBMITTED", "DISPATCH_COMMITTED"}
                THEN [order EXCEPT ![SignalOf(d)] = "REJECTED"] ELSE order
    /\ Goto(d, "rejectTrade")
    /\ UNCHANGED <<factVars, grant, conf, intent, trade, calls, my, job, fenced, changes>>

\* executeTrade's two definite-non-exposure branches.
RejectTrade(d) ==
    /\ pc[d] = "rejectTrade"
    /\ trade' = IF trade[SignalOf(d)] = "PENDING"
                THEN [trade EXCEPT ![SignalOf(d)] = "REJECTED"] ELSE trade
    /\ MarkIntent(SignalOf(d), "REJECTED")
    /\ Goto(d, "done")
    /\ UNCHANGED <<factVars, grant, conf, order, calls, my, job, fenced, changes>>

\* Any other exception between the slot and the commitment: uncertain.
StoreError(d) ==
    /\ pc[d] \in {"submit", "safety", "cGrant", "cAuthority", "cProfile", "cSession"}
    /\ trade' = IF trade[SignalOf(d)] = "PENDING"
                THEN [trade EXCEPT ![SignalOf(d)] = "RECONCILIATION_PENDING"] ELSE trade
    /\ Goto(d, "done")
    /\ UNCHANGED <<factVars, grant, conf, intent, order, calls, my, job, fenced, changes>>

\* The process dies: what it had committed stays.
Crash(d) ==
    /\ pc[d] \notin {"idle", "done", "dead"}
    /\ Goto(d, "dead")
    /\ UNCHANGED <<factVars, rows, my, job, fenced, changes>>

DispatchStep(d) ==
    \/ Evaluate(d) \/ Bind(d) \/ Refuse(d)
    \/ Reuse(d) \/ FindOther(d) \/ FindNone(d) \/ Supersede(d) \/ RevokeSuperseded(d)
    \/ Insert(d) \/ InsertLost(d) \/ CreateConfirmation(d) \/ Rebind(d)
    \/ AwaitUser(d) \/ Preflight(d) \/ Abandon(d) \/ Authorize(d) \/ Permit(d)
    \/ Reserve(d) \/ DuplicateTrade(d) \/ MarkExecuted(d)
    \/ Submit(d) \/ MarketSafe(d) \/ MarketUnsafe(d)
    \/ ReverifyChain(d) \/ Commit(d) \/ CommitLost(d) \/ Send(d)
    \/ RejectOrder(d) \/ RejectTrade(d)

\* Failures the code meets in passing; nothing obliges them to happen.
Failure(d) ==
    \/ IssuanceFails(d) \/ Unreadable(d) \/ CommitAckLost(d) \/ StoreError(d) \/ Crash(d)

-----------------------------------------------------------------------------
(* Authority changes.                                                       *)

Change == changes < MaxChanges /\ changes' = changes + 1

Advance(F) == facts' = [f \in Facts |-> IF f \in F THEN facts[f] + 1 ELSE facts[f]]

\* Fact values no grant that outlived the sweep can carry.
Below(f, n) == {f} \X (0 .. n)

\* invalidateUserNewExposureAuthority inside the transaction of a change.
RevokeAuthority ==
    /\ InvalidateGrants(Grants)
    /\ RevokeConfs(Confs)
    /\ fenced' = fenced \union Below("authority", facts["authority"])

\* KYC, jurisdiction, governance and profile changes: fact, generation bump and
\* the sweep of every grant and confirmation of the user in one transaction.
AtomicChange(F) ==
    /\ Change
    /\ Advance(F \union {"authority"})
    /\ RevokeAuthority

Governance ==
    /\ AtomicChange({})
    /\ UNCHANGED <<sessionStatus, sessionMode, connected, controlled, killed, editing,
                   intent, trade, order, calls, pc, my, job>>

\* Mutant: the kill switch bumps the user's generation, not the profile revision.
KillSwitch_NoRevision(on) ==
    /\ AtomicChange({})
    /\ killed' = on
    /\ UNCHANGED <<sessionStatus, sessionMode, connected, controlled, editing,
                   intent, trade, order, calls, pc, my, job>>

\* toggleKillSwitch, which bumps whether or not the value changes, when nothing
\* commits between its read of the row and its save.
KillSwitch(on) ==
    /\ AtomicChange({"profile"})
    /\ killed' = on
    /\ UNCHANGED <<sessionStatus, sessionMode, connected, controlled, editing,
                   intent, trade, order, calls, pc, my, job>>

\* updateProfile, or toggleKillSwitch at READ COMMITTED, reads the row.
LoadProfile(e) ==
    /\ edit[e] = NoCopy
    /\ edit' = [edit EXCEPT ![e] = [step |-> "loaded", rev |-> facts["profile"],
                                    killed |-> killed]]
    /\ UNCHANGED <<facts, sessionStatus, sessionMode, connected, controlled, killed,
                   overwritten, rows, pc, my, job, fenced, changes>>

\* save(profile) writes back every column in which the copy differs from the row,
\* the revision and the kill switch among them.
SaveCopy(e) ==
    /\ edit[e].step = "loaded"
    /\ edit' = [edit EXCEPT ![e] = NoCopy]
    /\ overwritten' = (overwritten \/ edit[e].rev # facts["profile"])

\* A display-only edit stops there.
SaveDisplayEdit(e) ==
    /\ SaveCopy(e)
    /\ facts' = [facts EXCEPT !["profile"] = edit[e].rev]
    /\ killed' = edit[e].killed
    /\ UNCHANGED <<sessionStatus, sessionMode, connected, controlled,
                   rows, pc, my, job, fenced, changes>>

\* A material edit (on = the copy's switch) or a toggle bumps what it wrote back.
SaveProfile(e, on) ==
    /\ SaveCopy(e)
    /\ Change
    /\ facts' = [facts EXCEPT !["profile"] = edit[e].rev + 1, !["authority"] = @ + 1]
    /\ RevokeAuthority
    /\ killed' = on
    /\ UNCHANGED <<sessionStatus, sessionMode, connected, controlled,
                   intent, trade, order, calls, pc, my, job>>

\* A deployment advances the trading policy or the provider catalog.
SharedAdvance(f) ==
    /\ Change
    /\ Advance({f})
    /\ UNCHANGED <<sessionStatus, sessionMode, connected, controlled, killed, editing,
                   rows, pc, my, job, fenced>>

\* Mutant: activation forgets the control revision.
SetControl_NoBump(on) ==
    /\ controlled # on
    /\ Change
    /\ controlled' = on
    /\ UNCHANGED <<facts, sessionStatus, sessionMode, connected, killed, editing,
                   rows, pc, my, job, fenced>>

\* activateControl / deactivateControl: row and revision in one transaction.
SetControl(on) ==
    /\ controlled # on
    /\ Change
    /\ controlled' = on
    /\ Advance({"control"})
    /\ UNCHANGED <<sessionStatus, sessionMode, connected, killed, editing,
                   rows, pc, my, job, fenced>>

\* expiresAt passes: reads ignore the row from now on, nothing is written.
ControlExpires ==
    /\ controlled
    /\ controlled' = FALSE
    /\ UNCHANGED <<facts, sessionStatus, sessionMode, connected, killed, editing,
                   rows, pc, my, job, fenced, changes>>

\* Disconnect, suspension or credential invalidation: the fact first, then
\* (best effort) the bump and the sweep.
BrokerDown(r) ==
    /\ job[r] = NoJob
    /\ connected
    /\ Change
    /\ connected' = FALSE
    /\ job' = [job EXCEPT ![r] = [step |-> "bump", kind |-> "user", gen |-> 0]]
    /\ UNCHANGED <<facts, sessionStatus, sessionMode, controlled, killed, editing,
                   rows, pc, my, fenced>>

\* OAuth rotation: the new token set and its generation, then the same.
RotateCredential(r) ==
    /\ job[r] = NoJob
    /\ connected
    /\ Change
    /\ Advance({"credential"})
    /\ job' = [job EXCEPT ![r] = [step |-> "bump", kind |-> "user", gen |-> 0]]
    /\ UNCHANGED <<sessionStatus, sessionMode, connected, controlled, killed, editing,
                   rows, pc, my, fenced>>

\* connectBroker succeeds again: no counter moves.
Reconnect ==
    /\ ~connected
    /\ connected' = TRUE
    /\ UNCHANGED <<facts, sessionStatus, sessionMode, controlled, killed, editing,
                   rows, pc, my, job, fenced, changes>>

\* A session transition: one CAS on status and generation, then the sweep of
\* what was bound to the observed generation.
SessionChange(r, status, mode, kind) ==
    /\ job[r] = NoJob
    /\ Change
    /\ sessionStatus' = status
    /\ sessionMode' = mode
    /\ Advance({"session"})
    /\ job' = [job EXCEPT ![r] = [step |-> "grants", kind |-> kind, gen |-> facts["session"]]]
    /\ UNCHANGED <<connected, controlled, killed, editing, rows, pc, my, fenced>>

ChangeMode(r, mode) ==
    /\ sessionStatus = "ACTIVE"
    /\ SessionChange(r, "ACTIVE", mode, "session")

SuspendForRiskLimit(r) ==
    /\ sessionStatus = "ACTIVE"
    /\ SessionChange(r, "SUSPENDED_RISK_LIMIT", sessionMode, "suspend")

Resume(r) ==
    /\ sessionStatus = "SUSPENDED_RISK_LIMIT"
    /\ SessionChange(r, "ACTIVE", sessionMode, "session")

EndSession(r) ==
    /\ sessionStatus # "ENDED"
    /\ SessionChange(r, "ENDED", sessionMode, "session")

BumpAuthority(r) ==
    /\ job[r].step = "bump"
    /\ Advance({"authority"})
    /\ job' = [job EXCEPT ![r].step = "grants"]
    /\ UNCHANGED <<sessionStatus, sessionMode, connected, controlled, killed, editing,
                   rows, pc, my, fenced, changes>>

\* invalidateUserNewExposureAuthority, invalidateOutstandingAuthority or
\* invalidateGrantsForSession: the grants.
SweepGrants(r) ==
    /\ job[r].step = "grants"
    /\ \/ /\ job[r].kind = "user"
          /\ InvalidateGrants(Grants)
          /\ fenced' = fenced \union Below("authority", facts["authority"] - 1)
          /\ job' = [job EXCEPT ![r].step = "confs"]
       \/ /\ job[r].kind = "session"
          /\ InvalidateGrants({g \in Grants : grant[g].bound["session"] = job[r].gen})
          /\ fenced' = fenced \union {<<"session", job[r].gen>>}
          /\ job' = [job EXCEPT ![r].step = "confs"]
       \/ /\ job[r].kind = "suspend"
          /\ InvalidateGrants(Grants)
          /\ fenced' = fenced \union Below("session", job[r].gen)
          /\ job' = [job EXCEPT ![r] = NoJob]
    /\ UNCHANGED <<factVars, conf, intent, trade, order, calls, pc, my, changes>>

\* ... then the confirmations.
SweepConfs(r) ==
    /\ job[r].step = "confs"
    /\ RevokeConfs(IF job[r].kind = "user" THEN Confs
                   ELSE {c \in Confs : conf[c].session = job[r].gen})
    /\ job' = [job EXCEPT ![r] = NoJob]
    /\ UNCHANGED <<factVars, grant, intent, trade, order, calls, pc, my, fenced, changes>>

\* A statement fails (logged, never retried) or the process dies.
JobFails(r) ==
    /\ job[r] # NoJob
    /\ job' = [job EXCEPT ![r] = NoJob]
    /\ UNCHANGED <<factVars, rows, pc, my, fenced, changes>>

-----------------------------------------------------------------------------
(* Time.                                                                    *)

GrantLapses(g) ==
    /\ GrantUsable(g)
    /\ grant' = [grant EXCEPT ![g].lapsed = TRUE]
    /\ UNCHANGED <<factVars, conf, intent, trade, order, calls, pc, my, job, fenced, changes>>

ConfLapses(c) ==
    /\ ConfUsable(c)
    /\ conf' = [conf EXCEPT ![c].lapsed = TRUE]
    /\ UNCHANGED <<factVars, grant, intent, trade, order, calls, pc, my, job, fenced, changes>>

\* The expiry job's two sweeps.
ExpireConfirmation(c) ==
    /\ conf[c].status = "PENDING" /\ conf[c].lapsed
    /\ conf' = [conf EXCEPT ![c].status = "EXPIRED"]
    /\ UNCHANGED <<factVars, grant, intent, trade, order, calls, pc, my, job, fenced, changes>>

ExpireIntent(s) ==
    /\ intent[s] = "CREATED"
    /\ MarkIntent(s, "EXPIRED")
    /\ UNCHANGED <<factVars, grant, conf, trade, order, calls, pc, my, job, fenced, changes>>

-----------------------------------------------------------------------------

Environment ==
    \/ Governance
    \/ \E on \in BOOLEAN : KillSwitch(on) \/ SetControl(on)
    \/ \E f \in {"policy", "catalog"} : SharedAdvance(f)
    \/ ControlExpires \/ Reconnect
    \/ \E e \in Editors :
          \/ LoadProfile(e) \/ SaveDisplayEdit(e)
          \/ \E on \in BOOLEAN : SaveProfile(e, on)
    \/ \E r \in Revokers :
          \/ BrokerDown(r) \/ RotateCredential(r)
          \/ \E mode \in Modes : ChangeMode(r, mode)
          \/ SuspendForRiskLimit(r) \/ Resume(r) \/ EndSession(r)
          \/ BumpAuthority(r) \/ SweepGrants(r) \/ SweepConfs(r) \/ JobFails(r)
    \/ \E g \in Grants : GrantLapses(g)
    \/ \E c \in Confs : ConfLapses(c) \/ ExpireConfirmation(c)
    \/ \E s \in Signals : ExpireIntent(s)

Next ==
    \/ \E d \in Dispatches :
          \/ \E s \in Signals : Deliver(d, s)
          \/ \E c \in Confs : Confirm(d, c)
          \/ DispatchStep(d)
          \/ Failure(d)
    \/ Environment

Spec == Init /\ [][Next]_vars

\* A live process gets the answer of the statement it awaits.
FairSpec == Spec /\ \A d \in Dispatches : WF_vars(DispatchStep(d))

-----------------------------------------------------------------------------
(* Properties.                                                              *)

Stages ==
    {"idle", "evaluate", "bind", "find", "supersede", "revoke", "insert", "confirmation",
     "issued", "authorize", "permit", "reserve", "reserved", "submit", "safety",
     "cGrant", "cAuthority", "cPolicy", "cCatalog", "cControl", "cProfile", "cSession",
     "cCredential", "commit", "committed", "blocked", "rejectTrade", "done", "dead"}

SignalOrNone == Signals \union {"none"}
IntentStatus == {"CREATED", "EXECUTED", "REJECTED", "EXPIRED"}
TradeStatus == {"none", "PENDING", "REJECTED", "RECONCILIATION_PENDING"}
OrderStatus == {"none", "SUBMITTED", "DISPATCH_COMMITTED", "REJECTED"}

GrantRow == [status : {"free", "ACTIVE", "CONSUMED", "INVALIDATED"}, signal : SignalOrNone,
             mode : Modes, bound : [Facts -> Nat], lapsed : BOOLEAN]
ConfRow == [status : {"free", "PENDING", "CONSUMED", "REVOKED", "EXPIRED"},
            signal : SignalOrNone, grant : Grants \union {None}, session : Nat,
            lapsed : BOOLEAN]
Locals == [signal : SignalOrNone, conf : Confs \union {None}, grant : Grants \union {None},
           seen : [Facts -> Nat], mode : Modes, attempt : 0 .. 3]
Edit == [step : {"idle", "loaded"}, rev : Nat, killed : BOOLEAN]
Job == [step : {"idle", "bump", "grants", "confs"},
        kind : {"none", "user", "session", "suspend"}, gen : Nat]

\* Every variable has its type.
TypeOK ==
    /\ facts \in [Facts -> Nat]
    /\ sessionStatus \in {"ACTIVE", "SUSPENDED_RISK_LIMIT", "ENDED"}
    /\ sessionMode \in Modes
    /\ connected \in BOOLEAN /\ controlled \in BOOLEAN /\ killed \in BOOLEAN
    /\ edit \in [Editors -> Edit] /\ overwritten \in BOOLEAN
    /\ grant \in [Grants -> GrantRow]
    /\ conf \in [Confs -> ConfRow]
    /\ intent \in [Signals -> IntentStatus]
    /\ trade \in [Signals -> TradeStatus]
    /\ order \in [Signals -> OrderStatus]
    /\ calls \in [Signals -> Nat]
    /\ pc \in [Dispatches -> Stages]
    /\ my \in [Dispatches -> Locals]
    /\ job \in [Revokers -> Job]
    /\ fenced \subseteq {"authority", "session"} \X Nat
    /\ changes \in Nat

\* A trade the platform reports as definitely not sent never reached the
\* provider, not even when the commitment's acknowledgement was lost.
RejectedTradeNeverSent ==
    \A s \in Signals :
        trade[s] = "REJECTED" =>
            /\ calls[s] = 0
            /\ \A d \in Dispatches : pc[d] = "committed" => SignalOf(d) # s

\* A SEMI_AUTO grant is consumed together with the user's own confirmation of
\* that signal, bound to that very grant, and a confirmation is never spent alone.
ConfirmationSpentWithGrant ==
    /\ \A g \in Grants :
          grant[g].status = "CONSUMED" /\ grant[g].mode = "SEMI_AUTO" =>
              \E c \in Confs : /\ conf[c].status = "CONSUMED"
                               /\ conf[c].grant = g
                               /\ conf[c].signal = grant[g].signal
    /\ \A c \in Confs :
          conf[c].status = "CONSUMED" => grant[conf[c].grant].status = "CONSUMED"

\* From the statement that sweeps the grants of a revoked generation on, no
\* grant bound to that generation is ever consumed: not one issued before, and
\* not one an evaluation that read the old generation inserts afterwards.
RevocationFencesCommitment ==
    [][\A g \in Grants :
          grant[g].status = "ACTIVE" /\ grant'[g].status = "CONSUMED" =>
              \A f \in {"authority", "session"} : <<f, grant[g].bound[f]>> \notin fenced]_vars

\* When the commitment's control-revision read passes, no emergency control is
\* in force, although the permission itself was read several awaits earlier.
ControlStopsCommitment ==
    [][\A d \in Dispatches : pc[d] = "cControl" /\ pc'[d] = "cProfile" => ~controlled]_vars

\* When the commitment's profile-revision read passes, the kill switch is off,
\* although its value was read once, at the start of the evaluation.  The one
\* exception the code leaves: a profile save of an outdated copy has written an
\* old revision back, so that a bound number can return with the switch on.
KillSwitchStopsCommitment ==
    [][\A d \in Dispatches : pc[d] = "cProfile" /\ pc'[d] = "cSession" => ~killed \/ overwritten]_vars

\* A kill switch that is on is only turned off by a toggle.  Not kept: an edit
\* that loaded the profile before the switch was set writes the old value back.
KillSwitchHolds ==
    [][killed /\ ~killed' => changes' > changes]_vars

\* Every dispatch that is not killed ends: the convergence loop is bounded and
\* no gate is waited on.
DispatchEnds ==
    \A d \in Dispatches : pc[d] # "idle" ~> pc[d] \in {"done", "dead"}

\* final-dispatch-boundary.ts: "any authority change BEFORE this commitment =>
\* ZERO provider calls": what is consumed is current at that instant.  The code
\* does not keep this one: the comparisons are reads before the transaction.
CutoffIsExact ==
    [][\A g \in Grants :
          grant[g].status = "ACTIVE" /\ grant'[g].status = "CONSUMED" =>
              /\ grant[g].bound = facts
              /\ sessionStatus = "ACTIVE" /\ connected /\ ~controlled /\ ~killed]_vars

\* execution-orchestrator.service.ts: the boundary threw "with nothing consumed".
\* Not kept when the acknowledgement of the commit is lost.
BlockedConsumesNothing ==
    \A d \in Dispatches :
        pc[d] = "blocked" => grant[my[d].grant].status # "CONSUMED"

-----------------------------------------------------------------------------
(* The inductive invariant behind the three commitment properties.          *)

IsIssued(g) == grant[g].status # "free"

Holding == Stages \ {"idle", "evaluate", "bind", "find", "insert", "done", "dead"}
Evaluated == {"bind", "find", "supersede", "revoke", "insert"}
Bound == {"find", "supersede", "revoke", "insert"}
Permitted == {"reserve", "reserved", "submit", "safety", "cGrant", "cAuthority",
              "cPolicy", "cCatalog", "cControl"}
PastAuthority == {"cPolicy", "cCatalog", "cControl", "cProfile", "cSession",
                  "cCredential", "commit"}
PastSession == {"cCredential", "commit"}

\* A profile revision that is not ahead of the present and, when it is the
\* present one, was read with the switch off.
RevisionSound(n) == n <= facts["profile"] /\ (killed => n # facts["profile"])

\* What an issued grant binds is not ahead of the present, and, as long as no
\* old profile was written back, it was evaluated with the switch off.
GrantSound(g) ==
    IsIssued(g) => /\ grant[g].bound["control"] <= facts["control"]
                   /\ ~overwritten => RevisionSound(grant[g].bound["profile"])

\* The same of what an evaluation has read so far.
EvaluationSound(d) ==
    /\ pc[d] \in Evaluated /\ ~overwritten => RevisionSound(my[d].seen["profile"])
    /\ pc[d] \in Bound => my[d].seen["control"] <= facts["control"]

\* A dispatch names a grant row that exists.
HoldsGrant(d) ==
    /\ pc[d] \in Holding => my[d].grant # None
    /\ my[d].grant # None => IsIssued(my[d].grant)

\* Between the permission and the control-revision read.
PermissionSound(d) ==
    pc[d] \in Permitted /\ controlled =>
        grant[my[d].grant].bound["control"] # facts["control"]

\* After the authority (session) read, a grant that is still ACTIVE escaped
\* every sweep of its generation.
Unfenced(d) ==
    grant[my[d].grant].status = "ACTIVE" =>
        /\ pc[d] \in PastAuthority =>
              <<"authority", grant[my[d].grant].bound["authority"]>> \notin fenced
        /\ pc[d] \in PastSession =>
              <<"session", grant[my[d].grant].bound["session"]>> \notin fenced

DispatchSound(d) ==
    EvaluationSound(d) /\ HoldsGrant(d)
        /\ (my[d].grant # None => PermissionSound(d) /\ Unfenced(d))

\* A copy of the present revision is a copy of the present row.
EditSound(e) ==
    edit[e].step = "loaded" /\ ~overwritten =>
        /\ edit[e].rev <= facts["profile"]
        /\ edit[e].rev = facts["profile"] => edit[e].killed = killed

\* Only generations that have passed are fenced, or about to be.
FencedBelow == \A f \in {"authority", "session"}, n \in Nat : <<f, n>> \in fenced => n < facts[f]
JobBelow == \A r \in Revokers :
                /\ job[r].step = "bump" => job[r].kind = "user"
                /\ job[r].step = "grants" /\ job[r].kind # "user" => job[r].gen < facts["session"]

AuthorityInv ==
    /\ TypeOK
    /\ \A g \in Grants : GrantSound(g)
    /\ \A d \in Dispatches : DispatchSound(d)
    /\ \A e \in Editors : EditSound(e)
    /\ FencedBelow
    /\ JobBelow
=============================================================================
