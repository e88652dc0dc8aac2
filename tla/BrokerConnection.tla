-------------------------- MODULE BrokerConnection --------------------------
(***************************************************************************)
(* One row of broker_connections and the operations that change it beside  *)
(* each other: connect, the recovery job's reconnect, the health check,    *)
(* disconnect, delete, enable, revoke, DEMO validation and manual credential *)
(* rotation (BrokerService), with the OAuth refresh under its lease         *)
(* (BrokerOAuthTokenLifecycleService) that connect and the health check run *)
(* before they use the stored credentials.                                  *)
(*                                                                          *)
(* A worker is a request or a job.  It loads the row once and decides on    *)
(* its copy; each later statement is a step.  The authority invalidation    *)
(* that follows a transition is the revoker of NewExposure.                 *)
(***************************************************************************)
EXTENDS Naturals, FiniteSets

CONSTANTS
    Workers,      \* requests and jobs that run at once
    AccountType,  \* the declared environment, "DEMO" or "LIVE"
    MaxOps,       \* bound: operations started
    MaxPairs,     \* bound: token pairs the provider issues
    MaxClaims,    \* bound: lease claims (owner tokens)
    MaxPolls,     \* polls a waiter's budget allows, at most 3
    MaxFaults     \* bound: store failures, lost answers, dead processes

ASSUME BoundsAreNaturals ==
    {MaxOps, MaxPairs, MaxClaims, MaxPolls, MaxFaults} \subseteq Nat /\ MaxPairs > 0 /\ MaxPolls <= 3

ASSUME AccountTypeIsKnown == AccountType \in {"DEMO", "LIVE"}

VARIABLES
    row,      \* the persisted connection
    work,     \* work[w]: what a worker is doing, with its copy of the row
    alive,    \* token pairs the provider still accepts
    issued,   \* pairs issued so far
    claims,   \* owner tokens minted so far
    ops,      \* operations started
    faults    \* faults that have happened

vars == <<row, work, alive, issued, claims, ops, faults>>

-----------------------------------------------------------------------------
\* The authorization states that some operation can reach.
AuthStatus == {"NOT_CONNECTED", "CONNECTING", "CONNECTED", "ACTIVE",
               "SUSPENDED", "REVOKED", "ERROR", "DISCONNECTED"}

LinkStatus == {"DISCONNECTED", "CONNECTING", "CONNECTED", "SUSPENDED", "ERROR"}

CredentialStatus == {"CREATED", "VERIFIED", "ROTATED", "INVALID"}

SUSPEND_THRESHOLD == 3

\* ALLOWED_TRANSITIONS, restricted to those states.
AllowedFrom ==
    [NOT_CONNECTED |-> {"CONNECTING", "DISCONNECTED", "ERROR"},
     CONNECTING    |-> {"CONNECTED", "ERROR", "NOT_CONNECTED", "DISCONNECTED"},
     CONNECTED     |-> {"ACTIVE", "DISCONNECTED", "ERROR", "SUSPENDED"},
     ACTIVE        |-> {"SUSPENDED", "REVOKED", "DISCONNECTED", "ERROR"},
     SUSPENDED     |-> {"CONNECTED", "ACTIVE", "REVOKED", "DISCONNECTED", "ERROR"},
     REVOKED       |-> {"NOT_CONNECTED", "DISCONNECTED", "CONNECTING"},
     ERROR         |-> {"CONNECTING", "NOT_CONNECTED", "DISCONNECTED", "SUSPENDED",
                        "REVOKED"},
     DISCONNECTED  |-> {"CONNECTING", "NOT_CONNECTED", "REVOKED", "ERROR"}]

CanTransition(from, to) == to \in AllowedFrom[from]

\* A state to enter when the table allows it, else the one that stays.
EnterIfAllowed(from, to) == IF CanTransition(from, to) THEN to ELSE from

IsUsable(cred) == cred \in {"CREATED", "VERIFIED", "ROTATED"}

\* lease: not null and not past; owner: the token, kept when the lease runs out.
RowType ==
    [auth: AuthStatus, status: LinkStatus, cred: CredentialStatus,
     pair: 1..MaxPairs, gen: 0..MaxPairs, lease: BOOLEAN, owner: 0..MaxClaims,
     failures: Nat, demo: BOOLEAN, mismatch: BOOLEAN,
     deleted: BOOLEAN]

Operations == {"connect", "recover", "health", "disconnect", "delete", "enable",
               "revoke", "validate", "rotate"}

Steps == {"idle", "enter", "fresh", "claim", "wait", "reclaim", "verify", "refresh",
          "persist", "lost", "reject", "release", "adopt", "handshake", "connected",
          "refused", "mismatched", "failed", "healthy", "suspend", "disconnect", "remove",
          "enable", "revoke", "checked", "pass", "fail", "unvalidate", "store"}

NewRow ==
    [auth |-> "NOT_CONNECTED", status |-> "DISCONNECTED", cred |-> "CREATED",
     pair |-> 1, gen |-> 0, lease |-> FALSE, owner |-> 0, failures |-> 0,
     demo |-> FALSE, mismatch |-> FALSE, deleted |-> FALSE]

\* The columns of the loaded row that a later statement of an operation uses.
Copy(op, r) ==
    [auth |-> r.auth, pair |-> r.pair, gen |-> r.gen, demo |-> r.demo,
     failures |-> IF op \in {"health", "recover"} THEN r.failures ELSE 0]

\* A finished worker keeps nothing.
Done == [op |-> "none", pc |-> "idle", seen |-> Copy("none", NewRow),
         inflight |-> "NOT_CONNECTED", token |-> 0, got |-> 0, using |-> 0,
         then |-> "idle", tries |-> 0, authClass |-> FALSE]

CopyType ==
    [auth: AuthStatus, pair: 1..MaxPairs, gen: 0..MaxPairs, demo: BOOLEAN,
     failures: Nat]

WorkType ==
    [op: Operations \cup {"none"}, pc: Steps, seen: CopyType, inflight: AuthStatus,
     token: 0..MaxClaims, got: 0..MaxPairs, using: 0..MaxPairs,
     then: {"idle", "failed", "handshake", "adopt"}, tries: 0..3,
     authClass: BOOLEAN]

\* Every variable has its type: in particular a guarded write only ever leads to
\* an authorization state that some operation can reach.
TypeOK ==
    /\ row \in RowType
    /\ work \in [Workers -> WorkType]
    /\ alive \subseteq 1..MaxPairs
    /\ issued \in 1..MaxPairs /\ claims \in 0..MaxClaims
    /\ ops \in 0..MaxOps /\ faults \in 0..MaxFaults

\* A row before its first connect, and established ones: connected (with or
\* without a passed validation) or executing, after none or two failed checks.
Init ==
    /\ \/ row = NewRow
       \/ \E auth \in {"CONNECTED", "ACTIVE"}, demo \in BOOLEAN, failures \in {0, 2} :
             row = [NewRow EXCEPT !.status = "CONNECTED", !.cred = "VERIFIED", !.auth = auth,
                                  !.demo = demo, !.failures = failures]
    /\ row.auth = "ACTIVE" /\ AccountType = "DEMO" => row.demo
    /\ work = [w \in Workers |-> Done]
    /\ alive = {1} /\ issued = 1 /\ claims = 0 /\ ops = 0 /\ faults = 0

-----------------------------------------------------------------------------
\* A worker moves and only its own record, or the row too, changes.
Goto(w, pc) == work' = [work EXCEPT ![w].pc = pc]
Finish(w) == work' = [work EXCEPT ![w] = Done]
At(w, pc) == work[w].pc = pc
WorkerOnly == UNCHANGED <<alive, issued, claims, ops, faults>>

\* The connect phase of a worker is over: validate-demo goes on to its checklist.
ConnectPhaseEnds(w) ==
    IF work[w].op = "validate" THEN Goto(w, "checked") ELSE Finish(w)

\* UPDATE ... WHERE id AND authorization_status = expected.
Guard(expected) == row.auth = expected

\* Recovery probes stay visibly SUSPENDED until the handshake succeeds.
PreserveSuspended(w) == work[w].op = "recover"

\* What each operation checks on the row it loads before its first statement.
Admits(op) ==
    CASE op = "connect"    -> IsUsable(row.cred)
      [] op = "recover"    -> /\ row.status = "SUSPENDED" /\ row.auth = "SUSPENDED"
                              /\ row.failures >= SUSPEND_THRESHOLD /\ ~row.mismatch
                              /\ IsUsable(row.cred)
      [] op = "health"     -> row.status = "CONNECTED" /\ IsUsable(row.cred)
      [] op = "enable"     ->
             /\ CanTransition(row.auth, "ACTIVE")
             /\ AccountType = "DEMO" => row.status = "CONNECTED" /\ row.demo
      [] op = "revoke"     -> CanTransition(row.auth, "REVOKED")
      [] op = "validate"   -> AccountType = "DEMO"
      [] OTHER             -> TRUE

FirstStep(op) ==
    CASE op = "health"     -> "fresh"
      [] op = "disconnect" -> "disconnect"
      [] op = "delete"     -> IF row.status = "CONNECTED" THEN "disconnect" ELSE "remove"
      [] op = "enable"     -> "enable"
      [] op = "revoke"     -> "revoke"
      [] op = "rotate"     -> "store"
      [] op = "validate"   -> IF IsUsable(row.cred) THEN "enter" ELSE "checked"
      [] OTHER             -> "enter"

Start(w, op) ==
    /\ At(w, "idle") /\ ops < MaxOps /\ ~row.deleted /\ Admits(op)
    /\ ops' = ops + 1
    /\ work' = [work EXCEPT ![w] = [Done EXCEPT !.op = op, !.pc = FirstStep(op),
                                    !.seen = Copy(op, row),
                                    !.inflight = row.auth]]
    /\ UNCHANGED <<row, alive, issued, claims, faults>>

\* connectBroker: the guarded CONNECTING write, a Conflict when it loses.  A
\* recovery probe writes SUSPENDED and the failure count of its copy instead.
EnterConnecting(w) ==
    LET seen == work[w].seen
        auth == EnterIfAllowed(seen.auth, "CONNECTING")
    IN  /\ At(w, "enter")
        /\ IF Guard(seen.auth)
           THEN /\ row' = IF PreserveSuspended(w)
                          THEN [row EXCEPT !.auth = auth, !.status = "SUSPENDED",
                                           !.failures = seen.failures]
                          ELSE [row EXCEPT !.auth = auth, !.status = "CONNECTING",
                                           !.failures = 0]
                /\ work' = [work EXCEPT ![w].pc = "fresh", ![w].inflight = auth]
           ELSE row' = row /\ ConnectPhaseEnds(w)
        /\ WorkerOnly

-----------------------------------------------------------------------------
(* ensureFreshTokens.                                                       *)

\* Whether the loaded pair is near its expiry is a matter of time; only the OAuth
\* family, whose LIVE accounts are not admitted, has pairs to refresh.
EnsureFreshTokens(w) ==
    /\ At(w, "fresh")
    /\ \/ work' = [work EXCEPT ![w].pc = "handshake", ![w].using = work[w].seen.pair]
       \/ AccountType = "DEMO" /\ Goto(w, "claim")
    /\ UNCHANGED row /\ WorkerOnly

\* Mutant: the claim does not look at the lease.
LeaseFree_Ignored == TRUE

\* WHERE the lease is null or past.
LeaseFree == ~row.lease

\* tryClaimLease: expiry and a fresh owner token in one conditional UPDATE.
ClaimWon(w) ==
    /\ work[w].pc \in {"claim", "reclaim"} /\ LeaseFree /\ claims < MaxClaims
    /\ claims' = claims + 1
    /\ row' = [row EXCEPT !.lease = TRUE, !.owner = claims + 1]
    /\ work' = [work EXCEPT ![w].pc = "verify", ![w].token = claims + 1]
    /\ UNCHANGED <<alive, issued, ops, faults>>

\* Mutant: the waiter has no deadline.
NextPoll_Unbounded(tries) == tries

\* A waiter's deadline, counted in polls.
NextPoll(tries) == tries + 1

\* Somebody else holds it: wait, at most for the budget (retryable RATE_LIMITED).
ClaimLost(w) ==
    /\ work[w].pc \in {"claim", "reclaim"} /\ ~LeaseFree
    /\ work' = [work EXCEPT ![w] =
           IF @.pc = "reclaim" /\ NextPoll(@.tries) >= MaxPolls THEN [@ EXCEPT !.pc = "failed"]
           ELSE [@ EXCEPT !.pc = "wait",
                          !.tries = IF work[w].pc = "reclaim" THEN NextPoll(work[w].tries)
                                    ELSE work[w].tries]]
    /\ UNCHANGED row /\ WorkerOnly

\* adoptUsableNewerCredential: the row's pair, when its status is usable.
Adopt(r) == IF IsUsable(row.cred) THEN [r EXCEPT !.then = "handshake", !.using = row.pair]
            ELSE [r EXCEPT !.then = "failed"]
Newer(r) == row.gen > r.seen.gen

\* A waiter reloads the row.
WaitReload(w) ==
    /\ At(w, "wait")
    /\ work' = [work EXCEPT ![w] =
           IF Newer(@) THEN [Adopt(@) EXCEPT !.pc = Adopt(work[w]).then]
           ELSE IF row.cred = "INVALID" THEN [@ EXCEPT !.pc = "failed"]
           ELSE [@ EXCEPT !.pc = "reclaim"]]
    /\ UNCHANGED row /\ WorkerOnly

\* refreshAsWinner re-reads the row before it spends the refresh.
VerifyClaim(w) ==
    /\ At(w, "verify")
    /\ work' = [work EXCEPT ![w] =
           IF Newer(@) THEN [Adopt(@) EXCEPT !.pc = "release"]
           ELSE IF row.cred = "INVALID" THEN [@ EXCEPT !.pc = "release", !.then = "failed"]
           ELSE [@ EXCEPT !.pc = "refresh"]]
    /\ UNCHANGED row /\ WorkerOnly

\* The provider exchanges a live pair for a new one and forgets the old one ...
RefreshAccepted(w) ==
    /\ At(w, "refresh") /\ work[w].seen.pair \in alive /\ issued < MaxPairs
    /\ issued' = issued + 1
    /\ alive' = (alive \ {work[w].seen.pair}) \cup {issued + 1}
    /\ \/ /\ work' = [work EXCEPT ![w].pc = "persist", ![w].got = issued + 1]
          /\ faults' = faults
       \/ \* ... or does so and the answer is lost.
          /\ faults < MaxFaults /\ faults' = faults + 1
          /\ work' = [work EXCEPT ![w].pc = "release", ![w].then = "failed"]
    /\ UNCHANGED <<row, claims, ops>>

\* AUTHENTICATION_FAILED for a dead pair, or a transient failure.
RefreshFails(w) ==
    /\ At(w, "refresh")
    /\ work' = [work EXCEPT ![w] =
           IF @.seen.pair \notin alive THEN [@ EXCEPT !.pc = "reject"]
           ELSE [@ EXCEPT !.pc = "release", !.then = "failed"]]
    /\ UNCHANGED row /\ WorkerOnly

Fenced(w) == row.gen = work[w].seen.gen /\ row.owner = work[w].token

\* Pair, ROTATED, generation and lease release in one guarded UPDATE.
PersistedRow(w) ==
    [row EXCEPT !.pair = work[w].got, !.cred = "ROTATED", !.gen = @ + 1,
                !.lease = FALSE, !.owner = 0]

Persist(w) ==
    /\ At(w, "persist")
    /\ row' = IF Fenced(w) THEN PersistedRow(w) ELSE row
    /\ work' = [work EXCEPT ![w] =
           IF Fenced(w) THEN [@ EXCEPT !.pc = "handshake", !.using = work[w].got]
           ELSE [@ EXCEPT !.pc = "lost"]]
    /\ WorkerOnly

\* The UPDATE throws; it may have been applied.
PersistFails(w) ==
    /\ At(w, "persist") /\ faults < MaxFaults
    /\ row' \in {row, IF Fenced(w) THEN PersistedRow(w) ELSE row}
    /\ Goto(w, "reject") /\ faults' = faults + 1
    /\ UNCHANGED <<alive, issued, claims, ops>>

\* Zero rows: reload, adopt a newer usable pair, never write.
PersistLost(w) ==
    /\ At(w, "lost")
    /\ work' = [work EXCEPT ![w] =
           [(IF Newer(@) THEN Adopt(@) ELSE [@ EXCEPT !.then = "failed"])
               EXCEPT !.pc = "release"]]
    /\ UNCHANGED row /\ WorkerOnly

\* markRefreshRejected: INVALID for exactly the observed generation of the owner.
MarkRefreshRejected(w) ==
    /\ At(w, "reject")
    /\ row' = IF Fenced(w) THEN [row EXCEPT !.cred = "INVALID", !.lease = FALSE, !.owner = 0]
              ELSE row
    /\ work' = [work EXCEPT ![w].pc = "release",
                            ![w].then = IF ~Fenced(w) /\ Newer(work[w]) /\ IsUsable(row.cred)
                                        THEN "adopt" ELSE "failed"]
    /\ WorkerOnly

\* releaseLease, best effort, then the outcome decided before it.
ReleaseLease(w) ==
    /\ At(w, "release")
    /\ row' = IF row.owner = work[w].token THEN [row EXCEPT !.lease = FALSE, !.owner = 0]
              ELSE row
    /\ Goto(w, work[w].then)
    /\ WorkerOnly

\* The statement of a marking or a release fails: logged, nothing written.
RefreshStatementFails(w) ==
    /\ work[w].pc \in {"reject", "release"} /\ faults < MaxFaults
    /\ work' = [work EXCEPT ![w] =
           IF @.pc = "reject" THEN [@ EXCEPT !.pc = "release", !.then = "failed"]
           ELSE [@ EXCEPT !.pc = work[w].then]]
    /\ faults' = faults + 1
    /\ UNCHANGED <<row, alive, issued, claims, ops>>

TryAdoptNewer(w) ==
    /\ At(w, "adopt")
    /\ work' = [work EXCEPT ![w] =
           IF Newer(@) THEN [Adopt(@) EXCEPT !.pc = Adopt(work[w]).then]
           ELSE [@ EXCEPT !.pc = "failed"]]
    /\ UNCHANGED row /\ WorkerOnly

-----------------------------------------------------------------------------
(* The handshake and what connectBroker and healthCheck write after it.     *)

\* adapter.connect: external.  A pair the provider forgot is refused or throws.
Handshake(w) ==
    /\ At(w, "handshake")
    /\ \E outcome \in IF work[w].using \in alive
                      THEN {"connected", "refused", "mismatched", "failed"}
                      ELSE {"refused", "failed"} :
          work' = [work EXCEPT ![w].authClass = work[w].using \notin alive,
              ![w].pc = IF work[w].op # "health" THEN outcome
                        ELSE IF outcome = "connected" THEN "healthy"
                        ELSE IF outcome = "refused" THEN "failed" ELSE outcome]
    /\ UNCHANGED row /\ WorkerOnly

\* Mutant: the paper simulator's AUTHORIZED shortcut for every connection.
WriteConnected_Authorizes(w) ==
    LET inflight == work[w].inflight
    IN  /\ At(w, "connected")
        /\ IF Guard(inflight)
           THEN /\ row' = [row EXCEPT !.status = "CONNECTED", !.failures = 0,
                              !.mismatch = FALSE, !.cred = "VERIFIED", !.auth = "AUTHORIZED"]
                /\ Finish(w)
           ELSE row' = row /\ Goto(w, "failed")
        /\ WorkerOnly

\* The guarded CONNECTED write; a lost race is an exception.
WriteConnected(w) ==
    LET inflight == work[w].inflight
    IN  /\ At(w, "connected")
        /\ IF Guard(inflight)
           THEN /\ row' = [row EXCEPT !.status = "CONNECTED", !.failures = 0,
                              !.mismatch = FALSE, !.cred = "VERIFIED",
                              !.auth = EnterIfAllowed(inflight, "CONNECTED")]
                /\ IF work[w].op = "validate"
                   THEN work' = [work EXCEPT ![w].pc = "checked", ![w].then = "handshake"]
                   ELSE Finish(w)
           ELSE row' = row /\ Goto(w, "failed")
        /\ WorkerOnly

\* The guarded ERROR write of a refused, mismatched or thrown connect; a lost
\* race leaves the winner's state.
WriteError(w) ==
    LET inflight == work[w].inflight
    IN  /\ work[w].op # "health" /\ work[w].pc \in {"refused", "mismatched", "failed"}
        /\ row' = IF ~Guard(inflight) THEN row ELSE
               [row EXCEPT
                   !.status = IF PreserveSuspended(w) THEN "SUSPENDED" ELSE "ERROR",
                   !.auth = IF PreserveSuspended(w) THEN @ ELSE EnterIfAllowed(inflight, "ERROR"),
                   !.failures = @ + 1,
                   !.mismatch = work[w].pc = "mismatched",
                   !.cred = IF work[w].pc = "refused" /\ work[w].authClass
                            THEN "INVALID" ELSE @]
        /\ ConnectPhaseEnds(w)
        /\ WorkerOnly

\* healthCheck succeeded: telemetry, by id only.
HealthOk(w) ==
    /\ At(w, "healthy")
    /\ row' = [row EXCEPT !.failures = 0, !.mismatch = FALSE]
    /\ Finish(w) /\ WorkerOnly

\* Mutant: the suspension leaves the authorization state.
Suspended_KeepsAuthorization(w) == [row EXCEPT !.status = "SUSPENDED"]

Suspended(w) ==
    [row EXCEPT !.status = "SUSPENDED",
                !.auth = EnterIfAllowed(work[w].seen.auth, "SUSPENDED")]

\* A contradicted environment suspends at once, guarded on the loaded state.
HealthMismatch(w) ==
    /\ work[w].op = "health" /\ At(w, "mismatched")
    /\ row' = IF Guard(work[w].seen.auth)
              THEN [Suspended(w) EXCEPT !.mismatch = TRUE] ELSE row
    /\ Finish(w) /\ WorkerOnly

\* A failed check counts from the loaded row, by id only ...
HealthFailed(w) ==
    LET count == work[w].seen.failures + 1
    IN  /\ work[w].op = "health" /\ At(w, "failed")
        /\ row' = [row EXCEPT !.failures = count, !.mismatch = FALSE]
        /\ IF count >= SUSPEND_THRESHOLD THEN Goto(w, "suspend") ELSE Finish(w)
        /\ WorkerOnly

\* ... and suspends at the threshold, guarded.
HealthSuspend(w) ==
    /\ At(w, "suspend")
    /\ row' = IF Guard(work[w].seen.auth) THEN Suspended(w) ELSE row
    /\ Finish(w) /\ WorkerOnly

-----------------------------------------------------------------------------
(* The other operations.                                                    *)

\* disconnectBroker; deleteConnection goes on when it won.
Disconnect(w) ==
    LET seen == work[w].seen
    IN  /\ At(w, "disconnect")
        /\ IF Guard(seen.auth)
           THEN /\ row' = [row EXCEPT !.status = "DISCONNECTED",
                              !.auth = EnterIfAllowed(seen.auth, "DISCONNECTED")]
                /\ IF work[w].op = "delete" THEN Goto(w, "remove") ELSE Finish(w)
           ELSE row' = row /\ Finish(w)
        /\ WorkerOnly

SoftDelete(w) ==
    /\ At(w, "remove")
    /\ row' = [row EXCEPT !.deleted = TRUE]
    /\ Finish(w) /\ WorkerOnly

\* enableDemoTrading, enableLiveTrading: ACTIVE over the loaded state.
EnableTrading(w) ==
    /\ At(w, "enable")
    /\ row' = IF Guard(work[w].seen.auth) THEN [row EXCEPT !.auth = "ACTIVE"] ELSE row
    /\ Finish(w) /\ WorkerOnly

RevokeAuthorization(w) ==
    /\ At(w, "revoke")
    /\ row' = IF Guard(work[w].seen.auth) THEN [row EXCEPT !.auth = "REVOKED"] ELSE row
    /\ Finish(w) /\ WorkerOnly

\* rotateCredentials: the tested new set replaces the stored one, by id only.
RotateCredentials(w) ==
    /\ At(w, "store") /\ issued < MaxPairs
    /\ issued' = issued + 1
    /\ alive' = alive \cup {issued + 1}
    /\ row' = [row EXCEPT !.pair = issued + 1, !.cred = "ROTATED"]
    /\ Finish(w)
    /\ UNCHANGED <<claims, ops, faults>>

\* The test of the new set fails: the old one is kept.
RotationRefused(w) ==
    /\ At(w, "store") /\ Finish(w) /\ UNCHANGED row /\ WorkerOnly

\* validate-demo reads the flag back and runs its checklist on the session.
ValidateDemo(w) ==
    /\ At(w, "checked")
    /\ \E outcome \in IF work[w].then = "handshake" THEN {"pass", "fail"} ELSE {"fail"} :
          work' = [work EXCEPT ![w].pc = outcome, ![w].seen.demo = row.demo]
    /\ UNCHANGED row /\ WorkerOnly

ValidationPassed(w) ==
    /\ At(w, "pass")
    /\ row' = IF work[w].seen.demo THEN row ELSE [row EXCEPT !.demo = TRUE]
    /\ Finish(w) /\ WorkerOnly

\* applyDemoValidationFailure: up to three rounds of read ...
ValidationFailed(w) ==
    /\ At(w, "fail")
    /\ work' = [work EXCEPT ![w] =
           IF row.deleted \/ (row.auth # "ACTIVE" /\ ~row.demo) THEN Done
           ELSE [@ EXCEPT !.pc = "unvalidate", !.seen = Copy("validate", row)]]
    /\ UNCHANGED row /\ WorkerOnly

\* ... and guarded write, which also revokes an executable row.
ClearValidation(w) ==
    /\ At(w, "unvalidate")
    /\ IF Guard(work[w].seen.auth)
       THEN /\ row' = [row EXCEPT !.demo = FALSE,
                                  !.auth = IF @ = "ACTIVE" THEN "REVOKED" ELSE @]
            /\ Finish(w)
       ELSE /\ row' = row
            /\ IF work[w].tries >= 2 THEN Finish(w)
               ELSE work' = [work EXCEPT ![w].pc = "fail", ![w].tries = @ + 1]
    /\ WorkerOnly

-----------------------------------------------------------------------------
(* Outside the workers.                                                     *)

\* The lease runs out; a fault when its owner is still at work.
LeaseExpires ==
    LET held == \E w \in Workers : work[w].token = row.owner
    IN  /\ row.lease /\ (held => faults < MaxFaults)
        /\ row' = [row EXCEPT !.lease = FALSE]
        /\ faults' = IF held THEN faults + 1 ELSE faults
        /\ UNCHANGED <<work, alive, issued, claims, ops>>

\* The process of a worker dies between two statements.
Crash(w) ==
    /\ ~At(w, "idle") /\ faults < MaxFaults
    /\ Finish(w) /\ faults' = faults + 1
    /\ UNCHANGED <<row, alive, issued, claims, ops>>

Refresh(w) ==
    \/ EnsureFreshTokens(w) \/ ClaimWon(w) \/ ClaimLost(w) \/ WaitReload(w)
    \/ VerifyClaim(w) \/ RefreshAccepted(w) \/ RefreshFails(w) \/ Persist(w)
    \/ PersistFails(w) \/ PersistLost(w) \/ MarkRefreshRejected(w) \/ ReleaseLease(w)
    \/ RefreshStatementFails(w) \/ TryAdoptNewer(w)

Step(w) ==
    \/ EnterConnecting(w) \/ Refresh(w) \/ Handshake(w) \/ WriteConnected(w)
    \/ WriteError(w) \/ HealthOk(w) \/ HealthMismatch(w) \/ HealthFailed(w)
    \/ HealthSuspend(w) \/ Disconnect(w) \/ SoftDelete(w) \/ EnableTrading(w)
    \/ RevokeAuthorization(w) \/ RotateCredentials(w) \/ RotationRefused(w)
    \/ ValidateDemo(w) \/ ValidationPassed(w) \/ ValidationFailed(w) \/ ClearValidation(w)

Next ==
    \/ \E w \in Workers : (\E op \in Operations : Start(w, op)) \/ Step(w) \/ Crash(w)
    \/ LeaseExpires

Spec == Init /\ [][Next]_vars

\* A live worker gets the answer of the statement it awaits.  Nothing obliges the
\* clock, a fault or another worker.
FairSpec == Spec /\ \A w \in Workers : WF_vars(Step(w))

-----------------------------------------------------------------------------
\* A connection that the health check or an environment contradiction suspended
\* is not executable (isExecutable: ACTIVE only), whatever requests run beside.
SuspendedNotExecutable == row.status = "SUSPENDED" => row.auth # "ACTIVE"

\* As long as no process died, no answer was lost and no owner outlived its
\* lease, refreshes never lose the credential: the stored pair is alive at the
\* provider, or the one worker that exchanged it is about to store its successor.
StoredPairSurvives ==
    faults = 0 =>
        \/ row.pair \in alive
        \/ \E w \in Workers : /\ At(w, "persist") /\ Fenced(w)
                              /\ work[w].got \in alive

\* Every operation ends, also one that waits for the lease of a dead process.
OperationEnds == \A w \in Workers : []<>At(w, "idle")

\* An executable DEMO connection has passed its validation.
DemoExecutableHasEvidence == AccountType = "DEMO" /\ row.auth = "ACTIVE" => row.demo

\* A refresh only ever replaces the pair it exchanged.  Not kept beside a manual
\* rotation, which leaves the credential generation alone.
RefreshReplacesItsOwnPair ==
    [][\A w \in Workers : (At(w, "persist") /\ row'.pair # row.pair /\ row'.gen # row.gen)
          => row.pair = work[w].seen.pair]_vars
=============================================================================
