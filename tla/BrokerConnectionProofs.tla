----------------------- MODULE BrokerConnectionProofs -----------------------
(***************************************************************************)
(* Proofs about one connection row, for every set of concurrent requests   *)
(* and jobs and every bound: type correctness, that a suspended DEMO       *)
(* connection is not executable, and that refreshes under the lease never  *)
(* lose the credential while nothing fails.                                *)
(***************************************************************************)
EXTENDS BrokerConnection, TLAPS

-----------------------------------------------------------------------------
(* The inductive invariants.                                               *)

\* Owner tokens are minted once: no two workers hold the same one.
Tokens ==
    /\ row.owner <= claims
    /\ row.lease => row.owner # 0
    /\ \A w \in Workers : work[w].token <= claims
    /\ \A v, w \in Workers : work[v].token = work[w].token /\ work[v].token # 0 => v = w

\* Every stored generation has an issued pair of its own behind it, so has the
\* one a worker is about to store.
Generations ==
    /\ row.gen < issued
    /\ \A w \in Workers : work[w].seen.gen <= row.gen
    /\ \A w \in Workers :
           At(w, "persist") => work[w].seen.gen + 1 < work[w].got /\ work[w].got <= issued

\* The steps at which a worker owns the refresh.
Holding == {"verify", "refresh", "persist"}

\* Without faults the lease and the generation belong to the worker that
\* refreshes, from its claim to its write.
LeaseHeld ==
    faults = 0 =>
        \A w \in Workers :
            /\ work[w].pc \in Holding => row.lease /\ row.owner = work[w].token
            /\ work[w].pc \in {"refresh", "persist"} => row.gen = work[w].seen.gen
            /\ At(w, "persist") => work[w].got \in alive

PairInv == TypeOK /\ Tokens /\ Generations /\ LeaseHeld /\ StoredPairSurvives

\* The link and the authorization of a row fit together, and what a request or
\* the recovery job read when it was admitted still does.
SuspendInv ==
    /\ row.status = "SUSPENDED" => row.auth \notin {"ACTIVE", "CONNECTED"}
    /\ row.status = "CONNECTED" => row.auth # "SUSPENDED"
    /\ \A w \in Workers :
           /\ work[w].op = "recover" =>
                  work[w].seen.auth = "SUSPENDED" /\ work[w].inflight = "SUSPENDED"
           /\ work[w].pc \in {"checked", "pass", "fail", "unvalidate"} =>
                  work[w].op = "validate"
           /\ At(w, "enable") => work[w].seen.auth = "CONNECTED"

-----------------------------------------------------------------------------
(* Types.                                                                   *)

\* The operators that choose a state, a step or a count stay within their sets.
LEMMA OperatorTypes ==
    /\ \A op \in Operations : FirstStep(op) \in Steps
    /\ \A from, to \in AuthStatus : EnterIfAllowed(from, to) \in AuthStatus
    /\ NewRow \in RowType /\ Done \in WorkType
<1> USE BoundsAreNaturals
<1>1. \A op \in Operations : FirstStep(op) \in Steps
    BY DEF FirstStep, Steps
<1>2. \A from, to \in AuthStatus : EnterIfAllowed(from, to) \in AuthStatus
    BY DEF EnterIfAllowed
<1>4. NewRow \in RowType
    BY DEF NewRow, RowType, AuthStatus, LinkStatus, CredentialStatus, SUSPEND_THRESHOLD
<1>5. Done \in WorkType
    BY DEF Done, WorkType, Copy, CopyType, NewRow, Operations, Steps, AuthStatus,
       SUSPEND_THRESHOLD
<1> QED
    BY <1>1, <1>2, <1>4, <1>5

\* The columns an operation copies are a copy.
LEMMA CopyTypes ==
    ASSUME NEW op, row \in RowType
    PROVE  Copy(op, row) \in CopyType
BY DEF Copy, CopyType, RowType, SUSPEND_THRESHOLD

\* Writing a column of the row, or a field of a worker, with a value of its type.
LEMMA RowFields ==
    ASSUME NEW x \in RowType
    PROVE  /\ \A l \in BOOLEAN, o \in 0..MaxClaims : [x EXCEPT !.lease = l, !.owner = o] \in RowType
           /\ \A l \in BOOLEAN : [x EXCEPT !.lease = l] \in RowType
           /\ \A a \in AuthStatus : [x EXCEPT !.auth = a] \in RowType
           /\ \A b \in LinkStatus : [x EXCEPT !.status = b] \in RowType
           /\ \A c \in CredentialStatus : [x EXCEPT !.cred = c] \in RowType
           /\ \A n \in Nat : [x EXCEPT !.failures = n] \in RowType
           /\ \A m \in BOOLEAN : [x EXCEPT !.mismatch = m] \in RowType
           /\ \A d \in BOOLEAN : [x EXCEPT !.demo = d] \in RowType
           /\ \A d \in BOOLEAN : [x EXCEPT !.deleted = d] \in RowType
           /\ \A n \in 1..MaxPairs : [x EXCEPT !.pair = n] \in RowType
           /\ \A n \in 0..MaxPairs : [x EXCEPT !.gen = n] \in RowType
BY DEF RowType

\* Writing a field of a worker with a value of its type.
LEMMA WorkFields ==
    ASSUME NEW x \in WorkType, NEW pc \in Steps
    PROVE  /\ [x EXCEPT !.pc = pc] \in WorkType
           /\ \A t \in {"idle", "failed", "handshake", "adopt"} :
                  [x EXCEPT !.pc = pc, !.then = t] \in WorkType
           /\ \A u \in 0..MaxPairs : [x EXCEPT !.pc = pc, !.using = u] \in WorkType
           /\ \A t \in 0..MaxClaims : [x EXCEPT !.pc = pc, !.token = t] \in WorkType
           /\ \A g \in 0..MaxPairs : [x EXCEPT !.pc = pc, !.got = g] \in WorkType
           /\ \A n \in 0..3 : [x EXCEPT !.pc = pc, !.tries = n] \in WorkType
           /\ \A c \in CopyType : [x EXCEPT !.pc = pc, !.seen = c] \in WorkType
           /\ \A a \in AuthStatus : [x EXCEPT !.pc = pc, !.inflight = a] \in WorkType
           /\ \A a \in BOOLEAN : [x EXCEPT !.authClass = a, !.pc = pc] \in WorkType
BY DEF WorkType

\* A worker moves within its steps.
LEMMA WorkMoves ==
    ASSUME work \in [Workers -> WorkType], NEW w \in Workers
    PROVE  /\ work[w] \in WorkType
           /\ \A x \in WorkType : [work EXCEPT ![w] = x] \in [Workers -> WorkType]
           /\ \A pc \in Steps : Goto(w, pc) => work' \in [Workers -> WorkType]
           /\ Finish(w) => work' \in [Workers -> WorkType]
           /\ ConnectPhaseEnds(w) => work' \in [Workers -> WorkType]
<1>1. work[w] \in WorkType
    OBVIOUS
<1>2. \A pc \in Steps : Goto(w, pc) => work' \in [Workers -> WorkType]
    <2>1. \A pc \in Steps : [work[w] EXCEPT !.pc = pc] \in WorkType
        BY <1>1, WorkFields
    <2> QED
        BY <2>1 DEF Goto
<1>3. Finish(w) => work' \in [Workers -> WorkType]
    BY OperatorTypes DEF Finish
<1>4. ConnectPhaseEnds(w) => work' \in [Workers -> WorkType]
    BY <1>2, <1>3 DEF ConnectPhaseEnds, Steps
<1> QED
    BY <1>1, <1>2, <1>3, <1>4

\* Adopting the stored pair leaves a worker a worker.
LEMMA AdoptTypes ==
    ASSUME row \in RowType, NEW x \in WorkType
    PROVE  /\ Adopt(x) \in WorkType /\ Adopt(x).then \in {"handshake", "failed"}
           /\ \A pc \in Steps : [Adopt(x) EXCEPT !.pc = pc] \in WorkType
           /\ [Adopt(x) EXCEPT !.pc = Adopt(x).then] \in WorkType
<1>1. row.pair \in 0..MaxPairs
    BY BoundsAreNaturals DEF RowType
<1>2. Adopt(x) \in WorkType /\ Adopt(x).then \in {"handshake", "failed"}
    BY <1>1 DEF Adopt, WorkType
<1>3. Adopt(x).then \in Steps
    BY <1>2 DEF Steps
<1> QED
    BY <1>2, <1>3, WorkFields

\* A new operation starts with a copy of the row.
LEMMA StartType ==
    ASSUME TypeOK, NEW w \in Workers, NEW op \in Operations, Start(w, op)
    PROVE  TypeOK'
<1> USE BoundsAreNaturals
<1> DEFINE x == [Done EXCEPT !.op = op, !.pc = FirstStep(op), !.seen = Copy(op, row),
                             !.inflight = row.auth]
<1>1. row.auth \in AuthStatus
    BY DEF TypeOK, RowType
<1>2. Copy(op, row) \in CopyType
    BY CopyTypes DEF TypeOK
<1>3. x \in WorkType
    BY <1>1, <1>2, OperatorTypes DEF WorkType
<1> HIDE DEF x
<1>4. work' = [work EXCEPT ![w] = x]
    BY DEF Start, x
<1>5. work' \in [Workers -> WorkType]
    BY <1>3, <1>4 DEF TypeOK
<1>6. ops' \in 0..MaxOps
    BY DEF Start, TypeOK
<1> QED
    BY <1>5, <1>6 DEF Start, TypeOK

\* The steps of the refresh keep the types.
LEMMA RefreshType ==
    ASSUME TypeOK, Generations, NEW w \in Workers, Refresh(w)
    PROVE  TypeOK'
<1> USE BoundsAreNaturals
<1>t. /\ row \in RowType /\ work \in [Workers -> WorkType] /\ work[w] \in WorkType
      /\ alive \subseteq 1..MaxPairs /\ issued \in 1..MaxPairs /\ claims \in 0..MaxClaims
      /\ ops \in 0..MaxOps /\ faults \in 0..MaxFaults
    BY DEF TypeOK
<1>m. /\ \A pc \in Steps : Goto(w, pc) => work' \in [Workers -> WorkType]
      /\ \A x \in WorkType : [work EXCEPT ![w] = x] \in [Workers -> WorkType]
    BY <1>t, WorkMoves
<1>b. 0 \in 0..MaxClaims
    OBVIOUS
<1>z. {"handshake", "claim", "verify", "failed", "wait", "reclaim", "release", "refresh",
       "persist", "reject", "lost"} \subseteq Steps
    BY DEF Steps
<1>p. work[w].then \in Steps /\ work[w].seen.pair \in 0..MaxPairs
    <2>1. work[w].then \in {"idle", "failed", "handshake", "adopt"}
        BY <1>t DEF WorkType
    <2>2. work[w].seen.pair \in 0..MaxPairs
        BY <1>t DEF WorkType, CopyType
    <2> QED
        BY <2>1, <2>2 DEF Steps
<1>a. /\ \A pc \in Steps : [Adopt(work[w]) EXCEPT !.pc = pc] \in WorkType
      /\ [Adopt(work[w]) EXCEPT !.pc = Adopt(work[w]).then] \in WorkType
    BY <1>t, AdoptTypes
<1>g. At(w, "persist") => work[w].got \in 1..MaxPairs /\ row.gen + 1 \in 0..MaxPairs
    BY <1>t DEF Generations, WorkType, CopyType, RowType
<1>s. \A pc \in Steps : /\ [work[w] EXCEPT !.pc = pc] \in WorkType
                        /\ \A t \in {"idle", "failed", "handshake", "adopt"} :
                               [work[w] EXCEPT !.pc = pc, !.then = t] \in WorkType
    BY <1>t, WorkFields
<1>1. CASE EnsureFreshTokens(w)
    <2>1. [work[w] EXCEPT !.pc = "handshake", !.using = work[w].seen.pair] \in WorkType
        BY <1>t, <1>p, <1>z, WorkFields
    <2>2. \/ work' = [work EXCEPT ![w] = [work[w] EXCEPT !.pc = "handshake",
                                                         !.using = work[w].seen.pair]]
          \/ Goto(w, "claim")
        BY <1>1, <1>t DEF EnsureFreshTokens
    <2>3. work' \in [Workers -> WorkType]
        BY <1>m, <1>z, <2>1, <2>2
    <2> QED
        BY <1>1, <1>t, <2>3 DEF EnsureFreshTokens, WorkerOnly, TypeOK
<1>2. CASE ClaimWon(w)
    <2>1. claims + 1 \in 0..MaxClaims
        BY <1>2, <1>t DEF ClaimWon
    <2>2. [work[w] EXCEPT !.pc = "verify", !.token = claims + 1] \in WorkType
        BY <1>t, <1>z, <2>1, WorkFields
    <2>3. work' = [work EXCEPT ![w] = [work[w] EXCEPT !.pc = "verify", !.token = claims + 1]]
        BY <1>2, <1>t DEF ClaimWon
    <2>4. work' \in [Workers -> WorkType]
        BY <1>m, <2>2, <2>3
    <2>5. row' = [row EXCEPT !.lease = TRUE, !.owner = claims + 1] /\ claims' = claims + 1
        BY <1>2 DEF ClaimWon
    <2>6. row' \in RowType
        BY <1>t, <2>1, <2>5, RowFields
    <2> QED
        BY <1>2, <1>t, <2>1, <2>4, <2>5, <2>6 DEF ClaimWon, TypeOK
<1>3. CASE ClaimLost(w)
    <2> DEFINE n == IF work[w].pc = "reclaim" THEN NextPoll(work[w].tries) ELSE work[w].tries
               x == IF work[w].pc = "reclaim" /\ NextPoll(work[w].tries) >= MaxPolls
                    THEN [work[w] EXCEPT !.pc = "failed"]
                    ELSE [work[w] EXCEPT !.pc = "wait", !.tries = n]
    <2>1. work' = [work EXCEPT ![w] = x]
        <3>1. CASE work[w].pc = "reclaim" /\ NextPoll(work[w].tries) >= MaxPolls
            BY <1>3, <1>t, <3>1 DEF ClaimLost
        <3>2. CASE work[w].pc = "reclaim" /\ ~(NextPoll(work[w].tries) >= MaxPolls)
            BY <1>3, <1>t, <3>2 DEF ClaimLost
        <3>3. CASE work[w].pc # "reclaim"
            BY <1>3, <1>t, <3>3 DEF ClaimLost
        <3> QED
            BY <3>1, <3>2, <3>3
    <2>2. work[w].tries \in 0..3
        BY <1>t DEF WorkType
    <2>3. work[w].pc # "reclaim" \/ ~(NextPoll(work[w].tries) >= MaxPolls) => n \in 0..3
        BY <2>2 DEF NextPoll
    <2>4. x \in WorkType
        BY <1>t, <1>s, <1>z, <2>3, WorkFields
    <2> HIDE DEF x
    <2>5. work' \in [Workers -> WorkType]
        BY <1>m, <2>1, <2>4
    <2> QED
        BY <1>3, <1>t, <2>5 DEF ClaimLost, WorkerOnly, TypeOK
<1>4. CASE WaitReload(w) \/ VerifyClaim(w) \/ TryAdoptNewer(w)
    <2>1. \E x \in WorkType : work' = [work EXCEPT ![w] = x]
        BY <1>4, <1>t, <1>a, <1>s, <1>z DEF WaitReload, VerifyClaim, TryAdoptNewer
    <2>2. work' \in [Workers -> WorkType]
        BY <1>m, <2>1
    <2> QED
        BY <1>4, <1>t, <2>2 DEF WaitReload, VerifyClaim, TryAdoptNewer, WorkerOnly, TypeOK
<1>5. CASE RefreshAccepted(w)
    <2>1. issued' \in 1..MaxPairs /\ alive' \subseteq 1..MaxPairs /\ issued + 1 \in 0..MaxPairs
        BY <1>5, <1>t DEF RefreshAccepted
    <2>2. [work[w] EXCEPT !.pc = "persist", !.got = issued + 1] \in WorkType
        BY <1>t, <1>z, <2>1, WorkFields
    <2>3. \/ work' = [work EXCEPT ![w] = [work[w] EXCEPT !.pc = "persist", !.got = issued + 1]]
          \/ work' = [work EXCEPT ![w] = [work[w] EXCEPT !.pc = "release", !.then = "failed"]]
        BY <1>5, <1>t DEF RefreshAccepted
    <2>4. work' \in [Workers -> WorkType]
        BY <1>m, <1>s, <1>z, <2>2, <2>3
    <2>5. faults' \in 0..MaxFaults
        BY <1>5, <1>t DEF RefreshAccepted
    <2> QED
        BY <1>5, <1>t, <2>1, <2>4, <2>5 DEF RefreshAccepted, TypeOK
<1>6. CASE RefreshFails(w)
    <2>1. \E x \in WorkType : work' = [work EXCEPT ![w] = x]
        BY <1>6, <1>t, <1>s, <1>z DEF RefreshFails
    <2>2. work' \in [Workers -> WorkType]
        BY <1>m, <2>1
    <2> QED
        BY <1>6, <1>t, <2>2 DEF RefreshFails, WorkerOnly, TypeOK
<1>7. CASE Persist(w) \/ PersistFails(w)
    <2>1. PersistedRow(w) \in RowType
        <3>1. work[w].got \in 1..MaxPairs /\ row.gen + 1 \in 0..MaxPairs
            BY <1>7, <1>g DEF Persist, PersistFails
        <3>2. "ROTATED" \in CredentialStatus
            BY DEF CredentialStatus
        <3> QED
            BY <1>t, <1>b, <3>1, <3>2 DEF PersistedRow, RowType
    <2>2. row' \in RowType
        BY <1>7, <1>t, <2>1 DEF Persist, PersistFails
    <2>3. [work[w] EXCEPT !.pc = "handshake", !.using = work[w].got] \in WorkType
        <3>1. work[w].got \in 0..MaxPairs
            BY <1>t DEF WorkType
        <3> QED
            BY <1>t, <1>z, <3>1, WorkFields
    <2>4. work' \in [Workers -> WorkType]
        <3>1. CASE PersistFails(w)
            BY <3>1, <1>m, <1>z DEF PersistFails
        <3>2. CASE Persist(w)
            <4>1. \E x \in WorkType : work' = [work EXCEPT ![w] = x]
                BY <3>2, <1>t, <1>s, <1>z, <2>3 DEF Persist
            <4> QED
                BY <1>m, <4>1
        <3> QED
            BY <1>7, <3>1, <3>2
    <2>5. faults' \in 0..MaxFaults
        BY <1>7, <1>t DEF Persist, PersistFails, WorkerOnly
    <2> QED
        BY <1>7, <1>t, <2>2, <2>4, <2>5 DEF Persist, PersistFails, WorkerOnly, TypeOK
<1>8. CASE PersistLost(w)
    <2> DEFINE y == IF Newer(work[w]) THEN Adopt(work[w]) ELSE [work[w] EXCEPT !.then = "failed"]
               x == [y EXCEPT !.pc = "release"]
    <2>1. y \in WorkType
        <3>1. Adopt(work[w]) \in WorkType
            BY <1>t, AdoptTypes
        <3>2. [work[w] EXCEPT !.then = "failed"] \in WorkType
            BY <1>t DEF WorkType
        <3> QED
            BY <3>1, <3>2
    <2>2. work' = [work EXCEPT ![w] = x]
        BY <1>8, <1>t DEF PersistLost
    <2> HIDE DEF y
    <2>3. x \in WorkType
        BY <1>z, <2>1, WorkFields
    <2> HIDE DEF x
    <2>4. work' \in [Workers -> WorkType]
        BY <1>m, <2>2, <2>3
    <2> QED
        BY <1>8, <1>t, <2>4 DEF PersistLost, WorkerOnly, TypeOK
<1>9. CASE MarkRefreshRejected(w)
    <2>1. \E t \in {"adopt", "failed"} :
              work' = [work EXCEPT ![w] = [work[w] EXCEPT !.pc = "release", !.then = t]]
        BY <1>9, <1>t DEF MarkRefreshRejected
    <2>2. work' \in [Workers -> WorkType]
        BY <1>m, <1>s, <1>z, <2>1
    <2>3. row' \in RowType
        <3>1. [row EXCEPT !.cred = "INVALID"] \in RowType
            BY <1>t, RowFields DEF CredentialStatus
        <3>2. [row EXCEPT !.cred = "INVALID", !.lease = FALSE, !.owner = 0] \in RowType
            BY <1>b, <3>1 DEF RowType
        <3> QED
            BY <1>9, <1>t, <3>2 DEF MarkRefreshRejected
    <2> QED
        BY <1>9, <1>t, <2>2, <2>3 DEF MarkRefreshRejected, WorkerOnly, TypeOK
<1>10. CASE ReleaseLease(w)
    <2>1. row' \in RowType
        <3>1. [row EXCEPT !.lease = FALSE, !.owner = 0] \in RowType
            BY <1>t, <1>b, RowFields
        <3> QED
            BY <1>10, <1>t, <3>1 DEF ReleaseLease
    <2>2. work' \in [Workers -> WorkType]
        BY <1>10, <1>m, <1>p DEF ReleaseLease
    <2> QED
        BY <1>10, <1>t, <2>1, <2>2 DEF ReleaseLease, WorkerOnly, TypeOK
<1>11. CASE RefreshStatementFails(w)
    <2>1. \E x \in WorkType : work' = [work EXCEPT ![w] = x]
        BY <1>11, <1>t, <1>s, <1>p, <1>z DEF RefreshStatementFails
    <2>2. work' \in [Workers -> WorkType]
        BY <1>m, <2>1
    <2>3. faults' \in 0..MaxFaults
        BY <1>11, <1>t DEF RefreshStatementFails
    <2> QED
        BY <1>11, <1>t, <2>2, <2>3 DEF RefreshStatementFails, TypeOK
<1> QED
    BY <1>1, <1>2, <1>3, <1>4, <1>5, <1>6, <1>7, <1>8, <1>9, <1>10, <1>11 DEF Refresh

\* The steps of connect and of the health check keep the types.
LEMMA ConnectType ==
    ASSUME TypeOK, NEW w \in Workers,
           \/ EnterConnecting(w) \/ Handshake(w) \/ WriteConnected(w) \/ WriteError(w)
           \/ HealthOk(w) \/ HealthMismatch(w) \/ HealthFailed(w) \/ HealthSuspend(w)
    PROVE  TypeOK'
<1> USE BoundsAreNaturals
<1>t. /\ row \in RowType /\ work \in [Workers -> WorkType] /\ work[w] \in WorkType
      /\ alive \subseteq 1..MaxPairs /\ issued \in 1..MaxPairs /\ claims \in 0..MaxClaims
      /\ ops \in 0..MaxOps /\ faults \in 0..MaxFaults
    BY DEF TypeOK
<1>m. /\ \A pc \in Steps : Goto(w, pc) => work' \in [Workers -> WorkType]
      /\ \A x \in WorkType : [work EXCEPT ![w] = x] \in [Workers -> WorkType]
      /\ Finish(w) => work' \in [Workers -> WorkType]
      /\ ConnectPhaseEnds(w) => work' \in [Workers -> WorkType]
    BY <1>t, WorkMoves
<1>z. {"fresh", "failed", "connected", "refused", "mismatched", "healthy", "checked",
       "suspend"} \subseteq Steps
    BY DEF Steps
<1>l. {"CONNECTING", "CONNECTED", "SUSPENDED", "ERROR"} \subseteq LinkStatus
    BY DEF LinkStatus
<1>f. 0 \in Nat /\ row.failures \in Nat /\ work[w].seen.failures \in Nat
    BY <1>t DEF RowType, WorkType, CopyType
<1>c. {"VERIFIED", "INVALID"} \subseteq CredentialStatus
    BY DEF CredentialStatus
<1>e. /\ work[w].seen.auth \in AuthStatus /\ work[w].inflight \in AuthStatus
      /\ \A from \in AuthStatus, to \in {"CONNECTING", "CONNECTED", "ERROR", "SUSPENDED"} :
             EnterIfAllowed(from, to) \in AuthStatus
    <2>1. work[w].seen.auth \in AuthStatus /\ work[w].inflight \in AuthStatus
        BY <1>t DEF WorkType, CopyType
    <2>2. {"CONNECTING", "CONNECTED", "ERROR", "SUSPENDED"} \subseteq AuthStatus
        BY DEF AuthStatus
    <2> QED
        BY <2>1, <2>2, OperatorTypes
<1>1. CASE EnterConnecting(w)
    <2> DEFINE auth == EnterIfAllowed(work[w].seen.auth, "CONNECTING")
    <2>1. auth \in AuthStatus
        BY <1>e
    <2> HIDE DEF auth
    <2>2. [work[w] EXCEPT !.pc = "fresh", !.inflight = auth] \in WorkType
        BY <1>t, <1>z, <2>1, WorkFields
    <2>3. \/ work' = [work EXCEPT ![w] = [work[w] EXCEPT !.pc = "fresh", !.inflight = auth]]
          \/ ConnectPhaseEnds(w)
        BY <1>1, <1>t DEF EnterConnecting, auth
    <2>4. work' \in [Workers -> WorkType]
        BY <1>m, <2>2, <2>3
    <2>5. \/ row' = row
          \/ row' = [row EXCEPT !.auth = auth, !.status = "SUSPENDED",
                                !.failures = work[w].seen.failures]
          \/ row' = [row EXCEPT !.auth = auth, !.status = "CONNECTING", !.failures = 0]
        BY <1>1 DEF EnterConnecting, auth
    <2>6. row' \in RowType
        <3>1. CASE row' = row
            BY <1>t, <3>1
        <3>2. ASSUME NEW b \in LinkStatus, NEW n \in Nat,
                     row' = [row EXCEPT !.auth = auth, !.status = b, !.failures = n]
              PROVE  row' \in RowType
            BY <1>t, <2>1, <3>2 DEF RowType
        <3> QED
            BY <1>l, <1>f, <2>5, <3>1, <3>2
    <2> QED
        BY <1>1, <1>t, <2>4, <2>6 DEF EnterConnecting, WorkerOnly, TypeOK
<1>2. CASE Handshake(w)
    <2>1. PICK pc \in Steps, a \in BOOLEAN :
              work' = [work EXCEPT ![w] = [work[w] EXCEPT !.authClass = a, !.pc = pc]]
        <3>1. PICK outcome \in {"connected", "refused", "mismatched", "failed"} :
                  work' = [work EXCEPT ![w].authClass = work[w].using \notin alive,
                      ![w].pc = IF work[w].op # "health" THEN outcome
                                ELSE IF outcome = "connected" THEN "healthy"
                                ELSE IF outcome = "refused" THEN "failed" ELSE outcome]
            BY <1>2 DEF Handshake
        <3> DEFINE pc == IF work[w].op # "health" THEN outcome
                         ELSE IF outcome = "connected" THEN "healthy"
                         ELSE IF outcome = "refused" THEN "failed" ELSE outcome
                   a == work[w].using \notin alive
        <3>2. pc \in Steps /\ a \in BOOLEAN
            BY <1>z, <3>1
        <3>3. work' = [work EXCEPT ![w].authClass = a, ![w].pc = pc]
            BY <3>1
        <3> HIDE DEF pc, a
        <3>4. work' = [work EXCEPT ![w] = [work[w] EXCEPT !.authClass = a, !.pc = pc]]
            BY <3>3, <1>t
        <3> QED
            BY <3>2, <3>4
    <2>2. [work[w] EXCEPT !.authClass = a, !.pc = pc] \in WorkType
        BY <1>t, WorkFields
    <2>3. work' \in [Workers -> WorkType]
        BY <1>m, <2>1, <2>2
    <2> QED
        BY <1>2, <1>t, <2>3 DEF Handshake, WorkerOnly, TypeOK
<1>3. CASE WriteConnected(w)
    <2> DEFINE auth == EnterIfAllowed(work[w].inflight, "CONNECTED")
    <2>1. auth \in AuthStatus
        BY <1>e
    <2> HIDE DEF auth
    <2>2. \/ row' = row
          \/ row' = [row EXCEPT !.status = "CONNECTED", !.failures = 0,
                                !.mismatch = FALSE, !.cred = "VERIFIED", !.auth = auth]
        BY <1>3 DEF WriteConnected, auth
    <2>3. row' \in RowType
        <3>1. CASE row' = row
            BY <1>t, <3>1
        <3>2. ASSUME NEW n \in Nat,
                     row' = [row EXCEPT !.status = "CONNECTED", !.failures = n,
                                        !.mismatch = FALSE, !.cred = "VERIFIED", !.auth = auth]
              PROVE  row' \in RowType
            BY <1>t, <1>l, <1>c, <2>1, <3>2 DEF RowType
        <3> QED
            BY <1>f, <2>2, <3>1, <3>2
    <2>4. [work[w] EXCEPT !.pc = "checked", !.then = "handshake"] \in WorkType
        BY <1>t, <1>z, WorkFields
    <2>5. \/ work' = [work EXCEPT ![w] = [work[w] EXCEPT !.pc = "checked", !.then = "handshake"]]
          \/ Finish(w) \/ Goto(w, "failed")
        BY <1>3, <1>t DEF WriteConnected
    <2>6. work' \in [Workers -> WorkType]
        BY <1>m, <1>z, <2>4, <2>5
    <2> QED
        BY <1>3, <1>t, <2>3, <2>6 DEF WriteConnected, WorkerOnly, TypeOK
<1>4. CASE WriteError(w)
    <2> DEFINE auth == IF PreserveSuspended(w) THEN row.auth
                       ELSE EnterIfAllowed(work[w].inflight, "ERROR")
               status == IF PreserveSuspended(w) THEN "SUSPENDED" ELSE "ERROR"
               mismatch == work[w].pc = "mismatched"
               cred == IF work[w].pc = "refused" /\ work[w].authClass
                       THEN "INVALID" ELSE row.cred
               n == row.failures + 1
    <2>1. row.auth \in AuthStatus /\ row.cred \in CredentialStatus
        BY <1>t DEF RowType
    <2>2. auth \in AuthStatus
        BY <1>e, <2>1
    <2>3. cred \in CredentialStatus /\ status \in LinkStatus /\ mismatch \in BOOLEAN
        BY <1>c, <1>l, <2>1
    <2>4. n \in Nat
        BY <1>f
    <2>5. \/ row' = row
          \/ row' = [row EXCEPT !.status = status, !.auth = auth, !.failures = n,
                                !.mismatch = mismatch, !.cred = cred]
        BY <1>4, <1>t DEF WriteError, RowType
    <2> HIDE DEF auth, status, mismatch, cred, n
    <2>6. row' \in RowType
        BY <1>t, <2>2, <2>3, <2>4, <2>5 DEF RowType
    <2>7. work' \in [Workers -> WorkType]
        BY <1>4, <1>m DEF WriteError
    <2> QED
        BY <1>4, <1>t, <2>6, <2>7 DEF WriteError, WorkerOnly, TypeOK
<1>5. CASE HealthOk(w)
    <2>1. row' \in RowType
        BY <1>5, <1>t, <1>f DEF HealthOk, RowType
    <2> QED
        BY <1>5, <1>t, <1>m, <2>1 DEF HealthOk, WorkerOnly, TypeOK
<1>6. Suspended(w) \in RowType /\ [Suspended(w) EXCEPT !.mismatch = TRUE] \in RowType
    <2> DEFINE auth == EnterIfAllowed(work[w].seen.auth, "SUSPENDED")
    <2>1. auth \in AuthStatus
        BY <1>e
    <2>2. Suspended(w) = [row EXCEPT !.status = "SUSPENDED", !.auth = auth]
        BY DEF Suspended
    <2> HIDE DEF auth
    <2>3. Suspended(w) \in RowType
        BY <1>t, <1>l, <2>1, <2>2 DEF RowType
    <2> QED
        BY <2>3, RowFields
<1>7. CASE HealthMismatch(w)
    <2>1. row' \in RowType
        BY <1>7, <1>t, <1>6 DEF HealthMismatch
    <2> QED
        BY <1>7, <1>t, <1>m, <2>1 DEF HealthMismatch, WorkerOnly, TypeOK
<1>8. CASE HealthFailed(w)
    <2> DEFINE n == work[w].seen.failures + 1
    <2>1. n \in Nat
        BY <1>f
    <2>2. row' = [row EXCEPT !.failures = n, !.mismatch = FALSE]
        BY <1>8 DEF HealthFailed
    <2>3. Goto(w, "suspend") \/ Finish(w)
        BY <1>8 DEF HealthFailed
    <2> HIDE DEF n
    <2>4. row' \in RowType
        BY <1>t, <2>1, <2>2 DEF RowType
    <2>5. work' \in [Workers -> WorkType]
        BY <1>m, <1>z, <2>3
    <2> QED
        BY <1>8, <1>t, <2>4, <2>5 DEF HealthFailed, WorkerOnly, TypeOK
<1>9. CASE HealthSuspend(w)
    <2>1. row' \in RowType
        BY <1>9, <1>t, <1>6 DEF HealthSuspend
    <2> QED
        BY <1>9, <1>t, <1>m, <2>1 DEF HealthSuspend, WorkerOnly, TypeOK
<1> QED
    BY <1>1, <1>2, <1>3, <1>4, <1>5, <1>7, <1>8, <1>9

\* The steps of the other operations keep the types.
LEMMA OperationType ==
    ASSUME TypeOK, NEW w \in Workers,
           \/ Disconnect(w) \/ SoftDelete(w) \/ EnableTrading(w) \/ RevokeAuthorization(w)
           \/ RotateCredentials(w) \/ RotationRefused(w) \/ ValidateDemo(w)
           \/ ValidationPassed(w) \/ ValidationFailed(w) \/ ClearValidation(w)
    PROVE  TypeOK'
<1> USE BoundsAreNaturals
<1>t. /\ row \in RowType /\ work \in [Workers -> WorkType] /\ work[w] \in WorkType
      /\ alive \subseteq 1..MaxPairs /\ issued \in 1..MaxPairs /\ claims \in 0..MaxClaims
      /\ ops \in 0..MaxOps /\ faults \in 0..MaxFaults
    BY DEF TypeOK
<1>m. /\ \A pc \in Steps : Goto(w, pc) => work' \in [Workers -> WorkType]
      /\ \A x \in WorkType : [work EXCEPT ![w] = x] \in [Workers -> WorkType]
      /\ Finish(w) => work' \in [Workers -> WorkType]
    BY <1>t, WorkMoves
<1>z. {"remove", "pass", "fail", "unvalidate"} \subseteq Steps
    BY DEF Steps
<1>e. {"ACTIVE", "REVOKED", "DISCONNECTED"} \subseteq AuthStatus
    BY DEF AuthStatus
<1>1. CASE Disconnect(w)
    <2> DEFINE auth == EnterIfAllowed(work[w].seen.auth, "DISCONNECTED")
    <2>1. auth \in AuthStatus
        <3>1. work[w].seen.auth \in AuthStatus
            BY <1>t DEF WorkType, CopyType
        <3> QED
            BY <1>e, <3>1, OperatorTypes
    <2> HIDE DEF auth
    <2>2. \/ row' = row
          \/ row' = [row EXCEPT !.status = "DISCONNECTED", !.auth = auth]
        BY <1>1 DEF Disconnect, auth
    <2>3. row' \in RowType
        <3>1. "DISCONNECTED" \in LinkStatus
            BY DEF LinkStatus
        <3> QED
            BY <1>t, <2>1, <2>2, <3>1 DEF RowType
    <2>4. work' \in [Workers -> WorkType]
        BY <1>1, <1>m, <1>z DEF Disconnect
    <2> QED
        BY <1>1, <1>t, <2>3, <2>4 DEF Disconnect, WorkerOnly, TypeOK
<1>2. CASE SoftDelete(w) \/ EnableTrading(w) \/ RevokeAuthorization(w) \/ RotationRefused(w)
           \/ ValidationPassed(w)
    <2>1. \/ row' = row \/ row' = [row EXCEPT !.deleted = TRUE]
          \/ row' = [row EXCEPT !.auth = "ACTIVE"] \/ row' = [row EXCEPT !.auth = "REVOKED"]
          \/ row' = [row EXCEPT !.demo = TRUE]
        BY <1>2 DEF SoftDelete, EnableTrading, RevokeAuthorization, RotationRefused,
           ValidationPassed
    <2>2. row' \in RowType
        BY <1>t, <1>e, <2>1, RowFields
    <2>3. Finish(w) /\ WorkerOnly
        BY <1>2 DEF SoftDelete, EnableTrading, RevokeAuthorization, RotationRefused,
           ValidationPassed
    <2> QED
        BY <1>t, <1>m, <2>2, <2>3 DEF WorkerOnly, TypeOK
<1>3. CASE RotateCredentials(w)
    <2>1. issued + 1 \in 1..MaxPairs
        BY <1>3, <1>t DEF RotateCredentials
    <2>2. row' \in RowType
        <3>1. "ROTATED" \in CredentialStatus
            BY DEF CredentialStatus
        <3>2. row' = [row EXCEPT !.pair = issued + 1, !.cred = "ROTATED"]
            BY <1>3 DEF RotateCredentials
        <3> QED
            BY <1>t, <2>1, <3>1, <3>2 DEF RowType
    <2>3. work' \in [Workers -> WorkType]
        BY <1>3, <1>m DEF RotateCredentials
    <2> QED
        BY <1>3, <1>t, <2>1, <2>2, <2>3 DEF RotateCredentials, TypeOK
<1>4. CASE ValidateDemo(w)
    <2>1. PICK pc \in {"pass", "fail"} :
              work' = [work EXCEPT ![w].pc = pc, ![w].seen.demo = row.demo]
        BY <1>4 DEF ValidateDemo
    <2> DEFINE c == [work[w].seen EXCEPT !.demo = row.demo]
    <2>2. c \in CopyType
        BY <1>t DEF RowType, WorkType, CopyType
    <2>3. work' = [work EXCEPT ![w] = [work[w] EXCEPT !.pc = pc, !.seen = c]]
        BY <1>t, <2>1 DEF WorkType
    <2> HIDE DEF c
    <2>4. [work[w] EXCEPT !.pc = pc, !.seen = c] \in WorkType
        BY <1>t, <1>z, <2>2, WorkFields
    <2>5. work' \in [Workers -> WorkType]
        BY <1>m, <2>3, <2>4
    <2> QED
        BY <1>4, <1>t, <2>5 DEF ValidateDemo, WorkerOnly, TypeOK
<1>5. CASE ValidationFailed(w)
    <2>1. Copy("validate", row) \in CopyType
        BY <1>t, CopyTypes
    <2>2. [work[w] EXCEPT !.pc = "unvalidate", !.seen = Copy("validate", row)] \in WorkType
        BY <1>t, <1>z, <2>1, WorkFields
    <2>3. \/ work' = [work EXCEPT ![w] = Done]
          \/ work' = [work EXCEPT ![w] = [work[w] EXCEPT !.pc = "unvalidate",
                                                         !.seen = Copy("validate", row)]]
        BY <1>5, <1>t DEF ValidationFailed
    <2>4. work' \in [Workers -> WorkType]
        BY <1>m, <2>2, <2>3, OperatorTypes
    <2> QED
        BY <1>5, <1>t, <2>4 DEF ValidationFailed, WorkerOnly, TypeOK
<1>6. CASE ClearValidation(w)
    <2>1. row' \in RowType
        <3> DEFINE auth == IF row.auth = "ACTIVE" THEN "REVOKED" ELSE row.auth
        <3>1. auth \in AuthStatus
            <4>1. row.auth \in AuthStatus
                BY <1>t DEF RowType
            <4> QED
                BY <1>e, <4>1
        <3>2. row' = row \/ row' = [row EXCEPT !.demo = FALSE, !.auth = auth]
            BY <1>6, <1>t DEF ClearValidation, RowType
        <3> HIDE DEF auth
        <3> QED
            BY <1>t, <3>1, <3>2 DEF RowType
    <2>2. work' \in [Workers -> WorkType]
        <3>1. \/ Finish(w)
              \/ /\ work[w].tries < 2
                 /\ work' = [work EXCEPT ![w] = [work[w] EXCEPT !.pc = "fail",
                                                                !.tries = work[w].tries + 1]]
            <4>1. work[w].tries \in 0..3
                BY <1>t DEF WorkType
            <4>2. Finish(w) \/ ( ~(work[w].tries >= 2)
                    /\ work' = [work EXCEPT ![w].pc = "fail", ![w].tries = @ + 1])
                BY <1>6 DEF ClearValidation
            <4>3. [work EXCEPT ![w].pc = "fail", ![w].tries = @ + 1]
                    = [work EXCEPT ![w] = [work[w] EXCEPT !.pc = "fail",
                                                          !.tries = work[w].tries + 1]]
                BY <1>t DEF WorkType
            <4> QED
                BY <4>1, <4>2, <4>3
        <3>2. work[w].tries \in 0..3
            BY <1>t DEF WorkType
        <3>3. work[w].tries < 2 =>
                  [work[w] EXCEPT !.pc = "fail", !.tries = work[w].tries + 1] \in WorkType
            <4>1. work[w].tries < 2 => work[w].tries + 1 \in 0..3
                BY <3>2
            <4> QED
                BY <1>t, <1>z, <4>1, WorkFields
        <3> QED
            BY <1>m, <3>1, <3>3
    <2> QED
        BY <1>6, <1>t, <2>1, <2>2 DEF ClearValidation, WorkerOnly, TypeOK
<1> QED
    BY <1>1, <1>2, <1>3, <1>4, <1>5, <1>6

\* A process that dies and a lease that runs out keep the types.
LEMMA OutsideType ==
    ASSUME TypeOK, LeaseExpires \/ \E w \in Workers : Crash(w)
    PROVE  TypeOK'
<1> USE BoundsAreNaturals
<1>1. CASE LeaseExpires
    <2>1. row' \in RowType
        BY <1>1, RowFields DEF LeaseExpires, TypeOK
    <2>2. faults' \in 0..MaxFaults
        BY <1>1 DEF LeaseExpires, TypeOK
    <2> QED
        BY <1>1, <2>1, <2>2 DEF LeaseExpires, TypeOK
<1>2. ASSUME NEW w \in Workers, Crash(w) PROVE TypeOK'
    <2>1. work' \in [Workers -> WorkType]
        BY <1>2, WorkMoves DEF Crash, TypeOK
    <2>2. faults' \in 0..MaxFaults
        BY <1>2 DEF Crash, TypeOK
    <2> QED
        BY <1>2, <2>1, <2>2 DEF Crash, TypeOK
<1> QED
    BY <1>1, <1>2

-----------------------------------------------------------------------------
(* The stored pair.                                                         *)

\* The columns the refresh works on stay.
CredentialKept ==
    /\ row'.pair = row.pair /\ row'.gen = row.gen
    /\ row'.lease = row.lease /\ row'.owner = row.owner

\* A worker moves without entering the refresh, and without leaving it between
\* the exchange and the write unless that is a fault.
Elsewhere(w) ==
    /\ \A v \in Workers : v # w => work'[v] = work[v]
    /\ work'[w].pc \notin Holding
    /\ work'[w].token \in {0, work[w].token}
    /\ work'[w].seen.gen \in {0, work[w].seen.gen, row.gen}
    /\ UNCHANGED <<alive, issued, claims>> /\ faults' \in {faults, faults + 1}
    /\ faults' = 0 => ~At(w, "persist")

\* Such a step keeps the invariant.
LEMMA ElsewhereKeepsPair ==
    ASSUME PairInv, TypeOK', NEW w \in Workers, CredentialKept, Elsewhere(w)
    PROVE  PairInv'
<1>t. /\ \A v \in Workers : /\ work[v].token \in Nat /\ work[v].seen.gen \in Nat
                            /\ work[v].got \in Nat
      /\ row.gen \in Nat /\ row.owner \in Nat /\ claims \in Nat /\ issued \in Nat /\ faults \in Nat
    BY BoundsAreNaturals DEF PairInv, TypeOK, RowType, WorkType, CopyType
<1>1. Tokens'
    BY <1>t DEF PairInv, Tokens, Elsewhere, CredentialKept
<1>2. Generations'
    BY <1>t DEF PairInv, Generations, Elsewhere, CredentialKept, Holding, At
<1>3. LeaseHeld'
    BY <1>t DEF PairInv, LeaseHeld, Elsewhere, CredentialKept, Holding, At
<1>4. StoredPairSurvives'
    BY <1>t DEF PairInv, StoredPairSurvives, Elsewhere, CredentialKept, Fenced, At
<1> QED
    BY <1>1, <1>2, <1>3, <1>4 DEF PairInv

\* What a worker's own move changes.
LEMMA OwnMove ==
    ASSUME work \in [Workers -> WorkType], NEW w \in Workers
    PROVE  /\ \A x : work' = [work EXCEPT ![w] = x] =>
                  work'[w] = x /\ \A v \in Workers : v # w => work'[v] = work[v]
           /\ \A pc : Goto(w, pc) =>
                  /\ work'[w].pc = pc /\ work'[w].token = work[w].token
                  /\ work'[w].seen = work[w].seen /\ work'[w].op = work[w].op
                  /\ work'[w].inflight = work[w].inflight
                  /\ \A v \in Workers : v # w => work'[v] = work[v]
           /\ Finish(w) => /\ work'[w] = Done
                           /\ \A v \in Workers : v # w => work'[v] = work[v]
           /\ ConnectPhaseEnds(w) => Finish(w) \/ (work[w].op = "validate" /\ Goto(w, "checked"))
<1>1. \A pc : Goto(w, pc) =>
                  /\ work'[w].pc = pc /\ work'[w].token = work[w].token
                  /\ work'[w].seen = work[w].seen /\ work'[w].op = work[w].op
                  /\ work'[w].inflight = work[w].inflight
                  /\ \A v \in Workers : v # w => work'[v] = work[v]
    BY DEF Goto, WorkType
<1>2. ConnectPhaseEnds(w) => Finish(w) \/ (work[w].op = "validate" /\ Goto(w, "checked"))
    BY DEF ConnectPhaseEnds
<1>3. Finish(w) => /\ work'[w] = Done
                   /\ \A v \in Workers : v # w => work'[v] = work[v]
    BY DEF Finish
<1>4. \A x : work' = [work EXCEPT ![w] = x] =>
                  work'[w] = x /\ \A v \in Workers : v # w => work'[v] = work[v]
    OBVIOUS
<1> QED
    BY <1>1, <1>2, <1>3, <1>4

\* A worker without the refresh's permission finishes or goes to another step.
LEMMA MoveElsewhere ==
    ASSUME TypeOK, NEW w \in Workers, UNCHANGED <<alive, issued, claims>>,
           faults' \in {faults, faults + 1}, faults' = 0 => ~At(w, "persist")
    PROVE  /\ \A pc : Goto(w, pc) /\ pc \notin Holding => Elsewhere(w)
           /\ Finish(w) => Elsewhere(w)
           /\ ConnectPhaseEnds(w) => Elsewhere(w)
<1>1. work \in [Workers -> WorkType]
    BY DEF TypeOK
<1>2. \A pc : Goto(w, pc) /\ pc \notin Holding => Elsewhere(w)
    BY <1>1, OwnMove DEF Elsewhere
<1>3. Finish(w) => Elsewhere(w)
    <2>1. Done.pc \notin Holding /\ Done.token = 0 /\ Done.seen.gen = 0
        BY DEF Done, Holding, Copy, NewRow
    <2> QED
        BY <1>1, <2>1, OwnMove DEF Elsewhere
<1>4. "checked" \notin Holding
    BY DEF Holding
<1> QED
    BY <1>1, <1>2, <1>3, <1>4, OwnMove

\* Every step that neither claims, spends nor stores a refresh is such a step.
LEMMA NoRefreshStep ==
    ASSUME TypeOK, NEW w \in Workers,
           \/ \E op \in Operations : Start(w, op)
           \/ EnterConnecting(w) \/ EnsureFreshTokens(w) \/ ClaimLost(w) \/ WaitReload(w)
           \/ RefreshFails(w) \/ PersistLost(w) \/ RefreshStatementFails(w) \/ TryAdoptNewer(w)
           \/ Handshake(w) \/ WriteConnected(w) \/ WriteError(w) \/ HealthOk(w)
           \/ HealthMismatch(w) \/ HealthFailed(w) \/ HealthSuspend(w) \/ Disconnect(w)
           \/ SoftDelete(w) \/ EnableTrading(w) \/ RevokeAuthorization(w) \/ RotationRefused(w)
           \/ ValidateDemo(w) \/ ValidationPassed(w) \/ ValidationFailed(w) \/ ClearValidation(w)
           \/ Crash(w)
    PROVE  CredentialKept /\ Elsewhere(w)
<1>t. row \in RowType /\ work \in [Workers -> WorkType] /\ work[w] \in WorkType
      /\ faults \in Nat
    BY BoundsAreNaturals DEF TypeOK
<1>h. \A pc : pc \notin {"verify", "refresh", "persist"} => pc \notin Holding
    BY DEF Holding
<1>1. CASE \E op \in Operations : Start(w, op)
    <2>1. PICK op \in Operations : Start(w, op)
        BY <1>1
    <2> DEFINE x == [Done EXCEPT !.op = op, !.pc = FirstStep(op), !.seen = Copy(op, row),
                                 !.inflight = row.auth]
    <2>2. x.token = 0 /\ x.seen.gen = row.gen /\ x.pc = FirstStep(op)
        BY DEF Done, Copy
    <2>3. FirstStep(op) \notin Holding
        BY DEF FirstStep, Holding
    <2>4. work' = [work EXCEPT ![w] = x]
        BY <2>1 DEF Start
    <2> HIDE DEF x
    <2>5. work'[w] = x /\ \A v \in Workers : v # w => work'[v] = work[v]
        BY <1>t, <2>4, OwnMove
    <2>6. At(w, "idle") /\ UNCHANGED <<row, alive, issued, claims, faults>>
        BY <2>1 DEF Start
    <2> QED
        BY <2>2, <2>3, <2>5, <2>6 DEF Elsewhere, CredentialKept, At
<1>2. CASE EnterConnecting(w)
    <2>1. CredentialKept
        BY <1>2, <1>t DEF EnterConnecting, CredentialKept, RowType
    <2>2. WorkerOnly /\ At(w, "enter")
        BY <1>2 DEF EnterConnecting
    <2>3. \/ ConnectPhaseEnds(w)
          \/ \E a : work' = [work EXCEPT ![w] = [work[w] EXCEPT !.pc = "fresh", !.inflight = a]]
        BY <1>2, <1>t DEF EnterConnecting
    <2>4. CASE ConnectPhaseEnds(w)
        BY <2>1, <2>2, <2>4, MoveElsewhere DEF WorkerOnly, At
    <2>5. ASSUME NEW a,
                 work' = [work EXCEPT ![w] = [work[w] EXCEPT !.pc = "fresh", !.inflight = a]]
          PROVE  Elsewhere(w)
        <3>1. /\ work'[w].pc = "fresh" /\ work'[w].token = work[w].token
              /\ work'[w].seen = work[w].seen
              /\ \A v \in Workers : v # w => work'[v] = work[v]
            BY <1>t, <2>5 DEF WorkType
        <3> QED
            BY <2>2, <3>1, <1>h DEF Elsewhere, WorkerOnly, At
    <2> QED
        BY <2>1, <2>3, <2>4, <2>5
<1>3. CASE EnsureFreshTokens(w) \/ ClaimLost(w) \/ RefreshFails(w) \/ RefreshStatementFails(w)
           \/ Handshake(w) \/ ValidateDemo(w)
    <2>2. /\ work'[w].token = work[w].token /\ work'[w].seen.gen = work[w].seen.gen
          /\ work'[w].pc \notin {"verify", "refresh", "persist"}
          /\ \A v \in Workers : v # w => work'[v] = work[v]
        <3>1. CASE EnsureFreshTokens(w)
            <4>1. \/ work' = [work EXCEPT ![w] = [work[w] EXCEPT !.pc = "handshake",
                                                                 !.using = work[w].seen.pair]]
                  \/ work' = [work EXCEPT ![w] = [work[w] EXCEPT !.pc = "claim"]]
                BY <3>1, <1>t DEF EnsureFreshTokens, Goto
            <4>2. CASE work' = [work EXCEPT ![w] = [work[w] EXCEPT !.pc = "claim"]]
                BY <1>t, <4>2 DEF WorkType
            <4>3. CASE work' = [work EXCEPT ![w] = [work[w] EXCEPT !.pc = "handshake",
                                                                   !.using = work[w].seen.pair]]
                <5> DEFINE u == work[w].seen.pair
                <5>1. work' = [work EXCEPT ![w] = [work[w] EXCEPT !.pc = "handshake", !.using = u]]
                    BY <4>3
                <5> HIDE DEF u
                <5> QED
                    BY <1>t, <5>1 DEF WorkType
            <4> QED
                BY <4>1, <4>2, <4>3
        <3>2. CASE ClaimLost(w)
            <4>1. \/ work' = [work EXCEPT ![w] = [work[w] EXCEPT !.pc = "failed"]]
                  \/ \E n : work' = [work EXCEPT ![w] = [work[w] EXCEPT !.pc = "wait", !.tries = n]]
                BY <3>2, <1>t DEF ClaimLost
            <4>2. CASE work' = [work EXCEPT ![w] = [work[w] EXCEPT !.pc = "failed"]]
                BY <1>t, <4>2 DEF WorkType
            <4>3. ASSUME NEW n,
                         work' = [work EXCEPT ![w] = [work[w] EXCEPT !.pc = "wait", !.tries = n]]
                  PROVE  /\ work'[w].token = work[w].token
                         /\ work'[w].seen.gen = work[w].seen.gen
                         /\ work'[w].pc \notin {"verify", "refresh", "persist"}
                         /\ \A v \in Workers : v # w => work'[v] = work[v]
                BY <1>t, <4>3 DEF WorkType
            <4> QED
                BY <4>1, <4>2, <4>3
        <3>3. CASE RefreshFails(w) \/ RefreshStatementFails(w)
            <4>1. \/ work' = [work EXCEPT ![w] = [work[w] EXCEPT !.pc = "reject"]]
                  \/ work' = [work EXCEPT ![w] = [work[w] EXCEPT !.pc = work[w].then]]
                  \/ work' = [work EXCEPT ![w] = [work[w] EXCEPT !.pc = "release", !.then = "failed"]]
                BY <3>3, <1>t DEF RefreshFails, RefreshStatementFails
            <4>2. CASE work' = [work EXCEPT ![w] = [work[w] EXCEPT !.pc = "reject"]]
                BY <1>t, <4>2 DEF WorkType
            <4>3. CASE work' = [work EXCEPT ![w] = [work[w] EXCEPT !.pc = work[w].then]]
                BY <1>t, <4>3 DEF WorkType
            <4>4. CASE work' = [work EXCEPT ![w] = [work[w] EXCEPT !.pc = "release",
                                                                   !.then = "failed"]]
                BY <1>t, <4>4 DEF WorkType
            <4> QED
                BY <4>1, <4>2, <4>3, <4>4
        <3>4. CASE Handshake(w)
            <4>1. PICK outcome \in {"connected", "refused", "mismatched", "failed"} :
                      work' = [work EXCEPT ![w].authClass = work[w].using \notin alive,
                          ![w].pc = IF work[w].op # "health" THEN outcome
                                    ELSE IF outcome = "connected" THEN "healthy"
                                    ELSE IF outcome = "refused" THEN "failed" ELSE outcome]
                BY <3>4 DEF Handshake
            <4> DEFINE pc == IF work[w].op # "health" THEN outcome
                             ELSE IF outcome = "connected" THEN "healthy"
                             ELSE IF outcome = "refused" THEN "failed" ELSE outcome
                       a == work[w].using \notin alive
            <4>2. pc \notin {"verify", "refresh", "persist"}
                BY <4>1
            <4>3. work' = [work EXCEPT ![w].authClass = a, ![w].pc = pc]
                BY <4>1
            <4> HIDE DEF pc, a
            <4> QED
                BY <1>t, <4>2, <4>3 DEF WorkType
        <3>5. CASE ValidateDemo(w)
            <4>1. PICK pc \in {"pass", "fail"} :
                      work' = [work EXCEPT ![w].pc = pc, ![w].seen.demo = row.demo]
                BY <3>5 DEF ValidateDemo
            <4> DEFINE x == [work[w] EXCEPT !.pc = pc, !.seen.demo = row.demo]
            <4>2. work'[w] = x /\ \A v \in Workers : v # w => work'[v] = work[v]
                BY <1>t, <4>1
            <4>3. x.token = work[w].token /\ x.pc = pc
                BY <1>t DEF WorkType
            <4>4. x.seen.gen = work[w].seen.gen
                BY <1>t DEF WorkType, CopyType
            <4> QED
                BY <4>1, <4>2, <4>3, <4>4
        <3> QED
            BY <1>3, <3>1, <3>2, <3>3, <3>4, <3>5
    <2>3. UNCHANGED <<row, alive, issued, claims>> /\ faults' \in {faults, faults + 1}
          /\ ~At(w, "persist")
        BY <1>3 DEF EnsureFreshTokens, ClaimLost, RefreshFails, RefreshStatementFails,
           Handshake, ValidateDemo, WorkerOnly, At
    <2> QED
        BY <1>h, <2>2, <2>3 DEF Elsewhere, CredentialKept
<1>4. CASE WaitReload(w) \/ TryAdoptNewer(w) \/ PersistLost(w)
    <2>1. /\ Adopt(work[w]) \in WorkType
          /\ Adopt(work[w]).then \in {"handshake", "failed"}
        BY <1>t, AdoptTypes
    <2>2. Adopt(work[w]).token = work[w].token /\ Adopt(work[w]).seen = work[w].seen
        BY <1>t DEF Adopt, WorkType
    <2>3. \E y \in WorkType, pc \in {"handshake", "failed", "reclaim", "release"} :
              /\ y.token = work[w].token /\ y.seen = work[w].seen
              /\ work' = [work EXCEPT ![w] = [y EXCEPT !.pc = pc]]
        <3>1. [work[w] EXCEPT !.then = "failed"] \in WorkType
              /\ [work[w] EXCEPT !.then = "failed"].token = work[w].token
              /\ [work[w] EXCEPT !.then = "failed"].seen = work[w].seen
            BY <1>t DEF WorkType
        <3>2. CASE WaitReload(w) \/ TryAdoptNewer(w)
            BY <3>2, <1>t, <2>1, <2>2 DEF WaitReload, TryAdoptNewer
        <3>3. CASE PersistLost(w)
            BY <3>3, <1>t, <2>1, <2>2, <3>1 DEF PersistLost
        <3> QED
            BY <1>4, <3>2, <3>3
    <2>4. /\ work'[w].token = work[w].token /\ work'[w].seen = work[w].seen
          /\ work'[w].pc \in {"handshake", "failed", "reclaim", "release"}
          /\ \A v \in Workers : v # w => work'[v] = work[v]
        BY <1>t, <2>3 DEF WorkType
    <2>5. UNCHANGED row /\ WorkerOnly /\ ~At(w, "persist")
        BY <1>4 DEF WaitReload, TryAdoptNewer, PersistLost, At
    <2> QED
        BY <1>h, <2>4, <2>5 DEF Elsewhere, CredentialKept, WorkerOnly
<1>5. CASE WriteConnected(w) \/ WriteError(w) \/ HealthOk(w) \/ HealthFailed(w) \/ Disconnect(w)
    <2>1. CredentialKept
        <3>1. CASE WriteConnected(w) \/ HealthOk(w) \/ HealthFailed(w) \/ Disconnect(w)
            BY <3>1, <1>t DEF WriteConnected, HealthOk, HealthFailed, Disconnect,
               CredentialKept, RowType
        <3>2. CASE WriteError(w)
            BY <3>2, <1>t DEF WriteError, CredentialKept, RowType
        <3> QED
            BY <1>5, <3>1, <3>2
    <2>2. WorkerOnly /\ ~At(w, "persist")
        BY <1>5 DEF WriteConnected, WriteError, HealthOk, HealthFailed, Disconnect, At
    <2>3. \/ Finish(w) \/ ConnectPhaseEnds(w)
          \/ \E pc \in {"failed", "suspend", "remove"} : Goto(w, pc)
          \/ work' = [work EXCEPT ![w].pc = "checked", ![w].then = "handshake"]
        BY <1>5 DEF WriteConnected, WriteError, HealthOk, HealthFailed, Disconnect
    <2>4. CASE work' = [work EXCEPT ![w].pc = "checked", ![w].then = "handshake"]
        <3>1. /\ work'[w].pc = "checked" /\ work'[w].token = work[w].token
              /\ work'[w].seen = work[w].seen
              /\ \A v \in Workers : v # w => work'[v] = work[v]
            BY <1>t, <2>4 DEF WorkType
        <3> QED
            BY <1>h, <2>1, <2>2, <3>1 DEF Elsewhere, WorkerOnly
    <2>5. CASE \/ Finish(w) \/ ConnectPhaseEnds(w)
               \/ \E pc \in {"failed", "suspend", "remove"} : Goto(w, pc)
        BY <1>h, <2>1, <2>2, <2>5, MoveElsewhere DEF WorkerOnly
    <2> QED
        BY <2>3, <2>4, <2>5
<1>6. CASE HealthMismatch(w) \/ HealthSuspend(w) \/ SoftDelete(w) \/ EnableTrading(w)
           \/ RevokeAuthorization(w) \/ RotationRefused(w) \/ ValidationPassed(w)
    <2>1. CredentialKept
        BY <1>6, <1>t DEF HealthMismatch, HealthSuspend, Suspended, SoftDelete, EnableTrading,
           RevokeAuthorization, RotationRefused, ValidationPassed, CredentialKept, RowType
    <2>2. Finish(w) /\ WorkerOnly /\ ~At(w, "persist")
        BY <1>6 DEF HealthMismatch, HealthSuspend, SoftDelete, EnableTrading,
           RevokeAuthorization, RotationRefused, ValidationPassed, At
    <2> QED
        BY <2>1, <2>2, MoveElsewhere DEF WorkerOnly
<1>7. CASE ValidationFailed(w)
    <2>1. CASE work' = [work EXCEPT ![w] = Done]
        BY <1>7, <2>1, MoveElsewhere DEF Finish, ValidationFailed, WorkerOnly, CredentialKept, At
    <2>2. CASE work' = [work EXCEPT ![w] = [work[w] EXCEPT !.pc = "unvalidate",
                                                           !.seen = Copy("validate", row)]]
        <3>1. /\ work'[w].pc = "unvalidate" /\ work'[w].token = work[w].token
              /\ work'[w].seen = Copy("validate", row)
              /\ \A v \in Workers : v # w => work'[v] = work[v]
            BY <1>t, <2>2 DEF WorkType
        <3>2. Copy("validate", row).gen = row.gen
            BY DEF Copy
        <3> QED
            BY <1>7, <1>h, <3>1, <3>2 DEF ValidationFailed, Elsewhere, CredentialKept,
               WorkerOnly, At
    <2> QED
        BY <1>7, <1>t, <2>1, <2>2 DEF ValidationFailed
<1>8. CASE ClearValidation(w)
    <2>1. CredentialKept
        BY <1>8, <1>t DEF ClearValidation, CredentialKept, RowType
    <2>2. CASE Finish(w)
        BY <1>8, <2>1, <2>2, MoveElsewhere DEF ClearValidation, WorkerOnly, At
    <2>3. CASE work' = [work EXCEPT ![w].pc = "fail", ![w].tries = @ + 1]
        <3>1. /\ work'[w].pc = "fail" /\ work'[w].token = work[w].token
              /\ work'[w].seen = work[w].seen
              /\ \A v \in Workers : v # w => work'[v] = work[v]
            BY <1>t, <2>3 DEF WorkType
        <3> QED
            BY <1>8, <1>h, <2>1, <3>1 DEF ClearValidation, Elsewhere, WorkerOnly, At
    <2> QED
        BY <1>8, <2>2, <2>3 DEF ClearValidation
<1>9. CASE Crash(w)
    <2>1. faults' # 0
        BY <1>9, <1>t DEF Crash
    <2> QED
        BY <1>9, <2>1, MoveElsewhere DEF Crash, CredentialKept
<1> QED
    BY <1>1, <1>2, <1>3, <1>4, <1>5, <1>6, <1>7, <1>8, <1>9

\* Without faults one worker at most owns the refresh, the one whose token the
\* row carries.
LEMMA OneHolder ==
    ASSUME Tokens, LeaseHeld, faults = 0
    PROVE  \A v, w \in Workers :
               work[v].pc \in Holding /\ row.owner = work[w].token => v = w
BY DEF Tokens, LeaseHeld

\* The steps that claim, spend, store or give back the refresh, the manual
\* rotation and the lease's end keep the invariant.
LEMMA RefreshKeepsPair ==
    ASSUME PairInv, TypeOK', NEW w \in Workers,
           \/ ClaimWon(w) \/ VerifyClaim(w) \/ RefreshAccepted(w) \/ Persist(w) \/ PersistFails(w)
           \/ MarkRefreshRejected(w) \/ ReleaseLease(w) \/ RotateCredentials(w) \/ LeaseExpires
    PROVE  PairInv'
<1>t. /\ \A v \in Workers : /\ work[v].token \in Nat /\ work[v].seen.gen \in Nat
                            /\ work[v].got \in Nat
      /\ row.gen \in Nat /\ row.owner \in Nat /\ claims \in Nat /\ issued \in Nat /\ faults \in Nat
    BY BoundsAreNaturals DEF PairInv, TypeOK, RowType, WorkType, CopyType
<1>r. row \in RowType /\ work \in [Workers -> WorkType] /\ work[w] \in WorkType
    BY DEF PairInv, TypeOK
<1>i. Tokens /\ Generations /\ LeaseHeld /\ StoredPairSurvives
    BY DEF PairInv
<1>o. faults = 0 => \A v, u \in Workers :
          work[v].pc \in Holding /\ row.owner = work[u].token => v = u
    BY <1>i, OneHolder
<1>h. /\ {"verify", "refresh", "persist"} \subseteq Holding
      /\ \A pc : pc \notin {"verify", "refresh", "persist"} => pc \notin Holding
    BY DEF Holding
<1>1. CASE ClaimWon(w)
    <2>1. /\ row'.pair = row.pair /\ row'.gen = row.gen /\ row'.lease /\ row'.owner = claims + 1
          /\ ~row.lease /\ claims' = claims + 1 /\ UNCHANGED <<alive, issued, faults>>
          /\ work[w].pc \in {"claim", "reclaim"}
        BY <1>1, <1>r DEF ClaimWon, LeaseFree, RowType
    <2>2. /\ work'[w].pc = "verify" /\ work'[w].token = claims + 1
          /\ work'[w].seen = work[w].seen
          /\ \A v \in Workers : v # w => work'[v] = work[v]
        BY <1>1, <1>r DEF ClaimWon, WorkType
    <2>3. Tokens'
        BY <1>t, <1>i, <2>1, <2>2 DEF Tokens
    <2>4. Generations'
        BY <1>t, <1>i, <2>1, <2>2 DEF Generations, At
    <2>5. faults = 0 => \A v \in Workers : work[v].pc \notin Holding
        BY <1>i, <2>1 DEF LeaseHeld
    <2>6. LeaseHeld'
        BY <2>1, <2>2, <2>5, <1>h DEF LeaseHeld, At
    <2>7. StoredPairSurvives'
        BY <1>i, <1>h, <2>1, <2>5 DEF StoredPairSurvives, At
    <2> QED
        BY <2>3, <2>4, <2>6, <2>7 DEF PairInv
<1>2. CASE VerifyClaim(w)
    <2>1. UNCHANGED <<row, alive, issued, claims, faults>> /\ work[w].pc = "verify"
        BY <1>2 DEF VerifyClaim, WorkerOnly, At
    <2>2. CASE ~Newer(work[w]) /\ row.cred # "INVALID"
        <3>1. /\ work'[w].pc = "refresh" /\ work'[w].token = work[w].token
              /\ work'[w].seen = work[w].seen
              /\ \A v \in Workers : v # w => work'[v] = work[v]
            BY <1>2, <1>r, <2>2 DEF VerifyClaim, WorkType
        <3>2. row.gen = work[w].seen.gen
            BY <1>t, <1>i, <2>2 DEF Newer, Generations
        <3>3. Tokens'
            BY <1>t, <1>i, <2>1, <3>1 DEF Tokens
        <3>4. Generations'
            BY <1>t, <1>i, <2>1, <3>1 DEF Generations, At
        <3>5. LeaseHeld'
            BY <1>i, <1>h, <2>1, <3>1, <3>2 DEF LeaseHeld, At
        <3>6. StoredPairSurvives'
            BY <1>i, <2>1, <3>1 DEF StoredPairSurvives, At, Fenced
        <3> QED
            BY <3>3, <3>4, <3>5, <3>6 DEF PairInv
    <2>3. CASE Newer(work[w]) \/ row.cred = "INVALID"
        <3>1. /\ Adopt(work[w]) \in WorkType /\ Adopt(work[w]).token = work[w].token
              /\ Adopt(work[w]).seen = work[w].seen
            <4>1. Adopt(work[w]) \in WorkType
                BY <1>r, AdoptTypes
            <4> QED
                BY <1>r, <4>1 DEF Adopt, WorkType
        <3>2. \/ work' = [work EXCEPT ![w] = [Adopt(work[w]) EXCEPT !.pc = "release"]]
              \/ work' = [work EXCEPT ![w] = [work[w] EXCEPT !.pc = "release", !.then = "failed"]]
            BY <1>2, <1>r, <2>3 DEF VerifyClaim
        <3>3. /\ work'[w].token = work[w].token /\ work'[w].seen = work[w].seen
              /\ work'[w].pc = "release"
              /\ \A v \in Workers : v # w => work'[v] = work[v]
            <4>1. CASE work' = [work EXCEPT ![w] = [Adopt(work[w]) EXCEPT !.pc = "release"]]
                BY <1>r, <3>1, <4>1 DEF WorkType
            <4>2. CASE work' = [work EXCEPT ![w] = [work[w] EXCEPT !.pc = "release",
                                                                   !.then = "failed"]]
                BY <1>r, <4>2 DEF WorkType
            <4> QED
                BY <3>2, <4>1, <4>2
        <3>4. CredentialKept /\ Elsewhere(w)
            BY <1>h, <2>1, <3>3 DEF CredentialKept, Elsewhere, At
        <3> QED
            BY <3>4, ElsewhereKeepsPair
    <2> QED
        BY <2>2, <2>3
<1>3. CASE RefreshAccepted(w)
    <2>1. /\ UNCHANGED <<row, claims>> /\ work[w].pc = "refresh"
          /\ issued' = issued + 1 /\ issued + 1 \in alive'
        BY <1>3 DEF RefreshAccepted, At
    <2>2. CASE /\ work' = [work EXCEPT ![w].pc = "persist", ![w].got = issued + 1]
               /\ faults' = faults
        <3>1. /\ work'[w].pc = "persist" /\ work'[w].got = issued + 1
              /\ work'[w].token = work[w].token /\ work'[w].seen = work[w].seen
              /\ \A v \in Workers : v # w => work'[v] = work[v]
            BY <1>r, <2>2 DEF WorkType
        <3>2. Tokens'
            BY <1>t, <1>i, <2>1, <3>1 DEF Tokens
        <3>3. Generations'
            BY <1>t, <1>i, <2>1, <3>1 DEF Generations, At
        <3>4. faults = 0 => /\ row.lease /\ row.owner = work[w].token
                            /\ row.gen = work[w].seen.gen
                            /\ \A v \in Workers : v # w => work[v].pc \notin Holding
            BY <1>i, <1>h, <1>o, <2>1 DEF LeaseHeld
        <3>5. LeaseHeld'
            BY <1>h, <2>1, <2>2, <3>1, <3>4 DEF LeaseHeld, At
        <3>6. StoredPairSurvives'
            BY <2>1, <2>2, <3>1, <3>4 DEF StoredPairSurvives, At, Fenced
        <3> QED
            BY <3>2, <3>3, <3>5, <3>6 DEF PairInv
    <2>3. CASE /\ faults' = faults + 1
               /\ work' = [work EXCEPT ![w].pc = "release", ![w].then = "failed"]
        <3>1. /\ work'[w].pc = "release"
              /\ work'[w].token = work[w].token /\ work'[w].seen = work[w].seen
              /\ \A v \in Workers : v # w => work'[v] = work[v]
            BY <1>r, <2>3 DEF WorkType
        <3>2. Tokens'
            BY <1>t, <1>i, <2>1, <3>1 DEF Tokens
        <3>3. Generations'
            BY <1>t, <1>i, <2>1, <3>1 DEF Generations, At
        <3>4. faults' # 0
            BY <1>t, <2>3
        <3> QED
            BY <3>2, <3>3, <3>4 DEF PairInv, LeaseHeld, StoredPairSurvives
    <2> QED
        BY <1>3, <2>2, <2>3 DEF RefreshAccepted
<1>4. CASE Persist(w) \/ PersistFails(w)
    <2>1. /\ UNCHANGED <<alive, issued, claims>> /\ work[w].pc = "persist"
          /\ faults' = faults \/ faults' = faults + 1
        BY <1>4 DEF Persist, PersistFails, WorkerOnly, At
    <2>2. /\ work'[w].token = work[w].token /\ work'[w].seen = work[w].seen
          /\ work'[w].pc \notin {"verify", "refresh", "persist"}
          /\ \A v \in Workers : v # w => work'[v] = work[v]
        <3>1. \/ Goto(w, "reject")
              \/ work' = [work EXCEPT ![w] = [work[w] EXCEPT !.pc = "lost"]]
              \/ work' = [work EXCEPT ![w] = [work[w] EXCEPT !.pc = "handshake",
                                                             !.using = work[w].got]]
            BY <1>4, <1>r DEF Persist, PersistFails
        <3>2. CASE Goto(w, "reject")
            BY <1>r, <3>2, OwnMove
        <3>3. CASE work' = [work EXCEPT ![w] = [work[w] EXCEPT !.pc = "lost"]]
            BY <1>r, <3>3 DEF WorkType
        <3>4. CASE work' = [work EXCEPT ![w] = [work[w] EXCEPT !.pc = "handshake",
                                                               !.using = work[w].got]]
            BY <1>r, <3>4 DEF WorkType
        <3> QED
            BY <3>1, <3>2, <3>3, <3>4
    <2>3. PersistedRow(w).pair = work[w].got /\ PersistedRow(w).gen = row.gen + 1
          /\ ~PersistedRow(w).lease /\ PersistedRow(w).owner = 0
        BY <1>r DEF PersistedRow, RowType
    <2>4. row' = row \/ (Fenced(w) /\ row' = PersistedRow(w))
        BY <1>4 DEF Persist, PersistFails
    <2>5. Tokens'
        BY <1>t, <1>i, <2>1, <2>2, <2>3, <2>4 DEF Tokens
    <2>6. Generations'
        BY <1>t, <1>i, <2>1, <2>2, <2>3, <2>4 DEF Generations, At, Fenced
    <2>7. CASE faults' # 0
        BY <2>5, <2>6, <2>7 DEF PairInv, LeaseHeld, StoredPairSurvives
    <2>8. CASE faults' = 0
        <3>1. faults = 0 /\ Persist(w)
            BY <1>t, <1>4, <2>1, <2>8 DEF PersistFails
        <3>2. Fenced(w) /\ work[w].got \in alive
            BY <1>i, <1>h, <2>1, <3>1 DEF LeaseHeld, Fenced, At
        <3>3. row'.pair = work[w].got
            BY <2>3, <3>1, <3>2 DEF Persist
        <3>4. \A v \in Workers : v # w => work[v].pc \notin Holding
            BY <1>o, <3>1, <3>2 DEF Fenced
        <3>5. LeaseHeld'
            BY <1>h, <2>2, <3>4 DEF LeaseHeld, At
        <3>6. StoredPairSurvives'
            BY <2>1, <3>2, <3>3 DEF StoredPairSurvives
        <3> QED
            BY <2>5, <2>6, <3>5, <3>6 DEF PairInv
    <2> QED
        BY <2>7, <2>8
<1>5. CASE MarkRefreshRejected(w) \/ ReleaseLease(w)
    <2>1. UNCHANGED <<alive, issued, claims, faults>> /\ work[w].pc \in {"reject", "release"}
        BY <1>5 DEF MarkRefreshRejected, ReleaseLease, WorkerOnly, At
    <2>2. /\ work'[w].token = work[w].token /\ work'[w].seen = work[w].seen
          /\ work'[w].pc \notin {"verify", "refresh", "persist"}
          /\ \A v \in Workers : v # w => work'[v] = work[v]
        <3>1. CASE ReleaseLease(w)
            <4>1. work[w].then \in {"idle", "failed", "handshake", "adopt"}
                BY <1>r DEF WorkType
            <4> QED
                BY <1>r, <3>1, <4>1, OwnMove DEF ReleaseLease
        <3>2. CASE MarkRefreshRejected(w)
            <4>1. \E t \in {"adopt", "failed"} :
                      work' = [work EXCEPT ![w] = [work[w] EXCEPT !.pc = "release", !.then = t]]
                BY <1>r, <3>2 DEF MarkRefreshRejected
            <4> QED
                BY <1>r, <4>1 DEF WorkType
        <3> QED
            BY <1>5, <3>1, <3>2
    <2>3. CASE row' = row
        <3>1. CredentialKept /\ Elsewhere(w)
            BY <1>h, <2>1, <2>2, <2>3 DEF CredentialKept, Elsewhere, At
        <3> QED
            BY <3>1, ElsewhereKeepsPair
    <2>4. CASE row' # row
        <3>1. row.owner = work[w].token
            BY <1>5, <2>4 DEF MarkRefreshRejected, ReleaseLease, Fenced
        <3>2. /\ row'.pair = row.pair /\ row'.gen = row.gen
              /\ ~row'.lease /\ row'.owner = 0
            BY <1>5, <1>r, <2>4 DEF MarkRefreshRejected, ReleaseLease, RowType
        <3>3. Tokens'
            BY <1>t, <1>i, <2>1, <2>2, <3>2 DEF Tokens
        <3>4. Generations'
            BY <1>t, <1>i, <2>1, <2>2, <3>2 DEF Generations, At
        <3>5. faults = 0 => \A v \in Workers : work[v].pc \notin Holding
            BY <1>o, <1>h, <2>1, <3>1
        <3>6. LeaseHeld'
            BY <1>h, <2>1, <2>2, <3>5 DEF LeaseHeld, At
        <3>7. StoredPairSurvives'
            BY <1>i, <1>h, <2>1, <3>2, <3>5 DEF StoredPairSurvives, At
        <3> QED
            BY <3>3, <3>4, <3>6, <3>7 DEF PairInv
    <2> QED
        BY <2>3, <2>4
<1>6. CASE RotateCredentials(w)
    <2>1. /\ row'.pair = issued + 1 /\ row'.gen = row.gen /\ row'.lease = row.lease
          /\ row'.owner = row.owner /\ UNCHANGED <<claims, faults>>
          /\ issued' = issued + 1 /\ alive' = alive \cup {issued + 1}
        BY <1>6, <1>r DEF RotateCredentials, RowType
    <2>2. /\ work'[w] = Done /\ \A v \in Workers : v # w => work'[v] = work[v]
        BY <1>6, <1>r, OwnMove DEF RotateCredentials
    <2>3. Done.pc = "idle" /\ Done.token = 0 /\ Done.seen.gen = 0
        BY DEF Done, Copy, NewRow
    <2>4. Tokens'
        BY <1>t, <1>i, <2>1, <2>2, <2>3 DEF Tokens
    <2>5. Generations'
        BY <1>t, <1>i, <2>1, <2>2, <2>3 DEF Generations, At
    <2>6. LeaseHeld'
        BY <1>i, <1>h, <2>1, <2>2, <2>3 DEF LeaseHeld, At
    <2>7. StoredPairSurvives'
        BY <2>1 DEF StoredPairSurvives
    <2> QED
        BY <2>4, <2>5, <2>6, <2>7 DEF PairInv
<1>7. CASE LeaseExpires
    <2>1. /\ row'.pair = row.pair /\ row'.gen = row.gen /\ row'.owner = row.owner
          /\ ~row'.lease /\ UNCHANGED <<work, alive, issued, claims>>
        BY <1>7, <1>r DEF LeaseExpires, RowType
    <2>2. Tokens'
        BY <1>i, <2>1 DEF Tokens
    <2>3. Generations'
        BY <1>i, <2>1 DEF Generations, At
    <2>4. CASE \E v \in Workers : work[v].token = row.owner
        <3>1. faults' # 0
            BY <1>7, <1>t, <2>4 DEF LeaseExpires
        <3> QED
            BY <2>2, <2>3, <3>1 DEF PairInv, LeaseHeld, StoredPairSurvives
    <2>5. CASE ~ \E v \in Workers : work[v].token = row.owner
        <3>1. faults' = faults
            BY <1>7, <2>5 DEF LeaseExpires
        <3>2. faults = 0 => \A v \in Workers : work[v].pc \notin Holding
            BY <1>i, <2>5 DEF LeaseHeld
        <3>3. LeaseHeld'
            BY <1>h, <2>1, <3>1, <3>2 DEF LeaseHeld, At
        <3>4. StoredPairSurvives'
            BY <1>i, <1>h, <2>1, <3>1, <3>2 DEF StoredPairSurvives, At
        <3> QED
            BY <2>2, <2>3, <3>3, <3>4 DEF PairInv
    <2> QED
        BY <2>4, <2>5
<1> QED
    BY <1>1, <1>2, <1>3, <1>4, <1>5, <1>6, <1>7

\* A fresh or established row with one issued pair satisfies the invariant.
LEMMA PairInit == Init => PairInv
<1> SUFFICES ASSUME Init PROVE PairInv
    OBVIOUS
<1> USE BoundsAreNaturals
<1>1. /\ row \in RowType /\ row.pair = 1 /\ row.gen = 0 /\ row.owner = 0 /\ ~row.lease
    <2>1. NewRow \in RowType /\ NewRow.pair = 1 /\ NewRow.gen = 0 /\ NewRow.owner = 0
          /\ ~NewRow.lease
        BY OperatorTypes DEF NewRow
    <2>2. CASE row = NewRow
        BY <2>1, <2>2
    <2>3. ASSUME NEW auth \in {"CONNECTED", "ACTIVE"}, NEW demo \in BOOLEAN,
                 NEW failures \in {0, 2},
                 row = [NewRow EXCEPT !.status = "CONNECTED", !.cred = "VERIFIED", !.auth = auth,
                                      !.demo = demo, !.failures = failures]
          PROVE  row \in RowType /\ row.pair = 1 /\ row.gen = 0 /\ row.owner = 0 /\ ~row.lease
        <3>1. /\ auth \in AuthStatus /\ "CONNECTED" \in LinkStatus /\ "VERIFIED" \in CredentialStatus
              /\ failures \in Nat
            BY DEF AuthStatus, LinkStatus, CredentialStatus
        <3> QED
            BY <2>1, <2>3, <3>1 DEF RowType
    <2> QED
        BY <2>2, <2>3 DEF Init
<1>2. /\ Done \in WorkType /\ Done.pc = "idle" /\ Done.token = 0 /\ Done.seen.gen = 0
    BY OperatorTypes DEF Done, Copy, NewRow
<1>i. /\ work = [w \in Workers |-> Done] /\ alive = {1} /\ issued = 1 /\ claims = 0
      /\ ops = 0 /\ faults = 0
    BY DEF Init
<1>3. \A w \in Workers : work[w] = Done
    BY <1>i
<1>4. TypeOK
    BY <1>1, <1>2, <1>i DEF TypeOK
<1>5. Tokens
    BY <1>1, <1>2, <1>3, <1>i DEF Tokens
<1>6. Generations
    BY <1>1, <1>2, <1>3, <1>i DEF Generations, At
<1>7. LeaseHeld
    BY <1>2, <1>3 DEF LeaseHeld, Holding, At
<1>8. StoredPairSurvives
    BY <1>1, <1>i DEF StoredPairSurvives
<1> QED
    BY <1>4, <1>5, <1>6, <1>7, <1>8 DEF PairInv

\* Every step keeps the invariant of the stored pair.
LEMMA PairStep == PairInv /\ [Next]_vars => PairInv'
<1> SUFFICES ASSUME PairInv, [Next]_vars PROVE PairInv'
    OBVIOUS
<1>i. TypeOK /\ Generations
    BY DEF PairInv
<1>1. CASE UNCHANGED vars
    BY <1>1 DEF PairInv, vars, TypeOK, Tokens, Generations, LeaseHeld, StoredPairSurvives, At,
       Fenced
<1>2. ASSUME NEW w \in Workers, NEW op \in Operations, Start(w, op) PROVE PairInv'
    <2>1. TypeOK'
        BY <1>i, <1>2, StartType
    <2> QED
        BY <1>i, <1>2, <2>1, NoRefreshStep, ElsewhereKeepsPair
<1>3. ASSUME NEW w \in Workers, Step(w) PROVE PairInv'
    <2>1. TypeOK'
        BY <1>i, <1>3, RefreshType, ConnectType, OperationType DEF Step
    <2> QED
        BY <1>i, <1>3, <2>1, NoRefreshStep, ElsewhereKeepsPair, RefreshKeepsPair DEF Step, Refresh
<1>4. ASSUME NEW w \in Workers, Crash(w) PROVE PairInv'
    <2>1. TypeOK'
        BY <1>i, <1>4, OutsideType
    <2> QED
        BY <1>i, <1>4, <2>1, NoRefreshStep, ElsewhereKeepsPair
<1>5. CASE LeaseExpires
    <2>1. TypeOK'
        BY <1>i, <1>5, OutsideType
    <2>2. CASE Workers = {}
        <3>1. row'.pair = row.pair /\ row'.gen = row.gen /\ row'.owner = row.owner /\ ~row'.lease
              /\ UNCHANGED <<work, alive, issued, claims>> /\ faults' = faults
            BY <1>5, <2>2 DEF PairInv, TypeOK, RowType, LeaseExpires
        <3> QED
            BY <2>1, <2>2, <3>1 DEF PairInv, Tokens, Generations, LeaseHeld, StoredPairSurvives
    <2>3. CASE Workers # {}
        BY <1>5, <2>1, <2>3, RefreshKeepsPair
    <2> QED
        BY <2>2, <2>3
<1> QED
    BY <1>1, <1>2, <1>3, <1>4, <1>5 DEF Next

\* The row, the workers' copies and the counters keep their types whatever
\* requests, jobs and refreshes run beside each other.
THEOREM TypeCorrect == Spec => []TypeOK
<1>1. PairInv => TypeOK
    BY DEF PairInv
<1> QED
    BY <1>1, PairInit, PairStep, PTL DEF Spec

\* ensureFreshTokens under its lease and fences never loses the credential while
\* no process dies, no answer is lost and no owner outlives its lease: the stored
\* pair is accepted by the provider, or its successor is about to be stored.
THEOREM StoredPair == Spec => []StoredPairSurvives
<1>1. PairInv => StoredPairSurvives
    BY DEF PairInv
<1> QED
    BY <1>1, PairInit, PairStep, PTL DEF Spec

-----------------------------------------------------------------------------
(* Suspension.                                                              *)

\* What the transition table says about the states that suspension meets.
LEMMA Table ==
    /\ EnterIfAllowed("SUSPENDED", "CONNECTING") = "SUSPENDED"
    /\ \A a \in AuthStatus : EnterIfAllowed(a, "CONNECTED") # "SUSPENDED"
    /\ \A a \in AuthStatus : EnterIfAllowed(a, "SUSPENDED") \notin {"ACTIVE", "CONNECTED"}
    /\ \A a \in AuthStatus : CanTransition(a, "ACTIVE") => a \in {"CONNECTED", "SUSPENDED"}
BY DEF EnterIfAllowed, CanTransition, AllowedFrom, AuthStatus

\* The link and the authorization that a row carries fit together.
LinkFits(r) ==
    /\ r.status = "SUSPENDED" => r.auth \notin {"ACTIVE", "CONNECTED"}
    /\ r.status = "CONNECTED" => r.auth # "SUSPENDED"

\* The requests keep what they read, or are over, or validate.
RequestKept(w) ==
    /\ \A v \in Workers : v # w => work'[v] = work[v]
    /\ \/ work'[w] = Done
       \/ work'[w].op = "validate" /\ work'[w].pc # "enable"
       \/ /\ work'[w].op = work[w].op /\ work'[w].seen.auth = work[w].seen.auth
          /\ work'[w].inflight = work[w].inflight
          /\ work'[w].pc \notin {"checked", "pass", "fail", "unvalidate", "enable"}

\* A step of that kind keeps the link and the authorization fitting together.
LEMMA RequestKeepsSuspend ==
    ASSUME SuspendInv, NEW w \in Workers, LinkFits(row'), RequestKept(w)
    PROVE  SuspendInv'
<1>1. Done.op = "none" /\ Done.pc = "idle"
    BY DEF Done
<1> QED
    BY <1>1 DEF SuspendInv, LinkFits, RequestKept, At

\* A worker that moves or finishes keeps its request.
LEMMA MoveKeepsRequest ==
    ASSUME TypeOK, NEW w \in Workers
    PROVE  /\ \A pc : Goto(w, pc) /\ pc \notin {"checked", "pass", "fail", "unvalidate", "enable"}
                  => RequestKept(w)
           /\ Finish(w) => RequestKept(w)
           /\ ConnectPhaseEnds(w) => RequestKept(w)
<1>1. work \in [Workers -> WorkType]
    BY DEF TypeOK
<1> QED
    BY <1>1, OwnMove DEF RequestKept

\* So does a worker that moves and writes one more field of its own.
LEMMA UpdateKeepsRequest ==
    ASSUME TypeOK, NEW w \in Workers, NEW pc,
           pc \notin {"checked", "pass", "fail", "unvalidate", "enable"}
    PROVE  /\ work' = [work EXCEPT ![w] = [work[w] EXCEPT !.pc = pc]] => RequestKept(w)
           /\ \A t : work' = [work EXCEPT ![w] = [work[w] EXCEPT !.pc = pc, !.then = t]]
                  => RequestKept(w)
           /\ \A u : work' = [work EXCEPT ![w] = [work[w] EXCEPT !.pc = pc, !.using = u]]
                  => RequestKept(w)
           /\ \A n : work' = [work EXCEPT ![w] = [work[w] EXCEPT !.pc = pc, !.tries = n]]
                  => RequestKept(w)
           /\ \A g : work' = [work EXCEPT ![w] = [work[w] EXCEPT !.pc = pc, !.got = g]]
                  => RequestKept(w)
           /\ \A c : work' = [work EXCEPT ![w] = [work[w] EXCEPT !.pc = pc, !.token = c]]
                  => RequestKept(w)
           /\ work' = [work EXCEPT ![w] = [Adopt(work[w]) EXCEPT !.pc = pc]] => RequestKept(w)
           /\ work' = [work EXCEPT ![w] = [[work[w] EXCEPT !.then = "failed"] EXCEPT !.pc = pc]]
                  => RequestKept(w)
<1>t. row \in RowType /\ work \in [Workers -> WorkType] /\ work[w] \in WorkType
    BY DEF TypeOK
<1>m. ASSUME NEW x, x.op = work[w].op, x.seen = work[w].seen, x.inflight = work[w].inflight,
             x.pc = pc, work' = [work EXCEPT ![w] = x]
      PROVE  RequestKept(w)
    BY <1>t, <1>m DEF RequestKept
<1>1. work' = [work EXCEPT ![w] = [work[w] EXCEPT !.pc = pc]] => RequestKept(w)
    <2> DEFINE x == [work[w] EXCEPT !.pc = pc]
    <2>1. x.op = work[w].op /\ x.seen = work[w].seen /\ x.inflight = work[w].inflight /\ x.pc = pc
        BY <1>t DEF WorkType
    <2> HIDE DEF x
    <2>2. work' = [work EXCEPT ![w] = x] => RequestKept(w)
        BY <1>m, <2>1
    <2> QED
        BY <2>2 DEF x
<1>2. ASSUME NEW t, work' = [work EXCEPT ![w] = [work[w] EXCEPT !.pc = pc, !.then = t]]
      PROVE  RequestKept(w)
    <2> DEFINE x == [work[w] EXCEPT !.pc = pc, !.then = t]
    <2>1. x.op = work[w].op /\ x.seen = work[w].seen /\ x.inflight = work[w].inflight /\ x.pc = pc
        BY <1>t DEF WorkType
    <2>2. work' = [work EXCEPT ![w] = x]
        BY <1>2
    <2> HIDE DEF x
    <2> QED
        BY <1>m, <2>1, <2>2
<1>3. ASSUME NEW u, work' = [work EXCEPT ![w] = [work[w] EXCEPT !.pc = pc, !.using = u]]
      PROVE  RequestKept(w)
    <2> DEFINE x == [work[w] EXCEPT !.pc = pc, !.using = u]
    <2>1. x.op = work[w].op /\ x.seen = work[w].seen /\ x.inflight = work[w].inflight /\ x.pc = pc
        BY <1>t DEF WorkType
    <2>2. work' = [work EXCEPT ![w] = x]
        BY <1>3
    <2> HIDE DEF x
    <2> QED
        BY <1>m, <2>1, <2>2
<1>4. ASSUME NEW n, work' = [work EXCEPT ![w] = [work[w] EXCEPT !.pc = pc, !.tries = n]]
      PROVE  RequestKept(w)
    <2> DEFINE x == [work[w] EXCEPT !.pc = pc, !.tries = n]
    <2>1. x.op = work[w].op /\ x.seen = work[w].seen /\ x.inflight = work[w].inflight /\ x.pc = pc
        BY <1>t DEF WorkType
    <2>2. work' = [work EXCEPT ![w] = x]
        BY <1>4
    <2> HIDE DEF x
    <2> QED
        BY <1>m, <2>1, <2>2
<1>5. ASSUME NEW g, work' = [work EXCEPT ![w] = [work[w] EXCEPT !.pc = pc, !.got = g]]
      PROVE  RequestKept(w)
    <2> DEFINE x == [work[w] EXCEPT !.pc = pc, !.got = g]
    <2>1. x.op = work[w].op /\ x.seen = work[w].seen /\ x.inflight = work[w].inflight /\ x.pc = pc
        BY <1>t DEF WorkType
    <2>2. work' = [work EXCEPT ![w] = x]
        BY <1>5
    <2> HIDE DEF x
    <2> QED
        BY <1>m, <2>1, <2>2
<1>6. ASSUME NEW c, work' = [work EXCEPT ![w] = [work[w] EXCEPT !.pc = pc, !.token = c]]
      PROVE  RequestKept(w)
    <2> DEFINE x == [work[w] EXCEPT !.pc = pc, !.token = c]
    <2>1. x.op = work[w].op /\ x.seen = work[w].seen /\ x.inflight = work[w].inflight /\ x.pc = pc
        BY <1>t DEF WorkType
    <2>2. work' = [work EXCEPT ![w] = x]
        BY <1>6
    <2> HIDE DEF x
    <2> QED
        BY <1>m, <2>1, <2>2
<1>7. work' = [work EXCEPT ![w] = [Adopt(work[w]) EXCEPT !.pc = pc]] => RequestKept(w)
    <2> DEFINE x == [Adopt(work[w]) EXCEPT !.pc = pc]
    <2>1. /\ Adopt(work[w]) \in WorkType
          /\ Adopt(work[w]).op = work[w].op
          /\ Adopt(work[w]).seen = work[w].seen
          /\ Adopt(work[w]).inflight = work[w].inflight
        <3>1. Adopt(work[w]) \in WorkType
            BY <1>t, AdoptTypes
        <3> QED
            BY <1>t, <3>1 DEF Adopt, WorkType
    <2>2. x.op = work[w].op /\ x.seen = work[w].seen /\ x.inflight = work[w].inflight /\ x.pc = pc
        BY <2>1 DEF WorkType
    <2> HIDE DEF x
    <2>3. work' = [work EXCEPT ![w] = x] => RequestKept(w)
        BY <1>m, <2>2
    <2> QED
        BY <2>3 DEF x
<1>8. work' = [work EXCEPT ![w] = [[work[w] EXCEPT !.then = "failed"] EXCEPT !.pc = pc]] => RequestKept(w)
    <2> DEFINE x == [[work[w] EXCEPT !.then = "failed"] EXCEPT !.pc = pc]
    <2>1. /\ [work[w] EXCEPT !.then = "failed"] \in WorkType
          /\ [work[w] EXCEPT !.then = "failed"].op = work[w].op
          /\ [work[w] EXCEPT !.then = "failed"].seen = work[w].seen
          /\ [work[w] EXCEPT !.then = "failed"].inflight = work[w].inflight
        BY <1>t DEF WorkType
    <2>2. x.op = work[w].op /\ x.seen = work[w].seen /\ x.inflight = work[w].inflight /\ x.pc = pc
        BY <2>1 DEF WorkType
    <2> HIDE DEF x
    <2>3. work' = [work EXCEPT ![w] = x] => RequestKept(w)
        BY <1>m, <2>2
    <2> QED
        BY <2>3 DEF x
<1> QED
    BY <1>1, <1>2, <1>3, <1>4, <1>5, <1>6, <1>7, <1>8

\* Every step of a worker keeps its request or starts one, and a row that fits.
LEMMA StepKeepsSuspend ==
    ASSUME TypeOK, SuspendInv, NEW w \in Workers, Step(w)
    PROVE  SuspendInv'
<1>t. row \in RowType /\ work \in [Workers -> WorkType] /\ work[w] \in WorkType
      /\ row.auth \in AuthStatus /\ work[w].seen.auth \in AuthStatus
      /\ work[w].inflight \in AuthStatus
    BY DEF TypeOK, RowType, WorkType, CopyType
<1>l. LinkFits(row)
    BY DEF SuspendInv, LinkFits
<1>s. row'.status = row.status /\ row'.auth = row.auth => LinkFits(row')
    BY <1>l DEF LinkFits
<1>1. CASE EnterConnecting(w)
    <2> DEFINE auth == EnterIfAllowed(work[w].seen.auth, "CONNECTING")
    <2>1. LinkFits(row')
        <3>1. CASE row' = row
            BY <1>l, <3>1
        <3>2. CASE /\ row' = [row EXCEPT !.auth = auth, !.status = "SUSPENDED",
                                         !.failures = work[w].seen.failures]
                   /\ PreserveSuspended(w) /\ Guard(work[w].seen.auth)
            <4>1. row.auth = "SUSPENDED" /\ work[w].seen.auth = "SUSPENDED"
                BY <3>2 DEF PreserveSuspended, Guard, SuspendInv
            <4>2. row'.auth = "SUSPENDED" /\ row'.status = "SUSPENDED"
                BY <1>t, <3>2, <4>1, Table DEF RowType
            <4> QED
                BY <4>2 DEF LinkFits
        <3>3. CASE row' = [row EXCEPT !.auth = auth, !.status = "CONNECTING", !.failures = 0]
            <4>1. row'.status = "CONNECTING"
                BY <1>t, <3>3 DEF RowType
            <4> QED
                BY <4>1 DEF LinkFits
        <3> QED
            BY <1>1, <3>1, <3>2, <3>3 DEF EnterConnecting
    <2>2. \/ ConnectPhaseEnds(w)
          \/ work' = [work EXCEPT ![w] = [work[w] EXCEPT !.pc = "fresh", !.inflight = auth]]
        BY <1>1, <1>t DEF EnterConnecting
    <2>3. CASE ConnectPhaseEnds(w)
        BY <2>1, <2>3, MoveKeepsRequest, RequestKeepsSuspend
    <2>4. CASE work' = [work EXCEPT ![w] = [work[w] EXCEPT !.pc = "fresh", !.inflight = auth]]
        <3>1. work[w].op = "recover" => auth = "SUSPENDED"
            BY Table DEF SuspendInv
        <3> HIDE DEF auth
        <3>2. /\ work'[w].pc = "fresh" /\ work'[w].op = work[w].op
              /\ work'[w].seen = work[w].seen /\ work'[w].inflight = auth
              /\ \A v \in Workers : v # w => work'[v] = work[v]
            BY <1>t, <2>4 DEF WorkType
        <3> QED
            BY <2>1, <3>1, <3>2 DEF SuspendInv, LinkFits, At
    <2> QED
        BY <2>2, <2>3, <2>4
<1>2. CASE Refresh(w)
    <2>1. row'.status = row.status /\ row'.auth = row.auth
        BY <1>2, <1>t DEF Refresh, EnsureFreshTokens, ClaimWon, ClaimLost, WaitReload, VerifyClaim,
           RefreshAccepted, RefreshFails, Persist, PersistFails, PersistedRow, PersistLost,
           MarkRefreshRejected, ReleaseLease, RefreshStatementFails, TryAdoptNewer, RowType
    <2>2. RequestKept(w)
        <3>a. /\ Adopt(work[w]) \in WorkType /\ Adopt(work[w]).then \in {"handshake", "failed"}
              /\ Adopt(work[w]).op = work[w].op /\ Adopt(work[w]).seen = work[w].seen
              /\ Adopt(work[w]).inflight = work[w].inflight
            <4>1. Adopt(work[w]) \in WorkType /\ Adopt(work[w]).then \in {"handshake", "failed"}
                BY <1>t, AdoptTypes
            <4> QED
                BY <1>t, <4>1 DEF Adopt, WorkType
        <3>k. work[w].then \in {"idle", "failed", "handshake", "adopt"}
            BY <1>t DEF WorkType
        <3>1. CASE EnsureFreshTokens(w) \/ ClaimWon(w)
            <4>1. \/ work' = [work EXCEPT ![w] = [work[w] EXCEPT !.pc = "handshake",
                                                                 !.using = work[w].seen.pair]]
                  \/ work' = [work EXCEPT ![w] = [work[w] EXCEPT !.pc = "claim"]]
                  \/ work' = [work EXCEPT ![w] = [work[w] EXCEPT !.pc = "verify",
                                                                 !.token = claims + 1]]
                BY <3>1, <1>t DEF EnsureFreshTokens, Goto, ClaimWon
            <4> QED
                BY <4>1, UpdateKeepsRequest
        <3>2. CASE ClaimLost(w)
            <4>1. \/ work' = [work EXCEPT ![w] = [work[w] EXCEPT !.pc = "failed"]]
                  \/ \E n : work' = [work EXCEPT ![w] = [work[w] EXCEPT !.pc = "wait", !.tries = n]]
                BY <3>2, <1>t DEF ClaimLost
            <4> QED
                BY <4>1, UpdateKeepsRequest
        <3>3. CASE WaitReload(w) \/ VerifyClaim(w) \/ TryAdoptNewer(w) \/ PersistLost(w)
            <4>1. \/ \E pc \in {"failed", "reclaim", "refresh"} :
                         work' = [work EXCEPT ![w] = [work[w] EXCEPT !.pc = pc]]
                  \/ work' = [work EXCEPT ![w] = [work[w] EXCEPT !.pc = "release", !.then = "failed"]]
                  \/ \E pc \in {"handshake", "failed", "release"} :
                         work' = [work EXCEPT ![w] = [Adopt(work[w]) EXCEPT !.pc = pc]]
                  \/ work' = [work EXCEPT ![w] = [[work[w] EXCEPT !.then = "failed"]
                                                      EXCEPT !.pc = "release"]]
                BY <3>3, <1>t, <3>a DEF WaitReload, VerifyClaim, TryAdoptNewer, PersistLost
            <4> QED
                BY <4>1, UpdateKeepsRequest
        <3>4. CASE RefreshAccepted(w) \/ RefreshFails(w)
            <4>1. \/ work' = [work EXCEPT ![w] = [work[w] EXCEPT !.pc = "reject"]]
                  \/ work' = [work EXCEPT ![w] = [work[w] EXCEPT !.pc = "release", !.then = "failed"]]
                  \/ work' = [work EXCEPT ![w] = [work[w] EXCEPT !.pc = "persist", !.got = issued + 1]]
                BY <3>4, <1>t DEF RefreshAccepted, RefreshFails
            <4> QED
                BY <4>1, UpdateKeepsRequest
        <3>5. CASE Persist(w) \/ PersistFails(w)
            <4>1. \/ \E pc \in {"reject", "lost"} :
                         work' = [work EXCEPT ![w] = [work[w] EXCEPT !.pc = pc]]
                  \/ work' = [work EXCEPT ![w] = [work[w] EXCEPT !.pc = "handshake",
                                                                 !.using = work[w].got]]
                BY <3>5, <1>t DEF Persist, PersistFails, Goto
            <4> QED
                BY <4>1, UpdateKeepsRequest
        <3>6. CASE MarkRefreshRejected(w) \/ ReleaseLease(w) \/ RefreshStatementFails(w)
            <4>1. \/ \E t : work' = [work EXCEPT ![w] = [work[w] EXCEPT !.pc = "release", !.then = t]]
                  \/ work' = [work EXCEPT ![w] = [work[w] EXCEPT !.pc = work[w].then]]
                BY <3>6, <1>t DEF MarkRefreshRejected, ReleaseLease, RefreshStatementFails, Goto
            <4> QED
                BY <3>k, <4>1, UpdateKeepsRequest
        <3> QED
            BY <1>2, <3>1, <3>2, <3>3, <3>4, <3>5, <3>6 DEF Refresh
    <2> QED
        BY <1>s, <2>1, <2>2, RequestKeepsSuspend
<1>3. CASE Handshake(w)
    <2>1. PICK outcome \in {"connected", "refused", "mismatched", "failed"} :
              work' = [work EXCEPT ![w].authClass = work[w].using \notin alive,
                  ![w].pc = IF work[w].op # "health" THEN outcome
                            ELSE IF outcome = "connected" THEN "healthy"
                            ELSE IF outcome = "refused" THEN "failed" ELSE outcome]
        BY <1>3 DEF Handshake
    <2> DEFINE pc == IF work[w].op # "health" THEN outcome
                     ELSE IF outcome = "connected" THEN "healthy"
                     ELSE IF outcome = "refused" THEN "failed" ELSE outcome
               a == work[w].using \notin alive
    <2>2. pc \notin {"checked", "pass", "fail", "unvalidate", "enable"}
        BY <2>1
    <2>3. work' = [work EXCEPT ![w].authClass = a, ![w].pc = pc]
        BY <2>1
    <2> HIDE DEF pc, a
    <2>4. /\ work'[w].op = work[w].op /\ work'[w].seen = work[w].seen
          /\ work'[w].inflight = work[w].inflight /\ work'[w].pc = pc
          /\ \A v \in Workers : v # w => work'[v] = work[v]
        BY <1>t, <2>3 DEF WorkType
    <2>5. RequestKept(w)
        BY <2>2, <2>4 DEF RequestKept
    <2> QED
        BY <1>3, <1>s, <2>5, RequestKeepsSuspend DEF Handshake
<1>4. CASE WriteConnected(w)
    <2>1. LinkFits(row')
        <3> DEFINE auth == EnterIfAllowed(work[w].inflight, "CONNECTED")
        <3>1. auth # "SUSPENDED"
            BY <1>t, Table
        <3>2. \/ row' = row
              \/ row' = [row EXCEPT !.status = "CONNECTED", !.failures = 0,
                                    !.mismatch = FALSE, !.cred = "VERIFIED", !.auth = auth]
            BY <1>4 DEF WriteConnected
        <3> HIDE DEF auth
        <3>3. row' = row \/ (row'.status = "CONNECTED" /\ row'.auth = auth)
            BY <1>t, <3>2 DEF RowType
        <3> QED
            BY <1>l, <3>1, <3>3 DEF LinkFits
    <2>2. RequestKept(w)
        <3>1. \/ /\ work[w].op = "validate"
                 /\ work' = [work EXCEPT ![w] = [work[w] EXCEPT !.pc = "checked", !.then = "handshake"]]
              \/ Finish(w) \/ Goto(w, "failed")
            BY <1>4, <1>t DEF WriteConnected
        <3>2. CASE Finish(w) \/ Goto(w, "failed")
            BY <3>2, MoveKeepsRequest
        <3>3. CASE /\ work[w].op = "validate"
                   /\ work' = [work EXCEPT ![w] = [work[w] EXCEPT !.pc = "checked",
                                                                  !.then = "handshake"]]
            <4>1. /\ work'[w].op = "validate" /\ work'[w].pc = "checked"
                  /\ \A v \in Workers : v # w => work'[v] = work[v]
                BY <1>t, <3>3 DEF WorkType
            <4> QED
                BY <4>1 DEF RequestKept
        <3> QED
            BY <3>1, <3>2, <3>3
    <2> QED
        BY <2>1, <2>2, RequestKeepsSuspend
<1>5. CASE WriteError(w)
    <2>1. LinkFits(row')
        <3>1. CASE ~Guard(work[w].inflight)
            BY <1>5, <1>l, <3>1 DEF WriteError
        <3>2. CASE Guard(work[w].inflight) /\ PreserveSuspended(w)
            <4>1. row.auth = "SUSPENDED"
                BY <3>2 DEF Guard, PreserveSuspended, SuspendInv
            <4>2. row'.auth = row.auth /\ row'.status = "SUSPENDED"
                BY <1>5, <1>t, <3>2 DEF WriteError, RowType
            <4> QED
                BY <4>1, <4>2 DEF LinkFits
        <3>3. CASE Guard(work[w].inflight) /\ ~PreserveSuspended(w)
            <4>1. row'.status = "ERROR"
                BY <1>5, <1>t, <3>3 DEF WriteError, RowType
            <4> QED
                BY <4>1 DEF LinkFits
        <3> QED
            BY <3>1, <3>2, <3>3
    <2> QED
        BY <1>5, <2>1, MoveKeepsRequest, RequestKeepsSuspend DEF WriteError
<1>6. CASE HealthOk(w) \/ HealthFailed(w)
    <2>1. row'.status = row.status /\ row'.auth = row.auth
        BY <1>6, <1>t DEF HealthOk, HealthFailed, RowType
    <2>2. Finish(w) \/ Goto(w, "suspend")
        BY <1>6 DEF HealthOk, HealthFailed
    <2> QED
        BY <1>s, <2>1, <2>2, MoveKeepsRequest, RequestKeepsSuspend
<1>7. CASE HealthMismatch(w) \/ HealthSuspend(w)
    <2>1. LinkFits(row')
        <3> DEFINE auth == EnterIfAllowed(work[w].seen.auth, "SUSPENDED")
        <3>1. auth \notin {"ACTIVE", "CONNECTED"}
            BY <1>t, Table
        <3>2. \/ row' = row
              \/ row' = [row EXCEPT !.status = "SUSPENDED", !.auth = auth]
              \/ row' = [[row EXCEPT !.status = "SUSPENDED", !.auth = auth] EXCEPT !.mismatch = TRUE]
            BY <1>7 DEF HealthMismatch, HealthSuspend, Suspended
        <3> HIDE DEF auth
        <3>3. row' = row \/ (row'.status = "SUSPENDED" /\ row'.auth = auth)
            BY <1>t, <3>2 DEF RowType
        <3> QED
            BY <1>l, <3>1, <3>3 DEF LinkFits
    <2> QED
        BY <1>7, <2>1, MoveKeepsRequest, RequestKeepsSuspend DEF HealthMismatch, HealthSuspend
<1>8. CASE Disconnect(w)
    <2>1. row' = row \/ row'.status = "DISCONNECTED"
        BY <1>8, <1>t DEF Disconnect, RowType
    <2>2. LinkFits(row')
        BY <1>l, <2>1 DEF LinkFits
    <2>3. Finish(w) \/ Goto(w, "remove")
        BY <1>8 DEF Disconnect
    <2> QED
        BY <2>2, <2>3, MoveKeepsRequest, RequestKeepsSuspend
<1>9. CASE EnableTrading(w)
    <2>1. row' = row \/ (row'.status = row.status /\ row'.auth = "ACTIVE" /\ row.auth = "CONNECTED")
        BY <1>9, <1>t DEF EnableTrading, Guard, SuspendInv, At, RowType
    <2>2. LinkFits(row')
        BY <1>l, <2>1 DEF LinkFits
    <2> QED
        BY <1>9, <2>2, MoveKeepsRequest, RequestKeepsSuspend DEF EnableTrading
<1>10. CASE SoftDelete(w) \/ RotateCredentials(w) \/ RotationRefused(w) \/ ValidationPassed(w)
            \/ RevokeAuthorization(w)
    <2>1. row'.status = row.status /\ row'.auth \in {row.auth, "REVOKED"}
        BY <1>10, <1>t DEF SoftDelete, RotateCredentials, RotationRefused, ValidationPassed,
           RevokeAuthorization, RowType
    <2>2. LinkFits(row')
        BY <1>l, <2>1 DEF LinkFits
    <2>3. Finish(w)
        BY <1>10 DEF SoftDelete, RotateCredentials, RotationRefused, ValidationPassed,
           RevokeAuthorization
    <2> QED
        BY <2>2, <2>3, MoveKeepsRequest, RequestKeepsSuspend
<1>11. CASE ValidateDemo(w) \/ ValidationFailed(w)
    <2>1. row' = row /\ work[w].op = "validate"
        BY <1>11 DEF ValidateDemo, ValidationFailed, SuspendInv, At
    <2>2. RequestKept(w)
        <3>1. CASE ValidateDemo(w)
            <4>1. PICK pc \in {"pass", "fail"} :
                      work' = [work EXCEPT ![w].pc = pc, ![w].seen.demo = row.demo]
                BY <3>1 DEF ValidateDemo
            <4> DEFINE x == [work[w] EXCEPT !.pc = pc, !.seen.demo = row.demo]
            <4>2. work'[w] = x /\ \A v \in Workers : v # w => work'[v] = work[v]
                BY <1>t, <4>1
            <4>3. x.op = work[w].op /\ x.pc = pc
                BY <1>t DEF WorkType
            <4> QED
                BY <2>1, <4>1, <4>2, <4>3 DEF RequestKept
        <3>2. CASE work' = [work EXCEPT ![w] = Done]
            BY <3>2, MoveKeepsRequest DEF Finish
        <3>3. CASE work' = [work EXCEPT ![w] = [work[w] EXCEPT !.pc = "unvalidate",
                                                               !.seen = Copy("validate", row)]]
            <4>1. /\ work'[w].pc = "unvalidate" /\ work'[w].op = work[w].op
                  /\ \A v \in Workers : v # w => work'[v] = work[v]
                BY <1>t, <3>3 DEF WorkType
            <4> QED
                BY <2>1, <4>1 DEF RequestKept
        <3> QED
            BY <1>11, <1>t, <3>1, <3>2, <3>3 DEF ValidationFailed
    <2> QED
        BY <1>l, <2>1, <2>2, RequestKeepsSuspend
<1>12. CASE ClearValidation(w)
    <2>1. row'.status = row.status /\ row'.auth \in {row.auth, "REVOKED"}
        BY <1>12, <1>t DEF ClearValidation, RowType
    <2>2. LinkFits(row')
        BY <1>l, <2>1 DEF LinkFits
    <2>3. CASE Finish(w)
        BY <2>2, <2>3, MoveKeepsRequest, RequestKeepsSuspend
    <2>4. CASE work' = [work EXCEPT ![w].pc = "fail", ![w].tries = @ + 1]
        <3>1. /\ work'[w].pc = "fail" /\ work'[w].op = work[w].op
              /\ \A v \in Workers : v # w => work'[v] = work[v]
            BY <1>t, <2>4 DEF WorkType
        <3>2. work[w].op = "validate"
            BY <1>12 DEF ClearValidation, SuspendInv, At
        <3>3. RequestKept(w)
            BY <3>1, <3>2 DEF RequestKept
        <3> QED
            BY <2>2, <3>3, RequestKeepsSuspend
    <2> QED
        BY <1>12, <2>3, <2>4 DEF ClearValidation
<1> QED
    BY <1>1, <1>2, <1>3, <1>4, <1>5, <1>6, <1>7, <1>8, <1>9, <1>10, <1>11, <1>12 DEF Step

\* An operation is admitted with a copy that fits: the recovery job's row is
\* suspended, and a DEMO row that may be enabled is connected.
LEMMA StartKeepsSuspend ==
    ASSUME AccountType = "DEMO", TypeOK, SuspendInv, NEW w \in Workers, NEW op \in Operations,
           Start(w, op)
    PROVE  SuspendInv'
<1> DEFINE x == [Done EXCEPT !.op = op, !.pc = FirstStep(op), !.seen = Copy(op, row),
                             !.inflight = row.auth]
<1>1. x.op = op /\ x.pc = FirstStep(op) /\ x.seen.auth = row.auth /\ x.inflight = row.auth
    BY DEF Done, Copy
<1>2. work' = [work EXCEPT ![w] = x] /\ row' = row /\ Admits(op)
    BY DEF Start
<1> HIDE DEF x
<1>3. work'[w] = x /\ \A v \in Workers : v # w => work'[v] = work[v]
    BY <1>2, OwnMove DEF TypeOK
<1>4. op = "recover" => row.auth = "SUSPENDED"
    BY <1>2 DEF Admits
<1>5. FirstStep(op) = "checked" => op = "validate"
    BY DEF FirstStep, Operations
<1>6. FirstStep(op) \notin {"pass", "fail", "unvalidate"}
    BY DEF FirstStep, Operations
<1>7. FirstStep(op) = "enable" => row.auth = "CONNECTED"
    <2>1. FirstStep(op) = "enable" => op = "enable"
        BY DEF FirstStep, Operations
    <2>2. row.auth \in AuthStatus
        BY DEF TypeOK, RowType
    <2>3. op = "enable" => CanTransition(row.auth, "ACTIVE") /\ row.status = "CONNECTED"
        BY <1>2 DEF Admits
    <2> QED
        BY <2>1, <2>2, <2>3, Table DEF SuspendInv
<1> QED
    BY <1>1, <1>2, <1>3, <1>4, <1>5, <1>6, <1>7 DEF SuspendInv, At

\* Every step of a DEMO connection keeps link and authorization together.
LEMMA SuspendStep ==
    ASSUME AccountType = "DEMO"
    PROVE  TypeOK /\ SuspendInv /\ [Next]_vars => SuspendInv'
<1> SUFFICES ASSUME TypeOK, SuspendInv, [Next]_vars PROVE SuspendInv'
    OBVIOUS
<1>1. CASE UNCHANGED vars
    BY <1>1 DEF vars, SuspendInv, At
<1>2. ASSUME NEW w \in Workers, NEW op \in Operations, Start(w, op) PROVE SuspendInv'
    BY <1>2, StartKeepsSuspend
<1>3. ASSUME NEW w \in Workers, Step(w) PROVE SuspendInv'
    BY <1>3, StepKeepsSuspend
<1>4. ASSUME NEW w \in Workers, Crash(w) PROVE SuspendInv'
    <2>1. LinkFits(row')
        BY <1>4 DEF Crash, SuspendInv, LinkFits
    <2> QED
        BY <1>4, <2>1, MoveKeepsRequest, RequestKeepsSuspend DEF Crash
<1>5. CASE LeaseExpires
    <2>1. row'.status = row.status /\ row'.auth = row.auth /\ work' = work
        BY <1>5 DEF LeaseExpires, TypeOK, RowType
    <2> QED
        BY <2>1 DEF SuspendInv, At
<1> QED
    BY <1>1, <1>2, <1>3, <1>4, <1>5 DEF Next

\* A DEMO connection that the health check or an environment contradiction
\* suspended is never executable, whatever connect, recovery, enable or validation
\* request runs beside.  (A LIVE one can be enabled from SUSPENDED.)
THEOREM SuspendedIsIdle ==
    ASSUME AccountType = "DEMO"
    PROVE  Spec => []SuspendedNotExecutable
<1>1. Init => SuspendInv
    <2> SUFFICES ASSUME Init PROVE SuspendInv
        OBVIOUS
    <2>1. row.status # "SUSPENDED" /\ row.auth # "SUSPENDED"
        <3>1. CASE row = NewRow
            BY <3>1 DEF NewRow
        <3>2. ASSUME NEW auth \in {"CONNECTED", "ACTIVE"}, NEW demo, NEW failures,
                     row = [NewRow EXCEPT !.status = "CONNECTED", !.cred = "VERIFIED",
                                !.auth = auth, !.demo = demo, !.failures = failures]
              PROVE  row.status = "CONNECTED" /\ row.auth = auth
            BY <3>2 DEF NewRow
        <3> QED
            BY <3>1, <3>2 DEF Init
    <2>2. \A w \in Workers : work[w] = Done
        BY DEF Init
    <2> QED
        BY <2>1, <2>2 DEF SuspendInv, Done, At
<1>2. PairInv => TypeOK
    BY DEF PairInv
<1>3. SuspendInv => SuspendedNotExecutable
    BY DEF SuspendInv, SuspendedNotExecutable
<1>4. TypeOK /\ SuspendInv /\ [Next]_vars => SuspendInv'
    BY SuspendStep
<1> QED
    BY <1>1, <1>2, <1>3, <1>4, PairInit, PairStep, PTL DEF Spec
=============================================================================
