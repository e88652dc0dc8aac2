------------------------ MODULE SharedControlProofs ------------------------
(***************************************************************************)
(* The safety properties of the bootstrap sync, for any number of replicas, *)
(* builds and boots; and, at the end, that a grant passes the commitment's  *)
(* revision comparison only if the shared row was not touched since its     *)
(* issuance (PolicyFence), which rests on the revision growing with every   *)
(* write of the row.                                                        *)
(***************************************************************************)
EXTENDS PolicyFence, TLAPS

\* The row is the last entry of the history.
RowIsLastInstalled ==
    /\ state.rev = Len(installed)
    /\ state.rev = 0 => state = Absent
    /\ state.rev > 0 => state.fp = installed[state.rev]

\* What a replica in the middle of an attempt knows.
AttemptInv(r) ==
    /\ pc[r] \in Syncing \union {"up"} => embedded[r] \in Fingerprints
    /\ pc[r] \in Syncing => attempt[r] \in 1 .. SYNC_CAS_MAX_ATTEMPTS
    /\ pc[r] \in {"seedState", "seedLog"} => attempt[r] = 1
    /\ pc[r] = "seedLog" => state.rev >= 1
    /\ pc[r] = "read" => state.rev + 1 >= attempt[r]
    /\ pc[r] \in {"append", "cas"} =>
            /\ seen[r] \in 1 .. state.rev
            /\ installed[seen[r]] # embedded[r]
            /\ seen[r] + 1 >= attempt[r]
    /\ pc[r] = "cas" => HasLogRow(seen[r] + 1)
    /\ pc[r] = "failed" => state.rev >= SYNC_CAS_MAX_ATTEMPTS
    /\ pc[r] = "up" => /\ synced[r] \in 1 .. state.rev
                       /\ installed[synced[r]] = embedded[r]

IInv ==
    /\ TypeOK
    /\ RowIsLastInstalled
    /\ \A r \in Replicas : AttemptInv(r)
    /\ AdjacentRevisionsDiffer
    /\ LogCoversAdvances

\* A fresh database satisfies the invariant.
LEMMA InitInv == Init => IInv
  BY SharedControlAssumption
  DEF Init, IInv, TypeOK, Row, Stages, RowIsLastInstalled, AttemptInv, Syncing,
      AdjacentRevisionsDiffer, LogCoversAdvances, HasLogRow, Absent,
      SYNC_CAS_MAX_ATTEMPTS

\* Steps that leave the row, its history and the log alone.
LEMMA QuietStep ==
  ASSUME IInv, NEW r \in Replicas,
         UNCHANGED <<state, log, installed>>,
         TypeOK', AttemptInv(r)',
         \A q \in Replicas \ {r} :
            /\ pc'[q] = pc[q]
            /\ embedded'[q] = embedded[q]
            /\ attempt'[q] = attempt[q]
            /\ seen'[q] = seen[q]
            /\ synced'[q] = synced[q]
  PROVE  IInv'
<1>1. RowIsLastInstalled' BY DEF IInv, RowIsLastInstalled
<1>2. (\A q \in Replicas : AttemptInv(q))'
  <2> SUFFICES ASSUME NEW q \in Replicas, q # r PROVE AttemptInv(q)'
    OBVIOUS
  <2>1. AttemptInv(q) BY DEF IInv
  <2> QED BY <2>1 DEF AttemptInv, HasLogRow
<1>3. AdjacentRevisionsDiffer' BY DEF IInv, AdjacentRevisionsDiffer
<1>4. LogCoversAdvances' BY DEF IInv, LogCoversAdvances, HasLogRow
<1> QED BY <1>1, <1>2, <1>3, <1>4 DEF IInv

\* Steps that install the next revision: what the other replicas know survives.
LEMMA InstallKeepsAttempts ==
  ASSUME IInv, NEW r \in Replicas, NEW q \in Replicas, q # r,
         log' = log,
         installed' = Append(installed, embedded[r]),
         embedded[r] \in Fingerprints,
         state' = [rev |-> state.rev + 1, fp |-> embedded[r]],
         embedded' = embedded, attempt' = attempt, seen' = seen,
         pc'[q] = pc[q], synced'[q] = synced[q]
  PROVE  AttemptInv(q)'
<1>1. AttemptInv(q) /\ RowIsLastInstalled /\ TypeOK BY DEF IInv
<1>2. \A n \in 1 .. state.rev : installed'[n] = installed[n]
  BY <1>1 DEF RowIsLastInstalled, TypeOK
<1>3. state'.rev = state.rev + 1 /\ state.rev \in Nat BY <1>1 DEF TypeOK, Row
<1>4. seen[q] \in Nat /\ attempt[q] \in Nat /\ synced[q] \in Nat BY <1>1 DEF TypeOK
<1>5. ASSUME NEW n \in 1 .. state.rev PROVE n \in 1 .. state'.rev /\ installed'[n] = installed[n]
  BY ONLY <1>2, <1>3, <1>5
<1>6. /\ pc[q] \in {"append", "cas"} =>
           /\ seen[q] \in 1 .. state'.rev
           /\ installed'[seen[q]] # embedded[q]
      /\ pc[q] = "up" =>
           /\ synced[q] \in 1 .. state'.rev
           /\ installed'[synced[q]] = embedded[q]
  <2>1. CASE pc[q] \in {"append", "cas"}
    <3>1. seen[q] \in 1 .. state.rev /\ installed[seen[q]] # embedded[q]
      BY ONLY <1>1, <2>1 DEF AttemptInv
    <3> QED BY ONLY <2>1, <3>1, <1>5
  <2>2. CASE pc[q] = "up"
    <3>1. synced[q] \in 1 .. state.rev /\ installed[synced[q]] = embedded[q]
      BY ONLY <1>1, <2>2 DEF AttemptInv
    <3> QED BY ONLY <2>2, <3>1, <1>5
  <2> QED BY <2>1, <2>2
<1>7. pc[q] = "cas" => HasLogRow(seen[q] + 1)'
  BY <1>1 DEF AttemptInv, HasLogRow
<1>8. /\ pc'[q] = pc[q] /\ synced'[q] = synced[q] /\ seen'[q] = seen[q]
      /\ attempt'[q] = attempt[q] /\ embedded'[q] = embedded[q]
  OBVIOUS
<1> QED BY ONLY <1>1, <1>3, <1>4, <1>6, <1>7, <1>8
        DEF AttemptInv, SYNC_CAS_MAX_ATTEMPTS, Syncing, HasLogRow

\* Steps that add a log row at most one revision ahead.
LEMMA LogStep ==
  ASSUME IInv, NEW n \in 1 .. state.rev + 1, NEW fp \in Fingerprints,
         InsertLogOrIgnore(n, fp), UNCHANGED state
  PROVE  /\ log' \subseteq Row
         /\ LogCoversAdvances'
         /\ \E row \in log' : row.rev = n
         /\ \A k : HasLogRow(k) => \E row \in log' : row.rev = k
<1>1. state.rev \in Nat /\ log \subseteq Row BY DEF IInv, TypeOK, Row
<1>2. log \subseteq log' BY DEF InsertLogOrIgnore
<1>3. log' \subseteq log \union {[rev |-> n, fp |-> fp]} BY DEF InsertLogOrIgnore
<1>4. log' \subseteq Row BY <1>1, <1>3 DEF Row
<1>5. \E row \in log' : row.rev = n
  <2>1. CASE HasLogRow(n) BY <1>2, <2>1 DEF HasLogRow
  <2>2. CASE ~HasLogRow(n)
    <3>1. [rev |-> n, fp |-> fp] \in log' BY <2>2 DEF InsertLogOrIgnore
    <3> QED BY <3>1
  <2> QED BY <2>1, <2>2
<1>6. LogCoversAdvances'
  BY <1>1, <1>2, <1>3 DEF IInv, LogCoversAdvances, HasLogRow
<1> QED BY <1>2, <1>4, <1>5, <1>6 DEF HasLogRow

\* The end of an unsuccessful iteration, as two facts about the loop counter.
LEMMA RetryOrFail ==
  ASSUME TypeOK, NEW r \in Replicas, NextAttempt(r)
  PROVE  /\ pc' \in [Replicas -> Stages]
         /\ attempt' \in [Replicas -> 0 .. SYNC_CAS_MAX_ATTEMPTS]
         /\ \A q \in Replicas \ {r} : pc'[q] = pc[q] /\ attempt'[q] = attempt[q]
         /\ \/ /\ attempt[r] < SYNC_CAS_MAX_ATTEMPTS
               /\ pc'[r] = "read"
               /\ attempt'[r] = attempt[r] + 1
            \/ /\ attempt[r] >= SYNC_CAS_MAX_ATTEMPTS
               /\ pc'[r] = "failed"
               /\ attempt' = attempt
<1>0. attempt[r] \in 0 .. 3 BY DEF TypeOK, SYNC_CAS_MAX_ATTEMPTS
<1>1. CASE attempt[r] < SYNC_CAS_MAX_ATTEMPTS
  <2>1. ~(attempt[r] >= SYNC_CAS_MAX_ATTEMPTS) BY <1>0, <1>1 DEF SYNC_CAS_MAX_ATTEMPTS
  <2>2. /\ attempt' = [attempt EXCEPT ![r] = attempt[r] + 1]
        /\ pc' = [pc EXCEPT ![r] = "read"]
    BY <2>1 DEF NextAttempt
  <2>3. attempt[r] + 1 \in 0 .. SYNC_CAS_MAX_ATTEMPTS
    BY <1>0, <1>1 DEF SYNC_CAS_MAX_ATTEMPTS
  <2> QED BY <1>1, <2>2, <2>3 DEF TypeOK, Stages
<1>2. CASE ~(attempt[r] < SYNC_CAS_MAX_ATTEMPTS)
  <2>1. /\ attempt[r] >= SYNC_CAS_MAX_ATTEMPTS
        /\ attempt' = attempt
        /\ pc' = [pc EXCEPT ![r] = "failed"]
    BY <1>0, <1>2 DEF NextAttempt, SYNC_CAS_MAX_ATTEMPTS
  <2> QED BY <2>1 DEF TypeOK, Stages
<1> QED BY <1>1, <1>2

\* Every step of every replica preserves the invariant.
LEMMA NextInv == IInv /\ [Next]_vars => IInv'
<1> SUFFICES ASSUME IInv, [Next]_vars PROVE IInv'
  OBVIOUS
<1> USE SharedControlAssumption
<1>0. TypeOK /\ RowIsLastInstalled /\ state.rev \in Nat
  BY DEF IInv, TypeOK, Row
<1>1. ASSUME NEW r \in Replicas, NEW fp \in Fingerprints, Boot(r, fp) PROVE IInv'
  <2>1. TypeOK' BY <1>0, <1>1 DEF Boot, TypeOK, Stages, SYNC_CAS_MAX_ATTEMPTS
  <2>2. AttemptInv(r)'
    BY <1>0, <1>1 DEF Boot, TypeOK, AttemptInv, Syncing, SYNC_CAS_MAX_ATTEMPTS
  <2> QED BY <1>1, <2>1, <2>2, QuietStep DEF Boot, TypeOK, IInv
<1>2. ASSUME NEW r \in Replicas, ReadAbsent(r) PROVE IInv'
  <2>1. TypeOK' BY <1>0, <1>2 DEF ReadAbsent, TypeOK, Stages
  <2>2. AttemptInv(r) /\ attempt[r] \in Nat BY <1>0 DEF IInv, TypeOK
  <2>3. state.rev = 0 BY <1>2 DEF ReadAbsent, Absent
  <2>4. AttemptInv(r)'
    BY <1>0, <1>2, <2>2, <2>3
    DEF ReadAbsent, TypeOK, AttemptInv, Syncing, SYNC_CAS_MAX_ATTEMPTS
  <2> QED BY <1>2, <2>1, <2>4, QuietStep DEF ReadAbsent, TypeOK, IInv
<1>3. ASSUME NEW r \in Replicas, ReadCurrent(r) PROVE IInv'
  <2>1. TypeOK' BY <1>0, <1>3 DEF ReadCurrent, TypeOK, Stages
  <2>2. AttemptInv(r) BY DEF IInv
  <2>3. state.rev > 0
    BY <1>0, <1>3, <2>2 DEF ReadCurrent, RowIsLastInstalled, AttemptInv, Syncing, Absent
  <2>4. AttemptInv(r)'
    BY <1>0, <1>3, <2>2, <2>3
    DEF ReadCurrent, TypeOK, AttemptInv, Syncing, RowIsLastInstalled
  <2> QED BY <1>3, <2>1, <2>4, QuietStep DEF ReadCurrent, TypeOK, IInv
<1>4. ASSUME NEW r \in Replicas, ReadStale(r) PROVE IInv'
  <2>1. TypeOK' BY <1>0, <1>4 DEF ReadStale, TypeOK, Stages
  <2>2. AttemptInv(r) BY DEF IInv
  <2>3. state.rev > 0 BY <1>0, <1>4 DEF ReadStale, RowIsLastInstalled
  <2>4. AttemptInv(r)'
    BY <1>0, <1>4, <2>2, <2>3
    DEF ReadStale, TypeOK, AttemptInv, Syncing, RowIsLastInstalled
  <2> QED BY <1>4, <2>1, <2>4, QuietStep DEF ReadStale, TypeOK, IInv
<1>5. ASSUME NEW r \in Replicas, SeedState(r) PROVE IInv'
  <2>1. AttemptInv(r) BY DEF IInv
  <2>2. embedded[r] \in Fingerprints BY <1>5, <2>1 DEF SeedState, AttemptInv, Syncing
  <2>3. TypeOK'
    <3>1. state' = state \/ state' = [rev |-> 1, fp |-> embedded[r]]
      BY <1>5 DEF SeedState
    <3>2. state' \in Row BY <1>0, <2>2, <3>1 DEF TypeOK, Row
    <3>3. installed' = installed \/ installed' = Append(installed, embedded[r])
      BY <1>5 DEF SeedState
    <3>4. installed \in Seq(Fingerprints) BY <1>0 DEF TypeOK
    <3>5. Append(installed, embedded[r]) \in Seq(Fingerprints) BY ONLY <2>2, <3>4
    <3>6. installed' \in Seq(Fingerprints) BY ONLY <3>3, <3>4, <3>5
    <3> QED BY <1>0, <1>5, <3>2, <3>6 DEF SeedState, replicaVars, TypeOK, Stages
  <2>4. CASE state # Absent
    <3>1. AttemptInv(r)'
      BY <1>0, <1>5, <2>1, <2>4
      DEF SeedState, replicaVars, TypeOK, AttemptInv, Syncing, RowIsLastInstalled
    <3> QED BY <1>5, <2>3, <2>4, <3>1, QuietStep DEF SeedState, replicaVars, TypeOK, IInv
  <2>5. CASE state = Absent
    <3>1. state.rev = 0 /\ state' = [rev |-> state.rev + 1, fp |-> embedded[r]]
      BY <1>5, <2>5 DEF SeedState, Absent
    <3>2. installed' = <<embedded[r]>> /\ installed' = Append(installed, embedded[r])
      BY <1>0, <1>5, <2>5, <3>1 DEF SeedState, RowIsLastInstalled, TypeOK
    <3>3. RowIsLastInstalled' BY <3>1, <3>2, <2>2 DEF RowIsLastInstalled
    <3>4. AttemptInv(r)'
      BY <1>0, <1>5, <2>1, <3>1 DEF SeedState, replicaVars, TypeOK, AttemptInv, Syncing
    <3>5. ASSUME NEW q \in Replicas, q # r PROVE AttemptInv(q)'
      BY <1>0, <1>5, <2>2, <3>1, <3>2, <3>5, InstallKeepsAttempts
      DEF SeedState, replicaVars, TypeOK
    <3>6. AdjacentRevisionsDiffer' BY <3>2, <2>2 DEF AdjacentRevisionsDiffer
    <3>7. LogCoversAdvances'
      BY <1>5, <3>1 DEF SeedState, IInv, LogCoversAdvances, HasLogRow
    <3> QED BY <2>3, <3>3, <3>4, <3>5, <3>6, <3>7 DEF IInv
  <2> QED BY <2>4, <2>5
<1>6. ASSUME NEW r \in Replicas, SeedLog(r) PROVE IInv'
  <2>1. AttemptInv(r) BY DEF IInv
  <2>2. /\ embedded[r] \in Fingerprints
        /\ state.rev >= 1
        /\ attempt[r] = 1
    BY <1>6, <2>1 DEF SeedLog, AttemptInv, Syncing
  <2>3. /\ log' \subseteq Row
        /\ LogCoversAdvances'
        /\ \A k : HasLogRow(k) => \E row \in log' : row.rev = k
    BY <1>0, <1>6, <2>2, LogStep, 1 \in 1 .. state.rev + 1 DEF SeedLog
  <2>5. /\ pc' \in [Replicas -> Stages]
        /\ attempt' \in [Replicas -> 0 .. SYNC_CAS_MAX_ATTEMPTS]
        /\ \A q \in Replicas \ {r} : pc'[q] = pc[q] /\ attempt'[q] = attempt[q]
        /\ pc'[r] = "read" /\ attempt'[r] = 2
    BY <1>0, <1>6, <2>2, RetryOrFail DEF SeedLog, SYNC_CAS_MAX_ATTEMPTS
  <2>4. TypeOK' BY <1>0, <1>6, <2>3, <2>5 DEF SeedLog, TypeOK
  <2>6. ASSUME NEW q \in Replicas PROVE AttemptInv(q)'
    <3>1. AttemptInv(q) BY DEF IInv
    <3>2. UNCHANGED <<state, embedded, seen, synced, installed>> BY <1>6 DEF SeedLog
    <3>3. CASE q = r
      BY <1>0, <1>6, <2>2, <2>5, <3>1, <3>2, <3>3
      DEF SeedLog, AttemptInv, Syncing, SYNC_CAS_MAX_ATTEMPTS
    <3>4. CASE q # r
      BY <2>3, <2>5, <3>1, <3>2, <3>4 DEF AttemptInv, HasLogRow
    <3> QED BY <3>3, <3>4
  <2> QED BY <1>6, <2>3, <2>4, <2>6
          DEF SeedLog, IInv, RowIsLastInstalled, AdjacentRevisionsDiffer
<1>7. ASSUME NEW r \in Replicas, AppendLog(r) PROVE IInv'
  <2>1. AttemptInv(r) BY DEF IInv
  <2>2. embedded[r] \in Fingerprints /\ seen[r] + 1 \in 1 .. state.rev + 1
    BY <1>0, <1>7, <2>1 DEF AppendLog, AttemptInv, Syncing
  <2>3. /\ log' \subseteq Row
        /\ LogCoversAdvances'
        /\ \E row \in log' : row.rev = seen[r] + 1
        /\ \A k : HasLogRow(k) => \E row \in log' : row.rev = k
    BY <1>0, <1>7, <2>2, LogStep DEF AppendLog
  <2>4. TypeOK'
    BY <1>0, <1>7, <2>3 DEF AppendLog, replicaVars, TypeOK, Stages
  <2>5. ASSUME NEW q \in Replicas PROVE AttemptInv(q)'
    <3>1. AttemptInv(q) BY DEF IInv
    <3> QED BY <1>0, <1>7, <2>3, <3>1
            DEF AppendLog, replicaVars, TypeOK, AttemptInv, Syncing, HasLogRow
  <2> QED BY <1>7, <2>3, <2>4, <2>5
          DEF AppendLog, IInv, RowIsLastInstalled, AdjacentRevisionsDiffer
<1>8. ASSUME NEW r \in Replicas, CasAdvance(r) PROVE IInv'
  <2>1. AttemptInv(r) BY DEF IInv
  <2>2. /\ embedded[r] \in Fingerprints
        /\ state.rev >= 1
        /\ seen[r] = state.rev
        /\ installed[state.rev] # embedded[r]
        /\ HasLogRow(state.rev + 1)
    BY <1>0, <1>8, <2>1 DEF CasAdvance, AttemptInv, Syncing
  <2>3. /\ state' = [rev |-> state.rev + 1, fp |-> embedded[r]]
        /\ installed' = Append(installed, embedded[r])
        /\ log' = log
    BY <1>8, <2>2 DEF CasAdvance
  <2>4. TypeOK' BY <1>0, <1>8, <2>2, <2>3 DEF CasAdvance, TypeOK, Stages, Row
  <2>5. RowIsLastInstalled'
    BY <1>0, <2>2, <2>3 DEF RowIsLastInstalled, TypeOK
  <2>6. AttemptInv(r)'
    BY <1>0, <1>8, <2>2, <2>3, <2>5, <2>1
    DEF CasAdvance, TypeOK, AttemptInv, Syncing, RowIsLastInstalled
  <2>7. ASSUME NEW q \in Replicas, q # r PROVE AttemptInv(q)'
    BY <1>0, <1>8, <2>2, <2>3, <2>7, InstallKeepsAttempts DEF CasAdvance, TypeOK
  <2>8. AdjacentRevisionsDiffer'
    BY <1>0, <2>2, <2>3 DEF IInv, AdjacentRevisionsDiffer, RowIsLastInstalled, TypeOK
  <2>9. LogCoversAdvances'
    BY <1>0, <2>2, <2>3 DEF IInv, LogCoversAdvances, HasLogRow
  <2> QED BY <2>4, <2>5, <2>6, <2>7, <2>8, <2>9 DEF IInv
<1>9. ASSUME NEW r \in Replicas, CasLost(r) PROVE IInv'
  <2>1. /\ pc' \in [Replicas -> Stages]
        /\ attempt' \in [Replicas -> 0 .. SYNC_CAS_MAX_ATTEMPTS]
        /\ \A q \in Replicas \ {r} : pc'[q] = pc[q] /\ attempt'[q] = attempt[q]
        /\ \/ /\ attempt[r] < SYNC_CAS_MAX_ATTEMPTS
              /\ pc'[r] = "read"
              /\ attempt'[r] = attempt[r] + 1
           \/ /\ attempt[r] >= SYNC_CAS_MAX_ATTEMPTS
              /\ pc'[r] = "failed"
              /\ attempt' = attempt
    BY <1>0, <1>9, RetryOrFail DEF CasLost
  <2>2. TypeOK' BY <1>0, <1>9, <2>1 DEF CasLost, TypeOK
  <2>3. AttemptInv(r) BY DEF IInv
  <2>4. attempt[r] <= state.rev /\ attempt[r] \in 1 .. SYNC_CAS_MAX_ATTEMPTS
    BY <1>0, <1>9, <2>3 DEF CasLost, TypeOK, AttemptInv, Syncing, SYNC_CAS_MAX_ATTEMPTS
  <2>5. AttemptInv(r)'
    BY <1>0, <1>9, <2>1, <2>3, <2>4
    DEF CasLost, AttemptInv, Syncing, SYNC_CAS_MAX_ATTEMPTS
  <2> QED BY <1>9, <2>1, <2>2, <2>5, QuietStep DEF CasLost, TypeOK, IInv
<1>10. ASSUME NEW r \in Replicas, Crash(r) PROVE IInv'
  <2>1. TypeOK' BY <1>0, <1>10 DEF Crash, replicaVars, TypeOK, Stages
  <2>2. AttemptInv(r)' BY <1>0, <1>10 DEF Crash, TypeOK, AttemptInv, Syncing
  <2> QED BY <1>10, <2>1, <2>2, QuietStep DEF Crash, replicaVars, TypeOK, IInv
<1>11. CASE UNCHANGED vars
  BY <1>11
  DEF vars, IInv, TypeOK, RowIsLastInstalled, AttemptInv, AdjacentRevisionsDiffer,
      LogCoversAdvances, HasLogRow
<1> QED
  BY <1>1, <1>2, <1>3, <1>4, <1>5, <1>6, <1>7, <1>8, <1>9, <1>10, <1>11
  DEF Next, Sync

\* The invariant holds in every reachable state.
THEOREM SharedControlInvariant == Spec => []IInv
<1> QED BY InitInv, NextInv, PTL DEF Spec

\* Type correctness of the bootstrap sync.
THEOREM TypeCorrect == Spec => []TypeOK
<1>1. IInv => TypeOK BY DEF IInv
<1> QED BY <1>1, SharedControlInvariant, PTL

\* A replica serves only under a revision its own content installed.
THEOREM SyncedRevisionCorrect == Spec => []SyncedRevisionIsOurs
<1>1. IInv => SyncedRevisionIsOurs BY DEF IInv, AttemptInv, SyncedRevisionIsOurs
<1> QED BY <1>1, SharedControlInvariant, PTL

\* Revisions are spent on changes of content only: the no-op branch and the
\* revision-guarded CAS never install the fingerprint that is already current.
THEOREM HistoryCorrect == Spec => []AdjacentRevisionsDiffer
<1>1. IInv => AdjacentRevisionsDiffer BY DEF IInv
<1> QED BY <1>1, SharedControlInvariant, PTL

\* The append-only log has the row of every advanced revision before the CAS makes
\* it current, also when appenders race, lose the CAS or die in between.
THEOREM LogCorrect == Spec => []LogCoversAdvances
<1>1. IInv => LogCoversAdvances BY DEF IInv
<1> QED BY <1>1, SharedControlInvariant, PTL

\* A boot dies of non-convergence only after the shared revision moved in every
\* one of its rounds.
THEOREM ConvergenceErrorCorrect == Spec => []ConvergenceErrorNeedsContention
<1>1. ASSUME IInv PROVE ConvergenceErrorNeedsContention
  <2> SUFFICES ASSUME NEW r \in Replicas
               PROVE  /\ pc[r] = "failed" => state.rev >= SYNC_CAS_MAX_ATTEMPTS
                      /\ pc[r] \in Syncing => state.rev + 1 >= attempt[r]
    BY DEF ConvergenceErrorNeedsContention
  <2>1. AttemptInv(r) /\ TypeOK BY <1>1 DEF IInv
  <2> QED BY <2>1 DEF AttemptInv, TypeOK, Row, Syncing
<1> QED BY <1>1, SharedControlInvariant, PTL
-----------------------------------------------------------------------------
(* Dispatches beside deployments.                                           *)

FenceInv == IInv /\ FenceTypeOK /\ MovedIsAhead

\* Before the first boot nothing is bound and nothing has moved.
LEMMA FenceInitInv == FenceInit => FenceInv
<1> SUFFICES ASSUME FenceInit PROVE FenceInv OBVIOUS
<1>1. IInv BY InitInv DEF FenceInit
<1>2. FenceTypeOK BY DEF FenceInit, FenceTypeOK, Steps
<1>3. MovedIsAhead BY DEF FenceInit, MovedIsAhead
<1> QED BY <1>1, <1>2, <1>3 DEF FenceInv

\* Every write of the shared row raises its revision.
LEMMA RevisionGrows ==
    ASSUME TypeOK, Next
    PROVE  /\ state'.rev \in Nat
           /\ state' # state => state'.rev > state.rev
           /\ state' = state => state'.rev = state.rev
<1>1. state \in Row /\ seen \in [Replicas -> Nat] /\ state.rev \in Nat
  BY DEF TypeOK, Row
<1>2. PICK r \in Replicas : (\E fp \in Fingerprints : Boot(r, fp)) \/ Sync(r) \/ Crash(r)
  BY DEF Next
<1>3. CASE \E fp \in Fingerprints : Boot(r, fp)
  BY <1>1, <1>3 DEF Boot
<1>4. CASE Crash(r)
  BY <1>1, <1>4 DEF Crash
<1>5. CASE Sync(r)
  <2>1. CASE ReadAbsent(r) \/ ReadCurrent(r) \/ ReadStale(r) \/ SeedLog(r) \/ AppendLog(r)
             \/ CasLost(r)
    BY <1>1, <2>1 DEF ReadAbsent, ReadCurrent, ReadStale, SeedLog, AppendLog, CasLost
  <2>2. CASE SeedState(r)
    BY <1>1, <2>2 DEF SeedState, Absent
  <2>3. CASE CasAdvance(r)
    BY <1>1, <2>3 DEF CasAdvance
  <2> QED BY <1>5, <2>1, <2>2, <2>3 DEF Sync
<1> QED BY <1>2, <1>3, <1>4, <1>5

\* A boot moves the row only forward, and a dispatch binds the revision it reads.
LEMMA FenceNextInv == FenceInv /\ [FenceNext]_allVars => FenceInv'
<1> SUFFICES ASSUME FenceInv, [FenceNext]_allVars PROVE FenceInv'
  OBVIOUS
<1>1. IInv /\ FenceTypeOK /\ MovedIsAhead /\ TypeOK BY DEF FenceInv, IInv
<1>2. state.rev \in Nat BY <1>1 DEF TypeOK, Row
<1>3. CASE Deploy
  <2>1. IInv' BY <1>1, <1>3, NextInv DEF Deploy
  <2>2. FenceTypeOK' BY <1>1, <1>3 DEF Deploy, FenceTypeOK, Steps
  <2>3. Next BY <1>3 DEF Deploy
  <2>4. /\ state'.rev \in Nat
        /\ state' # state => state'.rev > state.rev
        /\ state' = state => state'.rev = state.rev
    BY <1>1, <2>3, RevisionGrows
  <2>5. MovedIsAhead'
    <3> SUFFICES ASSUME NEW r \in Replicas, step'[r] = "issued"
                 PROVE  bound'[r] <= state'.rev /\ (moved'[r] <=> bound'[r] # state'.rev)
      BY DEF MovedIsAhead
    <3>1. /\ step[r] = "issued" /\ bound' = bound
          /\ moved'[r] = (moved[r] \/ state' # state)
      BY <1>1, <1>3 DEF Deploy, FenceTypeOK
    <3>2. bound[r] \in Nat /\ bound[r] <= state.rev /\ (moved[r] <=> bound[r] # state.rev)
      BY <1>1, <3>1 DEF MovedIsAhead, FenceTypeOK
    <3>3. CASE state' = state
      BY <3>1, <3>2, <3>3
    <3>4. CASE state' # state
      <4>1. moved'[r] BY <3>1, <3>4
      <4>2. bound'[r] < state'.rev BY <1>2, <2>4, <3>1, <3>2, <3>4
      <4>3. bound'[r] \in Nat BY <3>1, <3>2
      <4>4. bound'[r] # state'.rev /\ bound'[r] <= state'.rev BY ONLY <2>4, <4>2, <4>3
      <4> QED BY <4>1, <4>4
    <3> QED BY <3>3, <3>4
  <2> QED BY <2>1, <2>2, <2>5 DEF FenceInv
<1>4. ASSUME NEW r \in Replicas, Evaluate(r) \/ Issue(r) \/ Recheck(r)
      PROVE  FenceInv'
  <2>1. UNCHANGED vars BY <1>4 DEF Evaluate, Issue, Recheck
  <2>2. IInv' BY <1>1, <2>1, NextInv
  <2>3. state' = state BY <2>1 DEF vars
  <2>4. CASE Evaluate(r)
    BY <1>1, <2>2, <2>3, <2>4 DEF Evaluate, FenceInv, FenceTypeOK, Steps, MovedIsAhead
  <2>5. CASE Recheck(r)
    BY <1>1, <2>2, <2>3, <2>5 DEF Recheck, FenceInv, FenceTypeOK, Steps, MovedIsAhead
  <2>6. CASE Issue(r)
    BY <1>1, <1>2, <2>2, <2>3, <2>6 DEF Issue, FenceInv, FenceTypeOK, Steps, MovedIsAhead
  <2> QED BY <1>4, <2>4, <2>5, <2>6
<1>5. CASE UNCHANGED allVars
  <2>1. UNCHANGED vars /\ UNCHANGED fenceVars BY <1>5 DEF allVars
  <2>2. IInv' BY <1>1, <2>1, NextInv
  <2>3. state' = state BY <2>1 DEF vars
  <2> QED BY <1>1, <2>1, <2>2, <2>3 DEF fenceVars, FenceInv, FenceTypeOK, MovedIsAhead
<1> QED BY <1>3, <1>4, <1>5, DispatchersAreReplicas DEF FenceNext

\* The invariant of the composition.
THEOREM FenceInvariant == FenceSpec => []FenceInv
<1> QED BY FenceInitInv, FenceNextInv, PTL DEF FenceSpec

\* The commitment's revision comparison (final-dispatch-boundary.ts) refuses
\* every grant that was issued before a deployment, rolled back or not.
THEOREM DeploymentFences == FenceSpec => DeploymentFencesGrant
<1>1. ASSUME FenceInv, [FenceNext]_allVars, NEW r \in Replicas,
             step[r] = "issued", step'[r] = "verified"
      PROVE  ~moved[r]
  <2>1. FenceTypeOK /\ MovedIsAhead BY <1>1 DEF FenceInv
  <2>2. CASE Deploy
    BY <1>1, <2>1, <2>2 DEF Deploy, FenceTypeOK
  <2>3. ASSUME NEW q \in Replicas, Evaluate(q) \/ Issue(q) \/ Recheck(q)
        PROVE  ~moved[r]
    <3>1. Recheck(q) /\ q = r
      BY <1>1, <2>1, <2>3 DEF Evaluate, Issue, Recheck, FenceTypeOK
    <3>2. state.rev = bound[r]
      BY <1>1, <2>1, <3>1 DEF Recheck, FenceTypeOK
    <3> QED BY <1>1, <2>1, <3>2 DEF MovedIsAhead
  <2>4. CASE UNCHANGED allVars
    BY <1>1, <2>4 DEF allVars, fenceVars
  <2> QED BY <1>1, <2>2, <2>3, <2>4, DispatchersAreReplicas DEF FenceNext
<1>2. FenceInv /\ [FenceNext]_allVars
        => [\A r \in Replicas : step[r] = "issued" /\ step'[r] = "verified" => ~moved[r]]_allVars
  BY <1>1
<1> QED BY <1>2, FenceInvariant, PTL DEF FenceSpec, DeploymentFencesGrant
=============================================================================
