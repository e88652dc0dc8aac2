--------------------------- MODULE SharedControl ---------------------------
(***************************************************************************)
(* The deployment bootstrap's sync of one fingerprinted control singleton   *)
(* (trading policy or provider LIVE-verification catalog: the same loop     *)
(* over two pairs of tables).  Every replica, each time it boots, compares  *)
(* its embedded fingerprint with the shared row and seeds it, leaves it or  *)
(* advances it by compare-and-set.  Every await of the loop is a step, so   *)
(* replicas of a rolling deployment interleave between them; a replica may  *)
(* die at any step.                                                         *)
(***************************************************************************)
EXTENDS Naturals, Sequences

CONSTANTS
    Replicas,       \* API processes
    Fingerprints,   \* contents a build may embed
    NoFingerprint,  \* no row
    MaxBoots        \* bound: how many boots are explored

ASSUME SharedControlAssumption ==
    /\ NoFingerprint \notin Fingerprints
    /\ MaxBoots \in Nat

SYNC_CAS_MAX_ATTEMPTS == 3

VARIABLES
    state,      \* the singleton row; rev = 0 when it was never seeded
    log,        \* the append-only log: rows [rev, fp], UNIQUE (rev)
    pc,         \* where each replica is in its bootstrap
    embedded,   \* the fingerprint of the build the replica runs
    attempt,    \* the loop counter
    seen,       \* state.currentRevision as read in this attempt
    synced,     \* the revision the sync returned (0: none)
    boots,      \* boots so far
    installed   \* history: the fingerprint each revision installed

vars == <<state, log, pc, embedded, attempt, seen, synced, boots, installed>>
replicaVars == <<embedded, attempt, seen, synced>>

Stages == {"down", "read", "seedState", "seedLog", "append", "cas", "up", "failed"}
Syncing == {"read", "seedState", "seedLog", "append", "cas"}

Absent == [rev |-> 0, fp |-> NoFingerprint]

HasLogRow(n) == \E row \in log : row.rev = n

\* INSERT under UNIQUE (revision); the violation is swallowed.
InsertLogOrIgnore(n, fp) ==
    log' = IF HasLogRow(n) THEN log ELSE log \union {[rev |-> n, fp |-> fp]}

Init ==
    /\ state = Absent
    /\ log = {}
    /\ pc = [r \in Replicas |-> "down"]
    /\ embedded = [r \in Replicas |-> NoFingerprint]
    /\ attempt = [r \in Replicas |-> 0]
    /\ seen = [r \in Replicas |-> 0]
    /\ synced = [r \in Replicas |-> 0]
    /\ boots = 0
    /\ installed = <<>>

\* onModuleInit of a freshly started process running build `fp'.
Boot(r, fp) ==
    /\ pc[r] \in {"down", "failed"}
    /\ boots < MaxBoots
    /\ boots' = boots + 1
    /\ pc' = [pc EXCEPT ![r] = "read"]
    /\ embedded' = [embedded EXCEPT ![r] = fp]
    /\ attempt' = [attempt EXCEPT ![r] = 1]
    /\ seen' = [seen EXCEPT ![r] = 0]
    /\ synced' = [synced EXCEPT ![r] = 0]
    /\ UNCHANGED <<state, log, installed>>

\* Mutant: the loop's bound is off by one (<= for <).
NextAttempt_FourTries(r) ==
    \/ /\ attempt[r] <= SYNC_CAS_MAX_ATTEMPTS
       /\ attempt' = [attempt EXCEPT ![r] = @ + 1]
       /\ pc' = [pc EXCEPT ![r] = "read"]
    \/ /\ attempt[r] > SYNC_CAS_MAX_ATTEMPTS
       /\ pc' = [pc EXCEPT ![r] = "failed"]
       /\ UNCHANGED attempt

\* Mutant: the loop gives up one attempt early.
NextAttempt_OneFewer(r) ==
    \/ /\ attempt[r] < SYNC_CAS_MAX_ATTEMPTS - 1
       /\ attempt' = [attempt EXCEPT ![r] = @ + 1]
       /\ pc' = [pc EXCEPT ![r] = "read"]
    \/ /\ attempt[r] >= SYNC_CAS_MAX_ATTEMPTS - 1
       /\ pc' = [pc EXCEPT ![r] = "failed"]
       /\ UNCHANGED attempt

\* The end of a loop iteration that did not return: retry, or the fatal
\* SharedControlRevisionConvergenceError.
NextAttempt(r) ==
    \/ /\ attempt[r] < SYNC_CAS_MAX_ATTEMPTS
       /\ attempt' = [attempt EXCEPT ![r] = @ + 1]
       /\ pc' = [pc EXCEPT ![r] = "read"]
    \/ /\ attempt[r] >= SYNC_CAS_MAX_ATTEMPTS
       /\ pc' = [pc EXCEPT ![r] = "failed"]
       /\ UNCHANGED attempt

ReadAbsent(r) ==
    /\ pc[r] = "read"
    /\ state = Absent
    /\ pc' = [pc EXCEPT ![r] = "seedState"]
    /\ UNCHANGED <<state, log, embedded, attempt, seen, synced, boots, installed>>

\* Same fingerprint: no-op, the sync returns the revision it read.
ReadCurrent(r) ==
    /\ pc[r] = "read"
    /\ state.fp = embedded[r]
    /\ pc' = [pc EXCEPT ![r] = "up"]
    /\ synced' = [synced EXCEPT ![r] = state.rev]
    /\ UNCHANGED <<state, log, embedded, attempt, seen, boots, installed>>

ReadStale(r) ==
    /\ pc[r] = "read"
    /\ state # Absent
    /\ state.fp # embedded[r]
    /\ seen' = [seen EXCEPT ![r] = state.rev]
    /\ pc' = [pc EXCEPT ![r] = "append"]
    /\ UNCHANGED <<state, log, embedded, attempt, synced, boots, installed>>

\* INSERT of the singleton row, primary-key violation swallowed.
SeedState(r) ==
    /\ pc[r] = "seedState"
    /\ IF state = Absent
       THEN /\ state' = [rev |-> 1, fp |-> embedded[r]]
            /\ installed' = Append(installed, embedded[r])
       ELSE UNCHANGED <<state, installed>>
    /\ pc' = [pc EXCEPT ![r] = "seedLog"]
    /\ UNCHANGED <<log, replicaVars, boots>>

SeedLog(r) ==
    /\ pc[r] = "seedLog"
    /\ InsertLogOrIgnore(1, embedded[r])
    /\ NextAttempt(r)
    /\ UNCHANGED <<state, embedded, seen, synced, boots, installed>>

\* Mutant: the log row of an advance is written for the revision that was read.
AppendLog_OffByOne(r) ==
    /\ pc[r] = "append"
    /\ InsertLogOrIgnore(seen[r], embedded[r])
    /\ pc' = [pc EXCEPT ![r] = "cas"]
    /\ UNCHANGED <<state, replicaVars, boots, installed>>

AppendLog(r) ==
    /\ pc[r] = "append"
    /\ InsertLogOrIgnore(seen[r] + 1, embedded[r])
    /\ pc' = [pc EXCEPT ![r] = "cas"]
    /\ UNCHANGED <<state, replicaVars, boots, installed>>

\* Mutant: the advance forgets WHERE current_revision = :expected.
CasAdvance_NoGuard(r) ==
    /\ pc[r] = "cas"
    /\ state' = [rev |-> seen[r] + 1, fp |-> embedded[r]]
    /\ installed' = Append(installed, embedded[r])
    /\ pc' = [pc EXCEPT ![r] = "up"]
    /\ synced' = [synced EXCEPT ![r] = seen[r] + 1]
    /\ UNCHANGED <<log, embedded, attempt, seen, boots>>

\* UPDATE ... WHERE id = 1 AND current_revision = :expected, one row changed.
CasAdvance(r) ==
    /\ pc[r] = "cas"
    /\ state.rev = seen[r]
    /\ state' = [rev |-> seen[r] + 1, fp |-> embedded[r]]
    /\ installed' = Append(installed, embedded[r])
    /\ pc' = [pc EXCEPT ![r] = "up"]
    /\ synced' = [synced EXCEPT ![r] = seen[r] + 1]
    /\ UNCHANGED <<log, embedded, attempt, seen, boots>>

\* Mutant: a lost CAS adopts whatever the winner installed instead of retrying.
CasLost_Adopt(r) ==
    /\ pc[r] = "cas"
    /\ state.rev # seen[r]
    /\ pc' = [pc EXCEPT ![r] = "up"]
    /\ synced' = [synced EXCEPT ![r] = state.rev]
    /\ UNCHANGED <<state, log, embedded, attempt, seen, boots, installed>>

\* Mutant: a lost CAS is retried without reading the row again.
CasLost_NoReread(r) ==
    /\ pc[r] = "cas"
    /\ state.rev # seen[r]
    /\ UNCHANGED vars

\* ... no row changed: the revision moved since it was read.
CasLost(r) ==
    /\ pc[r] = "cas"
    /\ state.rev # seen[r]
    /\ NextAttempt(r)
    /\ UNCHANGED <<state, log, embedded, seen, synced, boots, installed>>

\* The process dies, is redeployed, or a store error makes the boot fatal.
Crash(r) ==
    /\ pc[r] \in Syncing \union {"up"}
    /\ pc' = [pc EXCEPT ![r] = "down"]
    /\ UNCHANGED <<state, log, replicaVars, boots, installed>>

Sync(r) ==
    \/ ReadAbsent(r) \/ ReadCurrent(r) \/ ReadStale(r)
    \/ SeedState(r) \/ SeedLog(r)
    \/ AppendLog(r) \/ CasAdvance(r) \/ CasLost(r)

Next ==
    \E r \in Replicas :
        \/ \E fp \in Fingerprints : Boot(r, fp)
        \/ Sync(r)
        \/ Crash(r)

Spec == Init /\ [][Next]_vars

\* A live process eventually gets the answer of the statement it awaits.
FairSpec == Spec /\ \A r \in Replicas : WF_vars(Sync(r))

-----------------------------------------------------------------------------

Row == [rev : Nat, fp : Fingerprints \union {NoFingerprint}]

\* Every variable has its type; the loop never makes a fourth round.
TypeOK ==
    /\ state \in Row
    /\ log \subseteq Row
    /\ pc \in [Replicas -> Stages]
    /\ embedded \in [Replicas -> Fingerprints \union {NoFingerprint}]
    /\ attempt \in [Replicas -> 0 .. SYNC_CAS_MAX_ATTEMPTS]
    /\ seen \in [Replicas -> Nat]
    /\ synced \in [Replicas -> Nat]
    /\ boots \in Nat
    /\ installed \in Seq(Fingerprints)

\* The revision a replica serves under was installed with the very content
\* that replica embeds: a sync never returns somebody else's revision
\* (syncSharedControlRevision's two returns).
SyncedRevisionIsOurs ==
    \A r \in Replicas :
        pc[r] = "up" =>
            /\ synced[r] \in 1 .. state.rev
            /\ installed[synced[r]] = embedded[r]

\* A revision is spent only on a change of content: two neighbouring revisions
\* never carry the same fingerprint, however many replicas of one build boot at
\* once (the no-op branch and the revision-guarded CAS).
AdjacentRevisionsDiffer ==
    \A n \in 1 .. Len(installed) - 1 : installed[n] # installed[n + 1]

\* Every revision after the seed has its log row before it becomes current, and
\* no log row runs more than one revision ahead (append, then CAS).
LogCoversAdvances ==
    /\ \A n \in 2 .. state.rev : HasLogRow(n)
    /\ \A row \in log : row.rev \in 1 .. state.rev + 1

\* The fatal convergence error needs real contention: each lost round saw the
\* shared revision move, so three rounds lose only against three revisions.
ConvergenceErrorNeedsContention ==
    /\ \A r \in Replicas : pc[r] = "failed" => state.rev >= SYNC_CAS_MAX_ATTEMPTS
    /\ \A r \in Replicas : pc[r] \in Syncing => state.rev + 1 >= attempt[r]

\* A boot that is not killed comes up or fails: the retry loop is bounded.
BootTerminates ==
    \A r \in Replicas : pc[r] \in Syncing ~> pc[r] \notin Syncing
=============================================================================
