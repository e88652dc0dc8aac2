---------------------------- MODULE PolicyFence ----------------------------
(***************************************************************************)
(* What a shared revision does for a dispatch while a deployment rolls out. *)
(* A replica that is up evaluates a trade with the policy (or the provider  *)
(* catalog) it embeds, binds the shared revision it reads at issuance to    *)
(* the grant, and compares the bound number with the shared row again at    *)
(* the provider-dispatch commitment.  Neither read looks at fingerprints.   *)
(* Composes SharedControl with the two readers of its row.                  *)
(***************************************************************************)
EXTENDS SharedControl

CONSTANT Dispatchers    \* replicas that receive trades to dispatch

ASSUME DispatchersAreReplicas == Dispatchers \subseteq Replicas

VARIABLES
    step,       \* per replica: where its dispatch is
    bound,      \* the shared revision its grant carries
    moved       \* history: the shared row changed since the grant was issued

fenceVars == <<step, bound, moved>>
allVars == <<vars, fenceVars>>

Steps == {"idle", "evaluated", "issued", "verified", "blocked"}

FenceInit ==
    /\ Init
    /\ step = [r \in Replicas |-> "idle"]
    /\ bound = [r \in Replicas |-> 0]
    /\ moved = [r \in Replicas |-> FALSE]

\* The eligibility and LIVE-verification gates, on the embedded content.
Evaluate(r) ==
    /\ pc[r] = "up"
    /\ step[r] \in {"idle", "verified", "blocked"}
    /\ step' = [step EXCEPT ![r] = "evaluated"]
    /\ UNCHANGED <<vars, bound, moved>>

\* issueAuthorityGrant reads the current shared revision.
Issue(r) ==
    /\ pc[r] = "up"
    /\ step[r] = "evaluated"
    /\ bound' = [bound EXCEPT ![r] = state.rev]
    /\ moved' = [moved EXCEPT ![r] = FALSE]
    /\ step' = [step EXCEPT ![r] = "issued"]
    /\ UNCHANGED vars

\* Mutant: the commitment compares contents, not revisions.
Recheck_Content(r) ==
    /\ pc[r] = "up"
    /\ step[r] = "issued"
    /\ step' = [step EXCEPT ![r] = IF state.fp = installed[bound[r]] THEN "verified" ELSE "blocked"]
    /\ UNCHANGED <<vars, bound, moved>>

\* commitProviderDispatch's comparison.
Recheck(r) ==
    /\ pc[r] = "up"
    /\ step[r] = "issued"
    /\ step' = [step EXCEPT ![r] = IF state.rev = bound[r] THEN "verified" ELSE "blocked"]
    /\ UNCHANGED <<vars, bound, moved>>

\* A step of the bootstraps; a dispatch dies with its process.
Deploy ==
    /\ Next
    /\ step' = [r \in Replicas |-> IF pc'[r] = "down" THEN "idle" ELSE step[r]]
    /\ moved' = [r \in Replicas |-> moved[r] \/ state' # state]
    /\ UNCHANGED bound

FenceNext ==
    \/ Deploy
    \/ \E r \in Dispatchers : Evaluate(r) \/ Issue(r) \/ Recheck(r)

FenceSpec == FenceInit /\ [][FenceNext]_allVars

\* The bootstraps' fairness; no dispatch is obliged to go on.
FenceFairSpec == FenceSpec /\ \A r \in Replicas : WF_vars(Sync(r))

-----------------------------------------------------------------------------

\* The dispatch variables have their types.
FenceTypeOK ==
    /\ step \in [Replicas -> Steps]
    /\ bound \in [Replicas -> Nat]
    /\ moved \in [Replicas -> BOOLEAN]

\* A grant passes the commitment's comparison only if no deployment touched the
\* shared row since it was issued, not even one that was rolled back again.
DeploymentFencesGrant ==
    [][\A r \in Replicas :
          step[r] = "issued" /\ step'[r] = "verified" => ~moved[r]]_allVars

\* shared-control-revision.service.ts: "a stale replica never executes".  Not kept
\* by a replica that evaluates after the deployment: it binds the new revision.
StaleReplicaNeverExecutes ==
    [][\A r \in Replicas :
          step[r] = "issued" /\ step'[r] = "verified" => embedded[r] = state.fp]_allVars

-----------------------------------------------------------------------------

\* The inductive part: the row has moved exactly when its revision is ahead.
MovedIsAhead ==
    \A r \in Replicas : step[r] = "issued" => /\ bound[r] <= state.rev
                                              /\ moved[r] <=> bound[r] # state.rev
=============================================================================
