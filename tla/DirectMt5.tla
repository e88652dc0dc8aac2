------------------------------ MODULE DirectMt5 ------------------------------
(***************************************************************************)
(* The direct MetaTrader 5 route of one DEMO broker connection: the        *)
(* connector row and its pairing (DirectMt5PairingService), hosted         *)
(* ownership (HostedMt5Service), the command queue and the caller that     *)
(* polls it (DirectMt5CommandService), and the connector program that      *)
(* polls from the other side, with its journal (services/mt5-connector).   *)
(*                                                                          *)
(* A host is a machine that can run the connector: it keeps a journal      *)
(* across processes.  Every HTTP request authenticates in one statement    *)
(* and acts in the next, the two statements of leaseNext are two steps,    *)
(* and the terminal call is a step between two journal writes.  A          *)
(* heartbeat (the connector row, then the authorization) and the           *)
(* provisioning of a hosted session (the look at the old one, the reset,   *)
(* the authorization) are one step each, without the heartbeat's sequence  *)
(* number.  Times are flags: a heartbeat grows stale, a lease expires.     *)
(***************************************************************************)
EXTENDS Naturals, FiniteSets

CONSTANTS
    PCs,          \* the owner's machines, paired by a code
    HostWorkers,  \* machines that run hosted sessions
    PlaceKeys,    \* idempotency keys of PLACE_ORDER commands
    CloseKeys,    \* idempotency keys of CLOSE_ORDER commands (also MODIFY)
    ReadKeys,     \* idempotency keys of read-only commands
    MaxCommands,  \* bound: keys in use
    MaxMinted,    \* bound: connector ids and tokens generated
    MaxFaults     \* bound: crashes and lost messages

ASSUME BoundsAreNaturals == {MaxCommands, MaxMinted, MaxFaults} \subseteq Nat

ASSUME KindsAreDisjoint ==
    /\ PlaceKeys \cap CloseKeys = {}
    /\ (PlaceKeys \cup CloseKeys) \cap ReadKeys = {}
    /\ PCs \cap HostWorkers = {}

VARIABLES
    connector,  \* the direct_mt5_connectors row
    auth,       \* broker_connections.authorization_status
    cmd,        \* cmd[k]: the direct_mt5_commands row of key k
    req,        \* req[k]: the API request for k, with the connector it read
    told,       \* told[k]: how the last request for k ended
    agent,      \* agent[h]: the connector process on h and its credentials
    journal,    \* journal[h][k]: the command journal kept on h
    sent,       \* sent[k]: how often the terminal sent k to the broker
    minted,     \* ids and tokens generated so far
    faults      \* faults so far

vars == <<connector, auth, cmd, req, told, agent, journal, sent, minted, faults>>

-----------------------------------------------------------------------------
Hosts == PCs \cup HostWorkers

Mutations == PlaceKeys \cup CloseKeys

Keys == Mutations \cup ReadKeys

CommandState == {"NONE", "PENDING", "LEASED", "SUCCEEDED", "FAILED", "UNCERTAIN", "CANCELLED"}

JournalState == {"NONE", "EXECUTING", "SUCCEEDED", "FAILED", "UNCERTAIN"}

AnswerOf == {"NONE", "SUCCEEDED", "FAILED", "UNCERTAIN", "CANCELLED", "REFUSED"}

AuthStatus == {"NOT_CONNECTED", "CONNECTED", "ACTIVE", "SUSPENDED", "REVOKED"}

Steps == {"off", "up", "beat", "poll", "lease", "take",
          "got", "run", "sent", "report", "record"}

NoKey == "-"

Unpaired == [state |-> "UNPAIRED", id |-> 0, token |-> 0, hosted |-> FALSE,
             fresh |-> FALSE, trade |-> FALSE, lease |-> FALSE]

NoCommand == [state |-> "NONE", connector |-> 0, expired |-> FALSE]

NoProcess == [pc |-> "off", id |-> 0, token |-> 0,
              key |-> NoKey, outcome |-> "NONE"]

Init ==
    /\ connector = Unpaired
    /\ auth = "NOT_CONNECTED"
    /\ cmd = [k \in Keys |-> NoCommand]
    /\ req = [k \in Keys |-> [pc |-> "idle", id |-> 0]]
    /\ told = [k \in Keys |-> "NONE"]
    /\ agent = [h \in Hosts |-> NoProcess]
    /\ journal = [h \in Hosts |-> [k \in Keys |-> "NONE"]]
    /\ sent = [k \in Keys |-> 0]
    /\ minted = 0
    /\ faults = 0

Fault ==
    /\ faults < MaxFaults
    /\ faults' = faults + 1

Mint ==
    /\ minted < MaxMinted
    /\ minted' = minted + 1

-----------------------------------------------------------------------------
(* The caller: DirectMt5Adapter through DirectMt5CommandService.request.    *)

Asked == {k \in Keys : req[k].pc # "idle" \/ told[k] # "NONE"}

\* An order has one key and one placement; a read makes up its key; a close is
\* keyed by position and volume, so every later attempt comes with the same key.
MayAsk(k) ==
    IF k \in Asked
    THEN k \in CloseKeys /\ told[k] # "SUCCEEDED"
    ELSE Cardinality(Asked) < MaxCommands

getActiveConnectorForConnection(k) ==
    /\ req[k].pc = "idle"
    /\ MayAsk(k)
    /\ connector.state = "ACTIVE" /\ connector.fresh
    /\ req' = [req EXCEPT ![k] = [pc |-> "enqueue", id |-> connector.id]]
    /\ UNCHANGED <<connector, auth, cmd, told, agent, journal, sent, minted, faults>>

End(k, answer) ==
    /\ req' = [req EXCEPT ![k] = [pc |-> "idle", id |-> 0]]
    /\ told' = [told EXCEPT ![k] = answer]

\* The insert, or the row that already has this key: it must be for the same
\* connector.
enqueue(k) ==
    /\ req[k].pc = "enqueue"
    /\ LET fits == connector.state = "ACTIVE" /\ connector.id = req[k].id IN
       \/ /\ cmd[k].state = "NONE" /\ fits
          /\ cmd' = [cmd EXCEPT ![k] = [state |-> "PENDING", connector |-> req[k].id,
                                        expired |-> FALSE]]
          /\ req' = [req EXCEPT ![k].pc = "poll"]
          /\ UNCHANGED told
       \/ /\ cmd[k].state # "NONE" /\ cmd[k].connector = req[k].id
          /\ req' = [req EXCEPT ![k].pc = "poll"]
          /\ UNCHANGED <<cmd, told>>
       \/ /\ IF cmd[k].state = "NONE" THEN ~fits ELSE cmd[k].connector # req[k].id
          /\ End(k, "REFUSED")
          /\ UNCHANGED cmd
    /\ UNCHANGED <<connector, auth, agent, journal, sent, minted, faults>>

\* Mutant: whatever the row says ends the request.
pollResult_AnyState(k) ==
    /\ req[k].pc = "poll"
    /\ End(k, cmd[k].state)
    /\ UNCHANGED <<connector, auth, cmd, agent, journal, sent, minted, faults>>

pollResult(k) ==
    /\ req[k].pc = "poll"
    /\ cmd[k].state \in {"SUCCEEDED", "FAILED", "UNCERTAIN", "CANCELLED"}
    /\ End(k, cmd[k].state)
    /\ UNCHANGED <<connector, auth, cmd, agent, journal, sent, minted, faults>>

\* Mutant: a command that got no answer is reported as cancelled.
deadline_Cancelled(k) ==
    /\ req[k].pc = "poll"
    /\ End(k, "CANCELLED")
    /\ UNCHANGED <<connector, auth, cmd, agent, journal, sent, minted, faults>>

\* The deadline passes: a mutation is uncertain, a read is refused.  The row
\* stays as it is.
deadline(k) ==
    /\ req[k].pc = "poll"
    /\ End(k, IF k \in Mutations THEN "UNCERTAIN" ELSE "REFUSED")
    /\ UNCHANGED <<connector, auth, cmd, agent, journal, sent, minted, faults>>

-----------------------------------------------------------------------------
(* Pairing and hosted ownership.                                            *)

\* Mutant: what somebody leased is cancelled too.
Superseded_CancelLeased(k) ==
    [cmd[k] EXCEPT !.state = IF @ \in {"PENDING", "LEASED"} THEN "CANCELLED" ELSE @,
                   !.expired = FALSE]

\* A new binding: what nobody leased is cancelled, what somebody leased may
\* have been sent.
Superseded(k) ==
    [cmd[k] EXCEPT !.state = CASE @ = "PENDING" -> "CANCELLED"
                               [] @ = "LEASED"  -> "UNCERTAIN"
                               [] OTHER         -> @,
                   !.expired = FALSE]

SupersedeAll == cmd' = [k \in Keys |-> Superseded(k)]

SupersedeOfConnector ==
    cmd' = [k \in Keys |-> IF cmd[k].connector = connector.id THEN Superseded(k) ELSE cmd[k]]

createPairing ==
    /\ Mint
    /\ connector' = [Unpaired EXCEPT !.state = "PAIRING", !.id = minted + 1]
    /\ SupersedeAll
    /\ UNCHANGED <<auth, req, told, agent, journal, sent, faults>>

\* An answer that is lost leaves the server's half done.
Answered(answered) == IF answered THEN UNCHANGED faults ELSE Fault

redeemPairing(h) ==
    /\ h \in PCs
    /\ agent[h].pc = "off"
    /\ connector.state = "PAIRING" /\ ~connector.hosted
    /\ Mint
    /\ \E allowed \in BOOLEAN :
           connector' = [connector EXCEPT !.state = "ACTIVE", !.token = minted + 1,
                                          !.fresh = TRUE, !.trade = allowed]
    /\ auth' = "CONNECTED"
    /\ \E answered \in BOOLEAN :
           /\ Answered(answered)
           /\ agent' = IF answered
                       THEN [agent EXCEPT ![h] = [NoProcess EXCEPT !.id = connector.id,
                                                                   !.token = minted + 1]]
                       ELSE agent
    /\ UNCHANGED <<cmd, req, told, journal, sent>>

HostedHealthy ==
    connector.hosted /\ connector.state = "ACTIVE" /\ connector.fresh /\ connector.lease

\* A healthy hosted session is returned as it is; the reset keeps the connector
\* id when there is a row.
provision ==
    /\ ~HostedHealthy
    /\ IF connector.state = "UNPAIRED"
       THEN Mint /\ connector' = [Unpaired EXCEPT !.state = "PAIRING", !.hosted = TRUE,
                                                  !.id = minted + 1]
       ELSE /\ connector' = [Unpaired EXCEPT !.state = "PAIRING", !.hosted = TRUE,
                                             !.id = connector.id]
            /\ UNCHANGED minted
    /\ SupersedeAll
    /\ auth' = "NOT_CONNECTED"
    /\ UNCHANGED <<req, told, agent, journal, sent, faults>>

Claimable ==
    /\ connector.hosted
    /\ \/ connector.state = "PAIRING"
       \/ connector.state = "ACTIVE" /\ ~connector.fresh /\ ~connector.lease

\* One transaction; the connector id stays and the token is rotated.
leaseAssignment(h) ==
    /\ h \in HostWorkers
    /\ agent[h].pc = "off"
    /\ Claimable
    /\ Mint
    /\ SupersedeOfConnector
    /\ connector' = [connector EXCEPT !.state = "ACTIVE", !.token = minted + 1,
                                      !.trade = FALSE, !.fresh = FALSE, !.lease = TRUE]
    /\ \E answered \in BOOLEAN :
           /\ Answered(answered)
           /\ agent' = IF answered
                       THEN [agent EXCEPT ![h] = [NoProcess EXCEPT !.id = connector.id,
                                                                   !.token = minted + 1]]
                       ELSE agent
    /\ UNCHANGED <<auth, req, told, journal, sent>>

revokeConnector ==
    /\ connector.state # "UNPAIRED"
    /\ connector' = [connector EXCEPT !.state = "REVOKED", !.token = 0, !.trade = FALSE]
    /\ SupersedeOfConnector
    /\ auth' = "REVOKED"
    /\ UNCHANGED <<req, told, agent, journal, sent, minted, faults>>

\* BrokerService.connect, which the adapter answers from the connector row.
connect ==
    /\ auth = "NOT_CONNECTED"
    /\ connector.state = "ACTIVE" /\ connector.fresh
    /\ auth' = "CONNECTED"
    /\ UNCHANGED <<connector, cmd, req, told, agent, journal, sent, minted, faults>>

-----------------------------------------------------------------------------
(* The connector process on a host: run_supervised_connector.               *)

At(h, pc) == agent[h].pc = pc

Go(h, pc) == agent' = [agent EXCEPT ![h].pc = pc]

\* CommandJournal opens: what was being executed is now uncertain.
Recovered(h) ==
    [journal EXCEPT ![h] = [k \in Keys |->
        IF journal[h][k] = "EXECUTING" THEN "UNCERTAIN" ELSE journal[h][k]]]

\* The process ends.  A hosted session had its token in memory only.
Ended(h) ==
    IF h \in PCs
    THEN [NoProcess EXCEPT !.id = agent[h].id, !.token = agent[h].token]
    ELSE NoProcess

Stop(h) == agent' = [agent EXCEPT ![h] = Ended(h)]

\* The top of the loop, with no command in hand.
Loop(h) == agent' = [agent EXCEPT ![h].pc = "up", ![h].key = NoKey, ![h].outcome = "NONE"]

start(h) ==
    /\ At(h, "off") /\ agent[h].token # 0
    /\ Go(h, "up")
    /\ journal' = Recovered(h)
    /\ UNCHANGED <<connector, auth, cmd, req, told, sent, minted, faults>>

crash(h) ==
    /\ ~At(h, "off")
    /\ Fault
    /\ Stop(h)
    /\ UNCHANGED <<connector, auth, cmd, req, told, journal, sent, minted>>

InFlight == {"beat", "lease", "take", "report", "record"}

\* A request is lost or the server dies in it: the supervisor starts over.
transientFailure(h) ==
    /\ agent[h].pc \in InFlight
    /\ Fault
    /\ Loop(h)
    /\ journal' = Recovered(h)
    /\ UNCHANGED <<connector, auth, cmd, req, told, sent, minted>>

\* What comes after the authentication of each request.
AfterAuth == [up |-> "beat", poll |-> "lease", report |-> "record"]

\* A failed authentication is fatal to the process.
authenticateConnector(h) ==
    /\ agent[h].pc \in DOMAIN AfterAuth
    /\ IF /\ connector.state = "ACTIVE"
          /\ connector.id = agent[h].id /\ connector.token = agent[h].token
       THEN Go(h, AfterAuth[agent[h].pc])
       ELSE Stop(h)
    /\ UNCHANGED <<connector, auth, cmd, req, told, journal, sent, minted, faults>>

\* The row is found by id: the token was checked one statement earlier.
RowIsActive(h) == connector.id = agent[h].id /\ connector.state = "ACTIVE"

\* The connector row, then what it means for the connection's authorization.
recordHeartbeat(h) ==
    /\ At(h, "beat")
    /\ IF RowIsActive(h)
       THEN \E allowed \in BOOLEAN :
                /\ connector' = [connector EXCEPT !.fresh = TRUE, !.trade = allowed]
                /\ auth' = CASE allowed /\ auth \in {"CONNECTED", "SUSPENDED"} -> "ACTIVE"
                             [] ~allowed /\ auth = "ACTIVE" -> "SUSPENDED"
                             [] OTHER -> auth
                /\ Go(h, "poll")
       ELSE Stop(h) /\ UNCHANGED <<connector, auth>>
    /\ UNCHANGED <<cmd, req, told, journal, sent, minted, faults>>

\* A heartbeat from another login, server or environment suspends and is refused.
identityChanged(h) ==
    /\ At(h, "beat")
    /\ connector' = IF RowIsActive(h)
                    THEN [connector EXCEPT !.state = "SUSPENDED", !.trade = FALSE]
                    ELSE connector
    /\ auth' = IF auth = "ACTIVE" THEN "SUSPENDED" ELSE auth
    /\ Stop(h)
    /\ UNCHANGED <<cmd, req, told, journal, sent, minted, faults>>

\* leaseNext, first statement: an expired mutation is uncertain, never pending.
Expired(k) ==
    [cmd[k] EXCEPT !.state = IF k \in Mutations THEN "UNCERTAIN" ELSE "CANCELLED",
                   !.expired = FALSE]

\* Mutant: expired reads are left as they are.
expireLeases_MutationsOnly(h) ==
    /\ At(h, "lease")
    /\ cmd' = [k \in Keys |->
                  IF /\ k \in Mutations
                     /\ cmd[k].connector = agent[h].id /\ cmd[k].state = "LEASED" /\ cmd[k].expired
                  THEN Expired(k) ELSE cmd[k]]
    /\ Go(h, "take")
    /\ UNCHANGED <<connector, auth, req, told, journal, sent, minted, faults>>

expireLeases(h) ==
    /\ At(h, "lease")
    /\ cmd' = [k \in Keys |->
                  IF cmd[k].connector = agent[h].id /\ cmd[k].state = "LEASED" /\ cmd[k].expired
                  THEN Expired(k) ELSE cmd[k]]
    /\ Go(h, "take")
    /\ UNCHANGED <<connector, auth, req, told, journal, sent, minted, faults>>

\* Mutant: an uncertain command is leased again.
Leasable_AlsoUncertain(h, k) ==
    /\ cmd[k].state \in {"PENDING", "UNCERTAIN"} /\ cmd[k].connector = agent[h].id
    /\ RowIsActive(h) /\ connector.fresh
    /\ k \in PlaceKeys => connector.trade /\ auth = "ACTIVE"
    /\ k \in CloseKeys => connector.trade

Leasable(h, k) ==
    /\ cmd[k].state = "PENDING" /\ cmd[k].connector = agent[h].id
    /\ RowIsActive(h) /\ connector.fresh
    /\ k \in PlaceKeys => connector.trade /\ auth = "ACTIVE"
    /\ k \in CloseKeys => connector.trade

\* leaseNext, second statement.
leaseCandidate(h, k) ==
    /\ At(h, "take")
    /\ Leasable(h, k)
    /\ cmd' = [cmd EXCEPT ![k].state = "LEASED", ![k].expired = FALSE]
    /\ \/ /\ agent' = [agent EXCEPT ![h].pc = "got", ![h].key = k]
          /\ UNCHANGED <<journal, faults>>
       \/ /\ Fault  \* the answer is lost
          /\ Loop(h)
          /\ journal' = Recovered(h)
    /\ UNCHANGED <<connector, auth, req, told, sent, minted>>

nothingToLease(h) ==
    /\ At(h, "take")
    /\ \A k \in Keys : ~Leasable(h, k)
    /\ Loop(h)
    /\ UNCHANGED <<connector, auth, cmd, req, told, journal, sent, minted, faults>>

\* CommandJournal.begin: an entry whose execution ended, or was interrupted, is
\* reported and not run.  One left EXECUTING would be run; opening the journal
\* makes those UNCERTAIN (Recovered), and a host runs one process.
begin(h) ==
    /\ At(h, "got")
    /\ LET k == agent[h].key
           entry == journal[h][k] IN
       IF entry \in {"NONE", "EXECUTING"}
       THEN /\ journal' = [journal EXCEPT ![h][k] = "EXECUTING"]
            /\ Go(h, "run")
       ELSE /\ agent' = [agent EXCEPT ![h].pc = "report",
                             ![h].outcome = IF entry \in {"SUCCEEDED", "FAILED"}
                                            THEN entry ELSE "UNCERTAIN"]
            /\ UNCHANGED journal
    /\ UNCHANGED <<connector, auth, cmd, req, told, sent, minted, faults>>

\* _dispatch reaches the broker.
terminalSends(h) ==
    /\ At(h, "run")
    /\ sent' = [sent EXCEPT ![agent[h].key] = @ + 1]
    /\ Go(h, "sent")
    /\ UNCHANGED <<connector, auth, cmd, req, told, journal, minted, faults>>

Journalled(h, outcome) ==
    /\ journal' = [journal EXCEPT ![h][agent[h].key] = outcome]
    /\ agent' = [agent EXCEPT ![h].pc = "report", ![h].outcome = outcome]

terminalReturns(h) ==
    /\ At(h, "sent")
    /\ Journalled(h, "SUCCEEDED")
    /\ UNCHANGED <<connector, auth, cmd, req, told, sent, minted, faults>>

\* _dispatch raises, before the broker was reached or after: both are FAILED.
terminalRaises(h) ==
    /\ At(h, "run") \/ At(h, "sent")
    /\ Journalled(h, "FAILED")
    /\ UNCHANGED <<connector, auth, cmd, req, told, sent, minted, faults>>

Recordable(h) ==
    /\ cmd[agent[h].key].connector = agent[h].id
    /\ cmd[agent[h].key].state \in {"LEASED", "UNCERTAIN"}

recordResult(h) ==
    /\ At(h, "record")
    /\ IF Recordable(h)
       THEN /\ cmd' = [cmd EXCEPT ![agent[h].key].state = agent[h].outcome,
                                  ![agent[h].key].expired = FALSE]
            /\ Loop(h)
       ELSE Stop(h) /\ UNCHANGED cmd
    /\ UNCHANGED <<connector, auth, req, told, journal, sent, minted, faults>>

-----------------------------------------------------------------------------
(* Time.                                                                    *)

heartbeatStales ==
    /\ connector.fresh
    /\ connector' = [connector EXCEPT !.fresh = FALSE]
    /\ UNCHANGED <<auth, cmd, req, told, agent, journal, sent, minted, faults>>

\* heartbeatAssignment did not renew the worker's lease in time.
workerLeaseExpires ==
    /\ connector.lease
    /\ connector' = [connector EXCEPT !.lease = FALSE]
    /\ UNCHANGED <<auth, cmd, req, told, agent, journal, sent, minted, faults>>

commandLeaseExpires(k) ==
    /\ cmd[k].state = "LEASED" /\ ~cmd[k].expired
    /\ cmd' = [cmd EXCEPT ![k].expired = TRUE]
    /\ UNCHANGED <<connector, auth, req, told, agent, journal, sent, minted, faults>>

-----------------------------------------------------------------------------
CallerStep(k) ==
    \/ getActiveConnectorForConnection(k)
    \/ enqueue(k)
    \/ pollResult(k)

ProcessStep(h) ==
    \/ start(h) \/ authenticateConnector(h)
    \/ recordHeartbeat(h) \/ expireLeases(h)
    \/ \E k \in Keys : leaseCandidate(h, k)
    \/ nothingToLease(h)
    \/ begin(h) \/ terminalSends(h) \/ terminalReturns(h) \/ terminalRaises(h)
    \/ recordResult(h)

OwnerStep ==
    \/ createPairing \/ provision \/ revokeConnector \/ connect

Next ==
    \/ \E k \in Keys : CallerStep(k) \/ deadline(k) \/ commandLeaseExpires(k)
    \/ \E h \in Hosts : \/ ProcessStep(h) \/ redeemPairing(h) \/ leaseAssignment(h)
                        \/ identityChanged(h) \/ crash(h) \/ transientFailure(h)
    \/ OwnerStep
    \/ heartbeatStales \/ workerLeaseExpires

Spec == Init /\ [][Next]_vars

\* The supervisor keeps the process going, a lease runs out, and whoever wants a
\* position closed keeps trying.  Nothing makes the owner pair or a message arrive.
Fairness ==
    /\ \A h \in Hosts : WF_vars(ProcessStep(h))
    /\ \A k \in Keys : WF_vars(commandLeaseExpires(k))
    /\ \A k \in CloseKeys : WF_vars(CallerStep(k))

FairSpec == Spec /\ Fairness

-----------------------------------------------------------------------------
\* Every variable has its type; a command row only takes the states of the entity.
TypeOK ==
    /\ connector \in [state : {"UNPAIRED", "PAIRING", "ACTIVE", "SUSPENDED", "REVOKED"},
                      id : Nat, token : Nat, hosted : BOOLEAN,
                      fresh : BOOLEAN, trade : BOOLEAN, lease : BOOLEAN]
    /\ auth \in AuthStatus
    /\ cmd \in [Keys -> [state : CommandState, connector : Nat, expired : BOOLEAN]]
    /\ req \in [Keys -> [pc : {"idle", "enqueue", "poll"}, id : Nat]]
    /\ told \in [Keys -> AnswerOf]
    /\ agent \in [Hosts -> [pc : Steps, id : Nat, token : Nat,
                            key : Keys \cup {NoKey}, outcome : JournalState \ {"EXECUTING"}]]
    /\ journal \in [Hosts -> [Keys -> JournalState]]
    /\ sent \in [Keys -> Nat]
    /\ minted \in Nat
    /\ faults \in Nat

\* An order, a modification or a close reaches the trading account at most once,
\* whatever is re-paired, reclaimed by another worker, leased and lost, crashed
\* and restarted on a machine with or without the journal entry.
SentAtMostOnce == \A k \in Mutations : sent[k] <= 1

\* What the terminal did agrees with the row for ever after: a success was sent,
\* and a cancelled mutation was not sent and is in nobody's hands.
InHand(h, k) == agent[h].pc \in {"got", "run", "sent"} /\ agent[h].key = k

RowsAreTrue ==
    \A k \in Mutations :
        /\ cmd[k].state = "SUCCEEDED" => sent[k] = 1
        /\ cmd[k].state \in {"NONE", "PENDING", "CANCELLED"} =>
               sent[k] = 0 /\ \A h \in Hosts : ~InHand(h, k)

\* The transport implements the channel its callers are promised.
PhaseOf(k) ==
    CASE cmd[k].state = "NONE"      -> "none"
      [] cmd[k].state = "PENDING"   -> "queued"
      [] cmd[k].state = "CANCELLED" -> "withdrawn"
      [] OTHER                      -> "out"

Channel == INSTANCE CommandChannel WITH
    Commands <- Mutations,
    phase    <- [k \in Mutations |-> PhaseOf(k)],
    sent     <- [k \in Mutations |-> sent[k]],
    answer   <- [k \in Mutations |-> told[k]]

ImplementsChannel == Channel!Spec

\* A connector that answers, with trading allowed and the account authorized.
Serving ==
    /\ connector.state = "ACTIVE" /\ connector.fresh /\ connector.trade
    /\ auth = "ACTIVE"
    /\ \E h \in Hosts : ~At(h, "off") /\ agent[h].id = connector.id
                                      /\ agent[h].token = connector.token

\* While one serves, no command stays queued or leased for ever: a lost answer
\* and a dead predecessor are cleared by the next poll.
QueueDrains ==
    <>[]Serving => <>[](\A k \in Keys : cmd[k].state \notin {"PENDING", "LEASED"})

\* A close that was cancelled before dispatch goes through when it is asked for
\* again and terminal trading is available.  Not kept: the key of a close is its
\* position and volume, and the cancelled row keeps the key.
ClosesRemainPossible ==
    \A k \in CloseKeys :
        (<>[]Serving /\ <>(told[k] = "CANCELLED")) => <>(sent[k] = 1)
=============================================================================
