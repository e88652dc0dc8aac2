--------------------------- MODULE DirectMt5Proofs ---------------------------
(***************************************************************************)
(* Proofs about the direct MT5 route, for every set of hosts, commands and *)
(* bounds: type correctness, that a mutation is sent at most once, that    *)
(* the rows are true, and that the route implements CommandChannel.        *)
(***************************************************************************)
EXTENDS DirectMt5, TLAPS

-----------------------------------------------------------------------------
(* Types.                                                                   *)

ConnectorRow ==
    [state : {"UNPAIRED", "PAIRING", "ACTIVE", "SUSPENDED", "REVOKED"},
     id : Nat, token : Nat, hosted : BOOLEAN,
     fresh : BOOLEAN, trade : BOOLEAN, lease : BOOLEAN]

CommandRow == [state : CommandState, connector : Nat, expired : BOOLEAN]

Process ==
    [pc : Steps, id : Nat, token : Nat,
     key : Keys \cup {NoKey}, outcome : JournalState \ {"EXECUTING"}]

\* A connection that starts pairing, by itself or hosted, has a row.
LEMMA PairingType ==
    \A n \in Nat :
        /\ [Unpaired EXCEPT !.state = "PAIRING", !.id = n] \in ConnectorRow
        /\ [Unpaired EXCEPT !.state = "PAIRING", !.hosted = TRUE, !.id = n] \in ConnectorRow
BY DEF Unpaired, ConnectorRow

\* Superseding leaves a row a row.
LEMMA SupersededType ==
    ASSUME TypeOK, NEW k \in Keys
    PROVE  Superseded(k) \in CommandRow
<1>1. cmd[k] \in CommandRow
    BY DEF TypeOK, CommandRow
<1> QED
    BY <1>1 DEF Superseded, CommandRow, CommandState

\* So does the end of a process, the top of its loop and the recovery of its journal.
LEMMA ProcessTypes ==
    ASSUME TypeOK, NEW h \in Hosts
    PROVE  /\ Ended(h) \in Process
           /\ \A p \in Steps : Go(h, p) => agent' \in [Hosts -> Process]
           /\ Stop(h) => agent' \in [Hosts -> Process]
           /\ Loop(h) => agent' \in [Hosts -> Process]
           /\ Recovered(h) \in [Hosts -> [Keys -> JournalState]]
<1>1. agent \in [Hosts -> Process] /\ agent[h] \in Process
    BY DEF TypeOK, Process
<1>2. Ended(h) \in Process
    BY <1>1 DEF Ended, NoProcess, Process, Steps, JournalState, NoKey
<1>3. \A p \in Steps : Go(h, p) => agent' \in [Hosts -> Process]
    BY <1>1 DEF Go, Process
<1>4. Stop(h) => agent' \in [Hosts -> Process]
    BY <1>1, <1>2 DEF Stop
<1>5. Loop(h) => agent' \in [Hosts -> Process]
    <2> DEFINE top == [agent[h] EXCEPT !.pc = "up", !.key = NoKey, !.outcome = "NONE"]
    <2>1. top \in Process
        BY <1>1 DEF Process, Steps, JournalState
    <2>2. Loop(h) => agent' = [agent EXCEPT ![h] = top]
        BY <1>1 DEF Loop
    <2> QED
        BY <1>1, <2>1, <2>2
<1>6. Recovered(h) \in [Hosts -> [Keys -> JournalState]]
    BY DEF TypeOK, Recovered, JournalState
<1> QED
    BY <1>2, <1>3, <1>4, <1>5, <1>6

\* The initial state is typed.
LEMMA InitType == Init => TypeOK
BY DEF Init, TypeOK, Unpaired, NoCommand, NoProcess, CommandState, JournalState,
       AnswerOf, AuthStatus, Steps, NoKey

\* The callers' steps keep the types.
LEMMA CallerType ==
    ASSUME TypeOK, NEW k \in Keys,
           CallerStep(k) \/ deadline(k) \/ commandLeaseExpires(k)
    PROVE  TypeOK'
<1>1. CASE getActiveConnectorForConnection(k)
    BY <1>1 DEF TypeOK, getActiveConnectorForConnection
<1>2. CASE enqueue(k)
    <2>1. cmd' \in [Keys -> CommandRow]
        <3>1. req[k].id \in Nat /\ cmd \in [Keys -> CommandRow]
            BY DEF TypeOK, CommandRow
        <3>2. [state |-> "PENDING", connector |-> req[k].id, expired |-> FALSE] \in CommandRow
            BY <3>1 DEF CommandRow, CommandState
        <3> QED
            BY <1>2, <3>1, <3>2 DEF enqueue
    <2>2. req' \in [Keys -> [pc : {"idle", "enqueue", "poll"}, id : Nat]]
        BY <1>2 DEF TypeOK, enqueue, End
    <2>3. told' \in [Keys -> AnswerOf]
        BY <1>2 DEF TypeOK, enqueue, End, AnswerOf
    <2> QED
        BY <1>2, <2>1, <2>2, <2>3 DEF TypeOK, enqueue, CommandRow
<1>3. CASE pollResult(k)
    BY <1>3 DEF TypeOK, pollResult, End, AnswerOf
<1>4. CASE deadline(k)
    BY <1>4 DEF TypeOK, deadline, End, AnswerOf
<1>5. CASE commandLeaseExpires(k)
    BY <1>5 DEF TypeOK, commandLeaseExpires
<1> QED
    BY <1>1, <1>2, <1>3, <1>4, <1>5 DEF CallerStep

\* The owner's steps and the clock keep the types.
LEMMA OwnerType ==
    ASSUME TypeOK, OwnerStep \/ heartbeatStales \/ workerLeaseExpires
    PROVE  TypeOK'
<1> USE SupersededType
<1>1. CASE createPairing
    <2>1. cmd' \in [Keys -> CommandRow]
        BY <1>1 DEF createPairing, SupersedeAll
    <2>2. connector' \in ConnectorRow /\ minted' \in Nat
        <3>1. minted + 1 \in Nat /\ minted' = minted + 1
            BY <1>1 DEF TypeOK, createPairing, Mint
        <3> QED
            BY <1>1, <3>1, PairingType DEF createPairing
    <2> QED
        BY <1>1, <2>1, <2>2 DEF TypeOK, createPairing, ConnectorRow, CommandRow
<1>2. CASE provision
    <2>1. cmd' \in [Keys -> CommandRow]
        BY <1>2 DEF provision, SupersedeAll
    <2>2. connector' \in ConnectorRow /\ minted' \in Nat
        <3>1. minted + 1 \in Nat /\ connector.id \in Nat /\ minted \in Nat
            BY DEF TypeOK
        <3> QED
            BY <1>2, <3>1, PairingType DEF provision, Mint
    <2> QED
        BY <1>2, <2>1, <2>2 DEF TypeOK, provision, ConnectorRow, CommandRow, AuthStatus
<1>3. CASE revokeConnector
    <2>1. cmd' \in [Keys -> CommandRow]
        BY <1>3 DEF TypeOK, revokeConnector, SupersedeOfConnector, CommandRow
    <2>2. connector' \in ConnectorRow
        BY <1>3 DEF TypeOK, revokeConnector, ConnectorRow
    <2> QED
        BY <1>3, <2>1, <2>2 DEF TypeOK, revokeConnector, ConnectorRow, CommandRow, AuthStatus
<1>4. CASE connect
    BY <1>4 DEF TypeOK, connect, AuthStatus
<1>5. CASE heartbeatStales
    BY <1>5 DEF TypeOK, heartbeatStales
<1>6. CASE workerLeaseExpires
    BY <1>6 DEF TypeOK, workerLeaseExpires
<1> QED
    BY <1>1, <1>2, <1>3, <1>4, <1>5, <1>6 DEF OwnerStep

\* A redeemed code or a leased assignment keeps the types.
LEMMA BindingType ==
    ASSUME TypeOK, NEW h \in Hosts, redeemPairing(h) \/ leaseAssignment(h)
    PROVE  TypeOK'
<1>1. minted + 1 \in Nat /\ connector \in ConnectorRow /\ agent \in [Hosts -> Process]
    BY DEF TypeOK, ConnectorRow, Process
<1>2. [NoProcess EXCEPT !.id = connector.id, !.token = minted + 1] \in Process
    BY <1>1 DEF NoProcess, Process, ConnectorRow, Steps, JournalState
<1>3. CASE redeemPairing(h)
    <2>1. connector' \in ConnectorRow
        <3>1. PICK allowed \in BOOLEAN :
                  connector' = [connector EXCEPT !.state = "ACTIVE", !.token = minted + 1,
                                                 !.fresh = TRUE, !.trade = allowed]
            BY <1>3 DEF redeemPairing
        <3> QED
            BY <1>1, <3>1 DEF ConnectorRow
    <2>2. agent' \in [Hosts -> Process]
        BY <1>1, <1>2, <1>3 DEF redeemPairing
    <2>3. minted' \in Nat /\ faults' \in Nat /\ auth' \in AuthStatus
        <3>1. faults' = faults \/ faults' = faults + 1
            BY <1>3 DEF redeemPairing, Answered, Fault
        <3>2. minted' = minted + 1 /\ auth' = "CONNECTED"
            BY <1>3, Zenon DEF redeemPairing, Mint
        <3>3. faults \in Nat
            BY DEF TypeOK
        <3> QED
            BY <1>1, <3>1, <3>2, <3>3 DEF AuthStatus
    <2> QED
        BY <1>3, <2>1, <2>2, <2>3 DEF TypeOK, redeemPairing, ConnectorRow, Process
<1>4. CASE leaseAssignment(h)
    <2>1. connector' \in ConnectorRow
        BY <1>1, <1>4 DEF leaseAssignment, ConnectorRow
    <2>2. agent' \in [Hosts -> Process]
        BY <1>1, <1>2, <1>4 DEF leaseAssignment
    <2>3. minted' \in Nat /\ faults' \in Nat
        BY <1>1, <1>4 DEF TypeOK, leaseAssignment, Answered, Fault, Mint
    <2>4. cmd' \in [Keys -> CommandRow]
        BY <1>4, SupersededType DEF TypeOK, leaseAssignment, SupersedeOfConnector, CommandRow
    <2> QED
        BY <1>4, <2>1, <2>2, <2>3, <2>4 DEF TypeOK, leaseAssignment, ConnectorRow, CommandRow, Process
<1> QED
    BY <1>3, <1>4

\* The connector's steps keep the types.
LEMMA ProcessType ==
    ASSUME TypeOK, NEW h \in Hosts,
           ProcessStep(h) \/ identityChanged(h) \/ crash(h) \/ transientFailure(h)
    PROVE  TypeOK'
<1>1. /\ agent \in [Hosts -> Process] /\ agent[h] \in Process
      /\ cmd \in [Keys -> CommandRow]
      /\ journal \in [Hosts -> [Keys -> JournalState]]
    BY DEF TypeOK, CommandRow, Process
<1> DEFINE Rest ==
        /\ connector' \in ConnectorRow /\ auth' \in AuthStatus /\ faults' \in Nat
        /\ cmd' \in [Keys -> CommandRow]
        /\ journal' \in [Hosts -> [Keys -> JournalState]]
        /\ sent' \in [Keys -> Nat]
<1>2. ASSUME agent' \in [Hosts -> Process], Rest, UNCHANGED <<req, told, minted>>
      PROVE  TypeOK'
    BY <1>2 DEF TypeOK, ConnectorRow, CommandRow, Process
<1>3. TypeOK => connector \in ConnectorRow
    BY DEF TypeOK, ConnectorRow
<1>4. CASE start(h)
    BY <1>1, <1>2, <1>3, <1>4, ProcessTypes DEF TypeOK, start, Steps
<1>5. CASE authenticateConnector(h)
    <2>1. AfterAuth[agent[h].pc] \in Steps
        BY <1>5 DEF authenticateConnector, AfterAuth, Steps
    <2> QED
        BY <1>1, <1>2, <1>3, <1>5, <2>1, ProcessTypes DEF TypeOK, authenticateConnector
<1>6. CASE recordHeartbeat(h)
    <2>1. connector' \in ConnectorRow /\ auth' \in AuthStatus
        BY <1>3, <1>6 DEF TypeOK, recordHeartbeat, ConnectorRow, AuthStatus
    <2>2. agent' \in [Hosts -> Process]
        BY <1>6, ProcessTypes DEF recordHeartbeat, Steps
    <2> QED
        BY <1>1, <1>2, <1>6, <2>1, <2>2 DEF TypeOK, recordHeartbeat
<1>7. CASE identityChanged(h)
    <2>1. connector' \in ConnectorRow /\ auth' \in AuthStatus
        BY <1>3, <1>7 DEF TypeOK, identityChanged, ConnectorRow, AuthStatus
    <2> QED
        BY <1>1, <1>2, <1>7, <2>1, ProcessTypes DEF TypeOK, identityChanged
<1>8. CASE expireLeases(h)
    <2>1. cmd' \in [Keys -> CommandRow]
        BY <1>1, <1>8 DEF expireLeases, Expired, CommandRow, CommandState
    <2> QED
        BY <1>1, <1>2, <1>3, <1>8, <2>1, ProcessTypes DEF TypeOK, expireLeases, Steps
<1>9. ASSUME NEW k \in Keys, leaseCandidate(h, k)
      PROVE  TypeOK'
    <2>1. cmd' \in [Keys -> CommandRow]
        BY <1>1, <1>9 DEF leaseCandidate, CommandRow, CommandState
    <2>2. agent' \in [Hosts -> Process]
        <3>1. CASE agent' = [agent EXCEPT ![h].pc = "got", ![h].key = k]
            <4>1. [agent[h] EXCEPT !.pc = "got", !.key = k] \in Process
                BY <1>1 DEF Process, Steps
            <4> QED
                BY <1>1, <3>1, <4>1
        <3> QED
            BY <1>9, <3>1, ProcessTypes DEF leaseCandidate
    <2>3. journal' \in [Hosts -> [Keys -> JournalState]] /\ faults' \in Nat
        BY <1>1, <1>9, ProcessTypes DEF TypeOK, leaseCandidate, Fault
    <2> QED
        BY <1>2, <1>3, <1>9, <2>1, <2>2, <2>3 DEF TypeOK, leaseCandidate
<1>10. CASE nothingToLease(h)
    BY <1>1, <1>2, <1>3, <1>10, ProcessTypes DEF TypeOK, nothingToLease
<1>11. ASSUME NEW o \in JournalState \ {"EXECUTING"},
              agent' = [agent EXCEPT ![h].pc = "report", ![h].outcome = o]
       PROVE  agent' \in [Hosts -> Process]
    <2>1. [agent[h] EXCEPT !.pc = "report", !.outcome = o] \in Process
        BY <1>1 DEF Process, Steps
    <2> QED
        BY <1>1, <1>11, <2>1
<1>12. CASE begin(h)
    <2>1. journal' \in [Hosts -> [Keys -> JournalState]]
        <3>1. CASE journal[h][agent[h].key] \in {"NONE", "EXECUTING"}
            <4>1. journal' = [journal EXCEPT ![h][agent[h].key] = "EXECUTING"]
                BY <1>12, <3>1 DEF begin
            <4>2. "EXECUTING" \in JournalState
                BY DEF JournalState
            <4> QED
                BY <1>1, <4>1, <4>2
        <3>2. CASE journal[h][agent[h].key] \notin {"NONE", "EXECUTING"}
            BY <1>1, <1>12, <3>2 DEF begin
        <3> QED
            BY <3>1, <3>2
    <2>2. agent' \in [Hosts -> Process]
        <3>1. CASE journal[h][agent[h].key] \in {"NONE", "EXECUTING"}
            BY <1>12, <3>1, ProcessTypes DEF begin, Steps
        <3>2. CASE journal[h][agent[h].key] \notin {"NONE", "EXECUTING"}
            <4> DEFINE entry == journal[h][agent[h].key]
                       o == IF entry \in {"SUCCEEDED", "FAILED"} THEN entry ELSE "UNCERTAIN"
            <4>1. agent' = [agent EXCEPT ![h].pc = "report", ![h].outcome = o]
                BY <1>12, <3>2 DEF begin
            <4>2. o \in JournalState \ {"EXECUTING"}
                BY DEF JournalState
            <4> HIDE DEF o
            <4> QED
                BY <1>11, <4>1, <4>2
        <3> QED
            BY <3>1, <3>2
    <2> QED
        BY <1>1, <1>2, <1>3, <1>12, <2>1, <2>2 DEF TypeOK, begin
<1>13. CASE terminalSends(h)
    <2>1. sent' \in [Keys -> Nat]
        <3>1. sent \in [Keys -> Nat] /\ sent' = [sent EXCEPT ![agent[h].key] = @ + 1]
            BY <1>13 DEF TypeOK, terminalSends
        <3>2. \A k \in Keys : sent[k] + 1 \in Nat
            BY <3>1
        <3> QED
            BY <3>1, <3>2
    <2> QED
        BY <1>1, <1>2, <1>3, <1>13, <2>1, ProcessTypes DEF TypeOK, terminalSends, Steps
<1>14. ASSUME NEW o \in {"SUCCEEDED", "FAILED"}, Journalled(h, o)
       PROVE  journal' \in [Hosts -> [Keys -> JournalState]] /\ agent' \in [Hosts -> Process]
    <2>1. journal' \in [Hosts -> [Keys -> JournalState]]
        BY <1>1, <1>14 DEF Journalled, JournalState
    <2>2. agent' \in [Hosts -> Process]
        BY <1>11, <1>14 DEF Journalled, JournalState
    <2> QED
        BY <2>1, <2>2
<1>15. CASE terminalReturns(h)
    BY <1>1, <1>2, <1>3, <1>14, <1>15 DEF TypeOK, terminalReturns
<1>16. CASE terminalRaises(h)
    BY <1>1, <1>2, <1>3, <1>14, <1>16 DEF TypeOK, terminalRaises
<1>17. CASE recordResult(h)
    <2>1. cmd' \in [Keys -> CommandRow]
        <3>1. agent[h].outcome \in CommandState
            BY <1>1 DEF Process, JournalState, CommandState
        <3>2. \A k \in Keys :
                  [cmd[k] EXCEPT !.state = agent[h].outcome, !.expired = FALSE] \in CommandRow
            BY <1>1, <3>1 DEF CommandRow
        <3> QED
            <4> DEFINE k == agent[h].key
                       row == [cmd[k] EXCEPT !.state = agent[h].outcome, !.expired = FALSE]
            <4>1. CASE k \in Keys
                <5>1. cmd' = cmd \/ cmd' = [cmd EXCEPT ![k] = row]
                    BY <1>1, <1>17, <4>1 DEF recordResult
                <5>2. row \in CommandRow
                    BY <3>2, <4>1
                <5> QED
                    BY <1>1, <5>1, <5>2
            <4>2. CASE k \notin Keys
                BY <1>1, <1>17, <4>2 DEF recordResult
            <4> QED
                BY <4>1, <4>2
    <2> QED
        BY <1>1, <1>2, <1>3, <1>17, <2>1, ProcessTypes DEF TypeOK, recordResult
<1>18. CASE crash(h)
    BY <1>1, <1>2, <1>3, <1>18, ProcessTypes DEF TypeOK, crash, Fault
<1>19. CASE transientFailure(h)
    BY <1>1, <1>2, <1>3, <1>19, ProcessTypes DEF TypeOK, transientFailure, Fault
<1> QED
    BY <1>4, <1>5, <1>6, <1>7, <1>8, <1>9, <1>10, <1>12, <1>13, <1>15, <1>16, <1>17,
       <1>18, <1>19 DEF ProcessStep

\* Every step keeps the types.
LEMMA TypeStep == TypeOK /\ [Next]_vars => TypeOK'
<1> SUFFICES ASSUME TypeOK, [Next]_vars
             PROVE  TypeOK'
    OBVIOUS
<1>1. CASE UNCHANGED vars
    BY <1>1 DEF TypeOK, vars
<1>2. CASE Next
    BY <1>2, CallerType, OwnerType, BindingType, ProcessType DEF Next
<1> QED
    BY <1>1, <1>2

\* Every reachable state of the route has the types of TypeOK, whatever the
\* interleaving of the owner, the callers and the connectors.
THEOREM TypeCorrect == Spec => []TypeOK
BY InitType, TypeStep, PTL DEF Spec

-----------------------------------------------------------------------------
(* The inductive invariant.  Neither SentAtMostOnce nor RowsAreTrue is      *)
(* inductive: both rest on who holds a command, and on what a process and   *)
(* its journal believe about it.                                            *)

\* A process that works on a command has one, and reports a final outcome.
Holding ==
    \A h \in Hosts :
        /\ agent[h].pc \in {"got", "run", "sent", "report", "record"} => agent[h].key \in Keys
        /\ agent[h].pc \in {"report", "record"} =>
               agent[h].outcome \in {"SUCCEEDED", "FAILED", "UNCERTAIN"}

Untaken == {"NONE", "PENDING", "CANCELLED"}

\* What is known of a mutation: nobody holds it before it is leased, one process
\* at most holds it after, and only what was sent is believed to have succeeded.
Account(k) ==
    /\ sent[k] \in {0, 1}
    /\ cmd[k].state \in Untaken => sent[k] = 0 /\ \A h \in Hosts : ~InHand(h, k)
    /\ cmd[k].state = "SUCCEEDED" => sent[k] = 1
    /\ \A h, i \in Hosts : InHand(h, k) /\ InHand(i, k) => h = i
    /\ \A h \in Hosts :
           /\ agent[h].key = k /\ agent[h].pc \in {"got", "run"} => sent[k] = 0
           /\ agent[h].key = k /\ agent[h].pc = "sent" => sent[k] = 1
           /\ /\ agent[h].key = k /\ agent[h].pc \in {"report", "record"}
              /\ agent[h].outcome = "SUCCEEDED"
              => sent[k] = 1
           /\ journal[h][k] = "SUCCEEDED" => sent[k] = 1

IInv ==
    /\ TypeOK
    /\ Holding
    /\ \A k \in Mutations : Account(k)

\* The initial state satisfies the invariant.
LEMMA InitIInv == Init => IInv
<1> SUFFICES ASSUME Init
             PROVE  IInv
    OBVIOUS
<1>1. TypeOK
    BY InitType
<1>2. Holding
    BY DEF Init, Holding, NoProcess
<1>3. ASSUME NEW k \in Mutations
      PROVE  Account(k)
    BY DEF Init, Account, InHand, NoProcess, NoCommand, Keys
<1> QED
    BY <1>1, <1>2, <1>3 DEF IInv

Resting == {"off", "up", "beat", "poll", "lease", "take"}

\* A process let go of its command, went on from report to record, or did not move.
LetsGo(h) ==
    \/ agent'[h].pc \in Resting
    \/ /\ agent'[h].key = agent[h].key /\ agent'[h].outcome = agent[h].outcome
       /\ \/ agent'[h].pc = agent[h].pc
          \/ agent[h].pc = "report" /\ agent'[h].pc = "record"

\* A row does not become untaken or successful.
RowMatures(k) ==
    /\ cmd'[k].state \in Untaken => cmd[k].state \in Untaken
    /\ cmd'[k].state = "SUCCEEDED" => cmd[k].state = "SUCCEEDED"

NoNewSuccess ==
    \A h \in Hosts, k \in Keys : journal'[h][k] = "SUCCEEDED" => journal[h][k] = "SUCCEEDED"

\* A step that sends nothing, takes no command up and concludes nothing keeps
\* the invariant.
LEMMA QuietStep ==
    ASSUME IInv, TypeOK', UNCHANGED sent, NoNewSuccess,
           \A h \in Hosts : LetsGo(h),
           \A k \in Mutations : RowMatures(k)
    PROVE  IInv'
<1>1. Holding'
    BY DEF IInv, Holding, LetsGo, Resting
<1>2. ASSUME NEW k \in Mutations
      PROVE  Account(k)'
    <2>1. Account(k) /\ k \in Keys
        BY DEF IInv, Keys
    <2>2. \A h \in Hosts : InHand(h, k)' => InHand(h, k)
        BY DEF LetsGo, InHand, Resting
    <2> QED
        BY <2>1, <2>2 DEF Account, LetsGo, RowMatures, NoNewSuccess, Resting
<1> QED
    BY <1>1, <1>2 DEF IInv

\* What the steps of the process on h do to the processes.
LEMMA ProcessMoves ==
    ASSUME TypeOK, NEW h \in Hosts
    PROVE  /\ \A p \in Steps : Go(h, p) =>
                  /\ agent'[h].pc = p /\ agent'[h].key = agent[h].key
                  /\ agent'[h].outcome = agent[h].outcome
                  /\ \A i \in Hosts \ {h} : agent'[i] = agent[i]
           /\ Stop(h) \/ Loop(h) =>
                  /\ agent'[h].pc \in {"off", "up"}
                  /\ \A i \in Hosts \ {h} : agent'[i] = agent[i]
           /\ journal' = Recovered(h) => NoNewSuccess
           /\ UNCHANGED journal => NoNewSuccess
<1>1. agent \in [Hosts -> Process] /\ agent[h] \in Process
    BY DEF TypeOK, Process
<1>2. ASSUME NEW p \in Steps, Go(h, p)
      PROVE  /\ agent'[h].pc = p /\ agent'[h].key = agent[h].key
             /\ agent'[h].outcome = agent[h].outcome
             /\ \A i \in Hosts \ {h} : agent'[i] = agent[i]
    BY <1>1, <1>2 DEF Go, Process
<1>3. ASSUME Stop(h)
      PROVE  /\ agent'[h].pc = "off"
             /\ \A i \in Hosts \ {h} : agent'[i] = agent[i]
    BY <1>1, <1>3 DEF Stop, Ended, NoProcess
<1>4. ASSUME Loop(h)
      PROVE  /\ agent'[h].pc = "up"
             /\ \A i \in Hosts \ {h} : agent'[i] = agent[i]
    BY <1>1, <1>4 DEF Loop, Process
<1>5. journal' = Recovered(h) => NoNewSuccess
    BY DEF TypeOK, Recovered, NoNewSuccess
<1>6. UNCHANGED journal => NoNewSuccess
    BY DEF NoNewSuccess
<1> QED
    BY <1>2, <1>3, <1>4, <1>5, <1>6

\* The callers only queue a command or read its row.
LEMMA CallerKeeps ==
    ASSUME IInv, NEW k \in Keys,
           CallerStep(k) \/ deadline(k) \/ commandLeaseExpires(k)
    PROVE  IInv'
<1>1. TypeOK /\ TypeOK'
    BY CallerType DEF IInv
<1>2. UNCHANGED <<agent, journal, sent>>
    BY DEF CallerStep, getActiveConnectorForConnection, enqueue, pollResult, deadline,
           commandLeaseExpires
<1>3. NoNewSuccess /\ \A h \in Hosts : LetsGo(h)
    BY <1>2 DEF NoNewSuccess, LetsGo
<1>4. \A j \in Keys : cmd'[j].state = cmd[j].state
                      \/ (cmd[j].state = "NONE" /\ cmd'[j].state = "PENDING")
    BY <1>1 DEF TypeOK, CallerStep, getActiveConnectorForConnection, enqueue, pollResult,
                deadline, commandLeaseExpires
<1>5. \A j \in Mutations : RowMatures(j)
    BY <1>4 DEF RowMatures, Untaken, Keys
<1> QED
    BY <1>1, <1>2, <1>3, <1>5, QuietStep

\* A new binding cancels what nobody had taken and nothing else.
LEMMA SupersededMatures ==
    ASSUME TypeOK, SupersedeAll \/ SupersedeOfConnector \/ UNCHANGED cmd,
           NEW k \in Mutations
    PROVE  RowMatures(k)
<1>1. k \in Keys /\ cmd[k] \in CommandRow
    BY DEF TypeOK, CommandRow, Keys
<1>2. cmd'[k] = cmd[k] \/ cmd'[k] = Superseded(k)
    BY <1>1 DEF SupersedeAll, SupersedeOfConnector
<1> QED
    BY <1>1, <1>2 DEF Superseded, RowMatures, Untaken, CommandRow

\* The owner's steps are quiet.
LEMMA OwnerKeeps ==
    ASSUME IInv, OwnerStep \/ heartbeatStales \/ workerLeaseExpires
    PROVE  IInv'
<1>1. TypeOK /\ TypeOK'
    BY OwnerType DEF IInv
<1>2. UNCHANGED <<agent, journal, sent>>
    BY DEF OwnerStep, createPairing, provision, revokeConnector, connect, heartbeatStales,
           workerLeaseExpires
<1>3. NoNewSuccess /\ \A h \in Hosts : LetsGo(h)
    BY <1>2 DEF NoNewSuccess, LetsGo
<1>4. SupersedeAll \/ SupersedeOfConnector \/ UNCHANGED cmd
    BY DEF OwnerStep, createPairing, provision, revokeConnector, connect, heartbeatStales,
           workerLeaseExpires
<1> QED
    BY <1>1, <1>2, <1>3, <1>4, SupersededMatures, QuietStep

\* A new process starts with no command in hand.
LEMMA BindingKeeps ==
    ASSUME IInv, NEW h \in Hosts, redeemPairing(h) \/ leaseAssignment(h)
    PROVE  IInv'
<1>1. TypeOK /\ TypeOK'
    BY BindingType DEF IInv
<1>2. UNCHANGED <<journal, sent>>
    BY DEF redeemPairing, leaseAssignment
<1>3. NoNewSuccess
    BY <1>2 DEF NoNewSuccess
<1>4. \A i \in Hosts : LetsGo(i)
    <2>1. \/ agent' = agent
          \/ agent' = [agent EXCEPT ![h] = [NoProcess EXCEPT !.id = connector.id,
                                                             !.token = minted + 1]]
        BY Zenon DEF redeemPairing, leaseAssignment
    <2> QED
        <3>1. [NoProcess EXCEPT !.id = connector.id, !.token = minted + 1].pc = "off"
            BY DEF NoProcess
        <3>2. agent \in [Hosts -> Process]
            BY <1>1 DEF TypeOK, Process
        <3> QED
            BY <2>1, <3>1, <3>2 DEF LetsGo, Resting
<1>5. SupersedeAll \/ SupersedeOfConnector \/ UNCHANGED cmd
    BY DEF redeemPairing, leaseAssignment
<1> QED
    BY <1>1, <1>2, <1>3, <1>4, <1>5, SupersededMatures, QuietStep

\* The connector's steps keep the invariant.
LEMMA ProcessKeeps ==
    ASSUME IInv, NEW h \in Hosts,
           ProcessStep(h) \/ identityChanged(h) \/ crash(h) \/ transientFailure(h)
    PROVE  IInv'
<1>1. TypeOK /\ TypeOK'
    BY ProcessType DEF IInv
<1>2. agent \in [Hosts -> Process] /\ agent[h] \in Process /\ cmd \in [Keys -> CommandRow]
    BY <1>1 DEF TypeOK, Process, CommandRow
<1> DEFINE Others == \A i \in Hosts \ {h} : agent'[i] = agent[i]
\* The quiet steps.
<1>3. ASSUME LetsGo(h), Others, UNCHANGED sent, NoNewSuccess,
             \A k \in Mutations : RowMatures(k)
      PROVE  IInv'
    <2>1. \A i \in Hosts : LetsGo(i)
        BY <1>3 DEF LetsGo
    <2> QED
        BY <1>1, <1>3, <2>1, QuietStep
<1>4. UNCHANGED cmd => \A k \in Mutations : RowMatures(k)
    BY DEF RowMatures
<1>5. ASSUME NEW p \in Resting, Go(h, p)
      PROVE  LetsGo(h) /\ Others
    BY <1>1, <1>5, ProcessMoves DEF LetsGo, Resting, Steps
<1>6. ASSUME Stop(h) \/ Loop(h)
      PROVE  LetsGo(h) /\ Others
    BY <1>1, <1>6, ProcessMoves DEF LetsGo, Resting
<1>7. CASE start(h)
    BY <1>1, <1>3, <1>4, <1>5, <1>7, ProcessMoves DEF start, Resting
<1>8. CASE authenticateConnector(h)
    <2>1. CASE Stop(h)
        BY <1>1, <1>3, <1>4, <1>6, <1>8, <2>1, ProcessMoves DEF authenticateConnector
    <2>2. CASE Go(h, AfterAuth[agent[h].pc])
        <3>1. \/ AfterAuth[agent[h].pc] \in Resting
              \/ agent[h].pc = "report" /\ AfterAuth[agent[h].pc] = "record"
            BY <1>8 DEF authenticateConnector, AfterAuth, Resting
        <3>2. LetsGo(h) /\ Others
            BY <1>1, <2>2, <3>1, ProcessMoves DEF LetsGo, Resting, Steps
        <3> QED
            BY <1>1, <1>3, <1>4, <1>8, <3>2, ProcessMoves DEF authenticateConnector
    <2> QED
        BY <1>8, <2>1, <2>2 DEF authenticateConnector
<1>9. CASE recordHeartbeat(h)
    <2>1. Go(h, "poll") \/ Stop(h)
        BY <1>9 DEF recordHeartbeat
    <2>2. LetsGo(h) /\ Others
        BY <1>5, <1>6, <2>1 DEF Resting
    <2> QED
        BY <1>1, <1>3, <1>4, <1>9, <2>2, ProcessMoves DEF recordHeartbeat
<1>10. CASE identityChanged(h)
    BY <1>1, <1>3, <1>4, <1>6, <1>10, ProcessMoves DEF identityChanged
<1>11. CASE expireLeases(h)
    <2>1. \A k \in Mutations : RowMatures(k)
        BY <1>2, <1>11 DEF expireLeases, Expired, RowMatures, Untaken, CommandRow, Keys
    <2> QED
        BY <1>1, <1>3, <1>5, <1>11, <2>1, ProcessMoves DEF expireLeases, Resting
<1>12. CASE nothingToLease(h)
    BY <1>1, <1>3, <1>4, <1>6, <1>12, ProcessMoves DEF nothingToLease
<1>13. CASE crash(h)
    BY <1>1, <1>3, <1>4, <1>6, <1>13, ProcessMoves DEF crash
<1>14. CASE transientFailure(h)
    BY <1>1, <1>3, <1>4, <1>6, <1>14, ProcessMoves DEF transientFailure
\* The steps that take a command up, run it and conclude it.
<1>15. ASSUME NEW k \in Keys, leaseCandidate(h, k)
       PROVE  IInv'
    <2>1. /\ cmd[k].state = "PENDING" /\ cmd'[k].state = "LEASED"
          /\ \A j \in Keys \ {k} : cmd'[j] = cmd[j]
          /\ UNCHANGED sent
        BY <1>2, <1>15 DEF leaseCandidate, Leasable, CommandRow
    <2>2. CASE Loop(h) /\ journal' = Recovered(h)
        <3>1. \A j \in Mutations : RowMatures(j)
            BY <2>1 DEF RowMatures, Untaken, Keys
        <3> QED
            BY <1>1, <1>3, <1>6, <2>1, <2>2, <3>1, ProcessMoves
    <2>3. CASE agent' = [agent EXCEPT ![h].pc = "got", ![h].key = k] /\ UNCHANGED journal
        <3>1. agent'[h].pc = "got" /\ agent'[h].key = k /\ Others
            BY <1>2, <2>3 DEF Process
        <3>2. Holding'
            BY <3>1 DEF IInv, Holding
        <3>3. ASSUME NEW j \in Mutations
              PROVE  Account(j)'
            <4>1. Account(j) /\ j \in Keys
                BY DEF IInv, Keys
            <4>2. CASE j = k
                <5>1. sent[j] = 0 /\ \A i \in Hosts : ~InHand(i, j)
                    BY <2>1, <4>1, <4>2 DEF Account, Untaken
                <5>2. \A i \in Hosts : InHand(i, j)' <=> i = h
                    BY <3>1, <4>2, <5>1 DEF InHand
                <5> QED
                    BY <2>1, <2>3, <3>1, <4>1, <4>2, <5>1, <5>2 DEF Account, Untaken
            <4>3. CASE j # k
                <5>1. \A i \in Hosts : InHand(i, j)' => InHand(i, j)
                    BY <3>1, <4>3 DEF InHand
                <5> QED
                    BY <2>1, <2>3, <3>1, <4>1, <4>3, <5>1 DEF Account
            <4> QED
                BY <4>2, <4>3
        <3> QED
            BY <1>1, <3>2, <3>3 DEF IInv
    <2> QED
        BY <1>15, <2>2, <2>3 DEF leaseCandidate
\* A process that goes on to run, or to report what it may.
<1>16. ASSUME UNCHANGED <<cmd, sent>>, Others,
              agent[h].pc \in {"got", "run", "sent"},
              agent'[h].key = agent[h].key,
              \/ /\ agent'[h].pc = "run" /\ agent[h].pc = "got" /\ NoNewSuccess
              \/ /\ agent'[h].pc = "report"
                 /\ agent'[h].outcome \in {"SUCCEEDED", "FAILED", "UNCERTAIN"}
                 /\ \A i \in Hosts, j \in Keys : journal'[i][j] = "SUCCEEDED" =>
                        \/ journal[i][j] = "SUCCEEDED"
                        \/ i = h /\ j = agent[h].key /\ agent'[h].outcome = "SUCCEEDED"
                 /\ agent'[h].outcome = "SUCCEEDED" =>
                        agent[h].pc = "sent" \/ journal[h][agent[h].key] = "SUCCEEDED"
       PROVE  IInv'
    <2>1. Holding'
        BY <1>16 DEF IInv, Holding
    <2>2. ASSUME NEW j \in Mutations
          PROVE  Account(j)'
        <3>1. Account(j) /\ j \in Keys
            BY DEF IInv, Keys
        <3>2. \A i \in Hosts : InHand(i, j)' => InHand(i, j)
            BY <1>16 DEF InHand
        <3> QED
            BY <1>16, <3>1, <3>2 DEF Account, NoNewSuccess
    <2> QED
        BY <1>1, <2>1, <2>2 DEF IInv
<1>17. CASE begin(h)
    <2>1. At(h, "got") /\ UNCHANGED <<cmd, sent>>
        BY <1>17 DEF begin
    <2>2. CASE journal[h][agent[h].key] \in {"NONE", "EXECUTING"}
        <3>1. Go(h, "run") /\ journal' = [journal EXCEPT ![h][agent[h].key] = "EXECUTING"]
            BY <1>17, <2>2 DEF begin
        <3>2. NoNewSuccess
            BY <1>1, <3>1 DEF TypeOK, NoNewSuccess
        <3>3. agent'[h].pc = "run" /\ agent'[h].key = agent[h].key /\ Others
            BY <1>1, <3>1, ProcessMoves DEF Steps
        <3> QED
            BY <1>16, <2>1, <3>2, <3>3 DEF At
    <2>3. CASE journal[h][agent[h].key] \notin {"NONE", "EXECUTING"}
        <3> DEFINE entry == journal[h][agent[h].key]
                   o == IF entry \in {"SUCCEEDED", "FAILED"} THEN entry ELSE "UNCERTAIN"
        <3>1. agent' = [agent EXCEPT ![h].pc = "report", ![h].outcome = o] /\ UNCHANGED journal
            BY <1>17, <2>3 DEF begin
        <3>2. /\ agent'[h].pc = "report" /\ agent'[h].outcome = o
              /\ agent'[h].key = agent[h].key /\ Others
            BY <1>2, <3>1 DEF Process
        <3>3. o \in {"SUCCEEDED", "FAILED", "UNCERTAIN"} /\ (o = "SUCCEEDED" => entry = "SUCCEEDED")
            OBVIOUS
        <3> HIDE DEF o
        <3> QED
            BY <1>16, <2>1, <3>1, <3>2, <3>3 DEF At
    <2> QED
        BY <2>2, <2>3
<1>18. ASSUME NEW o \in {"SUCCEEDED", "FAILED"}, Journalled(h, o),
              UNCHANGED <<cmd, sent>>,
              agent[h].pc \in {"run", "sent"}, o = "SUCCEEDED" => agent[h].pc = "sent"
       PROVE  IInv'
    <2>1. /\ agent'[h].pc = "report" /\ agent'[h].outcome = o
          /\ agent'[h].key = agent[h].key /\ Others
        BY <1>2, <1>18 DEF Journalled, Process
    <2>2. \A i \in Hosts, j \in Keys : journal'[i][j] = "SUCCEEDED" =>
              journal[i][j] = "SUCCEEDED" \/ (i = h /\ j = agent[h].key /\ o = "SUCCEEDED")
        BY <1>1, <1>18 DEF TypeOK, Journalled
    <2> QED
        BY <1>16, <1>18, <2>1, <2>2
<1>19. CASE terminalReturns(h)
    BY <1>18, <1>19 DEF terminalReturns, At
<1>20. CASE terminalRaises(h)
    BY <1>18, <1>20 DEF terminalRaises, At
<1>21. CASE terminalSends(h)
    <2> DEFINE k == agent[h].key
    <2>1. /\ agent[h].pc = "run" /\ k \in Keys /\ UNCHANGED <<cmd, journal>>
          /\ sent \in [Keys -> Nat] /\ sent' = [sent EXCEPT ![k] = sent[k] + 1]
        BY <1>21 DEF terminalSends, At, IInv, TypeOK, Holding
    <2>2. agent'[h].pc = "sent" /\ agent'[h].key = k /\ Others
        BY <1>1, <1>21, ProcessMoves DEF terminalSends, Steps
    <2>3. Holding'
        BY <2>1, <2>2 DEF IInv, Holding
    <2>4. ASSUME NEW j \in Mutations
          PROVE  Account(j)'
        <3>1. Account(j) /\ j \in Keys
            BY DEF IInv, Keys
        <3>2. \A i \in Hosts : InHand(i, j)' <=> InHand(i, j)
            BY <2>1, <2>2 DEF InHand
        <3>3. CASE j = k
            <4>1. InHand(h, j) /\ sent[j] = 0 /\ sent'[j] = 1
                BY <2>1, <3>1, <3>3 DEF InHand, Account
            <4>2. \A i \in Hosts : InHand(i, j) => i = h
                BY <3>1, <4>1 DEF Account
            <4> QED
                BY <2>1, <2>2, <3>1, <3>2, <3>3, <4>1, <4>2 DEF Account, InHand
        <3>4. CASE j # k
            <4>1. sent'[j] = sent[j]
                BY <2>1, <3>1, <3>4
            <4> QED
                BY <2>1, <2>2, <3>1, <3>2, <3>4, <4>1 DEF Account
        <3> QED
            BY <3>3, <3>4
    <2> QED
        BY <1>1, <2>3, <2>4 DEF IInv
<1>22. CASE recordResult(h)
    <2> DEFINE k == agent[h].key
    <2>1. /\ agent[h].pc = "record" /\ k \in Keys /\ UNCHANGED <<journal, sent>>
          /\ agent[h].outcome \in {"SUCCEEDED", "FAILED", "UNCERTAIN"}
        BY <1>22 DEF recordResult, At, IInv, Holding
    <2>2. agent'[h].pc \in Resting /\ Others
        BY <1>1, <1>22, ProcessMoves DEF recordResult, Resting
    <2>3. CASE ~Recordable(h)
        BY <1>1, <1>3, <1>4, <1>22, <2>1, <2>2, <2>3, ProcessMoves DEF recordResult, LetsGo
    <2>4. CASE Recordable(h)
        <3>1. /\ cmd[k].state \notin Untaken /\ cmd'[k].state = agent[h].outcome
              /\ \A j \in Keys \ {k} : cmd'[j] = cmd[j]
            BY <1>2, <1>22, <2>1, <2>4 DEF recordResult, Recordable, Untaken, CommandRow
        <3>2. Holding'
            BY <2>2 DEF IInv, Holding, Resting
        <3>3. ASSUME NEW j \in Mutations
              PROVE  Account(j)'
            <4>1. Account(j) /\ j \in Keys
                BY DEF IInv, Keys
            <4>2. \A i \in Hosts : InHand(i, j)' => InHand(i, j)
                BY <2>2 DEF InHand, Resting
            <4> QED
                BY <2>1, <2>2, <3>1, <4>1, <4>2 DEF Account, Untaken, Resting
        <3> QED
            BY <1>1, <3>2, <3>3 DEF IInv
    <2> QED
        BY <2>3, <2>4
<1> QED
    BY <1>7, <1>8, <1>9, <1>10, <1>11, <1>12, <1>13, <1>14, <1>15, <1>17, <1>19, <1>20,
       <1>21, <1>22 DEF ProcessStep

\* Every step keeps the invariant.
LEMMA IInvStep == IInv /\ [Next]_vars => IInv'
<1> SUFFICES ASSUME IInv, [Next]_vars
             PROVE  IInv'
    OBVIOUS
<1>1. CASE UNCHANGED vars
    <2>1. TypeOK'
        BY <1>1 DEF IInv, TypeOK, vars
    <2>2. Holding'
        BY <1>1 DEF IInv, Holding, vars
    <2>3. ASSUME NEW k \in Mutations
          PROVE  Account(k)'
        BY <1>1 DEF IInv, Account, InHand, vars
    <2> QED
        BY <2>1, <2>2, <2>3 DEF IInv
<1>2. CASE Next
    BY <1>2, CallerKeeps, OwnerKeeps, BindingKeeps, ProcessKeeps DEF Next
<1> QED
    BY <1>1, <1>2

\* Who holds a command, what its row says and what the journals say agree with
\* the terminal in every reachable state.
THEOREM IInvHolds == Spec => []IInv
BY InitIInv, IInvStep, PTL DEF Spec

\* No crash, lost answer, re-pairing, reclaim by another worker or late process
\* makes the terminal send a mutation twice, for any number of machines.
THEOREM NeverSentTwice == Spec => []SentAtMostOnce
<1>1. IInv => SentAtMostOnce
    BY DEF IInv, Account, SentAtMostOnce
<1> QED
    BY <1>1, IInvHolds, PTL

\* The command row agrees with the terminal: a success was sent, a cancelled or
\* queued mutation was not and is in nobody's hands.
THEOREM RowsStayTrue == Spec => []RowsAreTrue
<1>1. IInv => RowsAreTrue
    BY DEF IInv, Account, RowsAreTrue, Untaken
<1> QED
    BY <1>1, IInvHolds, PTL

-----------------------------------------------------------------------------
(* The route implements CommandChannel.                                     *)

phaseBar == [k \in Mutations |-> PhaseOf(k)]
sentBar == [k \in Mutations |-> sent[k]]
toldBar == [k \in Mutations |-> told[k]]

\* The initial state is an initial state of the channel.
LEMMA InitChannel == Init => Channel!Init
BY DEF Init, Channel!Init, PhaseOf, NoCommand, Mutations, Keys

\* A caller that was not a mutation's, or whose step leaves the row, the terminal
\* and the answer alone, is not seen by the channel.
LEMMA Unseen ==
    ASSUME \A k \in Mutations : PhaseOf(k)' = PhaseOf(k) /\ sent'[k] = sent[k] /\ told'[k] = told[k]
    PROVE  UNCHANGED Channel!vars
<1>1. phaseBar' = phaseBar
    BY DEF phaseBar
<1>2. sentBar' = sentBar
    BY DEF sentBar
<1>3. toldBar' = toldBar
    BY DEF toldBar
<1> QED
    BY <1>1, <1>2, <1>3 DEF Channel!vars, phaseBar, sentBar, toldBar

\* A caller's step is Accept, Answer or nothing.
LEMMA CallerRefines ==
    ASSUME IInv, NEW k \in Keys,
           CallerStep(k) \/ deadline(k) \/ commandLeaseExpires(k)
    PROVE  [Channel!Next]_(Channel!vars)
<1>1. /\ cmd \in [Keys -> CommandRow] /\ told \in [Keys -> AnswerOf]
      /\ \A j \in Mutations : j \in Keys
    BY DEF IInv, TypeOK, CommandRow, Keys
<1>2. UNCHANGED sent
    BY DEF CallerStep, getActiveConnectorForConnection, enqueue, pollResult, deadline,
           commandLeaseExpires
<1>3. sentBar' = sentBar
    BY <1>2 DEF sentBar
<1>4. ASSUME UNCHANGED told, \A j \in Keys : cmd'[j].state = cmd[j].state
      PROVE  UNCHANGED Channel!vars
    BY <1>1, <1>2, <1>4, Unseen DEF PhaseOf
\* The caller is answered.
<1>5. ASSUME NEW a, UNCHANGED cmd, End(k, a),
             k \in Mutations => a \in Channel!Warranted(k)
      PROVE  [Channel!Next]_(Channel!vars)
    <2>1. phaseBar' = phaseBar
        BY <1>5 DEF phaseBar, PhaseOf
    <2>2. CASE k \in Mutations
        <3>1. toldBar' = [toldBar EXCEPT ![k] = a]
            BY <1>1, <1>5, <2>2 DEF End, toldBar
        <3>2. Channel!Answer(k)
            BY <1>3, <1>5, <2>1, <2>2, <3>1 DEF Channel!Answer, phaseBar, sentBar, toldBar
        <3> QED
            BY <2>2, <3>2 DEF Channel!Next
    <2>3. CASE k \notin Mutations
        <3>1. toldBar' = toldBar
            BY <1>1, <1>5, <2>3 DEF End, toldBar
        <3> QED
            BY <1>3, <2>1, <3>1 DEF Channel!vars, phaseBar, sentBar, toldBar
    <2> QED
        BY <2>2, <2>3
<1>6. CASE getActiveConnectorForConnection(k)
    BY <1>4, <1>6 DEF getActiveConnectorForConnection
<1>7. CASE commandLeaseExpires(k)
    BY <1>1, <1>4, <1>7 DEF commandLeaseExpires, CommandRow
<1>8. CASE deadline(k)
    <2>1. k \in Mutations => "UNCERTAIN" \in Channel!Warranted(k)
        BY DEF Channel!Warranted
    <2> QED
        BY <1>5, <1>8, <2>1 DEF deadline
<1>9. CASE pollResult(k)
    <2>1. ASSUME k \in Mutations
          PROVE  cmd[k].state \in Channel!Warranted(k)
        <3>1. Account(k)
            BY <2>1 DEF IInv
        <3> QED
            BY <1>9, <2>1, <3>1 DEF pollResult, Account, Channel!Warranted, PhaseOf
    <2>2. End(k, cmd[k].state) /\ UNCHANGED cmd
        BY <1>9 DEF pollResult
    <2> QED
        BY <1>5, <2>1, <2>2
<1>10. CASE enqueue(k)
    <2>1. CASE UNCHANGED <<cmd, told>>
        BY <1>4, <2>1
    <2>2. CASE End(k, "REFUSED") /\ UNCHANGED cmd
        <3>1. k \in Mutations => "REFUSED" \in Channel!Warranted(k)
            BY DEF Channel!Warranted
        <3> QED
            BY <1>5, <2>2, <3>1
    <2>3. CASE /\ cmd[k].state = "NONE" /\ UNCHANGED told
               /\ cmd' = [cmd EXCEPT ![k] = [state |-> "PENDING", connector |-> req[k].id,
                                             expired |-> FALSE]]
        <3>1. toldBar' = toldBar
            BY <2>3 DEF toldBar
        <3>2. /\ cmd'[k].state = "PENDING"
              /\ \A j \in Keys \ {k} : cmd'[j] = cmd[j]
            BY <1>1, <2>3
        <3>3. CASE k \in Mutations
            <4>1. phaseBar[k] = "none" /\ phaseBar' = [phaseBar EXCEPT ![k] = "queued"]
                BY <1>1, <2>3, <3>2, <3>3 DEF phaseBar, PhaseOf
            <4>2. Channel!Accept(k)
                BY <1>3, <3>1, <4>1 DEF Channel!Accept, phaseBar, sentBar, toldBar
            <4> QED
                BY <3>3, <4>2 DEF Channel!Next
        <3>4. CASE k \notin Mutations
            <4>1. phaseBar' = phaseBar
                BY <1>1, <3>2, <3>4 DEF phaseBar, PhaseOf
            <4> QED
                BY <1>3, <3>1, <4>1 DEF Channel!vars, phaseBar, sentBar, toldBar
        <3> QED
            BY <3>3, <3>4
    <2> QED
        BY <1>10, <2>1, <2>2, <2>3 DEF enqueue
<1> QED
    BY <1>6, <1>7, <1>8, <1>9, <1>10 DEF CallerStep

\* A new binding withdraws what was queued.
LEMMA SupersedeRefines ==
    ASSUME IInv, SupersedeAll \/ SupersedeOfConnector \/ UNCHANGED cmd,
           UNCHANGED <<sent, told>>
    PROVE  [Channel!Next]_(Channel!vars)
<1>1. cmd \in [Keys -> CommandRow] /\ \A k \in Mutations : k \in Keys
    BY DEF IInv, TypeOK, CommandRow, Keys
<1> DEFINE C == {k \in Mutations : cmd[k].state = "PENDING" /\ cmd'[k].state = "CANCELLED"}
<1>2. ASSUME NEW k \in Mutations
      PROVE  /\ k \in C => PhaseOf(k) = "queued" /\ PhaseOf(k)' = "withdrawn"
             /\ k \notin C => PhaseOf(k)' = PhaseOf(k)
    <2>1. cmd'[k] = cmd[k] \/ cmd'[k] = Superseded(k)
        BY <1>1 DEF SupersedeAll, SupersedeOfConnector
    <2>2. \/ cmd'[k].state = cmd[k].state
          \/ cmd[k].state = "PENDING" /\ cmd'[k].state = "CANCELLED"
          \/ cmd[k].state = "LEASED" /\ cmd'[k].state = "UNCERTAIN"
        BY <1>1, <2>1 DEF Superseded, CommandRow
    <2> QED
        BY <2>2 DEF PhaseOf
<1>3. phaseBar' = [k \in Mutations |-> IF k \in C THEN "withdrawn" ELSE phaseBar[k]]
    BY <1>2 DEF phaseBar
<1>4. sentBar' = sentBar /\ toldBar' = toldBar
    BY DEF sentBar, toldBar
<1>5. C \in SUBSET Mutations /\ \A k \in C : phaseBar[k] = "queued"
    BY <1>2 DEF phaseBar
<1> HIDE DEF C
<1>6. Channel!Withdraw(C)
    BY <1>3, <1>4, <1>5 DEF Channel!Withdraw, phaseBar, sentBar, toldBar
<1> QED
    BY <1>5, <1>6 DEF Channel!Next

\* A process delivers a command when it leases it and sends it from the terminal.
LEMMA ProcessRefines ==
    ASSUME IInv, NEW h \in Hosts,
           ProcessStep(h) \/ identityChanged(h) \/ crash(h) \/ transientFailure(h)
    PROVE  [Channel!Next]_(Channel!vars)
<1>1. /\ cmd \in [Keys -> CommandRow] /\ sent \in [Keys -> Nat]
      /\ \A k \in Mutations : k \in Keys
    BY DEF IInv, TypeOK, CommandRow, Keys
<1>2. UNCHANGED told
    BY DEF ProcessStep, start, authenticateConnector, recordHeartbeat, expireLeases,
           leaseCandidate, nothingToLease, begin, terminalSends, terminalReturns,
           terminalRaises, recordResult, identityChanged, crash, transientFailure
<1>3. toldBar' = toldBar
    BY <1>2 DEF toldBar
<1>4. CASE expireLeases(h)
    <2>1. \A k \in Mutations : PhaseOf(k)' = PhaseOf(k)
        BY <1>1, <1>4 DEF expireLeases, Expired, PhaseOf, CommandRow
    <2> QED
        BY <1>2, <1>4, <2>1, Unseen DEF expireLeases
<1>5. ASSUME NEW k \in Keys, leaseCandidate(h, k)
      PROVE  [Channel!Next]_(Channel!vars)
    <2>1. /\ cmd[k].state = "PENDING" /\ cmd'[k].state = "LEASED" /\ UNCHANGED sent
          /\ \A j \in Keys \ {k} : cmd'[j] = cmd[j]
        BY <1>1, <1>5 DEF leaseCandidate, Leasable, CommandRow
    <2>2. sentBar' = sentBar
        BY <2>1 DEF sentBar
    <2>3. CASE k \in Mutations
        <3>1. phaseBar[k] = "queued" /\ phaseBar' = [phaseBar EXCEPT ![k] = "out"]
            BY <1>1, <2>1, <2>3 DEF phaseBar, PhaseOf
        <3>2. Channel!Deliver(k)
            BY <1>3, <2>2, <3>1 DEF Channel!Deliver, phaseBar, sentBar, toldBar
        <3> QED
            BY <2>3, <3>2 DEF Channel!Next
    <2>4. CASE k \notin Mutations
        <3>1. \A j \in Mutations : PhaseOf(j)' = PhaseOf(j)
            BY <1>1, <2>1, <2>4 DEF PhaseOf
        <3> QED
            BY <1>2, <2>1, <3>1, Unseen
    <2> QED
        BY <2>3, <2>4
<1>6. CASE terminalSends(h)
    <2>1. PICK k \in Keys : /\ k = agent[h].key /\ agent[h].pc = "run" /\ UNCHANGED cmd
                            /\ sent' = [sent EXCEPT ![k] = sent[k] + 1]
        BY <1>6 DEF terminalSends, At, IInv, Holding
    <2>2. \A j \in Mutations : PhaseOf(j)' = PhaseOf(j)
        BY <2>1 DEF PhaseOf
    <2>3. phaseBar' = phaseBar
        BY <2>2 DEF phaseBar
    <2>4. CASE k \in Mutations
        <3>1. Account(k) /\ InHand(h, k)
            BY <2>1, <2>4 DEF IInv, InHand
        <3>2. sent[k] = 0 /\ cmd[k].state \notin Untaken
            BY <2>1, <3>1 DEF Account
        <3>3. phaseBar[k] = "out"
            BY <2>4, <3>2 DEF phaseBar, PhaseOf, Untaken
        <3>4. sentBar[k] = 0 /\ sentBar' = [sentBar EXCEPT ![k] = 1]
            BY <1>1, <2>1, <2>4, <3>2 DEF sentBar
        <3>5. Channel!Send(k)
            BY <1>3, <2>3, <3>3, <3>4 DEF Channel!Send, phaseBar, sentBar, toldBar
        <3> QED
            BY <2>4, <3>5 DEF Channel!Next
    <2>5. CASE k \notin Mutations
        BY <1>1, <1>2, <2>1, <2>2, <2>5, Unseen
    <2> QED
        BY <2>4, <2>5
<1>7. CASE recordResult(h)
    <2>1. /\ agent[h].key \in Keys /\ UNCHANGED sent
          /\ agent[h].outcome \in {"SUCCEEDED", "FAILED", "UNCERTAIN"}
        BY <1>7 DEF recordResult, At, IInv, Holding
    <2>2. \A k \in Mutations : PhaseOf(k)' = PhaseOf(k)
        <3>1. CASE UNCHANGED cmd
            BY <3>1 DEF PhaseOf
        <3>2. CASE Recordable(h)
            <4>1. /\ cmd[agent[h].key].state \in {"LEASED", "UNCERTAIN"}
                  /\ cmd'[agent[h].key].state = agent[h].outcome
                  /\ \A j \in Keys \ {agent[h].key} : cmd'[j] = cmd[j]
                BY <1>1, <1>7, <2>1, <3>2 DEF recordResult, Recordable, CommandRow
            <4> QED
                BY <1>1, <2>1, <4>1 DEF PhaseOf
        <3> QED
            BY <1>7, <3>1, <3>2 DEF recordResult
    <2> QED
        BY <1>2, <2>1, <2>2, Unseen
<1>8. CASE UNCHANGED <<cmd, sent>>
    BY <1>2, <1>8, Unseen DEF PhaseOf
<1> QED
    BY <1>4, <1>5, <1>6, <1>7, <1>8
    DEF ProcessStep, start, authenticateConnector, recordHeartbeat, nothingToLease, begin,
        terminalReturns, terminalRaises, identityChanged, crash, transientFailure

\* Whatever the machines, the owner and the network do, a caller sees a channel
\* that takes a mutation off the queue once, sends it at most once and gives
\* only true definite answers.
THEOREM RouteImplementsChannel == Spec => ImplementsChannel
<1>1. IInv /\ [Next]_vars => [Channel!Next]_(Channel!vars)
    <2> SUFFICES ASSUME IInv, [Next]_vars
                 PROVE  [Channel!Next]_(Channel!vars)
        OBVIOUS
    <2>1. CASE UNCHANGED vars
        BY <2>1, Unseen DEF vars, PhaseOf
    <2>2. CASE OwnerStep \/ heartbeatStales \/ workerLeaseExpires
        BY <2>2, SupersedeRefines DEF OwnerStep, createPairing, provision, revokeConnector,
           connect, heartbeatStales, workerLeaseExpires
    <2>3. ASSUME NEW h \in Hosts, redeemPairing(h) \/ leaseAssignment(h)
          PROVE  [Channel!Next]_(Channel!vars)
        BY <2>3, SupersedeRefines DEF redeemPairing, leaseAssignment
    <2>4. CASE Next
        BY <2>2, <2>3, <2>4, CallerRefines, ProcessRefines DEF Next
    <2> QED
        BY <2>1, <2>4
<1> QED
    BY <1>1, InitChannel, IInvHolds, PTL DEF Spec, ImplementsChannel, Channel!Spec

-----------------------------------------------------------------------------
(* What the channel promises, and so what the route keeps.                  *)

\* Channel!Honest is not inductive: that a cancelled mutation stays unsent rests
\* on its being withdrawn for good.
ChannelSettled ==
    /\ phaseBar \in [Mutations -> Channel!Phases]
    /\ sentBar \in [Mutations -> {0, 1}]
    /\ toldBar \in [Mutations -> Channel!Answers]
    /\ \A k \in Mutations :
           /\ phaseBar[k] # "out" => sentBar[k] = 0
           /\ toldBar[k] = "SUCCEEDED" => sentBar[k] = 1
           /\ toldBar[k] = "CANCELLED" => phaseBar[k] = "withdrawn"

\* A channel nobody used is settled.
LEMMA ChannelInitSettled == Channel!Init => ChannelSettled
BY DEF Channel!Init, ChannelSettled, Channel!Phases, Channel!Answers, phaseBar, sentBar, toldBar

\* Every action of the channel keeps it settled.
LEMMA ChannelStepSettled ==
    ChannelSettled /\ [Channel!Next]_(Channel!vars) => ChannelSettled'
<1> SUFFICES ASSUME ChannelSettled, [Channel!Next]_(Channel!vars)
             PROVE  ChannelSettled'
    OBVIOUS
<1>1. CASE UNCHANGED Channel!vars
    <2>1. UNCHANGED <<phaseBar, sentBar, toldBar>>
        BY <1>1 DEF Channel!vars, phaseBar, sentBar, toldBar
    <2> QED BY <2>1 DEF ChannelSettled
<1>2. ASSUME NEW k \in Mutations, Channel!Accept(k)
      PROVE  ChannelSettled'
    <2>1. /\ phaseBar[k] = "none" /\ phaseBar' = [phaseBar EXCEPT ![k] = "queued"]
          /\ UNCHANGED <<sentBar, toldBar>>
        BY <1>2 DEF Channel!Accept, phaseBar, sentBar, toldBar
    <2> QED BY <2>1 DEF ChannelSettled, Channel!Phases
<1>3. ASSUME NEW k \in Mutations, Channel!Deliver(k)
      PROVE  ChannelSettled'
    <2>1. /\ phaseBar[k] = "queued" /\ phaseBar' = [phaseBar EXCEPT ![k] = "out"]
          /\ UNCHANGED <<sentBar, toldBar>>
        BY <1>3 DEF Channel!Deliver, phaseBar, sentBar, toldBar
    <2> QED BY <2>1 DEF ChannelSettled, Channel!Phases
<1>4. ASSUME NEW k \in Mutations, Channel!Send(k)
      PROVE  ChannelSettled'
    <2>1. /\ phaseBar[k] = "out" /\ sentBar' = [sentBar EXCEPT ![k] = 1]
          /\ UNCHANGED <<phaseBar, toldBar>>
        BY <1>4 DEF Channel!Send, phaseBar, sentBar, toldBar
    <2> QED BY <2>1 DEF ChannelSettled
<1>5. ASSUME NEW k \in Mutations, Channel!Answer(k)
      PROVE  ChannelSettled'
    <2>1. PICK a \in Channel!Warranted(k) : toldBar' = [toldBar EXCEPT ![k] = a]
        BY <1>5 DEF Channel!Answer, toldBar
    <2>2. UNCHANGED <<phaseBar, sentBar>>
        BY <1>5 DEF Channel!Answer, phaseBar, sentBar
    <2>3. a \in Channel!Answers /\ (a = "SUCCEEDED" => sentBar[k] = 1)
                                /\ (a = "CANCELLED" => phaseBar[k] = "withdrawn")
        BY DEF Channel!Warranted, Channel!Answers, phaseBar, sentBar
    <2> QED BY <2>1, <2>2, <2>3 DEF ChannelSettled
<1>6. ASSUME NEW C \in SUBSET Mutations, Channel!Withdraw(C)
      PROVE  ChannelSettled'
    <2>1. /\ \A k \in C : phaseBar[k] = "queued"
          /\ phaseBar' = [k \in Mutations |-> IF k \in C THEN "withdrawn" ELSE phaseBar[k]]
          /\ UNCHANGED <<sentBar, toldBar>>
        BY <1>6 DEF Channel!Withdraw, phaseBar, sentBar, toldBar
    <2> QED BY <2>1 DEF ChannelSettled, Channel!Phases
<1> QED
    BY <1>1, <1>2, <1>3, <1>4, <1>5, <1>6 DEF Channel!Next

\* The promise of the channel: a mutation reported successful was sent exactly
\* once, and one reported cancelled was not and never will be.
THEOREM ChannelIsHonest == Channel!Spec => []Channel!Honest
<1>1. ChannelSettled => Channel!Honest
    BY DEF ChannelSettled, Channel!Honest, phaseBar, sentBar, toldBar
<1> QED
    BY <1>1, ChannelInitSettled, ChannelStepSettled, PTL DEF Channel!Spec

\* Hence the callers of the direct MT5 route may believe its definite answers,
\* through every crash, re-pairing, lost answer and restart without journal.
THEOREM RouteIsHonest == Spec => []Channel!Honest
<1> QED
    BY RouteImplementsChannel, ChannelIsHonest, PTL DEF ImplementsChannel
=============================================================================
