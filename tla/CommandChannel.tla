---------------------------- MODULE CommandChannel ----------------------------
(***************************************************************************)
(* What the direct MT5 transport promises about a mutating command, and    *)
(* nothing about how: a command is taken off the queue once, it reaches    *)
(* the trading account at most once, and a definite answer is true.        *)
(* "Uncertain" and "refused" are the answers that promise nothing.         *)
(***************************************************************************)
EXTENDS Naturals

CONSTANT Commands

VARIABLES
    phase,    \* phase[c]: "none", "queued", "out" for delivery, or "withdrawn"
    sent,     \* sent[c]: how often c reached the trading account
    answer    \* answer[c]: what the caller was last told

vars == <<phase, sent, answer>>

Phases == {"none", "queued", "out", "withdrawn"}

Answers == {"NONE", "SUCCEEDED", "FAILED", "CANCELLED", "UNCERTAIN", "REFUSED"}

Init ==
    /\ phase = [c \in Commands |-> "none"]
    /\ sent = [c \in Commands |-> 0]
    /\ answer = [c \in Commands |-> "NONE"]

Accept(c) ==
    /\ phase[c] = "none"
    /\ phase' = [phase EXCEPT ![c] = "queued"]
    /\ UNCHANGED <<sent, answer>>

\* A new binding withdraws whatever nobody has taken yet.
Withdraw(C) ==
    /\ \A c \in C : phase[c] = "queued"
    /\ phase' = [c \in Commands |-> IF c \in C THEN "withdrawn" ELSE phase[c]]
    /\ UNCHANGED <<sent, answer>>

Deliver(c) ==
    /\ phase[c] = "queued"
    /\ phase' = [phase EXCEPT ![c] = "out"]
    /\ UNCHANGED <<sent, answer>>

Send(c) ==
    /\ phase[c] = "out"
    /\ sent[c] = 0
    /\ sent' = [sent EXCEPT ![c] = 1]
    /\ UNCHANGED <<phase, answer>>

\* The answers that are true of c now, and stay true.
Warranted(c) ==
    {"UNCERTAIN", "REFUSED"}
        \cup (IF sent[c] = 1 THEN {"SUCCEEDED"} ELSE {})
        \cup (IF phase[c] = "out" THEN {"FAILED"} ELSE {})
        \cup (IF phase[c] = "withdrawn" THEN {"CANCELLED"} ELSE {})

Answer(c) ==
    /\ \E a \in Warranted(c) : answer' = [answer EXCEPT ![c] = a]
    /\ UNCHANGED <<phase, sent>>

Next ==
    \/ \E c \in Commands : Accept(c) \/ Deliver(c) \/ Send(c) \/ Answer(c)
    \/ \E C \in SUBSET Commands : Withdraw(C)

Spec == Init /\ [][Next]_vars

-----------------------------------------------------------------------------
\* A command told to have succeeded has reached the account, and exactly once;
\* one told to be cancelled has not.
Honest ==
    \A c \in Commands :
        /\ sent[c] \in {0, 1}
        /\ answer[c] = "SUCCEEDED" => sent[c] = 1
        /\ answer[c] = "CANCELLED" => sent[c] = 0
=============================================================================
