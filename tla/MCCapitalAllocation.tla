------------------------ MODULE MCCapitalAllocation ------------------------
(* Small instances of CapitalAllocation for TLC.                            *)
EXTENDS CapitalAllocation

\* Two decisions of one strategy on different instruments.
MCInstrument == [i \in Intents |-> i]
MCStrategy == [i \in Intents |-> "s"]
=============================================================================
