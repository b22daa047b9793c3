----------------------------- MODULE UsageLedger -----------------------------
(***************************************************************************)
(* What the numbers of A-Mate promise: a message of a conversation that     *)
(* stands in some transcript is counted once and in the end is counted,    *)
(* however often transcripts repeat it or are read.  A new version of the  *)
(* program may start over.                                                 *)
(***************************************************************************)
EXTENDS Naturals, FiniteSets

CONSTANT Messages

VARIABLES
  said,     \* messages that stand in a transcript
  counted,  \* messages that are counted
  tally     \* the count

ledger == <<said, counted, tally>>

LedgerInit == said = {} /\ counted = {} /\ tally = 0

Say == \E m \in Messages \ said : said' = said \cup {m} /\ UNCHANGED <<counted, tally>>

Count ==
  \E S \in (SUBSET (said \ counted)) \ {{}} :
    /\ counted' = counted \cup S
    /\ tally' = tally + Cardinality(S)
    /\ said' = said

StartOver == counted' = {} /\ tally' = 0 /\ said' = said

LedgerNext == Say \/ Count \/ StartOver

LedgerSpec == LedgerInit /\ [][LedgerNext]_ledger /\ WF_ledger(Count)
=============================================================================
