---------------------------- MODULE SerialLedger ----------------------------
(***************************************************************************)
(* What serial issuance promises, whoever issues and whatever crashes: one  *)
(* atomic step mints a whole block of serials and status-list indexes, each *)
(* the next unused one, and nothing that was minted ever changes or goes.   *)
(***************************************************************************)
EXTENDS Naturals, FiniteSets

CONSTANTS Counters, MaxBlock, Capacity

VARIABLE ledger   \* the minted entries: counter, sequence and list index

Next_Free(c) == Cardinality({e \in ledger : e.counter = c})

\* Mint n stamps at once: sequences continue the counter, indexes the list.
Mint(c, n) ==
  /\ Cardinality(ledger) + n <= Capacity
  /\ ledger' = ledger \cup
       {[counter |-> c, sequence |-> Next_Free(c) + i, index |-> Cardinality(ledger) + i] :
          i \in 0..(n - 1)}

Init == ledger = {}
Next == \E c \in Counters, n \in 1..MaxBlock : Mint(c, n)
Spec == Init /\ [][Next]_ledger
=============================================================================
