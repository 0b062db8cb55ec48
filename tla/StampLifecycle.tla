--------------------------- MODULE StampLifecycle ---------------------------
(***************************************************************************)
(* What the life of a stamp promises the importer and the inspector: it     *)
(* goes live once, is consumed by one first scan whose owner never changes, *)
(* falls under suspicion only after that scan, and a void is for ever.      *)
(***************************************************************************)
CONSTANTS Stamps, Devices, Nobody

VARIABLES status, owner

GoLive(S) ==
  /\ \A s \in S : status[s] = "ISSUED"
  /\ status' = [s \in Stamps |-> IF s \in S THEN "ACTIVE" ELSE status[s]]
  /\ UNCHANGED owner

FirstScan(s, d) ==
  /\ status[s] = "ACTIVE" /\ owner[s] = Nobody
  /\ status' = [status EXCEPT ![s] = "CONSUMED"]
  /\ owner' = [owner EXCEPT ![s] = d]

Suspect(s) ==
  /\ status[s] = "CONSUMED"
  /\ status' = [status EXCEPT ![s] = "SUSPECT"]
  /\ UNCHANGED owner

Void(s) ==
  /\ status[s] # "VOID"
  /\ status' = [status EXCEPT ![s] = "VOID"]
  /\ UNCHANGED owner

Init ==
  /\ status = [s \in Stamps |-> "ISSUED"]
  /\ owner = [s \in Stamps |-> Nobody]

Next ==
  \/ \E S \in SUBSET Stamps : GoLive(S)
  \/ \E s \in Stamps : Suspect(s) \/ Void(s) \/ \E d \in Devices : FirstScan(s, d)

Spec == Init /\ [][Next]_<<status, owner>>
=============================================================================
