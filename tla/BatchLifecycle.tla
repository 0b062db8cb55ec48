--------------------------- MODULE BatchLifecycle ---------------------------
(***************************************************************************)
(* What a stamp batch promises when its requests do not overlap: statuses   *)
(* move forward only, stamps are minted up to the paid quantity and no      *)
(* further, a lot is sealed when it is complete, it goes live as a whole    *)
(* and only after a passed inspection, and a failed lot never goes live     *)
(* afterwards.                                                              *)
(***************************************************************************)
EXTENDS Naturals

CONSTANTS Batches, Quantity

VARIABLES status, minted, inspected, live

Create(b) ==
  /\ status[b] = "ABSENT"
  /\ status' = [status EXCEPT ![b] = "PENDING"]
  /\ UNCHANGED <<minted, inspected, live>>

Mint(b, n) ==
  /\ status[b] \in {"PENDING", "ISSUING"}
  /\ minted[b] + n <= Quantity[b]
  /\ minted' = [minted EXCEPT ![b] = @ + n]
  /\ status' = [status EXCEPT ![b] = IF minted'[b] = Quantity[b] THEN "ISSUED" ELSE "ISSUING"]
  /\ UNCHANGED <<inspected, live>>

Seal(b) ==
  /\ status[b] = "ISSUED"
  /\ status' = [status EXCEPT ![b] = "READY"]
  /\ UNCHANGED <<minted, inspected, live>>

Pass(b) ==
  /\ status[b] \in {"READY", "ACTIVE"}
  /\ inspected' = [inspected EXCEPT ![b] = @ \cup {"PASS"}]
  /\ UNCHANGED <<status, minted, live>>

Fail(b) ==
  /\ status[b] \in {"READY", "ACTIVE"}
  /\ inspected' = [inspected EXCEPT ![b] = @ \cup {"FAIL"}]
  /\ status' = [status EXCEPT ![b] = "INSPECTION_FAILED"]
  /\ UNCHANGED <<minted, live>>

GoLive(b) ==
  /\ status[b] = "READY" /\ inspected[b] = {"PASS"}
  /\ status' = [status EXCEPT ![b] = "ACTIVE"]
  /\ live' = [live EXCEPT ![b] = minted[b]]
  /\ UNCHANGED <<minted, inspected>>

Init ==
  /\ status = [b \in Batches |-> "ABSENT"]
  /\ minted = [b \in Batches |-> 0]
  /\ inspected = [b \in Batches |-> {}]
  /\ live = [b \in Batches |-> 0]

Next ==
  \E b \in Batches :
    \/ Create(b) \/ Seal(b) \/ Pass(b) \/ Fail(b) \/ GoLive(b)
    \/ \E n \in 1..Quantity[b] : Mint(b, n)

Spec == Init /\ [][Next]_<<status, minted, inspected, live>>
=============================================================================
