----------------------------- MODULE MCAllocation -----------------------------
(* Two sales to one customer, the first with its delivery open too; a receipt *)
(* and a transfer too small for both sales, and a delivery in the currency.   *)
EXTENDS Allocation, TLC

CONSTANTS w1, w2, sale1, sale2, receipt, transfer, remittance, aliRial, aliDirham, saraRial

MCObligations ==
  {[deal |-> sale1, account |-> aliRial, owed |-> 2],
   [deal |-> sale1, account |-> aliDirham, owed |-> -1],
   [deal |-> sale2, account |-> aliRial, owed |-> 2]}

MCEffect ==
  [p \in Payments |->
     [c \in Accounts |->
        CASE p = receipt /\ c = aliRial      -> -3
          [] p = transfer /\ c = aliRial     -> -1
          [] p = transfer /\ c = saraRial    -> 1
          [] p = remittance /\ c = aliDirham -> 1
          [] OTHER                           -> 0]]

WorkerSymmetry == Permutations(Workers)
=============================================================================
