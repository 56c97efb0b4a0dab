--------------------------- MODULE MCAggregation ---------------------------
(***************************************************************************)
(* Small instances of Aggregation: deposits a1, a2 and a3 for one target   *)
(* and b for another.                                                      *)
(***************************************************************************)
EXTENDS Aggregation, TLC

CONSTANTS a1, a2, a3, b, shop, bar

MCTargetOf == [d \in Deposits |-> IF d = b THEN bar ELSE shop]
MCAmount == [d \in Deposits |-> (a1 :> 4 @@ a2 :> 3 @@ a3 :> 2 @@ b :> 4)[d]]
MCDepositFee == [d \in Deposits |-> 1]
MCWireDeadline == [d \in Deposits |-> (a1 :> 1 @@ a2 :> 2 @@ a3 :> 1 @@ b :> 1)[d]]
MCRefundDeadline == [d \in Deposits |-> 0]
=============================================================================
