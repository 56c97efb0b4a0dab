---------------------------- MODULE MCReserves ----------------------------
(***************************************************************************)
(* Small instances of ReserveStatus: reserves x and y, and a coin of value *)
(* 1 that costs 2 and can be withdrawn from x.                             *)
(***************************************************************************)
EXTENDS ReserveStatus

CONSTANTS x, y, coin

To(r, a) == [reserve |-> r, amt |-> a]

\* Two accounts whose transfers with the same number are for different
\* reserves.
IncomingBoth == <<<<To(x, 2), To(y, 1)>>, <<To(y, 4)>>>>

\* One account, three transfers, two of them for the same reserve.
IncomingOne == <<<<To(x, 2), To(y, 1), To(x, 3)>>>>

\* Two accounts whose first transfers are for the same reserve.
IncomingSame == <<<<To(x, 2)>>, <<To(x, 3)>>>>

MCCoinReserve == [c \in Coins |-> x]
MCCost == [c \in Coins |-> 2]
MCCoinValue == [c \in Coins |-> 1]
=============================================================================
