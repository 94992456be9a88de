-------------------------- MODULE MCRouteExecution --------------------------
(***************************************************************************)
(* Two orders of one shop with a barcoded parcel each and different        *)
(* weights; at most one redelivery or live insertion beyond the accepted   *)
(* plan.                                                                   *)
(***************************************************************************)
EXTENDS RouteExecution, TLC

CONSTANTS o1, o2

MCOrders == {o1, o2}
MCShop == [o \in MCOrders |-> "shop"]
MCParcels == (o1 :> 1) @@ (o2 :> 1)
MCWeight == (o1 :> 1) @@ (o2 :> 2)
=============================================================================
