---------------------------- MODULE MCParkingLot ----------------------------
(* A condition variable's address k1 and those of two mutexes it is used   *)
(* with: k2 shares its bucket of the parking lot, k3 has another.          *)
EXTENDS ParkingLot

CONSTANTS t1, t2, t3, k1, k2, k3, b1, b2

ThreeKeys == (k1 :> b1) @@ (k2 :> b1) @@ (k3 :> b2)
OneWay == {<<k1, k2>>, <<k1, k3>>}

\* An address in each bucket, for the race of a timeout with an unpark.
TwoBuckets == (k1 :> b1) @@ (k3 :> b2)
=============================================================================
