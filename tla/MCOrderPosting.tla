--------------------------- MODULE MCOrderPosting ---------------------------
(***************************************************************************)
(* Two new orders that are posted alone or together, an older order and    *)
(* three positions.  The first order is signed as configured and asks for  *)
(* an expiration; the second, of another exchange, is for a contract       *)
(* wallet.  The client is configured for its safe or its contract wallet,  *)
(* or as DefaultConfig leaves it.                                          *)
(***************************************************************************)
EXTENDS OrderPosting

CONSTANTS o1, o2, o3, p1, p2, p3

MCStanding == [a \in Apis |-> IF a = "orders" THEN <<o3>> ELSE <<p1, p2, p3>>]
MCConfigs ==
  {[signatureType |-> "POLY_GNOSIS_SAFE", funder |-> "safe", hasCLOBAuth |-> TRUE],
   [signatureType |-> "POLY_1271", funder |-> "contract", hasCLOBAuth |-> TRUE],
   [signatureType |-> "POLY_GNOSIS_SAFE", funder |-> NoFunder, hasCLOBAuth |-> FALSE]}
MCSalt == [o \in Orders |-> IF o = o2 THEN 7 ELSE 0]
MCOptions ==
  [o \in Orders |->
     IF o = o2 THEN [signatureType |-> "POLY_1271", expiration |-> 0, negRisk |-> TRUE]
     ELSE [signatureType |-> NoType, expiration |-> IF o = o1 THEN 1 ELSE 0, negRisk |-> FALSE]]
MCBatches == {<<o1>>, <<o1, o2>>}
=============================================================================
