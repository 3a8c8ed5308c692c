---------------------------- MODULE MCGatewayRpc ----------------------------
(***************************************************************************)
(* Small instances of GatewayRpc for TLC.                                  *)
(***************************************************************************)
EXTENDS GatewayRpc, TLC

CONSTANTS a, b, d, e, s1, s2, s3

\* The calls the executor accepts are interchangeable, and the sockets are.
Alike == Permutations({a, b, d}) \cup Permutations({s1, s2, s3})
=============================================================================
