-------------------------- MODULE MCFeatureAgents --------------------------
(***************************************************************************)
(* A small instance of FeatureAgents for TLC.                              *)
(***************************************************************************)
EXTENDS FeatureAgents

CONSTANTS a, b, c

Ranked == <<a, b>>
Tenants == {<<4>>, <<15>>, <<100>>, <<3, 4>>, <<-4, -1>>}
=============================================================================
