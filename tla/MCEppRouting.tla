---------------------------- MODULE MCEppRouting ----------------------------
(* A small router and two requests for TLC.                                *)
EXTENDS EppRouting

AnySetup == [watched : BOOLEAN, envoy : BOOLEAN]
=============================================================================
