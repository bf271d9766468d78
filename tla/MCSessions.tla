------------------------------ MODULE MCSessions ------------------------------
(* Small instances of the session protocol for TLC.                        *)
EXTENDS SessionClaims
=============================================================================
