-------------------------------- MODULE MCPolicies -------------------------------
(* Every class, with any two setter calls around a command or call.            *)
EXTENDS Policies

AllClasses == DOMAIN Accessors
================================================================================
