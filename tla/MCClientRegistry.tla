---------------------------- MODULE MCClientRegistry ----------------------------
(* Instance of ClientRegistry for model checking.                             *)
EXTENDS ClientRegistry

CONSTANTS t1, t2, t3, none

MCThreads3 == {t1, t2, t3}
MCVersions == {1, 2}
================================================================================
