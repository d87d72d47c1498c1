------------------------------ MODULE MCAcmDaemon ------------------------------
(* Two connection manager processes with one configuration of two clusters.   *)
EXTENDS AcmDaemon
================================================================================
