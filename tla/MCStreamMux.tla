------------------------------- MODULE MCStreamMux -------------------------------
(* Instances of StreamMux for model checking.                                  *)
EXTENDS StreamMux

CONSTANTS s1, s2, s3

MCThree == {s1, s2, s3}
================================================================================
