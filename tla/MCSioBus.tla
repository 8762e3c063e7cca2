------------------------------ MODULE MCSioBus ------------------------------
(***************************************************************************)
(* Model checking SioBus: three commands, so that one is abandoned or cut  *)
(* off, the next overtakes it and a third meets the device at rest; credit *)
(* for two datagrams, so that every answer of several has to wait for more.*)
(***************************************************************************)
EXTENDS SioBus, TLC
=============================================================================
