---------------------------- MODULE MCProjectImport ----------------------------
(* Instance of ProjectImport: three worker replicas. *)
EXTENDS ProjectImport, TLC

CONSTANTS w1, w2, w3
===============================================================================
