---------------------------- MODULE MCIngestion ----------------------------
(***************************************************************************)
(* The instances of Ingestion that TLC checks.                             *)
(***************************************************************************)
EXTENDS Ingestion

CONSTANTS empty, short, long

\* A page without text that is worth a chunk, with one chunk, and with three.
MCChunkCount == [v \in Contents |-> CASE v = empty -> 0 [] v = short -> 1 [] OTHER -> 3]
=============================================================================
