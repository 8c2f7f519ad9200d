----------------------------- MODULE MCCollector ----------------------------
(* A collector with two groups: one reads holding registers, the other      *)
(* holding and input registers, so that answers of both can be confused.    *)
EXTENDS Collector

MCReads == <<<<3>>, <<3, 4>>>>
=============================================================================
