-------------------------- MODULE MCSparkRestClient --------------------------
(* Model of SparkRestClient: its default times in seconds.                 *)
EXTENDS SparkRestClient
=============================================================================
