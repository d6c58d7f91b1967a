---------------------------- MODULE MCThreadPool ----------------------------
(* Model of ThreadPool: a worker that runs, one that sleeps and one on its *)
(* way to sleep; two outside submitters besides the tasks that submit.     *)
EXTENDS ThreadPool
=============================================================================
