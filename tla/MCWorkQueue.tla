----------------------------- MODULE MCWorkQueue -----------------------------
(* An instance of WorkQueue for TLC: the jobs and workers are model values in *)
(* the cfg.                                                                    *)
EXTENDS WorkQueue
=============================================================================
