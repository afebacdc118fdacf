-------------------------- MODULE MCAsyncScheduler --------------------------
(* The instance of async_sched.cfg.                                        *)
EXTENDS AsyncScheduler

(* Negative numbers can not be written in a .cfg file.                     *)
MCDurations == {-1}
=============================================================================
