------------------------------ MODULE MCIOPoll ------------------------------
(* The instance of iopoll.cfg: two descriptors and three awaiters, so that *)
(* both queues of a watcher are in use, one queue holds two awaiters, and  *)
(* one epoll_wait reports two descriptors.                                 *)
EXTENDS IOPoll
=============================================================================
