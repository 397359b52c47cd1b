-------------------------- MODULE MCOrderLifecycle --------------------------
(***************************************************************************)
(* Instances of OrderLifecycle for TLC.                                    *)
(***************************************************************************)
EXTENDS OrderLifecycle

NoPairs == {}
AllAlike == Orders \X Orders

\* For what is said of states and of steps, never for liveness: ids and the processes of a service are interchangeable.
Symmetry ==
  Permutations(Ids) \cup Permutations(ExpiredWorkers) \cup Permutations(FailedWorkers)
=============================================================================
