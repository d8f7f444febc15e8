---------------------------- MODULE MCRoundRobin ----------------------------
(* Three targets; two of them are the same URL, once local and once remote. *)
EXTENDS RoundRobin, TLC

MCTargets ==
  {[http_url |-> "/u", is_remote |-> TRUE], [http_url |-> "/u", is_remote |-> FALSE],
   [http_url |-> "/v", is_remote |-> TRUE]}

ThreadSymmetry == Permutations(Threads)
=============================================================================
