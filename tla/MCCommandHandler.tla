-------------------------- MODULE MCCommandHandler --------------------------
(***************************************************************************)
(* Values for model checking CommandHandler.  Commands treat all clients   *)
(* alike, and all workers.                                                 *)
(***************************************************************************)
EXTENDS CommandHandler, TLC

ClientsAndWorkers == Permutations(Clients) \cup Permutations(Workers)
=============================================================================
