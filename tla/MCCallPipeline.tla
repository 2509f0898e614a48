--------------------------- MODULE MCCallPipeline ---------------------------
(* Instances of CallPipeline for TLC.                                      *)
EXTENDS CallPipeline, FiniteSetsExt, TLC

CONSTANTS
  MaxRequest, MaxStageError, MaxCrash, MaxDuplicate, MaxDatabase, MaxBroker,
  MaxTimeLimit, MaxMishaps

MCLimit ==
  [e \in Event |->
     CASE e = "request" -> MaxRequest
       [] e = "stage_error" -> MaxStageError
       [] e = "crash" -> MaxCrash
       [] e = "duplicate" -> MaxDuplicate
       [] e = "database" -> MaxDatabase
       [] e = "broker" -> MaxBroker
       [] e = "time_limit" -> MaxTimeLimit]

(* Of the mishaps that may happen, no more than MaxMishaps in one run.      *)
FewMishaps ==
  FoldSet(LAMBDA e, total : total + spent[e], 0, Event \ {"request"}) <= MaxMishaps

WorkersAreAlike == Permutations(Workers)
=============================================================================
