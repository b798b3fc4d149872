--------------------------- MODULE MCRetryQueue ---------------------------
(* The calls of enqueueRetries are interchangeable.                        *)
EXTENDS RetryQueue, TLC

MCCallSymmetry == Permutations(Calls)
====
