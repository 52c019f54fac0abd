------------------------- MODULE MCConcurrentChecks -------------------------
(* Small instances of ConcurrentChecks.                                    *)
EXTENDS ConcurrentChecks

CONSTANTS worker, api
WorkerAndApi == {worker, api}
=============================================================================
