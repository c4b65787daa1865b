---------------------------- MODULE MCIdsService ----------------------------
(* A small instance of IdsService: a web worker and the watchdog's worker.  *)
EXTENDS IdsService
=============================================================================
