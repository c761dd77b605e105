------------------------------ MODULE MCEngine ------------------------------
(* The engine over the map book for TLC, and with it all that listens to   *)
(* it: the clients' ledger, the snapshot's shadow book and a subscriber.   *)
(* The engine takes client and ticker of a request from the id it names,   *)
(* and compares them with nothing, so one of each will do.  No symmetry,   *)
(* so that liveness can be checked.                                        *)
EXTENDS ClientLedger, PublicFeed, MapBookRefinement

EngineInit == LedgerInit /\ FeedInit

EngineNext == LedgerNext /\ Published

EngineSpec ==
  /\ EngineInit
  /\ [][EngineNext]_<<ledgerVars, feedVars>>
  /\ WF_vars(Handler)
=============================================================================
