----------------------------- MODULE MCPipeline -----------------------------
(* Pipeline for TLC.  What a request may cause: a rejection; an order that *)
(* is accepted and rests; one that trades once.                            *)
EXTENDS Pipeline

MCOutputs ==
  {<<"response">>,
   <<"response", "update">>,
   <<"response", "response", "response", "update">>}
=============================================================================
