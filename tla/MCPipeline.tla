----------------------------- MODULE MCPipeline -----------------------------
(* Two runs of at most two processes.                                      *)
EXTENDS Pipeline

AllScripts == {ByHand, Baseexec}
HandOnly   == {ByHand}
=============================================================================
