---------------------------- MODULE MCPRTContext ----------------------------
(* Small instances of PRTContext for TLC.                                  *)
EXTENDS PRTContext

=============================================================================
