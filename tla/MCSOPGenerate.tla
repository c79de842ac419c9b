--------------------------- MODULE MCSOPGenerate ---------------------------
(* Small instances of SOPGenerate for TLC.                                 *)
EXTENDS SOPGenerate

=============================================================================
