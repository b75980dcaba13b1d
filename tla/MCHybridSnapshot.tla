-------------------------- MODULE MCHybridSnapshot --------------------------
EXTENDS HybridSnapshot

\* A destination of its own for each mode, and one for both.
MCModes == [d \in Dirs |-> CASE d = "fp8" -> {"convert"} [] d = "plain" -> {"config-only"}
                              [] OTHER -> AllModes]
=============================================================================
