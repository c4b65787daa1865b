--------------------------- MODULE MCEventPipeline ---------------------------
EXTENDS EventPipeline
=============================================================================
