--------------------------- MODULE MCSynthSequencer ---------------------------
EXTENDS SynthSequencer
===============================================================================
