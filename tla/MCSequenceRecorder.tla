-------------------------- MODULE MCSequenceRecorder --------------------------
EXTENDS SequenceRecorder
===============================================================================
