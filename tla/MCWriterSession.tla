-------------------------- MODULE MCWriterSession --------------------------
EXTENDS WriterSessionProperties, TLC
=============================================================================
