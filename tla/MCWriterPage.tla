---------------------------- MODULE MCWriterPage ----------------------------
EXTENDS WriterPageProperties, TLC
=============================================================================
