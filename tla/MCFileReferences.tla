-------------------------- MODULE MCFileReferences --------------------------
EXTENDS FileReferences, TLC
=============================================================================
