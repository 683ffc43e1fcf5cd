---------------------------- MODULE MCContactBook ----------------------------
EXTENDS ContactBook
=============================================================================
