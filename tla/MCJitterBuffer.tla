--------------------------- MODULE MCJitterBuffer ---------------------------
EXTENDS JitterBuffer
=============================================================================
