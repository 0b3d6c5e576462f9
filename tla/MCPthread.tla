------------------------------ MODULE MCPthread ------------------------------
EXTENDS Pthread, TLC
=============================================================================
