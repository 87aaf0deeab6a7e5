------------------------------ MODULE MCSession ------------------------------
EXTENDS Session

CONSTANTS q1
=============================================================================
