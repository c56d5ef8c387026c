------------------------------ MODULE MCCommand -------------------------------
EXTENDS GoCommand
CONSTANTS x1, x2, a1, a2
=============================================================================
