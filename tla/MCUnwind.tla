------------------------------ MODULE MCUnwind ------------------------------
EXTENDS Unwind
=============================================================================
