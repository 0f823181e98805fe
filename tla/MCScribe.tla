------------------------------ MODULE MCScribe ------------------------------
EXTENDS ScribeProperties
=============================================================================
