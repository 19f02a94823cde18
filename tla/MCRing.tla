------------------------------- MODULE MCRing -------------------------------
EXTENDS Ring
=============================================================================
