---------------------------- MODULE MCHostProxy ----------------------------
EXTENDS HostProxy
=============================================================================
