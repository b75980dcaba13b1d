---------------------------- MODULE MCMixedLoad ----------------------------
EXTENDS MixedLoad
=============================================================================
