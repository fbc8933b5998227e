----------------------------- MODULE MCHarness -----------------------------
EXTENDS Harness
=============================================================================
