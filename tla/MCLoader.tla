------------------------------ MODULE MCLoader ------------------------------
EXTENDS Loader
=============================================================================
