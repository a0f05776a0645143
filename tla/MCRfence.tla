-------------------------------- MODULE MCRfence --------------------------------
EXTENDS Rfence
=================================================================================
