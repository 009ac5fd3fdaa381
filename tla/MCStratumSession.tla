--------------------------- MODULE MCStratumSession ---------------------------
EXTENDS StratumSession
MCModes == {"nofee", "all"}
================================================================================
