--------------------------- MODULE MCSigningChain ---------------------------
\* The constants of SigningChain.tla get their values in the .cfg files.
EXTENDS SigningChain
=============================================================================
