------------------------------ MODULE MCShowFiles ------------------------------
EXTENDS ShowFiles
=============================================================================
