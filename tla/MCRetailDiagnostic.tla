------------------------- MODULE MCRetailDiagnostic -------------------------
EXTENDS RetailDiagnostic
=============================================================================
