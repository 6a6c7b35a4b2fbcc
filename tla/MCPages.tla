------------------------------ MODULE MCPages -------------------------------
EXTENDS Pages

MCKinds == AllPages
=============================================================================
