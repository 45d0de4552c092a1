------------------------------ MODULE MC_Joins -------------------------------
EXTENDS Joins

MCValues == {-2, -1, 1}
=============================================================================
