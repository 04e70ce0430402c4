-------------------------- MODULE MC_RuntimeRegistry --------------------------
EXTENDS RuntimeRegistry, TLC

CONSTANTS r1, r2, col1, col2, a1, a2

MCRuntimeIDs == {r1, r2}
MCColonies == {col1, col2}
MCAdmins == {a1, a2}
=============================================================================
