----------------------------- MODULE MC_FileSync -----------------------------
EXTENDS FileSync, TLC

CONSTANTS c1, c2, n1, n2, v1, v2

MCClients == {c1, c2}
MCNames == {n1, n2}
MCOneName == {n1}
MCContents == {v1, v2}

\* Every property fs_sync checks sets aside the behaviours in which a
\* revision whose object lacks its checksum was added (fs_stale_checksum
\* shows they exist); they are not explored further.
NoCorruptRevision == ~corrupt

\* Clients, names and contents are interchangeable.
Symmetry == Permutations(MCClients) \cup Permutations(MCNames) \cup Permutations(MCContents)
=============================================================================
