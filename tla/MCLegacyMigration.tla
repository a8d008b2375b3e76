-------------------------- MODULE MCLegacyMigration --------------------------
(* Small instances of LegacyMigration: up to three occurrences.            *)
EXTENDS LegacyMigration

CONSTANTS k1, k2, k3, k4

MCKeys == {k1, k2, k3, k4}
=============================================================================
