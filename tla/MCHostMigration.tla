-------------------------- MODULE MCHostMigration --------------------------
EXTENDS HostMigration
=============================================================================
