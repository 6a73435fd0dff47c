---------------------------- MODULE MCReferences ----------------------------
(* References for kinds with many references, of several depths.             *)
EXTENDS MCKinds, References

MCChosen == {"NodePool", "FirewallRule", "NlbForwardingRule", "PostgresDatabase", "MongoCluster"}
=============================================================================
