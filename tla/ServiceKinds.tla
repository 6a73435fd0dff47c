---------------------------- MODULE ServiceKinds ----------------------------
(* The kinds of dbaas, k8s and backup.ionoscloud.crossplane.io: their specs, *)
(* the requests and up-to-date tests of internal/clients, the handlers of    *)
(* internal/controller.  See ManagedKind for the columns.                    *)
EXTENDS ManagedKind

\* None of these handlers waits for its request.
ClusterCreates == [Creates EXCEPT !.refused = {"BUSY"}, !.searches = TRUE]

-----------------------------------------------------------------------------
(* PostgresCluster.                                                          *)
PostgresParameters ==
  [path |-> {},
   required |-> {"postgresVersion", "instances", "cores", "ram", "storageSize", "storageType",
                 "connections", "location", "displayName", "credentials",
                 "synchronizationMode"},
   optional |-> {"backupLocation", "maintenanceWindow", "fromBackup", "connectionPooler"},
   immutable |-> {"location", "backupLocation"}]
PostgresPost == Sends(PostgresParameters.required,
                      {"fromBackup", "maintenanceWindow", "backupLocation", "connectionPooler"})
PostgresPatch == Sends({"postgresVersion", "instances", "cores", "ram", "storageSize",
                        "connections", "displayName"},
                       {"maintenanceWindow", "connectionPooler"})
PostgresCompared ==
  [Compares EXCEPT
     !.busy = {"BUSY"}, !.exact = {"displayName", "maintenanceWindow", "connectionPooler"},
     !.reported = {"postgresVersion", "instances", "cores", "ram", "storageSize",
                   "connections"}]
PostgresLate == {"maintenanceWindow"}
PostgresDuplicate == Unlike({"location", "storageType", "synchronizationMode"},
                            {"backupLocation"})
PostgresObserve == [Observes EXCEPT !.fill = PostgresLate]
PostgresCreate == ClusterCreates
PostgresUpdate == [Updates EXCEPT !.refused = {"BUSY"}]
PostgresDelete == [Deletes EXCEPT !.refused = {"DESTROYING"}]

(* PostgresUser and PostgresDatabase: the name is the id.  A password from a *)
(* Secret is told by its hash, which Observe keeps in the spec.              *)
PostgresUserParameters ==
  [path |-> {"clusterConfig"}, required |-> {"username", "passwordOfSecret"}, optional |-> {},
   immutable |-> {}]
PostgresUserPost == Sends({"username", "passwordOfSecret"}, {})
PostgresUserPatch == Sends({"passwordOfSecret"}, {})
PostgresUserCompared == [Compares EXCEPT !.exact = {"username"}, !.inSpec = {"passwordOfSecret"}]
PostgresUserObserve == Observes
PostgresUserCreate == [Creates EXCEPT !.keyed = TRUE]
PostgresUserUpdate == [Updates EXCEPT !.byStatus = FALSE]
PostgresUserDelete == Deletes

PostgresDatabaseParameters ==
  [path |-> {"clusterConfig"}, required |-> {"name", "owner"}, optional |-> {},
   immutable |-> {}]
PostgresDatabasePost == Sends({"name", "owner"}, {})
PostgresDatabaseObserve == Observes
PostgresDatabaseCreate == [Creates EXCEPT !.keyed = TRUE]
PostgresDatabaseUpdate == Updates
PostgresDatabaseDelete == Deletes

-----------------------------------------------------------------------------
(* MongoCluster.  The biConnector is compared with a value of another type   *)
(* (reflect.DeepEqual), which it never equals.                               *)
MongoIfSet == {"type", "templateID", "storageType", "edition", "ram", "storageSize", "cores",
               "shards", "maintenanceWindow", "biConnector"}
MongoParameters ==
  [path |-> {},
   required |-> {"mongoDBVersion", "instances", "cores", "ram", "storageSize", "storageType",
                 "connections", "location", "displayName", "synchronizationMode"},
   optional |-> {"type", "templateID", "shards", "edition", "maintenanceWindow", "fromBackup",
                 "biConnector", "backup"},
   immutable |-> {"location"}]
MongoPost == Sends({"mongoDBVersion", "instances", "connections", "location", "displayName"},
                   MongoIfSet \cup {"backup", "fromBackup"})
MongoPatch == Sends({"instances", "connections", "displayName"}, MongoIfSet)
MongoCompared ==
  [Compares EXCEPT
     !.busy = {"BUSY"}, !.exact = {"displayName", "maintenanceWindow", "connections"},
     !.reported = {"mongoDBVersion", "instances", "cores", "ram", "storageSize", "edition"},
     !.unequal = {"biConnector"}]
MongoLate == {"maintenanceWindow", "edition"}
MongoDuplicate == Unlike({"location", "storageType"}, {})
MongoObserve == [Observes EXCEPT !.fill = MongoLate]
MongoCreate == ClusterCreates
MongoUpdate == [Updates EXCEPT !.refused = {"BUSY"}]
MongoDelete == [Deletes EXCEPT !.refused = {"DESTROYING"}]

(* MongoUser.                                                                *)
MongoUserParameters ==
  [path |-> {"clusterConfig"}, required |-> {"username", "passwordOfSecret"},
   optional |-> {"userRoles"}, immutable |-> {}]
MongoUserPost == Sends({"username", "passwordOfSecret", "userRoles"}, {})
MongoUserPatch == Sends({"passwordOfSecret", "userRoles"}, {})
MongoUserCompared == [Compares EXCEPT !.exact = {"userRoles"}, !.reported = {"username"},
                                      !.inSpec = {"passwordOfSecret"}]
MongoUserObserve == Observes
MongoUserCreate == [Creates EXCEPT !.keyed = TRUE]
MongoUserUpdate == [Updates EXCEPT !.byStatus = FALSE]
MongoUserDelete == Deletes

-----------------------------------------------------------------------------
(* Cluster and NodePool of Kubernetes.  (An allow list is only sent when     *)
(* set, and late-initialisation may reorder it.)                             *)
ClusterParameters ==
  [path |-> {}, required |-> {"name", "public"},
   optional |-> {"k8sVersion", "maintenanceWindow", "apiSubnetAllowList", "s3Buckets",
                 "natGatewayIpConfig", "nodeSubnet", "location"},
   immutable |-> {"public", "natGatewayIpConfig", "nodeSubnet", "location"}]
ClusterPost == Sends({"name", "public"}, ClusterParameters.optional)
ClusterPut == Sends({"name"}, {"apiSubnetAllowList", "k8sVersion", "s3Buckets",
                               "maintenanceWindow"})
ClusterCompared ==
  [Compares EXCEPT
     !.busy = {"BUSY", "DEPLOYING"}, !.exact = {"name", "maintenanceWindow"},
     !.reported = {"s3Buckets", "apiSubnetAllowList", "public"}, !.lenient = {"k8sVersion"}]
ClusterLate == {"maintenanceWindow"}
ClusterDuplicate == Unlike({}, {})
ClusterObserve == [Observes EXCEPT !.fill = ClusterLate]
ClusterCreate == [ClusterCreates EXCEPT !.refused = {"DEPLOYING"}]
ClusterUpdate == [Updates EXCEPT !.refused = {"UPDATING"},
                                 !.fails = {"", "BUSY", "DEPLOYING", "DESTROYING"},
                                 !.notes = "UPDATING"]
ClusterDelete == [Deletes EXCEPT !.refused = {"DESTROYING", "TERMINATED"},
                                 !.fails = {"BUSY", "DEPLOYING", "UPDATING"}]

(* NodePool: the server type is overwritten with the API's at every Observe. *)
NodePoolParameters ==
  [path |-> {"clusterConfig", "datacenterConfig"},
   required |-> {"name", "nodeCount", "coresCount", "ramSize", "availabilityZone",
                 "storageType", "storageSize"},
   optional |-> {"cpuFamily", "k8sVersion", "maintenanceWindow", "autoScaling", "lans",
                 "labels", "annotations", "publicIpsConfigs", "serverType"},
   immutable |-> {"name", "cpuFamily", "ramSize", "availabilityZone", "storageType",
                  "storageSize"}]
NodePoolPost == Sends(NodePoolParameters.required, NodePoolParameters.optional)
NodePoolPut == Sends({"serverType", "nodeCount", "annotations", "labels", "publicIpsConfigs"},
                     {"k8sVersion", "autoScaling", "maintenanceWindow", "lans"})
NodePoolCompared ==
  [Compares EXCEPT
     !.busy = {"BUSY", "DEPLOYING"}, !.exact = {"name", "maintenanceWindow"},
     !.lenient = {"k8sVersion", "serverType"},
     !.reported = {"nodeCount", "publicIpsConfigs", "labels", "annotations", "autoScaling",
                   "lans"}]
NodePoolLate == [fill |-> {"maintenanceWindow"}, forced |-> {"serverType"}]
NodePoolDuplicate == Unlike({"coresCount", "ramSize", "availabilityZone", "storageType",
                             "storageSize", "datacenterConfig"}, {"cpuFamily"})
NodePoolObserve == [Observes EXCEPT !.fill = NodePoolLate.fill, !.forced = NodePoolLate.forced,
                                    !.reads = TRUE]
NodePoolCreate == [ClusterCreates EXCEPT !.refused = {"DEPLOYING"}]
NodePoolUpdate == [Updates EXCEPT !.refused = {"UPDATING"}, !.notes = "UPDATING"]
NodePoolDelete == [Deletes EXCEPT !.refused = {"DESTROYING", "TERMINATED"},
                                  !.fails = {"DEPLOYING"}]

-----------------------------------------------------------------------------
(* BackupUnit: the password last sent is kept in a variable of the process.  *)
BackupUnitParameters ==
  [path |-> {}, required |-> {"name", "password", "email"}, optional |-> {},
   immutable |-> {"name"}]
BackupUnitPost == Sends({"name", "password", "email"}, {})
BackupUnitPatch == Sends({"password", "email"}, {})
BackupUnitCompared == [Compares EXCEPT !.busy = {"BUSY"}, !.exact = {"name"},
                                       !.reported = {"email"}, !.inProcess = {"password"}]
BackupUnitDuplicate == Unlike({"email"}, {})
BackupUnitObserve == Observes
BackupUnitCreate == [Creates EXCEPT !.refused = {"BUSY"}, !.searches = TRUE, !.waits = TRUE,
                                    !.named = "awaited"]
BackupUnitUpdate == [Updates EXCEPT !.refused = {"BUSY", "UPDATING"}, !.waits = TRUE]
BackupUnitDelete == [Deletes EXCEPT !.refused = {"DESTROYING"}, !.waits = TRUE]
=============================================================================
