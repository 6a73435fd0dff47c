------------------------------ MODULE MCKinds ------------------------------
(* The tables of every kind of the provider that has one object in the       *)
(* cloud, for the constant Kinds of ManagedResource and References.          *)
EXTENDS ComputeKinds, NetworkKinds, ServiceKinds

Kind(parameters, post, patch, compared, duplicate, observe, create, update, delete) ==
  [parameters |-> parameters, post |-> post, patch |-> patch, compared |-> compared,
   duplicate |-> duplicate, observe |-> observe, create |-> create, update |-> update,
   delete |-> delete]
NoFields == Sends({}, {})

MCKinds ==
  [Server |-> Kind(ServerParameters, ServerPost, ServerPatch,
            ServerCompared, ServerDuplicate, ServerObserve, ServerCreate, ServerUpdate, ServerDelete),
   CubeServer |-> Kind(CubeServerParameters, CubeServerPost, CubeServerPatch,
            CubeServerCompared, CubeServerDuplicate, CubeServerObserve, CubeServerCreate, CubeServerUpdate, CubeServerDelete),
   Datacenter |-> Kind(DatacenterParameters, DatacenterPost, DatacenterPatch,
            DatacenterCompared, DatacenterDuplicate, DatacenterObserve, DatacenterCreate, DatacenterUpdate, DatacenterDelete),
   IPBlock |-> Kind(IPBlockParameters, IPBlockPost, IPBlockPatch,
            IPBlockCompared, IPBlockDuplicate, IPBlockObserve, IPBlockCreate, IPBlockUpdate, IPBlockDelete),
   Volume |-> Kind(VolumeParameters, VolumePost, VolumePatch,
            VolumeCompared, VolumeDuplicate, VolumeObserve, VolumeCreate, VolumeUpdate, VolumeDelete),
   Nic |-> Kind(NicParameters, NicPost, NicPatch,
            NicCompared, NicDuplicate, NicObserve, NicCreate, NicUpdate, NicDelete),
   Lan |-> Kind(LanParameters, LanPost, LanPatch,
            LanCompared, LanDuplicate, LanObserve, LanCreate, LanUpdate, LanDelete),
   FirewallRule |-> Kind(FirewallRuleParameters, FirewallRulePost, FirewallRulePatch,
            FirewallRuleCompared, FirewallRuleDuplicate, FirewallRuleObserve, FirewallRuleCreate, FirewallRuleUpdate, FirewallRuleDelete),
   Pcc |-> Kind(PccParameters, PccPost, PccPatch,
            PccCompared, PccDuplicate, PccObserve, PccCreate, PccUpdate, PccDelete),
   Group |-> Kind(GroupParameters, GroupPost, GroupPatch,
            GroupCompared, GroupDuplicate, GroupObserve, GroupCreate, GroupUpdate, GroupDelete),
   User |-> Kind(UserParameters, UserPost, UserPut,
            UserCompared, Unlike({}, {}), UserObserve, UserCreate, UserUpdate, UserDelete),
   S3Key |-> Kind(S3KeyParameters, NoFields, S3KeyPut,
            S3KeyCompared, Unlike({}, {}), S3KeyObserve, S3KeyCreate, S3KeyUpdate, S3KeyDelete),
   ApplicationLoadBalancer |-> Kind(AlbParameters, AlbPost, AlbPatch,
            AlbCompared, AlbDuplicate, AlbObserve, AlbCreate, AlbUpdate, AlbDelete),
   AlbForwardingRule |-> Kind(AlbRuleParameters, AlbRulePost, AlbRulePut,
            AlbRuleCompared, AlbRuleDuplicate, AlbRuleObserve, AlbRuleCreate, AlbRuleUpdate, AlbRuleDelete),
   TargetGroup |-> Kind(TargetGroupParameters, TargetGroupPost, TargetGroupPut,
            TargetGroupCompared, TargetGroupDuplicate, TargetGroupObserve, TargetGroupCreate, TargetGroupUpdate, TargetGroupDelete),
   NetworkLoadBalancer |-> Kind(NlbParameters, NlbPost, NlbPatch,
            NlbCompared, NlbDuplicate, NlbObserve, NlbCreate, NlbUpdate, NlbDelete),
   NlbForwardingRule |-> Kind(NlbRuleParameters, NlbRulePost, NlbRulePatch,
            NlbRuleCompared, NlbRuleDuplicate, NlbRuleObserve, NlbRuleCreate, NlbRuleUpdate, NlbRuleDelete),
   FlowLog |-> Kind(FlowLogParameters, FlowLogPost, FlowLogPatch,
            FlowLogCompared, FlowLogDuplicate, FlowLogObserve, FlowLogCreate, FlowLogUpdate, FlowLogDelete),
   PostgresCluster |-> Kind(PostgresParameters, PostgresPost, PostgresPatch,
            PostgresCompared, PostgresDuplicate, PostgresObserve, PostgresCreate, PostgresUpdate, PostgresDelete),
   PostgresUser |-> Kind(PostgresUserParameters, PostgresUserPost, PostgresUserPatch,
            PostgresUserCompared, Unlike({}, {}), PostgresUserObserve, PostgresUserCreate, PostgresUserUpdate, PostgresUserDelete),
   PostgresDatabase |-> Kind(PostgresDatabaseParameters, PostgresDatabasePost, NoFields,
            Compares, Unlike({}, {}), PostgresDatabaseObserve, PostgresDatabaseCreate, PostgresDatabaseUpdate, PostgresDatabaseDelete),
   MongoCluster |-> Kind(MongoParameters, MongoPost, MongoPatch,
            MongoCompared, MongoDuplicate, MongoObserve, MongoCreate, MongoUpdate, MongoDelete),
   MongoUser |-> Kind(MongoUserParameters, MongoUserPost, MongoUserPatch,
            MongoUserCompared, Unlike({}, {}), MongoUserObserve, MongoUserCreate, MongoUserUpdate, MongoUserDelete),
   Cluster |-> Kind(ClusterParameters, ClusterPost, ClusterPut,
            ClusterCompared, ClusterDuplicate, ClusterObserve, ClusterCreate, ClusterUpdate, ClusterDelete),
   NodePool |-> Kind(NodePoolParameters, NodePoolPost, NodePoolPut,
            NodePoolCompared, NodePoolDuplicate, NodePoolObserve, NodePoolCreate, NodePoolUpdate, NodePoolDelete),
   BackupUnit |-> Kind(BackupUnitParameters, BackupUnitPost, BackupUnitPatch,
            BackupUnitCompared, BackupUnitDuplicate, BackupUnitObserve, BackupUnitCreate, BackupUnitUpdate, BackupUnitDelete)]
=============================================================================
