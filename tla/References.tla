---------------------------- MODULE References -----------------------------
(* The resources of one kind and of the kinds it refers to, created, lost    *)
(* and deleted side by side.  A resource names others by reference or by     *)
(* selector; ResolveReferences (apis/*/v1alpha1/zz_generated.resolvers.go),  *)
(* run before every Observe, puts their external names into its spec, and    *)
(* the controllers address the API with these IDs.  One resource's own       *)
(* handlers are module ManagedResource; here they are reduced to what they   *)
(* ask of other resources, and their failures are left out.                  *)
EXTENDS Naturals, FiniteSets

CONSTANTS Kinds,     \* the tables of the kinds, as for ManagedResource
          Chosen,    \* the kinds to start from
          MaxLosses  \* how many objects somebody else removes

ASSUME LossesAssumption == MaxLosses \in Nat

-----------------------------------------------------------------------------
(* The kinds a kind refers to; a field may also be given by ID, or be left   *)
(* unset if it is optional.                                                  *)
CubeServerRefs == {"Datacenter", "BackupUnit"}
FirewallRuleRefs == {"Datacenter", "Server", "Nic", "IPBlock"}
GroupRefs == {"User"}
IPFailoverRefs == {"Datacenter", "Lan", "Nic", "IPBlock"}
LanRefs == {"Datacenter", "Pcc"}
NicRefs == {"Datacenter", "Server", "Lan", "IPBlock"}
ServerRefs == {"Datacenter", "Volume"}
ServerSetRefs == {"Datacenter", "IPBlock"}
StatefulServerSetRefs == {"Datacenter", "IPBlock"}
VolumeRefs == {"Datacenter", "BackupUnit"}
FlowLogRefs == {"Datacenter", "NetworkLoadBalancer"}
NlbForwardingRuleRefs == {"Datacenter", "NetworkLoadBalancer", "IPBlock"}
NetworkLoadBalancerRefs == {"Datacenter", "Lan", "IPBlock"}
ApplicationLoadBalancerRefs == {"Datacenter", "Lan", "IPBlock"}
AlbForwardingRuleRefs == {"Datacenter", "ApplicationLoadBalancer", "IPBlock", "TargetGroup"}
ClusterRefs == {"IPBlock"}
NodePoolRefs == {"Cluster", "Datacenter", "Lan", "IPBlock"}
PostgresClusterRefs == {"Datacenter", "Lan"}
PostgresUserRefs == {"PostgresCluster"}
PostgresDatabaseRefs == {"PostgresCluster", "PostgresUser"}
MongoClusterRefs == {"Datacenter", "Lan"}
MongoUserRefs == {"MongoCluster"}

Refs ==
  [CubeServer |-> CubeServerRefs, FirewallRule |-> FirewallRuleRefs, Group |-> GroupRefs,
   IPFailover |-> IPFailoverRefs, Lan |-> LanRefs, Nic |-> NicRefs, Server |-> ServerRefs,
   ServerSet |-> ServerSetRefs, StatefulServerSet |-> StatefulServerSetRefs,
   Volume |-> VolumeRefs, FlowLog |-> FlowLogRefs,
   AlbForwardingRule |-> AlbForwardingRuleRefs, NlbForwardingRule |-> NlbForwardingRuleRefs,
   NetworkLoadBalancer |-> NetworkLoadBalancerRefs,
   ApplicationLoadBalancer |-> ApplicationLoadBalancerRefs, Cluster |-> ClusterRefs,
   NodePool |-> NodePoolRefs, PostgresCluster |-> PostgresClusterRefs,
   PostgresUser |-> PostgresUserRefs, PostgresDatabase |-> PostgresDatabaseRefs,
   MongoCluster |-> MongoClusterRefs, MongoUser |-> MongoUserRefs]
RefsOf(k) == IF k \in DOMAIN Refs THEN Refs[k] ELSE {}

\* The objects that the API's path to an object of the kind leads through.
Path ==
  [k \in DOMAIN Kinds |->
     CASE k \in {"Server", "CubeServer", "Volume", "Lan", "NetworkLoadBalancer",
                 "ApplicationLoadBalancer"} -> {"Datacenter"}
       [] k = "Nic" -> {"Datacenter", "Server"}
       [] k = "FirewallRule" -> {"Datacenter", "Server", "Nic"}
       [] k = "AlbForwardingRule" -> {"Datacenter", "ApplicationLoadBalancer"}
       [] k \in {"NlbForwardingRule", "FlowLog"} -> {"Datacenter", "NetworkLoadBalancer"}
       [] k = "NodePool" -> {"Cluster"}
       [] k \in {"PostgresUser", "PostgresDatabase"} -> {"PostgresCluster"}
       [] k = "MongoUser" -> {"MongoCluster"}
       [] OTHER -> {}]

\* A kind, what it refers to, and what these are in.
Needed ==
  [k \in Chosen |-> {k} \cup RefsOf(k) \cup UNION {Path[t] : t \in RefsOf(k)}]

\* Sets and failovers have no object of their own (ServerSet, StatefulServerSet, IPFailover).
ASSUME ChosenAssumption == \A k \in Chosen : Needed[k] \subseteq DOMAIN Kinds

-----------------------------------------------------------------------------
VARIABLES
  root,      \* the kind everything is there for
  cr,        \* the resources, one of a kind
  resolved,  \* for a resource and a kind it refers to, the ID in its spec, or 0
  cloud,     \* the object of a kind; "id" is the last one given, "up" that it
             \* is not DEPLOYING
  namesake,  \* the resources whose ID is the name of their own Kubernetes object
  losses

vars == <<root, cr, resolved, cloud, namesake, losses>>

\* The resources there are, and the references between them.
Members == Needed[root]
UsesOf == [k \in Chosen |-> [m \in Needed[k] |-> RefsOf(m) \cap Needed[k]]]
Uses(m) == UsesOf[root][m]
PairsOf == [k \in Chosen |-> {p \in Needed[k] \X Needed[k] : p[2] \in UsesOf[k][p[1]]}]
Pairs == PairsOf[root]
Id == 0 .. 1 + MaxLosses

TypeOK ==
  /\ root \in Chosen
  /\ cr \in [Members -> [life : {"wanted", "deleted", "gone"}, name : Id,
                         pc : {"idle", "create"}]]
  /\ resolved \in [Pairs -> Id]
  /\ cloud \in [Members -> [exists : BOOLEAN, id : Id, up : BOOLEAN]]
  /\ namesake \subseteq {"PostgresUser"}
  /\ losses \in 0 .. MaxLosses

\* The ID of an object is chosen by the API; only a database user is known by the name
\* its own user gives it.
Init ==
  /\ root \in Chosen
  /\ cr = [m \in Members |-> [life |-> "wanted", name |-> 0, pc |-> "idle"]]
  /\ resolved = [p \in Pairs |-> 0]
  /\ cloud = [m \in Members |-> [exists |-> FALSE, id |-> 0, up |-> FALSE]]
  /\ namesake \in SUBSET (Members \cap {"PostgresUser"})
  /\ losses = 0

-----------------------------------------------------------------------------
(* Resolving.  Extract gives no value for a resource that has no external    *)
(* name, or one that equals the object's name; a value once resolved stays.  *)
\* Mutant: the name of the Kubernetes object, no ID of the API's, is taken for one.
ExtractName(t) == IF cr[t].name = 0 THEN 2 + MaxLosses ELSE cr[t].name

\* Mutant: the extractor for LANs expects another type.
ExtractNoLan(t) == IF t = "Lan" THEN 0 ELSE cr[t].name

Extract(t) == IF cr[t].life = "gone" \/ t \in namesake THEN 0 ELSE cr[t].name
Value(m, t) == IF resolved[<<m, t>>] # 0 THEN resolved[<<m, t>>] ELSE Extract(t)

\* Mutant: what is not on the path may be missing.
ResolvedPath(m) == \A t \in Path[m] : resolved[<<m, t>>] # 0

Resolved(m) == \A t \in Uses(m) : resolved[<<m, t>>] # 0

\* Either every reference of the resource is resolved, or nothing is saved.  A resource
\* that is being deleted is not resolved any more.
Resolve(m) ==
  /\ cr[m].life = "wanted" /\ cr[m].pc = "idle" /\ ~Resolved(m)
  /\ \A t \in Uses(m) : Value(m, t) # 0
  /\ resolved' = [p \in Pairs |-> IF p[1] = m THEN Value(m, p[2]) ELSE resolved[p]]
  /\ UNCHANGED <<root, cr, cloud, namesake, losses>>

-----------------------------------------------------------------------------
(* Observe.                                                                  *)
Exists(t, id) == cloud[t].exists /\ cloud[t].id = id
Found(m) == Exists(m, cr[m].name)

\* Mutant: a deleted resource is resolved, too.
MayObserveResolved(m) == cr[m].life # "gone" /\ cr[m].pc = "idle" /\ Resolved(m)

MayObserve(m) ==
  /\ cr[m].life # "gone" /\ cr[m].pc = "idle"
  /\ cr[m].life = "wanted" => Resolved(m)

\* Observe of some kinds reads the addresses of an IP block; so does every Create that
\* uses one.
Reads(m) == Kinds[m].observe.reads /\ "IPBlock" \in Uses(m)
Unreadable(m) == Found(m) /\ Reads(m) /\ ~Exists("IPBlock", resolved[<<m, "IPBlock">>])

\* Mutant: what cannot be read does not exist.
Readable(m) == Found(m) /\ ~Unreadable(m)

\* Create leaves a resource alone that has had an object.
Refuses(m) == (Kinds[m].create.annotated \/ Kinds[m].create.refusesNamed) /\ cr[m].name # 0

\* Mutant: an object whose IP block is gone counts as gone.
MissingUnread(m) ==
  /\ MayObserve(m) /\ ~Readable(m)
  /\ cr' = IF cr[m].life = "deleted" THEN [cr EXCEPT ![m].life = "gone"]
           ELSE [cr EXCEPT ![m].pc = IF Refuses(m) THEN "idle" ELSE "create"]
  /\ UNCHANGED <<root, resolved, cloud, namesake, losses>>

\* The API knows no object of the ID at the path: a deleted resource goes, another is
\* created.
Missing(m) ==
  /\ MayObserve(m) /\ ~Found(m)
  /\ cr' = IF cr[m].life = "deleted" THEN [cr EXCEPT ![m].life = "gone"]
           ELSE [cr EXCEPT ![m].pc = IF Refuses(m) THEN "idle" ELSE "create"]
  /\ UNCHANGED <<root, resolved, cloud, namesake, losses>>

-----------------------------------------------------------------------------
(* Create.                                                                   *)
There(m, t) == Exists(t, resolved[<<m, t>>])
Container(m) == \A t \in Path[m] : There(m, t)

\* Clusters and node pools are DEPLOYING at first, and nothing waits for them.
Deploys == {"Cluster", "NodePool"}
ClusterIsActive(m) == m = "NodePool" => There(m, "Cluster") /\ cloud["Cluster"].up

MayCreate(m) == /\ Container(m) /\ ClusterIsActive(m)
                /\ "IPBlock" \in Uses(m) => There(m, "IPBlock")
Whole(m) == MayCreate(m) /\ \A t \in Uses(m) : There(m, t)

Create(m) ==
  /\ cr[m].pc = "create" /\ MayCreate(m)
  /\ LET id == cloud[m].id + 1
     IN /\ cloud' = [cloud EXCEPT ![m] = [exists |-> TRUE, id |-> id, up |-> m \notin Deploys]]
        /\ cr' = [cr EXCEPT ![m].name = id, ![m].pc = "idle"]
  /\ UNCHANGED <<root, resolved, namesake, losses>>

\* Create fails on the way, or the API does not take the ID of an object that is gone.
CreateFails(m) ==
  /\ cr[m].pc = "create" /\ ~Whole(m)
  /\ cr' = [cr EXCEPT ![m].pc = "idle"]
  /\ UNCHANGED <<root, resolved, cloud, namesake, losses>>

BecomesActive(m) ==
  /\ cloud[m].exists /\ ~cloud[m].up
  /\ cloud' = [cloud EXCEPT ![m].up = TRUE]
  /\ UNCHANGED <<root, cr, resolved, namesake, losses>>

-----------------------------------------------------------------------------
(* Delete.                                                                   *)
Within(m) == {x \in Members : m \in Path[x] /\ cloud[x].exists}
Users(m) == {x \in Members : m \in Uses(x) /\ cloud[x].exists}

\* With an object go those in it.
Without(m) == [x \in Members |-> IF x = m \/ m \in Path[x]
                                 THEN [cloud[x] EXCEPT !.exists = FALSE] ELSE cloud[x]]

\* A cluster with node pools is not deleted, nor is one that is not ACTIVE; nor a node
\* pool that is DEPLOYING or whose cluster is not ACTIVE.
MayDelete(m) == /\ m \in Deploys => cloud[m].up
                /\ m = "Cluster" => Within(m) = {}
                /\ ClusterIsActive(m)

\* (The API may not let go of an object that others use.)
Delete(m) ==
  /\ cr[m].life = "deleted" /\ MayObserve(m) /\ Found(m) /\ ~Unreadable(m) /\ MayDelete(m)
  /\ cloud' = Without(m)
  /\ UNCHANGED <<root, cr, resolved, namesake, losses>>

-----------------------------------------------------------------------------
(* The user and others.                                                      *)
Remove(m) ==
  /\ cr[m].life = "wanted"
  /\ cr' = [cr EXCEPT ![m].life = "deleted"]
  /\ UNCHANGED <<root, resolved, cloud, namesake, losses>>

Lose(m) ==
  /\ cloud[m].exists /\ losses < MaxLosses
  /\ cloud' = Without(m)
  /\ losses' = losses + 1
  /\ UNCHANGED <<root, cr, resolved, namesake>>

Reconcile(m) == Resolve(m) \/ Missing(m) \/ Create(m) \/ CreateFails(m) \/ Delete(m)
Next == \E m \in Members : Reconcile(m) \/ BecomesActive(m) \/ Remove(m) \/ Lose(m)
Spec == Init /\ [][Next]_vars

\* Every resource is reconciled again and again, the API finishes what it has begun, and
\* it takes the DELETE of what nothing else uses.  At most one of these steps is enabled
\* for a resource at a time.
Progress(k) ==
  /\ k \in Members
  /\ Resolve(k) \/ Missing(k) \/ Create(k) \/ CreateFails(k) \/ BecomesActive(k)
     \/ (Users(k) = {} /\ Delete(k))
Followed == UNION {Needed[k] : k \in Chosen}
FairSpec == Spec /\ \A k \in Followed : WF_vars(Progress(k))

-----------------------------------------------------------------------------
\* No object is made before everything its resource refers to has been given an ID by the
\* API: neither an empty field nor the name of a Kubernetes object is ever sent.
Based ==
  \A m \in Members : cloud[m].id # 0 =>
    \A t \in Uses(m) : resolved[<<m, t>>] \in 1 .. cloud[t].id

\* A resource goes only with its object: in whatever order resources and the objects they
\* refer to disappear, nothing is left in the cloud that no resource stands for.
NothingLeft == \A m \in Members : cr[m].life = "gone" => ~cloud[m].exists

\* Resources that cannot be placed any more: one refers to the user of its own name; one
\* keeps the ID of an object that is gone, or has lost its own and is not created again.
Nameless == \E p \in Pairs : p[2] \in namesake /\ resolved[p] = 0
Stale(m) == ~Found(m) /\ \E t \in Uses(m) : resolved[<<m, t>>] # 0 /\ ~There(m, t)
Forsaken(m) == ~Found(m) /\ Refuses(m)
Stuck == Nameless \/ \E m \in Members : Stale(m) \/ Forsaken(m)

\* Whatever the order in which resources are made, each waits for what it refers to and
\* all get their objects in the end, unless the user deletes one or one is stuck.
Placing ==
  <>((\A m \in Members : Found(m)) \/ Stuck \/ \E m \in Members : cr[m].life # "wanted")

\* When all resources are deleted, in whatever order and however far they had come, all
\* go, unless the IP block that Observe reads for one of them went first.
Teardown ==
  (\A m \in Members : cr[m].life # "wanted")
    ~> (\A m \in Members : cr[m].life = "gone") \/ \E m \in Members : Unreadable(m)
=============================================================================
