---------------------------- MODULE ComputeKinds ----------------------------
(* The kinds of compute.ionoscloud.crossplane.io with one object of their    *)
(* own: their specs (apis/compute/v1alpha1), the requests and the up-to-date *)
(* tests of internal/clients/compute, the handlers of                        *)
(* internal/controller/compute.  See ManagedKind for the columns.            *)
EXTENDS ManagedKind

BUSY == {"BUSY"}
BusyUpdating == {"BUSY", "UPDATING"}

\* Create of the kinds that keep the id of their POST in an annotation.
Annotates == [Creates EXCEPT !.refused = BUSY, !.annotated = TRUE, !.searches = TRUE,
                             !.waits = TRUE]
\* Create of the kinds whose name is set after the wait.
Awaits == [Creates EXCEPT !.refused = BUSY, !.searches = TRUE, !.waits = TRUE,
                          !.named = "awaited"]

-----------------------------------------------------------------------------
(* Server.  The boot volume compared is the status's, which Observe takes    *)
(* from the API.                                                             *)
ServerParameters ==
  [path |-> {"datacenterConfig"},
   required |-> {"cores", "ram", "availabilityZone"},
   optional |-> {"name", "cpuFamily", "nicMultiQueue", "bootCdromId", "volumeConfig",
                 "placementGroupId", "vmState"},
   immutable |-> {"cpuFamily"}]
ServerPost == Sends({"name", "cores", "ram"},
                    {"nicMultiQueue", "cpuFamily", "availabilityZone", "bootCdromId",
                     "volumeConfig", "placementGroupId"})
ServerPatch == ServerPost
ServerCompared ==
  [Compares EXCEPT
     !.early = {"name", "nicMultiQueue", "cores", "ram", "cpuFamily", "availabilityZone"},
     !.busy = BUSY, !.exact = {"name", "volumeConfig"},
     !.reported = {"cores", "ram", "availabilityZone", "placementGroupId"},
     !.lenient = {"nicMultiQueue", "cpuFamily", "vmState"}]
ServerLate == {"bootCdromId"}
ServerDuplicate == Unlike({}, {"cpuFamily"})
ServerObserve == [Observes EXCEPT !.fill = ServerLate]
ServerCreate == [Annotates EXCEPT !.calls = {"volumeConfig"}]
ServerUpdate == [Updates EXCEPT !.refused = BUSY, !.waits = TRUE,
                                !.before = {"volumeConfig"}, !.after = {"vmState"}]
ServerDelete == [Deletes EXCEPT !.refused = {"DESTROYING"}, !.waits = TRUE]

-----------------------------------------------------------------------------
(* CubeServer: a server and its DAS volume, which a second PATCH updates.    *)
(* (A resume comes before the PATCH, a suspension after it; the PATCH is     *)
(* refused for a suspended server: vmState is followed as the field alone.)  *)
CubeHotPlugs == {"volume.cpuHotPlug", "volume.ramHotPlug", "volume.nicHotPlug",
                 "volume.nicHotUnplug", "volume.discVirtioHotPlug",
                 "volume.discVirtioHotUnplug"}
CubeAtCreation == {"volume.image", "volume.imageAlias", "volume.imagePassword",
                   "volume.sshKeys", "volume.licenceType", "volume.backupUnitConfig",
                   "volume.userData"}
CubeServerParameters ==
  [path |-> {"datacenterConfig"},
   required |-> {"template", "availabilityZone", "volume.name", "volume.bus"},
   optional |-> {"name", "vmState"} \cup CubeHotPlugs \cup CubeAtCreation,
   immutable |-> {"template"} \cup CubeAtCreation]
CubeServerPost == Sends({"name", "template", "availabilityZone", "volume.name", "volume.bus"}
                          \cup CubeHotPlugs, CubeAtCreation)
CubeServerPatch == Sends({"name"}, {})
CubeVolumePatch == {"volume.name", "volume.bus"} \cup CubeHotPlugs
CubeServerCompared ==
  [Compares EXCEPT !.busy = BUSY, !.exact = {"name", "availabilityZone"},
                   !.lenient = {"vmState"},
                   !.reported = {"volume.name", "volume.bus"} \cup CubeHotPlugs]
CubeServerLate == {"template"}
CubeServerDuplicate == Unlike({"template"}, {})
CubeServerObserve == [Observes EXCEPT !.fill = CubeServerLate]
CubeServerCreate == Awaits
CubeServerUpdate == [Updates EXCEPT !.refused = BusyUpdating, !.waits = TRUE,
                                    !.after = CubeVolumePatch \cup {"vmState"}]
CubeServerDelete == ServerDelete
-----------------------------------------------------------------------------
(* Datacenter and IPBlock.                                                   *)
PlainUpdate == [Updates EXCEPT !.refused = BusyUpdating, !.waits = TRUE]

DatacenterParameters ==
  [path |-> {}, required |-> {"location"},
   optional |-> {"name", "description", "secAuthProtection"}, immutable |-> {"location"}]
DatacenterPost == Sends({"name", "description", "location", "secAuthProtection"}, {})
DatacenterPatch == Sends({"name", "description"}, {})
DatacenterCompared == [Compares EXCEPT !.busy = BUSY, !.exact = {"name"},
                                       !.reported = {"description"}]
DatacenterDuplicate == Unlike({"location"}, {})
DatacenterObserve == Observes
DatacenterCreate == Annotates
DatacenterUpdate == PlainUpdate
DatacenterDelete == ServerDelete

IPBlockParameters ==
  [path |-> {}, required |-> {"location", "size"}, optional |-> {"name"},
   immutable |-> {"location", "size"}]
IPBlockPost == Sends({"location", "size"}, {"name"})
IPBlockPatch == Sends({"name"}, {})
IPBlockCompared == [Compares EXCEPT !.busy = BUSY, !.exact = {"name"}]
IPBlockDuplicate == Unlike({"location"}, {})
IPBlockObserve == Observes
IPBlockCreate == Annotates
IPBlockUpdate == PlainUpdate
IPBlockDelete == ServerDelete
-----------------------------------------------------------------------------
(* Volume.  With setHotPlugsFromImage the hot plugs are the image's: neither *)
(* sent nor compared, and overwritten in the spec at every Observe (the      *)
(* field "hotPlugsOfImage" stands for one of them under that setting).       *)
HotPlugs == {"cpuHotPlug", "ramHotPlug", "nicHotPlug", "nicHotUnplug",
             "discVirtioHotPlug", "discVirtioHotUnplug"}
VolumeAtCreation == {"image", "imageAlias", "imagePassword", "sshKeys", "licenceType",
                     "backupUnitConfig", "userData"}
VolumeParameters ==
  [path |-> {"datacenterConfig"}, required |-> {"type", "size", "bus", "hotPlugsOfImage"},
   optional |-> {"name", "availabilityZone"} \cup HotPlugs \cup VolumeAtCreation,
   immutable |-> {"type"} \cup VolumeAtCreation]
VolumePost == Sends({"name", "type", "size"} \cup HotPlugs,
                    {"availabilityZone", "bus"} \cup VolumeAtCreation)
VolumePatch == Sends({"name", "size"} \cup HotPlugs, {"bus"})
VolumeCompared == [Compares EXCEPT !.busy = BUSY, !.exact = {"name"},
                                   !.reported = {"size", "bus"} \cup HotPlugs]
VolumeLate == {"hotPlugsOfImage"}
VolumeDuplicate == Unlike({"type", "availabilityZone"}, {"licenceType", "image"})
VolumeObserve == [Observes EXCEPT !.forced = VolumeLate]
VolumeCreate == Annotates
VolumeUpdate == PlainUpdate
VolumeDelete == ServerDelete

-----------------------------------------------------------------------------
(* Nic: its ips come from an IP block's status, read by Observe.             *)
NicParameters ==
  [path |-> {"datacenterConfig", "serverConfig"}, required |-> {"lanConfig", "dhcp"},
   optional |-> {"name", "ipsConfigs", "dhcpv6", "firewallActive", "firewallType", "vnet"},
   immutable |-> {}]
NicPatch == Sends({"lanConfig", "firewallActive", "dhcp", "dhcpv6"},
                  {"name", "ipsConfigs", "firewallType", "vnet"})
NicPost == NicPatch
NicCompared == [Compares EXCEPT
                  !.busy = BUSY, !.exact = {"name"},
                  !.reported = {"dhcp", "firewallActive", "firewallType", "vnet"},
                  !.lenient = {"dhcpv6", "ipsConfigs"}]
NicLate == {"firewallType"}
NicDuplicate == Unlike({}, {})
NicObserve == [Observes EXCEPT !.fill = NicLate, !.reads = TRUE]
NicCreate == Annotates
NicUpdate == PlainUpdate
NicDelete == ServerDelete

-----------------------------------------------------------------------------
(* Lan.  The empty ipv6Cidr is AUTO: the API's choice, filled in.            *)
LanParameters ==
  [path |-> {"datacenterConfig"}, required |-> {"public"},
   optional |-> {"name", "pcc", "ipv6Cidr"}, immutable |-> {}]
LanPost == Sends({"public"}, {"name", "pcc", "ipv6Cidr"})
\* Mutant: the PATCH forgets the private cross connect.
LanPatchForgets == Sends({"public"}, {"name", "ipv6Cidr"})
LanPatch == LanPost
LanCompared == [Compares EXCEPT !.busy = BUSY, !.exact = {"name", "pcc"},
                                !.reported = {"public", "ipv6Cidr"}]
LanLate == {"ipv6Cidr"}
LanDuplicate == Unlike({}, {})
LanObserve == [Observes EXCEPT !.fill = LanLate]
LanCreate == Annotates
LanUpdate == PlainUpdate
LanDelete == ServerDelete

-----------------------------------------------------------------------------
(* FirewallRule.  The requests never carry icmpCode: it is written into the  *)
(* ICMP type (SetIcmpType(...IcmpCode)).  The IPs may come from IP blocks.   *)
FirewallRuleParameters ==
  [path |-> {"datacenterConfig", "serverConfig", "nicConfig"},
   required |-> {"protocol", "type"},
   optional |-> {"name", "sourceMac", "sourceIpConfig", "targetIpConfig", "icmpCode",
                 "icmpType", "portRangeStart", "portRangeEnd"},
   immutable |-> {"protocol"}]
FirewallRuleIfSet == {"sourceMac", "sourceIpConfig", "targetIpConfig", "icmpType",
                      "portRangeStart", "portRangeEnd", "type"}
FirewallRulePost == Sends({"protocol"}, FirewallRuleIfSet \cup {"name"})
FirewallRulePatch == Sends({"name"}, FirewallRuleIfSet)
FirewallRuleCompared ==
  [Compares EXCEPT !.busy = BUSY, !.exact = {"name", "sourceIpConfig", "targetIpConfig"},
                   !.reported = {"sourceMac", "icmpCode", "icmpType", "portRangeStart",
                                 "portRangeEnd", "type"}]
FirewallRuleDuplicate == Unlike({"protocol"}, {})
FirewallRuleObserve == [Observes EXCEPT !.reads = TRUE]
FirewallRuleCreate == Annotates
FirewallRuleUpdate == PlainUpdate
FirewallRuleDelete == ServerDelete

-----------------------------------------------------------------------------
(* PrivateCrossConnect, Group, User, S3Key.                                  *)
WaitingUpdate == [Updates EXCEPT !.waits = TRUE]
WaitingDelete == [Deletes EXCEPT !.waits = TRUE]

PccParameters ==
  [path |-> {}, required |-> {"name"}, optional |-> {"description"}, immutable |-> {}]
PccPost == Sends({"name", "description"}, {})
PccPatch == PccPost
PccCompared == [Compares EXCEPT !.busy = BUSY, !.exact = {"name"}, !.reported = {"description"}]
PccDuplicate == Unlike({}, {})
PccObserve == Observes
PccCreate == Awaits
PccUpdate == PlainUpdate
PccDelete == ServerDelete

\* The rights of a group; its members and shares are calls of their own.
GroupRights == {"accessActivityLog", "accessAndManageCertificates", "accessAndManageDns",
                "accessAndManageMonitoring", "createBackupUnit", "createDataCenter",
                "createFlowLog", "createInternetAccess", "createK8sCluster", "createPcc",
                "createSnapshot", "manageDBaaS", "manageDataplatform", "manageRegistry",
                "reserveIp", "s3Privilege"}
GroupParameters ==
  [path |-> {}, required |-> {"name"} \cup GroupRights,
   optional |-> {"userConfig", "sharedResourcesConfig"}, immutable |-> {}]
GroupPost == Sends({"name"} \cup GroupRights, {})
GroupPatch == GroupPost
GroupCalls == {"userConfig", "sharedResourcesConfig"}
GroupCompared == [Compares EXCEPT !.exact = GroupCalls, !.reported = {"name"} \cup GroupRights]
GroupDuplicate == Unlike({}, {})
GroupObserve == Observes
GroupCreate == [Awaits EXCEPT !.refused = {}, !.calls = GroupCalls]
GroupUpdate == [WaitingUpdate EXCEPT !.after = GroupCalls]
GroupDelete == WaitingDelete

\* The password is the deprecated field or the Secret's value, which Observe tells by
\* the version it keeps in the status; the field is emptied by every Observe.
UserParameters ==
  [path |-> {},
   required |-> {"administrator", "email", "firstName", "forceSecAuth", "lastName", "active",
                 "secAuthActive"},
   optional |-> {"password", "passwordSecretRef", "groupIDs"}, immutable |-> {}]
UserPost == Sends({"firstName", "lastName", "email", "administrator", "forceSecAuth", "active"},
                  {"password", "passwordSecretRef"})
UserPut == Sends(UserPost.always \cup {"secAuthActive"}, {"password", "passwordSecretRef"})
UserCompared == [Compares EXCEPT !.reported = UserPost.always, !.ifAsked = {"groupIDs"},
                                 !.anew = {"password"}, !.inStatus = {"passwordSecretRef"}]
UserObserve == [Observes EXCEPT !.wiped = {"password"}, !.reads = TRUE]
UserCreate == [Awaits EXCEPT !.refused = {}, !.searches = FALSE, !.calls = {"groupIDs"}]
UserUpdate == [WaitingUpdate EXCEPT !.after = {"groupIDs"}]
UserDelete == WaitingDelete

S3KeyParameters ==
  [path |-> {"userID"}, required |-> {"active"}, optional |-> {}, immutable |-> {}]
S3KeyPut == Sends({"active"}, {})
S3KeyCompared == [Compares EXCEPT !.reported = {"active"}]
S3KeyObserve == Observes
S3KeyCreate == Creates
S3KeyUpdate == WaitingUpdate
S3KeyDelete == WaitingDelete
=============================================================================
