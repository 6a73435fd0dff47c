---------------------------- MODULE NetworkKinds ----------------------------
(* The kinds of alb and nlb.ionoscloud.crossplane.io: their specs (apis/alb, *)
(* apis/nlb), the requests and up-to-date tests of internal/clients/alb, nlb *)
(* and flowlog, the handlers of internal/controller/alb and nlb.  See        *)
(* ManagedKind for the columns.                                              *)
EXTENDS ManagedKind

\* The controllers of the ALB set the name as soon as the POST is answered, and their
\* Create and Update do nothing while the object is BUSY; those of the NLB wait for the
\* request inside the client's Create.
AlbCreates == [Creates EXCEPT !.refused = {"BUSY"}, !.refusesNamed = TRUE, !.searches = TRUE]
NlbCreates == [AlbCreates EXCEPT !.waits = TRUE, !.named = "awaited"]
AlbUpdates == [Updates EXCEPT !.refused = {"BUSY"}, !.waits = TRUE]
AlbDeletes == [Deletes EXCEPT !.refused = {"DESTROYING", "BUSY"}, !.waits = TRUE]
NlbDeletes == [Deletes EXCEPT !.refused = {"DESTROYING"}, !.waits = TRUE]

-----------------------------------------------------------------------------
(* ApplicationLoadBalancer: its ips come from IP blocks, read by Observe.    *)
AlbParameters ==
  [path |-> {"datacenterConfig"},
   required |-> {"name", "listenerLanConfig", "targetLanConfig"},
   optional |-> {"ipsConfig", "lbPrivateIps"}, immutable |-> {}]
AlbPost == Sends({"name", "listenerLanConfig", "targetLanConfig"}, {"ipsConfig", "lbPrivateIps"})
AlbPatch == AlbPost
AlbCompared == [Compares EXCEPT
                  !.busy = {"BUSY", "DEPLOYING"}, !.exact = {"name", "ipsConfig"},
                  !.reported = {"listenerLanConfig", "targetLanConfig", "lbPrivateIps"}]
AlbLate == {"lbPrivateIps"}
AlbDuplicate == Unlike({}, {})
AlbObserve == [Observes EXCEPT !.fill = AlbLate, !.reads = TRUE]
AlbCreate == AlbCreates
AlbUpdate == AlbUpdates
AlbDelete == AlbDeletes

(* Its ForwardingRule.                                                       *)
AlbRuleParameters ==
  [path |-> {"datacenterConfig", "applicationLoadBalancerConfig"},
   required |-> {"name", "protocol", "listenerIpConfig", "listenerPort"},
   optional |-> {"clientTimeout", "serverCertificatesIds", "httpRules"}, immutable |-> {}]
AlbRulePost == Sends({"name", "protocol", "listenerIpConfig", "listenerPort"},
                     {"clientTimeout", "serverCertificatesIds", "httpRules"})
AlbRulePut == AlbRulePost
AlbRuleCompared ==
  [Compares EXCEPT
     !.busy = {"BUSY", "DEPLOYING"}, !.exact = {"name", "httpRules"},
     !.reported = {"protocol", "listenerIpConfig", "listenerPort", "clientTimeout",
                   "serverCertificatesIds"}]
AlbRuleLate == {"clientTimeout"}
AlbRuleDuplicate == Unlike({}, {})
AlbRuleObserve == [Observes EXCEPT !.fill = AlbRuleLate, !.reads = TRUE]
AlbRuleCreate == AlbCreates
AlbRuleUpdate == AlbUpdates
AlbRuleDelete == AlbDeletes

-----------------------------------------------------------------------------
(* TargetGroup, which belongs to no data center.                             *)
TargetGroupParameters ==
  [path |-> {}, required |-> {"name", "algorithm", "protocol"},
   optional |-> {"targets", "healthCheck.checkInterval", "healthCheck.retries",
                 "healthCheck.checkTimeout", "httpHealthCheck.path",
                 "httpHealthCheck.method", "httpHealthCheck.response"},
   immutable |-> {}]
TargetGroupPost == Sends({"name", "algorithm", "protocol"}, TargetGroupParameters.optional)
TargetGroupPut == TargetGroupPost
TargetGroupLate == {"healthCheck.checkInterval", "healthCheck.retries",
                    "httpHealthCheck.path", "httpHealthCheck.method"}
TargetGroupCompared ==
  [Compares EXCEPT
     !.busy = {"BUSY", "DEPLOYING"},
     !.exact = {"name", "targets", "healthCheck.checkTimeout", "httpHealthCheck.response"},
     !.reported = {"protocol", "algorithm"} \cup TargetGroupLate]
TargetGroupDuplicate == Unlike({}, {})
TargetGroupObserve == [Observes EXCEPT !.fill = TargetGroupLate]
TargetGroupCreate == [Creates EXCEPT !.refused = {"BUSY"}, !.searches = TRUE, !.waits = TRUE,
                                     !.named = "awaited"]
TargetGroupUpdate == [Updates EXCEPT !.refused = {"BUSY", "UPDATING"}, !.waits = TRUE]
TargetGroupDelete == NlbDeletes

-----------------------------------------------------------------------------
(* NetworkLoadBalancer.                                                      *)
NlbParameters == AlbParameters
NlbPatch == Sends({"name", "listenerLanConfig", "targetLanConfig"}, {"ipsConfig", "lbPrivateIps"})
NlbPost == NlbPatch
NlbCompared == [Compares EXCEPT
                  !.busy = {"BUSY", "UPDATING"},
                  !.exact = {"name", "ipsConfig", "lbPrivateIps"},
                  !.reported = {"listenerLanConfig", "targetLanConfig"}]
NlbLate == {"lbPrivateIps"}
NlbDuplicate == Unlike({}, {})
NlbObserve == [Observes EXCEPT !.fill = NlbLate, !.reads = TRUE]
NlbCreate == NlbCreates
NlbUpdate == [AlbUpdates EXCEPT !.refused = {"BUSY", "UPDATING"}]
NlbDelete == NlbDeletes

(* Its ForwardingRule.                                                       *)
NlbRuleParameters ==
  [path |-> {"datacenterConfig", "networkLoadBalancerConfig"},
   required |-> {"name", "protocol", "listenerIpConfig", "listenerPort", "algorithm",
                 "healthCheck"},
   optional |-> {"targets"}, immutable |-> {"name"}]
NlbRulePatch == Sends({"name", "algorithm", "protocol", "listenerIpConfig", "listenerPort",
                       "healthCheck", "targets"}, {})
NlbRulePost == NlbRulePatch
NlbRuleCompared ==
  [Compares EXCEPT
     !.busy = {"BUSY", "UPDATING"}, !.exact = {"name", "targets"},
     !.reported = {"algorithm", "protocol", "listenerIpConfig", "listenerPort", "healthCheck"}]
NlbRuleDuplicate == Unlike({}, {})
NlbRuleObserve == [Observes EXCEPT !.reads = TRUE]
NlbRuleCreate == NlbCreates
NlbRuleUpdate == AlbUpdates
NlbRuleDelete == NlbDeletes

(* Its FlowLog.                                                              *)
FlowLogParameters ==
  [path |-> {"datacenterConfig", "networkLoadBalancerConfig"},
   required |-> {"name", "action", "direction", "bucket"}, optional |-> {}, immutable |-> {}]
FlowLogPatch == Sends({"name", "action", "direction", "bucket"}, {})
FlowLogPost == FlowLogPatch
FlowLogCompared == [Compares EXCEPT !.busy = {"BUSY", "UPDATING"},
                                    !.exact = {"name", "action", "direction", "bucket"}]
FlowLogDuplicate == Unlike({}, {})
FlowLogObserve == Observes
FlowLogCreate == NlbCreates
FlowLogUpdate == AlbUpdates
FlowLogDelete == NlbDeletes
=============================================================================
