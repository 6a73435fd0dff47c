----------------------------- MODULE ServerSet -----------------------------
(* The ServerSet controller: one worker that observes a ServerSet custom     *)
(* resource and creates, updates or re-creates its servers, boot volumes and *)
(* NICs (internal/controller/serverset).                                     *)
(*                                                                           *)
(* A server, volume or NIC of replica i and version v is the Kubernetes      *)
(* object "<name>-<i>-<v>"; the sets below hold one record per object.  The  *)
(* controllers of those kinds and the IONOS API are the environment: they    *)
(* move an object's status along PENDING (no ID yet), BUSY, AVAILABLE, and   *)
(* remove an object marked DELETING.  UPDATING is an object whose new spec   *)
(* they have not finished to apply: it may be reported AVAILABLE or BUSY.    *)
(*                                                                           *)
(* Abstractions: a template has one NIC and no firewall rules (rules are     *)
(* ensured and deleted exactly as NICs are), cores stands for the four       *)
(* server fields compared with the template, image for the three volume      *)
(* fields that force a re-creation, and the template has no state map.       *)
EXTENDS Integers, FiniteSets

CONSTANTS MaxReplicas,   \* upper bound of spec.replicas
          Images, Sizes, Cores,
          Strategies,    \* update strategies the user may ask for
          HotPlug,       \* the boot volumes allow CPU and RAM hot plug
          UseIdentity,   \* an identity ConfigMap is configured
          Scale,         \* the user may raise spec.replicas
          MaxEdits, MaxCrashes, MaxErrors, MaxRejects  \* bounds on the environment

ASSUME ReplicasAssumption == MaxReplicas \in Nat \ {0}
ASSUME StrategiesAssumption ==
  Strategies \subseteq {"createBeforeDestroyBootVolume", "createAllBeforeDestroy"}
ASSUME FlagsAssumption == HotPlug \in BOOLEAN /\ UseIdentity \in BOOLEAN /\ Scale \in BOOLEAN
ASSUME BoundsAssumption == /\ MaxEdits \in Nat /\ MaxCrashes \in Nat
                           /\ MaxErrors \in Nat /\ MaxRejects \in Nat

Idx == 0 .. MaxReplicas - 1
NoVolume == -1    \* VolumeCfg.VolumeID = ""
NoMaster == -1
Templates == [replicas : 1 .. MaxReplicas, image : Images, size : Sizes,
              cores : Cores, strategy : Strategies]

Status == {"PENDING", "BUSY", "AVAILABLE", "UPDATING", "DELETING"}
Volume == [idx : Idx, ver : Nat, image : Images, size : Sizes, status : Status]
Server == [idx : Idx, ver : Nat, cores : Cores, boot : Nat \cup {NoVolume},
           status : Status]
NIC == [idx : Idx, ver : Nat, status : Status]
Name == [idx : Idx, ver : Nat]

VARIABLES
  template,   \* the spec of the ServerSet, edited by its user
  extName,    \* the external-name annotation is set
  pending,    \* external-create-pending is set, without a result
  servers, volumes, nics,
  identity,   \* the server named by the identity ConfigMap, a set of at most one
  pc, phase,  \* where the worker is, and in which part of that step
  mode,       \* what the worker's steps belong to
  cr,         \* the worker's copy of the spec
  master,     \* replica index of the ACTIVE status of this reconcile
  cur,        \* replica being worked on
  vv, sv,     \* volume and server version being ensured for it
  todo,       \* names of the listed objects the current loop has left
  faults      \* how much of each bound the environment has used

objects == <<servers, volumes, nics>>
worker == <<pc, phase, mode, cr, master, cur, vv, sv, todo>>
cluster == <<template, extName, pending, identity>>
vars == <<objects, worker, cluster, faults>>

-----------------------------------------------------------------------------
(* Listing by labels, and writing one object.                                *)
Of(set, i) == {o \in set : o.idx = i}
At(set, i, v) == {o \in set : o.idx = i /\ o.ver = v}
Mark(set, i, v, st) ==
  {IF o.idx = i /\ o.ver = v THEN [o EXCEPT !.status = st] ELSE o : o \in set}
Names(set) == {[idx |-> o.idx, ver |-> o.ver] : o \in set}
Changed(st) == IF st = "AVAILABLE" THEN "UPDATING" ELSE st

\* More than one object, exactly one, none: what the version lookups tell apart.
TooMany(set) == \E a, b \in set : a # b
HasId(o) == o.status \in {"BUSY", "AVAILABLE", "UPDATING"}
MaySeeAvailable(o) == o.status \in {"AVAILABLE", "UPDATING"}
MaySeeBusy(o) == o.status # "AVAILABLE"

\* Mutants of After: the volume is destroyed first; an old object is forgotten.
AfterDestroyFirst ==
  [create |-> [server |-> "nic", nic |-> "volume", volume |-> "attach",
               attach |-> "next"],
   bootVolume |-> [volume |-> "deleteVolume", deleteVolume |-> "attach",
                   attach |-> "finish"],
   all |-> [server |-> "volume", volume |-> "deleteVolume",
            deleteVolume |-> "attach", attach |-> "nic", nic |-> "deleteServer",
            deleteServer |-> "deleteNIC", deleteNIC |-> "finish"]]
AfterForgetOld ==
  [create |-> [server |-> "nic", nic |-> "volume", volume |-> "attach",
               attach |-> "next"],
   bootVolume |-> [volume |-> "attach", attach |-> "finish"],
   all |-> [server |-> "volume", volume |-> "attach", attach |-> "nic",
            nic |-> "deleteVolume", deleteVolume |-> "deleteServer",
            deleteServer |-> "finish"]]

\* The order in which a replica's resources are ensured and destroyed.
After ==
  [create |-> [server |-> "nic", nic |-> "volume", volume |-> "attach",
               attach |-> "next"],
   bootVolume |-> [volume |-> "attach", attach |-> "deleteVolume",
                   deleteVolume |-> "finish"],
   all |-> [server |-> "volume", volume |-> "attach", attach |-> "nic",
            nic |-> "deleteVolume", deleteVolume |-> "deleteServer",
            deleteServer |-> "deleteNIC", deleteNIC |-> "finish"]]

Steps == {"server", "nic", "volume", "attach",
          "deleteVolume", "deleteServer", "deleteNIC"}
Loops == {"idle", "versions", "next", "servers", "volumes", "finish"}

\* The type invariant: in particular the worker's replica index stays below the
\* replicas that exist, and its versions never get negative.
TypeOK ==
  /\ template \in Templates /\ cr \in Templates
  /\ extName \in BOOLEAN /\ pending \in BOOLEAN
  /\ servers \subseteq Server /\ volumes \subseteq Volume /\ nics \subseteq NIC
  /\ identity \subseteq Name
  /\ pc \in Steps \cup Loops /\ phase \in {"do", "wait", "discard"}
  /\ mode \in {"none", "create", "update", "bootVolume", "all"}
  /\ master \in Idx \cup {NoMaster} /\ cur \in Idx
  /\ vv \in Nat /\ sv \in Nat /\ todo \subseteq Name
  /\ faults \in [edits : Nat, crashes : Nat, errors : Nat, rejects : Nat]

Init ==
  /\ template \in Templates
  /\ cr = template
  /\ extName = FALSE /\ pending = FALSE
  /\ servers = {} /\ volumes = {} /\ nics = {} /\ identity = {}
  /\ pc = "idle" /\ phase = "do" /\ mode = "none" /\ master = NoMaster
  /\ cur = 0 /\ vv = 0 /\ sv = 0 /\ todo = {}
  /\ faults = [edits |-> 0, crashes |-> 0, errors |-> 0, rejects |-> 0]

-----------------------------------------------------------------------------
(* The end of a reconcile: the worker's locals die with it.                  *)
Return ==
  /\ pc' = "idle" /\ phase' = "do" /\ mode' = "none" /\ master' = NoMaster
  /\ cur' = 0 /\ vv' = 0 /\ sv' = 0 /\ todo' = {} /\ UNCHANGED cr

\* An error ends the reconcile; after Create the runtime records the failure,
\* so that external-create-pending has a result.
ReturnError == Return /\ pending' = FALSE /\ UNCHANGED <<template, extName, identity>>

Goto(p) == pc' = p /\ phase' = "do"
Proceed == Goto(After[mode][pc])
Await == phase' = "wait" /\ UNCHANGED pc

\* Mutants of Exists: more than enough is enough; the NICs are not counted.
ExistsAtLeast ==
  /\ Cardinality(servers) >= template.replicas
  /\ Cardinality(volumes) >= template.replicas
  /\ Cardinality(nics) >= template.replicas
ExistsWithoutNICs ==
  /\ Cardinality(servers) = template.replicas
  /\ Cardinality(volumes) = template.replicas

\* Observe: the resource exists when the three counts match.
Exists ==
  /\ Cardinality(servers) = template.replicas
  /\ Cardinality(volumes) = template.replicas
  /\ Cardinality(nics) = template.replicas

\* The lists are unsorted and the comparison stops at the first object that is
\* outdated or not available, so what it reports depends on their order.
OutdatedServer(s) == s.cores # template.cores
OutdatedVolume(v) == v.image # template.image \/ v.size # template.size
MaySeeOutdated == (\E s \in servers : OutdatedServer(s)) \/ (\E v \in volumes : OutdatedVolume(v))
MaySeeUpToDate ==
  /\ \/ \A s \in servers : ~OutdatedServer(s)
     \/ \E s \in servers : ~OutdatedServer(s) /\ MaySeeBusy(s)
  /\ \/ \A v \in volumes : ~OutdatedVolume(v)
     \/ \E v \in volumes : ~OutdatedVolume(v) /\ MaySeeBusy(v)

\* The server whose status gets the role ACTIVE, if it is READY.
IsActive(s) == IF UseIdentity THEN [idx |-> s.idx, ver |-> s.ver] \in identity
               ELSE s.idx = 0
Masters ==
  {s.idx : s \in {t \in servers : IsActive(t) /\ MaySeeAvailable(t)}}
    \cup (IF \A s \in servers : IsActive(s) => MaySeeBusy(s)
          THEN {NoMaster} ELSE {})

ObserveMissing ==
  /\ pc = "idle" /\ ~pending /\ ~(extName /\ Exists)
  /\ Goto("versions") /\ mode' = "create" /\ cr' = template /\ pending' = TRUE
  /\ UNCHANGED <<objects, template, extName, identity, master, cur, vv, sv,
                 todo, faults>>

ObserveOutdated ==
  /\ pc = "idle" /\ ~pending /\ extName /\ Exists /\ MaySeeOutdated
  /\ master' \in Masters
  /\ Goto("servers") /\ mode' = "update" /\ cr' = template
  /\ todo' = Names(servers)
  /\ UNCHANGED <<objects, cluster, cur, vv, sv, faults>>

ObserveUpToDate ==
  /\ pc = "idle" /\ ~pending /\ extName /\ Exists /\ MaySeeUpToDate
  /\ UNCHANGED vars

-----------------------------------------------------------------------------
(* Create: every replica in turn, then the external name.                    *)

\* getVersionsFromVolumeAndServer tolerates a missing volume or server.
GetVersions ==
  LET vols == Of(volumes, cur)
      srvs == Of(servers, cur)
      tooMany == TooMany(vols) \/ (vols # {} /\ TooMany(srvs))
  IN /\ pc = "versions"
     /\ \/ tooMany /\ ReturnError
        \/ /\ ~tooMany
           /\ vv' \in (IF vols = {} THEN {0} ELSE {v.ver : v \in vols})
           /\ sv' \in (IF vols = {} \/ srvs = {} THEN {0} ELSE {s.ver : s \in srvs})
           /\ Goto("server")
           /\ UNCHANGED <<cluster, mode, cr, master, cur, todo>>
     /\ UNCHANGED <<objects, faults>>

\* Mutant of NextReplica: one replica too many.
NextReplicaPastEnd ==
  /\ pc = "next"
  /\ IF cur < cr.replicas
     THEN /\ cur' = cur + 1 /\ Goto("versions")
          /\ UNCHANGED <<cluster, mode, cr, master, vv, sv, todo>>
     ELSE /\ extName' = TRUE /\ pending' = FALSE /\ Return
          /\ UNCHANGED <<template, identity>>
  /\ UNCHANGED <<objects, faults>>

NextReplica ==
  /\ pc = "next"
  /\ IF cur + 1 < cr.replicas
     THEN /\ cur' = cur + 1 /\ Goto("versions")
          /\ UNCHANGED <<cluster, mode, cr, master, vv, sv, todo>>
     ELSE /\ extName' = TRUE /\ pending' = FALSE /\ Return
          /\ UNCHANGED <<template, identity>>
  /\ UNCHANGED <<objects, faults>>

\* Create looks for any object of the replica, an update for the new version.
Ensured(set, ver) == IF mode = "create" THEN Of(set, cur) ELSE At(set, cur, ver)

EnsureServer ==
  LET found == Ensured(servers, sv)
      noId == mode = "create" /\ \E s \in found : ~HasId(s)
  IN /\ pc = "server" /\ phase = "do"
     /\ \/ /\ mode = "create" /\ TooMany(found)
           /\ ReturnError /\ UNCHANGED servers
        \/ /\ found = {}
           /\ servers' = servers \cup {[idx |-> cur, ver |-> sv, cores |-> cr.cores,
                                        boot |-> NoVolume, status |-> "PENDING"]}
           /\ Await
           /\ UNCHANGED <<cluster, mode, cr, master, cur, vv, sv, todo>>
        \/ /\ found # {} /\ ~TooMany(found) /\ noId
           /\ servers' = {IF s \in found THEN [s EXCEPT !.status = "DELETING"] ELSE s
                            : s \in servers}
           /\ sv' \in {s.ver : s \in found}
           /\ phase' = "discard"
           /\ UNCHANGED <<cluster, pc, mode, cr, master, cur, vv, todo>>
        \/ /\ found # {} /\ ~(mode = "create" /\ TooMany(found)) /\ ~noId
           /\ Proceed
           /\ UNCHANGED <<servers, cluster, mode, cr, master, cur, vv, sv, todo>>
     /\ UNCHANGED <<volumes, nics, faults>>

EnsureVolume ==
  LET found == Ensured(volumes, vv)
      tooMany == mode = "create" /\ TooMany(found)
  IN /\ pc = "volume" /\ phase = "do"
     /\ \/ tooMany /\ ReturnError /\ UNCHANGED volumes
        \/ /\ found = {}
           /\ volumes' = volumes \cup {[idx |-> cur, ver |-> vv, image |-> cr.image,
                                        size |-> cr.size, status |-> "PENDING"]}
           /\ Await
           /\ UNCHANGED <<cluster, mode, cr, master, cur, vv, sv, todo>>
        \/ /\ found # {} /\ ~tooMany /\ Proceed
           /\ UNCHANGED <<volumes, cluster, mode, cr, master, cur, vv, sv, todo>>
     /\ UNCHANGED <<servers, nics, faults>>

\* An existing NIC must be available.
EnsureNIC ==
  LET found == At(nics, cur, sv)
  IN /\ pc = "nic" /\ phase = "do"
     /\ \/ /\ found = {}
           /\ nics' = nics \cup {[idx |-> cur, ver |-> sv, status |-> "PENDING"]}
           /\ Await
           /\ UNCHANGED <<cluster, mode, cr, master, cur, vv, sv, todo>>
        \/ /\ \E n \in found : n.status # "AVAILABLE"
           /\ ReturnError /\ UNCHANGED nics
        \/ /\ \E n \in found : n.status = "AVAILABLE"
           /\ Proceed
           /\ UNCHANGED <<nics, cluster, mode, cr, master, cur, vv, sv, todo>>
     /\ UNCHANGED <<servers, volumes, faults>>

\* The object the current step has created or is deleting.
Awaited ==
  CASE pc = "server" -> At(servers, cur, sv)
    [] pc = "volume" -> At(volumes, cur, vv)
    [] pc = "nic" -> At(nics, cur, sv)
    [] pc = "deleteVolume" -> At(volumes, cur, vv - 1)
    [] pc = "deleteServer" -> At(servers, cur, sv - 1)
    [] pc = "deleteNIC" -> At(nics, cur, sv - 1)
    [] OTHER -> {}

Creates == {"server", "volume", "nic"}
Deletes == {"deleteVolume", "deleteServer", "deleteNIC"}

WaitAvailable ==
  /\ pc \in Creates /\ phase = "wait"
  /\ \E o \in Awaited : o.status = "AVAILABLE"
  /\ Proceed
  /\ UNCHANGED <<objects, cluster, mode, cr, master, cur, vv, sv, todo, faults>>

\* The API rejected the object (422): it is deleted, the error returned.
WaitRejected ==
  /\ pc \in Creates /\ phase = "wait" /\ faults.rejects < MaxRejects
  /\ \E o \in Awaited : o.status = "PENDING"
  /\ servers' = IF pc = "server" THEN Mark(servers, cur, sv, "DELETING") ELSE servers
  /\ volumes' = IF pc = "volume" THEN Mark(volumes, cur, vv, "DELETING") ELSE volumes
  /\ nics' = IF pc = "nic" THEN Mark(nics, cur, sv, "DELETING") ELSE nics
  /\ phase' = "discard"
  /\ faults' = [faults EXCEPT !.rejects = @ + 1]
  /\ UNCHANGED <<cluster, pc, mode, cr, master, cur, vv, sv, todo>>

Discarded ==
  /\ phase = "discard" /\ Awaited = {}
  /\ ReturnError /\ UNCHANGED <<objects, faults>>

\* The volume's ID is copied into the server's spec, whatever it is.
Attach ==
  /\ pc = "attach"
  /\ \/ /\ At(volumes, cur, vv) = {} \/ At(servers, cur, sv) = {}
        /\ ReturnError /\ UNCHANGED servers
     \/ /\ At(servers, cur, sv) # {}
        /\ \E v \in At(volumes, cur, vv) :
             LET id == IF HasId(v) THEN vv ELSE NoVolume
             IN servers' = {IF s \in At(servers, cur, sv) /\ s.boot # id
                            THEN [s EXCEPT !.boot = id, !.status = Changed(@)]
                            ELSE s : s \in servers}
        /\ Proceed
        /\ UNCHANGED <<cluster, mode, cr, master, cur, vv, sv, todo>>
  /\ UNCHANGED <<volumes, nics, faults>>

-----------------------------------------------------------------------------
(* Update, first loop: the servers whose cores differ from the template.     *)
(* One that is gone cannot be updated, if the copy in the list asks for it.  *)
UpdateServer ==
  /\ pc = "servers" /\ phase = "do"
  /\ \E name \in todo :
       LET vols == Of(volumes, name.idx)
           this == {s \in At(servers, name.idx, name.ver) : s.cores # cr.cores}
       IN \/ /\ TooMany(vols) \/ vols = {} \/ At(servers, name.idx, name.ver) = {}
             /\ ReturnError /\ UNCHANGED servers
          \/ /\ ~TooMany(vols) /\ vols # {}
             /\ servers' = {IF s \in this
                            THEN [s EXCEPT !.cores = cr.cores, !.status = Changed(@)]
                            ELSE s : s \in servers}
             /\ todo' = todo \ {name}
             /\ IF this # {} /\ ~HotPlug
                THEN Await /\ cur' = name.idx /\ sv' = name.ver
                ELSE UNCHANGED <<pc, phase, cur, sv>>
             /\ UNCHANGED <<cluster, mode, cr, master, vv>>
  /\ UNCHANGED <<volumes, nics, faults>>

\* Without hot plug the server reboots: wait until its update has finished.
WaitUpdated ==
  /\ pc = "servers" /\ phase = "wait"
  /\ \E s \in At(servers, cur, sv) : s.status = "AVAILABLE"
  /\ phase' = "do" /\ cur' = 0 /\ sv' = 0
  /\ UNCHANGED <<objects, cluster, pc, mode, cr, master, vv, todo, faults>>

ServersDone ==
  /\ pc = "servers" /\ phase = "do" /\ todo = {}
  /\ Goto("volumes") /\ todo' = Names(volumes)
  /\ UNCHANGED <<objects, cluster, mode, cr, master, cur, vv, sv, faults>>

-----------------------------------------------------------------------------
(* Update, second loop: the boot volumes.                                    *)
Recreate(v) == v.image # cr.image

NeverDeferred(v) == FALSE   \* mutant: the master is re-created in list order

\* "We want to recreate master at the end."
Deferred(v) == v.idx = master

\* updateByIndex: the versions, and the strategy's steps for that replica.
UpdateByIndex(i) ==
  LET vols == Of(volumes, i)
      srvs == Of(servers, i)
      all == cr.strategy = "createAllBeforeDestroy"
  IN \/ /\ TooMany(vols) \/ TooMany(srvs) \/ vols = {} \/ srvs = {}
        /\ ReturnError
     \/ /\ ~TooMany(vols) /\ ~TooMany(srvs)
        /\ \E v \in vols, s \in srvs :
             /\ vv' = v.ver + 1
             /\ sv' = IF all THEN s.ver + 1 ELSE s.ver
        /\ mode' = (IF all THEN "all" ELSE "bootVolume")
        /\ Goto(IF all THEN "server" ELSE "volume")
        /\ cur' = i /\ todo' = {}
        /\ UNCHANGED <<cluster, cr, master>>

\* A volume that only differs in size is updated in place; the first one to be
\* re-created ends the loop, unless it is the master's, which is deferred.  A
\* listed volume that is gone by now fails the lookup or the update.
UpdateVolume ==
  /\ pc = "volumes"
  /\ \/ /\ \E name \in todo : At(volumes, name.idx, name.ver) = {}
        /\ ReturnError /\ UNCHANGED volumes
     \/ \E name \in todo : \E v \in At(volumes, name.idx, name.ver) :
       \/ /\ Recreate(v) /\ ~Deferred(v)
          /\ UpdateByIndex(v.idx) /\ UNCHANGED volumes
       \/ /\ Recreate(v) => Deferred(v)
          /\ volumes' = IF Recreate(v) \/ v.size = cr.size THEN volumes
                        ELSE (volumes \ {v}) \cup
                             {[v EXCEPT !.size = cr.size, !.status = Changed(@)]}
          /\ todo' = todo \ {name}
          /\ UNCHANGED <<cluster, pc, phase, mode, cr, master, cur, vv, sv>>
  /\ UNCHANGED <<servers, nics, faults>>

UpdateMaster ==
  /\ pc = "volumes" /\ todo = {}
  /\ \E v \in volumes : v.idx = master /\ Recreate(v)
  /\ UpdateByIndex(master)
  /\ UNCHANGED <<objects, faults>>

VolumesDone ==
  /\ pc = "volumes" /\ todo = {}
  /\ ~\E v \in volumes : v.idx = master /\ Recreate(v)
  /\ Return /\ UNCHANGED <<objects, cluster, faults>>

\* cleanupCondemned and the boot volume strategy's last step.
Destroy ==
  /\ pc \in Deletes /\ phase = "do"
  /\ \/ Awaited = {} /\ ReturnError /\ UNCHANGED objects
     \/ /\ Awaited # {}
        /\ volumes' = IF pc = "deleteVolume"
                      THEN Mark(volumes, cur, vv - 1, "DELETING") ELSE volumes
        /\ servers' = IF pc = "deleteServer"
                      THEN Mark(servers, cur, sv - 1, "DELETING") ELSE servers
        /\ nics' = IF pc = "deleteNIC"
                   THEN Mark(nics, cur, sv - 1, "DELETING") ELSE nics
        /\ Await
        /\ UNCHANGED <<cluster, mode, cr, master, cur, vv, sv, todo>>
  /\ UNCHANGED faults

WaitDestroyed ==
  /\ pc \in Deletes /\ phase = "wait" /\ Awaited = {}
  /\ Proceed
  /\ UNCHANGED <<objects, cluster, mode, cr, master, cur, vv, sv, todo, faults>>

Finish ==
  /\ pc = "finish"
  /\ Return /\ UNCHANGED <<objects, cluster, faults>>

-----------------------------------------------------------------------------
(* Failures of the worker.                                                   *)

\* A call to the Kubernetes API fails, or a wait ends with an error other than
\* 422 or with its timeout: the step returns the error, its objects stay.
Fail ==
  /\ pc # "idle" /\ faults.errors < MaxErrors
  /\ ReturnError
  /\ faults' = [faults EXCEPT !.errors = @ + 1]
  /\ UNCHANGED objects

\* The provider restarts.
Crash ==
  /\ pc # "idle" /\ faults.crashes < MaxCrashes
  /\ Return
  /\ faults' = [faults EXCEPT !.crashes = @ + 1]
  /\ UNCHANGED <<objects, cluster>>

\* After a crash in Create the runtime refuses to go on until an operator
\* removes the external-create-pending annotation.
RemovePending ==
  /\ pc = "idle" /\ pending
  /\ pending' = FALSE
  /\ UNCHANGED <<objects, worker, template, extName, identity, faults>>

-----------------------------------------------------------------------------
(* The environment: the user, the elected software, the other controllers.   *)

\* Replicas "cannot be decreased once set, only increased".
Edit ==
  /\ faults.edits < MaxEdits
  /\ \E t \in Templates :
       /\ t # template /\ t.replicas >= template.replicas
       /\ Scale \/ t.replicas = template.replicas
       /\ template' = t
  /\ faults' = [faults EXCEPT !.edits = @ + 1]
  /\ UNCHANGED <<objects, worker, extName, pending, identity>>

Elect ==
  /\ UseIdentity
  /\ \E s \in servers :
       /\ s.status \in {"AVAILABLE", "UPDATING"}
       /\ identity' = {[idx |-> s.idx, ver |-> s.ver]}
  /\ UNCHANGED <<objects, worker, template, extName, pending, faults>>

Advance(st) == IF st = "PENDING" THEN "BUSY" ELSE "AVAILABLE"
Settles(o) == o.status \in {"PENDING", "BUSY", "UPDATING"}

ServerSettles ==
  /\ \E s \in servers :
       /\ Settles(s)
       /\ servers' = (servers \ {s}) \cup {[s EXCEPT !.status = Advance(@)]}
  /\ UNCHANGED <<volumes, nics, worker, cluster, faults>>

VolumeSettles ==
  /\ \E v \in volumes :
       /\ Settles(v)
       /\ volumes' = (volumes \ {v}) \cup {[v EXCEPT !.status = Advance(@)]}
  /\ UNCHANGED <<servers, nics, worker, cluster, faults>>

NICSettles ==
  /\ \E n \in nics :
       /\ Settles(n)
       /\ nics' = (nics \ {n}) \cup {[n EXCEPT !.status = Advance(@)]}
  /\ UNCHANGED <<servers, volumes, worker, cluster, faults>>

Removed ==
  /\ \/ \E s \in servers : /\ s.status = "DELETING" /\ servers' = servers \ {s}
                           /\ UNCHANGED <<volumes, nics>>
     \/ \E v \in volumes : /\ v.status = "DELETING" /\ volumes' = volumes \ {v}
                           /\ UNCHANGED <<servers, nics>>
     \/ \E n \in nics : /\ n.status = "DELETING" /\ nics' = nics \ {n}
                        /\ UNCHANGED <<servers, volumes>>
  /\ UNCHANGED <<worker, cluster, faults>>

-----------------------------------------------------------------------------
Reconcile ==
  \/ ObserveMissing \/ ObserveOutdated \/ ObserveUpToDate
  \/ GetVersions \/ EnsureServer \/ EnsureNIC \/ EnsureVolume \/ Attach \/ NextReplica
  \/ WaitAvailable \/ Discarded
  \/ UpdateServer \/ WaitUpdated \/ ServersDone
  \/ UpdateVolume \/ UpdateMaster \/ VolumesDone
  \/ Destroy \/ WaitDestroyed \/ Finish

Settle == ServerSettles \/ VolumeSettles \/ NICSettles \/ Removed

Next ==
  \/ Reconcile \/ WaitRejected \/ Fail \/ Crash \/ RemovePending
  \/ Edit \/ Elect \/ Settle

Spec == Init /\ [][Next]_vars

\* The work queue keeps requeueing the resource, and the controllers of the
\* servers, volumes and NICs bring every object to rest.
FairSpec == Spec /\ WF_vars(Reconcile) /\ WF_vars(Settle)
-----------------------------------------------------------------------------
(* Properties.                                                               *)

Live(set) == {o \in set : o.status # "DELETING"}

\* Replica i has a server and the boot volume its spec names, neither of them
\* being deleted.
Served(i) ==
  \E s \in Live(servers), v \in Live(volumes) :
    s.idx = i /\ v.idx = i /\ s.boot = v.ver

\* No step of the controller or of its environment takes a working replica
\* down: both update strategies have the new server or volume in place before
\* they destroy the old one (apis/compute/v1alpha1/serverset_types.go:374-377),
\* whatever fails, and wherever the provider restarts.
ServedStable == [][\A i \in Idx : Served(i) => Served(i)']_vars

Surplus(i) ==
  TooMany(Of(servers, i)) \/ TooMany(Of(volumes, i)) \/ TooMany(Of(nics, i))

\* The update is rolling: at no time, not even after a failed replacement, are
\* two replicas being replaced (the return after each one in
\* updateOrRecreateVolumes, and the counts compared by Observe, enforce it).
\* True while spec.replicas is not raised: the totals of a raise may hide the
\* surplus of a failed replacement.
OneReplacement == \A i, j \in Idx : Surplus(i) /\ Surplus(j) => i = j

\* Observe compares totals only.  The totals do not hide a surplus of one
\* replica behind a missing object of another: when it reports that the
\* resource exists, every replica has one server, one volume and one NIC, so
\* Create is called whenever there is something "to (re)create"
\* (serverset.go:175-177).  It is true while spec.replicas is not raised, of
\* servers and NICs whatever failed; of volumes as long as no object was
\* rejected, or one step at most failed or was cut off by a restart: one cut
\* that leaves a rejected volume behind and one that leaves a replaced volume
\* behind, of another replica, add up to the right total.
ExistsIsExact ==
  /\ faults.rejects = 0 \/ faults.errors + faults.crashes <= 1
  /\ pc = "idle" /\ extName /\ Exists
  => \A i \in 0 .. template.replicas - 1 :
       /\ Cardinality(Of(servers, i)) = 1
       /\ Cardinality(Of(volumes, i)) = 1
       /\ Cardinality(Of(nics, i)) = 1

\* The replacement of the replica whose status was ACTIVE when the reconcile
\* began starts only after every other boot volume matches the worker's spec:
\* "we want to recreate master at the end" (serverset.go:622).
MasterLast ==
  [][mode = "update" /\ mode' \in {"bootVolume", "all"} /\ cur' = master =>
       \A v \in volumes : v.idx # master => ~Recreate(v)]_vars

\* A replica runs the images of the live volumes that its live servers boot from.
RunningImages(i) ==
  {v.image : v \in {w \in Live(volumes) :
     w.idx = i /\ \E s \in Live(servers) : s.idx = i /\ s.boot = w.ver}}

Rolling == INSTANCE RollingReplacement WITH
  Replicas <- Idx, wanted <- template.image, accepted <- cr.image,
  running <- [i \in Idx |-> RunningImages(i)]

\* The controller implements the abstract rolling replacement: images change one
\* replica at a time, towards the spec the worker holds, and a running replica
\* always has an image to boot from (updateOrRecreateVolumes and the two
\* strategies' update).
ImplementsRolling == Rolling!Spec

\* Everything matches the template and nothing is surplus or unattached.
Converged ==
  /\ extName /\ Exists
  /\ \A s \in servers : ~OutdatedServer(s)
  /\ \A v \in volumes : ~OutdatedVolume(v)
  /\ \A i \in 0 .. template.replicas - 1 : Served(i)

\* Once the user stops editing, the controller brings every replica to the
\* template, and leaves it there.
Converges == <>[]Converged
=============================================================================
