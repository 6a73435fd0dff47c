------------------------------ MODULE Failover ------------------------------
(* How a ServerSet with a state map reboots its VMs one at a time            *)
(* (internal/controller/serverset/serverset.go: updateServersFromTemplate,   *)
(* updateOrRecreateVolumes and what they call).  The software of every VM    *)
(* reports into a ConfigMap, the state map; before a reboot the set's worker *)
(* looks whether every entry is good, and after it waits for the entry of    *)
(* the VM.  The Server controller, the VMs, a restart of the provider and    *)
(* the user run side by side with it.                                        *)
(*                                                                           *)
(* Abstractions: a field is its version; cores stands for the fields that    *)
(* can be changed on a running VM, image for those of the boot volume that   *)
(* make it a new one.  How a replica is replaced is module ServerSet: here   *)
(* it is one step, which succeeds or does nothing.  A time is where it lies  *)
(* among the provider's start and the request the worker waits on, and the   *)
(* clocks agree.                                                             *)
EXTENDS Naturals, FiniteSets

CONSTANTS Replicas, NoReplica,
          HotPlug,        \* CPUHotPlug of the boot volumes
          Strategies,     \* the update strategies a set may be made with
          MaxEdits,       \* a bound on what the user changes
          MaxTrouble      \* a bound on restarts, failed calls and broken VMs

ASSUME ReplicasAssumption == NoReplica \notin Replicas
ASSUME HotPlugAssumption == HotPlug \in BOOLEAN
ASSUME BoundsAssumption == MaxEdits \in Nat /\ MaxTrouble \in Nat
ASSUME StrategiesAssumption ==
  Strategies \subseteq {"createAllBeforeDestroy", "createBeforeDestroyBootVolume"}

Version == 0 .. MaxEdits
ServerParameters == [cores : Version, nicMultiQueue : Version]
Templates == [server : ServerParameters, image : Version, strategy : Strategies]

\* An entry of the state map: "none" is a missing, empty or other state; the
\* time is zero, before the provider's start, since it, or after the request.
Entries == [state : {"none", "VM-RUNNING", "VM-ERROR"},
            time : {"zero", "before", "since", "after"}]
NoEntry == [state |-> "none", time |-> "zero"]

VARIABLES
  template,    \* spec.forProvider of the ServerSet
  servers,     \* the parameters of each replica's Server object
  volumes,     \* the image of each replica's boot volume
  vm,          \* each VM: its software is up, broken, or down for a reboot
  pending,     \* the Server controller has yet to carry out a reboot
  map,         \* the state map, by the name of the replica's server
  pc, cr,      \* the worker: where it is, and its copy of the template
  target,      \* the replica whose VM it is about to reboot
  seen,        \* the VMs found good so far
  answer,      \* the Updated condition, if later than the request
  old,         \* the entry of the server a replacement destroyed
  tick,        \* the clock still shows the second of the request
  sick,        \* the VMs whose errors the map has shown since the run began
  overlooked,  \* the VMs whose reboot the map cannot tell the worker of
  used         \* how much of each bound is spent

object == <<servers, volumes, pending>>
wait == <<target, seen, answer, old, tick>>
vars == <<template, servers, volumes, vm, pending, map, pc, cr, target, seen,
          answer, old, tick, sick, overlooked, used>>

Waits == {"finish", "software", "await"}

\* The variables have their types (serverset.go, serverset_types.go:87-108).
TypeOK ==
  /\ template \in Templates /\ cr \in Templates
  /\ servers \in [Replicas -> ServerParameters]
  /\ volumes \in [Replicas -> Version]
  /\ vm \in [Replicas -> {"up", "bad", "down"}]
  /\ pending \in [Replicas -> BOOLEAN]
  /\ map \in [Replicas -> Entries] /\ old \in Entries
  /\ pc \in {"idle", "servers", "check"} \cup Waits
  /\ target \in Replicas \cup {NoReplica}
  /\ seen \subseteq Replicas /\ sick \subseteq Replicas /\ overlooked \subseteq Replicas
  /\ answer \in {"none", "True", "False"} /\ tick \in BOOLEAN
  /\ used \in [edits : 0 .. MaxEdits, trouble : 0 .. MaxTrouble]

Init ==
  /\ template \in {t \in Templates : t.image = 0 /\ t.server = [cores |-> 0, nicMultiQueue |-> 0]}
  /\ cr = template
  /\ servers = [i \in Replicas |-> template.server]
  /\ volumes = [i \in Replicas |-> 0]
  /\ vm = [i \in Replicas |-> "up"]
  /\ pending = [i \in Replicas |-> FALSE]
  /\ map \in [Replicas -> [state : {"VM-RUNNING"}, time : {"zero", "since"}]]
  /\ pc = "idle" /\ target = NoReplica /\ seen = {} /\ answer = "none" /\ old = NoEntry
  /\ tick = FALSE /\ sick = {} /\ overlooked = {}
  /\ used = [edits |-> 0, trouble |-> 0]

Trouble == used.trouble < MaxTrouble /\ used' = [used EXCEPT !.trouble = @ + 1]

-----------------------------------------------------------------------------
(* What an entry says to one who asks for news since the provider's start or *)
(* since the request; a zero time is always recent.                          *)

Stale(e, since) ==
  e.time # "zero" /\ e.time \in (IF since = "start" THEN {"before"} ELSE {"before", "since"})
Running(e, since) == e.state = "VM-RUNNING" /\ ~Stale(e, since)
Failed(e, since) == e.state = "VM-ERROR" /\ ~Stale(e, since)

Aged(e) == IF e.time = "after" THEN [e EXCEPT !.time = "since"] ELSE e
BeforeStart(e) == IF e.time = "zero" THEN e ELSE [e EXCEPT !.time = "before"]
Now == IF pc \in Waits /\ ~tick THEN "after" ELSE "since"

\* The reboot of i is yet to come, or its entry does not show it.
Hidden(i) == pending[i] \/ (vm[i] = "down" /\ map[i].state = "VM-RUNNING")

-----------------------------------------------------------------------------
(* The worker: a run of Update.                                              *)

Outdated(i) == servers[i] # template.server
OldImage(i) == volumes[i] # template.image

Start == pc' = "servers" /\ cr' = template
         /\ sick' = {i \in Replicas : map[i].state = "VM-ERROR"}

\* Observe asks for Update when a list order puts an outdated server first, or
\* when a volume is outdated and no error is met in the map, be it because a
\* server that is not ready is met before.
Observe ==
  /\ pc = "idle"
  /\ \/ \E i \in Replicas : Outdated(i)
     \/ /\ \E i \in Replicas : OldImage(i)
        /\ \/ \A i \in Replicas : map[i].state # "VM-ERROR"
           \/ \E i \in Replicas : map[i].state = "none" \/ pending[i]
  /\ Start
  /\ UNCHANGED <<template, object, vm, map, wait, overlooked, used>>

\* The state map cannot be read: its errors are not met either.
ObserveUnread ==
  /\ pc = "idle" /\ \E i \in Replicas : OldImage(i)
  /\ Trouble
  /\ Start
  /\ UNCHANGED <<template, object, vm, map, wait, overlooked>>

Due(i) == servers[i] # cr.server
NeedsFailover(i) ==
  \/ servers[i].nicMultiQueue # cr.server.nicMultiQueue
  \/ ~HotPlug /\ servers[i].cores # cr.server.cores

CountUp(i) ==   \* mutant: the patch adds to the cores instead of setting them
  /\ pc = "servers" /\ Due(i) /\ ~NeedsFailover(i)
  /\ servers' = [servers EXCEPT ![i].cores = @ + 2]
  /\ UNCHANGED <<template, volumes, vm, pending, map, pc, cr, wait, sick, overlooked, used>>

UpdateRunning(i) ==
  /\ pc = "servers" /\ Due(i) /\ ~NeedsFailover(i)
  /\ servers' = [servers EXCEPT ![i] = cr.server]
  /\ UNCHANGED <<template, volumes, vm, pending, map, pc, cr, wait, sick, overlooked, used>>

SelectServers(i) ==     \* mutant: the boot volumes are left as they are
  /\ pc = "servers" /\ Due(i) /\ NeedsFailover(i)
  /\ pc' = "check" /\ target' = i
  /\ UNCHANGED <<template, object, vm, map, cr, seen, answer, old, tick, sick,
                 overlooked, used>>

\* The servers come first, in list order; then one boot volume.
Select(i) ==
  /\ pc = "servers"
  /\ \/ Due(i) /\ NeedsFailover(i)
     \/ volumes[i] # cr.image /\ \A j \in Replicas : ~Due(j)
  /\ pc' = "check" /\ target' = i
  /\ UNCHANGED <<template, object, vm, map, cr, seen, answer, old, tick, sick,
                 overlooked, used>>

Leave(p) ==
  /\ pc' = p /\ target' = NoReplica /\ seen' = {} /\ answer' = "none" /\ old' = NoEntry
  /\ tick' = FALSE
  /\ map' = [i \in Replicas |-> Aged(map[i])]
  /\ UNCHANGED <<template, object, vm, cr, sick>>

NothingLeft ==
  /\ pc = "servers" /\ \A i \in Replicas : ~Due(i) /\ volumes[i] = cr.image
  /\ Leave("idle") /\ UNCHANGED <<overlooked, used>>

\* areAllVMsReadyForFailover reads the map once for every server.
AnyAge(i) ==     \* mutant: reports from before the provider's start count
  map[i].state = "VM-RUNNING"
AnyState(i) ==   \* mutant: it is enough that the software reports
  map[i].state # "none" /\ ~Stale(map[i], "start")
Checked(i) == Running(map[i], "start")

CheckVM(i) ==
  /\ pc = "check" /\ i \notin seen /\ Checked(i)
  /\ seen' = seen \cup {i}
  /\ UNCHANGED <<template, object, vm, map, pc, cr, target, answer, old, tick, sick,
                 overlooked, used>>

CheckFails ==
  /\ pc = "check"
  /\ \/ (\E i \in Replicas \ seen : ~Checked(i)) /\ UNCHANGED used
     \/ Trouble   \* the map, or the server, cannot be got
  /\ Leave("idle") /\ UNCHANGED overlooked

\* A zero time shows nothing of the reboot asked for.
Blind(i) == IF map[i].time = "zero" THEN {i} ELSE {}

AskServer(i) ==
  /\ pc = "check" /\ target = i /\ seen = Replicas /\ Due(i)
  /\ servers' = [servers EXCEPT ![i] = cr.server]
  /\ pending' = [pending EXCEPT ![i] = TRUE]
  /\ pc' = "finish" /\ tick' = TRUE
  /\ overlooked' = overlooked \cup Blind(i)
  /\ UNCHANGED <<template, volumes, vm, map, cr, target, seen, answer, old, sick, used>>

\* createBeforeDestroyBootVolume: the Server is given the new volume, and
\* nobody waits until its controller has attached it.
ReplaceVolume(i) ==
  /\ pc = "check" /\ target = i /\ seen = Replicas /\ ~Due(i)
  /\ cr.strategy = "createBeforeDestroyBootVolume"
  /\ volumes' = [volumes EXCEPT ![i] = cr.image]
  /\ pending' = [pending EXCEPT ![i] = TRUE]
  /\ pc' = "await" /\ tick' = TRUE
  /\ overlooked' = overlooked \cup Blind(i)
  /\ UNCHANGED <<template, servers, vm, map, cr, target, seen, answer, old, sick, used>>

\* createAllBeforeDestroy: the new server has a new name and no entry yet; the
\* wait is for the entry of the destroyed one, which may have reported while
\* it was being replaced.
LastEntries(i) ==
  {map[i]} \cup (CASE vm[i] = "up" -> {[state |-> "VM-RUNNING", time |-> "after"]}
                   [] vm[i] = "bad" -> {[state |-> "VM-ERROR", time |-> "after"]}
                   [] vm[i] = "down" -> {NoEntry})

ReplaceAll(i) ==
  /\ pc = "check" /\ target = i /\ seen = Replicas /\ ~Due(i)
  /\ cr.strategy = "createAllBeforeDestroy"
  /\ volumes' = [volumes EXCEPT ![i] = cr.image]
  /\ pending' = [pending EXCEPT ![i] = FALSE]
  /\ vm' = [vm EXCEPT ![i] = "down"]
  /\ map' = [map EXCEPT ![i] = NoEntry]
  /\ old' \in LastEntries(i)
  /\ pc' = "await" /\ tick' = TRUE
  /\ overlooked' = overlooked \ {i}
  /\ sick' = sick \ {i}
  /\ UNCHANGED <<template, servers, cr, target, seen, answer, used>>

UpdateFinished ==
  /\ pc = "finish" /\ answer = "True"
  /\ pc' = "software"
  /\ UNCHANGED <<template, object, vm, map, cr, wait, sick, overlooked, used>>

Awaited == IF pc = "await" /\ cr.strategy = "createAllBeforeDestroy"
           THEN old ELSE map[target]

SoftwareRunning ==
  /\ pc \in {"software", "await"} /\ Running(Awaited, "request")
  /\ Leave(IF pc = "software" THEN "servers" ELSE "idle")
  /\ UNCHANGED <<overlooked, used>>

GiveUp ==
  /\ Leave("idle")
  /\ overlooked' = overlooked \cup (IF Hidden(target) THEN {target} ELSE {})
  /\ UNCHANGED used

WaitFails ==
  /\ \/ pc = "finish" /\ answer = "False"
     \/ pc \in {"software", "await"} /\ Failed(Awaited, "request")
  /\ GiveUp

\* ResourceReadyTimeout, VMRebootTimeout; they may race the answer.
Timeout == pc \in Waits /\ GiveUp

-----------------------------------------------------------------------------
(* The Server controller: its answer counts if it is of a later second.      *)

Answered(i, status) ==
  answer' = IF pc = "finish" /\ target = i /\ ~tick THEN status ELSE answer

CarryOut(i) ==
  /\ pending[i]
  /\ pending' = [pending EXCEPT ![i] = FALSE]
  /\ vm' = [vm EXCEPT ![i] = "down"]
  /\ Answered(i, "True")
  /\ UNCHANGED <<template, servers, volumes, map, pc, cr, target, seen, old, tick, sick,
                 overlooked, used>>

\* An update that failed is tried again, or the cloud carries it out after all.
UpdateFails(i) ==
  /\ pending[i] /\ Trouble
  /\ Answered(i, "False")
  /\ \/ UNCHANGED <<pending, vm>>
     \/ /\ pending' = [pending EXCEPT ![i] = FALSE]
        /\ vm' = [vm EXCEPT ![i] = "down"]
  /\ UNCHANGED <<template, servers, volumes, map, pc, cr, target, seen, old, tick, sick,
                 overlooked>>

-----------------------------------------------------------------------------
(* The VMs, the clock, the provider and the user.                            *)

Seen(i) == overlooked' = IF pending[i] THEN overlooked ELSE overlooked \ {i}

Boot(i) ==
  /\ vm[i] = "down" /\ vm' = [vm EXCEPT ![i] = "up"] /\ Seen(i)
  /\ UNCHANGED <<template, object, map, pc, cr, wait, sick, used>>

Break(i) ==
  /\ vm[i] # "bad" /\ vm' = [vm EXCEPT ![i] = "bad"] /\ Seen(i)
  /\ Trouble
  /\ UNCHANGED <<template, object, map, pc, cr, wait, sick>>

Repair(i) ==
  /\ vm[i] = "bad" /\ vm' = [vm EXCEPT ![i] = "up"]
  /\ UNCHANGED <<template, object, map, pc, cr, wait, sick, overlooked, used>>

\* The software reports again and again; a VM that boots reports neither state.
News(i) == CASE vm[i] = "up" -> [state |-> "VM-RUNNING", time |-> Now]
             [] vm[i] = "bad" -> [state |-> "VM-ERROR", time |-> Now]
             [] vm[i] = "down" -> NoEntry

\* A report between the request and the reboot is later than the request.
Report(i) ==
  /\ map[i] # News(i) /\ map' = [map EXCEPT ![i] = News(i)]
  /\ overlooked' = IF pending[i] /\ i = target /\ Now = "after"
                   THEN overlooked \cup {i} ELSE overlooked
  /\ sick' = IF vm[i] = "bad" THEN sick ELSE sick \ {i}
  /\ UNCHANGED <<template, object, vm, pc, cr, wait, used>>

NextSecond ==
  /\ tick /\ tick' = FALSE
  /\ UNCHANGED <<template, object, vm, map, pc, cr, target, seen, answer, old, sick,
                 overlooked, used>>

\* A reboot the Server controller has yet to carry out is nobody's after it.
Restart ==
  /\ Trouble
  /\ pc' = "idle" /\ target' = NoReplica /\ seen' = {} /\ answer' = "none" /\ old' = NoEntry
  /\ tick' = FALSE /\ sick' = {}
  /\ map' = [i \in Replicas |-> BeforeStart(map[i])]
  /\ overlooked' = overlooked \cup {i \in Replicas : pending[i]}
  /\ UNCHANGED <<template, object, vm, cr>>

Edit ==
  /\ used.edits < MaxEdits /\ used' = [used EXCEPT !.edits = @ + 1]
  /\ \/ \E f \in {"cores", "nicMultiQueue"} : template' = [template EXCEPT !.server[f] = @ + 1]
     \/ template' = [template EXCEPT !.image = @ + 1]
  /\ UNCHANGED <<object, vm, map, pc, cr, wait, sick, overlooked>>

-----------------------------------------------------------------------------
Run ==
  \/ Observe \/ NothingLeft \/ CheckFails \/ UpdateFinished \/ SoftwareRunning
  \/ WaitFails \/ Timeout
  \/ \E i \in Replicas : \/ UpdateRunning(i) \/ Select(i) \/ CheckVM(i)
                         \/ AskServer(i) \/ ReplaceVolume(i) \/ ReplaceAll(i)

Next ==
  \/ Run \/ ObserveUnread \/ NextSecond \/ Restart \/ Edit
  \/ \E i \in Replicas : CarryOut(i) \/ UpdateFails(i) \/ Boot(i) \/ Break(i)
                         \/ Repair(i) \/ Report(i)

Spec == Init /\ [][Next]_vars

\* Each of the workers is scheduled again and again, a VM's boot ends, and its
\* software keeps reporting; no second has to pass, nothing has to be repaired.
FairSpec ==
  /\ Spec /\ WF_vars(Run)
  /\ \A i \in Replicas : WF_vars(CarryOut(i)) /\ WF_vars(Boot(i)) /\ WF_vars(Report(i))

-----------------------------------------------------------------------------
\* The set has at most one VM down at a time, through restarts of the provider,
\* timeouts, failed updates and edits, but for those overlooked: reboots asked
\* for of which the map has no news to give, because the run that asked gave up
\* or was cut off before the reboot, or because the VM reported in between or
\* its entry has a zero time (serverset.go:528-561, 658-683, 1138-1195).
OneDown == \A i, j \in Replicas \ overlooked : vm[i] = "down" /\ vm[j] = "down" => i = j

\* A rollout that goes wrong stops: no VM is rebooted while the map shows an
\* error it has shown since before the run began (serverset.go:1136-1148).
HaltOnError == [][pc = "check" /\ pc' \in Waits => sick = {}]_vars

\* However the waits end, every server and boot volume comes to be as the
\* template says and its software to run and say so, unless some VM is left
\* broken (serverset.go:502-575, 605-686).
Converged ==
  /\ pc = "idle"
  /\ \A i \in Replicas : ~Outdated(i) /\ ~OldImage(i) /\ ~pending[i]
                         /\ vm[i] = "up" /\ map[i].state = "VM-RUNNING"
Converges == <>[](Converged \/ \E i \in Replicas : vm[i] = "bad")
=============================================================================
