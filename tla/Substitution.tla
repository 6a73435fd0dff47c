--------------------------- MODULE Substitution ---------------------------
(***************************************************************************)
(* The substitutions of a ServerSet: every boot volume is created with     *)
(* user data in which the keys are replaced by addresses. The addresses    *)
(* given so far are kept in globalStateMap, a variable of the process      *)
(* (bootvolume_controller.go), and in a ConfigMap from which they are read *)
(* back after a restart (serverset.go, configmap_controller.go). Of the    *)
(* ServerSet controller only what decides when a volume is created, with   *)
(* which index and version, is kept; module ServerSet has the rest.        *)
(***************************************************************************)
EXTENDS Integers, Sequences, FiniteSetsExt, Functions

CONSTANTS
  Sets,            \* the names of ServerSets
  MaxReplicas,     \* bound on a set's replicas
  Substs,          \* the template's substitutions: [key, type, unique, size]
  Orderly,         \* no restart before a set has its external name, no loss within a
                   \* reconcile, no deleted set after a restart
  Scale,           \* the user may raise the number of replicas
  LoseServers,     \* servers may be deleted behind the controller's back
  MaxVersion,      \* bound on the versions of boot volumes
  MaxErrors,       \* bound on failures of steps other than those on the ConfigMap
  MaxMapErrors,    \* bound on failing reads and writes of the ConfigMap
  MaxRestarts,     \* bound on restarts of the provider
  MaxLosses        \* bound on objects, and sets, that are deleted by the user

ASSUME ReplicasAssumption == MaxReplicas \in Nat \ {0}
\* A substitution of the template; size is that of the prefix its option cidr names.
SubstitutionType == [key : STRING, type : {"ipv4Address", "ipv6Address"},
                     unique : BOOLEAN, size : Nat \ {0}]

ASSUME SubstsAssumption ==
  /\ Substs \in Seq(SubstitutionType)
  /\ \A m, n \in 1..Len(Substs) : Substs[m].key = Substs[n].key => m = n
ASSUME BoundsAssumption ==
  /\ {Orderly, Scale, LoseServers} \subseteq BOOLEAN
  /\ {MaxVersion, MaxErrors, MaxMapErrors, MaxRestarts, MaxLosses} \subseteq Nat

Idx == 0..MaxReplicas - 1
Ver == 0..MaxVersion
Positions == 1..Len(Substs)
Keys == {Substs[n].key : n \in Positions}
Unique == {Substs[n].key : n \in {m \in Positions : Substs[m].unique}}

\* An address is its offset in the prefix; net.IP(nil) prints as "<nil>".
NilIP == -1
Value == {NilIP} \cup UNION {0..Substs[n].size - 1 : n \in Positions}

\* A volume is named by its set, index and version: its substitution.Identifier.
Identifier == Idx \X Ver
State == [key : Keys, value : Value]
Entry == Idx \X Ver \X Keys
Volume == [idx : Idx, ver : Ver, data : [Keys -> Value]]

VARIABLES
  \* Kubernetes objects
  replicas,     \* spec.replicas of a set, 0 when there is no such set
  extName,      \* the set has its external name
  pending,      \* the annotation external-create-pending of a Create that was cut off
  servers,      \* the indexes that have a server
  volumes,      \* the boot volumes
  configMap,    \* the data of the set's ConfigMap
  \* the memory of the process
  globalState,  \* globalStateMap[cr.Name]
  identities,   \* substConfigMap[cr.Name].identities
  \* the reconcile of a set
  pc, mode, cur, ver, pos,
  \* what has gone wrong so far
  errors, mapErrors, restarts, losses

objects == <<replicas, extName, pending, servers, volumes>>
memory == <<globalState, identities>>
control == <<pc, mode, cur, ver, pos>>
faults == <<errors, mapErrors, restarts, losses>>
vars == <<objects, configMap, memory, control, faults>>

Nothing == [x \in {} |-> NilIP]
Empty == [id \in Identifier |-> <<>>]

TypeOK ==
  /\ replicas \in [Sets -> 0..MaxReplicas]
  /\ extName \in [Sets -> BOOLEAN]
  /\ pending \in [Sets -> BOOLEAN]
  /\ servers \in [Sets -> SUBSET Idx]
  /\ volumes \in [Sets -> SUBSET Volume]
  /\ configMap = [s \in Sets |-> configMap[s]] /\ identities = [s \in Sets |-> identities[s]]
  /\ \A s \in Sets : /\ DOMAIN configMap[s] \subseteq Entry
                     /\ \A e \in DOMAIN configMap[s] : configMap[s][e] \in Value
                     /\ DOMAIN identities[s] \subseteq Entry
                     /\ \A e \in DOMAIN identities[s] : identities[s][e] \in Value
  /\ globalState \in [Sets -> [Identifier -> Seq(State)]]
  /\ pc \in [Sets -> {"idle", "create", "update", "patch", "volume", "condemn"}]
  /\ mode \in [Sets -> {"create", "update"}]
  /\ cur \in [Sets -> 0..MaxReplicas]
  /\ ver \in [Sets -> Ver]
  /\ pos \in [Sets -> 1..Len(Substs) + 1]
  /\ errors \in 0..MaxErrors
  /\ mapErrors \in 0..MaxMapErrors
  /\ restarts \in 0..MaxRestarts
  /\ losses \in 0..MaxLosses

-----------------------------------------------------------------------------
(* Package substitution.                                                    *)

Has(state, key) == \E n \in 1..Len(state) : state[n].key = key
Found(state, key) == state[CHOOSE n \in 1..Len(state) : state[n].key = key].value

\* Mutant: the addresses of the other replicas are not looked at.
UsedByNobody(gs, sub) == {}

\* The addresses an allocation avoids: those of the key under every identifier.
Used(gs, sub) ==
  IF sub.unique THEN {Found(gs[id], sub.key) : id \in {d \in Identifier : Has(gs[d], sub.key)}}
                ELSE {}

\* Mutant: the end of an IPv4 prefix is an address, too.
NextIPv4OrNil(size, used) == LET free == (1..size - 1) \ used
                             IN  IF free = {} THEN {NilIP} ELSE {Min(free)}

\* The address an allocation ends on, as a set that is empty for an error. The
\* first address of an IPv4 prefix is never given. At the end of an IPv6 prefix
\* Next returns nil, which the loop takes for an address until nil is used, too.
NextIPv4(size, used) == LET free == (1..size - 1) \ used
                        IN  IF free = {} THEN {} ELSE {Min(free)}
NextIPv6(size, used) == LET free == (0..size - 1) \ used
                        IN  IF free # {} THEN {Min(free)} ELSE {NilIP} \ used
NextIP(sub, used) == IF sub.type = "ipv4Address" THEN NextIPv4(sub.size, used)
                                                 ELSE NextIPv6(sub.size, used)

-----------------------------------------------------------------------------
(* The reconcile of a set.                                                  *)

Of(s, i) == {v \in volumes[s] : v.idx = i}
Present(s) == replicas[s] # 0
Indexes(s) == 0..replicas[s] - 1

\* The version of a replica's volume; 0, with an error nobody looks at, when the
\* replica has no volume or two of them.
VolumeVersion(s, i) == IF \E v \in volumes[s] : Of(s, i) = {v}
                       THEN (CHOOSE v \in volumes[s] : Of(s, i) = {v}).ver ELSE 0

Return(s) == /\ pc' = [pc EXCEPT ![s] = "idle"]
             /\ UNCHANGED <<mode, cur, ver, pos>>

Init ==
  /\ replicas = [s \in Sets |-> 0]
  /\ extName = [s \in Sets |-> FALSE]
  /\ pending = [s \in Sets |-> FALSE]
  /\ servers = [s \in Sets |-> {}]
  /\ volumes = [s \in Sets |-> {}]
  /\ configMap = [s \in Sets |-> Nothing]
  /\ globalState = [s \in Sets |-> Empty]
  /\ identities = [s \in Sets |-> Nothing]
  /\ pc = [s \in Sets |-> "idle"]
  /\ mode = [s \in Sets |-> "create"]
  /\ cur = [s \in Sets |-> 0]
  /\ ver = [s \in Sets |-> 0]
  /\ pos = [s \in Sets |-> 1]
  /\ errors = 0 /\ mapErrors = 0 /\ restarts = 0 /\ losses = 0

\* The keys of replica i that are read back: those of the ConfigMap that can be
\* read and are not in memory. They are appended in the order of the template.
Missing(s, i, failed) ==
  LET v == VolumeVersion(s, i)
  IN  {k \in Keys : /\ <<i, v, k>> \in DOMAIN configMap[s] /\ <<i, k>> \notin failed
                    /\ ~Has(globalState[s][<<i, v>>], k)}

\* The n-th of a set of positions, counted from the front.
Nth(positions, n) == CHOOSE m \in positions : Cardinality(positions \cap (1..m)) = n

\* What is appended to the state of a replica that is read back.
ReadBack(s, i, missing) ==
  LET at == {n \in Positions : Substs[n].key \in missing}
      key(n) == Substs[Nth(at, n)].key
  IN  [n \in 1..Cardinality(at) |->
         [key |-> key(n), value |-> configMap[s][<<i, VolumeVersion(s, i), key(n)>>]]]

\* Observe and Update bring the memory up to date for the replicas with a server.
Rebuild(s, failed) ==
  /\ globalState' = [globalState EXCEPT ![s] = [id \in Identifier |->
       LET missing == Missing(s, id[1], failed)
       IN  IF id[1] \in servers[s] /\ id[2] = VolumeVersion(s, id[1]) /\ missing # {}
           THEN globalState[s][id] \o ReadBack(s, id[1], missing)
           ELSE globalState[s][id]]]
  /\ mapErrors' = mapErrors + IF failed = {} THEN 0 ELSE 1

\* The reads of the ConfigMap that fail: none, or any while the bound allows it.
Failing(s) == IF mapErrors < MaxMapErrors THEN SUBSET (servers[s] \X Keys) ELSE {{}}

\* What Observe takes for complete: it counts.
Complete(s) == Cardinality(servers[s]) = replicas[s] /\ Cardinality(volumes[s]) = replicas[s]

\* Without the external name Observe returns before it reads anything.
ObserveNew(s) ==
  /\ pc[s] = "idle" /\ Present(s) /\ ~pending[s] /\ ~extName[s]
  /\ pc' = [pc EXCEPT ![s] = "create"]
  /\ mode' = [mode EXCEPT ![s] = "create"]
  /\ cur' = [cur EXCEPT ![s] = 0]
  /\ UNCHANGED <<objects, configMap, memory, ver, pos, faults>>

ObserveSet(s) ==
  /\ pc[s] = "idle" /\ Present(s) /\ ~pending[s] /\ extName[s]
  /\ \E failed \in Failing(s) : Rebuild(s, failed)
  /\ LET to == IF Complete(s) THEN "update" ELSE "create"
     IN  /\ pc' = [pc EXCEPT ![s] = to]
         /\ mode' = [mode EXCEPT ![s] = to]
  /\ cur' = [cur EXCEPT ![s] = 0]
  /\ UNCHANGED <<objects, configMap, identities, ver, pos, errors, restarts, losses>>

\* Mutant: Create does not end with the last replica.
CreateReplicaPastEnd(s) ==
  /\ pc[s] = "create"
  /\ servers' = [servers EXCEPT ![s] = @ \cup {cur[s]}]
  /\ cur' = [cur EXCEPT ![s] = @ + 1]
  /\ UNCHANGED <<replicas, extName, pending, volumes, configMap, memory, mode, pc, ver, pos, faults>>

\* Create visits the replicas in order; a missing volume is created with version 0.
CreateReplica(s) ==
  /\ pc[s] = "create" /\ cur[s] < replicas[s]
  /\ LET own == Of(s, cur[s]) IN
     /\ \A v, w \in own : v = w
     /\ servers' = [servers EXCEPT ![s] = @ \cup {cur[s]}]
     /\ IF own = {}
        THEN /\ pc' = [pc EXCEPT ![s] = "patch"]
             /\ ver' = [ver EXCEPT ![s] = 0]
             /\ pos' = [pos EXCEPT ![s] = 1]
             /\ UNCHANGED cur
        ELSE /\ cur' = [cur EXCEPT ![s] = @ + 1]
             /\ UNCHANGED <<pc, ver, pos>>
  /\ UNCHANGED <<replicas, extName, pending, volumes, configMap, memory, mode, faults>>

\* The external name is set when every replica has its objects.
Created(s) ==
  /\ pc[s] = "create" /\ cur[s] >= replicas[s]
  /\ extName' = [extName EXCEPT ![s] = TRUE]
  /\ Return(s)
  /\ UNCHANGED <<replicas, pending, servers, volumes, configMap, memory, faults>>

\* Update: a replica whose one volume is outdated is given a volume of the next version.
Replace(s, i) ==
  /\ pc[s] = "update" /\ i \in Indexes(s)
  /\ \E v \in Of(s, i) :
       /\ Of(s, i) = {v} /\ v.ver < MaxVersion
       /\ ver' = [ver EXCEPT ![s] = v.ver + 1]
  /\ pc' = [pc EXCEPT ![s] = "patch"]
  /\ cur' = [cur EXCEPT ![s] = i]
  /\ pos' = [pos EXCEPT ![s] = 1]
  /\ UNCHANGED <<objects, configMap, memory, mode, faults>>

\* Two volumes of one replica stop Create and Update alike.
TooMany(s) ==
  /\ \/ pc[s] = "create" /\ \E v, w \in Of(s, cur[s]) : v # w
     \/ pc[s] = "update" /\ \E i \in Indexes(s) : \E v, w \in Of(s, i) : v # w
  /\ Return(s)
  /\ UNCHANGED <<objects, configMap, memory, faults>>

Updated(s) ==
  /\ pc[s] = "update"
  /\ \E failed \in Failing(s) : Rebuild(s, failed)
  /\ Return(s)
  /\ UNCHANGED <<objects, configMap, identities, errors, restarts, losses>>

-----------------------------------------------------------------------------
(* The creation of a boot volume: setPatcher, then the object.              *)

Id(s) == <<cur[s], ver[s]>>
\* Mutant: the previous version's values are looked for under the new version.
OldIsNew(s) == <<cur[s], ver[s]>>
Old(s) == <<cur[s], ver[s] - 1>>

\* GlobalState.Set, and on to the next substitution.
Set(s, key, value) ==
  /\ globalState' = [globalState EXCEPT ![s][Id(s)] = Append(@, [key |-> key, value |-> value])]
  /\ pos' = [pos EXCEPT ![s] = @ + 1]
  /\ UNCHANGED <<pc, mode, cur, ver>>

\* WriteGlobalState of one substitution: the value the identifier has, else the
\* value of the replica's previous version, else a new one; an error leaves what
\* the substitutions before it have written.
Substitute(s) ==
  /\ pc[s] = "patch" /\ pos[s] <= Len(Substs)
  /\ LET sub == Substs[pos[s]]
         own == globalState[s][Id(s)]
         inherits == ver[s] # 0 /\ Has(globalState[s][Old(s)], sub.key)
         next == NextIP(sub, Used(globalState[s], sub))
     IN  \/ /\ Has(own, sub.key)
            /\ pos' = [pos EXCEPT ![s] = @ + 1]
            /\ UNCHANGED <<globalState, pc, mode, cur, ver>>
         \/ /\ ~Has(own, sub.key) /\ inherits
            /\ Set(s, sub.key, Found(globalState[s][Old(s)], sub.key))
         \/ /\ ~Has(own, sub.key) /\ ~inherits
            /\ \E address \in next : Set(s, sub.key, address)
         \/ /\ ~Has(own, sub.key) /\ ~inherits
            /\ next = {} /\ Return(s) /\ UNCHANGED globalState
  /\ UNCHANGED <<objects, configMap, identities, faults>>

\* Mutant: the positions of the state are read from its end.
RecordedBackwards(s) ==
  LET state == globalState[s][Id(s)]
      entry(n) == <<cur[s], ver[s], Substs[n].key>>
      recorded == Positions \cap (1..Len(state))
  IN  [e \in {entry(n) : n \in recorded} |->
         state[Len(state) + 1 - (CHOOSE n \in recorded : entry(n) = e)].value]

\* The values are taken from the state by position, not by key.
Recorded(s) ==
  LET state == globalState[s][Id(s)]
      entry(n) == <<cur[s], ver[s], Substs[n].key>>
      recorded == Positions \cap (1..Len(state))
  IN  [e \in {entry(n) : n \in recorded} |->
         state[CHOOSE n \in recorded : entry(n) = e].value]

Merge(f, g) == [e \in DOMAIN f \cup DOMAIN g |-> IF e \in DOMAIN g THEN g[e] ELSE f[e]]

\* All that the process has recorded is copied into the ConfigMap. An error is
\* logged, and the volume is created all the same.
SaveMap(s) ==
  /\ pc[s] = "patch" /\ pos[s] > Len(Substs)
  /\ identities' = [identities EXCEPT ![s] = Merge(@, Recorded(s))]
  /\ \/ /\ configMap' = [configMap EXCEPT ![s] = Merge(@, identities'[s])]
        /\ UNCHANGED mapErrors
     \/ /\ mapErrors < MaxMapErrors
        /\ mapErrors' = mapErrors + 1
        /\ UNCHANGED configMap
  /\ pc' = [pc EXCEPT ![s] = "volume"]
  /\ UNCHANGED <<objects, globalState, mode, cur, ver, pos, errors, restarts, losses>>

\* The object is created with the values of its identifier in its user data.
CreateVolume(s) ==
  /\ pc[s] = "volume"
  /\ volumes' = [volumes EXCEPT ![s] = @ \cup
       {[idx |-> cur[s], ver |-> ver[s],
         data |-> [k \in Keys |-> Found(globalState[s][Id(s)], k)]]}]
  /\ \/ /\ pc' = [pc EXCEPT ![s] = IF mode[s] = "create" THEN "create" ELSE "condemn"]
        /\ cur' = [cur EXCEPT ![s] = IF mode[s] = "create" THEN @ + 1 ELSE @]
        /\ UNCHANGED <<mode, ver, pos, errors>>
     \/ /\ errors < MaxErrors   \* the wait for the volume fails, the volume stays
        /\ errors' = errors + 1
        /\ Return(s)
  /\ UNCHANGED <<replicas, extName, pending, servers, configMap, memory,
                 mapErrors, restarts, losses>>

\* Both strategies delete the volume they have replaced.
Condemn(s) ==
  /\ pc[s] = "condemn"
  /\ volumes' = [volumes EXCEPT ![s] = {v \in @ : ~(v.idx = cur[s] /\ v.ver = ver[s] - 1)}]
  /\ pc' = [pc EXCEPT ![s] = "update"]
  /\ UNCHANGED <<replicas, extName, pending, servers, configMap, memory,
                 mode, cur, ver, pos, faults>>

\* Any other call of a reconcile fails: the reconcile ends. A volume that was
\* rejected with 422 and deleted again ends it in the same way.
Fail(s) ==
  /\ pc[s] # "idle" /\ errors < MaxErrors
  /\ errors' = errors + 1
  /\ Return(s)
  /\ UNCHANGED <<objects, configMap, memory, mapErrors, restarts, losses>>

-----------------------------------------------------------------------------
(* The environment.                                                         *)

Submit(s) ==
  /\ ~Present(s) /\ pc[s] = "idle"
  /\ \E n \in 1..MaxReplicas : replicas' = [replicas EXCEPT ![s] = n]
  /\ UNCHANGED <<extName, pending, servers, volumes, configMap, memory, control, faults>>

Grow(s) ==
  /\ Scale /\ Present(s) /\ replicas[s] < MaxReplicas
  /\ pc[s] = "idle"   \* a reconcile works on the spec it has read
  /\ replicas' = [replicas EXCEPT ![s] = @ + 1]
  /\ UNCHANGED <<extName, pending, servers, volumes, configMap, memory, control, faults>>

\* Boot volumes, and servers, are deleted behind the controller's back.
Lose(s) ==
  /\ losses < MaxLosses /\ losses' = losses + 1
  /\ Orderly => pc[s] = "idle"
  /\ \E lostServers \in SUBSET servers[s], lostVolumes \in SUBSET volumes[s] :
       /\ LoseServers \/ lostServers = {}
       /\ servers' = [servers EXCEPT ![s] = @ \ lostServers]
       /\ volumes' = [volumes EXCEPT ![s] = @ \ lostVolumes]
  /\ UNCHANGED <<replicas, extName, pending, configMap, memory, control,
                 errors, mapErrors, restarts>>

\* A deleted set: Observe answers that nothing exists, so that the runtime lets the
\* object go without a call of Delete, and Kubernetes removes what the set owned.
\* What the process remembers of the set is kept.
DeleteSet(s) ==
  /\ losses < MaxLosses /\ losses' = losses + 1
  /\ Present(s) /\ pc[s] = "idle"
  /\ Orderly => restarts = 0
  /\ replicas' = [replicas EXCEPT ![s] = 0]
  /\ extName' = [extName EXCEPT ![s] = FALSE]
  /\ pending' = [pending EXCEPT ![s] = FALSE]
  /\ servers' = [servers EXCEPT ![s] = {}]
  /\ volumes' = [volumes EXCEPT ![s] = {}]
  /\ configMap' = [configMap EXCEPT ![s] = Nothing]
  /\ UNCHANGED <<memory, control, errors, mapErrors, restarts>>

\* The provider restarts: its memory is lost. A Create that was cut off leaves its
\* annotation, and the runtime does nothing until it is removed by hand.
Restart ==
  /\ restarts < MaxRestarts /\ restarts' = restarts + 1
  /\ Orderly => \A s \in Sets : Present(s) => extName[s]
  /\ globalState' = [s \in Sets |-> Empty]
  /\ identities' = [s \in Sets |-> Nothing]
  /\ pending' = [s \in Sets |-> pending[s] \/ (pc[s] # "idle" /\ mode[s] = "create")]
  /\ pc' = [s \in Sets |-> "idle"]
  /\ UNCHANGED <<replicas, extName, servers, volumes, configMap, mode, cur, ver, pos,
                 errors, mapErrors, losses>>

RemovePending(s) ==
  /\ pending[s]
  /\ pending' = [pending EXCEPT ![s] = FALSE]
  /\ UNCHANGED <<replicas, extName, servers, volumes, configMap, memory, control, faults>>

Reconcile(s) ==
  \/ ObserveNew(s) \/ ObserveSet(s)
  \/ CreateReplica(s) \/ Created(s) \/ TooMany(s)
  \/ \E i \in Idx : Replace(s, i)
  \/ Updated(s)
  \/ Substitute(s) \/ SaveMap(s) \/ CreateVolume(s) \/ Condemn(s)
  \/ Fail(s)

Next ==
  \/ \E s \in Sets : \/ Reconcile(s) \/ Submit(s) \/ Grow(s) \/ Lose(s)
                     \/ DeleteSet(s) \/ RemovePending(s)
  \/ Restart

Spec == Init /\ [][Next]_vars

-----------------------------------------------------------------------------
(* Properties.                                                              *)

\* No two replicas of a set are given the same address for a unique key
\* (substitutions_types.go:23), whatever fails and however often a replica's
\* volume is created again.
UniqueValues ==
  \A s \in Sets : \A v, w \in volumes[s] :
    v.idx # w.idx => \A k \in Unique : v.data[k] # w.data[k]

\* What the user reads off the set's status, which is what the ConfigMap says of a
\* volume, is what the volume was created with.
MapAgrees ==
  \A s \in Sets : \A v \in volumes[s], k \in Keys :
    LET e == <<v.idx, v.ver, k>>
    IN  e \in DOMAIN configMap[s] => configMap[s][e] = v.data[k]

\* An allocation that finds no address fails: no volume is created with a text
\* that is not an address of the prefix.
OnlyAddresses ==
  \A s \in Sets : \A v \in volumes[s], k \in Keys : v.data[k] # NilIP

\* The values a replica was given, read off the ConfigMap: the replica keeps them
\* over the versions of its volume (AddressBook).
Book(s) ==
  LET cm == configMap[s]
  IN  [x \in {<<e[1], e[3]>> : e \in DOMAIN cm} |->
         cm[CHOOSE e \in DOMAIN cm : e[1] = x[1] /\ e[3] = x[2]]]

Promise == INSTANCE AddressBook WITH
  Replicas <- Idx, book <- [s \in Sets |-> Book(s)]

ImplementsBook == Promise!Spec
=============================================================================
