-------------------------- MODULE ServerSetProofs --------------------------
(* Proofs about ServerSet for every number of replicas and every bound on    *)
(* the environment: the inductive invariant IInv, that no step takes a       *)
(* working replica down, and that the master's replica is replaced last.     *)
EXTENDS ServerSetInv, TLAPS

-----------------------------------------------------------------------------
(* Types, and the steps of each mode.                                        *)

\* The successors of the steps, mode by mode.
LEMMA AfterCreate ==
  /\ After["create"]["server"] = "nic" /\ After["create"]["nic"] = "volume"
  /\ After["create"]["volume"] = "attach" /\ After["create"]["attach"] = "next"
BY DEF After

LEMMA AfterBootVolume ==
  /\ After["bootVolume"]["volume"] = "attach"
  /\ After["bootVolume"]["attach"] = "deleteVolume"
  /\ After["bootVolume"]["deleteVolume"] = "finish"
BY DEF After

LEMMA AfterAll ==
  /\ After["all"]["server"] = "volume" /\ After["all"]["volume"] = "attach"
  /\ After["all"]["attach"] = "nic" /\ After["all"]["nic"] = "deleteVolume"
  /\ After["all"]["deleteVolume"] = "deleteServer"
  /\ After["all"]["deleteServer"] = "deleteNIC"
  /\ After["all"]["deleteNIC"] = "finish"
BY DEF After

LEMMA IdxFacts == Idx \subseteq Nat /\ 0 \in Idx
BY ReplicasAssumption DEF Idx

LEMMA TypeInit == Init => TypeOK
<1> SUFFICES ASSUME Init PROVE TypeOK
  OBVIOUS
<1>1. cur \in Idx /\ master \in Idx \cup {NoMaster}
  BY IdxFacts DEF Init
<1>2. faults \in [edits : Nat, crashes : Nat, errors : Nat, rejects : Nat]
  BY DEF Init
<1>. QED
  BY <1>1, <1>2 DEF Init, TypeOK, Steps, Loops

-----------------------------------------------------------------------------
(* The types of rewritten objects.                                          *)
LEMMA MarkTypes ==
  ASSUME TypeOK, NEW i, NEW v, NEW st \in Status
  PROVE  /\ Mark(servers, i, v, st) \subseteq Server
         /\ Mark(volumes, i, v, st) \subseteq Volume
         /\ Mark(nics, i, v, st) \subseteq NIC
<1>1. Mark(servers, i, v, st) \subseteq Server
  BY DEF TypeOK, Mark, Server
<1>2. Mark(volumes, i, v, st) \subseteq Volume
  BY DEF TypeOK, Mark, Volume
<1>3. Mark(nics, i, v, st) \subseteq NIC
  BY DEF TypeOK, Mark, NIC
<1>. QED  BY <1>1, <1>2, <1>3

LEMMA ChangedType == ASSUME NEW st \in Status PROVE Changed(st) \in Status
BY DEF Changed, Status

LEMMA AdvanceType == ASSUME NEW st PROVE Advance(st) \in Status
BY DEF Advance, Status

\* updateByIndex turns to the first step of the strategy for replica i.
LEMMA UpdateByIndexTypes ==
  ASSUME TypeOK, ControlOK, pc = "volumes", NEW i \in Idx, UpdateByIndex(i),
         servers' \subseteq Server, volumes' \subseteq Volume,
         UNCHANGED <<nics, faults>>
  PROVE  TypeOK' /\ ControlOK'
<1>1. CASE ReturnError
  BY <1>1, IdxFacts DEF ReturnError, Return, TypeOK, ControlOK, Loops
<1>2. CASE ~ReturnError
  <2>1. vv' \in Nat /\ sv' \in Nat
    BY <1>2 DEF UpdateByIndex, Of, TypeOK, Server, Volume
  <2>2. \/ mode' = "all" /\ pc' = "server"
        \/ mode' = "bootVolume" /\ pc' = "volume"
    BY <1>2 DEF UpdateByIndex, Goto
  <2>. QED
    BY <1>2, <2>1, <2>2 DEF UpdateByIndex, Goto, cluster, TypeOK, ControlOK, Steps, Loops
<1>. QED  BY <1>1, <1>2

LEMMA ControlStep == TypeOK /\ ControlOK /\ [Next]_vars => TypeOK' /\ ControlOK'
<1> SUFFICES ASSUME TypeOK, ControlOK, [Next]_vars PROVE TypeOK' /\ ControlOK'
  OBVIOUS
<1>. USE IdxFacts
<1>1. CASE ObserveMissing
  BY <1>1 DEF ObserveMissing, Goto, objects, TypeOK, ControlOK, Loops, Steps
<1>2. CASE ObserveOutdated
  <2>1. master' \in Idx \cup {NoMaster}
    BY <1>2 DEF ObserveOutdated, Masters, TypeOK, Server
  <2>2. todo' \subseteq Name
    BY <1>2 DEF ObserveOutdated, Names, TypeOK, Server, Name
  <2>. QED
    BY <1>2, <2>1, <2>2 DEF ObserveOutdated, Goto, objects, cluster, TypeOK, ControlOK, Loops, Steps
<1>3. CASE ObserveUpToDate
  BY <1>3 DEF ObserveUpToDate, vars, objects, worker, cluster, TypeOK, ControlOK
<1>4. CASE GetVersions
  BY <1>4 DEF GetVersions, ReturnError, Return, Goto, Of, objects, cluster, TypeOK, ControlOK, Loops, Steps, Server, Volume
<1>5. CASE NextReplica
  <2>1. cr.replicas \in 1 .. MaxReplicas
    BY DEF TypeOK, Templates
  <2>2. cur + 1 < cr.replicas => cur + 1 \in Idx
    BY <2>1, ReplicasAssumption DEF TypeOK, Idx
  <2>. QED
    BY <1>5, <2>2 DEF NextReplica, Return, Goto, objects, cluster, TypeOK, ControlOK, Loops, Steps
<1>6. CASE EnsureServer
  <2>1. mode \in {"create", "all"} /\ pc = "server"
    BY <1>6 DEF EnsureServer, ControlOK
  <2>2. After[mode][pc] \in {"nic", "volume"}
    BY <2>1, AfterCreate, AfterAll
  <2>3. servers' \subseteq Server
    <3>1. [idx |-> cur, ver |-> sv, cores |-> cr.cores, boot |-> NoVolume,
           status |-> "PENDING"] \in Server
      BY DEF TypeOK, Server, Status, Templates
    <3>2. \A s \in Server : [s EXCEPT !.status = "DELETING"] \in Server
      BY DEF Server, Status
    <3>. QED
      BY <1>6, <3>1, <3>2 DEF EnsureServer, TypeOK
  <2>4. sv' \in Nat
    BY <1>6 DEF EnsureServer, ReturnError, Return, Proceed, Ensured, Of, At, TypeOK, Server
  <2>5. UNCHANGED <<volumes, nics, faults>>
    BY <1>6 DEF EnsureServer
  <2>6. CASE ReturnError
    BY <2>3, <2>5, <2>6 DEF ReturnError, Return, TypeOK, ControlOK, Loops
  <2>7. CASE phase' \in {"wait", "discard"} /\ UNCHANGED <<cluster, pc, mode, cr, master, cur, vv, todo>>
    BY <2>1, <2>3, <2>4, <2>5, <2>7 DEF cluster, TypeOK, ControlOK, Creates
  <2>8. CASE Proceed /\ UNCHANGED <<cluster, mode, cr, master, cur, vv, sv, todo>>
    BY <2>1, <2>2, <2>3, <2>5, <2>8 DEF Proceed, Goto, cluster, TypeOK, ControlOK, Steps
  <2>. QED
    BY <1>6, <2>6, <2>7, <2>8 DEF EnsureServer, Await
<1>7. CASE EnsureNIC
  <2>1. mode \in {"create", "all"} /\ pc = "nic"
    BY <1>7 DEF EnsureNIC, ControlOK
  <2>2. After[mode][pc] \in {"volume", "deleteVolume"} /\ (mode = "create" => After[mode][pc] = "volume")
        /\ (mode = "all" => After[mode][pc] = "deleteVolume")
    BY <2>1, AfterCreate, AfterAll
  <2>3. nics' \subseteq NIC
    BY <1>7 DEF EnsureNIC, TypeOK, NIC, Status
  <2>. QED
    BY <1>7, <2>1, <2>2, <2>3 DEF EnsureNIC, ReturnError, Return, Await, Proceed, Goto, cluster, TypeOK, ControlOK, Steps, Loops, Creates
<1>8. CASE EnsureVolume
  <2>1. mode \in {"create", "bootVolume", "all"} /\ pc = "volume"
    BY <1>8 DEF EnsureVolume, ControlOK
  <2>2. After[mode][pc] = "attach"
    BY <2>1, AfterCreate, AfterBootVolume, AfterAll
  <2>3. volumes' \subseteq Volume
    BY <1>8 DEF EnsureVolume, TypeOK, Volume, Status, Templates
  <2>. QED
    BY <1>8, <2>1, <2>2, <2>3 DEF EnsureVolume, ReturnError, Return, Await, Proceed, Goto, cluster, TypeOK, ControlOK, Steps, Loops, Creates
<1>9. CASE Attach
  <2>1. mode \in {"create", "bootVolume", "all"} /\ pc = "attach"
    BY <1>9 DEF Attach, ControlOK
  <2>2. /\ mode = "create" => After[mode][pc] = "next"
        /\ mode = "bootVolume" => After[mode][pc] = "deleteVolume"
        /\ mode = "all" => After[mode][pc] = "nic"
    BY <2>1, AfterCreate, AfterBootVolume, AfterAll
  <2>3. servers' \subseteq Server
    <3>1. \A s \in Server, b \in Nat \cup {NoVolume} :
            [s EXCEPT !.boot = b, !.status = Changed(@)] \in Server
      BY ChangedType DEF Server
    <3>2. \A v \in volumes : (IF HasId(v) THEN vv ELSE NoVolume) \in Nat \cup {NoVolume}
      BY DEF TypeOK
    <3>3. ASSUME NEW v \in volumes,
                 servers' = {IF s \in At(servers, cur, sv) /\ s.boot # (IF HasId(v) THEN vv ELSE NoVolume)
                             THEN [s EXCEPT !.boot = IF HasId(v) THEN vv ELSE NoVolume,
                                            !.status = Changed(@)]
                             ELSE s : s \in servers}
          PROVE  servers' \subseteq Server
      <4>. DEFINE b == IF HasId(v) THEN vv ELSE NoVolume
      <4>1. b \in Nat \cup {NoVolume}
        BY <3>2
      <4>. HIDE DEF b
      <4>2. servers' = {IF s \in At(servers, cur, sv) /\ s.boot # b
                        THEN [s EXCEPT !.boot = b, !.status = Changed(@)]
                        ELSE s : s \in servers}
        BY <3>3 DEF b
      <4>. QED
        BY <4>1, <4>2, <3>1 DEF TypeOK
    <3>4. \/ UNCHANGED servers
          \/ \E v \in volumes :
                servers' = {IF s \in At(servers, cur, sv) /\ s.boot # (IF HasId(v) THEN vv ELSE NoVolume)
                            THEN [s EXCEPT !.boot = IF HasId(v) THEN vv ELSE NoVolume,
                                           !.status = Changed(@)]
                            ELSE s : s \in servers}
      BY <1>9 DEF Attach, At
    <3>. QED
      BY <3>3, <3>4 DEF TypeOK
  <2>. QED
    BY <1>9, <2>1, <2>2, <2>3 DEF Attach, ReturnError, Return, Proceed, Goto, cluster, TypeOK, ControlOK, Steps, Loops
<1>10. CASE WaitAvailable
  <2>1. pc \in {"server", "volume", "nic"} /\ mode \in {"create", "bootVolume", "all"}
    BY <1>10 DEF WaitAvailable, ControlOK, Creates
  <2>2. CASE mode = "create"
    BY <1>10, <2>1, <2>2, AfterCreate DEF WaitAvailable, Proceed, Goto, objects, cluster, TypeOK, ControlOK, Steps, Loops
  <2>3. CASE mode = "bootVolume"
    BY <1>10, <2>1, <2>3, AfterBootVolume DEF WaitAvailable, Proceed, Goto, objects, cluster, TypeOK, ControlOK, Steps, Loops
  <2>4. CASE mode = "all"
    BY <1>10, <2>1, <2>4, AfterAll DEF WaitAvailable, Proceed, Goto, objects, cluster, TypeOK, ControlOK, Steps, Loops
  <2>. QED  BY <2>1, <2>2, <2>3, <2>4
<1>11. CASE WaitRejected
  <2>1. servers' \subseteq Server /\ volumes' \subseteq Volume /\ nics' \subseteq NIC
    BY <1>11, MarkTypes DEF WaitRejected, TypeOK, Status
  <2>2. faults' \in [edits : Nat, crashes : Nat, errors : Nat, rejects : Nat]
    BY <1>11 DEF WaitRejected, TypeOK
  <2>. QED
    BY <1>11, <2>1, <2>2 DEF WaitRejected, cluster, TypeOK, ControlOK, Creates
<1>12. CASE Discarded
  BY <1>12 DEF Discarded, ReturnError, Return, objects, TypeOK, ControlOK, Loops
<1>13. CASE UpdateServer
  <2>1. servers' \subseteq Server
    <3>1. \A s \in Server : [s EXCEPT !.cores = cr.cores, !.status = Changed(@)] \in Server
      BY ChangedType DEF TypeOK, Server, Templates
    <3>2. \/ UNCHANGED servers
          \/ \E this \in SUBSET servers :
               servers' = {IF s \in this
                           THEN [s EXCEPT !.cores = cr.cores, !.status = Changed(@)]
                           ELSE s : s \in servers}
      BY <1>13 DEF UpdateServer, At
    <3>3. ASSUME NEW this \in SUBSET servers,
                 servers' = {IF s \in this
                             THEN [s EXCEPT !.cores = cr.cores, !.status = Changed(@)]
                             ELSE s : s \in servers}
          PROVE  servers' \subseteq Server
      <4>. DEFINE set(s) == [s EXCEPT !.cores = cr.cores, !.status = Changed(@)]
      <4>1. \A s \in Server : set(s) \in Server
        BY <3>1
      <4>2. servers' = {IF s \in this THEN set(s) ELSE s : s \in servers}
        BY <3>3
      <4>. HIDE DEF set
      <4>. QED
        BY <4>1, <4>2 DEF TypeOK
    <3>. QED
      BY <3>2, <3>3 DEF TypeOK
  <2>. QED
    BY <1>13, <2>1 DEF UpdateServer, ReturnError, Return, Await, cluster, Name, TypeOK, ControlOK, Loops, Creates, Deletes
<1>14. CASE WaitUpdated
  BY <1>14 DEF WaitUpdated, objects, cluster, TypeOK, ControlOK, Creates, Deletes
<1>15. CASE ServersDone
  BY <1>15 DEF ServersDone, Goto, Names, Volume, Name, objects, cluster, TypeOK, ControlOK, Loops, Steps
<1>16. CASE UpdateVolume
  <2>1. volumes' \subseteq Volume
    <3>1. \A v \in Volume : [v EXCEPT !.size = cr.size, !.status = Changed(@)] \in Volume
      BY ChangedType DEF TypeOK, Volume, Templates
    <3>. QED
      BY <1>16, <3>1 DEF UpdateVolume, At, TypeOK
  <2>2. UNCHANGED <<servers, nics, faults>> /\ pc = "volumes"
    BY <1>16 DEF UpdateVolume
  <2>3. CASE ReturnError
    BY <2>1, <2>2, <2>3 DEF ReturnError, Return, TypeOK, ControlOK, Loops
  <2>4. CASE \E v \in volumes : UpdateByIndex(v.idx)
    <3>1. PICK v \in volumes : UpdateByIndex(v.idx)
      BY <2>4
    <3>2. v.idx \in Idx
      BY DEF TypeOK, Volume
    <3>3. UNCHANGED <<nics, faults>> /\ servers' \subseteq Server
      BY <2>2 DEF TypeOK
    <3>. QED
      BY <2>1, <2>2, <3>1, <3>2, <3>3, UpdateByIndexTypes
  <2>5. CASE /\ todo' \subseteq todo
             /\ UNCHANGED <<cluster, pc, phase, mode, cr, master, cur, vv, sv>>
    BY <2>1, <2>2, <2>5 DEF cluster, TypeOK, ControlOK
  <2>. QED
    BY <1>16, <2>3, <2>4, <2>5 DEF UpdateVolume, At
<1>17. CASE UpdateMaster
  <2>1. master \in Idx
    BY <1>17 DEF UpdateMaster, TypeOK, Volume
  <2>2. /\ UNCHANGED <<nics, faults>>
        /\ servers' \subseteq Server /\ volumes' \subseteq Volume
    BY <1>17 DEF UpdateMaster, objects, TypeOK
  <2>3. pc = "volumes" /\ UpdateByIndex(master)
    BY <1>17 DEF UpdateMaster
  <2>. QED
    BY <2>1, <2>2, <2>3, UpdateByIndexTypes
<1>18. CASE VolumesDone
  BY <1>18 DEF VolumesDone, Return, objects, cluster, TypeOK, ControlOK, Loops
<1>19. CASE Destroy
  <2>1. servers' \subseteq Server /\ volumes' \subseteq Volume /\ nics' \subseteq NIC
    BY <1>19, MarkTypes DEF Destroy, objects, TypeOK, Status
  <2>. QED
    BY <1>19, <2>1 DEF Destroy, ReturnError, Return, Await, cluster, TypeOK, ControlOK, Loops, Creates, Deletes
<1>20. CASE WaitDestroyed
  <2>1. \/ mode = "bootVolume" /\ pc = "deleteVolume"
        \/ mode = "all" /\ pc \in Deletes
    BY <1>20 DEF WaitDestroyed, ControlOK, Deletes
  <2>2. After[mode][pc] \in {"deleteServer", "deleteNIC", "finish"}
        /\ (mode = "bootVolume" => After[mode][pc] = "finish")
    BY <2>1, AfterBootVolume, AfterAll DEF Deletes
  <2>. QED
    BY <1>20, <2>1, <2>2 DEF WaitDestroyed, Proceed, Goto, objects, cluster, TypeOK, ControlOK, Steps, Loops
<1>21. CASE Finish
  BY <1>21 DEF Finish, Return, objects, cluster, TypeOK, ControlOK, Loops
<1>22. CASE Fail
  <2>1. faults' \in [edits : Nat, crashes : Nat, errors : Nat, rejects : Nat]
    BY <1>22 DEF Fail, TypeOK
  <2>. QED
    BY <1>22, <2>1 DEF Fail, ReturnError, Return, objects, TypeOK, ControlOK, Loops
<1>23. CASE Crash
  BY <1>23 DEF Crash, Return, objects, cluster, TypeOK, ControlOK, Loops
<1>24. CASE RemovePending
  BY <1>24 DEF RemovePending, objects, worker, TypeOK, ControlOK
<1>25. CASE Edit
  BY <1>25 DEF Edit, objects, worker, TypeOK, ControlOK
<1>26. CASE Elect
  BY <1>26 DEF Elect, objects, worker, Name, Server, TypeOK, ControlOK
<1>27. CASE Settle
  <2>1. servers' \subseteq Server
    <3>1. \A s \in Server : [s EXCEPT !.status = Advance(@)] \in Server
      BY AdvanceType DEF Server
    <3>. QED
      BY <1>27, <3>1 DEF Settle, ServerSettles, VolumeSettles, NICSettles, Removed, TypeOK
  <2>2. volumes' \subseteq Volume
    <3>1. \A v \in Volume : [v EXCEPT !.status = Advance(@)] \in Volume
      BY AdvanceType DEF Volume
    <3>. QED
      BY <1>27, <3>1 DEF Settle, ServerSettles, VolumeSettles, NICSettles, Removed, TypeOK
  <2>3. nics' \subseteq NIC
    <3>1. \A n \in NIC : [n EXCEPT !.status = Advance(@)] \in NIC
      BY AdvanceType DEF NIC
    <3>. QED
      BY <1>27, <3>1 DEF Settle, ServerSettles, VolumeSettles, NICSettles, Removed, TypeOK
  <2>4. UNCHANGED <<worker, cluster, faults>>
    BY <1>27 DEF Settle, ServerSettles, VolumeSettles, NICSettles, Removed
  <2>. QED
    BY <2>1, <2>2, <2>3, <2>4 DEF worker, cluster, TypeOK, ControlOK
<1>28. CASE UNCHANGED vars
  BY <1>28 DEF vars, objects, worker, cluster, TypeOK, ControlOK
<1>. QED
  BY <1>1, <1>2, <1>3, <1>4, <1>5, <1>6, <1>7, <1>8, <1>9, <1>10, <1>11, <1>12,
     <1>13, <1>14, <1>15, <1>16, <1>17, <1>18, <1>19, <1>20, <1>21, <1>22, <1>23,
     <1>24, <1>25, <1>26, <1>27, <1>28 DEF Next, Reconcile

LEMMA ControlInit == Init => TypeOK /\ ControlOK
BY TypeInit DEF Init, ControlOK

\* Every variable keeps its type, and the worker never takes a step that does
\* not belong to what its reconcile is doing.
THEOREM Typing == Spec => [](TypeOK /\ ControlOK)
<1>. QED
  BY ControlInit, ControlStep, PTL DEF Spec

-----------------------------------------------------------------------------
(* The inductive invariant, and the replicas that stay served.               *)

ObjectsOK == UniqueNames /\ PendingUnattached /\ VolumeHasServer /\ BootEstablished
WorkerOK == CreateOK /\ UpdateOK
ServedKept == \A i \in Idx : Served(i) => Served(i)'

\* Steps that only rewrite statuses and fields, and lose no established object.
ServersKept ==
  /\ \A t \in servers' : \E s \in servers :
       /\ t.idx = s.idx /\ t.ver = s.ver /\ t.boot = s.boot
       /\ t.status = "PENDING" => s.status = "PENDING"
  /\ \A s \in servers : Established(s) =>
       \E t \in servers' :
         t.idx = s.idx /\ t.ver = s.ver /\ t.boot = s.boot /\ Established(t)

VolumesKept ==
  /\ \A w \in volumes' : \E v \in volumes :
       /\ w.idx = v.idx /\ w.ver = v.ver
       /\ w.status = "PENDING" => v.status = "PENDING"
  /\ \A v \in volumes : Established(v) =>
       \E w \in volumes' : w.idx = v.idx /\ w.ver = v.ver /\ Established(w)

\* An object that is neither pending nor being deleted is established.
LEMMA StatusCases ==
  ASSUME TypeOK
  PROVE  /\ \A s \in servers : s.status \notin {"PENDING", "DELETING"} => Established(s)
         /\ \A v \in volumes : v.status \notin {"PENDING", "DELETING"} => Established(v)
BY DEF TypeOK, Server, Volume, Status, Established

\* What Served rests on: an established server and an established volume.
LEMMA ServedBy ==
  ASSUME TypeOK, PendingUnattached, BootEstablished, NEW i \in Idx, Served(i)
  PROVE  \E s \in servers, v \in volumes :
           /\ s.idx = i /\ v.idx = i /\ s.boot = v.ver
           /\ Established(s) /\ Established(v)
<1>1. PICK s \in servers, v \in volumes :
        /\ s.status # "DELETING" /\ v.status # "DELETING"
        /\ s.idx = i /\ v.idx = i /\ s.boot = v.ver
  BY DEF Served, Live
<1>2. v.ver \in Nat
  BY DEF TypeOK, Volume
<1>3. s.boot # NoVolume
  BY <1>1, <1>2 DEF NoVolume
<1>4. s.status # "PENDING"
  BY <1>3 DEF PendingUnattached
<1>5. v.status # "PENDING"
  BY <1>1 DEF BootEstablished
<1>. QED
  BY <1>1, <1>4, <1>5, StatusCases

LEMMA ServedFrom ==
  ASSUME NEW i, NEW s \in servers', NEW v \in volumes', s.idx = i, v.idx = i,
         s.boot = v.ver, Established(s), Established(v)
  PROVE  Served(i)'
BY DEF Served, Live, Established

LEMMA KeptSame ==
  /\ UNCHANGED servers => ServersKept
  /\ UNCHANGED volumes => VolumesKept
BY DEF ServersKept, VolumesKept

LEMMA KeptObjects ==
  ASSUME TypeOK, ObjectsOK, ServersKept, VolumesKept
  PROVE  PendingUnattached' /\ VolumeHasServer' /\ BootEstablished' /\ ServedKept
<1>1. PendingUnattached'
  BY DEF ObjectsOK, PendingUnattached, ServersKept
<1>2. VolumeHasServer'
  <2> SUFFICES ASSUME NEW w \in volumes'
               PROVE  \E t \in servers' : t.idx = w.idx /\ Established(t)
    BY DEF VolumeHasServer
  <2>1. PICK v \in volumes : w.idx = v.idx
    BY DEF VolumesKept
  <2>2. PICK s \in servers : s.idx = v.idx /\ Established(s)
    BY DEF ObjectsOK, VolumeHasServer
  <2>. QED
    BY <2>1, <2>2 DEF ServersKept
<1>3. BootEstablished'
  <2> SUFFICES ASSUME NEW t \in servers'
               PROVE  /\ \A w \in volumes' : w.idx = t.idx /\ w.ver = t.boot
                                               => w.status # "PENDING"
                      /\ t.boot # NoVolume =>
                           \E w \in volumes' : w.idx = t.idx /\ Established(w) /\ t.boot <= w.ver
    BY DEF BootEstablished
  <2>1. PICK s \in servers : t.idx = s.idx /\ t.boot = s.boot
    BY DEF ServersKept
  <2>2. ASSUME NEW w \in volumes', w.idx = t.idx, w.ver = t.boot
        PROVE  w.status # "PENDING"
    BY <2>1, <2>2 DEF VolumesKept, ObjectsOK, BootEstablished
  <2>3. ASSUME t.boot # NoVolume
        PROVE  \E w \in volumes' : w.idx = t.idx /\ Established(w) /\ t.boot <= w.ver
    <3>1. PICK v \in volumes : v.idx = s.idx /\ Established(v) /\ s.boot <= v.ver
      BY <2>1, <2>3 DEF ObjectsOK, BootEstablished
    <3>. QED
      BY <2>1, <3>1 DEF VolumesKept
  <2>. QED
    BY <2>2, <2>3
<1>4. ServedKept
  <2> SUFFICES ASSUME NEW i \in Idx, Served(i) PROVE Served(i)'
    BY DEF ServedKept
  <2>1. PICK s \in servers, v \in volumes :
          /\ s.idx = i /\ v.idx = i /\ s.boot = v.ver
          /\ Established(s) /\ Established(v)
    BY ServedBy DEF ObjectsOK
  <2>2. PICK t \in servers' : t.idx = i /\ t.boot = s.boot /\ Established(t)
    BY <2>1 DEF ServersKept
  <2>3. PICK w \in volumes' : w.idx = i /\ w.ver = v.ver /\ Established(w)
    BY <2>1 DEF VolumesKept
  <2>. QED
    BY <2>1, <2>2, <2>3, ServedFrom
<1>. QED
  BY <1>1, <1>2, <1>3, <1>4

\* The worker's facts survive a step of somebody else, and a rejection.
LEMMA KeptWorker ==
  ASSUME WorkerOK, ServersKept, VolumesKept,
         UNCHANGED <<pc, mode, cur, vv, sv>>, phase' = phase \/ phase' = "discard"
  PROVE  WorkerOK'
<1>. USE DEF Of
<1>1. CreateOK'
  <2> SUFFICES ASSUME mode = "create"
      PROVE /\ pc \in {"server", "nic", "volume", "attach"} =>
                 \A v \in volumes' : v.idx = cur => v.ver = vv
            /\ pc = "server" /\ phase' = "wait" => \A s \in servers' : s.idx = cur => s.ver = sv
            /\ pc \in {"nic", "volume", "attach"} =>
                 /\ \A s \in servers' : s.idx = cur => s.status # "PENDING"
                 /\ \E s \in servers' : s.idx = cur /\ Established(s)
    BY DEF CreateOK
  <2>1. pc \in {"server", "nic", "volume", "attach"} =>
                 \A v \in volumes' : v.idx = cur => v.ver = vv
    BY DEF WorkerOK, CreateOK, VolumesKept
  <2>2. pc = "server" /\ phase' = "wait" => \A s \in servers' : s.idx = cur => s.ver = sv
    BY DEF WorkerOK, CreateOK, ServersKept
  <2>3. pc \in {"nic", "volume", "attach"} =>
          /\ \A s \in servers' : s.idx = cur => s.status # "PENDING"
          /\ \E s \in servers' : s.idx = cur /\ Established(s)
    BY DEF WorkerOK, CreateOK, ServersKept
  <2>. QED  BY <2>1, <2>2, <2>3
<1>2. UpdateOK'
  <2> SUFFICES ASSUME mode \in {"bootVolume", "all"} PROVE UpdateOK'
    BY DEF UpdateOK
  <2>1. \E s \in servers' : s.idx = cur /\ Established(s)
    BY DEF WorkerOK, UpdateOK, ServersKept
  <2>2. /\ \A v \in volumes' : v.idx = cur => v.ver \in {vv - 1, vv}
        /\ pc = "server" => \A v \in volumes' : v.idx = cur => v.ver = vv - 1
        /\ pc = "volume" /\ phase = "do" => \A v \in volumes' : v.idx = cur => v.ver = vv - 1
    BY DEF WorkerOK, UpdateOK, VolumesKept
  <2>3. pc = "server" /\ phase = "do" => \A s \in servers' : s.idx = cur => s.ver = sv - 1
    BY DEF WorkerOK, UpdateOK, ServersKept
  <2>4. pc # "server" => NewServerThere'
    BY DEF WorkerOK, UpdateOK, ServersKept, NewServerThere
  <2>5. pc \notin {"server", "volume"} => NewVolumeThere'
    BY DEF WorkerOK, UpdateOK, VolumesKept, NewVolumeThere
  <2>6. pc \notin {"server", "volume", "attach"} => NewAttached'
    BY DEF WorkerOK, UpdateOK, ServersKept, NewAttached
  <2>. QED
    BY <2>1, <2>2, <2>3, <2>4, <2>5, <2>6 DEF UpdateOK
<1>. QED
  BY <1>1, <1>2 DEF WorkerOK

\* Outside Create and the two strategies the worker relies on nothing.
LEMMA NoWorker ==
  ASSUME mode' \notin {"create", "bootVolume", "all"} PROVE WorkerOK'
BY DEF WorkerOK, CreateOK, UpdateOK

LEMMA SameObjects ==
  ASSUME TypeOK, ObjectsOK, UNCHANGED <<servers, volumes>>
  PROVE  ObjectsOK' /\ ServedKept
<1>1. UniqueNames'
  BY DEF ObjectsOK, UniqueNames
<1>. QED
  BY <1>1, KeptSame, KeptObjects DEF ObjectsOK

-----------------------------------------------------------------------------
(* Rewritten sets: names stay unique, established objects stay established.  *)
LEMMA MarkServer ==
  ASSUME TypeOK, ObjectsOK, NEW i, NEW n,
         \A s \in servers : s.idx = i /\ s.ver = n => ~Established(s),
         servers' = Mark(servers, i, n, "DELETING")
  PROVE  ServersKept /\ \A s, t \in servers' : s.idx = t.idx /\ s.ver = t.ver => s = t
<1>. DEFINE Del(s) == [s EXCEPT !.status = "DELETING"]
<1>1. \A s \in servers : /\ Del(s).idx = s.idx /\ Del(s).ver = s.ver
                         /\ Del(s).boot = s.boot /\ Del(s).status = "DELETING"
  BY DEF TypeOK, Server
<1>2. servers' = {IF s.idx = i /\ s.ver = n THEN Del(s) ELSE s : s \in servers}
  BY DEF Mark
<1>. HIDE DEF Del
<1>3. ServersKept
  BY <1>1, <1>2 DEF ServersKept
<1>4. \A s, t \in servers' : s.idx = t.idx /\ s.ver = t.ver => s = t
  BY <1>1, <1>2 DEF ObjectsOK, UniqueNames
<1>. QED
  BY <1>3, <1>4

LEMMA MarkVolume ==
  ASSUME TypeOK, ObjectsOK, NEW i, NEW n,
         \A v \in volumes : v.idx = i /\ v.ver = n => ~Established(v),
         volumes' = Mark(volumes, i, n, "DELETING")
  PROVE  VolumesKept /\ \A v, w \in volumes' : v.idx = w.idx /\ v.ver = w.ver => v = w
<1>. DEFINE Del(v) == [v EXCEPT !.status = "DELETING"]
<1>1. \A v \in volumes : /\ Del(v).idx = v.idx /\ Del(v).ver = v.ver
                         /\ Del(v).status = "DELETING"
  BY DEF TypeOK, Volume
<1>2. volumes' = {IF v.idx = i /\ v.ver = n THEN Del(v) ELSE v : v \in volumes}
  BY DEF Mark
<1>. HIDE DEF Del
<1>3. VolumesKept
  BY <1>1, <1>2 DEF VolumesKept
<1>4. \A v, w \in volumes' : v.idx = w.idx /\ v.ver = w.ver => v = w
  BY <1>1, <1>2 DEF ObjectsOK, UniqueNames
<1>. QED
  BY <1>3, <1>4

LEMMA ChangedFacts ==
  \A st \in Status : /\ Changed(st) = "PENDING" => st = "PENDING"
                     /\ st \in {"BUSY", "AVAILABLE", "UPDATING"} =>
                          Changed(st) \in {"BUSY", "AVAILABLE", "UPDATING"}
BY DEF Changed, Status

LEMMA AdvanceFacts ==
  \A st : Advance(st) \in {"BUSY", "AVAILABLE"}
BY DEF Advance

-----------------------------------------------------------------------------
(* The environment.                                                          *)
LEMMA SettleStep ==
  ASSUME TypeOK, ObjectsOK, WorkerOK, Settle
  PROVE  ObjectsOK' /\ WorkerOK' /\ ServedKept
<1>1. UNCHANGED <<pc, phase, mode, cur, vv, sv>>
  BY DEF Settle, ServerSettles, VolumeSettles, NICSettles, Removed, worker
<1>2. ServersKept /\ \A s, t \in servers' : s.idx = t.idx /\ s.ver = t.ver => s = t
  <2>1. CASE ServerSettles
    <3>1. PICK s \in servers :
            /\ Settles(s)
            /\ servers' = (servers \ {s}) \cup {[s EXCEPT !.status = Advance(@)]}
      BY <2>1 DEF ServerSettles
    <3>. DEFINE n == [s EXCEPT !.status = Advance(@)]
    <3>2. /\ n.idx = s.idx /\ n.ver = s.ver /\ n.boot = s.boot
          /\ n.status \in {"BUSY", "AVAILABLE"}
      BY AdvanceFacts DEF TypeOK, Server
    <3>3. servers' = (servers \ {s}) \cup {n}
      BY <3>1
    <3>. HIDE DEF n
    <3>. QED
      BY <3>2, <3>3 DEF ServersKept, Established, ObjectsOK, UniqueNames
  <2>2. CASE Removed
    BY <2>2 DEF Removed, ServersKept, Established, ObjectsOK, UniqueNames
  <2>3. CASE VolumeSettles \/ NICSettles
    BY <2>3, KeptSame DEF VolumeSettles, NICSettles, ObjectsOK, UniqueNames
  <2>. QED
    BY <2>1, <2>2, <2>3 DEF Settle
<1>3. VolumesKept /\ \A v, w \in volumes' : v.idx = w.idx /\ v.ver = w.ver => v = w
  <2>1. CASE VolumeSettles
    <3>1. PICK v \in volumes :
            /\ Settles(v)
            /\ volumes' = (volumes \ {v}) \cup {[v EXCEPT !.status = Advance(@)]}
      BY <2>1 DEF VolumeSettles
    <3>. DEFINE n == [v EXCEPT !.status = Advance(@)]
    <3>2. /\ n.idx = v.idx /\ n.ver = v.ver
          /\ n.status \in {"BUSY", "AVAILABLE"}
      BY AdvanceFacts DEF TypeOK, Volume
    <3>3. volumes' = (volumes \ {v}) \cup {n}
      BY <3>1
    <3>. HIDE DEF n
    <3>. QED
      BY <3>2, <3>3 DEF VolumesKept, Established, ObjectsOK, UniqueNames
  <2>2. CASE Removed
    BY <2>2 DEF Removed, VolumesKept, Established, ObjectsOK, UniqueNames
  <2>3. CASE ServerSettles \/ NICSettles
    BY <2>3, KeptSame DEF ServerSettles, NICSettles, ObjectsOK, UniqueNames
  <2>. QED
    BY <2>1, <2>2, <2>3 DEF Settle
<1>4. WorkerOK'
  BY <1>1, <1>2, <1>3, KeptWorker
<1>. QED
  BY <1>2, <1>3, <1>4, KeptObjects DEF ObjectsOK, UniqueNames

-----------------------------------------------------------------------------
(* The worker's steps that change servers or volumes.                        *)
LEMMA WaitRejectedStep ==
  ASSUME TypeOK, ControlOK, ObjectsOK, WorkerOK, WaitRejected
  PROVE  ObjectsOK' /\ WorkerOK' /\ ServedKept
<1>1. UNCHANGED <<pc, mode, cur, vv, sv>> /\ phase' = "discard"
  BY DEF WaitRejected
<1>2. ServersKept /\ \A s, t \in servers' : s.idx = t.idx /\ s.ver = t.ver => s = t
  <2>1. CASE pc = "server"
    <3>1. servers' = Mark(servers, cur, sv, "DELETING")
      BY <2>1 DEF WaitRejected
    <3>2. \E s \in servers : s.idx = cur /\ s.ver = sv /\ s.status = "PENDING"
      BY <2>1 DEF WaitRejected, Awaited, At
    <3>3. \A s \in servers : s.idx = cur /\ s.ver = sv => ~Established(s)
      BY <3>2 DEF ObjectsOK, UniqueNames, Established
    <3>. QED
      BY <3>1, <3>3, MarkServer
  <2>2. CASE pc # "server"
    BY <2>2, KeptSame DEF WaitRejected, ObjectsOK, UniqueNames
  <2>. QED  BY <2>1, <2>2
<1>3. VolumesKept /\ \A v, w \in volumes' : v.idx = w.idx /\ v.ver = w.ver => v = w
  <2>1. CASE pc = "volume"
    <3>1. volumes' = Mark(volumes, cur, vv, "DELETING")
      BY <2>1 DEF WaitRejected
    <3>2. \E v \in volumes : v.idx = cur /\ v.ver = vv /\ v.status = "PENDING"
      BY <2>1 DEF WaitRejected, Awaited, At
    <3>3. \A v \in volumes : v.idx = cur /\ v.ver = vv => ~Established(v)
      BY <3>2 DEF ObjectsOK, UniqueNames, Established
    <3>. QED
      BY <3>1, <3>3, MarkVolume
  <2>2. CASE pc # "volume"
    BY <2>2, KeptSame DEF WaitRejected, ObjectsOK, UniqueNames
  <2>. QED  BY <2>1, <2>2
<1>4. WorkerOK'
  BY <1>1, <1>2, <1>3, KeptWorker
<1>. QED
  BY <1>2, <1>3, <1>4, KeptObjects DEF ObjectsOK, UniqueNames

LEMMA UpdateServerStep ==
  ASSUME TypeOK, ControlOK, ObjectsOK, UpdateServer
  PROVE  ObjectsOK' /\ WorkerOK' /\ ServedKept
<1>1. WorkerOK'
  <2>1. mode = "update"
    BY DEF UpdateServer, ControlOK
  <2>2. mode' \in {"none", "update"}
    BY <2>1 DEF UpdateServer, ReturnError, Return
  <2>. QED  BY <2>2, NoWorker
<1>2. UNCHANGED volumes
  BY DEF UpdateServer
<1>. DEFINE set(s) == [s EXCEPT !.cores = cr.cores, !.status = Changed(@)]
<1>3. \A s \in servers : /\ set(s).idx = s.idx /\ set(s).ver = s.ver
                         /\ set(s).boot = s.boot /\ set(s).status = Changed(s.status)
                         /\ s.status \in Status
  BY DEF TypeOK, Server
<1>4. UNCHANGED servers \/ \E this \in SUBSET servers :
        servers' = {IF s \in this THEN set(s) ELSE s : s \in servers}
  BY DEF UpdateServer, At
<1>. HIDE DEF set
<1>5. ServersKept
  BY <1>3, <1>4, ChangedFacts, KeptSame DEF ServersKept, Established
<1>6. \A s, t \in servers' : s.idx = t.idx /\ s.ver = t.ver => s = t
  BY <1>3, <1>4 DEF ObjectsOK, UniqueNames
<1>7. UniqueNames'
  BY <1>2, <1>6 DEF ObjectsOK, UniqueNames
<1>. QED
  BY <1>1, <1>2, <1>5, <1>7, KeptSame, KeptObjects DEF ObjectsOK

\* updateByIndex starts a strategy from one volume and one established server.
LEMMA UpdateByIndexStep ==
  ASSUME TypeOK, ObjectsOK, NEW i \in Idx, UpdateByIndex(i),
         UNCHANGED <<servers, volumes>>
  PROVE  WorkerOK'
<1>1. CASE ReturnError
  <2>1. mode' = "none"
    BY <1>1 DEF ReturnError, Return
  <2>. QED  BY <2>1, NoWorker
<1>2. CASE ~ReturnError
  <2>1. /\ ~TooMany(Of(volumes, i)) /\ ~TooMany(Of(servers, i))
        /\ cur' = i /\ phase' = "do"
    BY <1>2 DEF UpdateByIndex, Goto
  <2>2. PICK v \in Of(volumes, i), s \in Of(servers, i) :
          /\ vv' = v.ver + 1
          /\ \/ mode' = "all" /\ pc' = "server" /\ sv' = s.ver + 1
             \/ mode' = "bootVolume" /\ pc' = "volume" /\ sv' = s.ver
    BY <1>2 DEF UpdateByIndex, Goto
  <2>3. /\ v.ver \in Nat /\ s.ver \in Nat /\ v \in volumes /\ s \in servers
        /\ v.idx = i /\ s.idx = i
    BY DEF Of, TypeOK, Volume, Server
  <2>4. /\ \A w \in volumes : w.idx = i => w = v
        /\ \A t \in servers : t.idx = i => t = s
    BY <2>1, <2>2 DEF TooMany, Of
  <2>5. Established(s)
    BY <2>3, <2>4 DEF ObjectsOK, VolumeHasServer
  <2>6. CreateOK'
    BY <2>2 DEF CreateOK
  <2>7. UpdateOK'
    BY <2>1, <2>2, <2>3, <2>4, <2>5 DEF UpdateOK, Of, NewServerThere
  <2>. QED  BY <2>6, <2>7 DEF WorkerOK
<1>. QED  BY <1>1, <1>2

LEMMA UpdateVolumeStep ==
  ASSUME TypeOK, ControlOK, ObjectsOK, UpdateVolume
  PROVE  ObjectsOK' /\ WorkerOK' /\ ServedKept
<1>1. UNCHANGED servers /\ pc = "volumes" /\ mode = "update"
  BY DEF UpdateVolume, ControlOK
<1>2. CASE ReturnError /\ UNCHANGED volumes
  <2>1. mode' = "none"
    BY <1>2 DEF ReturnError, Return
  <2>. QED
    BY <1>1, <1>2, <2>1, NoWorker, SameObjects
<1>3. CASE \E v \in volumes : UpdateByIndex(v.idx) /\ UNCHANGED volumes
  <2>1. PICK i \in Idx : UpdateByIndex(i) /\ UNCHANGED volumes
    BY <1>3 DEF TypeOK, Volume
  <2>. QED
    BY <1>1, <2>1, SameObjects, UpdateByIndexStep
<1>4. CASE \E v \in volumes :
             /\ volumes' = (volumes \ {v}) \cup
                           {[v EXCEPT !.size = cr.size, !.status = Changed(@)]}
             /\ UNCHANGED mode
  <2>1. PICK v \in volumes :
             /\ volumes' = (volumes \ {v}) \cup
                           {[v EXCEPT !.size = cr.size, !.status = Changed(@)]}
             /\ UNCHANGED mode
    BY <1>4
  <2>. DEFINE n == [v EXCEPT !.size = cr.size, !.status = Changed(@)]
  <2>2. /\ n.idx = v.idx /\ n.ver = v.ver /\ n.status = Changed(v.status)
        /\ v.status \in Status
    BY DEF TypeOK, Volume
  <2>3. volumes' = (volumes \ {v}) \cup {n}
    BY <2>1
  <2>. HIDE DEF n
  <2>4. VolumesKept
    BY <2>2, <2>3, ChangedFacts DEF VolumesKept, Established
  <2>5. UniqueNames'
    BY <1>1, <2>2, <2>3 DEF ObjectsOK, UniqueNames
  <2>6. WorkerOK'
    BY <1>1, <2>1, NoWorker
  <2>. QED
    BY <1>1, <2>4, <2>5, <2>6, KeptSame, KeptObjects DEF ObjectsOK
<1>5. CASE UNCHANGED <<volumes, mode>>
  BY <1>1, <1>5, NoWorker, SameObjects
<1>. QED
  BY <1>2, <1>3, <1>4, <1>5 DEF UpdateVolume, At

\* The new server of Create has neither a name nor a volume in common with others.
LEMMA EnsureServerStep ==
  ASSUME TypeOK, ControlOK, ObjectsOK, WorkerOK, EnsureServer
  PROVE  ObjectsOK' /\ WorkerOK' /\ ServedKept
<1>1. UNCHANGED volumes /\ pc = "server" /\ phase = "do" /\ mode \in {"create", "all"}
  BY DEF EnsureServer, ControlOK
<1>2. CASE ReturnError /\ UNCHANGED servers
  <2>1. mode' = "none"
    BY <1>2 DEF ReturnError, Return
  <2>. QED
    BY <1>1, <1>2, <2>1, NoWorker, SameObjects
<1>3. CASE /\ Ensured(servers, sv) = {}
           /\ servers' = servers \cup {[idx |-> cur, ver |-> sv, cores |-> cr.cores,
                                        boot |-> NoVolume, status |-> "PENDING"]}
           /\ pc' = pc /\ phase' = "wait" /\ UNCHANGED <<mode, cur, vv, sv>>
  <2>. DEFINE n == [idx |-> cur, ver |-> sv, cores |-> cr.cores,
                    boot |-> NoVolume, status |-> "PENDING"]
  <2>1. n.idx = cur /\ n.ver = sv /\ n.boot = NoVolume /\ n.status = "PENDING"
    OBVIOUS
  <2>2. servers' = servers \cup {n}
    BY <1>3
  <2>. HIDE DEF n
  <2>3. /\ \A s \in servers : ~(s.idx = cur /\ s.ver = sv)
        /\ mode = "create" => \A s \in servers : s.idx # cur
    BY <1>3 DEF Ensured, Of, At
  <2>4. UniqueNames' /\ PendingUnattached' /\ VolumeHasServer'
    BY <1>1, <2>1, <2>2, <2>3
    DEF ObjectsOK, UniqueNames, PendingUnattached, VolumeHasServer
  <2>5. BootEstablished'
    <3>1. \A v \in volumes : v.ver # NoVolume
      BY DEF TypeOK, Volume, NoVolume
    <3>. QED
      BY <1>1, <2>1, <2>2, <3>1 DEF ObjectsOK, BootEstablished
  <2>6. CreateOK'
    BY <1>1, <1>3, <2>1, <2>2, <2>3 DEF WorkerOK, CreateOK, Of
  <2>7. UpdateOK'
    BY <1>1, <1>3, <2>2 DEF WorkerOK, UpdateOK, Of
  <2>8. ServedKept
    BY <1>1, <2>2 DEF ServedKept, Served, Live
  <2>. QED
    BY <2>4, <2>5, <2>6, <2>7, <2>8 DEF ObjectsOK, WorkerOK
<1>4. CASE /\ mode = "create" /\ ~TooMany(Ensured(servers, sv))
           /\ \E s \in Ensured(servers, sv) : ~HasId(s)
           /\ servers' = {IF s \in Ensured(servers, sv)
                          THEN [s EXCEPT !.status = "DELETING"] ELSE s : s \in servers}
           /\ pc' = pc /\ phase' = "discard" /\ UNCHANGED <<mode, cur, vv>>
  <2>. DEFINE Del(s) == [s EXCEPT !.status = "DELETING"]
  <2>1. \A s \in servers : /\ Del(s).idx = s.idx /\ Del(s).ver = s.ver
                           /\ Del(s).boot = s.boot /\ Del(s).status = "DELETING"
    BY DEF TypeOK, Server
  <2>2. servers' = {IF s.idx = cur THEN Del(s) ELSE s : s \in servers}
    BY <1>4 DEF Ensured, Of
  <2>. HIDE DEF Del
  <2>3. \A s \in servers : s.idx = cur => ~Established(s)
    BY <1>4 DEF Ensured, Of, TooMany, HasId, Established
  <2>4. ServersKept
    BY <2>1, <2>2, <2>3 DEF ServersKept
  <2>5. UniqueNames'
    BY <1>1, <2>1, <2>2 DEF ObjectsOK, UniqueNames
  <2>6. CreateOK' /\ UpdateOK'
    BY <1>1, <1>4 DEF WorkerOK, CreateOK, UpdateOK, Of
  <2>. QED
    BY <1>1, <2>4, <2>5, <2>6, KeptSame, KeptObjects DEF ObjectsOK, WorkerOK
<1>5. CASE /\ Ensured(servers, sv) # {} /\ Proceed
           /\ ~(mode = "create" /\ \E s \in Ensured(servers, sv) : ~HasId(s))
           /\ UNCHANGED <<servers, mode, cur, vv, sv>>
  <2>1. mode = "create"
    BY <1>1, <1>5 DEF Ensured, At, WorkerOK, UpdateOK, Of, TypeOK
  <2>2. pc' = "nic"
    BY <1>1, <1>5, <2>1, AfterCreate DEF Proceed, Goto
  <2>3. /\ \A s \in servers : s.idx = cur => Established(s)
        /\ \E s \in servers : s.idx = cur
    BY <1>5, <2>1 DEF Ensured, Of, HasId, Established
  <2>4. CreateOK' /\ UpdateOK'
    BY <1>1, <1>5, <2>1, <2>2, <2>3 DEF WorkerOK, CreateOK, UpdateOK, Of, Established
  <2>. QED
    BY <1>1, <1>5, <2>4, SameObjects DEF WorkerOK
<1>. QED
  BY <1>2, <1>3, <1>4, <1>5 DEF EnsureServer, Await

\* The new volume is newer than all that a server of its replica boots from.
LEMMA EnsureVolumeStep ==
  ASSUME TypeOK, ControlOK, ObjectsOK, WorkerOK, EnsureVolume
  PROVE  ObjectsOK' /\ WorkerOK' /\ ServedKept
<1>1. /\ UNCHANGED servers /\ pc = "volume" /\ phase = "do"
      /\ mode \in {"create", "bootVolume", "all"}
  BY DEF EnsureVolume, ControlOK
<1>2. CASE ReturnError /\ UNCHANGED volumes
  <2>1. mode' = "none"
    BY <1>2 DEF ReturnError, Return
  <2>. QED
    BY <1>1, <1>2, <2>1, NoWorker, SameObjects
<1>3. CASE /\ Ensured(volumes, vv) = {}
           /\ volumes' = volumes \cup {[idx |-> cur, ver |-> vv, image |-> cr.image,
                                        size |-> cr.size, status |-> "PENDING"]}
           /\ pc' = pc /\ phase' = "wait" /\ UNCHANGED <<mode, cur, vv, sv>>
  <2>. DEFINE n == [idx |-> cur, ver |-> vv, image |-> cr.image,
                    size |-> cr.size, status |-> "PENDING"]
  <2>1. n.idx = cur /\ n.ver = vv /\ n.status = "PENDING"
    OBVIOUS
  <2>2. volumes' = volumes \cup {n}
    BY <1>3
  <2>. HIDE DEF n
  <2>3. /\ \A v \in volumes : ~(v.idx = cur /\ v.ver = vv)
        /\ mode = "create" => \A v \in volumes : v.idx # cur
    BY <1>3 DEF Ensured, Of, At
  <2>4. mode # "create" => \A v \in volumes : v.idx = cur => v.ver = vv - 1
    BY <1>1 DEF WorkerOK, UpdateOK, Of
  <2>5. UniqueNames' /\ PendingUnattached'
    BY <1>1, <2>1, <2>2, <2>3 DEF ObjectsOK, UniqueNames, PendingUnattached
  <2>6. \E s \in servers : s.idx = cur /\ Established(s)
    BY <1>1 DEF WorkerOK, CreateOK, UpdateOK
  <2>7. VolumeHasServer'
    BY <1>1, <2>1, <2>2, <2>6 DEF ObjectsOK, VolumeHasServer
  <2>8. \A s \in servers : s.idx = cur => s.boot # vv
    <3> SUFFICES ASSUME NEW s \in servers, s.idx = cur, s.boot = vv PROVE FALSE
      OBVIOUS
    <3>1. vv \in Nat
      BY DEF TypeOK
    <3>2. s.boot # NoVolume
      BY <3>1 DEF NoVolume
    <3>3. PICK v \in volumes : v.idx = cur /\ s.boot <= v.ver
      BY <3>2 DEF ObjectsOK, BootEstablished
    <3>4. v.ver = vv - 1
      BY <2>3, <2>4, <3>3
    <3>. QED
      BY <3>1, <3>3, <3>4
  <2>9. BootEstablished'
    BY <1>1, <2>1, <2>2, <2>8 DEF ObjectsOK, BootEstablished
  <2>10. CreateOK'
    BY <1>1, <1>3, <2>1, <2>2, <2>3 DEF WorkerOK, CreateOK, Of
  <2>11. UpdateOK'
    BY <1>1, <1>3, <2>1, <2>2 DEF WorkerOK, UpdateOK, Of, NewServerThere
  <2>12. ServedKept
    BY <1>1, <2>2 DEF ServedKept, Served, Live
  <2>. QED
    BY <2>5, <2>7, <2>9, <2>10, <2>11, <2>12 DEF ObjectsOK, WorkerOK
<1>4. CASE /\ Ensured(volumes, vv) # {} /\ Proceed
           /\ UNCHANGED <<volumes, mode, cur, vv, sv>>
  <2>1. mode = "create"
    BY <1>1, <1>4 DEF Ensured, At, WorkerOK, UpdateOK, Of, TypeOK
  <2>2. pc' = "attach"
    BY <1>1, <1>4, <2>1, AfterCreate DEF Proceed, Goto
  <2>3. CreateOK' /\ UpdateOK'
    BY <1>1, <1>4, <2>1, <2>2 DEF WorkerOK, CreateOK, UpdateOK, Of
  <2>. QED
    BY <1>1, <1>4, <2>3, SameObjects DEF WorkerOK
<1>. QED
  BY <1>2, <1>3, <1>4 DEF EnsureVolume, Await

\* Attaching never changes a boot volume that exists for one that does not.
LEMMA AttachStep ==
  ASSUME TypeOK, ControlOK, ObjectsOK, WorkerOK, Attach
  PROVE  ObjectsOK' /\ WorkerOK' /\ ServedKept
<1>1. /\ UNCHANGED volumes /\ pc = "attach"
      /\ mode \in {"create", "bootVolume", "all"}
  BY DEF Attach, ControlOK
<1>2. CASE ReturnError /\ UNCHANGED servers
  <2>1. mode' = "none"
    BY <1>2 DEF ReturnError, Return
  <2>. QED
    BY <1>1, <1>2, <2>1, NoWorker, SameObjects
<1>3. CASE /\ At(servers, cur, sv) # {}
           /\ \E v \in At(volumes, cur, vv) :
                servers' = {IF s \in At(servers, cur, sv)
                               /\ s.boot # (IF HasId(v) THEN vv ELSE NoVolume)
                            THEN [s EXCEPT !.boot = IF HasId(v) THEN vv ELSE NoVolume,
                                           !.status = Changed(@)]
                            ELSE s : s \in servers}
           /\ Proceed /\ UNCHANGED <<mode, cur, vv, sv>>
  <2>1. PICK v \in volumes :
          /\ v.idx = cur /\ v.ver = vv
          /\ servers' = {IF s \in At(servers, cur, sv)
                               /\ s.boot # (IF HasId(v) THEN vv ELSE NoVolume)
                            THEN [s EXCEPT !.boot = IF HasId(v) THEN vv ELSE NoVolume,
                                           !.status = Changed(@)]
                            ELSE s : s \in servers}
    BY <1>3 DEF At
  <2>. DEFINE id == IF HasId(v) THEN vv ELSE NoVolume
              new(s) == [s EXCEPT !.boot = id, !.status = Changed(@)]
  <2>2. \A s \in servers : /\ new(s).idx = s.idx /\ new(s).ver = s.ver
                           /\ new(s).boot = id /\ new(s).status = Changed(s.status)
                           /\ s.status \in Status
    BY DEF TypeOK, Server
  <2>3. servers' = {IF s.idx = cur /\ s.ver = sv /\ s.boot # id THEN new(s) ELSE s
                      : s \in servers}
    BY <2>1 DEF At
  <2>4. id = (IF Established(v) THEN vv ELSE NoVolume)
    BY DEF HasId, Established
  <2>. HIDE DEF new, id
  <2>5. \A s \in servers : s.idx = cur /\ s.ver = sv => s.status # "PENDING"
    <3>1. CASE mode = "create"
      BY <1>1, <3>1 DEF WorkerOK, CreateOK, Of
    <3>2. CASE mode # "create"
      <4>1. NewServerThere
        BY <1>1, <3>2 DEF WorkerOK, UpdateOK
      <4>. QED
        BY <4>1 DEF NewServerThere, ObjectsOK, UniqueNames, Established
    <3>. QED  BY <3>1, <3>2
  <2>6. /\ \A t \in servers' : \E s \in servers :
             /\ t.idx = s.idx /\ t.ver = s.ver
             /\ \/ t = s
                \/ t.idx = cur /\ t.ver = sv /\ t.boot = id /\ t.status # "PENDING"
        /\ \A s \in servers : Established(s) =>
             \E t \in servers' :
               /\ t.idx = s.idx /\ t.ver = s.ver /\ Established(t)
               /\ \/ t.boot = s.boot
                  \/ s.idx = cur /\ s.ver = sv /\ t.boot = id
        /\ \A s \in servers : s.idx = cur /\ s.ver = sv /\ Established(s) =>
             \E t \in servers' :
               t.idx = cur /\ t.ver = sv /\ Established(t) /\ t.boot = id
    <3>1. \A t \in servers' : \E s \in servers :
             /\ t.idx = s.idx /\ t.ver = s.ver
             /\ \/ t = s
                \/ t.idx = cur /\ t.ver = sv /\ t.boot = id /\ t.status # "PENDING"
      BY <2>2, <2>3, <2>5, ChangedFacts
    <3>2. \A s \in servers : Established(s) =>
             \E t \in servers' :
               /\ t.idx = s.idx /\ t.ver = s.ver /\ Established(t)
               /\ \/ t.boot = s.boot
                  \/ s.idx = cur /\ s.ver = sv /\ t.boot = id
      BY <2>2, <2>3, ChangedFacts DEF Established
    <3>3. \A s \in servers : s.idx = cur /\ s.ver = sv /\ Established(s) =>
             \E t \in servers' :
               t.idx = cur /\ t.ver = sv /\ Established(t) /\ t.boot = id
      BY <2>2, <2>3, ChangedFacts DEF Established
    <3>. QED  BY <3>1, <3>2, <3>3
  <2>7. UniqueNames'
    <3>1. \A s, t \in servers' : s.idx = t.idx /\ s.ver = t.ver => s = t
      BY <2>2, <2>3 DEF ObjectsOK, UniqueNames
    <3>. QED
      BY <1>1, <3>1 DEF ObjectsOK, UniqueNames
  <2>8. PendingUnattached' /\ VolumeHasServer'
    BY <1>1, <2>6 DEF ObjectsOK, PendingUnattached, VolumeHasServer
  <2>9. vv \in Nat /\ \A w \in volumes : w.ver \in Nat
    BY DEF TypeOK, Volume
  <2>10. BootEstablished'
    <3> SUFFICES ASSUME NEW t \in servers'
                 PROVE  /\ \A w \in volumes : w.idx = t.idx /\ w.ver = t.boot
                                               => w.status # "PENDING"
                        /\ t.boot # NoVolume =>
                             \E w \in volumes : w.idx = t.idx /\ Established(w) /\ t.boot <= w.ver
      BY <1>1 DEF BootEstablished
    <3>1. CASE t \in servers
      BY <3>1 DEF ObjectsOK, BootEstablished
    <3>2. CASE t.idx = cur /\ t.boot = id
      <4>1. CASE Established(v)
        <5>1. id = vv
          BY <2>4, <4>1
        <5>2. \A w \in volumes : w.idx = cur /\ w.ver = vv => w = v
          BY <2>1 DEF ObjectsOK, UniqueNames
        <5>3. t.boot = vv /\ v.ver = vv /\ v.idx = t.idx /\ t.idx = cur
          BY <2>1, <3>2, <5>1
        <5>4. v.status # "PENDING"
          BY <4>1 DEF Established
        <5>5. \A w \in volumes : w.idx = t.idx /\ w.ver = t.boot => w.status # "PENDING"
          BY <5>2, <5>3, <5>4
        <5>6. t.boot <= v.ver
          BY <2>9, <5>3
        <5>. QED
          BY <4>1, <5>3, <5>5, <5>6
      <4>2. CASE ~Established(v)
        <5>1. id = NoVolume
          BY <2>4, <4>2
        <5>. QED
          BY <2>9, <3>2, <5>1 DEF NoVolume
      <4>. QED  BY <4>1, <4>2
    <3>. QED
      BY <2>6, <3>1, <3>2
  <2>11. CASE mode = "create"
    <3>1. pc' = "next"
      BY <1>1, <1>3, <2>11, AfterCreate DEF Proceed, Goto
    <3>2. WorkerOK'
      BY <1>3, <2>11, <3>1 DEF WorkerOK, CreateOK, UpdateOK
    <3>3. ServedKept
      <4> SUFFICES ASSUME NEW i \in Idx, Served(i) PROVE Served(i)'
        BY DEF ServedKept
      <4>1. PICK s \in servers, w \in volumes :
              /\ s.idx = i /\ w.idx = i /\ s.boot = w.ver
              /\ Established(s) /\ Established(w)
        BY ServedBy DEF ObjectsOK
      <4>2. PICK t \in servers' :
              /\ t.idx = s.idx /\ t.ver = s.ver /\ Established(t)
              /\ \/ t.boot = s.boot
                 \/ s.idx = cur /\ s.ver = sv /\ t.boot = id
        BY <2>6, <4>1
      <4>3. t.boot = w.ver
        <5>1. CASE t.boot = s.boot
          BY <4>1, <5>1
        <5>2. CASE s.idx = cur /\ t.boot = id
          <6>1. w.ver = vv
            BY <1>1, <2>11, <4>1, <5>2 DEF WorkerOK, CreateOK, Of
          <6>2. w = v
            BY <2>1, <4>1, <5>2, <6>1 DEF ObjectsOK, UniqueNames
          <6>. QED
            BY <2>4, <4>1, <5>2, <6>1, <6>2
        <5>. QED  BY <4>2, <5>1, <5>2
      <4>. QED
        BY <1>1, <4>1, <4>2, <4>3, ServedFrom
    <3>. QED
      BY <2>7, <2>8, <2>10, <3>2, <3>3 DEF ObjectsOK
  <2>12. CASE mode \in {"bootVolume", "all"}
    <3>1. /\ pc' \in {"deleteVolume", "nic"} /\ phase' = "do"
      BY <1>1, <1>3, <2>12, AfterBootVolume, AfterAll DEF Proceed, Goto
    <3>2. NewServerThere /\ NewVolumeThere
      BY <1>1, <2>12 DEF WorkerOK, UpdateOK
    <3>3. Established(v) /\ id = vv
      BY <2>1, <2>4, <3>2 DEF NewVolumeThere, ObjectsOK, UniqueNames
    <3>4. NewAttached' /\ NewServerThere' /\ NewVolumeThere'
      <4>1. PICK s \in servers : s.idx = cur /\ s.ver = sv /\ Established(s)
        BY <3>2 DEF NewServerThere
      <4>2. PICK t \in servers' :
              t.idx = cur /\ t.ver = sv /\ Established(t) /\ t.boot = id
        BY <2>6, <4>1
      <4>3. cur' = cur /\ sv' = sv /\ vv' = vv
        BY <1>3
      <4>4. NewAttached' /\ NewServerThere'
        BY <3>3, <4>2, <4>3 DEF NewServerThere, NewAttached
      <4>5. NewVolumeThere'
        BY <1>1, <3>2, <4>3 DEF NewVolumeThere
      <4>. QED  BY <4>4, <4>5
    <3>5. WorkerOK'
      <4>1. CreateOK'
        BY <1>3, <2>12 DEF CreateOK
      <4>2. \E s \in servers' : s.idx = cur' /\ Established(s)
        BY <3>4 DEF NewServerThere
      <4>3. UpdateOK'
        BY <1>1, <1>3, <2>12, <3>1, <3>4, <4>2 DEF WorkerOK, UpdateOK, Of
      <4>. QED  BY <4>1, <4>3 DEF WorkerOK
    <3>6. ServedKept
      <4> SUFFICES ASSUME NEW i \in Idx, Served(i) PROVE Served(i)'
        BY DEF ServedKept
      <4>1. PICK s \in servers, w \in volumes :
              /\ s.idx = i /\ w.idx = i /\ s.boot = w.ver
              /\ Established(s) /\ Established(w)
        BY ServedBy DEF ObjectsOK
      <4>2. PICK t \in servers' :
              /\ t.idx = s.idx /\ t.ver = s.ver /\ Established(t)
              /\ \/ t.boot = s.boot
                 \/ s.idx = cur /\ s.ver = sv /\ t.boot = id
        BY <2>6, <4>1
      <4>3. CASE t.boot = s.boot
        BY <1>1, <4>1, <4>2, <4>3, ServedFrom
      <4>4. CASE s.idx = cur /\ t.boot = id
        BY <1>1, <2>1, <3>3, <4>1, <4>2, <4>4, ServedFrom
      <4>. QED  BY <4>2, <4>3, <4>4
    <3>. QED
      BY <2>7, <2>8, <2>10, <3>5, <3>6 DEF ObjectsOK
  <2>. QED
    BY <1>1, <2>11, <2>12
<1>. QED
  BY <1>2, <1>3 DEF Attach

\* The old volume or server goes only after the new ones are in its place.
LEMMA DestroyStep ==
  ASSUME TypeOK, ControlOK, ObjectsOK, WorkerOK, Destroy
  PROVE  ObjectsOK' /\ WorkerOK' /\ ServedKept
<1>1. pc \in Deletes /\ phase = "do" /\ mode \in {"bootVolume", "all"}
  BY DEF Destroy, ControlOK, Deletes
<1>2. NewServerThere /\ NewVolumeThere /\ NewAttached
  BY <1>1 DEF WorkerOK, UpdateOK, Deletes
<1>3. CASE ReturnError /\ UNCHANGED objects
  <2>1. mode' = "none" /\ UNCHANGED <<servers, volumes>>
    BY <1>3 DEF ReturnError, Return, objects
  <2>. QED
    BY <2>1, NoWorker, SameObjects
<1>4. CASE /\ volumes' = IF pc = "deleteVolume"
                         THEN Mark(volumes, cur, vv - 1, "DELETING") ELSE volumes
           /\ servers' = IF pc = "deleteServer"
                         THEN Mark(servers, cur, sv - 1, "DELETING") ELSE servers
           /\ pc' = pc /\ phase' = "wait" /\ UNCHANGED <<mode, cur, vv, sv>>
  <2>1. CreateOK'
    BY <1>1, <1>4 DEF CreateOK
  <2>2. CASE pc = "deleteNIC"
    <3>1. UNCHANGED <<servers, volumes>>
      BY <1>4, <2>2
    <3>2. UpdateOK'
      BY <1>1, <1>4, <2>2, <3>1
      DEF WorkerOK, UpdateOK, Of, NewServerThere, NewVolumeThere, NewAttached
    <3>. QED
      BY <2>1, <3>1, <3>2, SameObjects DEF WorkerOK
  <2>3. CASE pc = "deleteVolume"
    <3>. DEFINE Del(v) == [v EXCEPT !.status = "DELETING"]
    <3>1. \A v \in volumes : /\ Del(v).idx = v.idx /\ Del(v).ver = v.ver
                             /\ Del(v).status = "DELETING"
      BY DEF TypeOK, Volume
    <3>2. volumes' = {IF v.idx = cur /\ v.ver = vv - 1 THEN Del(v) ELSE v : v \in volumes}
      BY <1>4, <2>3 DEF Mark
    <3>3. UNCHANGED servers
      BY <1>4, <2>3
    <3>. HIDE DEF Del
    <3>4. \A w \in volumes' : \E v \in volumes :
            /\ w.idx = v.idx /\ w.ver = v.ver
            /\ w.status = "PENDING" => v.status = "PENDING"
      BY <3>1, <3>2
    <3>5. \A v \in volumes : (v.idx = cur /\ v.ver = vv - 1) \/ v \in volumes'
      BY <3>2
    <3>6. PICK n \in volumes : n.idx = cur /\ n.ver = vv /\ Established(n)
      BY <1>2 DEF NewVolumeThere
    <3>7. vv \in Nat /\ vv # vv - 1
      BY DEF TypeOK
    <3>8. n \in volumes'
      BY <3>5, <3>6, <3>7
    <3>9. UniqueNames'
      <4>1. \A v, w \in volumes' : v.idx = w.idx /\ v.ver = w.ver => v = w
        BY <3>1, <3>2 DEF ObjectsOK, UniqueNames
      <4>. QED
        BY <3>3, <4>1 DEF ObjectsOK, UniqueNames
    <3>10. PendingUnattached' /\ VolumeHasServer'
      BY <3>3, <3>4 DEF ObjectsOK, PendingUnattached, VolumeHasServer
    <3>11. BootEstablished'
      <4> SUFFICES ASSUME NEW s \in servers
                   PROVE  /\ \A w \in volumes' : w.idx = s.idx /\ w.ver = s.boot
                                                   => w.status # "PENDING"
                          /\ s.boot # NoVolume =>
                               \E w \in volumes' :
                                 w.idx = s.idx /\ Established(w) /\ s.boot <= w.ver
        BY <3>3 DEF BootEstablished
      <4>1. ASSUME NEW w \in volumes', w.idx = s.idx, w.ver = s.boot
            PROVE  w.status # "PENDING"
        BY <3>4, <4>1 DEF ObjectsOK, BootEstablished
      <4>2. ASSUME s.boot # NoVolume
            PROVE  \E w \in volumes' : w.idx = s.idx /\ Established(w) /\ s.boot <= w.ver
        <5>1. PICK v \in volumes : v.idx = s.idx /\ Established(v) /\ s.boot <= v.ver
          BY <4>2 DEF ObjectsOK, BootEstablished
        <5>2. CASE v \in volumes'
          BY <5>1, <5>2
        <5>3. CASE v.idx = cur /\ v.ver = vv - 1
          <6>1. s.boot \in Int
            BY DEF TypeOK, Server, NoVolume
          <6>2. s.boot <= vv - 1
            BY <5>1, <5>3
          <6>3. s.boot <= n.ver
            BY <3>6, <3>7, <6>1, <6>2
          <6>4. n.idx = s.idx
            BY <3>6, <5>1, <5>3
          <6>. QED
            BY <3>6, <3>8, <6>3, <6>4
        <5>. QED  BY <3>5, <5>2, <5>3
      <4>. QED  BY <4>1, <4>2
    <3>12. NewServerThere' /\ NewVolumeThere' /\ NewAttached'
      BY <1>2, <1>4, <3>3, <3>6, <3>8 DEF NewServerThere, NewVolumeThere, NewAttached
    <3>13. UpdateOK'
      <4>1. \A v \in Of(volumes', cur) : v.ver \in {vv - 1, vv}
        BY <1>1, <3>4 DEF WorkerOK, UpdateOK, Of
      <4>2. \E s \in servers' : s.idx = cur' /\ Established(s)
        BY <3>12 DEF NewServerThere
      <4>. QED
        BY <1>4, <2>3, <3>12, <4>1, <4>2 DEF UpdateOK, Of
    <3>14. ServedKept
      <4> SUFFICES ASSUME NEW i \in Idx, Served(i) PROVE Served(i)'
        BY DEF ServedKept
      <4>1. CASE i = cur
        <5>1. PICK s \in servers : s.idx = cur /\ Established(s) /\ s.boot = vv
          BY <1>2 DEF NewAttached
        <5>. QED
          BY <3>3, <3>6, <3>8, <4>1, <5>1, ServedFrom
      <4>2. CASE i # cur
        <5>1. PICK s \in servers, v \in volumes :
                /\ s.idx = i /\ v.idx = i /\ s.boot = v.ver
                /\ Established(s) /\ Established(v)
          BY ServedBy DEF ObjectsOK
        <5>2. v \in volumes'
          BY <3>5, <4>2, <5>1
        <5>. QED
          BY <3>3, <5>1, <5>2, ServedFrom
      <4>. QED  BY <4>1, <4>2
    <3>. QED
      BY <2>1, <3>9, <3>10, <3>11, <3>13, <3>14 DEF ObjectsOK, WorkerOK
  <2>4. CASE pc = "deleteServer"
    <3>. DEFINE Del(s) == [s EXCEPT !.status = "DELETING"]
    <3>1. \A s \in servers : /\ Del(s).idx = s.idx /\ Del(s).ver = s.ver
                             /\ Del(s).boot = s.boot /\ Del(s).status = "DELETING"
      BY DEF TypeOK, Server
    <3>2. servers' = {IF s.idx = cur /\ s.ver = sv - 1 THEN Del(s) ELSE s : s \in servers}
      BY <1>4, <2>4 DEF Mark
    <3>3. UNCHANGED volumes
      BY <1>4, <2>4
    <3>. HIDE DEF Del
    <3>4. \A t \in servers' : \E s \in servers :
            /\ t.idx = s.idx /\ t.ver = s.ver /\ t.boot = s.boot
            /\ t.status = "PENDING" => s.status = "PENDING"
      BY <3>1, <3>2
    <3>5. \A s \in servers : (s.idx = cur /\ s.ver = sv - 1) \/ s \in servers'
      BY <3>2
    <3>6. PICK n \in servers : n.idx = cur /\ n.ver = sv /\ Established(n) /\ n.boot = vv
      BY <1>2 DEF NewAttached
    <3>7. sv # sv - 1
      BY DEF TypeOK
    <3>8. n \in servers'
      BY <3>5, <3>6, <3>7
    <3>9. UniqueNames'
      <4>1. \A s, t \in servers' : s.idx = t.idx /\ s.ver = t.ver => s = t
        BY <3>1, <3>2 DEF ObjectsOK, UniqueNames
      <4>. QED
        BY <3>3, <4>1 DEF ObjectsOK, UniqueNames
    <3>10. PendingUnattached'
      BY <3>4 DEF ObjectsOK, PendingUnattached
    <3>11. VolumeHasServer'
      <4> SUFFICES ASSUME NEW v \in volumes
                   PROVE  \E t \in servers' : t.idx = v.idx /\ Established(t)
        BY <3>3 DEF VolumeHasServer
      <4>1. PICK s \in servers : s.idx = v.idx /\ Established(s)
        BY DEF ObjectsOK, VolumeHasServer
      <4>. QED
        BY <3>5, <3>6, <3>8, <4>1
    <3>12. BootEstablished'
      BY <3>3, <3>4 DEF ObjectsOK, BootEstablished
    <3>13. NewServerThere' /\ NewVolumeThere' /\ NewAttached'
      BY <1>2, <1>4, <3>3, <3>6, <3>8 DEF NewServerThere, NewVolumeThere, NewAttached
    <3>14. UpdateOK'
      <4>1. \A v \in Of(volumes', cur) : v.ver \in {vv - 1, vv}
        BY <1>1, <3>3 DEF WorkerOK, UpdateOK, Of
      <4>2. \E s \in servers' : s.idx = cur' /\ Established(s)
        BY <3>13 DEF NewServerThere
      <4>. QED
        BY <1>4, <2>4, <3>13, <4>1, <4>2 DEF UpdateOK, Of
    <3>15. ServedKept
      <4> SUFFICES ASSUME NEW i \in Idx, Served(i) PROVE Served(i)'
        BY DEF ServedKept
      <4>1. CASE i = cur
        <5>1. PICK v \in volumes : v.idx = cur /\ v.ver = vv /\ Established(v)
          BY <1>2 DEF NewVolumeThere
        <5>. QED
          BY <3>3, <3>6, <3>8, <4>1, <5>1, ServedFrom
      <4>2. CASE i # cur
        <5>1. PICK s \in servers, v \in volumes :
                /\ s.idx = i /\ v.idx = i /\ s.boot = v.ver
                /\ Established(s) /\ Established(v)
          BY ServedBy DEF ObjectsOK
        <5>2. s \in servers'
          BY <3>5, <4>2, <5>1
        <5>. QED
          BY <3>3, <5>1, <5>2, ServedFrom
      <4>. QED  BY <4>1, <4>2
    <3>. QED
      BY <2>1, <3>9, <3>10, <3>11, <3>12, <3>14, <3>15 DEF ObjectsOK, WorkerOK
  <2>. QED
    BY <1>1, <2>2, <2>3, <2>4 DEF Deletes
<1>. QED
  BY <1>3, <1>4 DEF Destroy, Await

-----------------------------------------------------------------------------
(* The worker's steps that read servers and volumes only.                    *)

\* A step after which the worker relies on nothing it did not know before.
LEMMA LeavingStep ==
  ASSUME ControlOK, ObserveOutdated \/ Discarded \/ WaitUpdated \/ ServersDone
                    \/ VolumesDone \/ Finish \/ Fail \/ Crash
  PROVE  WorkerOK'
<1>1. mode' \in {"none", "update"}
  BY DEF ObserveOutdated, Discarded, WaitUpdated, ServersDone, VolumesDone,
         Finish, Fail, Crash, ReturnError, Return, ControlOK
<1>. QED  BY <1>1, NoWorker

LEMMA CreateLoopStep ==
  ASSUME TypeOK, ControlOK, WorkerOK, UNCHANGED <<servers, volumes>>,
         ObserveMissing \/ GetVersions \/ NextReplica
  PROVE  WorkerOK'
<1>1. CASE ObserveMissing
  BY <1>1 DEF ObserveMissing, Goto, WorkerOK, CreateOK, UpdateOK
<1>2. CASE GetVersions
  <2>1. CASE ReturnError
    BY <2>1, NoWorker DEF ReturnError, Return
  <2>2. CASE ~ReturnError
    <3>1. /\ mode = "create" /\ mode' = mode /\ cur' = cur
          /\ pc' = "server" /\ phase' = "do"
      BY <1>2, <2>2 DEF GetVersions, Goto, ControlOK
    <3>2. /\ ~TooMany(Of(volumes, cur))
          /\ vv' \in (IF Of(volumes, cur) = {} THEN {0} ELSE {v.ver : v \in Of(volumes, cur)})
      BY <1>2, <2>2 DEF GetVersions
    <3>3. \A v \in Of(volumes, cur) : v.ver = vv'
      BY <3>2 DEF TooMany
    <3>4. CreateOK' /\ UpdateOK'
      BY <3>1, <3>3 DEF CreateOK, UpdateOK, Of
    <3>. QED  BY <3>4 DEF WorkerOK
  <2>. QED  BY <2>1, <2>2
<1>3. CASE NextReplica
  <2>1. mode' = "none" \/ (mode' = "create" /\ pc' = "versions" /\ phase' = "do")
    BY <1>3 DEF NextReplica, Return, Goto, ControlOK
  <2>. QED
    BY <2>1 DEF WorkerOK, CreateOK, UpdateOK
<1>. QED  BY <1>1, <1>2, <1>3

\* The steps that move on once the object of the current step is available.
LEMMA ForwardStep ==
  ASSUME TypeOK, ControlOK, ObjectsOK, WorkerOK, UNCHANGED <<servers, volumes>>,
         EnsureNIC \/ WaitAvailable \/ WaitDestroyed
  PROVE  WorkerOK'
<1>1. CASE ReturnError
  BY <1>1, NoWorker DEF ReturnError, Return
<1>2. CASE EnsureNIC /\ Await /\ UNCHANGED <<mode, cur, vv, sv>>
  <2>1. pc = "nic" /\ pc' = pc /\ UNCHANGED <<mode, cur, vv, sv>>
    BY <1>2 DEF EnsureNIC, Await
  <2>2. CreateOK'
    BY <2>1 DEF WorkerOK, CreateOK, Of
  <2>3. UpdateOK'
    BY <2>1 DEF WorkerOK, UpdateOK, Of, NewServerThere, NewVolumeThere, NewAttached
  <2>. QED  BY <2>2, <2>3 DEF WorkerOK
<1>3. CASE /\ Proceed /\ UNCHANGED <<mode, cur, vv, sv>>
           /\ pc = "nic" \/ pc \in Deletes
           /\ mode \in {"create", "bootVolume", "all"}
  <2>1. CASE mode = "create"
    <3>1. pc = "nic" /\ pc' = "volume"
      BY <1>3, <2>1, AfterCreate DEF Proceed, Goto, ControlOK, Deletes
    <3>. QED
      BY <1>3, <2>1, <3>1 DEF WorkerOK, CreateOK, UpdateOK, Of
  <2>2. CASE mode \in {"bootVolume", "all"}
    <3>1. pc' \in {"deleteVolume", "deleteServer", "deleteNIC", "finish"}
      BY <1>3, <2>2, AfterBootVolume, AfterAll DEF Proceed, Goto, ControlOK, Deletes
    <3>2. NewServerThere /\ NewVolumeThere /\ NewAttached
      BY <1>3, <2>2 DEF WorkerOK, UpdateOK, Deletes
    <3>3. NewServerThere' /\ NewVolumeThere' /\ NewAttached'
      BY <1>3, <3>2 DEF NewServerThere, NewVolumeThere, NewAttached
    <3>4. /\ \A v \in Of(volumes', cur') : v.ver \in {vv' - 1, vv'}
          /\ \E s \in servers' : s.idx = cur' /\ Established(s)
      BY <1>3, <2>2 DEF WorkerOK, UpdateOK, Of
    <3>5. UpdateOK'
      BY <3>1, <3>3, <3>4 DEF UpdateOK, Of
    <3>6. CreateOK'
      BY <1>3, <2>2 DEF CreateOK
    <3>. QED  BY <3>5, <3>6 DEF WorkerOK
  <2>. QED  BY <1>3, <2>1, <2>2
<1>4. CASE WaitAvailable /\ pc = "server"
  <2>1. /\ Proceed /\ phase = "wait" /\ UNCHANGED <<mode, cur, vv, sv>>
        /\ mode \in {"create", "all"}
    BY <1>4 DEF WaitAvailable, ControlOK
  <2>2. PICK o \in servers : o.idx = cur /\ o.ver = sv /\ o.status = "AVAILABLE"
    BY <1>4 DEF WaitAvailable, Awaited, At
  <2>3. Established(o)
    BY <2>2 DEF Established
  <2>4. CASE mode = "create"
    <3>1. pc' = "nic"
      BY <1>4, <2>1, <2>4, AfterCreate DEF Proceed, Goto
    <3>2. \A s \in servers : s.idx = cur => s.ver = sv
      BY <1>4, <2>1, <2>4 DEF WorkerOK, CreateOK, Of
    <3>3. \A s \in servers : s.idx = cur => s = o
      BY <2>2, <3>2 DEF ObjectsOK, UniqueNames
    <3>4. CreateOK'
      BY <1>4, <2>1, <2>2, <2>3, <2>4, <3>1, <3>3 DEF WorkerOK, CreateOK, Of
    <3>5. UpdateOK'
      BY <2>1, <2>4 DEF UpdateOK
    <3>. QED  BY <3>4, <3>5 DEF WorkerOK
  <2>5. CASE mode = "all"
    <3>1. pc' = "volume" /\ phase' = "do"
      BY <1>4, <2>1, <2>5, AfterAll DEF Proceed, Goto
    <3>2. NewServerThere'
      BY <2>1, <2>2, <2>3 DEF NewServerThere
    <3>3. UpdateOK'
      BY <1>4, <2>1, <2>5, <3>1, <3>2 DEF WorkerOK, UpdateOK, Of
    <3>4. CreateOK'
      BY <2>1, <2>5 DEF CreateOK
    <3>. QED  BY <3>3, <3>4 DEF WorkerOK
  <2>. QED  BY <2>1, <2>4, <2>5
<1>5. CASE WaitAvailable /\ pc = "volume"
  <2>1. /\ Proceed /\ UNCHANGED <<mode, cur, vv, sv>>
        /\ mode \in {"create", "bootVolume", "all"}
    BY <1>5 DEF WaitAvailable, ControlOK
  <2>2. pc' = "attach"
    BY <1>5, <2>1, AfterCreate, AfterBootVolume, AfterAll DEF Proceed, Goto
  <2>3. \E v \in volumes : v.idx = cur /\ v.ver = vv /\ v.status = "AVAILABLE"
    BY <1>5 DEF WaitAvailable, Awaited, At
  <2>4. NewVolumeThere'
    BY <2>1, <2>3 DEF NewVolumeThere, Established
  <2>5. CreateOK'
    BY <1>5, <2>1, <2>2 DEF WorkerOK, CreateOK, Of
  <2>6. UpdateOK'
    BY <1>5, <2>1, <2>2, <2>4 DEF WorkerOK, UpdateOK, Of, NewServerThere
  <2>. QED  BY <2>5, <2>6 DEF WorkerOK
<1>6. WaitAvailable => pc \in {"server", "volume", "nic"}
  BY DEF WaitAvailable, Creates
<1>7. CASE EnsureNIC \/ WaitDestroyed \/ (WaitAvailable /\ pc = "nic")
  <2>1. pc = "nic" \/ pc \in Deletes
    BY <1>7 DEF EnsureNIC, WaitDestroyed
  <2>2. mode \in {"create", "bootVolume", "all"}
    BY <2>1 DEF ControlOK, Deletes
  <2>. QED
    BY <1>1, <1>2, <1>3, <1>7, <2>1, <2>2 DEF EnsureNIC, WaitDestroyed, WaitAvailable
<1>. QED  BY <1>4, <1>5, <1>6, <1>7

LEMMA UpdateMasterStep ==
  ASSUME TypeOK, ObjectsOK, UpdateMaster, UNCHANGED <<servers, volumes>>
  PROVE  WorkerOK'
<1>1. master \in Idx /\ UpdateByIndex(master)
  BY DEF UpdateMaster, TypeOK, Volume
<1>. QED  BY <1>1, UpdateByIndexStep

LEMMA OutsideStep ==
  ASSUME WorkerOK, UNCHANGED <<servers, volumes, worker>>
  PROVE  WorkerOK'
BY DEF WorkerOK, CreateOK, UpdateOK, worker, Of, NewServerThere, NewVolumeThere, NewAttached

-----------------------------------------------------------------------------
LEMMA IInvInit == Init => IInv
<1> SUFFICES ASSUME Init PROVE IInv
  OBVIOUS
<1>1. TypeOK /\ ControlOK
  BY ControlInit
<1>2. UniqueNames /\ PendingUnattached /\ VolumeHasServer /\ BootEstablished
  BY DEF Init, UniqueNames, PendingUnattached, VolumeHasServer, BootEstablished
<1>3. CreateOK /\ UpdateOK
  BY DEF Init, CreateOK, UpdateOK
<1>. QED  BY <1>1, <1>2, <1>3 DEF IInv

\* Every step keeps the invariant, and every replica that works.
LEMMA IInvStep == IInv /\ [Next]_vars => IInv' /\ ServedKept
<1> SUFFICES ASSUME IInv, [Next]_vars PROVE IInv' /\ ServedKept
  OBVIOUS
<1>1. TypeOK /\ ControlOK /\ ObjectsOK /\ WorkerOK
  BY DEF IInv, ObjectsOK, WorkerOK
<1>2. TypeOK' /\ ControlOK'
  BY <1>1, ControlStep
<1>. DEFINE Writes == \/ EnsureServer \/ EnsureVolume \/ Attach \/ UpdateServer
                      \/ UpdateVolume \/ Destroy \/ WaitRejected \/ Settle
            Enters == ObserveMissing \/ GetVersions \/ NextReplica
            Forwards == EnsureNIC \/ WaitAvailable \/ WaitDestroyed
            Leaves == \/ ObserveOutdated \/ Discarded \/ WaitUpdated \/ ServersDone
                      \/ VolumesDone \/ Finish \/ Fail \/ Crash
            Outside == UNCHANGED <<servers, volumes, worker>>
<1>3. CASE Writes
  BY <1>1, <1>2, <1>3, EnsureServerStep, EnsureVolumeStep, AttachStep, UpdateServerStep,
     UpdateVolumeStep, DestroyStep, WaitRejectedStep, SettleStep
  DEF IInv, ObjectsOK, WorkerOK
<1>4. CASE Enters \/ Forwards \/ Leaves \/ UpdateMaster \/ Outside
  <2>1. UNCHANGED <<servers, volumes>>
    BY <1>4 DEF ObserveMissing, GetVersions, NextReplica, EnsureNIC, WaitAvailable,
      WaitDestroyed, ObserveOutdated, Discarded, WaitUpdated, ServersDone, VolumesDone,
      Finish, Fail, Crash, UpdateMaster, objects
  <2>2. WorkerOK'
    BY <1>1, <1>4, <2>1, CreateLoopStep, ForwardStep, LeavingStep, UpdateMasterStep,
       OutsideStep
  <2>3. ObjectsOK' /\ ServedKept
    BY <1>1, <2>1, SameObjects
  <2>. QED
    BY <1>2, <2>2, <2>3 DEF IInv, ObjectsOK, WorkerOK
<1>5. Writes \/ Enters \/ Forwards \/ Leaves \/ UpdateMaster \/ Outside
  BY DEF Next, Reconcile, ObserveUpToDate, RemovePending, Edit, Elect, vars, objects
<1>. QED  BY <1>3, <1>4, <1>5

\* The inductive invariant holds for every number of replicas and every bound on
\* the environment.
THEOREM Invariant == Spec => []IInv
<1>. QED
  BY IInvInit, IInvStep, PTL DEF Spec

\* No step of the controller or of its environment takes a working replica
\* down, whatever fails and wherever the provider restarts.
THEOREM ServedForever == Spec => ServedStable
<1>1. IInv /\ [Next]_vars => [\A i \in Idx : Served(i) => Served(i)']_vars
  BY IInvStep DEF ServedKept
<1>. QED
  BY <1>1, Invariant, PTL DEF Spec, ServedStable

-----------------------------------------------------------------------------
(* The master's replica is replaced last.                                    *)

\* Volumes that keep their name and their image.
ImagesKept ==
  \A w \in volumes' : \E v \in volumes : w.idx = v.idx /\ w.ver = v.ver /\ w.image = v.image

LEMMA StillListedKept ==
  ASSUME StillListed, ImagesKept, UNCHANGED worker
  PROVE  StillListed'
BY DEF StillListed, ImagesKept, worker, Recreate, Deferred

LEMMA StillListedUpdateVolume ==
  ASSUME IInv, StillListed, UpdateVolume, pc' = "volumes"
  PROVE  StillListed'
<1>1. PICK name \in todo, v \in volumes :
        /\ v.idx = name.idx /\ v.ver = name.ver
        /\ Recreate(v) => Deferred(v)
        /\ volumes' = IF Recreate(v) \/ v.size = cr.size THEN volumes
                      ELSE (volumes \ {v}) \cup
                           {[v EXCEPT !.size = cr.size, !.status = Changed(@)]}
        /\ todo' = todo \ {name}
        /\ UNCHANGED <<cr, master>>
  BY DEF UpdateVolume, UpdateByIndex, ReturnError, Return, Goto, cluster, At
<1>2. v \in volumes /\ v.idx = name.idx /\ v.ver = name.ver
  BY <1>1
<1>3. volumes \subseteq Volume
  BY DEF IInv, TypeOK
<1> SUFFICES ASSUME NEW w \in volumes', w.image # cr.image, w.idx # master
             PROVE  [idx |-> w.idx, ver |-> w.ver] \in todo'
  BY <1>1 DEF StillListed, Recreate, Deferred
<1>4. CASE w \in volumes
  <2>1. [idx |-> w.idx, ver |-> w.ver] \in todo
    BY <1>4 DEF StillListed, UpdateVolume, Recreate, Deferred
  <2>2. w # v
    BY <1>1 DEF Recreate, Deferred
  <2>3. ~(w.idx = v.idx /\ w.ver = v.ver)
    BY <1>2, <1>4, <2>2 DEF IInv, UniqueNames
  <2>4. [idx |-> w.idx, ver |-> w.ver] # name
    BY <1>2, <2>3
  <2>. QED
    BY <1>1, <2>1, <2>4
<1>5. CASE w = [v EXCEPT !.size = cr.size, !.status = Changed(@)]
  <2>1. w.image = v.image /\ w.idx = v.idx
    BY <1>2, <1>3, <1>5 DEF Volume
  <2>. QED
    BY <1>1, <2>1 DEF Recreate, Deferred
<1>. QED
  BY <1>1, <1>4, <1>5

LEMMA StillListedStep ==
  ASSUME IInv, StillListed, [Next]_vars
  PROVE  StillListed'
<1> SUFFICES ASSUME pc' = "volumes" PROVE StillListed'
  BY DEF StillListed
<1>1. CASE UpdateVolume
  BY <1>1, StillListedUpdateVolume
<1>2. CASE ServersDone
  BY <1>2 DEF ServersDone, StillListed, Names, objects, cluster, Recreate, Deferred
<1>3. CASE Settle
  <2>1. ImagesKept
    <3>1. \A v \in volumes : LET w == [v EXCEPT !.status = Advance(@)]
                             IN w.idx = v.idx /\ w.ver = v.ver /\ w.image = v.image
      BY DEF IInv, TypeOK, Volume
    <3>. QED
      BY <1>3, <3>1 DEF Settle, ServerSettles, VolumeSettles, NICSettles, Removed, ImagesKept
  <2>2. UNCHANGED worker
    BY <1>3 DEF Settle, ServerSettles, VolumeSettles, NICSettles, Removed
  <2>. QED  BY <2>1, <2>2, StillListedKept
<1>4. CASE ObserveUpToDate \/ RemovePending \/ Edit \/ Elect \/ UNCHANGED vars
  BY <1>4, StillListedKept DEF ObserveUpToDate, RemovePending, Edit, Elect, vars, objects, ImagesKept
<1>5. CASE \/ ObserveMissing \/ ObserveOutdated \/ GetVersions \/ NextReplica \/ Discarded
           \/ UpdateServer \/ UpdateMaster \/ VolumesDone \/ Finish \/ Fail \/ Crash
           \/ WaitUpdated
  BY <1>5 DEF ObserveMissing, ObserveOutdated, GetVersions, NextReplica, Discarded,
       UpdateServer, UpdateMaster, UpdateByIndex, VolumesDone, Finish, Fail, Crash,
       ReturnError, Return, Goto, Await, WaitUpdated
<1>6. CASE EnsureServer \/ EnsureNIC \/ EnsureVolume \/ Attach \/ WaitAvailable \/ WaitRejected
           \/ Destroy \/ WaitDestroyed
  <2>1. pc # "volumes" /\ (pc' = pc \/ pc' = "idle" \/ pc' = After[mode][pc])
    BY <1>6 DEF EnsureServer, EnsureNIC, EnsureVolume, Attach, WaitAvailable, WaitRejected,
         Destroy, WaitDestroyed, ReturnError, Return, Await, Proceed, Goto, Creates, Deletes
  <2>2. \/ mode = "create" /\ pc \in {"server", "nic", "volume", "attach"}
        \/ mode = "bootVolume" /\ pc \in {"volume", "attach", "deleteVolume"}
        \/ mode = "all" /\ pc \in {"server", "volume", "attach", "nic", "deleteVolume",
                                   "deleteServer", "deleteNIC"}
    BY <1>6 DEF EnsureServer, EnsureNIC, EnsureVolume, Attach, WaitAvailable, WaitRejected,
         Destroy, WaitDestroyed, Creates, Deletes, IInv, ControlOK
  <2>. QED
    BY <2>1, <2>2, AfterCreate, AfterBootVolume, AfterAll
<1>. QED
  BY <1>1, <1>2, <1>3, <1>4, <1>5, <1>6 DEF Next, Reconcile

\* Only the loop over the volumes and its last step turn to a replacement.
LEMMA MasterLastStep ==
  ASSUME IInv, StillListed, [Next]_vars, mode = "update", mode' \in {"bootVolume", "all"},
         cur' = master
  PROVE  \A v \in volumes : v.idx # master => ~Recreate(v)
<1>1. UpdateVolume \/ UpdateMaster
  BY DEF Next, Reconcile, ObserveMissing, ObserveOutdated, ObserveUpToDate, GetVersions,
       EnsureServer, EnsureNIC, EnsureVolume, Attach, NextReplica, WaitAvailable, Discarded,
       UpdateServer, WaitUpdated, ServersDone, VolumesDone, Destroy, WaitDestroyed, Finish,
       Settle, ServerSettles, VolumeSettles, NICSettles, Removed, WaitRejected, Fail, Crash,
       RemovePending, Edit, Elect, ReturnError, Return, vars, worker
<1>2. CASE UpdateVolume
  <2>1. PICK v \in volumes : ~Deferred(v) /\ cur' = v.idx
    BY <1>2 DEF UpdateVolume, UpdateByIndex, ReturnError, Return, At
  <2>. QED  BY <2>1 DEF Deferred
<1>3. CASE UpdateMaster
  BY <1>3 DEF UpdateMaster, StillListed, Deferred
<1>. QED  BY <1>1, <1>2, <1>3

\* The replacement of the ACTIVE replica starts only after every other boot
\* volume matches the worker's spec, for every number of replicas, whatever
\* fails and wherever the provider restarts.
THEOREM MasterComesLast == Spec => MasterLast
<1>1. Init => StillListed
  BY DEF Init, StillListed
<1>2. IInv /\ StillListed /\ [Next]_vars => StillListed'
  BY StillListedStep
<1>3. IInv /\ StillListed /\ [Next]_vars =>
        [mode = "update" /\ mode' \in {"bootVolume", "all"} /\ cur' = master =>
           \A v \in volumes : v.idx # master => ~Recreate(v)]_vars
  BY MasterLastStep
<1>. QED
  BY <1>1, <1>2, <1>3, Invariant, PTL DEF Spec, MasterLast
=============================================================================
