---------------------- MODULE ServerSetRollingProofs -----------------------
(* That the update is rolling: ServerSet implements RollingReplacement, and  *)
(* while spec.replicas is not raised no two replicas are being replaced, nor *)
(* do the counts Observe compares hide a missing server, volume or NIC.      *)
EXTENDS ServerSetProofs, FiniteSetTheorems

-----------------------------------------------------------------------------
(* The replacement is rolling: the refinement of RollingReplacement.         *)

LEMMA VolumesOKInit == Init => VolumesOK
BY DEF Init, VolumesOK

LEMMA OneVolumeKept ==
  ASSUME IInv', ImagesKept, NEW i, OneVolume(i)
  PROVE  OneVolume(i)'
<1> SUFFICES ASSUME NEW v \in volumes', NEW w \in volumes', v.idx = i, w.idx = i
             PROVE  v = w
  BY DEF OneVolume
<1>1. PICK a \in volumes : v.idx = a.idx /\ v.ver = a.ver
  BY DEF ImagesKept
<1>2. PICK b \in volumes : w.idx = b.idx /\ w.ver = b.ver
  BY DEF ImagesKept
<1>3. v.ver = w.ver
  BY <1>1, <1>2 DEF OneVolume
<1>. QED
  BY <1>3 DEF IInv, UniqueNames

LEMMA ImagesKeptSame == UNCHANGED volumes => ImagesKept
BY DEF ImagesKept

\* The volumes lose members or change their status, the worker stays.
LEMMA VolumesOKKept ==
  ASSUME IInv', VolumesOK, ImagesKept, UNCHANGED <<pc, mode, cr, cur, vv, todo>>
  PROVE  VolumesOK'
<1>1. pc = "servers" => \A i \in Idx : OneVolume(i)' \/ \E name \in todo : name.idx = i
  BY OneVolumeKept DEF VolumesOK
<1>2. pc = "volumes" => \A i \in Idx : OneVolume(i)'
  BY OneVolumeKept DEF VolumesOK
<1>3. mode \in {"bootVolume", "all"} => \A i \in Idx \ {cur} : OneVolume(i)'
  BY OneVolumeKept DEF VolumesOK
<1>4. mode \in {"bootVolume", "all"} =>
        \A v \in volumes' : v.idx = cur /\ v.ver = vv => v.image = cr.image
  BY DEF VolumesOK, ImagesKept
<1>. QED
  BY <1>1, <1>2, <1>3, <1>4 DEF VolumesOK

LEMMA UpdateByIndexVolumes ==
  ASSUME IInv, IInv', VolumesOK, pc = "volumes", UNCHANGED volumes, NEW i \in Idx, UpdateByIndex(i)
  PROVE  VolumesOK'
<1>1. CASE ReturnError
  BY <1>1 DEF ReturnError, Return, VolumesOK
<1>2. CASE ~ReturnError
  <2>1. PICK v \in volumes : v.idx = i /\ vv' = v.ver + 1
    BY <1>2 DEF UpdateByIndex, Of
  <2>2. /\ mode' \in {"bootVolume", "all"} /\ pc' \in {"server", "volume"}
        /\ cur' = i /\ UNCHANGED cr
    BY <1>2 DEF UpdateByIndex, Goto
  <2>3. v.ver \in Nat
    BY DEF IInv, TypeOK, Volume
  <2>4. \A j \in Idx : OneVolume(j)'
    BY ImagesKeptSame, OneVolumeKept DEF VolumesOK
  <2>5. \A w \in volumes : w.idx = i => w.ver # vv'
    BY <2>1, <2>3 DEF VolumesOK, OneVolume
  <2>. QED
    BY <2>2, <2>4, <2>5 DEF VolumesOK
<1>. QED  BY <1>1, <1>2

LEMMA EnsureVolumeVolumes ==
  ASSUME IInv, IInv', VolumesOK, EnsureVolume, ~ReturnError
  PROVE  VolumesOK'
<1>1. /\ pc = "volume" /\ mode \in {"create", "bootVolume", "all"}
      /\ pc' \notin {"servers", "volumes"} /\ UNCHANGED <<mode, cr, cur, vv>>
  <2>1. pc = "volume" /\ mode \in {"create", "bootVolume", "all"}
    BY DEF EnsureVolume, IInv, ControlOK
  <2>. QED
    BY <2>1, AfterCreate, AfterBootVolume, AfterAll
    DEF EnsureVolume, Await, Proceed, Goto
<1>2. CASE UNCHANGED volumes
  <2>1. mode \in {"bootVolume", "all"} => \A i \in Idx \ {cur} : OneVolume(i)'
    BY <1>2, ImagesKeptSame, OneVolumeKept DEF VolumesOK
  <2>. QED  BY <1>1, <1>2, <2>1 DEF VolumesOK
<1>3. CASE volumes' = volumes \cup {[idx |-> cur, ver |-> vv, image |-> cr.image,
                                     size |-> cr.size, status |-> "PENDING"]}
  <2>1. \A i \in Idx \ {cur} : OneVolume(i) => OneVolume(i)'
    BY <1>3 DEF OneVolume
  <2>. QED  BY <1>1, <1>3, <2>1 DEF VolumesOK
<1>. QED
  BY <1>2, <1>3 DEF EnsureVolume

LEMMA UpdateServerVolumes ==
  ASSUME IInv, IInv', VolumesOK, UpdateServer
  PROVE  VolumesOK'
<1>1. CASE ReturnError
  BY <1>1 DEF ReturnError, Return, VolumesOK
<1>2. CASE ~ReturnError
  <2>0. PICK name \in todo : ~TooMany(Of(volumes, name.idx)) /\ todo' = todo \ {name}
    BY <1>2 DEF UpdateServer
  <2>1. OneVolume(name.idx) /\ todo' = todo \ {name}
    BY <2>0 DEF OneVolume, TooMany, Of
  <2>2. /\ pc = "servers" /\ mode = "update" /\ UNCHANGED volumes
        /\ UNCHANGED mode /\ (phase' = "wait" \/ UNCHANGED pc) /\ pc' = "servers"
    BY <1>2 DEF UpdateServer, Await, IInv, ControlOK
  <2>3. \A i \in Idx : OneVolume(i) => OneVolume(i)'
    BY <2>2, ImagesKeptSame, OneVolumeKept
  <2>4. \A i \in Idx : OneVolume(i) \/ \E n \in todo' : n.idx = i
    BY <2>1, <2>2 DEF VolumesOK
  <2>. QED
    BY <2>2, <2>3, <2>4 DEF VolumesOK
<1>. QED  BY <1>1, <1>2

LEMMA StrategySuccessor ==
  ASSUME ControlOK, pc \in Steps, pc # "idle"
  PROVE  After[mode][pc] \in Steps \cup {"next", "finish"}
<1>1. \/ mode = "create" /\ pc \in {"server", "nic", "volume", "attach"}
      \/ mode = "bootVolume" /\ pc \in {"volume", "attach", "deleteVolume"}
      \/ mode = "all" /\ pc \in {"server", "volume", "attach", "nic", "deleteVolume",
                                 "deleteServer", "deleteNIC"}
  BY DEF ControlOK, Steps
<1>. QED  BY <1>1, AfterCreate, AfterBootVolume, AfterAll DEF Steps

\* A step of the worker that leaves the volumes, or only their status, alone.
LEMMA StepVolumes ==
  ASSUME IInv, IInv', VolumesOK, ImagesKept, pc \in Steps,
         UNCHANGED <<mode, cr, cur, vv>>, pc' = pc \/ Proceed
  PROVE  VolumesOK'
<1>1. pc' \notin {"servers", "volumes"}
  BY StrategySuccessor DEF IInv, Proceed, Goto, Steps
<1>2. mode \in {"bootVolume", "all"} => \A i \in Idx \ {cur} : OneVolume(i)'
  BY OneVolumeKept DEF VolumesOK
<1>3. mode \in {"bootVolume", "all"} =>
        \A v \in volumes' : v.idx = cur /\ v.ver = vv => v.image = cr.image
  BY DEF VolumesOK, ImagesKept
<1>. QED
  BY <1>1, <1>2, <1>3 DEF VolumesOK

LEMMA MarkImages ==
  ASSUME TypeOK, NEW i, NEW n, NEW st, volumes' = Mark(volumes, i, n, st)
  PROVE  ImagesKept
<1>1. \A v \in volumes : LET w == [v EXCEPT !.status = st]
                         IN w.idx = v.idx /\ w.ver = v.ver /\ w.image = v.image
  BY DEF TypeOK, Volume
<1>. QED
  BY <1>1 DEF Mark, ImagesKept

LEMMA SettleImages == TypeOK /\ Settle => ImagesKept /\ UNCHANGED <<worker, cluster>>
<1> SUFFICES ASSUME TypeOK, Settle PROVE ImagesKept /\ UNCHANGED <<worker, cluster>>
  OBVIOUS
<1>1. \A v \in volumes : LET w == [v EXCEPT !.status = Advance(@)]
                         IN w.idx = v.idx /\ w.ver = v.ver /\ w.image = v.image
  BY DEF TypeOK, Volume
<1>. QED
  BY <1>1 DEF Settle, ServerSettles, VolumeSettles, NICSettles, Removed, ImagesKept

LEMMA UpdateVolumeVolumes ==
  ASSUME IInv, IInv', VolumesOK, UpdateVolume
  PROVE  VolumesOK'
<1>1. CASE ReturnError
  BY <1>1 DEF ReturnError, Return, VolumesOK
<1>2. CASE UNCHANGED volumes /\ \E v \in volumes : UpdateByIndex(v.idx)
  <2>1. pc = "volumes" /\ \A v \in volumes : v.idx \in Idx
    BY DEF UpdateVolume, IInv, TypeOK, Volume
  <2>. QED  BY <1>2, <2>1, UpdateByIndexVolumes
<1>3. CASE /\ UNCHANGED <<pc, phase, mode, cr, master, cur, vv, sv>>
           /\ \E v \in volumes : volumes' = IF Recreate(v) \/ v.size = cr.size THEN volumes
                        ELSE (volumes \ {v}) \cup
                             {[v EXCEPT !.size = cr.size, !.status = Changed(@)]}
  <2>1. \A v \in volumes : LET w == [v EXCEPT !.size = cr.size, !.status = Changed(@)]
                           IN w.idx = v.idx /\ w.ver = v.ver /\ w.image = v.image
    BY DEF IInv, TypeOK, Volume
  <2>2. ImagesKept
    BY <1>3, <2>1 DEF ImagesKept
  <2>3. pc = "volumes" /\ mode = "update"
    BY DEF UpdateVolume, IInv, ControlOK
  <2>4. \A i \in Idx : OneVolume(i)'
    BY <2>2, <2>3, OneVolumeKept DEF VolumesOK
  <2>. QED  BY <1>3, <2>3, <2>4 DEF VolumesOK
<1>. QED
  BY <1>1, <1>2, <1>3 DEF UpdateVolume, At

LEMMA ObserveOutdatedVolumes ==
  ASSUME IInv, IInv', VolumesOK, ObserveOutdated
  PROVE  VolumesOK'
<1>1. pc' = "servers" /\ mode' = "update" /\ todo' = Names(servers) /\ UNCHANGED volumes
  BY DEF ObserveOutdated, Goto, objects
<1>2. \A i \in Idx : OneVolume(i) \/ \E v \in volumes : v.idx = i
  BY DEF OneVolume
<1>3. \A v \in volumes : \E name \in todo' : name.idx = v.idx
  <2>1. \A s \in servers : [idx |-> s.idx, ver |-> s.ver] \in todo'
    BY <1>1 DEF Names
  <2>. QED  BY <2>1 DEF IInv, VolumeHasServer
<1>4. \A i \in Idx : OneVolume(i)' \/ \E name \in todo' : name.idx = i
  BY <1>1, <1>2, <1>3 DEF OneVolume
<1>. QED  BY <1>1, <1>4 DEF VolumesOK

LEMMA VolumesOKStep ==
  ASSUME IInv, IInv', VolumesOK, [Next]_vars
  PROVE  VolumesOK'
<1>1. CASE ObserveOutdated \/ UpdateServer \/ UpdateVolume
  BY <1>1, ObserveOutdatedVolumes, UpdateServerVolumes, UpdateVolumeVolumes
<1>2. CASE EnsureVolume
  BY <1>2, EnsureVolumeVolumes DEF VolumesOK, ReturnError, Return
<1>3. CASE UpdateMaster
  <2>1. master \in Idx /\ pc = "volumes" /\ UpdateByIndex(master) /\ UNCHANGED volumes
    BY <1>3 DEF UpdateMaster, objects, IInv, TypeOK, Volume
  <2>. QED  BY <2>1, UpdateByIndexVolumes
<1>4. CASE EnsureServer \/ EnsureNIC \/ Attach \/ WaitAvailable \/ WaitDestroyed
  <2>1. UNCHANGED volumes /\ pc \in Steps
    BY <1>4 DEF EnsureServer, EnsureNIC, Attach, WaitAvailable, WaitDestroyed, objects,
         Creates, Deletes, Steps
  <2>2. ReturnError \/ (UNCHANGED <<mode, cr, cur, vv>> /\ (pc' = pc \/ Proceed))
    BY <1>4 DEF EnsureServer, EnsureNIC, Attach, WaitAvailable, WaitDestroyed, Await
  <2>. QED
    BY <2>1, <2>2, ImagesKeptSame, StepVolumes DEF ReturnError, Return, VolumesOK
<1>5. CASE WaitRejected \/ Destroy
  <2>1. pc \in Steps /\ ImagesKept
    BY <1>5, ImagesKeptSame, MarkImages DEF WaitRejected, Destroy, Creates, Deletes, Steps,
         IInv, objects
  <2>2. ReturnError \/ (UNCHANGED <<mode, cr, cur, vv>> /\ pc' = pc)
    BY <1>5 DEF WaitRejected, Destroy, Await
  <2>. QED
    BY <2>1, <2>2, StepVolumes DEF ReturnError, Return, VolumesOK
<1>6. CASE ServersDone
  <2>1. /\ pc = "servers" /\ todo = {} /\ pc' = "volumes" /\ mode = "update"
        /\ UNCHANGED <<volumes, mode>>
    BY <1>6 DEF ServersDone, Goto, objects, IInv, ControlOK
  <2>2. \A i \in Idx : OneVolume(i)'
    BY <2>1 DEF VolumesOK, OneVolume
  <2>. QED  BY <2>1, <2>2 DEF VolumesOK
<1>7. CASE WaitUpdated
  <2>1. pc = "servers" /\ mode = "update" /\ UNCHANGED <<volumes, pc, mode, todo>>
    BY <1>7 DEF WaitUpdated, objects, IInv, ControlOK
  <2>2. \A i \in Idx : OneVolume(i) => OneVolume(i)'
    BY <2>1 DEF OneVolume
  <2>. QED  BY <2>1, <2>2 DEF VolumesOK
<1>8. CASE \/ ObserveMissing \/ GetVersions \/ NextReplica \/ Discarded
           \/ VolumesDone \/ Finish \/ Fail \/ Crash
  <2>1. Return \/ (mode' = "create" /\ pc' \in {"versions", "server"})
    BY <1>8 DEF ObserveMissing, GetVersions, NextReplica, Discarded, VolumesDone, Finish,
         Fail, Crash, ReturnError, Goto, IInv, ControlOK
  <2>. QED  BY <2>1 DEF Return, VolumesOK
<1>9. CASE Settle \/ ObserveUpToDate \/ RemovePending \/ Edit \/ Elect \/ UNCHANGED vars
  <2>1. ImagesKept /\ UNCHANGED worker
    BY <1>9, SettleImages, ImagesKeptSame DEF IInv, ObserveUpToDate, RemovePending, Edit, Elect,
         vars, objects
  <2>. QED  BY <2>1, VolumesOKKept DEF worker
<1>. QED
  BY <1>1, <1>2, <1>3, <1>4, <1>5, <1>6, <1>7, <1>8, <1>9 DEF Next, Reconcile

\* The images the replicas run, as the abstract specification sees them.
Running == [i \in Idx |-> RunningImages(i)]

\* Server s boots volume v in replica i.
Boots(i, s, v) ==
  /\ s.idx = i /\ v.idx = i /\ s.boot = v.ver
  /\ s.status # "DELETING" /\ v.status # "DELETING"

LEMMA RunningBoots ==
  ASSUME NEW i
  PROVE  /\ \A img : img \in RunningImages(i) <=>
                       \E s \in servers, v \in volumes : Boots(i, s, v) /\ img = v.image
         /\ \A img : img \in RunningImages(i)' <=>
                       \E s \in servers', v \in volumes' : Boots(i, s, v) /\ img = v.image
BY DEF RunningImages, Live, Boots

LEMMA RunningType == TypeOK => Running \in [Idx -> SUBSET Images]
<1> SUFFICES ASSUME TypeOK PROVE \A i \in Idx : RunningImages(i) \subseteq Images
  BY DEF Running
<1>1. \A v \in volumes : v.image \in Images
  BY DEF TypeOK, Volume
<1>. QED  BY <1>1 DEF RunningImages, Live

\* A server is only taken from the volume it boots, a volume without ID boots
\* nothing: what comes, goes or changes otherwise does not show.
ServersBootSame ==
  /\ \A t \in servers' : t.boot # NoVolume /\ t.status # "DELETING" =>
       \E s \in servers : s.status # "DELETING" /\ s.idx = t.idx /\ s.boot = t.boot
  /\ \A s \in servers : s.boot # NoVolume /\ s.status # "DELETING" =>
       \E t \in servers' : t.status # "DELETING" /\ t.idx = s.idx /\ t.boot = s.boot

VolumesBootSame ==
  /\ \A w \in volumes' : w.status \notin {"PENDING", "DELETING"} =>
       \E v \in volumes : /\ v.status # "DELETING" /\ v.idx = w.idx
                          /\ v.ver = w.ver /\ v.image = w.image
  /\ \A v \in volumes : v.status \notin {"PENDING", "DELETING"} =>
       \E w \in volumes' : /\ w.status # "DELETING" /\ w.idx = v.idx
                           /\ w.ver = v.ver /\ w.image = v.image

LEMMA BootedVolume ==
  ASSUME TypeOK, BootEstablished, NEW s \in servers, NEW v \in volumes, NEW i, Boots(i, s, v)
  PROVE  s.boot # NoVolume /\ v.status \notin {"PENDING", "DELETING"}
BY DEF TypeOK, Volume, NoVolume, BootEstablished, Boots

LEMMA BootedVolumeNext ==
  ASSUME TypeOK', BootEstablished', NEW s \in servers', NEW v \in volumes', NEW i, Boots(i, s, v)
  PROVE  s.boot # NoVolume /\ v.status \notin {"PENDING", "DELETING"}
BY DEF TypeOK, Volume, NoVolume, BootEstablished, Boots

LEMMA RunningSame ==
  ASSUME IInv, IInv', ServersBootSame, VolumesBootSame
  PROVE  Running' = Running
<1> SUFFICES ASSUME NEW i \in Idx, NEW img
             PROVE  img \in RunningImages(i) <=> img \in RunningImages(i)'
  <2>1. \A i \in Idx : RunningImages(i) = RunningImages(i)'
    OBVIOUS
  <2>. QED  BY <2>1 DEF Running, Idx
<1>1. ASSUME NEW s \in servers, NEW v \in volumes, Boots(i, s, v), img = v.image
      PROVE  \E t \in servers', w \in volumes' : Boots(i, t, w) /\ img = w.image
  <2>1. s.boot # NoVolume /\ v.status \notin {"PENDING", "DELETING"}
    BY <1>1, BootedVolume DEF IInv
  <2>2. PICK t \in servers' : t.status # "DELETING" /\ t.idx = s.idx /\ t.boot = s.boot
    BY <1>1, <2>1 DEF ServersBootSame, Boots
  <2>3. PICK w \in volumes' : /\ w.status # "DELETING" /\ w.idx = v.idx
                              /\ w.ver = v.ver /\ w.image = v.image
    BY <2>1 DEF VolumesBootSame
  <2>. QED  BY <1>1, <2>2, <2>3 DEF Boots
<1>2. ASSUME NEW t \in servers', NEW w \in volumes', Boots(i, t, w), img = w.image
      PROVE  \E s \in servers, v \in volumes : Boots(i, s, v) /\ img = v.image
  <2>1. t.boot # NoVolume /\ w.status \notin {"PENDING", "DELETING"}
    BY <1>2, BootedVolumeNext DEF IInv
  <2>2. PICK s \in servers : s.status # "DELETING" /\ s.idx = t.idx /\ s.boot = t.boot
    BY <1>2, <2>1 DEF ServersBootSame, Boots
  <2>3. PICK v \in volumes : /\ v.status # "DELETING" /\ v.idx = w.idx
                             /\ v.ver = w.ver /\ v.image = w.image
    BY <2>1 DEF VolumesBootSame
  <2>. QED  BY <1>2, <2>2, <2>3 DEF Boots
<1>. QED
  BY <1>1, <1>2, RunningBoots

LEMMA BootSame ==
  /\ UNCHANGED servers => ServersBootSame
  /\ UNCHANGED volumes => VolumesBootSame
BY DEF ServersBootSame, VolumesBootSame

-----------------------------------------------------------------------------
(* The steps that change no image: all but Attach and Destroy.               *)
LEMMA EnsureServerBoots ==
  ASSUME IInv, EnsureServer
  PROVE  ServersBootSame
<1>1. CASE UNCHANGED servers
  BY <1>1, BootSame
<1>2. CASE servers' = servers \cup {[idx |-> cur, ver |-> sv, cores |-> cr.cores,
                                     boot |-> NoVolume, status |-> "PENDING"]}
  BY <1>2 DEF ServersBootSame
<1>3. CASE /\ ~TooMany(Ensured(servers, sv))
           /\ \E s \in Ensured(servers, sv) : ~HasId(s)
           /\ servers' = {IF s \in Ensured(servers, sv)
                          THEN [s EXCEPT !.status = "DELETING"] ELSE s : s \in servers}
  <2>. DEFINE found == Ensured(servers, sv)
  <2>1. \A s \in found : ~HasId(s)
    BY <1>3 DEF TooMany
  <2>2. \A s \in found : s \in servers /\ s.status \in {"PENDING", "DELETING"}
    BY <2>1 DEF Ensured, Of, At, HasId, IInv, TypeOK, Server, Status
  <2>3. \A s \in found : s.boot = NoVolume \/ s.status = "DELETING"
    BY <2>2 DEF IInv, PendingUnattached
  <2>4. servers' = {IF s \in found THEN [s EXCEPT !.status = "DELETING"] ELSE s : s \in servers}
    BY <1>3
  <2>5. \A s \in servers : [s EXCEPT !.status = "DELETING"].status = "DELETING"
    BY DEF IInv, TypeOK, Server
  <2>. HIDE DEF found
  <2>. QED
    BY <2>3, <2>4, <2>5 DEF ServersBootSame
<1>. QED
  BY <1>1, <1>2, <1>3 DEF EnsureServer

LEMMA EnsureVolumeBoots ==
  ASSUME EnsureVolume
  PROVE  VolumesBootSame
BY DEF EnsureVolume, VolumesBootSame

LEMMA ChangedLive == \A st : Changed(st) = "DELETING" <=> st = "DELETING"
BY DEF Changed

LEMMA UpdateServerBoots ==
  ASSUME TypeOK, UpdateServer
  PROVE  ServersBootSame
<1>1. CASE UNCHANGED servers
  BY <1>1, BootSame
<1>2. CASE \E this \in SUBSET servers :
             servers' = {IF s \in this
                         THEN [s EXCEPT !.cores = cr.cores, !.status = Changed(@)]
                         ELSE s : s \in servers}
  <2>1. PICK this \in SUBSET servers :
             servers' = {IF s \in this
                         THEN [s EXCEPT !.cores = cr.cores, !.status = Changed(@)]
                         ELSE s : s \in servers}
    BY <1>2
  <2>. DEFINE set(s) == [s EXCEPT !.cores = cr.cores, !.status = Changed(@)]
  <2>2. \A s \in servers : /\ set(s).idx = s.idx /\ set(s).boot = s.boot
                           /\ set(s).status = Changed(s.status)
    BY DEF TypeOK, Server
  <2>3. servers' = {IF s \in this THEN set(s) ELSE s : s \in servers}
    BY <2>1
  <2>. HIDE DEF set
  <2>. QED
    BY <2>2, <2>3, ChangedLive DEF ServersBootSame
<1>. QED
  BY <1>1, <1>2 DEF UpdateServer, At

LEMMA UpdateVolumeBoots ==
  ASSUME TypeOK, UpdateVolume
  PROVE  VolumesBootSame
<1>1. CASE UNCHANGED volumes
  BY <1>1, BootSame
<1>2. CASE \E v \in volumes :
             volumes' = (volumes \ {v}) \cup
                          {[v EXCEPT !.size = cr.size, !.status = Changed(@)]}
  <2>1. PICK v \in volumes :
             volumes' = (volumes \ {v}) \cup
                          {[v EXCEPT !.size = cr.size, !.status = Changed(@)]}
    BY <1>2
  <2>. DEFINE w == [v EXCEPT !.size = cr.size, !.status = Changed(@)]
  <2>2. /\ w.idx = v.idx /\ w.ver = v.ver /\ w.image = v.image
        /\ w.status = Changed(v.status)
    BY DEF TypeOK, Volume
  <2>3. volumes' = (volumes \ {v}) \cup {w}
    BY <2>1
  <2>. HIDE DEF w
  <2>. QED
    BY <2>2, <2>3, ChangedLive DEF VolumesBootSame
<1>. QED
  BY <1>1, <1>2 DEF UpdateVolume, At

\* A rejected object has no ID yet.
LEMMA WaitRejectedBoots ==
  ASSUME IInv, WaitRejected
  PROVE  ServersBootSame /\ VolumesBootSame
<1>0. /\ \A s \in servers : [s EXCEPT !.status = "DELETING"].status = "DELETING"
      /\ \A v \in volumes : [v EXCEPT !.status = "DELETING"].status = "DELETING"
  BY DEF IInv, TypeOK, Server, Volume
<1>1. CASE pc = "server"
  <2>1. servers' = Mark(servers, cur, sv, "DELETING") /\ UNCHANGED volumes
    BY <1>1 DEF WaitRejected
  <2>2. PICK o \in At(servers, cur, sv) : o.status = "PENDING"
    BY <1>1 DEF WaitRejected, Awaited
  <2>3. \A s \in servers : s.idx = cur /\ s.ver = sv => s.boot = NoVolume
    BY <2>2 DEF IInv, UniqueNames, PendingUnattached, At
  <2>4. ServersBootSame
    BY <1>0, <2>1, <2>3 DEF Mark, ServersBootSame
  <2>. QED  BY <2>1, <2>4, BootSame
<1>2. CASE pc = "volume"
  <2>1. volumes' = Mark(volumes, cur, vv, "DELETING") /\ UNCHANGED servers
    BY <1>2 DEF WaitRejected
  <2>2. PICK o \in At(volumes, cur, vv) : o.status = "PENDING"
    BY <1>2 DEF WaitRejected, Awaited
  <2>3. \A v \in volumes : v.idx = cur /\ v.ver = vv => v.status = "PENDING"
    BY <2>2 DEF IInv, UniqueNames, At
  <2>4. VolumesBootSame
    BY <1>0, <2>1, <2>3 DEF Mark, VolumesBootSame
  <2>. QED  BY <2>1, <2>4, BootSame
<1>3. CASE pc = "nic"
  BY <1>3, BootSame DEF WaitRejected
<1>. QED
  BY <1>1, <1>2, <1>3 DEF WaitRejected, Creates

LEMMA ServerSettlesBoots ==
  ASSUME TypeOK, ServerSettles
  PROVE  ServersBootSame
<1>1. PICK s \in servers : /\ Settles(s)
           /\ servers' = (servers \ {s}) \cup {[s EXCEPT !.status = Advance(@)]}
  BY DEF ServerSettles
<1>. DEFINE t == [s EXCEPT !.status = Advance(@)]
<1>2. t.idx = s.idx /\ t.boot = s.boot /\ t.status # "DELETING" /\ s.status # "DELETING"
  BY <1>1 DEF TypeOK, Server, Settles, Advance
<1>3. servers' = (servers \ {s}) \cup {t}
  BY <1>1
<1>. HIDE DEF t
<1>. QED
  BY <1>2, <1>3 DEF ServersBootSame

LEMMA VolumeSettlesBoots ==
  ASSUME TypeOK, VolumeSettles
  PROVE  VolumesBootSame
<1>1. PICK v \in volumes : /\ Settles(v)
           /\ volumes' = (volumes \ {v}) \cup {[v EXCEPT !.status = Advance(@)]}
  BY DEF VolumeSettles
<1>. DEFINE w == [v EXCEPT !.status = Advance(@)]
<1>2. /\ w.idx = v.idx /\ w.ver = v.ver /\ w.image = v.image
      /\ w.status # "DELETING" /\ v.status # "DELETING"
  BY <1>1 DEF TypeOK, Volume, Settles, Advance
<1>3. volumes' = (volumes \ {v}) \cup {w}
  BY <1>1
<1>. HIDE DEF w
<1>. QED
  BY <1>2, <1>3 DEF VolumesBootSame

LEMMA SettleBoots ==
  ASSUME TypeOK, Settle
  PROVE  ServersBootSame /\ VolumesBootSame
<1>1. CASE ServerSettles
  BY <1>1, ServerSettlesBoots, BootSame DEF ServerSettles
<1>2. CASE VolumeSettles
  BY <1>2, VolumeSettlesBoots, BootSame DEF VolumeSettles
<1>3. CASE NICSettles
  BY <1>3, BootSame DEF NICSettles
<1>4. CASE Removed
  BY <1>4 DEF Removed, ServersBootSame, VolumesBootSame
<1>. QED  BY <1>1, <1>2, <1>3, <1>4 DEF Settle

-----------------------------------------------------------------------------
(* The steps that may change the images of the worker's replica.             *)

\* With one volume a replica runs one image.
LEMMA OthersSettled ==
  ASSUME VolumesOK, mode \in {"bootVolume", "all"}, NEW j \in Idx \ {cur},
         NEW a \in RunningImages(j), NEW b \in RunningImages(j)
  PROVE  a = b
BY RunningBoots DEF VolumesOK, OneVolume, Boots

LEMMA ChangeOne ==
  ASSUME NEW i \in Idx, NEW imgs, imgs = RunningImages(i)',
         \A j \in Idx \ {i} : RunningImages(j)' = RunningImages(j)
  PROVE  Running' = [Running EXCEPT ![i] = imgs]
<1>1. Running' = [j \in Idx |-> RunningImages(j)']
  BY DEF Running, Idx
<1>2. \A j \in Idx : RunningImages(j)' = IF j = i THEN imgs ELSE RunningImages(j)
  OBVIOUS
<1>3. [Running EXCEPT ![i] = imgs] = [j \in Idx |-> IF j = i THEN imgs ELSE RunningImages(j)]
  BY DEF Running
<1>. QED  BY <1>1, <1>2, <1>3, Zenon

\* What a strategy may do to its replica is what the abstract Replace allows.
LEMMA ReplaceOne ==
  ASSUME TypeOK, VolumesOK, mode \in {"bootVolume", "all"}, NEW i \in Idx, i = cur,
         UNCHANGED <<template, cr>>,
         RunningImages(i) # {}, RunningImages(i)' # {},
         RunningImages(i)' \subseteq RunningImages(i) \cup {cr.image},
         \A j \in Idx \ {i} : RunningImages(j)' = RunningImages(j)
  PROVE  Rolling!Replace(i)
<1>. DEFINE imgs == RunningImages(i)'
<1>2. Running' = [Running EXCEPT ![i] = imgs]
  BY ChangeOne
<1>3. Running[i] = RunningImages(i)
  BY DEF Running
<1>4. imgs # {} /\ imgs \in SUBSET (Running[i] \cup {cr.image})
  BY <1>3
<1>5. \A j \in Idx \ {i} : \A a, b \in Running[j] : a = b
  BY OthersSettled DEF Running
<1>. HIDE DEF imgs
<1>6. \E is \in SUBSET (Running[i] \cup {cr.image}) :
         is # {} /\ Running' = [Running EXCEPT ![i] = is]
  BY <1>2, <1>4
<1>. QED
  BY <1>3, <1>5, <1>6 DEF Rolling!Replace, Rolling!Settled, Running

LEMMA StartOne ==
  ASSUME NEW i \in Idx, UNCHANGED <<template, cr>>, RunningImages(i) = {},
         NEW img \in Images, RunningImages(i)' = {img},
         \A j \in Idx \ {i} : RunningImages(j)' = RunningImages(j)
  PROVE  Rolling!Start(i)
<1>2. Running' = [Running EXCEPT ![i] = {img}]
  BY ChangeOne
<1>3. Running[i] = {}
  BY DEF Running
<1>. QED
  BY <1>2, <1>3 DEF Rolling!Start, Running

LEMMA SameOne ==
  ASSUME NEW i \in Idx, RunningImages(i)' = RunningImages(i),
         \A j \in Idx \ {i} : RunningImages(j)' = RunningImages(j)
  PROVE  Running' = Running
<1>1. \A j \in Idx : RunningImages(j)' = RunningImages(j)
  OBVIOUS
<1>. QED  BY <1>1 DEF Running, Idx

\* The servers of the other replicas are the same.
LEMMA OthersKept ==
  ASSUME NEW j,
         \A s \in servers : s.idx = j => s \in servers',
         \A s \in servers' : s.idx = j => s \in servers,
         \A v \in volumes : v.idx = j => v \in volumes',
         \A v \in volumes' : v.idx = j => v \in volumes
  PROVE  RunningImages(j)' = RunningImages(j)
<1> SUFFICES ASSUME NEW img PROVE img \in RunningImages(j)' <=> img \in RunningImages(j)
  OBVIOUS
<1>. QED  BY RunningBoots DEF Boots

-----------------------------------------------------------------------------
\* Destroying the old volume or server leaves the new ones to boot.
LEMMA NewBoots ==
  ASSUME IInv, mode \in {"bootVolume", "all"}, pc \in Deletes, NEW i, i = cur
  PROVE  \E s \in servers, v \in volumes :
            Boots(i, s, v) /\ s.ver = sv /\ v.ver = vv
BY DEF IInv, UpdateOK, NewAttached, NewVolumeThere, Deletes, Established, Boots

LEMMA DestroyRolls ==
  ASSUME IInv, VolumesOK, Destroy
  PROVE  Running' = Running \/ \E i \in Idx : Rolling!Replace(i)
<1>. PICK i \in Idx : i = cur
  BY DEF IInv, TypeOK
<1>0. pc \in Deletes /\ mode \in {"bootVolume", "all"}
  BY DEF Destroy, Deletes, IInv, ControlOK
<1>1. CASE UNCHANGED <<servers, volumes>>
  <2>1. \A j \in Idx : RunningImages(j)' = RunningImages(j)
    BY <1>1, OthersKept
  <2>. QED  BY <2>1 DEF Running, Idx
<1>2. CASE ~UNCHANGED <<servers, volumes>>
  <2>1. /\ UNCHANGED <<template, cr>>
        /\ volumes' = IF pc = "deleteVolume"
                      THEN Mark(volumes, cur, vv - 1, "DELETING") ELSE volumes
        /\ servers' = IF pc = "deleteServer"
                      THEN Mark(servers, cur, sv - 1, "DELETING") ELSE servers
    BY <1>2 DEF Destroy, objects, cluster
  <2>2. PICK s \in servers, v \in volumes : Boots(i, s, v) /\ s.ver = sv /\ v.ver = vv
    BY <1>0, NewBoots
  <2>3. sv \in Nat /\ vv \in Nat
    BY DEF IInv, TypeOK
  <2>4. s \in servers' /\ v \in volumes'
    BY <2>1, <2>2, <2>3 DEF Mark
  <2>5. v.image \in RunningImages(i) /\ v.image \in RunningImages(i)'
    BY <2>2, <2>4, RunningBoots
  <2>6. /\ \A t \in servers' : t.status # "DELETING" => t \in servers
        /\ \A w \in volumes' : w.status # "DELETING" => w \in volumes
    <3>1. /\ \A t \in servers : [t EXCEPT !.status = "DELETING"].status = "DELETING"
          /\ \A w \in volumes : [w EXCEPT !.status = "DELETING"].status = "DELETING"
      BY DEF IInv, TypeOK, Server, Volume
    <3>. QED  BY <2>1, <3>1 DEF Mark
  <2>7. RunningImages(i)' \subseteq RunningImages(i)
    BY <2>6, RunningBoots DEF Boots
  <2>8. ASSUME NEW j \in Idx \ {i} PROVE RunningImages(j)' = RunningImages(j)
    <3>1. /\ \A t \in servers : [t EXCEPT !.status = "DELETING"].idx = t.idx
          /\ \A w \in volumes : [w EXCEPT !.status = "DELETING"].idx = w.idx
      BY DEF IInv, TypeOK, Server, Volume
    <3>2. /\ \A t \in servers : t.idx = j => t \in servers'
          /\ \A w \in volumes : w.idx = j => w \in volumes'
      BY <2>1, <2>3 DEF Mark
    <3>3. /\ \A t \in servers' : t.idx = j => t \in servers
          /\ \A w \in volumes' : w.idx = j => w \in volumes
      BY <2>1, <2>3, <3>1 DEF Mark
    <3>. QED  BY <3>2, <3>3, OthersKept
  <2>. QED
    BY <1>0, <2>1, <2>5, <2>7, <2>8, ReplaceOne DEF IInv
<1>. QED  BY <1>1, <1>2

\* Attach puts one volume's ID into the servers of one name.
LEMMA AttachEffect ==
  ASSUME IInv, Attach, ~UNCHANGED servers, NEW v \in volumes, v.idx = cur, v.ver = vv,
         NEW i, i = cur
  PROVE  /\ UNCHANGED <<volumes, template, cr>>
         /\ \A j \in Idx \ {i} : RunningImages(j)' = RunningImages(j)
         /\ \A t \in servers' : t \in servers \/
               /\ t.idx = cur /\ t.ver = sv
               /\ t.boot = (IF HasId(v) THEN vv ELSE NoVolume)
         /\ \A s \in servers : s.idx = cur /\ s.ver = sv =>
               \E t \in servers' : /\ t.idx = cur /\ t.ver = sv
                                   /\ t.status = "DELETING" => s.status = "DELETING"
                                   /\ t.boot = (IF HasId(v) THEN vv ELSE NoVolume)
         /\ \A s \in servers : ~(s.idx = cur /\ s.ver = sv) => s \in servers'
<1>. DEFINE id == IF HasId(v) THEN vv ELSE NoVolume
            set(s) == [s EXCEPT !.boot = id, !.status = Changed(@)]
<1>1. PICK w \in At(volumes, cur, vv) :
        LET wid == IF HasId(w) THEN vv ELSE NoVolume
        IN servers' = {IF s \in At(servers, cur, sv) /\ s.boot # wid
                       THEN [s EXCEPT !.boot = wid, !.status = Changed(@)]
                       ELSE s : s \in servers}
  BY DEF Attach
<1>2. w = v
  BY <1>1 DEF At, IInv, UniqueNames
<1>3. servers' = {IF s \in At(servers, cur, sv) /\ s.boot # id THEN set(s) ELSE s : s \in servers}
  BY <1>1, <1>2
<1>4. UNCHANGED <<volumes, template, cr>>
  BY DEF Attach, cluster
<1>5. \A s \in servers : /\ set(s).idx = s.idx /\ set(s).ver = s.ver /\ set(s).boot = id
                         /\ set(s).status = "DELETING" <=> s.status = "DELETING"
  BY ChangedLive DEF IInv, TypeOK, Server
<1>. HIDE DEF set, id
<1>6. \A j \in Idx \ {i} : RunningImages(j)' = RunningImages(j)
  BY <1>3, <1>4, <1>5, OthersKept DEF At
<1>7. \A t \in servers' : t \in servers \/ (t.idx = cur /\ t.ver = sv /\ t.boot = id)
  BY <1>3, <1>5 DEF At
<1>8. \A s \in servers : s.idx = cur /\ s.ver = sv =>
         \E t \in servers' : /\ t.idx = cur /\ t.ver = sv
                             /\ t.status = "DELETING" => s.status = "DELETING"
                             /\ t.boot = id
  <2>1. ASSUME NEW s \in servers, s.idx = cur, s.ver = sv
        PROVE  \E t \in servers' : /\ t.idx = cur /\ t.ver = sv
                                   /\ t.status = "DELETING" => s.status = "DELETING"
                                   /\ t.boot = id
    <3>1. s \in At(servers, cur, sv)
      BY <2>1 DEF At
    <3>2. CASE s.boot # id
      <4>1. set(s) \in servers'
        BY <1>3, <3>1, <3>2
      <4>2. set(s).idx = cur /\ set(s).ver = sv /\ set(s).boot = id
        BY <1>5, <2>1
      <4>3. set(s).status = "DELETING" => s.status = "DELETING"
        BY <1>5
      <4>. QED  BY <4>1, <4>2, <4>3
    <3>3. CASE s.boot = id
      <4>1. s \in servers'
        BY <1>3, <3>1, <3>3
      <4>. QED  BY <2>1, <3>3, <4>1
    <3>. QED  BY <3>2, <3>3
  <2>. QED  BY <2>1
<1>9. \A s \in servers : ~(s.idx = cur /\ s.ver = sv) => s \in servers'
  BY <1>3 DEF At
<1>. QED
  BY <1>4, <1>6, <1>7, <1>8, <1>9 DEF id

LEMMA AttachRolls ==
  ASSUME IInv, IInv', VolumesOK, Attach
  PROVE  \/ Running' = Running
         \/ \E i \in Idx : Rolling!Start(i) \/ Rolling!Replace(i)
<1>0. PICK i \in Idx : i = cur
  BY DEF IInv, TypeOK
<1>1. CASE UNCHANGED servers
  BY <1>1, BootSame, RunningSame DEF Attach
<1>2. CASE ~UNCHANGED servers
  <2>1. PICK v \in volumes : v.idx = cur /\ v.ver = vv
    BY <1>2 DEF Attach, At
  <2>. DEFINE id == IF HasId(v) THEN vv ELSE NoVolume
  <2>2. /\ UNCHANGED <<volumes, template, cr>>
        /\ \A j \in Idx \ {i} : RunningImages(j)' = RunningImages(j)
        /\ \A t \in servers' : t \in servers \/ (t.idx = cur /\ t.ver = sv /\ t.boot = id)
        /\ \A s \in servers : s.idx = cur /\ s.ver = sv =>
              \E t \in servers' : /\ t.idx = cur /\ t.ver = sv
                                  /\ t.status = "DELETING" => s.status = "DELETING"
                                  /\ t.boot = id
        /\ \A s \in servers : ~(s.idx = cur /\ s.ver = sv) => s \in servers'
    BY <1>0, <1>2, <2>1, AttachEffect
  <2>3. v.image \in Images
    BY DEF IInv, TypeOK, Volume
  <2>4. CASE mode = "create"
    <3>1. \A w \in volumes : w.idx = cur => w = v
      BY <2>1, <2>4 DEF Attach, IInv, CreateOK, UniqueNames, Of
    <3>2. RunningImages(i) \subseteq {v.image} /\ RunningImages(i)' \subseteq {v.image}
      BY <1>0, <2>2, <3>1, RunningBoots DEF Boots
    <3>3. ASSUME RunningImages(i) # {} PROVE RunningImages(i)' # {}
      <4>1. PICK s \in servers : Boots(i, s, v)
        BY <1>0, <3>1, <3>3, RunningBoots DEF Boots
      <4>2. v.status \notin {"PENDING", "DELETING"}
        BY <4>1, BootedVolume DEF IInv
      <4>3. id = vv
        BY <4>2 DEF HasId, IInv, TypeOK, Volume, Status
      <4>4. \E t \in servers' : Boots(i, t, v)
        BY <2>1, <2>2, <4>1, <4>3 DEF Boots
      <4>. QED  BY <2>2, <4>4, RunningBoots
    <3>4. CASE RunningImages(i)' = RunningImages(i)
      BY <2>2, <3>4, SameOne
    <3>5. CASE RunningImages(i) = {} /\ RunningImages(i)' = {v.image}
      BY <1>0, <2>2, <2>3, <3>5, StartOne DEF IInv
    <3>. QED
      BY <3>2, <3>3, <3>4, <3>5
  <2>5. CASE mode \in {"bootVolume", "all"}
    <3>1. v.image = cr.image
      BY <2>1, <2>5 DEF VolumesOK
    <3>2. Established(v)
      BY <2>1, <2>5 DEF Attach, IInv, UpdateOK, NewVolumeThere, UniqueNames
    <3>3. id = vv /\ v.status # "DELETING"
      BY <3>2 DEF HasId, Established
    <3>4. PICK s \in servers : s.idx = cur /\ s.ver = sv /\ Established(s)
      BY <2>5 DEF Attach, IInv, UpdateOK, NewServerThere
    <3>5. PICK t \in servers' : t.idx = cur /\ t.status # "DELETING" /\ t.boot = vv
      BY <2>2, <3>3, <3>4 DEF Established
    <3>6. v.image \in RunningImages(i)'
      BY <1>0, <2>1, <2>2, <3>3, <3>5, RunningBoots DEF Boots
    <3>7. RunningImages(i)' \subseteq RunningImages(i) \cup {cr.image}
      <4> SUFFICES ASSUME NEW u \in servers', NEW w \in volumes, Boots(i, u, w)
                   PROVE  w.image \in RunningImages(i) \cup {cr.image}
        BY <2>2, RunningBoots
      <4>1. CASE u \in servers
        BY <4>1, RunningBoots
      <4>2. CASE u \notin servers
        BY <2>2, <2>5, <3>3, <4>2 DEF VolumesOK, Boots
      <4>. QED  BY <4>1, <4>2
    <3>8. CASE RunningImages(i) = {}
      <4>1. RunningImages(i)' = {v.image}
        BY <3>1, <3>6, <3>7, <3>8
      <4>. QED  BY <1>0, <2>2, <2>3, <3>8, <4>1, StartOne DEF IInv
    <3>9. CASE RunningImages(i) # {}
      <4>1. RunningImages(i)' # {}
        BY <3>6
      <4>. QED  BY <1>0, <2>2, <2>5, <3>7, <3>9, <4>1, ReplaceOne DEF IInv
    <3>. QED  BY <3>8, <3>9
  <2>. QED
    BY <2>4, <2>5 DEF Attach, IInv, ControlOK
<1>. QED  BY <1>1, <1>2

\* Where the specs and the images of a step may change.
LEMMA Quiet ==
  ASSUME [Next]_vars, IInv, IInv', ~Attach, ~Destroy
  PROVE  Running' = Running
<1>1. ServersBootSame
  <2>1. CASE EnsureServer \/ UpdateServer \/ WaitRejected \/ Settle
    BY <2>1, EnsureServerBoots, UpdateServerBoots, WaitRejectedBoots, SettleBoots DEF IInv
  <2>2. CASE UNCHANGED servers
    BY <2>2, BootSame
  <2>. QED
    BY <2>1, <2>2 DEF Next, Reconcile, ObserveMissing, ObserveOutdated, ObserveUpToDate,
      GetVersions, EnsureNIC, EnsureVolume, NextReplica, WaitAvailable, Discarded,
      WaitUpdated, ServersDone, UpdateVolume, UpdateMaster, VolumesDone, WaitDestroyed,
      Finish, Fail, Crash, RemovePending, Edit, Elect, vars, objects
<1>2. VolumesBootSame
  <2>1. CASE EnsureVolume \/ UpdateVolume \/ WaitRejected \/ Settle
    BY <2>1, EnsureVolumeBoots, UpdateVolumeBoots, WaitRejectedBoots, SettleBoots DEF IInv
  <2>2. CASE UNCHANGED volumes
    BY <2>2, BootSame
  <2>. QED
    BY <2>1, <2>2 DEF Next, Reconcile, ObserveMissing, ObserveOutdated, ObserveUpToDate,
      GetVersions, EnsureNIC, EnsureServer, NextReplica, WaitAvailable, Discarded,
      WaitUpdated, ServersDone, UpdateServer, UpdateMaster, VolumesDone, WaitDestroyed,
      Finish, Fail, Crash, RemovePending, Edit, Elect, vars, objects
<1>. QED  BY <1>1, <1>2, RunningSame

LEMMA SpecsSame ==
  ASSUME [Next]_vars, ~ObserveMissing, ~ObserveOutdated, ~Edit
  PROVE  UNCHANGED <<template, cr>>
BY DEF Next, Reconcile, ObserveUpToDate, GetVersions, EnsureServer, EnsureNIC,
  EnsureVolume, Attach, NextReplica, WaitAvailable, Discarded, UpdateServer, WaitUpdated,
  ServersDone, UpdateVolume, UpdateByIndex, UpdateMaster, VolumesDone, Destroy,
  WaitDestroyed, Finish, Settle, ServerSettles, VolumeSettles, NICSettles, Removed,
  WaitRejected, Fail, Crash, RemovePending, Elect, ReturnError, Return, vars, worker, cluster

LEMMA RollingInit == Init => Rolling!Init
<1> SUFFICES ASSUME Init PROVE Rolling!Init
  OBVIOUS
<1>1. template.image \in Images /\ cr.image = template.image
  BY DEF Init, Templates
<1>2. \A i \in Idx : RunningImages(i) = {}
  BY DEF Init, RunningImages, Live
<1>3. [i \in Idx |-> RunningImages(i)] = [i \in Idx |-> {}]
  BY <1>2
<1>. QED  BY <1>1, <1>3 DEF Rolling!Init

LEMMA RollingStep ==
  ASSUME IInv, IInv', VolumesOK, [Next]_vars
  PROVE  [Rolling!Next]_Rolling!vars
<1>1. CASE Attach \/ Destroy
  <2>1. UNCHANGED <<template, cr>>
    BY <1>1 DEF Attach, Destroy, ReturnError, Return, cluster
  <2>2. Running' = Running \/ \E i \in Idx : Rolling!Start(i) \/ Rolling!Replace(i)
    BY <1>1, AttachRolls, DestroyRolls
  <2>. QED
    BY <2>1, <2>2 DEF Rolling!Next, Rolling!vars, Running
<1>2. CASE ~Attach /\ ~Destroy
  <2>1. Running' = Running
    BY <1>2, Quiet
  <2>2. CASE ObserveMissing \/ ObserveOutdated
    <3>1. cr' = template /\ template' = template
      BY <2>2 DEF ObserveMissing, ObserveOutdated, cluster
    <3>2. Rolling!Accept
      BY <2>1, <3>1 DEF Rolling!Accept, Running
    <3>. QED  BY <3>2 DEF Rolling!Next
  <2>3. CASE Edit
    <3>1. template'.image \in Images /\ cr' = cr
      BY <2>3 DEF Edit, worker, Templates
    <3>2. Rolling!Request
      BY <2>1, <3>1 DEF Rolling!Request, Running
    <3>. QED  BY <3>2 DEF Rolling!Next
  <2>4. CASE ~ObserveMissing /\ ~ObserveOutdated /\ ~Edit
    <3>1. UNCHANGED <<template, cr>>
      BY <2>4, SpecsSame
    <3>. QED  BY <2>1, <3>1 DEF Rolling!vars, Running
  <2>. QED  BY <2>2, <2>3, <2>4
<1>. QED  BY <1>1, <1>2

\* The controller implements the rolling replacement, for every number of
\* replicas, every strategy and every bound: whatever fails, wherever the
\* provider restarts and whatever the user edits meanwhile, at most one replica
\* is between two images, and none that runs is left without one.
THEOREM RollingUpdates == Spec => ImplementsRolling
<1>1. IInv /\ VolumesOK /\ [Next]_vars => VolumesOK'
  BY IInvStep, VolumesOKStep
<1>2. IInv /\ VolumesOK /\ [Next]_vars => [Rolling!Next]_Rolling!vars
  BY IInvStep, RollingStep
<1>. QED
  BY <1>1, <1>2, VolumesOKInit, RollingInit, Invariant, PTL
  DEF Spec, ImplementsRolling, Rolling!Spec

-----------------------------------------------------------------------------
(* Only one replica is being replaced: the inductive invariant.              *)

LEMMA NoSurplus ==
  ASSUME NEW i
  PROVE  /\ ~Surplus(i) <=> OneServer(i) /\ OneVolume(i) /\ OneNIC(i)
         /\ ~Surplus(i)' <=> OneServer(i)' /\ OneVolume(i)' /\ OneNIC(i)'
BY DEF Surplus, TooMany, Of, OneServer, OneVolume, OneNIC

LEMMA PlacesInit == Init => PlacesOK
<1> SUFFICES ASSUME Init PROVE PlacesOK
  OBVIOUS
<1>1. template.replicas \in 1 .. MaxReplicas
  BY DEF Init, Templates
<1>2. Within
  BY <1>1 DEF Init, Within
<1>3. ListsOK
  BY FS_EmptySet DEF Init, ListsOK
<1>4. ModesOK /\ FirstCreate /\ LaterCreate /\ SinglesOK
  BY DEF Init, ModesOK, FirstCreate, LaterCreate, SinglesOK
<1>5. OneReplacement
  BY DEF Init, OneReplacement, Surplus, TooMany, Of
<1>. QED  BY <1>2, <1>3, <1>4, <1>5 DEF PlacesOK

-----------------------------------------------------------------------------
(* Steps that create nothing, and steps that take nothing away.              *)
ServersFrom == \A t \in servers' : \E s \in servers : t.idx = s.idx /\ t.ver = s.ver
VolumesFrom == \A w \in volumes' : \E v \in volumes : w.idx = v.idx /\ w.ver = v.ver
NICsFrom == \A m \in nics' : \E n \in nics : m.idx = n.idx /\ m.ver = n.ver

ServersLast ==
  \A s \in servers : Established(s) =>
    \E t \in servers' : t.idx = s.idx /\ t.ver = s.ver /\ Established(t)
VolumesLast ==
  \A v \in volumes : Established(v) =>
    \E w \in volumes' : w.idx = v.idx /\ w.ver = v.ver /\ Established(w)
NICsLast ==
  \A n \in nics : Established(n) =>
    \E m \in nics' : m.idx = n.idx /\ m.ver = n.ver /\ Established(m)

LEMMA SameFromLast ==
  /\ UNCHANGED servers => ServersFrom /\ ServersLast
  /\ UNCHANGED volumes => VolumesFrom /\ VolumesLast
  /\ UNCHANGED nics => NICsFrom /\ NICsLast
BY DEF ServersFrom, VolumesFrom, NICsFrom, ServersLast, VolumesLast, NICsLast

LEMMA SomePair ==
  ASSUME NEW i
  PROVE  /\ (\E s \in servers : Pair(i, s.ver)) <=> \E n : Pair(i, n)
         /\ (\E s \in servers : Pair(i, s.ver))' <=> \E n : Pair(i, n)'
BY DEF Pair

LEMMA PairLasts ==
  ASSUME ServersLast, NICsLast, NEW i, NEW n, Pair(i, n)
  PROVE  Pair(i, n)'
BY DEF ServersLast, NICsLast, Pair, NICThere

LEMMA PlacedLasts ==
  ASSUME ServersLast, VolumesLast, NICsLast, NEW i, Placed(i)
  PROVE  Placed(i)'
BY PairLasts, SomePair DEF VolumesLast, Placed, HasVolume

LEMMA FromSingle ==
  ASSUME IInv', ListsOK', NEW i
  PROVE  /\ ServersFrom /\ OneServer(i) => OneServer(i)'
         /\ VolumesFrom /\ OneVolume(i) => OneVolume(i)'
         /\ NICsFrom /\ OneNIC(i) => OneNIC(i)'
<1>1. ServersFrom /\ OneServer(i) => OneServer(i)'
  BY DEF ServersFrom, OneServer, IInv, UniqueNames
<1>2. VolumesFrom /\ OneVolume(i) => OneVolume(i)'
  BY DEF VolumesFrom, OneVolume, IInv, UniqueNames
<1>3. NICsFrom /\ OneNIC(i) => OneNIC(i)'
  BY DEF NICsFrom, OneNIC, ListsOK
<1>. QED  BY <1>1, <1>2, <1>3

\* Objects that all come from others of the same name are no more than those.
LEMMA FromFinite ==
  ASSUME NEW S, NEW T, IsFiniteSet(S),
         \A t \in T : \E s \in S : t.idx = s.idx /\ t.ver = s.ver,
         \A s, t \in T : s.idx = t.idx /\ s.ver = t.ver => s = t
  PROVE  IsFiniteSet(T)
<1>. DEFINE f == [t \in T |-> CHOOSE s \in S : t.idx = s.idx /\ t.ver = s.ver]
<1>1. \A t \in T : f[t] \in S /\ t.idx = f[t].idx /\ t.ver = f[t].ver
  OBVIOUS
<1>2. f \in [T -> S]
  BY <1>1
<1>. HIDE DEF f
<1>3. f \in Injection(T, S)
  BY <1>1, <1>2 DEF Injection, IsInjective
<1>. QED  BY <1>3, FS_Injection

\* As many objects as replicas, one at least in each: exactly one in each.
LEMMA Pigeonhole ==
  ASSUME NEW S, IsFiniteSet(S), NEW N \in Nat, N > 0, Cardinality(S) = N,
         \A s \in S : s.idx \in 0 .. N - 1,
         \A i \in 0 .. N - 1 : \E s \in S : s.idx = i
  PROVE  \A s, t \in S : s.idx = t.idx => s = t
<1>. DEFINE f == [s \in S |-> s.idx]
<1>1. f \in Surjection(S, 0 .. N - 1)
  BY DEF Surjection
<1>2. Cardinality(0 .. N - 1) = IF 0 > N - 1 THEN 0 ELSE (N - 1) - 0 + 1
  <2>1. 0 \in Int /\ N - 1 \in Int
    OBVIOUS
  <2>. QED  BY <2>1, FS_Interval, Zenon
<1>3. Cardinality(0 .. N - 1) = N
  BY <1>2
<1>4. f \in Injection(S, 0 .. N - 1)
  BY <1>1, <1>3, FS_Surjection
<1>. QED  BY <1>4 DEF Injection, IsInjective

\* Rewriting an object keeps its name.
LEMMA Rewritten ==
  ASSUME TypeOK
  PROVE  /\ \A s \in servers, st \in Status :
              LET t == [s EXCEPT !.status = st]
              IN t.idx = s.idx /\ t.ver = s.ver /\ t.status = st
         /\ \A v \in volumes, st \in Status :
              LET w == [v EXCEPT !.status = st]
              IN w.idx = v.idx /\ w.ver = v.ver /\ w.status = st
         /\ \A n \in nics, st \in Status :
              LET m == [n EXCEPT !.status = st]
              IN m.idx = n.idx /\ m.ver = n.ver /\ m.status = st
<1>1. \A s \in servers, st \in Status :
        LET t == [s EXCEPT !.status = st]
        IN t.idx = s.idx /\ t.ver = s.ver /\ t.status = st
  BY DEF TypeOK, Server
<1>2. \A v \in volumes, st \in Status :
        LET w == [v EXCEPT !.status = st]
        IN w.idx = v.idx /\ w.ver = v.ver /\ w.status = st
  BY DEF TypeOK, Volume
<1>3. \A n \in nics, st \in Status :
        LET m == [n EXCEPT !.status = st]
        IN m.idx = n.idx /\ m.ver = n.ver /\ m.status = st
  BY DEF TypeOK, NIC
<1>. QED  BY <1>1, <1>2, <1>3

LEMMA ChangedEstablished ==
  \A st \in Status : /\ Changed(st) \in Status
                     /\ st \in {"BUSY", "AVAILABLE", "UPDATING"} =>
                          Changed(st) \in {"BUSY", "AVAILABLE", "UPDATING"}
BY DEF Changed, Status

\* Marking objects that are not established takes nothing away.
LEMMA MarkFrom ==
  ASSUME TypeOK, NEW i, NEW n
  PROVE  /\ servers' = Mark(servers, i, n, "DELETING") =>
              /\ ServersFrom
              /\ (\A s \in servers : s.idx = i /\ s.ver = n => ~Established(s)) => ServersLast
         /\ volumes' = Mark(volumes, i, n, "DELETING") =>
              /\ VolumesFrom
              /\ (\A v \in volumes : v.idx = i /\ v.ver = n => ~Established(v)) => VolumesLast
         /\ nics' = Mark(nics, i, n, "DELETING") =>
              /\ NICsFrom
              /\ (\A x \in nics : x.idx = i /\ x.ver = n => ~Established(x)) => NICsLast
<1>0. "DELETING" \in Status
  BY DEF Status
<1>1. ASSUME servers' = Mark(servers, i, n, "DELETING")
      PROVE  /\ ServersFrom
             /\ (\A s \in servers : s.idx = i /\ s.ver = n => ~Established(s)) => ServersLast
  <2>1. ServersFrom
    <3>. DEFINE set(o) == [o EXCEPT !.status = "DELETING"]
    <3>1. \A o \in servers : set(o).idx = o.idx /\ set(o).ver = o.ver
      BY <1>0, Rewritten
    <3>2. servers' = {IF o.idx = i /\ o.ver = n THEN set(o) ELSE o : o \in servers}
      BY <1>1 DEF Mark
    <3>. HIDE DEF set
    <3>. QED  BY <3>1, <3>2 DEF ServersFrom
  <2>2. \A s \in servers : ~(s.idx = i /\ s.ver = n) => s \in servers'
    BY <1>1 DEF Mark
  <2>. QED  BY <2>1, <2>2 DEF ServersLast
<1>2. ASSUME volumes' = Mark(volumes, i, n, "DELETING")
      PROVE  /\ VolumesFrom
             /\ (\A v \in volumes : v.idx = i /\ v.ver = n => ~Established(v)) => VolumesLast
  <2>1. VolumesFrom
    <3>. DEFINE set(o) == [o EXCEPT !.status = "DELETING"]
    <3>1. \A o \in volumes : set(o).idx = o.idx /\ set(o).ver = o.ver
      BY <1>0, Rewritten
    <3>2. volumes' = {IF o.idx = i /\ o.ver = n THEN set(o) ELSE o : o \in volumes}
      BY <1>2 DEF Mark
    <3>. HIDE DEF set
    <3>. QED  BY <3>1, <3>2 DEF VolumesFrom
  <2>2. \A v \in volumes : ~(v.idx = i /\ v.ver = n) => v \in volumes'
    BY <1>2 DEF Mark
  <2>. QED  BY <2>1, <2>2 DEF VolumesLast
<1>3. ASSUME nics' = Mark(nics, i, n, "DELETING")
      PROVE  /\ NICsFrom
             /\ (\A x \in nics : x.idx = i /\ x.ver = n => ~Established(x)) => NICsLast
  <2>1. NICsFrom
    <3>. DEFINE set(o) == [o EXCEPT !.status = "DELETING"]
    <3>1. \A o \in nics : set(o).idx = o.idx /\ set(o).ver = o.ver
      BY <1>0, Rewritten
    <3>2. nics' = {IF o.idx = i /\ o.ver = n THEN set(o) ELSE o : o \in nics}
      BY <1>3 DEF Mark
    <3>. HIDE DEF set
    <3>. QED  BY <3>1, <3>2 DEF NICsFrom
  <2>2. \A x \in nics : ~(x.idx = i /\ x.ver = n) => x \in nics'
    BY <1>3 DEF Mark
  <2>. QED  BY <2>1, <2>2 DEF NICsLast
<1>. QED  BY <1>1, <1>2, <1>3

\* Marking keeps the names of the NICs apart.
LEMMA MarkLists ==
  ASSUME TypeOK, ListsOK, NEW i, NEW n, nics' = Mark(nics, i, n, "DELETING")
  PROVE  \A x, y \in nics' : x.idx = y.idx /\ x.ver = y.ver => x = y
<1>1. "DELETING" \in Status
  BY DEF Status
<1> SUFFICES ASSUME NEW x \in nics', NEW y \in nics', x.idx = y.idx, x.ver = y.ver
             PROVE  x = y
  OBVIOUS
<1>2. PICK a \in nics : x = IF a.idx = i /\ a.ver = n THEN [a EXCEPT !.status = "DELETING"] ELSE a
  BY DEF Mark
<1>3. PICK b \in nics : y = IF b.idx = i /\ b.ver = n THEN [b EXCEPT !.status = "DELETING"] ELSE b
  BY DEF Mark
<1>4. a.idx = x.idx /\ a.ver = x.ver /\ b.idx = y.idx /\ b.ver = y.ver
  BY <1>1, <1>2, <1>3, Rewritten
<1>5. a = b
  BY <1>4 DEF ListsOK
<1>. QED  BY <1>2, <1>3, <1>5

LEMMA EnsureServerFrom ==
  ASSUME IInv, EnsureServer
  PROVE  /\ ServersLast
         /\ \/ ServersFrom
            \/ /\ Ensured(servers, sv) = {}
               /\ servers' = servers \cup {[idx |-> cur, ver |-> sv, cores |-> cr.cores,
                                            boot |-> NoVolume, status |-> "PENDING"]}
<1>1. CASE UNCHANGED servers
  BY <1>1, SameFromLast
<1>2. CASE /\ Ensured(servers, sv) = {}
           /\ servers' = servers \cup {[idx |-> cur, ver |-> sv, cores |-> cr.cores,
                                        boot |-> NoVolume, status |-> "PENDING"]}
  BY <1>2 DEF ServersLast
<1>3. CASE /\ ~TooMany(Ensured(servers, sv))
           /\ \E s \in Ensured(servers, sv) : ~HasId(s)
           /\ servers' = {IF s \in Ensured(servers, sv)
                          THEN [s EXCEPT !.status = "DELETING"] ELSE s : s \in servers}
  <2>. DEFINE found == Ensured(servers, sv)
  <2>1. \A s \in found : ~Established(s)
    BY <1>3 DEF TooMany, HasId, Established
  <2>2. servers' = {IF s \in found THEN [s EXCEPT !.status = "DELETING"] ELSE s : s \in servers}
    BY <1>3
  <2>3. "DELETING" \in Status
    BY DEF Status
  <2>. HIDE DEF found
  <2>4. ServersFrom
    <3>. DEFINE set(s) == [s EXCEPT !.status = "DELETING"]
    <3>1. \A s \in servers : set(s).idx = s.idx /\ set(s).ver = s.ver
      BY <2>3, Rewritten DEF IInv
    <3>2. servers' = {IF s \in found THEN set(s) ELSE s : s \in servers}
      BY <2>2
    <3>. HIDE DEF set
    <3>. QED  BY <3>1, <3>2 DEF ServersFrom
  <2>5. ServersLast
    BY <2>1, <2>2 DEF ServersLast
  <2>. QED  BY <2>4, <2>5
<1>. QED
  BY <1>1, <1>2, <1>3 DEF EnsureServer

LEMMA EnsureVolumeFrom ==
  ASSUME EnsureVolume
  PROVE  /\ VolumesLast
         /\ \/ VolumesFrom
            \/ /\ Ensured(volumes, vv) = {}
               /\ volumes' = volumes \cup {[idx |-> cur, ver |-> vv, image |-> cr.image,
                                            size |-> cr.size, status |-> "PENDING"]}
BY SameFromLast DEF EnsureVolume, VolumesLast

LEMMA EnsureNICFrom ==
  ASSUME EnsureNIC
  PROVE  /\ NICsLast
         /\ \/ UNCHANGED nics
            \/ /\ At(nics, cur, sv) = {}
               /\ nics' = nics \cup {[idx |-> cur, ver |-> sv, status |-> "PENDING"]}
BY SameFromLast DEF EnsureNIC, NICsLast

LEMMA AttachFrom ==
  ASSUME TypeOK, Attach
  PROVE  ServersFrom /\ ServersLast
<1>1. CASE UNCHANGED servers
  BY <1>1, SameFromLast
<1>2. CASE \E id \in Nat \cup {NoVolume}, this \in SUBSET servers :
             servers' = {IF s \in this
                         THEN [s EXCEPT !.boot = id, !.status = Changed(@)]
                         ELSE s : s \in servers}
  <2>1. PICK id \in Nat \cup {NoVolume}, this \in SUBSET servers :
             servers' = {IF s \in this
                         THEN [s EXCEPT !.boot = id, !.status = Changed(@)]
                         ELSE s : s \in servers}
    BY <1>2
  <2>. DEFINE set(s) == [s EXCEPT !.boot = id, !.status = Changed(@)]
  <2>2. \A s \in servers : /\ set(s).idx = s.idx /\ set(s).ver = s.ver
                           /\ set(s).status = Changed(s.status)
    BY DEF TypeOK, Server
  <2>3. \A s \in servers : s.status \in Status
    BY DEF TypeOK, Server
  <2>4. servers' = {IF s \in this THEN set(s) ELSE s : s \in servers}
    BY <2>1
  <2>. HIDE DEF set
  <2>5. ServersFrom
    BY <2>2, <2>4 DEF ServersFrom
  <2>6. ServersLast
    BY <2>2, <2>3, <2>4, ChangedEstablished DEF ServersLast, Established
  <2>. QED  BY <2>5, <2>6
<1>3. ASSUME NEW v \in At(volumes, cur, vv),
             servers' = {IF s \in At(servers, cur, sv) /\ s.boot # (IF HasId(v) THEN vv ELSE NoVolume)
                         THEN [s EXCEPT !.boot = IF HasId(v) THEN vv ELSE NoVolume,
                                        !.status = Changed(@)]
                         ELSE s : s \in servers}
      PROVE  \E id \in Nat \cup {NoVolume}, this \in SUBSET servers :
               servers' = {IF s \in this
                           THEN [s EXCEPT !.boot = id, !.status = Changed(@)]
                           ELSE s : s \in servers}
  <2>. DEFINE id == IF HasId(v) THEN vv ELSE NoVolume
              this == {s \in servers : s \in At(servers, cur, sv) /\ s.boot # id}
  <2>1. id \in Nat \cup {NoVolume} /\ this \in SUBSET servers
    BY DEF TypeOK
  <2>2. servers' = {IF s \in this
                    THEN [s EXCEPT !.boot = id, !.status = Changed(@)]
                    ELSE s : s \in servers}
    <3>1. \A s \in servers : s \in this <=> s \in At(servers, cur, sv) /\ s.boot # id
      OBVIOUS
    <3>2. servers' = {IF s \in At(servers, cur, sv) /\ s.boot # id
                      THEN [s EXCEPT !.boot = id, !.status = Changed(@)]
                      ELSE s : s \in servers}
      BY <1>3
    <3>. HIDE DEF this, id
    <3>. QED  BY <3>1, <3>2
  <2>. HIDE DEF this, id
  <2>. QED  BY <2>1, <2>2
<1>. QED
  BY <1>1, <1>2, <1>3 DEF Attach

LEMMA UpdateServerFrom ==
  ASSUME TypeOK, UpdateServer
  PROVE  ServersFrom /\ ServersLast
<1>1. CASE UNCHANGED servers
  BY <1>1, SameFromLast
<1>2. CASE \E this \in SUBSET servers :
             servers' = {IF s \in this
                         THEN [s EXCEPT !.cores = cr.cores, !.status = Changed(@)]
                         ELSE s : s \in servers}
  <2>1. PICK this \in SUBSET servers :
             servers' = {IF s \in this
                         THEN [s EXCEPT !.cores = cr.cores, !.status = Changed(@)]
                         ELSE s : s \in servers}
    BY <1>2
  <2>. DEFINE set(s) == [s EXCEPT !.cores = cr.cores, !.status = Changed(@)]
  <2>2. \A s \in servers : /\ set(s).idx = s.idx /\ set(s).ver = s.ver
                           /\ set(s).status = Changed(s.status)
    BY DEF TypeOK, Server
  <2>3. \A s \in servers : s.status \in Status
    BY DEF TypeOK, Server
  <2>4. servers' = {IF s \in this THEN set(s) ELSE s : s \in servers}
    BY <2>1
  <2>. HIDE DEF set
  <2>5. ServersFrom
    BY <2>2, <2>4 DEF ServersFrom
  <2>6. ServersLast
    BY <2>2, <2>3, <2>4, ChangedEstablished DEF ServersLast, Established
  <2>. QED  BY <2>5, <2>6
<1>. QED
  BY <1>1, <1>2 DEF UpdateServer, At

LEMMA UpdateVolumeFrom ==
  ASSUME TypeOK, UpdateVolume
  PROVE  VolumesFrom /\ VolumesLast
<1>1. CASE UNCHANGED volumes
  BY <1>1, SameFromLast
<1>2. CASE \E v \in volumes :
             volumes' = (volumes \ {v}) \cup
                          {[v EXCEPT !.size = cr.size, !.status = Changed(@)]}
  <2>1. PICK v \in volumes :
             volumes' = (volumes \ {v}) \cup
                          {[v EXCEPT !.size = cr.size, !.status = Changed(@)]}
    BY <1>2
  <2>. DEFINE w == [v EXCEPT !.size = cr.size, !.status = Changed(@)]
  <2>2. w.idx = v.idx /\ w.ver = v.ver /\ w.status = Changed(v.status) /\ v.status \in Status
    BY DEF TypeOK, Volume
  <2>3. volumes' = (volumes \ {v}) \cup {w}
    BY <2>1
  <2>. HIDE DEF w
  <2>. QED
    BY <2>2, <2>3, ChangedEstablished DEF VolumesFrom, VolumesLast, Established
<1>. QED
  BY <1>1, <1>2 DEF UpdateVolume, At

LEMMA SettleFrom ==
  ASSUME TypeOK, Settle
  PROVE  /\ ServersFrom /\ ServersLast /\ VolumesFrom /\ VolumesLast /\ NICsFrom /\ NICsLast
<1>0. \A st : Advance(st) \in Status /\ (st # "PENDING" => Advance(st) = "AVAILABLE")
  BY DEF Advance, Status
<1>1. CASE ServerSettles
  <2>1. PICK s \in servers : servers' = (servers \ {s}) \cup {[s EXCEPT !.status = Advance(@)]}
    BY <1>1 DEF ServerSettles
  <2>. DEFINE t == [s EXCEPT !.status = Advance(@)]
  <2>2. t.idx = s.idx /\ t.ver = s.ver /\ t.status = Advance(s.status)
    BY DEF TypeOK, Server
  <2>3. servers' = (servers \ {s}) \cup {t}
    BY <2>1
  <2>. HIDE DEF t
  <2>4. ServersFrom /\ ServersLast
    BY <1>0, <2>2, <2>3 DEF ServersFrom, ServersLast, Established
  <2>. QED  BY <1>1, <2>4, SameFromLast DEF ServerSettles
<1>2. CASE VolumeSettles
  <2>1. PICK v \in volumes : volumes' = (volumes \ {v}) \cup {[v EXCEPT !.status = Advance(@)]}
    BY <1>2 DEF VolumeSettles
  <2>. DEFINE w == [v EXCEPT !.status = Advance(@)]
  <2>2. w.idx = v.idx /\ w.ver = v.ver /\ w.status = Advance(v.status)
    BY DEF TypeOK, Volume
  <2>3. volumes' = (volumes \ {v}) \cup {w}
    BY <2>1
  <2>. HIDE DEF w
  <2>4. VolumesFrom /\ VolumesLast
    BY <1>0, <2>2, <2>3 DEF VolumesFrom, VolumesLast, Established
  <2>. QED  BY <1>2, <2>4, SameFromLast DEF VolumeSettles
<1>3. CASE NICSettles
  <2>1. PICK n \in nics : nics' = (nics \ {n}) \cup {[n EXCEPT !.status = Advance(@)]}
    BY <1>3 DEF NICSettles
  <2>. DEFINE m == [n EXCEPT !.status = Advance(@)]
  <2>2. m.idx = n.idx /\ m.ver = n.ver /\ m.status = Advance(n.status)
    BY DEF TypeOK, NIC
  <2>3. nics' = (nics \ {n}) \cup {m}
    BY <2>1
  <2>. HIDE DEF m
  <2>4. NICsFrom /\ NICsLast
    BY <1>0, <2>2, <2>3 DEF NICsFrom, NICsLast, Established
  <2>. QED  BY <1>3, <2>4, SameFromLast DEF NICSettles
<1>4. CASE Removed
  BY <1>4 DEF Removed, ServersFrom, ServersLast, VolumesFrom, VolumesLast, NICsFrom, NICsLast,
    Established
<1>. QED  BY <1>1, <1>2, <1>3, <1>4 DEF Settle

LEMMA SettleLists ==
  ASSUME TypeOK, ListsOK, Settle
  PROVE  \A m, n \in nics' : m.idx = n.idx /\ m.ver = n.ver => m = n
<1>1. CASE \E x \in nics : nics' = (nics \ {x}) \cup {[x EXCEPT !.status = Advance(@)]}
  <2>1. PICK x \in nics : nics' = (nics \ {x}) \cup {[x EXCEPT !.status = Advance(@)]}
    BY <1>1
  <2>. DEFINE y == [x EXCEPT !.status = Advance(@)]
  <2>2. y.idx = x.idx /\ y.ver = x.ver
    BY DEF TypeOK, NIC
  <2>3. nics' = (nics \ {x}) \cup {y}
    BY <2>1
  <2>. HIDE DEF y
  <2>. QED  BY <2>2, <2>3 DEF ListsOK
<1>2. CASE nics' \subseteq nics
  BY <1>2 DEF ListsOK
<1>. QED
  BY <1>1, <1>2 DEF Settle, ServerSettles, VolumeSettles, NICSettles, Removed

\* A rejected object is not established.
LEMMA WaitRejectedFrom ==
  ASSUME IInv, ListsOK, WaitRejected
  PROVE  /\ ServersFrom /\ ServersLast /\ VolumesFrom /\ VolumesLast /\ NICsFrom /\ NICsLast
<1>1. CASE pc = "server"
  <2>1. servers' = Mark(servers, cur, sv, "DELETING") /\ UNCHANGED <<volumes, nics>>
    BY <1>1 DEF WaitRejected
  <2>2. PICK o \in servers : o.idx = cur /\ o.ver = sv /\ o.status = "PENDING"
    BY <1>1 DEF WaitRejected, Awaited, At
  <2>3. \A s \in servers : s.idx = cur /\ s.ver = sv => ~Established(s)
    BY <2>2 DEF IInv, UniqueNames, Established
  <2>. QED  BY <2>1, <2>3, MarkFrom, SameFromLast DEF IInv
<1>2. CASE pc = "volume"
  <2>1. volumes' = Mark(volumes, cur, vv, "DELETING") /\ UNCHANGED <<servers, nics>>
    BY <1>2 DEF WaitRejected
  <2>2. PICK o \in volumes : o.idx = cur /\ o.ver = vv /\ o.status = "PENDING"
    BY <1>2 DEF WaitRejected, Awaited, At
  <2>3. \A v \in volumes : v.idx = cur /\ v.ver = vv => ~Established(v)
    BY <2>2 DEF IInv, UniqueNames, Established
  <2>. QED  BY <2>1, <2>3, MarkFrom, SameFromLast DEF IInv
<1>3. CASE pc = "nic"
  <2>1. nics' = Mark(nics, cur, sv, "DELETING") /\ UNCHANGED <<servers, volumes>>
    BY <1>3 DEF WaitRejected
  <2>2. PICK o \in nics : o.idx = cur /\ o.ver = sv /\ o.status = "PENDING"
    BY <1>3 DEF WaitRejected, Awaited, At
  <2>3. \A n \in nics : n.idx = cur /\ n.ver = sv => ~Established(n)
    BY <2>2 DEF ListsOK, Established
  <2>. QED  BY <2>1, <2>3, MarkFrom, SameFromLast DEF IInv
<1>. QED  BY <1>1, <1>2, <1>3 DEF WaitRejected, Creates

-----------------------------------------------------------------------------
(* What follows from where the objects come from, and how long they last.    *)
LEMMA ListsKept ==
  ASSUME IInv', ListsOK, ServersFrom, NICsFrom,
         \A m, n \in nics' : m.idx = n.idx /\ m.ver = n.ver => m = n
  PROVE  ListsOK'
<1>1. IsFiniteSet(servers')
  BY FromFinite DEF ListsOK, ServersFrom, IInv, UniqueNames
<1>2. IsFiniteSet(nics')
  BY FromFinite DEF ListsOK, NICsFrom
<1>. QED  BY <1>1, <1>2 DEF ListsOK

LEMMA NICsUnchanged ==
  ASSUME ListsOK, UNCHANGED nics
  PROVE  \A m, n \in nics' : m.idx = n.idx /\ m.ver = n.ver => m = n
BY DEF ListsOK

LEMMA WithinKept ==
  ASSUME Within, ServersFrom, VolumesFrom, NICsFrom,
         cr'.replicas = cr.replicas, template'.replicas = template.replicas, cur' < cr.replicas
  PROVE  Within'
BY DEF Within, ServersFrom, VolumesFrom, NICsFrom

\* A step that creates nothing adds no surplus.
LEMMA SurplusKept ==
  ASSUME IInv', ListsOK', ServersFrom, VolumesFrom, NICsFrom, OneReplacement
  PROVE  OneReplacement'
<1>1. \A i \in Idx : Surplus(i)' => Surplus(i)
  BY FromSingle, NoSurplus
<1>. QED  BY <1>1 DEF OneReplacement, Idx

\* Before the first creation is complete, every version is the first.
LEMMA FirstSurplus ==
  ASSUME IInv', ListsOK', FirstCreate', ~extName'
  PROVE  OneReplacement'
<1>1. \A i \in Idx : OneServer(i)' /\ OneVolume(i)' /\ OneNIC(i)'
  BY DEF FirstCreate, IInv, UniqueNames, ListsOK, OneServer, OneVolume, OneNIC
<1>2. \A i \in Idx : ~Surplus(i)'
  BY <1>1, NoSurplus
<1>. QED  BY <1>2 DEF OneReplacement, Idx

\* A strategy's surplus is in its own replica.
LEMMA StrategySurplus ==
  ASSUME VolumesOK', SinglesOK', mode' \in {"bootVolume", "all"}
  PROVE  OneReplacement'
<1>1. \A i \in Idx \ {cur'} : OneServer(i)' /\ OneVolume(i)' /\ OneNIC(i)'
  BY DEF VolumesOK, SinglesOK, Idx
<1>2. \A i \in Idx \ {cur'} : ~Surplus(i)'
  BY <1>1, NoSurplus
<1>. QED  BY <1>2 DEF OneReplacement, Idx

LEMMA HereLasts ==
  ASSUME ServersLast, NICsLast, UNCHANGED <<cur, sv>>
  PROVE  /\ Pair(cur, 0) => Pair(cur, 0)'
         /\ Pair(cur, sv) => Pair(cur, sv)'
         /\ NICThere(cur, sv) => NICThere(cur, sv)'
BY DEF ServersLast, NICsLast, Pair, NICThere

\* A step within Create or a strategy, and one of the environment: what has to
\* be shown is what the next step of the worker relies on.
LEMMA ForwardPlaces ==
  ASSUME IInv', PlacesOK, ServersFrom, VolumesFrom, NICsFrom,
         ServersLast, VolumesLast, NICsLast,
         \A m, n \in nics' : m.idx = n.idx /\ m.ver = n.ver => m = n,
         UNCHANGED <<mode, cur, vv, sv, extName, cr>>,
         template'.replicas = template.replicas,
         pc' = pc \/ pc' # "idle",
         ~extName /\ mode = "create" /\ pc' \in {"volume", "attach", "next"} =>
           pc \in {"volume", "attach", "next"} \/ Pair(cur, 0)',
         extName /\ mode = "create" /\ pc' \in {"server", "nic", "volume", "attach"} =>
           pc \in {"server", "nic", "volume", "attach"},
         mode = "all" /\ pc' \in {"deleteVolume", "deleteServer", "deleteNIC", "finish"} =>
           pc \in {"deleteVolume", "deleteServer", "deleteNIC"} \/ pc' = pc \/ NICThere(cur, sv)'
  PROVE  PlacesOK'
<1>1. Within'
  BY WithinKept DEF PlacesOK, Within
<1>2. ListsOK'
  BY ListsKept DEF PlacesOK
<1>3. ModesOK'
  BY DEF PlacesOK, ModesOK
<1>4. FirstCreate'
  <2>1. \A i : Pair(i, 0) => Pair(i, 0)'
    BY PairLasts
  <2>2. ~extName /\ mode = "create" /\ pc' \in {"volume", "attach", "next"} => Pair(cur, 0)'
    BY HereLasts DEF PlacesOK, FirstCreate
  <2>. QED
    BY <2>1, <2>2 DEF PlacesOK, FirstCreate, ServersFrom, VolumesFrom, NICsFrom, Idx
<1>5. LaterCreate'
  <2>1. \A i : Placed(i) => Placed(i)'
    BY PlacedLasts
  <2>2. extName /\ mode = "create" /\ pc' \in {"server", "nic", "volume", "attach"} =>
          Pair(cur, sv)'
    BY HereLasts DEF PlacesOK, LaterCreate
  <2>. QED
    BY <2>1, <2>2 DEF PlacesOK, LaterCreate, Idx
<1>6. SinglesOK'
  <2>1. \A i \in Idx : /\ OneServer(i) => OneServer(i)'
                       /\ OneNIC(i) => OneNIC(i)'
    BY <1>2, FromSingle
  <2>2. mode = "all" /\ pc' \in {"deleteVolume", "deleteServer", "deleteNIC", "finish"} =>
          NICThere(cur, sv)'
    BY HereLasts DEF PlacesOK, SinglesOK
  <2>. QED
    BY <2>1, <2>2 DEF PlacesOK, SinglesOK, Idx
<1>7. OneReplacement'
  BY <1>2, SurplusKept DEF PlacesOK
<1>. QED  BY <1>1, <1>2, <1>3, <1>4, <1>5, <1>6, <1>7 DEF PlacesOK

\* The end of a reconcile.
LEMMA LeavingPlaces ==
  ASSUME IInv', PlacesOK, Return, UNCHANGED <<servers, volumes, nics, extName, template>>
  PROVE  PlacesOK'
<1>1. Within'
  BY SameFromLast, WithinKept DEF Return, PlacesOK, Within, IInv, TypeOK, Templates
<1>2. ListsOK'
  BY SameFromLast, NICsUnchanged, ListsKept DEF PlacesOK
<1>3. ModesOK' /\ SinglesOK'
  BY DEF Return, ModesOK, SinglesOK
<1>4. FirstCreate'
  BY DEF Return, PlacesOK, FirstCreate
<1>5. LaterCreate'
  <2>1. \A i : Placed(i) => Placed(i)'
    BY SameFromLast, PlacedLasts
  <2>. QED  BY <2>1 DEF Return, PlacesOK, LaterCreate, Idx
<1>6. OneReplacement'
  BY <1>2, SameFromLast, SurplusKept DEF PlacesOK
<1>. QED  BY <1>1, <1>2, <1>3, <1>4, <1>5, <1>6 DEF PlacesOK

\* A step of the two loops of an update.
LEMMA LoopPlaces ==
  ASSUME IInv', PlacesOK, ServersFrom, VolumesFrom, ServersLast, VolumesLast, UNCHANGED nics,
         mode = "update", pc' # "idle", UNCHANGED <<mode, extName, cr, template>>,
         cur' < cr.replicas
  PROVE  PlacesOK'
<1>0. extName /\ NICsFrom /\ NICsLast
  BY SameFromLast DEF PlacesOK, ModesOK
<1>1. Within'
  BY <1>0, WithinKept DEF PlacesOK
<1>2. ListsOK'
  BY <1>0, NICsUnchanged, ListsKept DEF PlacesOK
<1>3. ModesOK' /\ FirstCreate'
  BY <1>0 DEF ModesOK, FirstCreate
<1>4. LaterCreate'
  <2>1. \A i : Placed(i) => Placed(i)'
    BY <1>0, PlacedLasts
  <2>. QED  BY <1>0, <2>1 DEF PlacesOK, LaterCreate, Idx
<1>5. SinglesOK'
  <2>1. \A i \in Idx : /\ OneServer(i) => OneServer(i)'
                       /\ OneNIC(i) => OneNIC(i)'
    BY <1>0, <1>2, FromSingle
  <2>. QED
    BY <2>1 DEF PlacesOK, SinglesOK, Idx
<1>6. OneReplacement'
  BY <1>0, <1>2, SurplusKept DEF PlacesOK
<1>. QED  BY <1>1, <1>2, <1>3, <1>4, <1>5, <1>6 DEF PlacesOK

-----------------------------------------------------------------------------
(* Observe.                                                                  *)
LEMMA IdxBelow == ASSUME TypeOK, NEW i \in Nat, i < cr.replicas PROVE i \in Idx
BY ReplicasAssumption DEF TypeOK, Templates, Idx

LEMMA ReplicasType == TypeOK => cr.replicas \in Nat /\ cr.replicas > 0
BY DEF TypeOK, Templates

\* When the counts match, every replica has one server and one NIC: they are as
\* many as the replicas, and none is missing.
LEMMA CountsMatch ==
  ASSUME IInv, PlacesOK, extName, Exists
  PROVE  \A i \in Idx : OneServer(i) /\ OneNIC(i)
<1>. DEFINE N == cr.replicas
<1>1. N \in Nat /\ N > 0
  BY ReplicasType DEF IInv
<1>2. Cardinality(servers) = N /\ Cardinality(nics) = N
  BY DEF Exists, PlacesOK, Within
<1>3. /\ \A s \in servers : s.idx \in 0 .. N - 1
      /\ \A n \in nics : n.idx \in 0 .. N - 1
  <2>1. \A i \in Idx : i < N => i \in 0 .. N - 1
    BY <1>1, IdxFacts
  <2>2. /\ \A s \in servers : s.idx \in Idx /\ s.idx < N
        /\ \A n \in nics : n.idx \in Idx /\ n.idx < N
    BY DEF PlacesOK, Within, IInv, TypeOK, Server, NIC
  <2>. HIDE DEF N
  <2>. QED  BY <2>1, <2>2
<1>4. \A i \in 0 .. N - 1 : i \in Idx /\ i < N
  BY <1>1, IdxBelow DEF IInv
<1>5. \A i \in 0 .. N - 1 : (\E s \in servers : s.idx = i) /\ (\E n \in nics : n.idx = i)
  <2> SUFFICES ASSUME NEW i \in 0 .. N - 1
               PROVE  (\E s \in servers : s.idx = i) /\ (\E n \in nics : n.idx = i)
    OBVIOUS
  <2>1. Placed(i)
    BY <1>4 DEF PlacesOK, LaterCreate
  <2>. QED  BY <2>1 DEF Placed, Pair, NICThere
<1>6. IsFiniteSet(servers) /\ IsFiniteSet(nics)
  BY DEF PlacesOK, ListsOK
<1>. HIDE DEF N
<1>7. \A s, t \in servers : s.idx = t.idx => s = t
  BY <1>1, <1>2, <1>3, <1>5, <1>6, Pigeonhole
<1>8. \A m, n \in nics : m.idx = n.idx => m = n
  BY <1>1, <1>2, <1>3, <1>5, <1>6, Pigeonhole
<1>. QED  BY <1>7, <1>8 DEF OneServer, OneNIC

LEMMA ObserveMissingPlaces ==
  ASSUME IInv, IInv', PlacesOK, ObserveMissing
  PROVE  PlacesOK'
<1>0. /\ UNCHANGED <<servers, volumes, nics, template, extName, cur, vv, sv>>
      /\ mode' = "create" /\ pc' = "versions" /\ pc = "idle" /\ cr' = template
  BY DEF ObserveMissing, Goto, objects
<1>1. Within' /\ cr'.replicas = cr.replicas
  BY <1>0 DEF PlacesOK, Within
<1>2. ListsOK'
  BY <1>0, SameFromLast, NICsUnchanged, ListsKept DEF PlacesOK
<1>3. ModesOK' /\ SinglesOK'
  BY <1>0 DEF ModesOK, SinglesOK
<1>4. FirstCreate'
  <2>1. cur = 0
    BY <1>0 DEF PlacesOK, ModesOK
  <2>2. \A i \in Idx : ~(i < 0)
    BY DEF Idx
  <2>. QED  BY <1>0, <2>1, <2>2 DEF PlacesOK, FirstCreate, Idx
<1>5. LaterCreate'
  <2>1. \A i : Placed(i) => Placed(i)'
    BY <1>0, SameFromLast, PlacedLasts
  <2>. QED  BY <1>0, <1>1, <2>1 DEF PlacesOK, LaterCreate, Idx
<1>6. OneReplacement'
  BY <1>0, <1>2, SameFromLast, SurplusKept DEF PlacesOK
<1>. QED  BY <1>1, <1>2, <1>3, <1>4, <1>5, <1>6 DEF PlacesOK

LEMMA ObserveOutdatedPlaces ==
  ASSUME IInv, IInv', PlacesOK, ObserveOutdated
  PROVE  PlacesOK'
<1>0. /\ UNCHANGED <<servers, volumes, nics, template, extName, cur, vv, sv>>
      /\ mode' = "update" /\ pc' = "servers" /\ cr' = template /\ extName /\ Exists
  BY DEF ObserveOutdated, Goto, objects, cluster
<1>1. Within' /\ cr'.replicas = cr.replicas
  BY <1>0 DEF PlacesOK, Within
<1>2. ListsOK'
  BY <1>0, SameFromLast, NICsUnchanged, ListsKept DEF PlacesOK
<1>3. ModesOK' /\ FirstCreate'
  BY <1>0 DEF ModesOK, FirstCreate
<1>4. LaterCreate'
  <2>1. \A i : Placed(i) => Placed(i)'
    BY <1>0, SameFromLast, PlacedLasts
  <2>. QED  BY <1>0, <1>1, <2>1 DEF PlacesOK, LaterCreate, Idx
<1>5. SinglesOK'
  <2>1. \A i \in Idx : OneServer(i)' /\ OneNIC(i)'
    BY <1>0, CountsMatch DEF OneServer, OneNIC
  <2>. QED  BY <1>0, <2>1 DEF SinglesOK, Idx
<1>6. OneReplacement'
  BY <1>0, <1>2, SameFromLast, SurplusKept DEF PlacesOK
<1>. QED  BY <1>1, <1>2, <1>3, <1>4, <1>5, <1>6 DEF PlacesOK

-----------------------------------------------------------------------------
(* Create.                                                                   *)
LEMMA GetVersionsPlaces ==
  ASSUME IInv, IInv', PlacesOK, GetVersions
  PROVE  PlacesOK'
<1>1. CASE ReturnError
  BY <1>1, LeavingPlaces DEF ReturnError, GetVersions, objects
<1>2. CASE ~ReturnError
  <2>0. /\ mode = "create" /\ pc = "versions" /\ pc' = "server"
        /\ UNCHANGED <<servers, volumes, nics, template, extName, mode, cr, cur>>
        /\ ~TooMany(Of(volumes, cur))
        /\ Of(volumes, cur) # {} => ~TooMany(Of(servers, cur))
        /\ vv' \in (IF Of(volumes, cur) = {} THEN {0} ELSE {v.ver : v \in Of(volumes, cur)})
        /\ sv' \in (IF Of(volumes, cur) = {} \/ Of(servers, cur) = {} THEN {0}
                    ELSE {s.ver : s \in Of(servers, cur)})
    BY <1>2 DEF GetVersions, Goto, objects, cluster, IInv, ControlOK
  <2>1. Within'
    BY <2>0, SameFromLast, WithinKept DEF PlacesOK, Within
  <2>2. ListsOK'
    BY <2>0, SameFromLast, NICsUnchanged, ListsKept DEF PlacesOK
  <2>3. ModesOK' /\ SinglesOK'
    BY <2>0 DEF ModesOK, SinglesOK
  <2>4. FirstCreate'
    <3>1. ~extName => vv' = 0 /\ sv' = 0
      BY <2>0 DEF PlacesOK, FirstCreate, Of
    <3>2. \A i : Pair(i, 0) => Pair(i, 0)'
      BY <2>0, SameFromLast, PairLasts
    <3>. QED  BY <2>0, <3>1, <3>2 DEF PlacesOK, FirstCreate, Idx
  <2>5. LaterCreate'
    <3>1. \A i : Placed(i) => Placed(i)'
      BY <2>0, SameFromLast, PlacedLasts
    <3>2. ASSUME extName PROVE Pair(cur, sv')
      <4>1. Placed(cur)
        BY <3>2 DEF PlacesOK, LaterCreate, Within, IInv, TypeOK
      <4>2. CASE Of(volumes, cur) = {}
        <5>1. ~HasVolume(cur)
          BY <4>2 DEF HasVolume, Of
        <5>. QED  BY <2>0, <4>1, <4>2, <5>1 DEF Placed
      <4>3. CASE Of(volumes, cur) # {}
        <5>1. PICK n : Pair(cur, n)
          BY <4>1, SomePair DEF Placed
        <5>2. PICK s \in servers : s.idx = cur /\ s.ver = n
          BY <5>1 DEF Pair
        <5>3. s \in Of(servers, cur)
          BY <5>2 DEF Of
        <5>4. \A t \in Of(servers, cur) : t = s
          BY <2>0, <4>3, <5>3 DEF TooMany
        <5>5. sv' \in {t.ver : t \in Of(servers, cur)}
          BY <2>0, <4>3, <5>3
        <5>6. sv' = n
          BY <5>2, <5>4, <5>5
        <5>. QED  BY <5>1, <5>6
      <4>. QED  BY <4>2, <4>3
    <3>3. extName => Pair(cur, sv)'
      BY <2>0, <3>2 DEF Pair, NICThere
    <3>. QED  BY <2>0, <3>1, <3>3 DEF PlacesOK, LaterCreate, Idx
  <2>6. OneReplacement'
    BY <2>0, <2>2, SameFromLast, SurplusKept DEF PlacesOK
  <2>. QED  BY <2>1, <2>2, <2>3, <2>4, <2>5, <2>6 DEF PlacesOK
<1>. QED  BY <1>1, <1>2

LEMMA NextReplicaPlaces ==
  ASSUME IInv, IInv', PlacesOK, NextReplica
  PROVE  PlacesOK'
<1>0. /\ mode = "create" /\ pc = "next" /\ UNCHANGED <<servers, volumes, nics, template, cr>>
      /\ cr.replicas \in Nat /\ cur \in Nat /\ cr.replicas > 0 /\ cur < cr.replicas
  BY ReplicasType, IdxFacts
  DEF NextReplica, Return, objects, cluster, IInv, ControlOK, TypeOK, PlacesOK, Within
<1>1. ServersFrom /\ VolumesFrom /\ NICsFrom /\ ServersLast /\ VolumesLast /\ NICsLast
  BY <1>0, SameFromLast
<1>2. ListsOK'
  BY <1>0, <1>1, NICsUnchanged, ListsKept DEF PlacesOK
<1>3. OneReplacement'
  BY <1>1, <1>2, SurplusKept DEF PlacesOK
<1>4. \A i : /\ Placed(i) => Placed(i)'
             /\ Pair(i, 0) => Pair(i, 0)'
  BY <1>1, PairLasts, PlacedLasts
<1>5. CASE cur + 1 < cr.replicas
  <2>0. cur' = cur + 1 /\ pc' = "versions" /\ UNCHANGED <<mode, extName, vv, sv>>
    BY <1>5 DEF NextReplica, Goto, cluster
  <2>1. Within'
    BY <1>0, <1>1, <1>5, <2>0, WithinKept DEF PlacesOK
  <2>2. ModesOK' /\ SinglesOK'
    BY <1>0, <2>0 DEF ModesOK, SinglesOK
  <2>3. FirstCreate'
    <3>1. \A i \in Idx : i < cur + 1 => i < cur \/ i = cur
      BY <1>0 DEF Idx
    <3>. QED  BY <1>0, <1>4, <2>0, <3>1 DEF PlacesOK, FirstCreate, Idx
  <2>4. LaterCreate'
    BY <1>0, <1>4, <2>0 DEF PlacesOK, LaterCreate, Idx
  <2>. QED  BY <1>2, <1>3, <2>1, <2>2, <2>3, <2>4 DEF PlacesOK
<1>6. CASE ~(cur + 1 < cr.replicas)
  <2>0. extName' = TRUE /\ Return
    BY <1>6 DEF NextReplica
  <2>1. Within'
    BY <1>0, <1>1, <2>0, WithinKept DEF PlacesOK, Return
  <2>2. ModesOK' /\ SinglesOK' /\ FirstCreate'
    BY <2>0 DEF ModesOK, SinglesOK, FirstCreate, Return
  <2>3. \A i \in Idx : i < cr.replicas => Placed(i)
    <3>1. CASE extName
      BY <3>1 DEF PlacesOK, LaterCreate
    <3>2. CASE ~extName
      <4>1. \A i \in Idx : i < cr.replicas => i < cur \/ i = cur
        BY <1>0, <1>6 DEF Idx
      <4>2. \A i \in Idx : i < cr.replicas => Pair(i, 0)
        BY <1>0, <3>2, <4>1 DEF PlacesOK, FirstCreate
      <4>. QED  BY <4>2, SomePair DEF Placed
    <3>. QED  BY <3>1, <3>2
  <2>4. LaterCreate'
    BY <1>0, <1>4, <2>0, <2>3 DEF LaterCreate, Return, Idx
  <2>. QED  BY <1>2, <1>3, <2>1, <2>2, <2>4 DEF PlacesOK
<1>. QED  BY <1>5, <1>6

-----------------------------------------------------------------------------
(* Servers, NICs and volumes are ensured.                                    *)

\* What the three Ensure steps leave alone when they do not return.
Stays == UNCHANGED <<template, extName, mode, cr, cur, vv, sv>>

LEMMA WithinHere ==
  ASSUME Within, Stays,
         \A s \in servers' : s.idx = cur \/ \E t \in servers : t.idx = s.idx,
         \A v \in volumes' : v.idx = cur \/ \E w \in volumes : w.idx = v.idx,
         \A m \in nics' : m.idx = cur \/ \E n \in nics : n.idx = m.idx
  PROVE  Within'
BY DEF Within, Stays

\* A created object has the version the worker ensures.
LEMMA FirstHere ==
  ASSUME PlacesOK, Stays, pc' = pc, ServersLast, NICsLast,
         \A s \in servers' : s.ver = sv \/ \E t \in servers : t.ver = s.ver,
         \A v \in volumes' : v.ver = vv \/ \E w \in volumes : w.ver = v.ver,
         \A m \in nics' : m.ver = sv \/ \E n \in nics : n.ver = m.ver
  PROVE  FirstCreate'
<1>1. \A i : Pair(i, 0) => Pair(i, 0)'
  BY PairLasts
<1>2. Pair(cur, 0) => Pair(cur, 0)'
  BY HereLasts DEF Stays
<1>. QED  BY <1>1, <1>2 DEF PlacesOK, FirstCreate, Stays, Idx

LEMMA LaterHere ==
  ASSUME PlacesOK, Stays, pc' = pc, ServersLast, VolumesLast, NICsLast
  PROVE  LaterCreate'
<1>1. \A i : Placed(i) => Placed(i)'
  BY PlacedLasts
<1>2. Pair(cur, sv) => Pair(cur, sv)'
  BY HereLasts DEF Stays
<1>. QED  BY <1>1, <1>2 DEF PlacesOK, LaterCreate, Stays, Idx

LEMMA EnsureServerPlaces ==
  ASSUME IInv, IInv', VolumesOK', PlacesOK, EnsureServer
  PROVE  PlacesOK'
<1>0. /\ pc = "server" /\ mode \in {"create", "all"} /\ UNCHANGED <<volumes, nics>>
      /\ VolumesFrom /\ NICsFrom /\ VolumesLast /\ NICsLast
  BY SameFromLast DEF EnsureServer, IInv, ControlOK
<1>1. CASE ReturnError /\ UNCHANGED servers
  BY <1>0, <1>1, LeavingPlaces DEF ReturnError
<1>2. CASE /\ Ensured(servers, sv) = {} /\ Stays /\ pc' = pc
           /\ servers' = servers \cup {[idx |-> cur, ver |-> sv, cores |-> cr.cores,
                                        boot |-> NoVolume, status |-> "PENDING"]}
  <2>1. ServersLast
    BY <1>2 DEF ServersLast
  <2>2. Within'
    BY <1>0, <1>2, WithinHere DEF PlacesOK
  <2>3. ListsOK'
    BY <1>0, <1>2, FS_AddElement DEF PlacesOK, ListsOK
  <2>4. ModesOK'
    BY <1>2 DEF PlacesOK, ModesOK, Stays
  <2>5. FirstCreate'
    BY <1>0, <1>2, <2>1, FirstHere
  <2>6. LaterCreate'
    BY <1>0, <1>2, <2>1, LaterHere
  <2>7. mode = "create" => ~extName
    <3>1. mode = "create" => ~Pair(cur, sv)
      BY <1>2 DEF Ensured, Of, Pair
    <3>. QED  BY <1>0, <3>1 DEF PlacesOK, LaterCreate
  <2>8. SinglesOK'
    <3>1. \A i \in Idx \ {cur} : OneServer(i) => OneServer(i)'
      BY <1>2 DEF OneServer
    <3>2. \A i \in Idx : OneNIC(i) => OneNIC(i)'
      BY <1>0 DEF OneNIC
    <3>. QED  BY <1>0, <1>2, <3>1, <3>2 DEF PlacesOK, SinglesOK, Stays, Idx
  <2>9. OneReplacement'
    <3>1. CASE mode = "create"
      BY <1>2, <2>3, <2>5, <2>7, <3>1, FirstSurplus DEF Stays
    <3>2. CASE mode = "all"
      BY <1>2, <2>8, <3>2, StrategySurplus DEF Stays
    <3>. QED  BY <1>0, <3>1, <3>2
  <2>. QED  BY <2>2, <2>3, <2>4, <2>5, <2>6, <2>8, <2>9 DEF PlacesOK
<1>3. CASE /\ mode = "create" /\ Ensured(servers, sv) # {}
           /\ ~TooMany(Ensured(servers, sv)) /\ \E s \in Ensured(servers, sv) : ~HasId(s)
           /\ sv' \in {s.ver : s \in Ensured(servers, sv)} /\ pc' = pc
           /\ UNCHANGED <<template, extName, mode, cr, cur, vv>>
  <2>1. ~extName
    <3>1. \A s \in servers : s.idx = cur => ~Established(s)
      BY <1>3 DEF Ensured, Of, TooMany, HasId, Established
    <3>2. ~Pair(cur, sv)
      BY <3>1 DEF Pair
    <3>. QED  BY <1>0, <1>3, <3>2 DEF PlacesOK, LaterCreate
  <2>2. sv' = sv
    BY <1>3, <2>1 DEF PlacesOK, FirstCreate, Ensured, Of
  <2>3. ServersFrom /\ ServersLast
    BY <1>3, EnsureServerFrom
  <2>. QED
    BY <1>0, <1>3, <2>1, <2>2, <2>3, NICsUnchanged, ForwardPlaces DEF PlacesOK
<1>4. CASE Proceed /\ Stays /\ UNCHANGED servers
  <2>1. pc' \in {"nic", "volume"} /\ (mode = "create" => pc' = "nic")
    BY <1>0, <1>4, AfterCreate, AfterAll DEF Proceed, Goto
  <2>2. mode = "all" => pc' = "volume"
    BY <1>0, <1>4, AfterAll DEF Proceed, Goto
  <2>. QED
    BY <1>0, <1>4, <2>1, <2>2, SameFromLast, NICsUnchanged, ForwardPlaces DEF PlacesOK, Stays
<1>5. EnsureServer => \/ ReturnError /\ UNCHANGED servers
                      \/ /\ Ensured(servers, sv) = {} /\ Stays /\ pc' = pc
                         /\ servers' = servers \cup {[idx |-> cur, ver |-> sv, cores |-> cr.cores,
                                        boot |-> NoVolume, status |-> "PENDING"]}
                      \/ /\ mode = "create" /\ Ensured(servers, sv) # {}
                         /\ ~TooMany(Ensured(servers, sv)) /\ \E s \in Ensured(servers, sv) : ~HasId(s)
                         /\ sv' \in {s.ver : s \in Ensured(servers, sv)} /\ pc' = pc
                         /\ UNCHANGED <<template, extName, mode, cr, cur, vv>>
                      \/ Proceed /\ Stays /\ UNCHANGED servers
  BY DEF EnsureServer, Await, cluster, Stays
<1>. QED  BY <1>1, <1>2, <1>3, <1>4, <1>5

LEMMA EnsureVolumePlaces ==
  ASSUME IInv, IInv', VolumesOK', PlacesOK, EnsureVolume
  PROVE  PlacesOK'
<1>0. /\ pc = "volume" /\ mode \in {"create", "bootVolume", "all"}
      /\ UNCHANGED <<servers, nics>>
      /\ ServersFrom /\ NICsFrom /\ ServersLast /\ NICsLast
  BY SameFromLast DEF EnsureVolume, IInv, ControlOK
<1>1. CASE ReturnError /\ UNCHANGED volumes
  BY <1>0, <1>1, LeavingPlaces DEF ReturnError
<1>2. CASE /\ Ensured(volumes, vv) = {} /\ Stays /\ pc' = pc
           /\ volumes' = volumes \cup {[idx |-> cur, ver |-> vv, image |-> cr.image,
                                        size |-> cr.size, status |-> "PENDING"]}
  <2>1. VolumesLast
    BY <1>2 DEF VolumesLast
  <2>2. Within'
    BY <1>0, <1>2, WithinHere DEF PlacesOK
  <2>3. ListsOK'
    BY <1>0 DEF PlacesOK, ListsOK
  <2>4. ModesOK'
    BY <1>2 DEF PlacesOK, ModesOK, Stays
  <2>5. FirstCreate'
    BY <1>0, <1>2, FirstHere
  <2>6. LaterCreate'
    BY <1>0, <1>2, <2>1, LaterHere
  <2>7. SinglesOK'
    <3>1. \A i \in Idx : (OneServer(i) => OneServer(i)') /\ (OneNIC(i) => OneNIC(i)')
      BY <1>0 DEF OneServer, OneNIC
    <3>2. NICThere(cur, sv) => NICThere(cur, sv)'
      BY <1>0, <1>2 DEF NICThere, Stays
    <3>. QED  BY <1>0, <1>2, <3>1, <3>2 DEF PlacesOK, SinglesOK, Stays, Idx
  <2>8. OneReplacement'
    <3>1. CASE mode = "create"
      <4>1. \A v \in volumes : v.idx # cur
        BY <1>2, <3>1 DEF Ensured, Of
      <4>2. \A i \in Idx : (OneServer(i) => OneServer(i)') /\ (OneNIC(i) => OneNIC(i)')
        BY <1>0 DEF OneServer, OneNIC
      <4>3. \A i \in Idx : OneVolume(i) => OneVolume(i)'
        BY <1>2, <4>1 DEF OneVolume
      <4>4. \A i \in Idx : Surplus(i)' => Surplus(i)
        BY <4>2, <4>3, NoSurplus
      <4>. QED  BY <4>4 DEF PlacesOK, OneReplacement, Idx
    <3>2. CASE mode \in {"bootVolume", "all"}
      BY <1>2, <2>7, <3>2, StrategySurplus DEF Stays
    <3>. QED  BY <1>0, <3>1, <3>2
  <2>. QED  BY <2>2, <2>3, <2>4, <2>5, <2>6, <2>7, <2>8 DEF PlacesOK
<1>3. CASE Proceed /\ Stays /\ UNCHANGED volumes
  <2>1. pc' = "attach"
    BY <1>0, <1>3, AfterCreate, AfterBootVolume, AfterAll DEF Proceed, Goto
  <2>. QED
    BY <1>0, <1>3, <2>1, SameFromLast, NICsUnchanged, ForwardPlaces DEF PlacesOK, Stays
<1>. QED  BY <1>1, <1>2, <1>3 DEF EnsureVolume, Await, cluster, Stays

\* In Create, the NIC of a server in place completes the replica's first pair.
LEMMA FirstPair ==
  ASSUME IInv, PlacesOK, ~extName, mode = "create", pc = "nic", NICThere(cur, sv)
  PROVE  Pair(cur, 0)
BY DEF IInv, CreateOK, PlacesOK, FirstCreate, Pair

LEMMA EnsureNICPlaces ==
  ASSUME IInv, IInv', VolumesOK', PlacesOK, EnsureNIC
  PROVE  PlacesOK'
<1>0. /\ pc = "nic" /\ mode \in {"create", "all"} /\ UNCHANGED <<servers, volumes>>
      /\ ServersFrom /\ VolumesFrom /\ ServersLast /\ VolumesLast
  BY SameFromLast DEF EnsureNIC, IInv, ControlOK
<1>1. CASE ReturnError /\ UNCHANGED nics
  BY <1>0, <1>1, LeavingPlaces DEF ReturnError
<1>2. CASE /\ At(nics, cur, sv) = {} /\ Stays /\ pc' = pc
           /\ nics' = nics \cup {[idx |-> cur, ver |-> sv, status |-> "PENDING"]}
  <2>1. NICsLast
    BY <1>2 DEF NICsLast
  <2>2. Within'
    BY <1>0, <1>2, WithinHere DEF PlacesOK
  <2>3. ListsOK'
    <3>1. IsFiniteSet(nics') /\ IsFiniteSet(servers')
      BY <1>0, <1>2, FS_AddElement DEF PlacesOK, ListsOK
    <3>2. \A n \in nics : ~(n.idx = cur /\ n.ver = sv)
      BY <1>2 DEF At
    <3>3. \A m, n \in nics' : m.idx = n.idx /\ m.ver = n.ver => m = n
      BY <1>2, <3>2 DEF PlacesOK, ListsOK
    <3>. QED  BY <3>1, <3>3 DEF ListsOK
  <2>4. ModesOK'
    BY <1>2 DEF PlacesOK, ModesOK, Stays
  <2>5. FirstCreate'
    BY <1>0, <1>2, <2>1, FirstHere
  <2>6. LaterCreate'
    BY <1>0, <1>2, <2>1, LaterHere
  <2>7. mode = "create" => ~extName
    <3>1. ~Pair(cur, sv)
      BY <1>2 DEF At, Pair, NICThere
    <3>. QED  BY <1>0, <3>1 DEF PlacesOK, LaterCreate
  <2>8. SinglesOK'
    <3>1. \A i \in Idx : OneServer(i) => OneServer(i)'
      BY <1>0 DEF OneServer
    <3>2. \A i \in Idx \ {cur} : OneNIC(i) => OneNIC(i)'
      BY <1>2 DEF OneNIC
    <3>. QED  BY <1>0, <1>2, <3>1, <3>2 DEF PlacesOK, SinglesOK, Stays, Idx
  <2>9. OneReplacement'
    <3>1. CASE mode = "create"
      BY <1>2, <2>3, <2>5, <2>7, <3>1, FirstSurplus DEF Stays
    <3>2. CASE mode = "all"
      BY <1>2, <2>8, <3>2, StrategySurplus DEF Stays
    <3>. QED  BY <1>0, <3>1, <3>2
  <2>. QED  BY <2>2, <2>3, <2>4, <2>5, <2>6, <2>8, <2>9 DEF PlacesOK
<1>3. CASE /\ Proceed /\ Stays /\ UNCHANGED nics
           /\ \E n \in At(nics, cur, sv) : n.status = "AVAILABLE"
  <2>1. /\ mode = "create" => pc' = "volume"
        /\ mode = "all" => pc' = "deleteVolume"
    BY <1>0, <1>3, AfterCreate, AfterAll DEF Proceed, Goto
  <2>2. NICThere(cur, sv)
    BY <1>3 DEF NICThere, At, Established
  <2>3. NICThere(cur, sv)' /\ (~extName /\ mode = "create" => Pair(cur, 0)')
    BY <1>0, <1>3, <2>2, FirstPair, SameFromLast, HereLasts DEF Stays
  <2>. QED
    BY <1>0, <1>3, <2>1, <2>3, SameFromLast, NICsUnchanged, ForwardPlaces DEF PlacesOK, Stays
<1>. QED  BY <1>1, <1>2, <1>3 DEF EnsureNIC, Await, cluster, Stays

LEMMA WaitAvailablePlaces ==
  ASSUME IInv, IInv', PlacesOK, WaitAvailable
  PROVE  PlacesOK'
<1>0. /\ pc \in {"server", "volume", "nic"} /\ mode \in {"create", "bootVolume", "all"}
      /\ UNCHANGED <<servers, volumes, nics>> /\ Stays /\ pc' = After[mode][pc]
      /\ \E o \in Awaited : o.status = "AVAILABLE"
  BY DEF WaitAvailable, IInv, ControlOK, Creates, objects, cluster, Stays, Proceed, Goto
<1>1. \/ mode = "create" /\ pc = "server" /\ pc' = "nic"
      \/ mode = "create" /\ pc = "nic" /\ pc' = "volume"
      \/ pc = "volume" /\ pc' = "attach"
      \/ mode = "all" /\ pc = "server" /\ pc' = "volume"
      \/ mode = "all" /\ pc = "nic" /\ pc' = "deleteVolume"
  BY <1>0, AfterCreate, AfterBootVolume, AfterAll DEF IInv, ControlOK
<1>2. pc = "nic" => NICThere(cur, sv)
  BY <1>0 DEF Awaited, NICThere, At, Established
<1>3. /\ pc = "nic" => NICThere(cur, sv)'
      /\ pc = "nic" /\ ~extName /\ mode = "create" => Pair(cur, 0)'
  BY <1>0, <1>2, FirstPair, SameFromLast, HereLasts DEF Stays
<1>. QED
  BY <1>0, <1>1, <1>3, SameFromLast, NICsUnchanged, ForwardPlaces DEF PlacesOK, Stays

LEMMA AttachPlaces ==
  ASSUME IInv, IInv', PlacesOK, Attach
  PROVE  PlacesOK'
<1>0. /\ pc = "attach" /\ mode \in {"create", "bootVolume", "all"}
      /\ UNCHANGED <<volumes, nics>>
      /\ ServersFrom /\ ServersLast
      /\ VolumesFrom /\ NICsFrom /\ VolumesLast /\ NICsLast
  BY AttachFrom, SameFromLast DEF Attach, IInv, ControlOK
<1>1. CASE ReturnError /\ UNCHANGED servers
  BY <1>0, <1>1, LeavingPlaces DEF ReturnError
<1>2. CASE Proceed /\ Stays
  <2>1. /\ mode = "create" => pc' = "next"
        /\ mode = "bootVolume" => pc' = "deleteVolume"
        /\ mode = "all" => pc' = "nic"
    BY <1>0, <1>2, AfterCreate, AfterBootVolume, AfterAll DEF Proceed, Goto
  <2>. QED
    BY <1>0, <1>2, <2>1, NICsUnchanged, ForwardPlaces DEF PlacesOK, Stays
<1>. QED  BY <1>1, <1>2 DEF Attach, cluster, Stays

-----------------------------------------------------------------------------
(* The loops of an update.                                                   *)
LEMMA UpdateByIndexPlaces ==
  ASSUME IInv, IInv', VolumesOK, VolumesOK', PlacesOK, pc = "volumes",
         UNCHANGED <<servers, volumes, nics>>,
         NEW i \in Idx, i < cr.replicas, UpdateByIndex(i)
  PROVE  PlacesOK'
<1>1. CASE ReturnError
  BY <1>1, LeavingPlaces DEF ReturnError
<1>2. CASE ~ReturnError
  <2>0. /\ mode' \in {"bootVolume", "all"} /\ pc' \in {"server", "volume"} /\ cur' = i
        /\ UNCHANGED <<template, extName, cr>>
        /\ mode = "update" /\ extName
    BY <1>2 DEF UpdateByIndex, Goto, cluster, IInv, ControlOK, PlacesOK, ModesOK
  <2>1. Within'
    BY <2>0, SameFromLast, WithinKept DEF PlacesOK
  <2>2. ListsOK'
    BY SameFromLast, NICsUnchanged, ListsKept DEF PlacesOK
  <2>3. ModesOK' /\ FirstCreate'
    BY <2>0 DEF ModesOK, FirstCreate
  <2>4. LaterCreate'
    <3>1. \A j : Placed(j) => Placed(j)'
      BY SameFromLast, PlacedLasts
    <3>. QED  BY <2>0, <3>1 DEF PlacesOK, LaterCreate, Idx
  <2>5. SinglesOK'
    <3>1. \A j \in Idx : OneServer(j)' /\ OneNIC(j)'
      BY <2>0 DEF PlacesOK, SinglesOK, OneServer, OneNIC
    <3>. QED  BY <2>0, <3>1 DEF SinglesOK, Idx
  <2>6. OneReplacement'
    BY <2>0, <2>5, StrategySurplus
  <2>. QED  BY <2>1, <2>2, <2>3, <2>4, <2>5, <2>6 DEF PlacesOK
<1>. QED  BY <1>1, <1>2

LEMMA UpdateServerPlaces ==
  ASSUME IInv, IInv', PlacesOK, UpdateServer
  PROVE  PlacesOK'
<1>0. pc = "servers" /\ mode = "update" /\ UNCHANGED <<volumes, nics>>
  BY DEF UpdateServer, IInv, ControlOK
<1>1. CASE ReturnError /\ UNCHANGED servers
  BY <1>0, <1>1, LeavingPlaces DEF ReturnError
<1>2. CASE ~(ReturnError /\ UNCHANGED servers)
  <2>1. /\ pc' = pc /\ UNCHANGED <<template, extName, mode, cr>>
        /\ cur' = cur \/ \E s \in servers : cur' = s.idx
    BY <1>2 DEF UpdateServer, Await, cluster, At
  <2>2. cur' < cr.replicas
    BY <2>1 DEF PlacesOK, Within
  <2>. QED
    BY <1>0, <2>1, <2>2, UpdateServerFrom, SameFromLast, LoopPlaces DEF IInv
<1>. QED  BY <1>1, <1>2

LEMMA LoopStepPlaces ==
  ASSUME IInv, IInv', PlacesOK, WaitUpdated \/ ServersDone
  PROVE  PlacesOK'
<1>1. /\ mode = "update" /\ UNCHANGED <<servers, volumes, nics, mode, extName, cr, template>>
      /\ pc' # "idle" /\ (cur' = cur \/ cur' = 0)
  BY DEF WaitUpdated, ServersDone, Goto, objects, cluster, IInv, ControlOK
<1>2. cur' < cr.replicas
  BY <1>1, ReplicasType DEF PlacesOK, Within, IInv
<1>. QED  BY <1>1, <1>2, SameFromLast, LoopPlaces

LEMMA UpdateVolumePlaces ==
  ASSUME IInv, IInv', VolumesOK, VolumesOK', PlacesOK, UpdateVolume
  PROVE  PlacesOK'
<1>0. pc = "volumes" /\ mode = "update" /\ UNCHANGED <<servers, nics>>
  BY DEF UpdateVolume, IInv, ControlOK
<1>1. CASE ReturnError /\ UNCHANGED volumes
  BY <1>0, <1>1, LeavingPlaces DEF ReturnError
<1>2. CASE UNCHANGED volumes /\ \E v \in volumes : UpdateByIndex(v.idx)
  <2>1. \A v \in volumes : v.idx \in Idx /\ v.idx < cr.replicas
    BY DEF IInv, TypeOK, Volume, PlacesOK, Within
  <2>. QED  BY <1>0, <1>2, <2>1, UpdateByIndexPlaces
<1>3. CASE UNCHANGED <<template, extName, pc, mode, cr, cur>>
  <2>1. cur' < cr.replicas
    BY <1>3 DEF PlacesOK, Within
  <2>. QED
    BY <1>0, <1>3, <2>1, UpdateVolumeFrom, SameFromLast, LoopPlaces DEF IInv
<1>. QED  BY <1>1, <1>2, <1>3 DEF UpdateVolume, At, cluster

LEMMA UpdateMasterPlaces ==
  ASSUME IInv, IInv', VolumesOK, VolumesOK', PlacesOK, UpdateMaster
  PROVE  PlacesOK'
<1>1. master \in Idx /\ master < cr.replicas
  BY DEF UpdateMaster, IInv, TypeOK, Volume, PlacesOK, Within
<1>. QED
  BY <1>1, UpdateByIndexPlaces DEF UpdateMaster, objects

-----------------------------------------------------------------------------
(* The old objects are destroyed while the new ones are in place.            *)

\* What a strategy relies on while it destroys.
LEMMA NewInPlace ==
  ASSUME IInv, mode \in {"bootVolume", "all"}, pc \in Deletes
  PROVE  NewServerThere /\ NewVolumeThere
BY DEF IInv, UpdateOK, Deletes

LEMMA DestroyPlaces ==
  ASSUME IInv, IInv', VolumesOK', PlacesOK, Destroy
  PROVE  PlacesOK'
<1>0. pc \in Deletes /\ mode \in {"bootVolume", "all"} /\ extName
  BY DEF Destroy, Deletes, IInv, ControlOK, PlacesOK, ModesOK
<1>1. CASE ReturnError /\ UNCHANGED objects
  BY <1>1, LeavingPlaces DEF ReturnError, objects
<1>2. CASE ~(ReturnError /\ UNCHANGED objects)
  <2>0. /\ Stays /\ pc' = pc
        /\ volumes' = IF pc = "deleteVolume"
                      THEN Mark(volumes, cur, vv - 1, "DELETING") ELSE volumes
        /\ servers' = IF pc = "deleteServer"
                      THEN Mark(servers, cur, sv - 1, "DELETING") ELSE servers
        /\ nics' = IF pc = "deleteNIC"
                   THEN Mark(nics, cur, sv - 1, "DELETING") ELSE nics
    BY <1>2 DEF Destroy, Await, cluster, Stays
  <2>1. ServersFrom /\ VolumesFrom /\ NICsFrom
    BY <2>0, MarkFrom, SameFromLast DEF IInv
  <2>2. \A m, n \in nics' : m.idx = n.idx /\ m.ver = n.ver => m = n
    BY <2>0, MarkLists, NICsUnchanged DEF IInv, PlacesOK
  <2>3. ListsOK'
    BY <2>1, <2>2, ListsKept DEF PlacesOK
  <2>4. Within'
    BY <2>0, <2>1, WithinKept DEF PlacesOK, Within, Stays
  <2>5. ModesOK' /\ FirstCreate'
    BY <1>0, <2>0 DEF PlacesOK, ModesOK, FirstCreate, Stays
  <2>6. NICThere(cur, sv) => NICThere(cur, sv)'
    <3>1. sv \in Nat
      BY DEF IInv, TypeOK
    <3>2. \A n \in nics : n.ver = sv => n \in nics'
      BY <2>0, <3>1 DEF Mark
    <3>. QED  BY <2>0, <3>2 DEF NICThere, Stays
  <2>7. SinglesOK'
    <3>1. \A i \in Idx : (OneServer(i) => OneServer(i)') /\ (OneNIC(i) => OneNIC(i)')
      BY <2>1, <2>3, FromSingle
    <3>. QED  BY <1>0, <2>0, <2>6, <3>1 DEF PlacesOK, SinglesOK, Stays, Idx
  <2>8. OneReplacement'
    BY <2>1, <2>3, SurplusKept DEF PlacesOK
  <2>9. LaterCreate'
    <3>1. NewServerThere' /\ NewVolumeThere'
      BY <1>0, <2>0 DEF IInv, UpdateOK, Deletes, Stays
    <3>2. ASSUME NEW i \in Idx, i < cr.replicas, i # cur PROVE Placed(i)'
      <4>1. /\ \A s \in servers : s.idx # cur => s \in servers'
            /\ \A v \in volumes : v.idx # cur => v \in volumes'
            /\ \A n \in nics : n.idx # cur => n \in nics'
        BY <2>0 DEF Mark
      <4>2. Placed(i)
        BY <1>0, <3>2 DEF PlacesOK, LaterCreate
      <4>3. \A n : Pair(i, n) => Pair(i, n)'
        BY <3>2, <4>1 DEF Pair, NICThere
      <4>4. HasVolume(i) => HasVolume(i)'
        BY <3>2, <4>1 DEF HasVolume
      <4>. QED  BY <4>2, <4>3, <4>4, SomePair DEF Placed
    <3>3. ASSUME NEW i \in Idx, i = cur, i < cr.replicas PROVE Placed(i)'
      <4>1. HasVolume(i)'
        BY <2>0, <3>1, <3>3 DEF NewVolumeThere, HasVolume, Stays
      <4>2. \E n : Pair(i, n)'
        <5>1. CASE mode = "bootVolume"
          <6>1. UNCHANGED <<servers, nics>>
            BY <1>0, <2>0, <5>1 DEF IInv, ControlOK, Deletes
          <6>2. Placed(i)
            BY <1>0, <3>3 DEF PlacesOK, LaterCreate
          <6>. QED  BY <6>1, <6>2, SomePair DEF Placed, Pair, NICThere
        <5>2. CASE mode = "all"
          <6>1. NICThere(cur, sv)'
            BY <1>0, <2>6, <5>2 DEF PlacesOK, SinglesOK, Deletes
          <6>2. PICK n : n = sv
            OBVIOUS
          <6>3. Pair(i, n)'
            BY <2>0, <3>1, <3>3, <6>1, <6>2 DEF Pair, NICThere, NewServerThere, Stays
          <6>. QED  BY <6>3
        <5>. QED  BY <1>0, <5>1, <5>2
      <4>. QED  BY <4>1, <4>2, SomePair DEF Placed
    <3>. QED  BY <1>0, <2>0, <3>2, <3>3 DEF LaterCreate, Stays, Idx
  <2>. QED  BY <2>3, <2>4, <2>5, <2>7, <2>8, <2>9 DEF PlacesOK
<1>. QED  BY <1>1, <1>2

LEMMA WaitDestroyedPlaces ==
  ASSUME IInv, IInv', PlacesOK, WaitDestroyed
  PROVE  PlacesOK'
<1>0. /\ pc \in Deletes /\ mode \in {"bootVolume", "all"}
      /\ UNCHANGED <<servers, volumes, nics>> /\ Stays /\ pc' = After[mode][pc]
  BY DEF WaitDestroyed, IInv, ControlOK, Deletes, objects, cluster, Stays, Proceed, Goto
<1>1. pc' \in {"deleteServer", "deleteNIC", "finish"}
  BY <1>0, AfterBootVolume, AfterAll DEF IInv, ControlOK, Deletes
<1>. QED
  BY <1>0, <1>1, SameFromLast, NICsUnchanged, ForwardPlaces DEF PlacesOK, Stays, Deletes

LEMMA WaitRejectedPlaces ==
  ASSUME IInv, IInv', PlacesOK, WaitRejected
  PROVE  PlacesOK'
<1>1. Stays /\ pc' = pc
  BY DEF WaitRejected, cluster, Stays
<1>2. \A m, n \in nics' : m.idx = n.idx /\ m.ver = n.ver => m = n
  BY MarkLists, NICsUnchanged DEF WaitRejected, IInv, PlacesOK
<1>3. /\ ServersFrom /\ ServersLast /\ VolumesFrom /\ VolumesLast /\ NICsFrom /\ NICsLast
  BY WaitRejectedFrom DEF PlacesOK
<1>. QED
  BY <1>1, <1>2, <1>3, ForwardPlaces DEF Stays

LEMMA SettlePlaces ==
  ASSUME IInv, IInv', PlacesOK, Settle
  PROVE  PlacesOK'
<1>1. UNCHANGED <<worker, cluster>>
  BY DEF Settle, ServerSettles, VolumeSettles, NICSettles, Removed
<1>2. \A m, n \in nics' : m.idx = n.idx /\ m.ver = n.ver => m = n
  BY SettleLists DEF IInv, PlacesOK
<1>3. /\ ServersFrom /\ ServersLast /\ VolumesFrom /\ VolumesLast /\ NICsFrom /\ NICsLast
  BY SettleFrom DEF IInv
<1>. QED
  BY <1>1, <1>2, <1>3, ForwardPlaces DEF worker, cluster

LEMMA OutsidePlaces ==
  ASSUME ~Scale, IInv', PlacesOK,
         ObserveUpToDate \/ RemovePending \/ Edit \/ Elect \/ UNCHANGED vars
  PROVE  PlacesOK'
<1>1. UNCHANGED <<servers, volumes, nics, worker, extName>>
  BY DEF ObserveUpToDate, RemovePending, Edit, Elect, vars, objects, cluster
<1>2. template'.replicas = template.replicas
  BY DEF ObserveUpToDate, RemovePending, Edit, Elect, vars, cluster
<1>. QED
  BY <1>1, <1>2, SameFromLast, NICsUnchanged, ForwardPlaces DEF PlacesOK, worker

LEMMA PlacesStep ==
  ASSUME ~Scale, IInv, IInv', VolumesOK, VolumesOK', PlacesOK, [Next]_vars
  PROVE  PlacesOK'
<1>1. CASE ObserveMissing \/ ObserveOutdated \/ GetVersions \/ NextReplica
  BY <1>1, ObserveMissingPlaces, ObserveOutdatedPlaces, GetVersionsPlaces, NextReplicaPlaces
<1>2. CASE EnsureServer \/ EnsureVolume \/ EnsureNIC \/ WaitAvailable \/ Attach
  BY <1>2, EnsureServerPlaces, EnsureVolumePlaces, EnsureNICPlaces, WaitAvailablePlaces,
     AttachPlaces
<1>3. CASE UpdateServer \/ WaitUpdated \/ ServersDone \/ UpdateVolume \/ UpdateMaster
  BY <1>3, UpdateServerPlaces, LoopStepPlaces, UpdateVolumePlaces, UpdateMasterPlaces
<1>4. CASE Destroy \/ WaitDestroyed \/ WaitRejected \/ Settle
  BY <1>4, DestroyPlaces, WaitDestroyedPlaces, WaitRejectedPlaces, SettlePlaces
<1>5. CASE Discarded \/ VolumesDone \/ Finish \/ Fail \/ Crash
  <2>1. Return /\ UNCHANGED <<servers, volumes, nics, extName, template>>
    BY <1>5 DEF Discarded, VolumesDone, Finish, Fail, Crash, ReturnError, objects, cluster
  <2>. QED  BY <2>1, LeavingPlaces
<1>6. CASE ObserveUpToDate \/ RemovePending \/ Edit \/ Elect \/ UNCHANGED vars
  BY <1>6, OutsidePlaces
<1>. QED
  BY <1>1, <1>2, <1>3, <1>4, <1>5, <1>6 DEF Next, Reconcile

\* The invariants together.
LEMMA PlacesInvariant == ASSUME ~Scale PROVE Spec => [](IInv /\ VolumesOK /\ PlacesOK)
<1>1. IInv /\ VolumesOK /\ PlacesOK /\ [Next]_vars => VolumesOK' /\ PlacesOK'
  BY IInvStep, VolumesOKStep, PlacesStep
<1>. QED
  BY <1>1, Invariant, VolumesOKInit, PlacesInit, PTL DEF Spec

-----------------------------------------------------------------------------
(* The number of volumes: the inductive invariant of ExistsIsExact.          *)

\* What is shown of a state by now.
Shown == IInv /\ VolumesOK /\ PlacesOK

Replacing == mode \in {"bootVolume", "all"}
Early == pc \in {"server", "volume", "attach", "nic", "deleteVolume"}
Late == pc \in {"deleteServer", "deleteNIC", "finish"}
Discarding == pc = "volume" /\ phase = "discard"

\* No volume begins or ceases to be deleted.
VolumesLive ==
  /\ \A v \in volumes : v.status # "DELETING" =>
       \E w \in volumes' : w.idx = v.idx /\ w.ver = v.ver /\ w.status # "DELETING"
  /\ \A w \in volumes' : w.status = "DELETING" =>
       \E v \in volumes : v.idx = w.idx /\ v.ver = w.ver /\ v.status = "DELETING"

\* What a step does that is not a cut.
Counted == HalfWay' /\ (Attended => Attended') /\ (Compact => Compact')

LEMMA SameLive == UNCHANGED volumes => VolumesLive
BY DEF VolumesLive

LEMMA LivesLast ==
  ASSUME VolumesLive, NEW i, Lives(i)
  PROVE  Lives(i)'
BY DEF VolumesLive, Lives, Live

LEMMA TwoServersLast ==
  ASSUME Shown, ServersLast, NEW i, TwoServers(i)
  PROVE  TwoServers(i)'
<1>1. PICK s \in servers, t \in servers :
        s # t /\ s.idx = i /\ t.idx = i /\ Established(s) /\ Established(t)
  BY DEF TwoServers
<1>2. s.ver # t.ver
  BY <1>1 DEF Shown, IInv, UniqueNames
<1>. QED
  BY <1>1, <1>2 DEF ServersLast, TwoServers

\* While a strategy works, the other replicas have one volume each.
LEMMA CompactStrategy == ASSUME Shown', Replacing' PROVE Compact'
BY DEF Shown, VolumesOK, Replacing, Compact

LEMMA CompactKept ==
  ASSUME Shown, Shown', Compact, ~Replacing, VolumesFrom, ServersLast
  PROVE  Compact'
<1>1. \A i \in Idx : OneVolume(i) => OneVolume(i)'
  BY FromSingle DEF Shown, PlacesOK
<1>2. \A i \in Idx : TwoServers(i) => TwoServers(i)'
  BY TwoServersLast
<1>. QED
  BY <1>1, <1>2 DEF Compact, Replacing, Idx

\* A step within Create, a loop or a strategy, and one of the environment.
LEMMA ForwardCounts ==
  ASSUME Shown, Shown', HalfWay, VolumesFrom, VolumesLive, ServersLast,
         UNCHANGED <<mode, extName, cr>>,
         mode # "update" => cur' = cur,
         Replacing => UNCHANGED <<vv, sv>>,
         Discarding => UNCHANGED <<pc, phase>>,
         Attended /\ ~extName /\ mode = "create" /\ pc' \in {"attach", "next"} =>
           pc \in {"attach", "next"} \/ Lives(cur)',
         Attended /\ extName /\ mode = "create" /\ pc' = "volume" => phase' = "do",
         Replacing /\ pc' \in {"server", "volume"} => pc \in {"server", "volume"},
         mode = "all" /\ Early' => Early,
         Replacing /\ Late' => Late \/ OneVolume(cur)'
  PROVE  Counted
<1>0. mode = "update" => extName
  BY DEF Shown, PlacesOK, ModesOK
<1>1. HalfWay'
  <2>1. ASSUME mode' = "all", Early'
        PROVE  \E s \in servers' : s.idx = cur' /\ s.ver = sv' - 1 /\ Established(s)
    <3>1. mode = "all" /\ Early /\ cur' = cur /\ sv' = sv
      BY <2>1 DEF Replacing
    <3>2. \E s \in servers : s.idx = cur /\ s.ver = sv - 1 /\ Established(s)
      BY <3>1 DEF HalfWay, Early
    <3>. QED  BY <3>1, <3>2 DEF ServersLast
  <2>2. ASSUME Replacing', Late'
        PROVE  OneVolume(cur)'
    <3>1. Replacing /\ cur' = cur
      BY <2>2 DEF Replacing
    <3>2. Late => OneVolume(cur)
      BY <3>1 DEF HalfWay, Late, Replacing
    <3>3. OneVolume(cur) => OneVolume(cur)'
      BY <3>1, FromSingle DEF Shown, PlacesOK
    <3>. QED  BY <2>2, <3>1, <3>2, <3>3
  <2>. QED  BY <2>1, <2>2 DEF HalfWay, Early, Late, Replacing
<1>2. ASSUME Attended PROVE Attended'
  <2>1. \A i : Lives(i) => Lives(i)'
    BY LivesLast
  <2>2. ASSUME extName'
        PROVE  /\ \A i \in Idx : i < cr'.replicas => Lives(i)'
               /\ mode' = "create" /\ pc' = "volume" => phase' = "do"
    BY <1>2, <2>1, <2>2 DEF Attended
  <2>3. ASSUME ~extName', NEW w \in volumes', w.status = "DELETING"
        PROVE  Discarding' /\ w.idx = cur'
    <3>1. PICK v \in volumes : v.idx = w.idx /\ v.status = "DELETING"
      BY <2>3 DEF VolumesLive
    <3>2. Discarding /\ v.idx = cur
      BY <1>2, <2>3, <3>1 DEF Attended, Discarding
    <3>. QED  BY <1>0, <2>3, <3>1, <3>2 DEF Discarding
  <2>4. ASSUME ~extName', mode' = "create"
        PROVE  /\ \A i \in Idx : i < cur' => Lives(i)'
               /\ pc' \in {"attach", "next"} => Lives(cur)'
    <3>1. cur' = cur
      BY <2>4
    <3>2. /\ \A i \in Idx : i < cur => Lives(i)
          /\ pc \in {"attach", "next"} => Lives(cur)
      BY <1>2, <2>4 DEF Attended
    <3>3. Lives(cur) => Lives(cur)'
      BY <3>1, LivesLast DEF Lives
    <3>. QED  BY <1>2, <2>1, <2>4, <3>1, <3>2, <3>3
  <2>5. ASSUME Replacing', pc' \in {"server", "volume"}
        PROVE  \E w \in Live(volumes)' : w.idx = cur' /\ w.ver = vv' - 1
    <3>1. Replacing /\ cur' = cur /\ vv' = vv
      BY <2>5 DEF Replacing
    <3>2. \E v \in Live(volumes) : v.idx = cur /\ v.ver = vv - 1
      BY <1>2, <2>5, <3>1 DEF Attended, Replacing
    <3>. QED  BY <3>1, <3>2 DEF VolumesLive, Live
  <2>. QED  BY <2>2, <2>3, <2>4, <2>5 DEF Attended, Discarding, Replacing, Live
<1>3. ASSUME Compact PROVE Compact'
  <2>1. CASE Replacing
    BY <2>1, CompactStrategy DEF Replacing
  <2>2. CASE ~Replacing
    BY <1>3, <2>2, CompactKept
  <2>. QED  BY <2>1, <2>2
<1>. QED  BY <1>1, <1>2, <1>3 DEF Counted

LEMMA SameWorkerCounts ==
  ASSUME Shown, Shown', HalfWay, VolumesFrom, VolumesLive, ServersLast,
         UNCHANGED <<pc, phase, mode, extName, cr, cur, vv, sv>>
  PROVE  Counted
<1>1. Attended /\ extName /\ mode = "create" /\ pc = "volume" => phase = "do"
  BY DEF Attended
<1>. QED  BY <1>1, ForwardCounts DEF Early, Late

LEMMA LeavingAttended ==
  ASSUME Shown, Return, UNCHANGED <<volumes, extName>>, Attended,
         extName \/ ~Discarding \/ \A v \in volumes : v.status # "DELETING"
  PROVE  Attended'
<1>1. mode' = "none" /\ cr' = cr
  BY DEF Return
<1>2. \A i : Lives(i) => Lives(i)'
  BY SameLive, LivesLast
<1>3. ~extName => \A v \in volumes : v.status # "DELETING"
  BY DEF Attended, Discarding
<1>. QED  BY <1>1, <1>2, <1>3 DEF Attended

\* A reconcile that ends without a cut.
LEMMA LeavingCounts ==
  ASSUME Shown, Shown', Return, UNCHANGED <<servers, volumes, extName>>,
         Attended => extName \/ ~Discarding \/ \A v \in volumes : v.status # "DELETING",
         Replacing => OneVolume(cur) \/ TwoServers(cur)
  PROVE  Counted
<1>0. mode' = "none" /\ pc' = "idle" /\ cr' = cr
  BY DEF Return
<1>1. HalfWay'
  BY <1>0 DEF HalfWay
<1>2. Attended => Attended'
  BY LeavingAttended
<1>3. ASSUME Compact PROVE Compact'
  <2>1. CASE Replacing
    <3>1. \A i \in Idx : OneVolume(i) \/ TwoServers(i)
      BY <2>1 DEF Shown, VolumesOK, Replacing
    <3>2. \A i : (OneVolume(i) => OneVolume(i)') /\ (TwoServers(i) => TwoServers(i)')
      BY DEF OneVolume, TwoServers
    <3>. QED  BY <3>1, <3>2 DEF Compact, Idx
  <2>2. CASE ~Replacing
    BY <1>3, <2>2, SameFromLast, CompactKept
  <2>. QED  BY <2>1, <2>2
<1>. QED  BY <1>1, <1>2, <1>3 DEF Counted

-----------------------------------------------------------------------------
(* The steps of the worker.                                                  *)

LEMMA ModeFacts ==
  ASSUME Shown
  PROVE  /\ mode = "update" => extName
         /\ Replacing => extName
         /\ pc = "idle" => cur = 0
BY DEF Shown, PlacesOK, ModesOK, Replacing

LEMMA ObserveCounts ==
  ASSUME ~Scale, Shown, Shown', HalfWay, ObserveMissing \/ ObserveOutdated
  PROVE  Counted
<1>1. /\ UNCHANGED <<servers, volumes, extName, cur, vv, sv>>
      /\ pc = "idle" /\ pc' \in {"versions", "servers"} /\ mode' \in {"create", "update"}
      /\ cr' = template
  BY DEF ObserveMissing, ObserveOutdated, Goto, objects, cluster
<1>2. HalfWay'
  BY <1>1 DEF HalfWay
<1>3. ASSUME Attended PROVE Attended'
  <2>1. cr'.replicas = cr.replicas
    BY <1>1 DEF Shown, PlacesOK, Within
  <2>2. \A i : Lives(i) => Lives(i)'
    BY <1>1, SameLive, LivesLast
  <2>3. cur' = 0 /\ ~ \E i \in Idx : i < 0
    BY <1>1, ModeFacts, IdxFacts
  <2>4. ~extName => \A v \in volumes : v.status # "DELETING"
    BY <1>1, <1>3 DEF Attended
  <2>. QED  BY <1>1, <1>3, <2>1, <2>2, <2>3, <2>4 DEF Attended
<1>4. ASSUME Compact PROVE Compact'
  <2>1. ~Replacing
    BY <1>1 DEF Shown, Replacing, PlacesOK, ModesOK
  <2>. QED  BY <1>1, <1>4, <2>1, SameFromLast, CompactKept
<1>. QED  BY <1>2, <1>3, <1>4 DEF Counted

LEMMA GetVersionsCounts ==
  ASSUME Shown, Shown', HalfWay, GetVersions
  PROVE  Counted
<1>0. /\ pc = "versions" /\ mode = "create" /\ UNCHANGED <<servers, volumes, nics>>
  BY DEF GetVersions, Shown, IInv, ControlOK, objects
<1>1. CASE ReturnError
  BY <1>0, <1>1, LeavingCounts DEF ReturnError, Replacing, Discarding
<1>2. CASE pc' = "server" /\ UNCHANGED <<mode, extName, cr, cur>>
  BY <1>0, <1>2, SameFromLast, SameLive, ForwardCounts DEF Replacing, Discarding
<1>. QED  BY <1>1, <1>2 DEF GetVersions, Goto, cluster

LEMMA NextReplicaCounts ==
  ASSUME Shown, Shown', HalfWay, NextReplica
  PROVE  Counted
<1>0. /\ pc = "next" /\ mode = "create" /\ UNCHANGED <<servers, volumes, cr>>
      /\ mode' \in {"create", "none"} /\ pc' \in {"versions", "idle"}
  BY DEF NextReplica, Goto, Return, Shown, IInv, ControlOK, objects
<1>1. HalfWay'
  BY <1>0 DEF HalfWay
<1>2. ASSUME Attended PROVE Attended'
  <2>1. \A i : Lives(i) => Lives(i)'
    BY <1>0, SameLive, LivesLast
  <2>2. Idx \subseteq Nat /\ cur \in Nat /\ cr.replicas \in Nat
    BY IdxFacts, ReplicasType DEF Shown, IInv, TypeOK
  <2>3. ~extName => \A i \in Idx : i < cur + 1 => Lives(i)
    BY <1>0, <1>2, <2>2 DEF Attended
  <2>4. ~extName => \A v \in volumes' : v.status # "DELETING"
    BY <1>0, <1>2 DEF Attended
  <2>5. CASE cur + 1 < cr.replicas
    <3>1. cur' = cur + 1 /\ UNCHANGED <<mode, extName>> /\ pc' = "versions"
      BY <2>5 DEF NextReplica, Goto, cluster
    <3>. QED  BY <1>0, <1>2, <2>1, <2>3, <2>4, <3>1 DEF Attended
  <2>6. CASE ~(cur + 1 < cr.replicas)
    <3>1. extName' /\ mode' = "none"
      BY <2>6 DEF NextReplica, Return
    <3>2. \A i \in Idx : i < cr.replicas => Lives(i)
      BY <1>2, <2>2, <2>3, <2>6 DEF Attended
    <3>. QED  BY <1>0, <2>1, <3>1, <3>2 DEF Attended
  <2>. QED  BY <2>5, <2>6
<1>3. ASSUME Compact PROVE Compact'
  BY <1>0, <1>3, SameFromLast, CompactKept DEF Replacing
<1>. QED  BY <1>1, <1>2, <1>3 DEF Counted

LEMMA EnsureServerCounts ==
  ASSUME Shown, Shown', HalfWay, EnsureServer
  PROVE  Counted
<1>0. /\ pc = "server" /\ phase = "do" /\ mode \in {"create", "all"}
      /\ UNCHANGED <<volumes, nics>> /\ VolumesFrom /\ VolumesLive /\ ServersLast
  BY EnsureServerFrom, SameFromLast, SameLive DEF EnsureServer, Shown, IInv, ControlOK
<1>1. CASE ReturnError /\ UNCHANGED servers /\ mode = "create"
  BY <1>0, <1>1, LeavingCounts DEF ReturnError, Replacing, Discarding
<1>2. CASE pc' = pc /\ UNCHANGED <<mode, extName, cr, cur, vv>> /\ (mode = "all" => sv' = sv)
  BY <1>0, <1>2, ForwardCounts DEF Replacing, Discarding, Early, Late
<1>3. CASE Proceed /\ UNCHANGED <<mode, extName, cr, cur, vv, sv>>
  <2>1. pc' = IF mode = "create" THEN "nic" ELSE "volume"
    BY <1>0, <1>3, AfterCreate, AfterAll DEF Proceed, Goto
  <2>. QED  BY <1>0, <1>3, <2>1, ForwardCounts DEF Replacing, Discarding, Early, Late
<1>. QED
  BY <1>1, <1>2, <1>3 DEF EnsureServer, Await, cluster

LEMMA EnsureVolumeCounts ==
  ASSUME Shown, Shown', HalfWay, EnsureVolume
  PROVE  Counted
<1>0. /\ pc = "volume" /\ phase = "do" /\ mode \in {"create", "bootVolume", "all"}
      /\ UNCHANGED <<servers, nics>> /\ ServersLast /\ ~Discarding /\ ~Late
  BY SameFromLast DEF EnsureVolume, Shown, IInv, ControlOK, Discarding, Late
<1>1. CASE ReturnError /\ UNCHANGED volumes /\ mode = "create"
  BY <1>0, <1>1, LeavingCounts DEF ReturnError, Replacing
<1>2. CASE /\ Ensured(volumes, vv) = {} /\ Stays /\ pc' = pc /\ phase' = "wait"
           /\ volumes' = volumes \cup {[idx |-> cur, ver |-> vv, image |-> cr.image,
                                        size |-> cr.size, status |-> "PENDING"]}
  <2>1. VolumesLive
    BY <1>2 DEF VolumesLive
  <2>2. HalfWay'
    BY <1>0, <1>2 DEF HalfWay, Stays
  <2>3. ASSUME Attended PROVE Attended'
    <3>1. \A i : Lives(i) => Lives(i)'
      BY <2>1, LivesLast
    <3>2. mode = "create" => ~Lives(cur)
      BY <1>2 DEF Ensured, Of, Lives, Live
    <3>3. mode = "create" => ~extName
      BY <2>3, <3>2 DEF Attended, Shown, IInv, TypeOK, PlacesOK, Within
    <3>4. ~extName => \A w \in volumes' : w.status # "DELETING"
      BY <1>0, <1>2, <2>3 DEF Attended
    <3>5. ~extName /\ mode = "create" => \A i \in Idx : i < cur => Lives(i)'
      BY <2>3, <3>1 DEF Attended
    <3>6. extName => \A i \in Idx : i < cr.replicas => Lives(i)'
      BY <2>3, <3>1 DEF Attended
    <3>7. Replacing => \E w \in Live(volumes)' : w.idx = cur /\ w.ver = vv - 1
      BY <1>0, <1>2, <2>3 DEF Attended, Replacing, Live
    <3>. QED
      BY <1>0, <1>2, <3>3, <3>4, <3>5, <3>6, <3>7 DEF Attended, Stays, Replacing
  <2>4. ASSUME Compact PROVE Compact'
    <3>1. CASE mode = "create"
      <4>1. \A v \in volumes : v.idx # cur
        BY <1>2, <3>1 DEF Ensured, Of
      <4>2. \A i \in Idx : OneVolume(i) => OneVolume(i)'
        BY <1>2, <4>1 DEF OneVolume
      <4>3. \A i \in Idx : TwoServers(i) => TwoServers(i)'
        BY <1>0 DEF TwoServers
      <4>. QED  BY <2>4, <3>1, <4>2, <4>3 DEF Compact, Idx
    <3>2. CASE Replacing
      BY <1>2, <3>2, CompactStrategy DEF Replacing, Stays
    <3>. QED  BY <1>0, <3>1, <3>2 DEF Replacing
  <2>. QED  BY <2>2, <2>3, <2>4 DEF Counted
<1>3. CASE Ensured(volumes, vv) # {} /\ Proceed /\ Stays /\ UNCHANGED volumes
  <2>1. pc' = "attach"
    BY <1>0, <1>3, AfterCreate, AfterBootVolume, AfterAll DEF Proceed, Goto
  <2>2. Attended /\ ~extName /\ mode = "create" => Lives(cur)'
    BY <1>0, <1>3 DEF Attended, Ensured, Of, Lives, Live, Stays
  <2>. QED
    BY <1>0, <1>3, <2>1, <2>2, SameFromLast, SameLive, ForwardCounts
    DEF Stays, Early, Late, Replacing
<1>. QED
  BY <1>1, <1>2, <1>3 DEF EnsureVolume, Await, cluster, Stays

\* The replica of a strategy that has made its new server and not yet destroyed the
\* old one.
LEMMA BothServers ==
  ASSUME Shown, HalfWay, mode = "all", Early, pc # "server"
  PROVE  TwoServers(cur)
<1>1. PICK s \in servers : s.idx = cur /\ s.ver = sv - 1 /\ Established(s)
  BY DEF HalfWay, Early
<1>2. PICK t \in servers : t.idx = cur /\ t.ver = sv /\ Established(t)
  BY DEF Shown, IInv, UpdateOK, NewServerThere
<1>3. sv \in Nat
  BY DEF Shown, IInv, TypeOK
<1>. QED  BY <1>1, <1>2, <1>3 DEF TwoServers

\* The old volume of a strategy is gone, or the new one is not there.
LEMMA LeftVolume ==
  ASSUME Shown, Replacing,
         At(volumes, cur, vv) = {} \/ At(volumes, cur, vv - 1) = {} \/ pc = "server"
  PROVE  OneVolume(cur)
<1>1. \A v \in volumes : v.idx = cur => v.ver \in {vv - 1, vv}
  BY DEF Shown, IInv, UpdateOK, Replacing, Of
<1>2. pc = "server" => \A v \in volumes : v.idx = cur => v.ver = vv - 1
  BY DEF Shown, IInv, UpdateOK, Replacing, Of
<1>3. \E n : \A v \in volumes : v.idx = cur => v.ver = n
  BY <1>1, <1>2 DEF At
<1>. QED  BY <1>3 DEF Shown, IInv, UniqueNames, OneVolume

LEMMA EnsureNICCounts ==
  ASSUME Shown, Shown', HalfWay, EnsureNIC
  PROVE  Counted
<1>0. /\ pc = "nic" /\ mode \in {"create", "all"} /\ UNCHANGED <<servers, volumes>>
      /\ ~Discarding /\ Early /\ ~Late
      /\ VolumesFrom /\ VolumesLive /\ ServersLast
  BY SameFromLast, SameLive DEF EnsureNIC, Shown, IInv, ControlOK, Discarding, Early, Late
<1>1. CASE ReturnError
  <2>1. Replacing => TwoServers(cur)
    BY <1>0, BothServers DEF Replacing
  <2>. QED  BY <1>0, <1>1, <2>1, LeavingCounts DEF ReturnError
<1>2. CASE pc' = pc /\ Stays
  BY <1>0, <1>2, ForwardCounts DEF Stays, Late
<1>3. CASE Proceed /\ Stays
  <2>1. /\ pc' = IF mode = "create" THEN "volume" ELSE "deleteVolume"
        /\ phase' = "do"
    BY <1>0, <1>3, AfterCreate, AfterAll DEF Proceed, Goto
  <2>. QED  BY <1>0, <1>3, <2>1, ForwardCounts DEF Stays, Replacing, Late
<1>. QED  BY <1>1, <1>2, <1>3 DEF EnsureNIC, Await, cluster, Stays

LEMMA WaitAvailableCounts ==
  ASSUME Shown, Shown', HalfWay, WaitAvailable
  PROVE  Counted
<1>0. /\ pc \in {"server", "volume", "nic"} /\ phase = "wait"
      /\ mode \in {"create", "bootVolume", "all"}
      /\ UNCHANGED <<servers, volumes>> /\ Stays /\ pc' = After[mode][pc] /\ phase' = "do"
      /\ \E o \in Awaited : o.status = "AVAILABLE"
      /\ VolumesFrom /\ VolumesLive /\ ServersLast /\ Early /\ ~Late /\ ~Discarding
  BY SameFromLast, SameLive
  DEF WaitAvailable, Shown, IInv, ControlOK, Creates, objects, cluster, Stays, Proceed, Goto,
      Early, Late, Discarding
<1>1. \/ mode = "create" /\ pc = "server" /\ pc' = "nic"
      \/ mode = "create" /\ pc = "nic" /\ pc' = "volume"
      \/ pc = "volume" /\ pc' = "attach"
      \/ mode = "all" /\ pc = "server" /\ pc' = "volume"
      \/ mode = "all" /\ pc = "nic" /\ pc' = "deleteVolume"
  BY <1>0, AfterCreate, AfterBootVolume, AfterAll DEF Shown, IInv, ControlOK
<1>2. pc = "volume" => Lives(cur)
  BY <1>0 DEF Awaited, At, Lives, Live
<1>3. pc = "volume" => Lives(cur)'
  BY <1>0, <1>2, LivesLast DEF Stays, Lives
<1>. QED
  BY <1>0, <1>1, <1>3, ForwardCounts DEF Stays, Replacing, Late

LEMMA AttachCounts ==
  ASSUME Shown, Shown', HalfWay, Attach
  PROVE  Counted
<1>0. /\ pc = "attach" /\ mode \in {"create", "bootVolume", "all"} /\ UNCHANGED volumes
      /\ VolumesFrom /\ VolumesLive /\ ServersLast /\ ~Discarding /\ Early /\ ~Late
  BY AttachFrom, SameFromLast, SameLive
  DEF Attach, Shown, IInv, ControlOK, Discarding, Early, Late
<1>1. CASE ReturnError /\ UNCHANGED servers /\ (At(volumes, cur, vv) = {} \/ At(servers, cur, sv) = {})
  <2>1. Replacing => At(servers, cur, sv) # {}
    BY <1>0 DEF Shown, IInv, UpdateOK, NewServerThere, At, Replacing
  <2>2. Replacing => OneVolume(cur)
    BY <1>1, <2>1, LeftVolume
  <2>. QED  BY <1>0, <1>1, <2>2, LeavingCounts DEF ReturnError
<1>2. CASE Proceed /\ Stays
  <2>1. /\ mode = "create" => pc' = "next"
        /\ mode = "bootVolume" => pc' = "deleteVolume"
        /\ mode = "all" => pc' = "nic"
    BY <1>0, <1>2, AfterCreate, AfterBootVolume, AfterAll DEF Proceed, Goto
  <2>. QED  BY <1>0, <1>2, <2>1, ForwardCounts DEF Stays, Replacing, Late
<1>. QED  BY <1>1, <1>2 DEF Attach, cluster, Stays

-----------------------------------------------------------------------------
(* The loops of an update count nothing up or down.                          *)

LEMMA LoopCounts ==
  ASSUME Shown, Shown', HalfWay, mode = "update", VolumesFrom, VolumesLive, ServersLast,
         ~Discarding, UNCHANGED <<mode, extName, cr>>
  PROVE  Counted
BY ForwardCounts, ModeFacts DEF Replacing

LEMMA LeavingLoop ==
  ASSUME Shown, Shown', HalfWay, mode = "update", ~Discarding, Return,
         UNCHANGED <<servers, volumes, extName>>
  PROVE  Counted
BY LeavingCounts DEF Replacing

LEMMA UpdateServerCounts ==
  ASSUME Shown, Shown', HalfWay, UpdateServer
  PROVE  Counted
<1>0. pc = "servers" /\ mode = "update" /\ UNCHANGED <<volumes, nics>> /\ ~Discarding
  BY DEF UpdateServer, Shown, IInv, ControlOK, Discarding
<1>1. CASE ReturnError /\ UNCHANGED servers
  BY <1>0, <1>1, LeavingLoop DEF ReturnError
<1>2. CASE UNCHANGED <<mode, extName, cr>>
  BY <1>0, <1>2, UpdateServerFrom, SameFromLast, SameLive, LoopCounts DEF Shown, IInv
<1>. QED  BY <1>1, <1>2 DEF UpdateServer, cluster

LEMMA LoopStepCounts ==
  ASSUME Shown, Shown', HalfWay, WaitUpdated \/ ServersDone
  PROVE  Counted
<1>1. /\ mode = "update" /\ UNCHANGED <<servers, volumes, mode, extName, cr>> /\ ~Discarding
  BY DEF WaitUpdated, ServersDone, objects, cluster, Shown, IInv, ControlOK, Discarding
<1>. QED  BY <1>1, SameFromLast, SameLive, LoopCounts

LEMMA UpdateByIndexCounts ==
  ASSUME Shown, Shown', HalfWay, pc = "volumes", mode = "update",
         UNCHANGED <<servers, volumes, nics>>,
         NEW i \in Idx, i < cr.replicas, UpdateByIndex(i)
  PROVE  Counted
<1>1. CASE ReturnError
  BY <1>1, LeavingLoop DEF ReturnError, Discarding
<1>2. CASE ~ReturnError
  <2>0. PICK v \in Of(volumes, i), s \in Of(servers, i) :
          /\ vv' = v.ver + 1
          /\ sv' = IF cr.strategy = "createAllBeforeDestroy" THEN s.ver + 1 ELSE s.ver
    BY <1>2 DEF UpdateByIndex
  <2>1. /\ Replacing' /\ cur' = i /\ UNCHANGED <<extName, cr>>
        /\ pc' \in {"server", "volume"}
        /\ mode' = "all" <=> cr.strategy = "createAllBeforeDestroy"
        /\ ~TooMany(Of(servers, i)) /\ ~TooMany(Of(volumes, i))
    BY <1>2 DEF UpdateByIndex, Goto, cluster, Replacing
  <2>2. s.ver \in Nat /\ v.ver \in Nat /\ v \in volumes /\ v.idx = i /\ s.idx = i
    BY DEF Shown, IInv, TypeOK, Server, Volume, Of
  <2>3. Established(s)
    BY <2>1, <2>2 DEF Shown, IInv, VolumeHasServer, TooMany, Of
  <2>4. HalfWay'
    BY <2>0, <2>1, <2>2, <2>3 DEF HalfWay, Of
  <2>5. ASSUME Attended PROVE Attended'
    <3>1. extName
      BY ModeFacts
    <3>2. \A j : Lives(j) => Lives(j)'
      BY SameLive, LivesLast
    <3>3. v \in Live(volumes)
      BY <2>1, <2>2, <2>5, <3>1 DEF Attended, Lives, Live, TooMany, Of
    <3>. QED  BY <2>0, <2>1, <2>2, <2>5, <3>1, <3>2, <3>3 DEF Attended, Replacing, Live
  <2>6. Compact'
    BY <2>1, CompactStrategy
  <2>. QED  BY <2>4, <2>5, <2>6 DEF Counted
<1>. QED  BY <1>1, <1>2

LEMMA UpdateVolumeLive ==
  ASSUME TypeOK, UpdateVolume
  PROVE  VolumesLive
<1>1. CASE UNCHANGED volumes
  BY <1>1, SameLive
<1>2. ASSUME NEW v \in volumes,
             volumes' = (volumes \ {v}) \cup {[v EXCEPT !.size = cr.size, !.status = Changed(@)]}
      PROVE  VolumesLive
  <2>. DEFINE w == [v EXCEPT !.size = cr.size, !.status = Changed(@)]
  <2>1. w.idx = v.idx /\ w.ver = v.ver /\ w.status = Changed(v.status)
    BY DEF TypeOK, Volume
  <2>2. volumes' = (volumes \ {v}) \cup {w}
    BY <1>2
  <2>. HIDE DEF w
  <2>. QED  BY <2>1, <2>2, ChangedLive DEF VolumesLive
<1>. QED  BY <1>1, <1>2 DEF UpdateVolume, At

LEMMA UpdateVolumeCounts ==
  ASSUME Shown, Shown', HalfWay, UpdateVolume
  PROVE  Counted
<1>0. pc = "volumes" /\ mode = "update" /\ UNCHANGED <<servers, nics>> /\ ~Discarding
  BY DEF UpdateVolume, Shown, IInv, ControlOK, Discarding
<1>1. CASE ReturnError /\ UNCHANGED volumes
  BY <1>0, <1>1, LeavingLoop DEF ReturnError
<1>2. CASE UNCHANGED volumes /\ \E v \in volumes : UpdateByIndex(v.idx)
  <2>1. \A v \in volumes : v.idx \in Idx /\ v.idx < cr.replicas
    BY DEF Shown, IInv, TypeOK, Volume, PlacesOK, Within
  <2>. QED  BY <1>0, <1>2, <2>1, UpdateByIndexCounts
<1>3. CASE UNCHANGED <<mode, extName, cr>>
  BY <1>0, <1>3, UpdateVolumeFrom, UpdateVolumeLive, SameFromLast, LoopCounts DEF Shown, IInv
<1>. QED  BY <1>1, <1>2, <1>3 DEF UpdateVolume, At, cluster

LEMMA UpdateMasterCounts ==
  ASSUME Shown, Shown', HalfWay, UpdateMaster
  PROVE  Counted
<1>1. master \in Idx /\ master < cr.replicas /\ mode = "update" /\ pc = "volumes"
  BY DEF UpdateMaster, Shown, IInv, TypeOK, Volume, PlacesOK, Within, ControlOK
<1>. QED
  BY <1>1, UpdateByIndexCounts DEF UpdateMaster, objects

-----------------------------------------------------------------------------
(* Objects are destroyed, rejected and discarded.                            *)

LEMMA DestroyCounts ==
  ASSUME Shown, Shown', HalfWay, Destroy
  PROVE  Counted
<1>0. pc \in Deletes /\ Replacing /\ extName /\ ~Discarding
  BY DEF Destroy, Deletes, Shown, IInv, ControlOK, PlacesOK, ModesOK, Replacing, Discarding
<1>1. CASE ReturnError /\ UNCHANGED objects /\ Awaited = {}
  <2>1. pc = "deleteVolume" => OneVolume(cur)
    BY <1>0, <1>1, LeftVolume DEF Awaited
  <2>2. OneVolume(cur)
    BY <1>0, <2>1 DEF HalfWay, Deletes, Replacing
  <2>. QED  BY <1>0, <1>1, <2>2, LeavingCounts DEF ReturnError, objects
<1>2. CASE ~(ReturnError /\ UNCHANGED objects /\ Awaited = {})
  <2>0. /\ Stays /\ pc' = pc
        /\ volumes' = IF pc = "deleteVolume"
                      THEN Mark(volumes, cur, vv - 1, "DELETING") ELSE volumes
        /\ pc # "deleteServer" => UNCHANGED servers
    BY <1>2 DEF Destroy, Await, cluster, Stays
  <2>1. VolumesFrom
    BY <2>0, MarkFrom, SameFromLast DEF Shown, IInv
  <2>2. HalfWay'
    <3>1. OneVolume(cur) => OneVolume(cur)'
      BY <2>0, <2>1, FromSingle DEF Shown, PlacesOK, Stays
    <3>. QED  BY <1>0, <2>0, <3>1 DEF HalfWay, Deletes, Stays
  <2>3. ASSUME Attended PROVE Attended'
    <3>1. NewVolumeThere'
      BY <1>0, <2>0 DEF Shown, IInv, UpdateOK, Deletes, Stays, Replacing
    <3>2. Lives(cur)'
      BY <2>0, <3>1 DEF NewVolumeThere, Established, Lives, Live, Stays
    <3>3. \A v \in volumes : v.idx # cur => v \in volumes'
      BY <2>0 DEF Mark
    <3>4. \A i \in Idx \ {cur} : Lives(i) => Lives(i)'
      BY <3>3 DEF Lives, Live
    <3>5. \A i \in Idx : i < cr.replicas => Lives(i)'
      BY <1>0, <2>0, <2>3, <3>2, <3>4 DEF Attended, Lives, Live, Stays
    <3>. QED
      BY <1>0, <2>0, <3>5 DEF Attended, Stays, Deletes, Replacing, Idx
  <2>4. Compact'
    BY <1>0, <2>0, CompactStrategy DEF Stays, Replacing
  <2>. QED  BY <2>2, <2>3, <2>4 DEF Counted
<1>. QED  BY <1>1, <1>2

LEMMA WaitDestroyedCounts ==
  ASSUME Shown, Shown', HalfWay, WaitDestroyed
  PROVE  Counted
<1>0. /\ pc \in Deletes /\ Replacing /\ Stays /\ pc' = After[mode][pc] /\ Awaited = {}
      /\ UNCHANGED <<servers, volumes>> /\ ~Discarding
      /\ VolumesFrom /\ VolumesLive /\ ServersLast
  BY SameFromLast, SameLive
  DEF WaitDestroyed, Shown, IInv, ControlOK, Deletes, objects, cluster, Stays, Proceed, Goto,
      Replacing, Discarding
<1>1. pc' \in {"deleteServer", "deleteNIC", "finish"}
  BY <1>0, AfterBootVolume, AfterAll DEF Shown, IInv, ControlOK, Deletes, Replacing
<1>2. pc = "deleteVolume" => OneVolume(cur)
  BY <1>0, LeftVolume DEF Awaited
<1>3. Late \/ OneVolume(cur)'
  BY <1>0, <1>2 DEF Deletes, Late, OneVolume, Stays
<1>. QED  BY <1>0, <1>1, <1>3, ForwardCounts DEF Stays, Early, Replacing

LEMMA EndCounts ==
  ASSUME Shown, Shown', HalfWay, Discarded \/ VolumesDone \/ Finish
  PROVE  Counted
<1>0. Return /\ UNCHANGED <<servers, volumes, extName>>
  BY DEF Discarded, VolumesDone, Finish, ReturnError, objects, cluster
<1>1. CASE Discarded
  <2>1. pc \in Creates /\ Awaited = {}
    BY <1>1 DEF Discarded, Shown, IInv, ControlOK
  <2>2. pc = "volume" => At(volumes, cur, vv) = {}
    BY <2>1 DEF Awaited
  <2>3. Replacing => OneVolume(cur) \/ TwoServers(cur)
    <3>1. Replacing /\ pc \in {"server", "volume"} => OneVolume(cur)
      BY <2>2, LeftVolume
    <3>2. Replacing /\ pc = "nic" => TwoServers(cur)
      BY BothServers DEF Replacing, Shown, IInv, ControlOK, Early
    <3>. QED  BY <2>1, <3>1, <3>2 DEF Creates
  <2>4. Attended /\ ~extName => \A v \in volumes : v.status # "DELETING"
    <3>1. ASSUME Attended, ~extName, NEW v \in volumes, v.status = "DELETING" PROVE FALSE
      <4>1. pc = "volume" /\ v.idx = cur
        BY <3>1 DEF Attended
      <4>2. v.ver = vv
        BY <3>1 DEF Shown, PlacesOK, FirstCreate
      <4>. QED  BY <2>2, <4>1, <4>2 DEF At
    <3>. QED  BY <3>1
  <2>. QED  BY <1>0, <2>3, <2>4, LeavingCounts
<1>2. CASE VolumesDone
  BY <1>0, <1>2, LeavingLoop DEF VolumesDone, Shown, IInv, ControlOK, Discarding
<1>3. CASE Finish
  BY <1>0, <1>3, LeavingCounts DEF Finish, HalfWay, Replacing, Discarding
<1>. QED  BY <1>1, <1>2, <1>3

LEMMA WaitRejectedCounts ==
  ASSUME Shown, Shown', HalfWay, WaitRejected
  PROVE  Counted
<1>0. /\ pc \in Creates /\ phase = "wait" /\ Stays /\ pc' = pc /\ phase' = "discard"
      /\ ~Discarding /\ ~Late
      /\ VolumesFrom /\ ServersLast
  BY WaitRejectedFrom
  DEF WaitRejected, cluster, Stays, Shown, PlacesOK, Discarding, Creates, Late
<1>1. CASE pc # "volume"
  <2>1. VolumesLive
    BY <1>1, SameLive DEF WaitRejected
  <2>. QED  BY <1>0, <1>1, <2>1, ForwardCounts DEF Stays, Early, Late
<1>2. CASE pc = "volume"
  <2>1. /\ volumes' = Mark(volumes, cur, vv, "DELETING") /\ UNCHANGED servers
        /\ mode \in {"create", "bootVolume", "all"}
    BY <1>2 DEF WaitRejected, Shown, IInv, ControlOK
  <2>2. HalfWay'
    BY <1>0, <1>2, <2>1 DEF HalfWay, Stays
  <2>3. Compact => Compact'
    BY <1>0, CompactKept, CompactStrategy DEF Stays, Replacing
  <2>4. ASSUME Attended PROVE Attended'
    <3>1. \A v \in volumes : ~(v.idx = cur /\ v.ver = vv) => v \in volumes'
      BY <2>1 DEF Mark
    <3>2. \A w \in volumes' : w \in volumes \/ w.idx = cur
      <4>. DEFINE set(o) == [o EXCEPT !.status = "DELETING"]
      <4>1. \A o \in volumes : set(o).idx = o.idx
        BY DEF Shown, IInv, TypeOK, Volume
      <4>2. volumes' = {IF o.idx = cur /\ o.ver = vv THEN set(o) ELSE o : o \in volumes}
        BY <2>1 DEF Mark
      <4>. HIDE DEF set
      <4>. QED  BY <4>1, <4>2
    <3>3. \A i \in Idx \ {cur} : Lives(i) => Lives(i)'
      BY <3>1 DEF Lives, Live
    <3>4. CASE extName
      <4>1. Replacing
        BY <1>0, <1>2, <2>1, <2>4, <3>4 DEF Attended, Replacing
      <4>2. vv \in Nat /\ cur \in Idx
        BY DEF Shown, IInv, TypeOK
      <4>3. PICK v \in Live(volumes) : v.idx = cur /\ v.ver = vv - 1
        BY <1>2, <2>4, <4>1 DEF Attended, Replacing
      <4>4. v \in Live(volumes)'
        BY <3>1, <4>2, <4>3 DEF Live
      <4>5. \A i \in Idx : i < cr.replicas => Lives(i)'
        BY <2>4, <3>3, <3>4, <4>3, <4>4 DEF Attended, Lives
      <4>. QED
        BY <1>0, <1>2, <3>4, <4>1, <4>3, <4>4, <4>5 DEF Attended, Stays, Replacing
    <3>5. CASE ~extName
      <4>1. mode = "create" /\ cur \in Idx
        BY <2>1, <3>5, ModeFacts DEF Replacing, Shown, IInv, TypeOK
      <4>2. \A w \in volumes' : w.status = "DELETING" => w.idx = cur
        BY <1>0, <2>4, <3>2, <3>5 DEF Attended
      <4>3. \A i \in Idx : i < cur => Lives(i)'
        BY <2>4, <3>3, <3>5, <4>1, IdxFacts DEF Attended
      <4>. QED
        BY <1>0, <1>2, <3>5, <4>1, <4>2, <4>3 DEF Attended, Stays
    <3>. QED  BY <3>4, <3>5
  <2>. QED  BY <2>2, <2>3, <2>4 DEF Counted
<1>. QED  BY <1>1, <1>2

LEMMA SettleLive ==
  ASSUME TypeOK, Settle
  PROVE  VolumesLive
<1>1. CASE UNCHANGED volumes
  BY <1>1, SameLive
<1>2. ASSUME NEW v \in volumes, Settles(v),
             volumes' = (volumes \ {v}) \cup {[v EXCEPT !.status = Advance(@)]}
      PROVE  VolumesLive
  <2>. DEFINE w == [v EXCEPT !.status = Advance(@)]
  <2>1. w.idx = v.idx /\ w.ver = v.ver /\ w.status \in {"BUSY", "AVAILABLE"}
    BY AdvanceFacts DEF TypeOK, Volume
  <2>2. volumes' = (volumes \ {v}) \cup {w}
    BY <1>2
  <2>. HIDE DEF w
  <2>. QED  BY <2>1, <2>2 DEF VolumesLive
<1>3. ASSUME NEW v \in volumes, v.status = "DELETING", volumes' = volumes \ {v}
      PROVE  VolumesLive
  BY <1>3 DEF VolumesLive
<1>. QED  BY <1>1, <1>2, <1>3 DEF Settle, ServerSettles, VolumeSettles, NICSettles, Removed

LEMMA SettleCounts ==
  ASSUME Shown, Shown', HalfWay, Settle
  PROVE  Counted
<1>1. UNCHANGED <<worker, cluster>>
  BY DEF Settle, ServerSettles, VolumeSettles, NICSettles, Removed
<1>2. VolumesFrom /\ ServersLast /\ VolumesLive
  BY SettleFrom, SettleLive DEF Shown, IInv
<1>. QED
  BY <1>1, <1>2, SameWorkerCounts DEF worker, cluster

LEMMA OutsideCounts ==
  ASSUME Shown, Shown', HalfWay,
         ObserveUpToDate \/ RemovePending \/ Edit \/ Elect \/ UNCHANGED vars
  PROVE  Counted
<1>1. UNCHANGED <<servers, volumes, worker, extName>>
  BY DEF ObserveUpToDate, RemovePending, Edit, Elect, vars, objects, cluster
<1>. QED
  BY <1>1, SameFromLast, SameLive, SameWorkerCounts DEF worker

-----------------------------------------------------------------------------
(* Cuts: failures and restarts of the worker.                                *)

Cuts == faults.errors + faults.crashes

LEMMA FaultsType ==
  /\ TypeOK => faults.rejects \in Nat /\ Cuts \in Nat
  /\ TypeOK' => faults'.rejects \in Nat /\ Cuts' \in Nat
BY DEF TypeOK, Cuts

LEMMA CountsInit == Init => CountsOK
<1>. SUFFICES ASSUME Init PROVE CountsOK
  OBVIOUS
<1>1. IsFiniteSet(volumes) /\ HalfWay
  BY FS_EmptySet DEF Init, HalfWay
<1>2. Attended
  BY DEF Init, Attended
<1>. QED  BY <1>1, <1>2 DEF Init, CountsOK

\* No step makes infinitely many volumes.
LEMMA VolumesFinite ==
  ASSUME Shown, Shown', CountsOK, [Next]_vars
  PROVE  IsFiniteSet(volumes')
<1>0. IsFiniteSet(volumes)
  BY DEF CountsOK
<1>1. VolumesFrom => IsFiniteSet(volumes')
  BY <1>0, FromFinite DEF VolumesFrom, Shown, IInv, UniqueNames
<1>2. CASE EnsureVolume
  BY <1>0, <1>1, <1>2, EnsureVolumeFrom, FS_AddElement
<1>3. CASE UpdateVolume
  BY <1>1, <1>3, UpdateVolumeFrom DEF Shown, IInv
<1>4. CASE Settle
  BY <1>1, <1>4, SettleFrom DEF Shown, IInv
<1>5. CASE WaitRejected
  BY <1>1, <1>5, WaitRejectedFrom DEF Shown, PlacesOK
<1>6. CASE Destroy
  <2>1. UNCHANGED volumes \/ volumes' = Mark(volumes, cur, vv - 1, "DELETING")
    BY <1>6 DEF Destroy, objects
  <2>. QED  BY <1>1, <2>1, MarkFrom, SameFromLast DEF Shown, IInv
<1>7. ASSUME UNCHANGED volumes PROVE IsFiniteSet(volumes')
  BY <1>0, <1>7
<1>. QED
  BY <1>2, <1>3, <1>4, <1>5, <1>6, <1>7
  DEF Next, Reconcile, vars, objects, ObserveMissing, ObserveOutdated, ObserveUpToDate,
      GetVersions, EnsureServer, EnsureNIC, Attach, NextReplica, WaitAvailable, Discarded,
      UpdateServer, WaitUpdated, ServersDone, UpdateMaster, VolumesDone, WaitDestroyed,
      Finish, Fail, Crash, RemovePending, Edit, Elect

LEMMA OrderlyCounts ==
  ASSUME ~Scale, Shown, Shown', HalfWay, [Next]_vars, ~Fail, ~Crash
  PROVE  Counted
<1>1. CASE ObserveMissing \/ ObserveOutdated \/ GetVersions \/ NextReplica
  BY <1>1, ObserveCounts, GetVersionsCounts, NextReplicaCounts
<1>2. CASE EnsureServer \/ EnsureVolume \/ EnsureNIC \/ WaitAvailable \/ Attach
  BY <1>2, EnsureServerCounts, EnsureVolumeCounts, EnsureNICCounts, WaitAvailableCounts,
     AttachCounts
<1>3. CASE UpdateServer \/ WaitUpdated \/ ServersDone \/ UpdateVolume \/ UpdateMaster
  BY <1>3, UpdateServerCounts, LoopStepCounts, UpdateVolumeCounts, UpdateMasterCounts
<1>4. CASE Destroy \/ WaitDestroyed \/ WaitRejected \/ Settle
  BY <1>4, DestroyCounts, WaitDestroyedCounts, WaitRejectedCounts, SettleCounts
<1>5. CASE Discarded \/ VolumesDone \/ Finish
  BY <1>5, EndCounts
<1>6. CASE ObserveUpToDate \/ RemovePending \/ Edit \/ Elect \/ UNCHANGED vars
  BY <1>6, OutsideCounts
<1>. QED
  BY <1>1, <1>2, <1>3, <1>4, <1>5, <1>6 DEF Next, Reconcile

\* Only a cut adds to the cuts, and only a rejection to the rejections.
LEMMA FaultsStep ==
  ASSUME TypeOK, [Next]_vars
  PROVE  /\ Fail \/ Crash => Cuts' = Cuts + 1 /\ faults'.rejects = faults.rejects
         /\ ~Fail /\ ~Crash => Cuts' = Cuts
         /\ faults'.rejects >= faults.rejects
         /\ Discarding' => Discarding \/ faults'.rejects # 0
<1>0. /\ faults \in [edits : Nat, crashes : Nat, errors : Nat, rejects : Nat]
      /\ faults.rejects \in Nat
  BY DEF TypeOK
<1>1. CASE Fail \/ Crash
  <2>1. pc' = "idle"
    BY <1>1 DEF Fail, Crash, ReturnError, Return
  <2>. QED  BY <1>0, <1>1, <2>1 DEF Fail, Crash, Cuts, Discarding
<1>2. CASE WaitRejected
  <2>1. faults' = [faults EXCEPT !.rejects = @ + 1]
    BY <1>2 DEF WaitRejected
  <2>2. ~Fail /\ ~Crash
    BY <1>2 DEF WaitRejected, Fail, Crash, ReturnError, Return
  <2>. QED  BY <1>0, <2>1, <2>2 DEF Cuts
<1>3. CASE Edit
  <2>1. faults' = [faults EXCEPT !.edits = @ + 1] /\ UNCHANGED <<pc, phase>>
    BY <1>3 DEF Edit, worker
  <2>2. ~Fail /\ ~Crash
    BY <1>0, <2>1 DEF Fail, Crash, ReturnError, Return
  <2>. QED  BY <1>0, <2>1, <2>2 DEF Cuts, Discarding
<1>4. CASE EnsureServer \/ EnsureVolume \/ EnsureNIC
  <2>1. UNCHANGED faults /\ (Discarding' => Discarding)
    BY <1>4 DEF EnsureServer, EnsureVolume, EnsureNIC, Return, ReturnError, Await, Proceed,
                Goto, Discarding
  <2>2. ~Fail /\ ~Crash
    BY <1>0, <2>1 DEF Fail, Crash
  <2>. QED  BY <1>0, <2>1, <2>2 DEF Cuts
<1>5. CASE \/ Reconcile /\ ~(EnsureServer \/ EnsureVolume \/ EnsureNIC)
          \/ RemovePending \/ Elect \/ Settle \/ UNCHANGED vars
  <2>1. UNCHANGED faults /\ (Discarding' => Discarding)
    BY <1>5
    DEF Reconcile, vars, worker, ObserveMissing, ObserveOutdated, ObserveUpToDate,
        GetVersions, Attach, NextReplica, WaitAvailable, Discarded, UpdateServer, WaitUpdated,
        ServersDone, UpdateVolume, UpdateByIndex, UpdateMaster, VolumesDone, Destroy,
        WaitDestroyed, Finish, RemovePending, Elect, Settle, ServerSettles, VolumeSettles,
        NICSettles, Removed, Return, ReturnError, Await, Proceed, Goto, Discarding
  <2>2. ~Fail /\ ~Crash
    BY <1>0, <2>1 DEF Fail, Crash
  <2>. QED  BY <1>0, <2>1, <2>2 DEF Cuts
<1>. QED
  BY <1>1, <1>2, <1>3, <1>4, <1>5 DEF Next

\* A cut leaves a rejected volume, a replaced one, or nothing.
LEMMA CutCounts ==
  ASSUME Shown, Shown', CountsOK, Fail \/ Crash
  PROVE  /\ HalfWay'
         /\ Attended => Attended' \/ (faults.rejects # 0 /\ Compact')
<1>1. Return /\ UNCHANGED <<servers, volumes, extName>> /\ mode' = "none"
  BY DEF Fail, Crash, ReturnError, Return, objects, cluster
<1>2. HalfWay'
  BY <1>1 DEF HalfWay
<1>3. ASSUME Attended PROVE Attended' \/ (faults.rejects # 0 /\ Compact')
  <2>1. CASE extName \/ ~Discarding
    BY <1>1, <1>3, <2>1, LeavingAttended
  <2>2. CASE ~extName /\ Discarding
    <3>1. faults.rejects # 0
      BY <2>2 DEF CountsOK, Discarding
    <3>2. \A v \in volumes' : v.ver = 0
      BY <1>1, <2>2 DEF Shown, PlacesOK, FirstCreate
    <3>3. Compact'
      BY <3>2 DEF Compact, OneVolume, Shown, IInv, UniqueNames
    <3>. QED  BY <3>1, <3>3
  <2>. QED  BY <2>1, <2>2
<1>. QED  BY <1>2, <1>3

LEMMA CountsStep ==
  ASSUME ~Scale, Shown, Shown', CountsOK, [Next]_vars
  PROVE  CountsOK'
<1>a. /\ faults.rejects \in Nat /\ faults'.rejects \in Nat
      /\ Cuts \in Nat /\ Cuts' \in Nat
  BY FaultsType DEF Shown, IInv
<1>0. /\ HalfWay
      /\ Discarding => faults.rejects # 0
      /\ Attended \/ (faults.rejects # 0 /\ Cuts >= 1 /\ (Compact \/ Cuts >= 2))
  BY DEF CountsOK, Discarding, Cuts
<1>1. /\ Fail \/ Crash => Cuts' = Cuts + 1 /\ faults'.rejects = faults.rejects
      /\ ~Fail /\ ~Crash => Cuts' = Cuts
      /\ faults'.rejects >= faults.rejects
      /\ Discarding' => Discarding \/ faults'.rejects # 0
  BY FaultsStep DEF Shown, IInv
<1>2. IsFiniteSet(volumes')
  BY VolumesFinite
<1>3. Discarding' => faults'.rejects # 0
  BY <1>a, <1>0, <1>1
<1>4. HalfWay' /\ (Attended' \/ (faults'.rejects # 0 /\ Cuts' >= 1 /\ (Compact' \/ Cuts' >= 2)))
  <2>1. CASE Fail \/ Crash
    BY <1>a, <1>0, <1>1, <2>1, CutCounts
  <2>2. CASE ~Fail /\ ~Crash
    BY <1>a, <1>0, <1>1, <2>2, OrderlyCounts DEF Counted
  <2>. QED  BY <2>1, <2>2
<1>. QED  BY <1>2, <1>3, <1>4 DEF CountsOK, Discarding, Cuts

\* As many objects as replicas, one at most in each: one in each.
LEMMA PigeonholeOnto ==
  ASSUME NEW S, IsFiniteSet(S), NEW N \in Nat, N > 0, Cardinality(S) = N,
         \A s \in S : s.idx \in 0 .. N - 1,
         \A s, t \in S : s.idx = t.idx => s = t
  PROVE  \A i \in 0 .. N - 1 : \E s \in S : s.idx = i
<1>. DEFINE f == [s \in S |-> s.idx]
<1>1. f \in Injection(S, 0 .. N - 1)
  BY DEF Injection, IsInjective
<1>2. IsFiniteSet(0 .. N - 1) /\ Cardinality(0 .. N - 1) = IF 0 > N - 1 THEN 0 ELSE (N - 1) - 0 + 1
  <2>1. 0 \in Int /\ N - 1 \in Int
    OBVIOUS
  <2>. QED  BY <2>1, FS_Interval, Zenon
<1>3. Cardinality(0 .. N - 1) = N
  BY <1>2
<1>4. f \in Surjection(S, 0 .. N - 1)
  BY <1>1, <1>2, <1>3, FS_Injection
<1>. QED  BY <1>4 DEF Surjection

\* One object in each replica, of objects within the replicas.
LEMMA OneInEach ==
  ASSUME NEW S, IsFiniteSet(S), NEW N \in Nat, N > 0, Cardinality(S) = N,
         \A s \in S : s.idx \in 0 .. N - 1,
         \/ \A i \in 0 .. N - 1 : \E s \in S : s.idx = i
         \/ \A s, t \in S : s.idx = t.idx => s = t,
         NEW i \in 0 .. N - 1
  PROVE  Cardinality(Of(S, i)) = 1
<1>1. \A s, t \in S : s.idx = t.idx => s = t
  BY Pigeonhole
<1>2. PICK s \in S : s.idx = i
  BY PigeonholeOnto
<1>3. Of(S, i) = {s}
  BY <1>1, <1>2 DEF Of
<1>. QED  BY <1>3, FS_Singleton

LEMMA VolumesMatch ==
  ASSUME Shown, CountsOK, faults.rejects = 0 \/ Cuts <= 1, pc = "idle", extName, Exists
  PROVE  \/ \A i \in Idx : i < cr.replicas => \E v \in volumes : v.idx = i
         \/ \A v, w \in volumes : v.idx = w.idx => v = w
<1>1. CASE Attended
  BY <1>1 DEF Attended, Lives, Live
<1>2. CASE ~Attended
  <2>1. Cuts \in Nat
    BY FaultsType DEF Shown, IInv
  <2>2. Compact
    BY <1>2, <2>1 DEF CountsOK, Cuts
  <2>3. \A i \in Idx : OneServer(i)
    BY CountsMatch DEF Shown
  <2>4. \A i \in Idx : ~TwoServers(i)
    BY <2>3 DEF OneServer, TwoServers
  <2>5. \A i \in Idx : OneVolume(i)
    BY <2>2, <2>4 DEF Compact, Shown, PlacesOK, ModesOK
  <2>6. \A v \in volumes : v.idx \in Idx
    BY DEF Shown, IInv, TypeOK, Volume
  <2>. QED  BY <2>5, <2>6 DEF OneVolume
<1>. QED  BY <1>1, <1>2

LEMMA CountsInvariant == ASSUME ~Scale PROVE Spec => [](Shown /\ CountsOK)
<1>1. Shown /\ Shown' /\ CountsOK /\ [Next]_vars => CountsOK'
  BY CountsStep
<1>2. Spec => []Shown
  BY PlacesInvariant, PTL DEF Shown
<1>. QED
  BY <1>1, <1>2, CountsInit, PTL DEF Spec

-----------------------------------------------------------------------------
(* The theorems.                                                             *)

LEMMA UnscaledInvariant == Spec => [](IInv /\ StillListed /\ VolumesOK)
<1>1. Init => StillListed
  BY DEF Init, StillListed
<1>2. IInv /\ StillListed /\ VolumesOK /\ [Next]_vars => StillListed' /\ VolumesOK'
  BY IInvStep, StillListedStep, VolumesOKStep
<1>. QED
  BY <1>1, <1>2, Invariant, VolumesOKInit, PTL DEF Spec

\* Everything the proofs use about servers, volumes, NICs and the worker holds
\* at every step, for every number of replicas, whatever fails and wherever the
\* provider restarts; where the objects are, while spec.replicas is not raised.
THEOREM EveryInvariant == Spec => []FullInv
<1>1. CASE Scale
  <2>1. IInv /\ StillListed /\ VolumesOK => FullInv
    BY <1>1 DEF FullInv
  <2>. QED  BY <2>1, UnscaledInvariant, PTL
<1>2. CASE ~Scale
  <2>1. IInv /\ StillListed /\ VolumesOK /\ Shown /\ CountsOK => FullInv
    BY DEF FullInv, Shown
  <2>. QED  BY <1>2, <2>1, UnscaledInvariant, CountsInvariant, PTL
<1>. QED  BY <1>1, <1>2

\* While spec.replicas is not raised, no two replicas are being replaced, not
\* even after a failed replacement: for every number of replicas, whatever fails
\* and wherever the provider restarts.
THEOREM NoTwoReplacements == ASSUME ~Scale PROVE Spec => []OneReplacement
<1>. QED
  BY PlacesInvariant, PTL DEF PlacesOK

\* While spec.replicas is not raised, the counts Observe compares do not hide a
\* surplus of one replica behind a missing object of another: when it reports
\* that the resource exists, every replica has exactly one server and one NIC,
\* whatever failed and wherever the provider restarted.
THEOREM CountsAreExact ==
  ASSUME ~Scale
  PROVE  Spec => [](extName /\ Exists =>
                      \A i \in 0 .. cr.replicas - 1 :
                        /\ OneServer(i) /\ \E s \in servers : s.idx = i
                        /\ OneNIC(i) /\ \E n \in nics : n.idx = i)
<1>1. ASSUME IInv, PlacesOK, extName, Exists, NEW i \in 0 .. cr.replicas - 1
      PROVE  /\ OneServer(i) /\ \E s \in servers : s.idx = i
             /\ OneNIC(i) /\ \E n \in nics : n.idx = i
  <2>1. cr.replicas \in Nat
    BY <1>1, ReplicasType DEF IInv
  <2>2. i \in Idx /\ i < cr.replicas
    BY <1>1, <2>1, IdxBelow DEF IInv
  <2>3. Placed(i)
    BY <1>1, <2>2 DEF PlacesOK, LaterCreate
  <2>. QED
    BY <1>1, <2>2, <2>3, CountsMatch DEF Placed, Pair, NICThere
<1>2. IInv /\ VolumesOK /\ PlacesOK =>
        (extName /\ Exists =>
           \A i \in 0 .. cr.replicas - 1 :
             /\ OneServer(i) /\ \E s \in servers : s.idx = i
             /\ OneNIC(i) /\ \E n \in nics : n.idx = i)
  BY <1>1
<1>. QED
  BY <1>2, PlacesInvariant, PTL

\* While spec.replicas is not raised, Observe says that the resource exists only when
\* every replica has one server, one boot volume and one NIC (serverset.go:135-177):
\* of the volumes, while no object was rejected or there was one cut at most,
\* whichever step it hit.
THEOREM ExistsMeansExact == ASSUME ~Scale PROVE Spec => []ExistsIsExact
<1>1. ASSUME Shown, CountsOK, faults.rejects = 0 \/ Cuts <= 1, pc = "idle", extName, Exists,
             NEW i \in 0 .. template.replicas - 1
      PROVE  /\ Cardinality(Of(servers, i)) = 1
             /\ Cardinality(Of(volumes, i)) = 1
             /\ Cardinality(Of(nics, i)) = 1
  <2>. DEFINE N == cr.replicas
  <2>1. N \in Nat /\ N > 0 /\ template.replicas = N
    BY <1>1, ReplicasType DEF Shown, IInv, PlacesOK, Within
  <2>2. /\ IsFiniteSet(servers) /\ IsFiniteSet(volumes) /\ IsFiniteSet(nics)
        /\ Cardinality(servers) = N /\ Cardinality(volumes) = N /\ Cardinality(nics) = N
    BY <1>1, <2>1 DEF Exists, Shown, PlacesOK, ListsOK, CountsOK
  <2>3. \A j \in Idx : j < N => j \in 0 .. N - 1
    BY <2>1, IdxFacts
  <2>4. /\ \A s \in servers : s.idx \in Idx /\ s.idx < N
        /\ \A v \in volumes : v.idx \in Idx /\ v.idx < N
        /\ \A n \in nics : n.idx \in Idx /\ n.idx < N
    BY <1>1 DEF Shown, PlacesOK, Within, IInv, TypeOK, Server, Volume, NIC
  <2>5. \A j \in 0 .. N - 1 : j \in Idx /\ j < N
    BY <1>1, <2>1, IdxBelow DEF Shown, IInv
  <2>6. /\ \A s, t \in servers : s.idx = t.idx => s = t
        /\ \A m, n \in nics : m.idx = n.idx => m = n
    BY <1>1, <2>4, CountsMatch DEF Shown, OneServer, OneNIC
  <2>7. \/ \A j \in 0 .. N - 1 : \E v \in volumes : v.idx = j
        \/ \A v, w \in volumes : v.idx = w.idx => v = w
    BY <1>1, <2>5, VolumesMatch
  <2>8. i \in 0 .. N - 1
    BY <1>1, <2>1
  <2>. HIDE DEF N
  <2>9. /\ \A s \in servers : s.idx \in 0 .. N - 1
        /\ \A v \in volumes : v.idx \in 0 .. N - 1
        /\ \A n \in nics : n.idx \in 0 .. N - 1
    BY <2>3, <2>4
  <2>10. Cardinality(Of(servers, i)) = 1
    BY <2>1, <2>2, <2>6, <2>8, <2>9, OneInEach
  <2>11. Cardinality(Of(volumes, i)) = 1
    BY <2>1, <2>2, <2>7, <2>8, <2>9, OneInEach
  <2>12. Cardinality(Of(nics, i)) = 1
    BY <2>1, <2>2, <2>6, <2>8, <2>9, OneInEach
  <2>. QED  BY <2>10, <2>11, <2>12
<1>2. Shown /\ CountsOK => ExistsIsExact
  BY <1>1 DEF ExistsIsExact, Cuts
<1>. QED
  BY <1>2, CountsInvariant, PTL
=============================================================================
