--------------------------- MODULE ServerSetInv ---------------------------
(* The inductive invariant behind ServedStable: what the sets of servers    *)
(* and volumes look like at each step of the worker.                        *)
EXTENDS ServerSet

\* Created at the API, and not being deleted.
Established(o) == o.status \in {"BUSY", "AVAILABLE", "UPDATING"}

\* Which steps belong to which mode, and which steps wait.
ControlOK ==
  /\ pc \in {"versions", "next"} => mode = "create"
  /\ pc \in {"servers", "volumes"} => mode = "update"
  /\ pc \in {"server", "nic"} => mode \in {"create", "all"}
  /\ pc \in {"volume", "attach"} => mode \in {"create", "bootVolume", "all"}
  /\ pc = "deleteVolume" => mode \in {"bootVolume", "all"}
  /\ pc \in {"deleteServer", "deleteNIC"} => mode = "all"
  /\ pc = "finish" => mode \in {"bootVolume", "all"}
  /\ phase = "wait" => pc \in Creates \cup Deletes \cup {"servers"}
  /\ phase = "discard" => pc \in Creates

\* A name belongs to one server and to one volume.
UniqueNames ==
  /\ \A s, t \in servers : s.idx = t.idx /\ s.ver = t.ver => s = t
  /\ \A v, w \in volumes : v.idx = w.idx /\ v.ver = w.ver => v = w

\* A server without ID has no boot volume.
PendingUnattached == \A s \in servers : s.status = "PENDING" => s.boot = NoVolume

\* No volume without an established server of its replica.
VolumeHasServer ==
  \A v \in volumes : \E s \in servers : s.idx = v.idx /\ Established(s)

\* A server never boots from a volume without ID, and never from one newer
\* than all established volumes of its replica.
BootEstablished ==
  \A s \in servers :
    /\ \A v \in volumes : v.idx = s.idx /\ v.ver = s.boot => v.status # "PENDING"
    /\ s.boot # NoVolume =>
         \E v \in volumes : v.idx = s.idx /\ Established(v) /\ s.boot <= v.ver

\* While Create works on a replica.
CreateOK ==
  mode = "create" =>
    /\ pc \in {"server", "nic", "volume", "attach"} =>
         \A v \in Of(volumes, cur) : v.ver = vv
    /\ pc = "server" /\ phase = "wait" => \A s \in Of(servers, cur) : s.ver = sv
    /\ pc \in {"nic", "volume", "attach"} =>
         /\ \A s \in Of(servers, cur) : s.status # "PENDING"
         /\ \E s \in servers : s.idx = cur /\ Established(s)

\* While an update replaces the objects of a replica.
NewServerThere == \E s \in servers : s.idx = cur /\ s.ver = sv /\ Established(s)
NewVolumeThere == \E v \in volumes : v.idx = cur /\ v.ver = vv /\ Established(v)
NewAttached ==
  \E s \in servers : s.idx = cur /\ s.ver = sv /\ Established(s) /\ s.boot = vv

UpdateOK ==
  mode \in {"bootVolume", "all"} =>
    /\ \E s \in servers : s.idx = cur /\ Established(s)
    /\ \A v \in Of(volumes, cur) : v.ver \in {vv - 1, vv}
    /\ pc = "server" => \A v \in Of(volumes, cur) : v.ver = vv - 1
    /\ pc = "server" /\ phase = "do" => \A s \in Of(servers, cur) : s.ver = sv - 1
    /\ pc = "volume" /\ phase = "do" => \A v \in Of(volumes, cur) : v.ver = vv - 1
    /\ pc # "server" => NewServerThere
    /\ pc \notin {"server", "volume"} => NewVolumeThere
    /\ pc \notin {"server", "volume", "attach"} => NewAttached

\* The inductive invariant: the worker replaces a replica's volume or server
\* only while an established one of that replica is in place
\* (create_before_destroy.go, recreate_only_bootvolume.go).
IInv ==
  /\ TypeOK /\ ControlOK /\ UniqueNames /\ PendingUnattached
  /\ VolumeHasServer /\ BootEstablished /\ CreateOK /\ UpdateOK

-----------------------------------------------------------------------------
(* The loops of an update: MasterLast and ImplementsRolling.                 *)

\* What the loop over the boot volumes has left to visit includes every volume
\* that has to be re-created and is not the master's.
StillListed ==
  pc = "volumes" =>
    \A v \in volumes : Recreate(v) /\ ~Deferred(v) => [idx |-> v.idx, ver |-> v.ver] \in todo

\* At most one boot volume in the replica.
OneVolume(i) == \A v, w \in volumes : v.idx = i /\ w.idx = i => v = w

\* What the worker knows of the boot volumes: the loop over the servers has yet
\* to visit every replica with several, so none has several when the loop over
\* the volumes begins, and a strategy multiplies those of its own replica only,
\* with the image of its spec.
VolumesOK ==
  /\ pc = "servers" =>
       \A i \in Idx : OneVolume(i) \/ \E name \in todo : name.idx = i
  /\ pc = "volumes" => \A i \in Idx : OneVolume(i)
  /\ mode \in {"bootVolume", "all"} =>
       /\ \A i \in Idx \ {cur} : OneVolume(i)
       /\ \A v \in volumes : v.idx = cur /\ v.ver = vv => v.image = cr.image

-----------------------------------------------------------------------------
(* One replica at a time: OneReplacement, while spec.replicas is not raised. *)

\* The worker's spec and the template ask for the same number of replicas, and
\* no object belongs to any other.
Within ==
  /\ cr.replicas = template.replicas /\ cur < cr.replicas
  /\ \A s \in servers : s.idx < cr.replicas
  /\ \A v \in volumes : v.idx < cr.replicas
  /\ \A n \in nics : n.idx < cr.replicas

\* A name belongs to one NIC, and the counts Observe compares are numbers.
ListsOK ==
  /\ \A m, n \in nics : m.idx = n.idx /\ m.ver = n.ver => m = n
  /\ IsFiniteSet(servers) /\ IsFiniteSet(nics)

ModesOK ==
  /\ pc = "idle" => cur = 0 /\ mode = "none"
  /\ mode \in {"update", "bootVolume", "all"} => extName

\* A server of the replica and the NIC of its version, both in place.
NICThere(i, n) == \E x \in nics : x.idx = i /\ x.ver = n /\ Established(x)
Pair(i, n) ==
  /\ \E s \in servers : s.idx = i /\ s.ver = n /\ Established(s)
  /\ NICThere(i, n)
HasVolume(i) == \E v \in volumes : v.idx = i /\ Established(v)

\* What Create leaves behind, and no step takes away: a pair, which is the first
\* one as long as the replica has no volume, so that Create adds nothing to a
\* replica but a missing volume.
Placed(i) == (\E s \in servers : Pair(i, s.ver)) /\ (HasVolume(i) \/ Pair(i, 0))

FirstCreate ==
  ~extName =>
    /\ vv = 0 /\ sv = 0
    /\ \A s \in servers : s.ver = 0
    /\ \A v \in volumes : v.ver = 0
    /\ \A n \in nics : n.ver = 0
    /\ mode = "create" =>
         /\ \A i \in Idx : i < cur => Pair(i, 0)
         /\ pc \in {"volume", "attach", "next"} => Pair(cur, 0)

LaterCreate ==
  extName =>
    /\ \A i \in Idx : i < cr.replicas => Placed(i)
    /\ mode = "create" /\ pc \in {"server", "nic", "volume", "attach"} => Pair(cur, sv)

\* An update begins when every replica has one server and one NIC, and a
\* strategy multiplies those of its own replica only.
OneServer(i) == \A s, t \in servers : s.idx = i /\ t.idx = i => s = t
OneNIC(i) == \A m, n \in nics : m.idx = i /\ n.idx = i => m = n
SinglesOK ==
  /\ mode = "update" => \A i \in Idx : OneServer(i) /\ OneNIC(i)
  /\ mode \in {"bootVolume", "all"} => \A i \in Idx \ {cur} : OneServer(i) /\ OneNIC(i)
  /\ mode = "all" /\ pc \in {"deleteVolume", "deleteServer", "deleteNIC", "finish"} =>
       NICThere(cur, sv)

PlacesOK ==
  /\ Within /\ ListsOK /\ ModesOK /\ FirstCreate /\ LaterCreate /\ SinglesOK
  /\ OneReplacement

-----------------------------------------------------------------------------
(* The number of boot volumes: ExistsIsExact, while spec.replicas is not     *)
(* raised.                                                                   *)

Lives(i) == \E v \in Live(volumes) : v.idx = i
TwoServers(i) ==
  \E s, t \in servers : s # t /\ s.idx = i /\ t.idx = i /\ Established(s) /\ Established(t)

\* No rejected volume was left behind by the worker: once the set was created,
\* every replica has a volume that stays.
Attended ==
  /\ extName =>
       /\ \A i \in Idx : i < cr.replicas => Lives(i)
       /\ mode = "create" /\ pc = "volume" => phase = "do"
  /\ ~extName =>
       /\ \A v \in volumes : v.status = "DELETING" =>
            pc = "volume" /\ phase = "discard" /\ v.idx = cur
       /\ mode = "create" =>
            /\ \A i \in Idx : i < cur => Lives(i)
            /\ pc \in {"attach", "next"} => Lives(cur)
  /\ mode \in {"bootVolume", "all"} /\ pc \in {"server", "volume"} =>
       \E v \in Live(volumes) : v.idx = cur /\ v.ver = vv - 1

\* No replaced volume was left behind, unless the replaced server was, too.
Compact ==
  \A i \in Idx :
    OneVolume(i) \/ TwoServers(i) \/ (mode \in {"bootVolume", "all"} /\ cur = i)

\* What a strategy leaves when it ends early without a cut.
HalfWay ==
  /\ mode = "all" /\ pc \in {"server", "volume", "attach", "nic", "deleteVolume"} =>
       \E s \in servers : s.idx = cur /\ s.ver = sv - 1 /\ Established(s)
  /\ mode \in {"bootVolume", "all"} /\ pc \in {"deleteServer", "deleteNIC", "finish"} =>
       OneVolume(cur)

\* It takes a cut while a rejected volume is discarded to leave one kind behind,
\* and another cut to leave the other as well.
CountsOK ==
  /\ IsFiniteSet(volumes) /\ HalfWay
  /\ pc = "volume" /\ phase = "discard" => faults.rejects # 0
  /\ \/ Attended
     \/ /\ faults.rejects # 0 /\ faults.errors + faults.crashes >= 1
        /\ Compact \/ faults.errors + faults.crashes >= 2

\* All that is known of the objects and the worker at every step.  Where the
\* objects are (PlacesOK, CountsOK) is not known once spec.replicas may be raised.
FullInv == IInv /\ StillListed /\ VolumesOK /\ (Scale \/ (PlacesOK /\ CountsOK))
=============================================================================
