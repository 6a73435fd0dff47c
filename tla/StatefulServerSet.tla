------------------------- MODULE StatefulServerSet -------------------------
(* The StatefulServerSet controller, the volume selector it creates, and the *)
(* recovery from a restart that the selector carries out for both            *)
(* (internal/controller/compute/statefulserverset, internal/controller/      *)
(* volumeselector).  Three workers run side by side: the set's, the          *)
(* selector's and the ServerSet's; the last one is module ServerSet and is   *)
(* reduced here to what it does to its servers.  The controllers of the data *)
(* volumes and LANs (module ManagedResource) are reduced to the phases of    *)
(* their objects.                                                            *)
(*                                                                           *)
(* Abstractions: a field is its version, 0 when the set was made; template   *)
(* stands for the server's fields, boot for the boot volume's; a server is   *)
(* one object with its boot volume and NICs.                                 *)
EXTENDS Integers, FiniteSets

CONSTANTS MaxReplicas,
          Volumes, Lans,     \* the data volumes of one replica; the set's LANs
          RemovePending,     \* spec.forProvider.removePendingOnReboot
          Editable,          \* the fields the user may change
          MaxEdits, MaxTrouble   \* bounds on the user, on failures and restarts

ASSUME ReplicasAssumption == MaxReplicas \in Nat \ {0}
ASSUME RemovePendingAssumption == RemovePending \in BOOLEAN
ASSUME BoundsAssumption == MaxEdits \in Nat /\ MaxTrouble \in Nat

Idx == 0 .. MaxReplicas - 1
LanGroup == -1
Children == (Idx \X Volumes) \cup ({LanGroup} \X Lans)
Group(g) == {o \in Children : o[1] = g}

\* The fields a ServerSet is given, and those of the other children.
ServerFields == {"template", "boot", "stateMap", "identity"}
Fields == ServerFields \cup {"size", "lan"}
ASSUME EditableAssumption == Editable \subseteq Fields \cup {"replicas", "deletion"}
FieldOf(o) == IF o[1] = LanGroup THEN "lan" ELSE "size"

Version == 0 .. MaxEdits
SetSpec == [replicas : 1 .. MaxReplicas, field : [Fields -> Version]]

\* What external-create-pending says of an object: a restart cut its creation
\* off, the reconciler has noted so, the annotation was taken away again, or
\* the note is older than the annotation.
Marks == {"clear", "cut", "noted", "retried", "late"}
Goes(mark) == mark \in {"clear", "retried"}
CutOff(mark) == IF mark = "retried" THEN "late" ELSE "cut"

VARIABLES
  spec,      \* the user's StatefulServerSet
  set,       \* its external name, ready condition and annotations
  selector,  \* the volume selector's object
  sset,      \* the ServerSet's object
  child,     \* the objects of data volumes and LANs
  servers,   \* the servers of the ServerSet
  attached,  \* for a data volume, the servers the API has it attached to
  run,       \* the set's worker
  sel,       \* the selector's worker
  used       \* how much of each bound the environment has used

vars == <<spec, set, selector, sset, child, servers, attached, run, sel, used>>

Server == [idx : Idx, gen : Nat, template : Version, boot : Version, up : BOOLEAN]
Key(s) == <<s.idx, s.gen>>
Keys(ss) == {Key(s) : s \in ss}
At(r) == {s \in servers : s.idx = r}

Phases == {"none", "new", "failed", "rejected", "busy", "up"}
Exists(o) == child[o].phase # "none"
HasId(o) == child[o].phase \in {"busy", "up"}
CreateSucceeded(o) == child[o].phase \notin {"failed", "rejected"}

SetState == [named : BOOLEAN, ready : BOOLEAN, mark : Marks,
             deleted : BOOLEAN, gone : BOOLEAN]
SelectorState == [exists : BOOLEAN, named : BOOLEAN, available : BOOLEAN,
                  replicas : 0 .. MaxReplicas, mark : Marks]
SSetState == [exists : BOOLEAN, named : BOOLEAN, ok : BOOLEAN, ready : BOOLEAN,
              replicas : 0 .. MaxReplicas, field : [ServerFields -> Version], mark : Marks]
ChildState == [phase : Phases, has : Version, mark : Marks]
RunState == [pc : {"idle", "selector", "ensure", "sset", "await", "update", "ssetUpdate"},
             cr : SetSpec, group : Idx \cup {LanGroup},
             todo : SUBSET Children, waits : SUBSET Children]
SelState == [pc : {"idle", "create", "update"}, next : 0 .. MaxReplicas,
             last : 0 .. MaxReplicas, tasks : SUBSET ((Idx \X Volumes) \X (Idx \X Nat))]

TypeOK ==
  /\ spec \in SetSpec /\ set \in SetState
  /\ selector \in SelectorState /\ sset \in SSetState
  /\ child \in [Children -> ChildState] /\ servers \subseteq Server
  /\ attached \in [Idx \X Volumes -> SUBSET (Idx \X Nat)]
  /\ run \in RunState /\ sel \in SelState
  /\ used \in [edits : 0 .. MaxEdits, trouble : 0 .. MaxTrouble]

Idle == [pc |-> "idle", cr |-> spec, group |-> 0, todo |-> {}, waits |-> {}]
SelIdle == [pc |-> "idle", next |-> 0, last |-> 0, tasks |-> {}]

Init ==
  /\ \E n \in 1 .. MaxReplicas :
       spec = [replicas |-> n, field |-> [f \in Fields |-> 0]]
  /\ set = [named |-> FALSE, ready |-> FALSE, mark |-> "clear",
            deleted |-> FALSE, gone |-> FALSE]
  /\ selector = [exists |-> FALSE, named |-> FALSE, available |-> FALSE,
                 replicas |-> 0, mark |-> "clear"]
  /\ sset = [exists |-> FALSE, named |-> FALSE, ok |-> TRUE, ready |-> FALSE,
             replicas |-> 0, field |-> [f \in ServerFields |-> 0], mark |-> "clear"]
  /\ child = [o \in Children |-> [phase |-> "none", has |-> 0, mark |-> "clear"]]
  /\ servers = {} /\ attached = [d \in Idx \X Volumes |-> {}]
  /\ run = Idle /\ sel = SelIdle
  /\ used = [edits |-> 0, trouble |-> 0]

-----------------------------------------------------------------------------
(* What an Observe compares.                                                 *)

LansExist == Cardinality({o \in Group(LanGroup) : Exists(o)}) = Cardinality(Lans)
VolumesExist(cr) ==
  Cardinality({d \in Idx \X Volumes : Exists(d)}) = Cardinality(Volumes) * cr.replicas

LansCurrent(cr) ==
  LansExist /\ \A l \in Group(LanGroup) : child[l].has = cr.field["lan"]

\* The volumes are listed in no particular order, and the comparison returns at
\* the first one of another size or that is not available.
VolumeResults(cr) ==
  LET listed == {d \in Idx \X Volumes : Exists(d)}
      stale == {d \in listed : child[d].has # cr.field["size"]}
      down == {d \in listed \ stale : child[d].phase # "up"}
  IN IF ~VolumesExist(cr) THEN {"stale"}
     ELSE {r \in {"stale", "down", "current"} :
             \/ r = "stale" /\ stale # {}
             \/ r = "down" /\ down # {}
             \/ r = "current" /\ stale \cup down = {}}

EqualStateMap(cr) == sset.exists => sset.field["stateMap"] = cr.field["stateMap"]
ServersExist(cr) == Cardinality(servers) >= cr.replicas
NICsExist(cr) == Cardinality({s \in servers : s.up}) = cr.replicas

\* The ServerSet's resources against the set's own spec; servers and boot
\* volumes are compared as the volumes above, the NICs only counted.
ServerResults(cr) ==
  LET differ == {s \in servers : \/ s.template # cr.field["template"]
                                 \/ s.boot # cr.field["boot"]}
      down == {s \in servers \ differ : ~s.up}
  IN IF ~(EqualStateMap(cr) /\ ServersExist(cr) /\ NICsExist(cr)) THEN {"stale"}
     ELSE {r \in {"stale", "down", "current"} :
             \/ r = "stale" /\ differ # {}
             \/ r = "down" /\ down # {}
             \/ r = "current" /\ differ \cup down = {}}

\* Mutant: the selector's state is not asked for.
CreatedNoSelector(cr) == LansExist /\ VolumesExist(cr) /\ sset.exists

SSetExists == sset.exists
SelectorAvailable == selector.exists /\ selector.available
Created(cr) == LansExist /\ VolumesExist(cr) /\ SSetExists /\ SelectorAvailable

-----------------------------------------------------------------------------
(* The set's worker.  A reconcile works with the spec it read, stamps the    *)
(* object before Create and saves the external name after it.                *)

Begin(pc) == run' = [pc |-> pc, cr |-> spec, group |-> 0,
                     todo |-> IF pc = "update" THEN Group(0) ELSE {}, waits |-> {}]

Observe ==
  /\ run.pc = "idle" /\ Goes(set.mark) /\ ~set.deleted
  /\ IF ~set.named
     THEN Begin("selector") /\ UNCHANGED set
     ELSE \E v \in VolumeResults(spec), s \in ServerResults(spec) :
            LET current == LansCurrent(spec) /\ v # "stale" /\ s # "stale"
            IN /\ set' = [set EXCEPT !.ready = /\ Created(spec) /\ current
                                               /\ v = "current" /\ s = "current",
                                     !.mark = IF Created(spec) /\ current THEN "clear" ELSE @]
               /\ CASE ~Created(spec)            -> Begin("selector")
                    [] Created(spec) /\ ~current -> Begin("update")
                    [] OTHER                     -> UNCHANGED run
  /\ UNCHANGED <<spec, selector, sset, child, servers, attached, sel, used>>

\* A deleted set is reported not to exist: its object goes, and its children
\* are left to the garbage collector.
ObserveDeleted ==
  /\ run.pc = "idle" /\ Goes(set.mark) /\ set.deleted /\ ~set.gone
  /\ set' = [set EXCEPT !.gone = TRUE]
  /\ UNCHANGED <<spec, selector, sset, child, servers, attached, run, sel, used>>

\* The reconciler finds an annotation without a result.
NoteSet ==
  /\ run.pc = "idle" /\ set.mark = "cut"
  /\ set' = [set EXCEPT !.mark = "noted", !.ready = FALSE]
  /\ UNCHANGED <<spec, selector, sset, child, servers, attached, run, sel, used>>

\* The end of a reconcile: a result is recorded.
Fail == run' = Idle /\ set' = [set EXCEPT !.mark = "clear"]
Finish == run' = Idle /\ set' = [set EXCEPT !.mark = "clear", !.named = TRUE]

Ensure(g) == run' = [run EXCEPT !.pc = "ensure", !.group = g,
                                !.todo = Group(g), !.waits = {}]

\* Mutant: the ServerSet is brought up to date before the volumes are ensured.
EnsureSelectorEarly ==
  /\ run.pc = "selector"
  /\ selector' = [selector EXCEPT !.exists = TRUE, !.replicas = run.cr.replicas]
  /\ sset' = IF sset.exists THEN [sset EXCEPT !.replicas = run.cr.replicas] ELSE sset
  /\ Ensure(0)
  /\ UNCHANGED <<spec, set, child, servers, attached, sel, used>>

NewSelector(cr) == [selector EXCEPT !.exists = TRUE, !.replicas = cr.replicas]

EnsureSelector ==
  /\ run.pc = "selector"
  /\ selector' = IF selector.exists
                 THEN [selector EXCEPT !.replicas = run.cr.replicas]
                 ELSE NewSelector(run.cr)
  /\ Ensure(0)
  /\ UNCHANGED <<spec, set, sset, child, servers, attached, sel, used>>

\* The volumes of one replica, then the LANs, each in goroutines of their own.
NewVolume(cr) == [phase |-> "new", has |-> cr.field["size"], mark |-> "clear"]
NewLan(cr) == [phase |-> "new", has |-> cr.field["lan"], mark |-> "clear"]

EnsureObject(o, new) ==
  /\ run.pc = "ensure" /\ o \in run.todo
  /\ IF Exists(o)
     THEN run' = [run EXCEPT !.todo = @ \ {o}] /\ UNCHANGED child
     ELSE /\ child' = [child EXCEPT ![o] = new]
          /\ run' = [run EXCEPT !.todo = @ \ {o}, !.waits = @ \cup {o}]
  /\ UNCHANGED <<spec, set, selector, sset, servers, attached, sel, used>>
EnsureVolume(d) == d \notin Group(LanGroup) /\ EnsureObject(d, NewVolume(run.cr))
EnsureLan(l) == l \in Group(LanGroup) /\ EnsureObject(l, NewLan(run.cr))

\* A wait ends when the object is available or its creation failed; what the
\* API rejected is deleted by the goroutine that created it.
AwaitObject(o) ==
  /\ run.pc \in {"ensure", "update"} /\ o \in run.waits
  /\ \/ child[o].phase = "up" /\ run' = [run EXCEPT !.waits = @ \ {o}]
        /\ UNCHANGED <<set, child>>
     \/ ~CreateSucceeded(o) /\ Fail
        /\ IF run.pc = "ensure" /\ child[o].phase = "rejected"
           THEN child' = [child EXCEPT ![o].phase = "none"] ELSE UNCHANGED child
  /\ UNCHANGED <<spec, selector, sset, servers, attached, sel, used>>
AwaitVolume(d) == d \notin Group(LanGroup) /\ AwaitObject(d)
AwaitLan(l) == l \in Group(LanGroup) /\ AwaitObject(l)

GroupDone == run.todo = {} /\ run.waits = {}
NextGroup(after) ==
  CASE run.group = LanGroup             -> after
    [] run.group + 1 = run.cr.replicas  -> LanGroup
    [] OTHER                            -> run.group + 1

EnsureNext ==
  /\ run.pc = "ensure" /\ GroupDone
  /\ IF run.group = LanGroup THEN run' = [run EXCEPT !.pc = "sset"]
                             ELSE Ensure(NextGroup(LanGroup))
  /\ UNCHANGED <<spec, set, selector, sset, child, servers, attached, sel, used>>

Given(cr) == [sset EXCEPT !.exists = TRUE, !.replicas = cr.replicas,
                          !.field = [f \in ServerFields |-> cr.field[f]]]

\* A ServerSet whose creation failed is given the new spec, and Create fails.
EnsureSSet ==
  /\ run.pc = "sset"
  /\ \/ ~sset.exists /\ sset' = Given(run.cr)
        /\ run' = [run EXCEPT !.pc = "await"] /\ UNCHANGED set
     \/ sset.exists /\ ~sset.ok /\ sset' = Given(run.cr) /\ Fail
     \/ sset.exists /\ sset.ok /\ Finish /\ UNCHANGED sset
  /\ UNCHANGED <<spec, selector, child, servers, attached, sel, used>>

AwaitSSet ==
  /\ run.pc = "await"
  /\ \/ ~sset.ok /\ Fail
     \/ sset.ok /\ sset.ready /\ Cardinality(servers) = sset.replicas /\ Finish
  /\ UNCHANGED <<spec, selector, sset, child, servers, attached, sel, used>>

\* One volume or LAN at a time; an object that is gone ends the Update.
VolumeUpToDate(cr, d) == child[d].has = cr.field["size"]
LanUpToDate(cr, l) == child[l].has = cr.field["lan"]

UpdateObject(o, uptodate, version) ==
  /\ run.pc = "update" /\ o \in run.todo /\ run.waits = {}
  /\ \/ ~Exists(o) /\ Fail /\ UNCHANGED child
     \/ Exists(o) /\ uptodate
        /\ run' = [run EXCEPT !.todo = @ \ {o}] /\ UNCHANGED <<set, child>>
     \/ /\ Exists(o) /\ ~uptodate
        /\ child' = [child EXCEPT ![o].has = version,
                                  ![o].phase = IF @ = "up" THEN "busy" ELSE @]
        /\ run' = [run EXCEPT !.todo = @ \ {o}, !.waits = {o}] /\ UNCHANGED set
  /\ UNCHANGED <<spec, selector, sset, servers, attached, sel, used>>
UpdateVolume(d) == /\ d \notin Group(LanGroup)
                   /\ UpdateObject(d, VolumeUpToDate(run.cr, d), run.cr.field["size"])
UpdateLan(l) == /\ l \in Group(LanGroup)
                /\ UpdateObject(l, LanUpToDate(run.cr, l), run.cr.field["lan"])

UpdateNext ==
  /\ run.pc = "update" /\ GroupDone
  /\ run' = IF run.group = LanGroup THEN [run EXCEPT !.pc = "ssetUpdate"]
            ELSE [run EXCEPT !.group = NextGroup(LanGroup), !.todo = Group(NextGroup(LanGroup))]
  /\ UNCHANGED <<spec, set, selector, sset, child, servers, attached, sel, used>>

UpdateSSet ==
  /\ run.pc = "ssetUpdate"
  /\ \E s \in ServerResults(run.cr) :
       sset' = IF s = "stale" /\ sset.exists THEN Given(run.cr) ELSE sset
  /\ run' = Idle /\ set' = [set EXCEPT !.mark = "clear"]
  /\ UNCHANGED <<spec, selector, child, servers, attached, sel, used>>

\* A wait ends with its timeout: at once when nothing moves the object, and
\* as trouble when it might still have become available.
WaitTimeout ==
  /\ \/ run.pc \in {"ensure", "update"} /\ \E o \in run.waits : child[o].phase # "up"
     \/ run.pc = "await" /\ ~sset.ready
  /\ LET stuck == \/ \E o \in run.waits : ~Goes(child[o].mark)
                  \/ run.pc = "await" /\ ~Goes(sset.mark)
     IN \/ stuck /\ UNCHANGED used
        \/ ~stuck /\ used.trouble < MaxTrouble /\ used' = [used EXCEPT !.trouble = @ + 1]
  /\ Fail
  /\ UNCHANGED <<spec, selector, sset, child, servers, attached, sel>>

-----------------------------------------------------------------------------
(* The selector's worker: it gives itself a name, then keeps the data        *)
(* volumes of each replica attached to that replica's server.                *)

BeginSelCreate ==
  /\ selector.exists /\ ~selector.named /\ sel.pc = "idle" /\ Goes(selector.mark)
  /\ sel' = [sel EXCEPT !.pc = "create"]
  /\ UNCHANGED <<spec, set, selector, sset, child, servers, attached, run, used>>

SelCreate ==
  /\ sel.pc = "create" /\ sel' = SelIdle
  /\ selector' = [selector EXCEPT !.named = TRUE, !.mark = "clear"]
  /\ UNCHANGED <<spec, set, sset, child, servers, attached, run, used>>

NoteSelector ==
  /\ sel.pc = "idle" /\ selector.mark = "cut"
  /\ selector' = [selector EXCEPT !.mark = "noted"]
  /\ UNCHANGED <<spec, set, sset, child, servers, attached, run, sel, used>>

Recovered(mark) == IF RemovePending /\ mark = "noted" THEN "retried" ELSE mark

\* Mutant: only the data volumes, LANs and servers are looked at.
RemovePendingOfChildren ==
  /\ UNCHANGED <<set, sset>>
  /\ child' = [o \in Children |-> [child[o] EXCEPT !.mark = Recovered(@)]]

\* After a restart: the annotation goes from every object of the set whose
\* reconciler has noted it.  The selector is not among them.
RemovePendingAnnotations ==
  /\ set' = [set EXCEPT !.mark = Recovered(@)]
  /\ sset' = [sset EXCEPT !.mark = Recovered(@)]
  /\ child' = [o \in Children |-> [child[o] EXCEPT !.mark = Recovered(@)]]

\* Both kinds of a replica's objects are there, and have the IDs to attach with.
Listed(r) == {d \in {r} \X Volumes : Exists(d)}
Ready(r, s) == /\ Listed(r) # {} /\ \A d \in Listed(r) : HasId(d)
               /\ s \in At(r) /\ s.up

\* The server listed first stands for the replica.
Firsts == {first \in SUBSET servers :
             \A r \in Idx : \/ At(r) = {}
                            \/ \E s \in At(r) : At(r) \cap first = {s}}
AllAttached(r, s) == \A d \in Listed(r) : Key(s) \in attached[d]

SelObserve ==
  /\ selector.named /\ sel.pc = "idle"
  /\ RemovePendingAnnotations
  /\ \E first \in Firsts :
       LET fine(r) == \E s \in first : Ready(r, s)
           done(r) == \E s \in first : Ready(r, s) /\ AllAttached(r, s)
           indices == 0 .. selector.replicas - 1
           reached == {r \in indices : \A q \in 0 .. r - 1 : done(q)}
       IN \/ /\ \A r \in indices : done(r)
             /\ selector' = [selector EXCEPT !.available = TRUE] /\ UNCHANGED sel
          \/ /\ \E r \in reached : ~fine(r)
             /\ UNCHANGED <<selector, sel>>
          \/ /\ \E r \in reached : fine(r) /\ ~done(r)
             /\ sel' = [sel EXCEPT !.pc = "update", !.last = selector.replicas]
             /\ UNCHANGED selector
  /\ UNCHANGED <<spec, servers, attached, run, used>>

\* Mutant: the loop runs once too often.
SelGatherPast ==
  /\ sel.pc = "update" /\ sel.next <= sel.last
  /\ sel' = [sel EXCEPT !.next = @ + 1]
  /\ UNCHANGED <<spec, set, selector, sset, child, servers, attached, run, used>>

\* Update takes the replicas in turn and attaches in the background.
SelGather ==
  /\ sel.pc = "update" /\ sel.next < sel.last
  /\ IF At(sel.next) = {}
     THEN sel' = [sel EXCEPT !.next = @ + 1]
     ELSE \E s \in At(sel.next) :   \* any of them may be listed first
            sel' = [sel EXCEPT !.next = @ + 1,
                               !.tasks = @ \cup IF Ready(sel.next, s)
                                                THEN Listed(sel.next) \X {Key(s)} ELSE {}]
  /\ UNCHANGED <<spec, set, selector, sset, child, servers, attached, run, used>>

\* Mutant: the goroutines share the replica they attach to.
AttachShared(t) ==
  /\ t \in sel.tasks
  /\ sel' = [sel EXCEPT !.tasks = @ \ {t}]
  /\ attached' = [attached EXCEPT ![t[1]] = {(CHOOSE u \in sel.tasks :
                                                \A w \in sel.tasks : w[2][1] <= u[2][1])[2]}]
  /\ UNCHANGED <<spec, set, selector, sset, child, servers, run, used>>

\* The request for a server that has gone meanwhile, or for a volume that
\* another server still has, may be refused; or the API moves the volume.
Attach(t) ==
  /\ t \in sel.tasks
  /\ sel' = [sel EXCEPT !.tasks = @ \ {t}]
  /\ \/ /\ t[2] \in Keys(servers) /\ attached' = [attached EXCEPT ![t[1]] = {t[2]}]
     \/ /\ t[2] \notin Keys(servers) \/ attached[t[1]] # {}
        /\ UNCHANGED attached
  /\ UNCHANGED <<spec, set, selector, sset, child, servers, run, used>>

SelDone ==
  /\ sel.pc = "update" /\ sel.next = sel.last /\ sel.tasks = {}
  /\ sel' = SelIdle
  /\ UNCHANGED <<spec, set, selector, sset, child, servers, attached, run, used>>

-----------------------------------------------------------------------------
(* The ServerSet's worker, as module ServerSet has it in detail: it starts    *)
(* the replicas it is asked for, updates servers, and replaces one to give it *)
(* another boot volume, in place or next to the old server.                   *)
ServerSetWorks == sset.exists /\ Goes(sset.mark)
Settled(r) == /\ Cardinality(At(r)) = 1
              /\ \A s \in At(r) : s.up /\ s.template = sset.field["template"]
                                       /\ s.boot = sset.field["boot"]
SSetServes == \A r \in 0 .. sset.replicas - 1 : Settled(r)

StartServer(r) ==
  /\ ServerSetWorks /\ r < sset.replicas /\ At(r) = {}
  /\ servers' = servers \cup {[idx |-> r, gen |-> 0, template |-> sset.field["template"],
                               boot |-> sset.field["boot"], up |-> FALSE]}
  /\ sset' = [sset EXCEPT !.ready = FALSE]
  /\ UNCHANGED <<spec, set, selector, child, attached, run, sel, used>>

ServerUp(s) ==
  /\ s \in servers /\ ~s.up
  /\ servers' = (servers \ {s}) \cup {[s EXCEPT !.up = TRUE]}
  /\ UNCHANGED <<spec, set, selector, sset, child, attached, run, sel, used>>

UpdateServer(s) ==
  /\ ServerSetWorks /\ sset.named /\ s \in servers /\ s.up
  /\ Cardinality(At(s.idx)) = 1
  /\ \/ s.template # sset.field["template"]
        /\ servers' = (servers \ {s}) \cup {[s EXCEPT !.template = sset.field["template"]]}
     \/ s.boot # sset.field["boot"]
        /\ servers' = (servers \ {s}) \cup {[s EXCEPT !.boot = sset.field["boot"]]}
  /\ sset' = [sset EXCEPT !.ready = FALSE]
  /\ UNCHANGED <<spec, set, selector, child, attached, run, sel, used>>

ReplaceServer(s) ==
  /\ ServerSetWorks /\ sset.named /\ s \in servers /\ s.up
  /\ Cardinality(At(s.idx)) = 1 /\ s.boot # sset.field["boot"]
  /\ servers' = servers \cup {[s EXCEPT !.gen = @ + 1, !.boot = sset.field["boot"],
                                        !.template = sset.field["template"], !.up = FALSE]}
  /\ sset' = [sset EXCEPT !.ready = FALSE]
  /\ UNCHANGED <<spec, set, selector, child, attached, run, sel, used>>

RemoveServer(s) ==
  /\ ServerSetWorks /\ s \in servers
  /\ \E n \in At(s.idx) : n.gen > s.gen /\ n.up
  /\ servers' = servers \ {s}
  /\ attached' = [d \in Idx \X Volumes |-> attached[d] \ {Key(s)}]
  /\ UNCHANGED <<spec, set, selector, sset, child, run, sel, used>>

\* Its Observe, and the end of its Create.
SSetObserve ==
  /\ ServerSetWorks
  /\ \/ /\ ~sset.named
        /\ \A r \in 0 .. sset.replicas - 1 : \E s \in At(r) : s.up
        /\ sset' = [sset EXCEPT !.named = TRUE, !.ok = TRUE, !.mark = "clear"]
     \/ sset.named /\ sset' = [sset EXCEPT !.ready = SSetServes, !.mark = "clear"]
  /\ UNCHANGED <<spec, set, selector, child, servers, attached, run, sel, used>>

SSetFails ==
  /\ ServerSetWorks /\ ~sset.named /\ used.trouble < MaxTrouble
  /\ sset' = [sset EXCEPT !.ok = FALSE, !.mark = "clear"]
  /\ used' = [used EXCEPT !.trouble = @ + 1]
  /\ UNCHANGED <<spec, set, selector, child, servers, attached, run, sel>>

NoteSSet ==
  /\ sset.mark = "cut" /\ sset' = [sset EXCEPT !.mark = "noted"]
  /\ UNCHANGED <<spec, set, selector, child, servers, attached, run, sel, used>>

-----------------------------------------------------------------------------
(* The controllers of data volumes and LANs.                                  *)
ChildUp(o) ==
  /\ child[o].phase \in {"new", "busy"} /\ Goes(child[o].mark)
  /\ child' = [child EXCEPT ![o].phase = "up", ![o].mark = "clear"]
  /\ UNCHANGED <<spec, set, selector, sset, servers, attached, run, sel, used>>

ChildFails(o) ==
  /\ child[o].phase = "new" /\ Goes(child[o].mark) /\ used.trouble < MaxTrouble
  /\ \E p \in {"failed", "rejected"} :
       child' = [child EXCEPT ![o].phase = p, ![o].mark = "clear"]
  /\ used' = [used EXCEPT !.trouble = @ + 1]
  /\ UNCHANGED <<spec, set, selector, sset, servers, attached, run, sel>>

ChildRetries(o) ==
  /\ child[o].phase \in {"failed", "rejected"}
  /\ child' = [child EXCEPT ![o].phase = "new"]
  /\ UNCHANGED <<spec, set, selector, sset, servers, attached, run, sel, used>>

NoteChild(o) ==
  /\ child[o].mark = "cut" /\ child' = [child EXCEPT ![o].mark = "noted"]
  /\ UNCHANGED <<spec, set, selector, sset, servers, attached, run, sel, used>>

-----------------------------------------------------------------------------
(* The user, and the provider's restart.                                      *)
Edit ==
  /\ used.edits < MaxEdits /\ ~set.deleted
  /\ used' = [used EXCEPT !.edits = @ + 1]
  /\ \/ /\ "replicas" \in Editable /\ spec.replicas < MaxReplicas
        /\ spec' = [spec EXCEPT !.replicas = @ + 1] /\ UNCHANGED set
     \/ \E f \in Editable \cap Fields :
          spec' = [spec EXCEPT !.field[f] = @ + 1] /\ UNCHANGED set
     \/ /\ "deletion" \in Editable
        /\ set' = [set EXCEPT !.deleted = TRUE] /\ UNCHANGED spec
  /\ UNCHANGED <<selector, sset, child, servers, attached, run, sel>>

\* What was being created is cut off between the annotation and its result.
Restart ==
  /\ used.trouble < MaxTrouble
  /\ used' = [used EXCEPT !.trouble = @ + 1]
  /\ run' = Idle /\ sel' = SelIdle
  /\ set' = IF run.pc \in {"selector", "ensure", "sset", "await"}
            THEN [set EXCEPT !.mark = CutOff(@)] ELSE set
  /\ selector' = IF sel.pc = "create" THEN [selector EXCEPT !.mark = CutOff(@)]
                                      ELSE selector
  /\ \/ sset.exists /\ ~sset.named /\ Goes(sset.mark)
        /\ sset' = [sset EXCEPT !.mark = CutOff(@)]
     \/ UNCHANGED sset
  /\ \E cut \in SUBSET {o \in Children : child[o].phase = "new" /\ Goes(child[o].mark)} :
       child' = [o \in Children |-> IF o \in cut THEN [child[o] EXCEPT !.mark = CutOff(@)]
                                                 ELSE child[o]]
  /\ UNCHANGED <<spec, servers, attached>>

SetWork == \/ Observe \/ ObserveDeleted \/ NoteSet
           \/ EnsureSelector \/ EnsureNext \/ EnsureSSet \/ AwaitSSet
           \/ UpdateNext \/ UpdateSSet \/ WaitTimeout
           \/ \E o \in Children : \/ EnsureVolume(o) \/ AwaitVolume(o) \/ UpdateVolume(o)
                                  \/ EnsureLan(o) \/ AwaitLan(o) \/ UpdateLan(o)
SelWork == \/ BeginSelCreate \/ SelCreate \/ NoteSelector \/ SelObserve
           \/ SelGather \/ SelDone \/ \E t \in sel.tasks : Attach(t)
SSetWork == \/ \E r \in Idx : StartServer(r)
            \/ \E s \in servers : UpdateServer(s) \/ ReplaceServer(s) \/ RemoveServer(s)
ChildWork(o) == ChildUp(o) \/ ChildRetries(o) \/ NoteChild(o)

Next == \/ SetWork \/ SelWork \/ SSetWork \/ SSetObserve \/ SSetFails \/ NoteSSet
        \/ \E s \in servers : ServerUp(s)
        \/ \E o \in Children : ChildWork(o) \/ ChildFails(o)
        \/ Edit \/ Restart

Spec == Init /\ [][Next]_vars

\* Every worker's queue is served: a reconcile that ends is followed by another
\* one, on a change or after the poll interval, and every wait has a timeout.
Fairness ==
  /\ WF_vars(SetWork) /\ WF_vars(SelWork)
  /\ WF_vars(SSetWork) /\ WF_vars(SSetObserve) /\ WF_vars(NoteSSet)
  /\ WF_vars(\E s \in servers : ServerUp(s))
  /\ \A o \in Children : WF_vars(ChildWork(o))

FairSpec == Spec /\ Fairness

-----------------------------------------------------------------------------
(* A replica's server is asked for only when its data volumes and the LANs   *)
(* exist: the order of Create and of Update, kept over failures, scaling and *)
(* restarts.  (Not that they are available: a Create that is repeated finds  *)
(* them and does not wait again.)                                            *)
StorageFirst ==
  sset.exists => /\ \A o \in Group(LanGroup) : Exists(o)
                 /\ \A r \in 0 .. sset.replicas - 1 : \A d \in Group(r) : Exists(d)

(* A data volume is attached to one server at most, one of its own replica,  *)
(* whatever servers the ServerSet replaces while the goroutines attach.      *)
OwnServer ==
  \A d \in Idx \X Volumes : /\ attached[d] \subseteq {Key(s) : s \in At(d[1])}
                            /\ Cardinality(attached[d]) <= 1

(* A set reported ready has its data volumes attached.  Only of the replicas *)
(* it began with and of servers never replaced: the selector's state stays   *)
(* AVAILABLE once it is, so that a replica added later, or the replacement   *)
(* of a server, is reported ready before its volumes are attached.           *)
ReadyMeansAttached ==
  set.ready => \A s \in servers :
                 (s.idx = 0 \/ used.edits = 0) /\ s.gen = 0 /\ Cardinality(At(s.idx)) = 1
                   => AllAttached(s.idx, s)

\* A set scaled before its selector was AVAILABLE for the first time: without
\* that the set counts as not created and Create is repeated, which gives the
\* new number to the selector but not to a ServerSet that exists; and the
\* selector waits for the servers.
Outrun == sset.exists /\ ~selector.available /\ sset.replicas < selector.replicas

\* What an operator has to take away: an annotation on the selector, on a set
\* cut off before its selector was made, or newer than its note.
Wedged ==
  \/ Outrun
  \/ ~Goes(selector.mark)
  \/ ~Goes(set.mark) /\ ~selector.exists
  \/ "late" \in {set.mark, sset.mark} \cup {child[o].mark : o \in Children}
  \/ /\ ~RemovePending
     /\ \E m \in {set.mark, sset.mark} \cup {child[o].mark : o \in Children} : ~Goes(m)

Served ==
  /\ set.ready
  /\ \A r \in 0 .. spec.replicas - 1 :
       /\ Cardinality(At(r)) = 1
       /\ \A s \in At(r) : /\ s.up /\ s.template = spec.field["template"]
                           /\ s.boot = spec.field["boot"]
                           /\ \A d \in Group(r) : Key(s) \in attached[d]
  /\ \A o \in Children : Exists(o) => child[o].has = spec.field[FieldOf(o)]
  /\ sset.field["stateMap"] = spec.field["stateMap"]

(* In the end a set is served as its spec says, every replica on one server  *)
(* with its data volumes, or gone, unless it is wedged.  The identity        *)
(* ConfigMap is not asked for: nothing compares it, an edit of it alone is   *)
(* never passed on.                                                          *)
Converges == <>[](Wedged \/ set.gone \/ Served)

(* "The number of servers that will be created. Cannot be decreased once     *)
(* set, only increased."                                                     *)
ReplicasCreated == []<>(Cardinality(servers) >= spec.replicas)
=============================================================================
