---------------------- MODULE StatefulServerSetProofs ----------------------
(* Storage comes first, a data volume is only ever attached to a server of   *)
(* its replica, and a ready set has its volumes attached, for any number of  *)
(* replicas, volumes and LANs, whatever is edited, fails or restarts.        *)
EXTENDS StatefulServerSet, FiniteSetTheorems, TLAPS

-----------------------------------------------------------------------------
(* Types.                                                                    *)
LEMMA Constants ==
  /\ MaxReplicas \in Nat \ {0} /\ MaxEdits \in Nat /\ MaxTrouble \in Nat
  /\ 0 \in Idx /\ \A g \in Idx \cup {LanGroup} : Group(g) \in SUBSET Children
  /\ ServerFields \subseteq Fields /\ {"size", "lan", "stateMap"} \subseteq Fields
  /\ 0 \in Version /\ Version \subseteq Nat
  /\ \A m \in Marks : CutOff(m) \in Marks /\ Recovered(m) \in Marks
  /\ {"clear", "noted"} \subseteq Marks
  BY ReplicasAssumption, BoundsAssumption
  DEF Idx, Group, ServerFields, Fields, Version, Marks, CutOff, Recovered

LEMMA IdleTypes == TypeOK => Idle \in RunState /\ SelIdle \in SelState
  BY Constants DEF TypeOK, Idle, SelIdle, RunState, SelState

LEMMA InitTypes == Init => TypeOK
<1>. SUFFICES ASSUME Init PROVE TypeOK
  OBVIOUS
<1>. USE Constants
<1>1. spec \in SetSpec
  BY DEF Init, SetSpec
<1>2. Idle \in RunState /\ SelIdle \in SelState
  BY <1>1 DEF Idle, SelIdle, RunState, SelState
<1>3. sset \in SSetState
  BY DEF Init, SSetState
<1>. QED
  BY <1>1, <1>2, <1>3 DEF Init, TypeOK, SetState, SelectorState, ChildState, Phases

\* The set's worker.
LEMMA BeginTypes ==
  ASSUME TypeOK, NEW pc \in {"selector", "update"}, Begin(pc)
  PROVE  run' \in RunState
  BY Constants DEF Begin, TypeOK, RunState

LEMMA RunSets ==
  ASSUME TypeOK, NEW T \in SUBSET Children, NEW W \in SUBSET Children
  PROVE  /\ run.todo \in SUBSET Children /\ run.waits \in SUBSET Children
         /\ [run EXCEPT !.todo = T] \in RunState
         /\ [run EXCEPT !.waits = W] \in RunState
         /\ [run EXCEPT !.todo = T, !.waits = W] \in RunState
  BY DEF TypeOK, RunState

LEMMA CrTypes ==
  ASSUME TypeOK
  PROVE  /\ run.cr \in SetSpec /\ run.cr.replicas \in 1 .. MaxReplicas
         /\ run.cr.field \in [Fields -> Version] /\ run.cr.replicas \in 0 .. MaxReplicas
<1>1. run.cr \in SetSpec
  BY DEF TypeOK, RunState
<1>. QED
  BY <1>1, Constants DEF SetSpec

LEMMA FinishTypes ==
  ASSUME TypeOK, Fail \/ Finish
  PROVE  run' \in RunState /\ set' \in SetState
  BY Constants, IdleTypes DEF Fail, Finish, TypeOK, SetState

LEMMA EnsureTypes ==
  ASSUME TypeOK, NEW g \in Idx \cup {LanGroup}, Ensure(g)
  PROVE  run' \in RunState
  BY Constants DEF Ensure, TypeOK, RunState

LEMMA GivenTypes ==
  ASSUME TypeOK
  PROVE  Given(run.cr) \in SSetState
<1>1. [f \in ServerFields |-> run.cr.field[f]] \in [ServerFields -> Version]
  BY CrTypes, Constants
<1>. QED
  BY <1>1, CrTypes DEF Given, TypeOK, SSetState

\* The loops over the replicas stay below the number they began with.
GroupBound == run.group \in (0 .. run.cr.replicas - 1) \cup {LanGroup}

LEMMA NextGroupTypes ==
  ASSUME TypeOK, GroupBound, run.group # LanGroup
  PROVE  /\ NextGroup(LanGroup) \in (0 .. run.cr.replicas - 1) \cup {LanGroup}
         /\ NextGroup(LanGroup) \in Idx \cup {LanGroup}
<1>1. run.group \in 0 .. run.cr.replicas - 1
  BY DEF GroupBound
<1>. QED
  BY <1>1, CrTypes, Constants DEF NextGroup, Idx

LEMMA ChildTypes ==
  ASSUME TypeOK, NEW o \in Children
  PROVE  /\ child[o] \in ChildState
         /\ \A c \in ChildState : [child EXCEPT ![o] = c] \in [Children -> ChildState]
  BY DEF TypeOK

LEMMA SetTypes ==
  ASSUME TypeOK, Observe \/ ObserveDeleted \/ NoteSet \/ WaitTimeout
  PROVE  TypeOK'
<1>1. CASE Observe
  <2>1. set' \in SetState
    BY <1>1, Constants DEF Observe, TypeOK, SetState
  <2>2. run' \in RunState
    BY <1>1, BeginTypes DEF Observe, TypeOK
  <2>. QED
    BY <1>1, <2>1, <2>2 DEF Observe, TypeOK
<1>2. CASE ObserveDeleted \/ NoteSet
  <2>1. set' \in SetState
    BY <1>2, Constants DEF ObserveDeleted, NoteSet, TypeOK, SetState
  <2>. QED
    BY <1>2, <2>1 DEF ObserveDeleted, NoteSet, TypeOK
<1>3. CASE WaitTimeout
  <2>1. used' \in [edits : 0 .. MaxEdits, trouble : 0 .. MaxTrouble]
    BY <1>3, Constants DEF WaitTimeout, TypeOK
  <2>. QED
    BY <1>3, <2>1, FinishTypes DEF WaitTimeout, TypeOK
<1>. QED
  BY <1>1, <1>2, <1>3

LEMMA EnsureTypesOK ==
  ASSUME TypeOK, GroupBound, EnsureSelector \/ EnsureNext
  PROVE  TypeOK'
<1>1. CASE EnsureSelector
  <2>1. selector' \in SelectorState
    BY <1>1, CrTypes DEF EnsureSelector, NewSelector, TypeOK, SelectorState
  <2>2. run' \in RunState
    BY <1>1, Constants, EnsureTypes DEF EnsureSelector
  <2>. QED
    BY <1>1, <2>1, <2>2 DEF EnsureSelector, TypeOK
<1>2. CASE EnsureNext
  <2>1. run' \in RunState
    <3>1. CASE run.group = LanGroup
      BY <1>2, <3>1 DEF EnsureNext, TypeOK, RunState
    <3>2. CASE run.group # LanGroup
      BY <1>2, <3>2, NextGroupTypes, EnsureTypes DEF EnsureNext
    <3>. QED
      BY <3>1, <3>2
  <2>. QED
    BY <1>2, <2>1 DEF EnsureNext, TypeOK
<1>. QED
  BY <1>1, <1>2

LEMMA SSetTypes ==
  ASSUME TypeOK, EnsureSSet \/ AwaitSSet \/ UpdateSSet
  PROVE  TypeOK'
<1>1. CASE EnsureSSet
  <2>1. run' \in RunState /\ set' \in SetState
    <3>1. CASE Fail \/ Finish
      BY <3>1, FinishTypes
    <3>2. CASE run' = [run EXCEPT !.pc = "await"] /\ UNCHANGED set
      BY <3>2 DEF TypeOK, RunState
    <3>. QED
      BY <1>1, <3>1, <3>2 DEF EnsureSSet
  <2>. QED
    BY <1>1, <2>1, GivenTypes DEF EnsureSSet, TypeOK
<1>2. CASE AwaitSSet
  BY <1>2, FinishTypes DEF AwaitSSet, TypeOK
<1>3. CASE UpdateSSet
  <2>1. set' \in SetState
    BY <1>3, Constants DEF UpdateSSet, TypeOK, SetState
  <2>2. sset' \in SSetState
    BY <1>3, GivenTypes DEF UpdateSSet, TypeOK
  <2>. QED
    BY <1>3, <2>1, <2>2, IdleTypes DEF UpdateSSet, TypeOK
<1>. QED
  BY <1>1, <1>2, <1>3

LEMMA NewTypes ==
  ASSUME TypeOK
  PROVE  /\ NewVolume(run.cr) \in ChildState /\ NewLan(run.cr) \in ChildState
         /\ run.cr.field["size"] \in Version /\ run.cr.field["lan"] \in Version
<1>1. run.cr.field["size"] \in Version /\ run.cr.field["lan"] \in Version
  BY CrTypes, Constants
<1>. QED
  BY <1>1, Constants DEF NewVolume, NewLan, ChildState, Phases

LEMMA ObjectTypes ==
  ASSUME TypeOK, NEW o \in Children,
         \/ \E new \in ChildState : EnsureObject(o, new)
         \/ AwaitObject(o)
         \/ \E uptodate \in BOOLEAN, version \in Version : UpdateObject(o, uptodate, version)
  PROVE  TypeOK'
<1>0. /\ [run EXCEPT !.todo = @ \ {o}] \in RunState
      /\ [run EXCEPT !.waits = @ \ {o}] \in RunState
      /\ [run EXCEPT !.todo = @ \ {o}, !.waits = @ \cup {o}] \in RunState
      /\ [run EXCEPT !.todo = @ \ {o}, !.waits = {o}] \in RunState
  <2>1. /\ run.todo \in SUBSET Children /\ run.waits \in SUBSET Children
        /\ {o} \in SUBSET Children
    BY RunSets
  <2>2. /\ run.todo \ {o} \in SUBSET Children /\ run.waits \ {o} \in SUBSET Children
        /\ run.waits \cup {o} \in SUBSET Children
    BY <2>1
  <2>. QED
    BY <2>1, <2>2, RunSets
<1>1. ASSUME NEW new \in ChildState, EnsureObject(o, new)
      PROVE  TypeOK'
  <2>1. run' \in RunState
    BY <1>0, <1>1 DEF EnsureObject
  <2>. QED
    BY <1>1, <2>1 DEF EnsureObject, TypeOK
<1>2. CASE AwaitObject(o)
  <2>1. [child[o] EXCEPT !.phase = "none"] \in ChildState
    BY ChildTypes DEF ChildState, Phases
  <2>2. child' \in [Children -> ChildState]
    BY <1>2, <2>1, ChildTypes DEF AwaitObject, TypeOK
  <2>3. run' \in RunState /\ set' \in SetState
    <3>1. CASE Fail
      BY <3>1, FinishTypes
    <3>2. CASE run' = [run EXCEPT !.waits = @ \ {o}] /\ UNCHANGED set
      BY <1>0, <3>2 DEF TypeOK
    <3>. QED
      BY <1>2, <3>1, <3>2 DEF AwaitObject
  <2>. QED
    BY <1>2, <2>2, <2>3 DEF AwaitObject, TypeOK
<1>3. ASSUME NEW uptodate \in BOOLEAN, NEW version \in Version,
             UpdateObject(o, uptodate, version)
      PROVE  TypeOK'
  <2>1. \A p \in Phases : [phase |-> p, has |-> version, mark |-> child[o].mark] \in ChildState
    BY ChildTypes DEF ChildState
  <2>2. child' \in [Children -> ChildState]
    BY <1>3, <2>1, ChildTypes DEF UpdateObject, TypeOK, ChildState, Phases
  <2>3. run' \in RunState /\ set' \in SetState
    <3>1. CASE Fail
      BY <3>1, FinishTypes
    <3>2. CASE ~Fail
      BY <1>0, <1>3, <3>2 DEF UpdateObject, TypeOK
    <3>. QED
      BY <3>1, <3>2
  <2>. QED
    BY <1>3, <2>2, <2>3 DEF UpdateObject, TypeOK
<1>. QED
  BY <1>1, <1>2, <1>3

LEMMA UpdateNextTypes ==
  ASSUME TypeOK, GroupBound, UpdateNext
  PROVE  TypeOK'
<1>1. run' \in RunState
  <2>1. CASE run.group = LanGroup
    BY <2>1 DEF UpdateNext, TypeOK, RunState
  <2>2. CASE run.group # LanGroup
    <3>1. NextGroup(LanGroup) \in Idx \cup {LanGroup}
      BY <2>2, NextGroupTypes
    <3>2. Group(NextGroup(LanGroup)) \in SUBSET Children
      BY <3>1, Constants
    <3>. QED
      BY <2>2, <3>1, <3>2 DEF UpdateNext, TypeOK, RunState
  <2>. QED
    BY <2>1, <2>2
<1>. QED
  BY <1>1 DEF UpdateNext, TypeOK

LEMMA SetWorkTypes ==
  ASSUME TypeOK, GroupBound, SetWork
  PROVE  TypeOK'
<1>1. ASSUME NEW o \in Children, EnsureVolume(o) \/ EnsureLan(o)
      PROVE  TypeOK'
  BY <1>1, NewTypes, ObjectTypes DEF EnsureVolume, EnsureLan
<1>2. ASSUME NEW o \in Children, AwaitVolume(o) \/ AwaitLan(o)
      PROVE  TypeOK'
  BY <1>2, ObjectTypes DEF AwaitVolume, AwaitLan
<1>3. ASSUME NEW o \in Children, UpdateVolume(o) \/ UpdateLan(o)
      PROVE  TypeOK'
  BY <1>3, NewTypes, ObjectTypes DEF UpdateVolume, UpdateLan, VolumeUpToDate, LanUpToDate
<1>. QED
  BY <1>1, <1>2, <1>3, SetTypes, EnsureTypesOK, SSetTypes, UpdateNextTypes DEF SetWork

\* The selector's worker.
LEMMA GatherTypes ==
  ASSUME TypeOK, SelGather
  PROVE  sel' \in SelState
<1>1. sel.next \in Idx /\ sel.next + 1 \in 0 .. MaxReplicas
  <2>1. sel.next < sel.last
    BY DEF SelGather
  <2>2. sel.next \in 0 .. MaxReplicas /\ sel.last \in 0 .. MaxReplicas
    BY DEF TypeOK, SelState
  <2>. QED
    BY <2>1, <2>2, Constants DEF Idx
<1>2. Listed(sel.next) \subseteq Idx \X Volumes
  BY <1>1 DEF Listed
<1>3. \A s \in At(sel.next) : Key(s) \in Idx \X Nat
  BY DEF At, Key, TypeOK, Server
<1>4. CASE At(sel.next) = {}
  BY <1>1, <1>4 DEF SelGather, TypeOK, SelState
<1>5. ASSUME NEW s \in At(sel.next),
             sel' = [sel EXCEPT !.next = @ + 1,
                                !.tasks = @ \cup IF Ready(sel.next, s)
                                                 THEN Listed(sel.next) \X {Key(s)} ELSE {}]
      PROVE  sel' \in SelState
  <2>1. Listed(sel.next) \X {Key(s)} \in SUBSET ((Idx \X Volumes) \X (Idx \X Nat))
    BY <1>2, <1>3
  <2>. QED
    BY <1>1, <1>5, <2>1 DEF TypeOK, SelState
<1>. QED
  BY <1>4, <1>5 DEF SelGather

LEMMA SelWorkTypes ==
  ASSUME TypeOK, SelWork
  PROVE  TypeOK'
<1>1. CASE BeginSelCreate
  BY <1>1 DEF BeginSelCreate, TypeOK, SelState
<1>2. CASE SelCreate \/ NoteSelector
  <2>1. selector' \in SelectorState
    BY <1>2, Constants DEF SelCreate, NoteSelector, TypeOK, SelectorState
  <2>. QED
    BY <1>2, <2>1, IdleTypes DEF SelCreate, NoteSelector, TypeOK
<1>3. CASE SelObserve
  <2>1. set' \in SetState
    BY <1>3, Constants DEF SelObserve, RemovePendingAnnotations, TypeOK, SetState
  <2>2. sset' \in SSetState
    BY <1>3, Constants DEF SelObserve, RemovePendingAnnotations, TypeOK, SSetState
  <2>3. child' \in [Children -> ChildState]
    BY <1>3, Constants DEF SelObserve, RemovePendingAnnotations, TypeOK, ChildState
  <2>4. selector' \in SelectorState
    BY <1>3 DEF SelObserve, TypeOK, SelectorState
  <2>5. sel' \in SelState
    BY <1>3 DEF SelObserve, TypeOK, SelState, SelectorState
  <2>. QED
    BY <1>3, <2>1, <2>2, <2>3, <2>4, <2>5 DEF SelObserve, TypeOK
<1>4. CASE SelGather
  BY <1>4, GatherTypes DEF SelGather, TypeOK
<1>5. CASE SelDone
  BY <1>5, IdleTypes DEF SelDone, TypeOK
<1>6. ASSUME NEW t \in sel.tasks, Attach(t)
      PROVE  TypeOK'
  <2>1. t[1] \in Idx \X Volumes /\ t[2] \in Idx \X Nat
    BY DEF TypeOK, SelState
  <2>2. sel' \in SelState
    BY <1>6 DEF Attach, TypeOK, SelState
  <2>3. attached' \in [Idx \X Volumes -> SUBSET (Idx \X Nat)]
    BY <1>6, <2>1 DEF Attach, TypeOK
  <2>. QED
    BY <1>6, <2>2, <2>3 DEF Attach, TypeOK
<1>. QED
  BY <1>1, <1>2, <1>3, <1>4, <1>5, <1>6 DEF SelWork

\* The ServerSet's worker and the API.
ServerWork == \/ SSetWork \/ SSetObserve \/ SSetFails \/ NoteSSet
              \/ \E s \in servers : ServerUp(s)

LEMMA ServerTypes ==
  ASSUME TypeOK, ServerWork
  PROVE  TypeOK'
<1>. USE Constants
<1>0. sset.field["template"] \in Version /\ sset.field["boot"] \in Version
  <2>1. sset.field \in [ServerFields -> Version]
    BY DEF TypeOK, SSetState
  <2>. QED
    BY <2>1 DEF ServerFields
<1>1. [sset EXCEPT !.ready = FALSE] \in SSetState
  BY DEF TypeOK, SSetState
<1>2. ASSUME NEW r \in Idx, StartServer(r)
      PROVE  TypeOK'
  <2>1. servers' \subseteq Server
    <3>1. [idx |-> r, gen |-> 0, template |-> sset.field["template"],
           boot |-> sset.field["boot"], up |-> FALSE] \in Server
      BY <1>0 DEF Server
    <3>. QED
      BY <1>2, <3>1 DEF StartServer, TypeOK
  <2>. QED
    BY <1>1, <1>2, <2>1 DEF StartServer, TypeOK
<1>3. ASSUME NEW s \in servers, ServerUp(s)
      PROVE  TypeOK'
  <2>1. servers' \subseteq Server
    BY <1>3 DEF ServerUp, TypeOK, Server
  <2>. QED
    BY <1>3, <2>1 DEF ServerUp, TypeOK
<1>4. ASSUME NEW s \in servers, UpdateServer(s) \/ ReplaceServer(s)
      PROVE  TypeOK'
  <2>1. servers' \subseteq Server
    <3>1. s \in Server
      BY DEF TypeOK
    <3>2. [s EXCEPT !.template = sset.field["template"]] \in Server
      BY <1>0, <3>1 DEF Server
    <3>3. [s EXCEPT !.boot = sset.field["boot"]] \in Server
      BY <1>0, <3>1 DEF Server
    <3>4. [s EXCEPT !.gen = @ + 1, !.boot = sset.field["boot"],
                    !.template = sset.field["template"], !.up = FALSE] \in Server
      <4>1. s.idx \in Idx /\ s.gen \in Nat /\ s.gen + 1 \in Nat
        BY <3>1 DEF Server
      <4>2. [idx |-> s.idx, gen |-> s.gen + 1, template |-> sset.field["template"],
             boot |-> sset.field["boot"], up |-> FALSE] \in Server
        BY <1>0, <4>1 DEF Server
      <4>. QED
        BY <3>1, <4>2 DEF Server
    <3>. QED
      BY <1>4, <3>2, <3>3, <3>4 DEF UpdateServer, ReplaceServer, TypeOK
  <2>. QED
    BY <1>1, <1>4, <2>1 DEF UpdateServer, ReplaceServer, TypeOK
<1>5. ASSUME NEW s \in servers, RemoveServer(s)
      PROVE  TypeOK'
  BY <1>5 DEF RemoveServer, TypeOK
<1>6. CASE SSetObserve \/ NoteSSet
  <2>1. sset' \in SSetState
    <3>1. SSetServes \in BOOLEAN
      BY DEF SSetServes
    <3>2. /\ [sset EXCEPT !.named = TRUE, !.ok = TRUE, !.mark = "clear"] \in SSetState
          /\ [sset EXCEPT !.ready = SSetServes, !.mark = "clear"] \in SSetState
          /\ [sset EXCEPT !.mark = "noted"] \in SSetState
      BY <3>1 DEF TypeOK, SSetState
    <3>3. \/ sset' = [sset EXCEPT !.named = TRUE, !.ok = TRUE, !.mark = "clear"]
          \/ sset' = [sset EXCEPT !.ready = SSetServes, !.mark = "clear"]
          \/ sset' = [sset EXCEPT !.mark = "noted"]
      BY <1>6 DEF SSetObserve, NoteSSet
    <3>. QED
      BY <3>2, <3>3
  <2>. QED
    BY <1>6, <2>1 DEF SSetObserve, NoteSSet, TypeOK
<1>7. CASE SSetFails
  <2>1. sset' \in SSetState
    BY <1>7 DEF SSetFails, TypeOK, SSetState
  <2>2. used' \in [edits : 0 .. MaxEdits, trouble : 0 .. MaxTrouble]
    BY <1>7 DEF SSetFails, TypeOK
  <2>. QED
    BY <1>7, <2>1, <2>2 DEF SSetFails, TypeOK
<1>. QED
  BY <1>2, <1>3, <1>4, <1>5, <1>6, <1>7 DEF ServerWork, SSetWork

\* The controllers of volumes and LANs, the user, the restart.  A field's
\* version is at most the number of edits.
EditsBound == \A f \in Fields : spec.field[f] <= used.edits
TInv == TypeOK /\ EditsBound /\ GroupBound

LEMMA ChildWorkTypes ==
  ASSUME TypeOK, NEW o \in Children, ChildWork(o) \/ ChildFails(o)
  PROVE  TypeOK'
<1>1. \A p \in Phases, m \in Marks :
        [phase |-> p, has |-> child[o].has, mark |-> m] \in ChildState
  BY ChildTypes DEF ChildState
<1>2. child' \in [Children -> ChildState]
  BY <1>1, ChildTypes, Constants
  DEF ChildWork, ChildUp, ChildRetries, NoteChild, ChildFails, TypeOK, ChildState, Phases
<1>3. used' \in [edits : 0 .. MaxEdits, trouble : 0 .. MaxTrouble]
  BY Constants DEF ChildWork, ChildUp, ChildRetries, NoteChild, ChildFails, TypeOK
<1>. QED
  BY <1>2, <1>3 DEF ChildWork, ChildUp, ChildRetries, NoteChild, ChildFails, TypeOK

LEMMA EditTypes ==
  ASSUME TInv, Edit
  PROVE  TypeOK' /\ EditsBound'
<1>. USE Constants
<1>1. spec.field \in [Fields -> Version] /\ spec.replicas \in 1 .. MaxReplicas
  BY DEF TInv, TypeOK, SetSpec
<1>2. /\ used' \in [edits : 0 .. MaxEdits, trouble : 0 .. MaxTrouble]
      /\ used'.edits = used.edits + 1 /\ used.edits \in Nat /\ used'.edits <= MaxEdits
  BY DEF Edit, TInv, TypeOK
<1>3. set' \in SetState
  BY DEF Edit, TInv, TypeOK, SetState
<1>4. spec' \in SetSpec /\ EditsBound'
  <2>1. ASSUME NEW f \in Fields, spec' = [spec EXCEPT !.field[f] = @ + 1]
        PROVE  spec' \in SetSpec /\ EditsBound'
    <3>1. spec.field[f] \in Nat /\ spec.field[f] <= used.edits
      BY <1>1 DEF TInv, EditsBound
    <3>2. [spec.field EXCEPT ![f] = @ + 1] \in [Fields -> Version]
      BY <1>1, <1>2, <3>1 DEF Version
    <3>3. /\ spec'.field = [spec.field EXCEPT ![f] = @ + 1] /\ spec' \in SetSpec
      BY <2>1, <3>2 DEF TInv, TypeOK, SetSpec
    <3>4. \A g \in Fields : spec'.field[g] <= used.edits + 1
      BY <1>1, <1>2, <3>1, <3>3 DEF TInv, EditsBound, Version
    <3>. QED
      BY <1>2, <3>3, <3>4 DEF EditsBound
  <2>2. ASSUME spec' = [spec EXCEPT !.replicas = @ + 1], spec.replicas < MaxReplicas
        PROVE  spec' \in SetSpec /\ EditsBound'
    <3>1. spec' \in SetSpec /\ spec'.field = spec.field
      BY <1>1, <2>2 DEF TInv, TypeOK, SetSpec
    <3>. QED
      BY <1>1, <1>2, <3>1 DEF TInv, EditsBound, Version
  <2>3. ASSUME UNCHANGED spec
        PROVE  spec' \in SetSpec /\ EditsBound'
    BY <1>1, <1>2, <2>3 DEF TInv, TypeOK, EditsBound, Version
  <2>. QED
    BY <2>1, <2>2, <2>3 DEF Edit
<1>. QED
  BY <1>2, <1>3, <1>4 DEF Edit, TInv, TypeOK

LEMMA RestartTypes ==
  ASSUME TypeOK, Restart
  PROVE  TypeOK'
<1>1. child' \in [Children -> ChildState]
  BY Constants DEF Restart, TypeOK, ChildState
<1>2. set' \in SetState
  BY Constants DEF Restart, TypeOK, SetState
<1>3. sset' \in SSetState
  BY Constants DEF Restart, TypeOK, SSetState
<1>4. selector' \in SelectorState
  BY Constants DEF Restart, TypeOK, SelectorState
<1>5. used' \in [edits : 0 .. MaxEdits, trouble : 0 .. MaxTrouble]
  BY Constants DEF Restart, TypeOK
<1>. QED
  BY <1>1, <1>2, <1>3, <1>4, <1>5, IdleTypes DEF Restart, TypeOK

\* Only an edit changes the spec or counts as one.
LEMMA OthersKeepSpec ==
  ASSUME TypeOK, [Next]_vars, ~Edit
  PROVE  UNCHANGED spec /\ used'.edits = used.edits
<1>1. CASE SetWork
  BY <1>1
  DEF SetWork, Observe, ObserveDeleted, NoteSet, EnsureSelector, EnsureNext, EnsureSSet,
      AwaitSSet, UpdateNext, UpdateSSet, WaitTimeout, EnsureVolume, EnsureLan, EnsureObject,
      AwaitVolume, AwaitLan, AwaitObject, UpdateVolume, UpdateLan, UpdateObject, TypeOK
<1>2. CASE SelWork
  BY <1>2 DEF SelWork, BeginSelCreate, SelCreate, NoteSelector, SelObserve, SelGather, SelDone,
              Attach
<1>3. CASE ServerWork
  BY <1>3 DEF ServerWork, SSetWork, SSetObserve, SSetFails, NoteSSet, ServerUp, StartServer,
              UpdateServer, ReplaceServer, RemoveServer, TypeOK
<1>4. CASE (\E o \in Children : ChildWork(o) \/ ChildFails(o)) \/ Restart
  BY <1>4 DEF ChildWork, ChildUp, ChildRetries, NoteChild, ChildFails, Restart, TypeOK
<1>. QED
  BY <1>1, <1>2, <1>3, <1>4 DEF Next, ServerWork, vars

\* Only these change the set's worker's place in its loops.
LEMMA GroupKept ==
  ASSUME TInv, [Next]_vars
  PROVE  GroupBound'
<1>0. TypeOK /\ GroupBound
  BY DEF TInv
<1>1. CASE run'.group = run.group /\ run'.cr = run.cr
  BY <1>0, <1>1 DEF GroupBound
<1>2. CASE run' = Idle \/ \E pc \in {"selector", "update"} : Begin(pc)
  <2>1. run'.group = 0 /\ run'.cr = spec
    BY <1>2 DEF Idle, Begin
  <2>2. spec.replicas \in 1 .. MaxReplicas
    BY <1>0 DEF TypeOK, SetSpec
  <2>. QED
    BY <2>1, <2>2, Constants DEF GroupBound
<1>3. CASE EnsureSelector
  <2>1. run'.group = 0 /\ run'.cr = run.cr
    BY <1>0, <1>3 DEF EnsureSelector, Ensure, TypeOK, RunState
  <2>. QED
    BY <1>0, <2>1, CrTypes, Constants DEF GroupBound
<1>4. CASE EnsureNext \/ UpdateNext
  <2>1. run'.cr = run.cr
    BY <1>0, <1>4 DEF EnsureNext, UpdateNext, Ensure, TypeOK, RunState
  <2>2. CASE run.group = LanGroup
    BY <1>0, <1>4, <2>1, <2>2 DEF EnsureNext, UpdateNext, GroupBound, TypeOK, RunState
  <2>3. CASE run.group # LanGroup
    <3>1. run'.group = NextGroup(LanGroup)
      BY <1>0, <1>4, <2>3 DEF EnsureNext, UpdateNext, Ensure, TypeOK, RunState
    <3>. QED
      BY <1>0, <2>1, <2>3, <3>1, NextGroupTypes DEF GroupBound
  <2>. QED
    BY <2>2, <2>3
<1>5. ASSUME NEW o \in Children, \/ EnsureVolume(o) \/ AwaitVolume(o) \/ UpdateVolume(o)
                                \/ EnsureLan(o) \/ AwaitLan(o) \/ UpdateLan(o)
      PROVE  (run'.group = run.group /\ run'.cr = run.cr) \/ run' = Idle
  BY <1>0, <1>5
  DEF EnsureVolume, EnsureLan, EnsureObject, AwaitVolume, AwaitLan, AwaitObject,
      UpdateVolume, UpdateLan, UpdateObject, Fail, TypeOK, RunState
<1>6. CASE \/ Observe \/ ObserveDeleted \/ NoteSet \/ EnsureSSet \/ AwaitSSet \/ UpdateSSet
           \/ WaitTimeout
  <2>1. \/ run'.group = run.group /\ run'.cr = run.cr
        \/ run' = Idle
        \/ \E pc \in {"selector", "update"} : Begin(pc)
    BY <1>0, <1>6 DEF Observe, ObserveDeleted, NoteSet, EnsureSSet, AwaitSSet, UpdateSSet,
                      WaitTimeout, Fail, Finish, TypeOK, RunState
  <2>. QED
    BY <1>1, <1>2, <2>1
<1>7. CASE ~SetWork
  <2>1. UNCHANGED run \/ run' = Idle
    BY <1>7 DEF Next, vars, SelWork, BeginSelCreate, SelCreate, NoteSelector, SelObserve,
                SelGather, SelDone, Attach, SSetWork, StartServer, UpdateServer, ReplaceServer,
                RemoveServer, SSetObserve, SSetFails, NoteSSet, ServerUp, ChildWork, ChildUp,
                ChildRetries, NoteChild, ChildFails, Edit, Restart
  <2>. QED
    BY <1>1, <1>2, <2>1
<1>. QED
  BY <1>1, <1>2, <1>3, <1>4, <1>5, <1>6, <1>7 DEF SetWork

(* Every step keeps the types, and no field is newer than the edits.          *)
LEMMA NextTypes ==
  ASSUME TInv, [Next]_vars
  PROVE  TInv'
<1>1. CASE UNCHANGED vars
  BY <1>1, GroupKept DEF vars, TInv, TypeOK, EditsBound
<1>2. CASE Next /\ ~Edit
  <2>1. TypeOK'
    BY <1>2, SetWorkTypes, SelWorkTypes, ServerTypes, ChildWorkTypes, RestartTypes
    DEF Next, TInv, ServerWork
  <2>2. EditsBound'
    BY <1>2, OthersKeepSpec DEF TInv, EditsBound
  <2>. QED
    BY <2>1, <2>2, GroupKept DEF TInv
<1>. QED
  BY <1>1, <1>2, EditTypes, GroupKept DEF TInv

LEMMA InitBound == Init => TInv
<1>1. Init => EditsBound
  BY DEF Init, EditsBound
<1>2. Init => GroupBound
  BY Constants DEF Init, GroupBound, Idle
<1>. QED
  BY <1>1, <1>2, InitTypes DEF TInv

(* The state of the three workers keeps its types: no worker's loop over the  *)
(* replicas passes the last one, and no child is given a version that no edit *)
(* made.                                                                      *)
THEOREM StatefulTypeOK == Spec => []TypeOK
<1>1. TInv /\ [Next]_vars => TInv'
  BY NextTypes
<1>. QED
  BY <1>1, InitBound, PTL DEF Spec, TInv

-----------------------------------------------------------------------------
(* Storage first.  StorageFirst is not inductive: that the ServerSet is given *)
(* a number of replicas whose volumes exist follows from what the worker has  *)
(* found or made on its way, group by group (FoundSoFar), and that an object  *)
(* once found stays from the worker deleting no object but one it made itself *)
(* in this reconcile, which nobody counted on yet (OnlyNew).                  *)
Needed(o, n) == o[1] = LanGroup \/ o[1] \in 0 .. n - 1
Present(n) == \A o \in Children : Needed(o, n) => Exists(o)
Before(o) == IF run.group = LanGroup THEN o[1] \in 0 .. run.cr.replicas - 1
                                     ELSE o[1] \in 0 .. run.group - 1

Kept == sset.exists => Present(sset.replicas)
FoundSoFar ==
  run.pc \in {"ensure", "update"} =>
    \A o \in Children : Before(o) \/ (o[1] = run.group /\ o \notin run.todo) => Exists(o)
FoundAll == run.pc \in {"sset", "await", "ssetUpdate"} => Present(run.cr.replicas)
OnlyNew ==
  run.pc = "ensure" /\ sset.exists => \A o \in run.waits : ~Needed(o, sset.replicas)
SInv == Kept /\ FoundSoFar /\ FoundAll /\ OnlyNew

Same == /\ sset'.exists = sset.exists /\ sset'.replicas = sset.replicas
        /\ \A o \in Children : Exists(o) => Exists(o)'

LEMMA PresentKept ==
  ASSUME Same, NEW n, Present(n)
  PROVE  Present(n)'
  BY DEF Same, Present, Needed

LEMMA KeptKept == Kept /\ Same => Kept'
  BY DEF Kept, Same, Present, Needed

\* Steps of the others.
LEMMA OthersKeep ==
  ASSUME SInv, Same, UNCHANGED run
  PROVE  SInv'
<1>1. FoundSoFar'
  BY DEF SInv, FoundSoFar, Same, Before
<1>2. FoundAll'
  BY DEF SInv, FoundAll, Same, Present, Needed
<1>3. OnlyNew'
  BY DEF SInv, OnlyNew, Same, Needed
<1>. QED
  BY <1>1, <1>2, <1>3, KeptKept DEF SInv

\* The end of a reconcile, and its beginning.
LEMMA PausesKeep ==
  ASSUME TypeOK, Kept', run' = Idle \/ \E pc \in {"selector", "update"} : Begin(pc)
  PROVE  SInv'
<1>1. CASE run' = Idle \/ Begin("selector")
  BY <1>1 DEF Idle, Begin, SInv, FoundSoFar, FoundAll, OnlyNew
<1>2. CASE Begin("update")
  <2>1. run'.pc = "update" /\ run'.group = 0 /\ run'.todo = Group(0)
    BY <1>2 DEF Begin
  <2>2. \A o \in Children : (o[1] = 0 => o \in Group(0)) /\ o[1] \notin 0 .. -1
    BY DEF Group
  <2>3. ASSUME NEW o \in Children
        PROVE  ~Before(o)' /\ ~(o[1] = run'.group /\ o \notin run'.todo)
    BY <2>1, <2>2 DEF Before, LanGroup
  <2>. QED
    BY <2>1, <2>3 DEF SInv, FoundSoFar, FoundAll, OnlyNew
<1>. QED
  BY <1>1, <1>2

\* The worker starts with the first replica's volumes.
LEMMA BeginEnsure ==
  ASSUME TypeOK, SInv, Same, Ensure(0)
  PROVE  SInv'
<1>1. /\ run'.pc = "ensure" /\ run'.group = 0 /\ run'.todo = Group(0) /\ run'.waits = {}
  BY DEF Ensure, TypeOK, RunState
<1>2. \A o \in Children : (o[1] = 0 => o \in Group(0)) /\ o[1] \notin 0 .. -1
  BY DEF Group
<1>3. ASSUME NEW o \in Children
      PROVE  ~Before(o)' /\ ~(o[1] = run'.group /\ o \notin run'.todo)
  BY <1>1, <1>2 DEF Before, LanGroup
<1>. QED
  BY <1>1, <1>3, KeptKept DEF SInv, FoundSoFar, FoundAll, OnlyNew

\* It goes on to the next group when the objects of this one exist.
LEMMA NextKeeps ==
  ASSUME TypeOK, GroupBound, SInv, Same, EnsureNext \/ UpdateNext
  PROVE  SInv'
<1>0. run.pc \in {"ensure", "update"} /\ run.todo = {} /\ run'.cr = run.cr
  BY DEF EnsureNext, UpdateNext, GroupDone, Ensure, TypeOK, RunState
<1>1. \A o \in Children : Before(o) \/ o[1] = run.group => Exists(o)
  BY <1>0 DEF SInv, FoundSoFar
<1>2. CASE run.group = LanGroup
  <2>1. run'.pc \in {"sset", "ssetUpdate"}
    BY <1>2 DEF EnsureNext, UpdateNext, TypeOK, RunState
  <2>2. Present(run.cr.replicas)
    BY <1>1, <1>2 DEF Present, Needed, Before
  <2>3. Present(run.cr.replicas)'
    BY <1>0, <2>2 DEF Present, Needed, Same
  <2>. QED
    BY <2>1, <2>3, KeptKept DEF SInv, FoundSoFar, FoundAll, OnlyNew
<1>3. CASE run.group # LanGroup
  <2>1. /\ run'.pc \in {"ensure", "update"} /\ run'.group = NextGroup(LanGroup)
        /\ run'.todo = Group(run'.group) /\ (run'.pc = "ensure" => run'.waits = {})
    BY <1>3 DEF EnsureNext, UpdateNext, Ensure, TypeOK, RunState
  <2>2. run.group \in 0 .. run.cr.replicas - 1 /\ run.cr.replicas \in Nat
    BY <1>3, CrTypes, Constants DEF GroupBound
  <2>3. ASSUME NEW o \in Children, Before(o)'
        PROVE  Before(o) \/ o[1] = run.group
    <3>1. o[1] \in 0 .. run.group
      <4>1. CASE run.group + 1 = run.cr.replicas
        BY <1>0, <1>3, <2>1, <2>2, <2>3, <4>1 DEF NextGroup, Before
      <4>2. CASE run.group + 1 # run.cr.replicas
        BY <1>0, <1>3, <2>1, <2>2, <2>3, <4>2 DEF NextGroup, Before, LanGroup
      <4>. QED
        BY <4>1, <4>2
    <3>. QED
      BY <1>3, <2>2, <3>1 DEF Before
  <2>4. \A o \in Children : o[1] = run'.group => o \in run'.todo
    BY <2>1 DEF Group
  <2>5. FoundSoFar'
    BY <1>1, <2>3, <2>4 DEF FoundSoFar, Same
  <2>. QED
    BY <2>1, <2>5, KeptKept DEF SInv, FoundAll, OnlyNew
<1>. QED
  BY <1>2, <1>3

\* One object: found, made, waited for or updated.
LEMMA EnsureKeeps ==
  ASSUME TypeOK, SInv, NEW o \in Children, NEW new, new.phase = "new", EnsureObject(o, new)
  PROVE  SInv'
<1>1. run.pc = "ensure" /\ UNCHANGED sset
  BY DEF EnsureObject
<1>2. /\ run'.pc = "ensure" /\ run'.group = run.group /\ run'.cr = run.cr
      /\ run'.todo = run.todo \ {o}
      /\ IF Exists(o) THEN run'.waits = run.waits ELSE run'.waits = run.waits \cup {o}
  BY <1>1 DEF EnsureObject, TypeOK, RunState
<1>3. (\A p \in Children : Exists(p) => Exists(p)') /\ Exists(o)'
  BY DEF EnsureObject, Exists, TypeOK
<1>4. Same
  BY <1>1, <1>3 DEF Same
<1>5. FoundSoFar'
  BY <1>1, <1>2, <1>3 DEF SInv, FoundSoFar, Before
<1>6. OnlyNew'
  BY <1>1, <1>2 DEF SInv, OnlyNew, Kept, Present, Needed
<1>. QED
  BY <1>2, <1>4, <1>5, <1>6, KeptKept DEF SInv, FoundAll

LEMMA AwaitKeeps ==
  ASSUME TypeOK, SInv, NEW o \in Children, AwaitObject(o)
  PROVE  SInv'
<1>1. run.pc \in {"ensure", "update"} /\ o \in run.waits /\ UNCHANGED sset
  BY DEF AwaitObject
<1>2. CASE run' = [run EXCEPT !.waits = @ \ {o}] /\ UNCHANGED child
  <2>1. /\ run'.pc = run.pc /\ run'.group = run.group /\ run'.cr = run.cr
        /\ run'.todo = run.todo /\ run'.waits \subseteq run.waits
    BY <1>2 DEF TypeOK, RunState
  <2>2. FoundSoFar'
    BY <1>2, <2>1 DEF SInv, FoundSoFar, Before, Exists
  <2>3. OnlyNew'
    BY <1>1, <2>1 DEF SInv, OnlyNew, Needed
  <2>4. Same
    BY <1>1, <1>2 DEF Same, Exists
  <2>. QED
    BY <1>1, <2>1, <2>2, <2>3, <2>4, KeptKept DEF SInv, FoundAll
<1>3. CASE run' = Idle /\ UNCHANGED child
  <2>1. Same
    BY <1>1, <1>3 DEF Same, Exists
  <2>. QED
    BY <1>3, <2>1, KeptKept, PausesKeep DEF SInv
<1>4. CASE run' = Idle /\ run.pc = "ensure" /\ child' = [child EXCEPT ![o].phase = "none"]
  <2>1. sset.exists => ~Needed(o, sset.replicas)
    BY <1>1, <1>4 DEF SInv, OnlyNew
  <2>2. \A p \in Children : p # o /\ Exists(p) => Exists(p)'
    BY <1>4 DEF Exists, TypeOK
  <2>3. Kept'
    BY <1>1, <2>1, <2>2 DEF SInv, Kept, Present, Needed
  <2>. QED
    BY <1>4, <2>3, PausesKeep
<1>. QED
  BY <1>2, <1>3, <1>4 DEF AwaitObject, Fail

LEMMA UpdateKeeps ==
  ASSUME TypeOK, SInv, NEW o \in Children, NEW uptodate, NEW version,
         UpdateObject(o, uptodate, version)
  PROVE  SInv'
<1>1. run.pc = "update" /\ UNCHANGED sset
  BY DEF UpdateObject
<1>2. \A p \in Children : Exists(p) => Exists(p)'
  BY DEF UpdateObject, Exists, TypeOK, ChildState
<1>3. Same
  BY <1>1, <1>2 DEF Same
<1>4. CASE run' = Idle
  BY <1>3, <1>4, KeptKept, PausesKeep DEF SInv
<1>5. CASE run' # Idle
  <2>1. /\ run'.pc = "update" /\ run'.group = run.group /\ run'.cr = run.cr
        /\ run'.todo = run.todo \ {o} /\ Exists(o)
    BY <1>1, <1>5 DEF UpdateObject, Fail, TypeOK, RunState
  <2>2. FoundSoFar'
    BY <1>1, <1>2, <2>1 DEF SInv, FoundSoFar, Before
  <2>. QED
    BY <1>3, <2>1, <2>2, KeptKept DEF SInv, FoundAll, OnlyNew
<1>. QED
  BY <1>4, <1>5

\* The ServerSet is given what was found.
LEMMA SSetKeeps ==
  ASSUME TypeOK, SInv, EnsureSSet \/ AwaitSSet \/ UpdateSSet
  PROVE  SInv'
<1>1. run.pc \in {"sset", "await", "ssetUpdate"} /\ UNCHANGED child
  BY DEF EnsureSSet, AwaitSSet, UpdateSSet
<1>2. Present(run.cr.replicas)
  BY <1>1 DEF SInv, FoundAll
<1>3. Given(run.cr).exists = TRUE /\ Given(run.cr).replicas = run.cr.replicas
  BY DEF Given, TypeOK, SSetState
<1>4. sset' = sset \/ sset' = Given(run.cr)
  BY DEF EnsureSSet, AwaitSSet, UpdateSSet
<1>5. \A n : Present(n) => Present(n)'
  BY <1>1 DEF Present, Needed, Exists
<1>6. Kept'
  <2>1. CASE sset' = sset
    BY <1>5, <2>1 DEF SInv, Kept, Present, Needed
  <2>2. CASE sset' = Given(run.cr)
    BY <1>1, <1>2, <1>3, <2>2 DEF Kept, Present, Needed, Exists
  <2>. QED
    BY <1>4, <2>1, <2>2
<1>7. CASE run' = Idle
  BY <1>6, <1>7, PausesKeep
<1>8. CASE run' # Idle
  <2>1. run'.pc = "await" /\ run'.cr = run.cr
    BY <1>8 DEF EnsureSSet, AwaitSSet, UpdateSSet, Fail, Finish, TypeOK, RunState
  <2>2. FoundAll'
    BY <1>1, <1>2, <2>1 DEF FoundAll, Present, Needed, Exists
  <2>. QED
    BY <1>6, <2>1, <2>2 DEF SInv, FoundSoFar, OnlyNew
<1>. QED
  BY <1>7, <1>8

LEMMA SetWorkKeeps ==
  ASSUME TypeOK, GroupBound, SInv, SetWork
  PROVE  SInv'
<1>1. CASE Observe \/ ObserveDeleted \/ NoteSet \/ WaitTimeout
  <2>1. Same
    BY <1>1 DEF Observe, ObserveDeleted, NoteSet, WaitTimeout, Same, Exists
  <2>2. UNCHANGED run \/ run' = Idle \/ \E pc \in {"selector", "update"} : Begin(pc)
    BY <1>1 DEF Observe, ObserveDeleted, NoteSet, WaitTimeout, Fail
  <2>. QED
    BY <2>1, <2>2, OthersKeep, KeptKept, PausesKeep DEF SInv
<1>2. CASE EnsureSelector
  <2>1. Same /\ Ensure(0)
    BY <1>2 DEF EnsureSelector, Same, Exists
  <2>. QED
    BY <2>1, BeginEnsure
<1>3. CASE EnsureNext \/ UpdateNext
  <2>1. Same
    BY <1>3 DEF EnsureNext, UpdateNext, Same, Exists
  <2>. QED
    BY <1>3, <2>1, NextKeeps
<1>4. ASSUME NEW o \in Children, EnsureVolume(o) \/ EnsureLan(o)
      PROVE  SInv'
  <2>1. NewVolume(run.cr).phase = "new" /\ NewLan(run.cr).phase = "new"
    BY DEF NewVolume, NewLan
  <2>. QED
    BY <1>4, <2>1, EnsureKeeps DEF EnsureVolume, EnsureLan
<1>5. ASSUME NEW o \in Children, AwaitVolume(o) \/ AwaitLan(o) \/ UpdateVolume(o) \/ UpdateLan(o)
      PROVE  SInv'
  BY <1>5, AwaitKeeps, UpdateKeeps DEF AwaitVolume, AwaitLan, UpdateVolume, UpdateLan
<1>. QED
  BY <1>1, <1>2, <1>3, <1>4, <1>5, SSetKeeps DEF SetWork

LEMMA OtherWorkSame ==
  ASSUME TypeOK, Next, ~SetWork, ~Restart
  PROVE  Same /\ UNCHANGED run
<1>0. ASSUME UNCHANGED <<sset, child, run>>
      PROVE  Same /\ UNCHANGED run
  BY <1>0 DEF Same, Exists
<1>1. CASE SelWork
  <2>1. CASE SelObserve
    <3>1. sset'.exists = sset.exists /\ sset'.replicas = sset.replicas
      BY <2>1 DEF SelObserve, RemovePendingAnnotations, TypeOK, SSetState
    <3>2. \A o \in Children : child'[o].phase = child[o].phase
      BY <2>1 DEF SelObserve, RemovePendingAnnotations, TypeOK, ChildState
    <3>. QED
      BY <2>1, <3>1, <3>2 DEF SelObserve, Same, Exists
  <2>2. CASE ~SelObserve
    BY <1>0, <1>1, <2>2 DEF SelWork, BeginSelCreate, SelCreate, NoteSelector, SelGather,
                            SelDone, Attach
  <2>. QED
    BY <2>1, <2>2
<1>2. CASE ServerWork
  BY <1>2 DEF ServerWork, SSetWork, StartServer, UpdateServer, ReplaceServer, RemoveServer,
              SSetObserve, SSetFails, NoteSSet, ServerUp, Same, Exists, TypeOK, SSetState
<1>3. ASSUME NEW o \in Children, ChildWork(o) \/ ChildFails(o)
      PROVE  Same /\ UNCHANGED run
  BY <1>3 DEF ChildWork, ChildUp, ChildRetries, NoteChild, ChildFails, Same, Exists, TypeOK,
              ChildState
<1>4. CASE Edit
  BY <1>4 DEF Edit, Same, Exists
<1>. QED
  BY <1>1, <1>2, <1>3, <1>4 DEF Next, ServerWork

LEMMA NextKeepsStorage ==
  ASSUME TInv, SInv, [Next]_vars
  PROVE  SInv'
<1>0. TypeOK /\ GroupBound
  BY DEF TInv
<1>1. CASE UNCHANGED vars
  <2>1. Same /\ UNCHANGED run
    BY <1>1 DEF vars, Same, Exists
  <2>. QED
    BY <2>1, OthersKeep
<1>2. CASE SetWork
  BY <1>0, <1>2, SetWorkKeeps
<1>3. CASE Restart
  <2>1. Same
    BY <1>0, <1>3 DEF Restart, Same, Exists, TypeOK, SSetState, ChildState
  <2>2. run' = Idle
    BY <1>3 DEF Restart
  <2>. QED
    BY <1>0, <2>1, <2>2, KeptKept, PausesKeep DEF SInv
<1>4. CASE Next /\ ~SetWork /\ ~Restart
  BY <1>0, <1>4, OtherWorkSame, OthersKeep
<1>. QED
  BY <1>1, <1>2, <1>3, <1>4

(* A ServerSet never asks for a replica whose data volumes, or the set's      *)
(* LANs, do not exist: over failed and repeated Creates, scaling, edits, and  *)
(* restarts at any point.                                                     *)
THEOREM StorageComesFirst == Spec => []StorageFirst
<1>1. Init => TInv /\ SInv
  <2>1. Init => SInv
    BY DEF Init, Idle, SInv, Kept, FoundSoFar, FoundAll, OnlyNew
  <2>. QED
    BY <2>1, InitBound
<1>2. TInv /\ SInv /\ [Next]_vars => (TInv /\ SInv)'
  BY NextTypes, NextKeepsStorage
<1>3. TInv /\ SInv => StorageFirst
  BY DEF SInv, Kept, Present, Needed, StorageFirst, Group
<1>. QED
  BY <1>1, <1>2, <1>3, PTL DEF Spec

-----------------------------------------------------------------------------
(* Data volumes and servers.  The goroutines of an Update outlive the server  *)
(* they were started for, so the invariant speaks of their arguments too.     *)
AInv ==
  /\ \A d \in Idx \X Volumes : \A k \in attached[d] :
       /\ k \in Keys(servers) /\ k[1] = d[1]
       /\ \A l \in attached[d] : l = k
  /\ \A t \in sel.tasks : t[2][1] = t[1][1]

LEMMA OwnKept ==
  ASSUME AInv, Keys(servers) \subseteq Keys(servers)', UNCHANGED attached,
         sel'.tasks \subseteq sel.tasks
  PROVE  AInv'
  BY DEF AInv

LEMMA GatherOwn ==
  ASSUME TypeOK, AInv, SelGather
  PROVE  AInv'
<1>1. \A d \in Listed(sel.next), s \in At(sel.next) : Key(s)[1] = d[1]
  BY DEF Listed, At, Key
<1>2. ASSUME NEW t \in sel'.tasks
      PROVE  t[2][1] = t[1][1]
  <2>1. CASE t \in sel.tasks
    BY <2>1 DEF AInv
  <2>2. CASE t \notin sel.tasks
    <3>1. \A T : [sel EXCEPT !.next = @ + 1, !.tasks = T].tasks = T
      BY DEF TypeOK, SelState
    <3>2. [sel EXCEPT !.next = @ + 1].tasks = sel.tasks
      BY DEF TypeOK, SelState
    <3>3. PICK s \in At(sel.next) :
            sel' = [sel EXCEPT !.next = @ + 1,
                               !.tasks = @ \cup IF Ready(sel.next, s)
                                                THEN Listed(sel.next) \X {Key(s)} ELSE {}]
      BY <1>2, <2>2, <3>2 DEF SelGather
    <3>4. t \in Listed(sel.next) \X {Key(s)}
      BY <1>2, <2>2, <3>1, <3>3
    <3>. QED
      BY <1>1, <3>4
  <2>. QED
    BY <2>1, <2>2
<1>. QED
  BY <1>2 DEF SelGather, AInv

LEMMA AttachOwn ==
  ASSUME TypeOK, AInv, NEW t \in sel.tasks, Attach(t)
  PROVE  AInv'
<1>1. sel'.tasks \subseteq sel.tasks /\ UNCHANGED servers
  BY DEF Attach, TypeOK, SelState
<1>2. CASE UNCHANGED attached
  BY <1>1, <1>2, OwnKept DEF Keys
<1>3. CASE t[2] \in Keys(servers) /\ attached' = [attached EXCEPT ![t[1]] = {t[2]}]
  <2>1. t[2][1] = t[1][1]
    BY DEF AInv
  <2>2. \A d \in Idx \X Volumes :
          attached'[d] = IF d = t[1] THEN {t[2]} ELSE attached[d]
    BY <1>3 DEF TypeOK
  <2>3. Keys(servers)' = Keys(servers)
    BY <1>1 DEF Keys
  <2>. QED
    BY <1>1, <1>3, <2>1, <2>2, <2>3 DEF AInv
<1>. QED
  BY <1>2, <1>3 DEF Attach

LEMMA RemoveOwn ==
  ASSUME TypeOK, AInv, NEW s \in servers, RemoveServer(s)
  PROVE  AInv'
<1>1. UNCHANGED sel /\ \A d \in Idx \X Volumes : attached'[d] = attached[d] \ {Key(s)}
  BY DEF RemoveServer
<1>2. \A k \in Keys(servers) : k # Key(s) => k \in Keys(servers)'
  BY DEF RemoveServer, Keys
<1>. QED
  BY <1>1, <1>2 DEF AInv

LEMMA NextOwn ==
  ASSUME TypeOK, AInv, [Next]_vars
  PROVE  AInv'
<1>1. CASE SelGather
  BY <1>1, GatherOwn
<1>2. ASSUME NEW t \in sel.tasks, Attach(t)
      PROVE  AInv'
  BY <1>2, AttachOwn
<1>3. ASSUME NEW s \in servers, RemoveServer(s)
      PROVE  AInv'
  BY <1>3, RemoveOwn
<1>4. ASSUME NEW s \in servers, ServerUp(s) \/ UpdateServer(s) \/ ReplaceServer(s)
      PROVE  AInv'
  <2>1. s \in Server
    BY DEF TypeOK
  <2>2. \A e \in {[s EXCEPT !.up = TRUE], [s EXCEPT !.template = sset.field["template"]],
                  [s EXCEPT !.boot = sset.field["boot"]]} : Key(e) = Key(s)
    BY <2>1 DEF Key, Server
  <2>3. \/ servers \subseteq servers'
        \/ \E e \in {[s EXCEPT !.up = TRUE], [s EXCEPT !.template = sset.field["template"]],
                     [s EXCEPT !.boot = sset.field["boot"]]} :
             servers' = (servers \ {s}) \cup {e}
    BY <1>4 DEF ServerUp, UpdateServer, ReplaceServer
  <2>4. Keys(servers) \subseteq Keys(servers)'
    BY <2>2, <2>3 DEF Keys
  <2>. QED
    BY <1>4, <2>4, OwnKept DEF ServerUp, UpdateServer, ReplaceServer
<1>5. ASSUME NEW r \in Idx, StartServer(r)
      PROVE  AInv'
  BY <1>5, OwnKept DEF StartServer, Keys
<1>6. CASE \/ UNCHANGED vars \/ SetWork \/ Edit \/ Restart
           \/ SSetObserve \/ SSetFails \/ NoteSSet
           \/ \E o \in Children : ChildWork(o) \/ ChildFails(o)
  <2>1. UNCHANGED <<servers, attached>> /\ (UNCHANGED sel \/ sel' = SelIdle)
    BY <1>6
    DEF vars, SetWork, Observe, ObserveDeleted, NoteSet, EnsureSelector, EnsureNext, EnsureSSet,
        AwaitSSet, UpdateNext, UpdateSSet, WaitTimeout, EnsureVolume, EnsureLan, EnsureObject,
        AwaitVolume, AwaitLan, AwaitObject, UpdateVolume, UpdateLan, UpdateObject, Edit, Restart,
        SSetObserve, SSetFails, NoteSSet, ChildWork, ChildUp, ChildRetries, NoteChild, ChildFails
  <2>2. Keys(servers)' = Keys(servers) /\ sel'.tasks \subseteq sel.tasks
    BY <2>1 DEF Keys, SelIdle
  <2>. QED
    BY <2>1, <2>2, OwnKept
<1>7. CASE \/ BeginSelCreate \/ SelCreate \/ NoteSelector \/ SelObserve \/ SelDone
  <2>1. UNCHANGED <<servers, attached>>
    BY <1>7 DEF BeginSelCreate, SelCreate, NoteSelector, SelObserve, SelDone
  <2>2. sel'.tasks \subseteq sel.tasks
    <3>1. CASE BeginSelCreate \/ SelCreate \/ NoteSelector \/ SelDone
      BY <3>1 DEF BeginSelCreate, SelCreate, NoteSelector, SelDone, SelIdle, TypeOK, SelState
    <3>2. CASE SelObserve
      <4>1. \/ UNCHANGED sel
            \/ sel' = [sel EXCEPT !.pc = "update", !.last = selector.replicas]
        BY <3>2 DEF SelObserve
      <4>. QED
        BY <4>1 DEF TypeOK, SelState
    <3>. QED
      BY <1>7, <3>1, <3>2
  <2>. QED
    BY <2>1, <2>2, OwnKept DEF Keys
<1>. QED
  BY <1>1, <1>2, <1>3, <1>4, <1>5, <1>6, <1>7 DEF Next, SelWork, SSetWork

(* A data volume is attached to one server at most, one of its own replica,   *)
(* however the goroutines that attach interleave with the ServerSet replacing *)
(* the servers they were started for.                                         *)
THEOREM VolumesStayHome == Spec => []OwnServer
<1>1. Init => AInv
  BY DEF Init, SelIdle, AInv
<1>2. TypeOK /\ AInv => OwnServer
  <2>. SUFFICES ASSUME TypeOK, AInv, NEW d \in Idx \X Volumes
                PROVE  /\ attached[d] \subseteq {Key(s) : s \in At(d[1])}
                       /\ Cardinality(attached[d]) <= 1
    BY DEF OwnServer
  <2>1. attached[d] \subseteq {Key(s) : s \in At(d[1])}
    <3>1. ASSUME NEW k \in attached[d]
          PROVE  \E s \in At(d[1]) : k = Key(s)
      <4>1. PICK s \in servers : k = Key(s)
        BY DEF AInv, Keys
      <4>2. s.idx = d[1]
        BY <4>1 DEF AInv, Key
      <4>. QED
        BY <4>1, <4>2 DEF At
    <3>. QED
      BY <3>1
  <2>2. attached[d] = {} \/ \E k : attached[d] = {k}
    <3>1. \A k, l \in attached[d] : l = k
      BY DEF AInv
    <3>. QED
      BY <3>1
  <2>. QED
    <3>1. CASE attached[d] = {}
      BY <2>1, <3>1, FS_EmptySet
    <3>2. ASSUME NEW k, attached[d] = {k}
          PROVE  Cardinality(attached[d]) <= 1
      <4>1. Cardinality({k}) = 1
        BY FS_Singleton
      <4>. QED
        BY <3>2, <4>1
    <3>. QED
      BY <2>1, <2>2, <3>1, <3>2
<1>3. TypeOK /\ AInv /\ [Next]_vars => AInv'
  BY NextOwn
<1>. QED
  BY <1>1, <1>2, <1>3, StatefulTypeOK, PTL DEF Spec
-----------------------------------------------------------------------------
(* A ready set's volumes.  Attended says of a replica that its volumes are    *)
(* attached as long as it only has the server it began with; what a ready set *)
(* has of its servers follows from the selector having been AVAILABLE once,   *)
(* and from who was asked for how many replicas (NumbersOK).                  *)
NumbersOK ==
  /\ run.cr.replicas <= spec.replicas
  /\ sset.exists => sset.replicas <= run.cr.replicas
  /\ selector.exists => selector.replicas >= 1
  /\ used.edits = 0 => /\ run.cr.replicas = spec.replicas
                       /\ selector.exists => selector.replicas = spec.replicas
  /\ \A s \in servers : sset.exists /\ s.idx < sset.replicas
SelectorOK ==
  /\ selector.named \/ selector.available \/ sel.pc = "create" => selector.exists
  /\ set.ready => selector.available
Attended(r) ==
  /\ At(r) # {}
  /\ (\A s \in At(r) : s.gen = 0) => \A s \in At(r), d \in Group(r) : Key(s) \in attached[d]
Watched(r) == (r = 0 \/ used.edits = 0) /\ r < selector.replicas
AttendedOK == selector.available => \A r \in Idx : Watched(r) => Attended(r)
RInv == NumbersOK /\ SelectorOK /\ AttendedOK /\ IsFiniteSet(servers)

\* Who is told a number of replicas, and which.
LEMMA CopyKept ==
  ASSUME TypeOK, [Next]_vars
  PROVE  run'.cr = run.cr \/ run'.cr = spec
<1>1. CASE run' = Idle \/ \E pc \in {"selector", "update"} : Begin(pc)
  BY <1>1 DEF Idle, Begin
<1>2. CASE EnsureSelector \/ EnsureNext \/ UpdateNext
  BY <1>2 DEF EnsureSelector, EnsureNext, UpdateNext, Ensure, TypeOK, RunState
<1>3. ASSUME NEW o \in Children, \/ EnsureVolume(o) \/ AwaitVolume(o) \/ UpdateVolume(o)
                                \/ EnsureLan(o) \/ AwaitLan(o) \/ UpdateLan(o)
      PROVE  run'.cr = run.cr \/ run' = Idle
  BY <1>3
  DEF EnsureVolume, EnsureLan, EnsureObject, AwaitVolume, AwaitLan, AwaitObject,
      UpdateVolume, UpdateLan, UpdateObject, Fail, TypeOK, RunState
<1>4. CASE \/ Observe \/ ObserveDeleted \/ NoteSet \/ EnsureSSet \/ AwaitSSet \/ UpdateSSet
           \/ WaitTimeout
  <2>1. \/ run'.cr = run.cr
        \/ run' = Idle
        \/ \E pc \in {"selector", "update"} : Begin(pc)
    BY <1>4 DEF Observe, ObserveDeleted, NoteSet, EnsureSSet, AwaitSSet, UpdateSSet,
                WaitTimeout, Fail, Finish, TypeOK, RunState
  <2>. QED
    BY <1>1, <2>1
<1>5. CASE ~SetWork
  <2>1. UNCHANGED run \/ run' = Idle
    BY <1>5 DEF Next, vars, SelWork, BeginSelCreate, SelCreate, NoteSelector, SelObserve,
                SelGather, SelDone, Attach, SSetWork, StartServer, UpdateServer, ReplaceServer,
                RemoveServer, SSetObserve, SSetFails, NoteSSet, ServerUp, ChildWork, ChildUp,
                ChildRetries, NoteChild, ChildFails, Edit, Restart
  <2>. QED
    BY <1>1, <2>1
<1>. QED
  BY <1>1, <1>2, <1>3, <1>4, <1>5 DEF SetWork

SSetAsked == sset'.exists = sset.exists /\ sset'.replicas = sset.replicas
SelectorAsked == selector'.exists = selector.exists /\ selector'.replicas = selector.replicas

LEMMA SSetAskedFor ==
  ASSUME TypeOK, [Next]_vars
  PROVE  \/ SSetAsked
         \/ sset'.exists /\ sset'.replicas = run.cr.replicas
<1>1. CASE SetWork
  <2>1. sset' = sset \/ sset' = Given(run.cr)
    BY <1>1
    DEF SetWork, Observe, ObserveDeleted, NoteSet, EnsureSelector, EnsureNext, EnsureSSet,
        AwaitSSet, UpdateNext, UpdateSSet, WaitTimeout, EnsureVolume, EnsureLan, EnsureObject,
        AwaitVolume, AwaitLan, AwaitObject, UpdateVolume, UpdateLan, UpdateObject
  <2>. QED
    BY <2>1 DEF Given, TypeOK, SSetState, SSetAsked
<1>2. CASE Restart
  BY <1>2 DEF Restart, TypeOK, SSetState, SSetAsked
<1>3. CASE UNCHANGED vars
  BY <1>3 DEF vars, SSetAsked
<1>4. CASE Next /\ ~SetWork /\ ~Restart
  BY <1>4, OtherWorkSame DEF Same, SSetAsked
<1>. QED
  BY <1>1, <1>2, <1>3, <1>4

LEMMA SelectorAskedFor ==
  ASSUME TypeOK, [Next]_vars
  PROVE  \/ SelectorAsked
         \/ selector'.exists /\ selector'.replicas = run.cr.replicas
<1>1. CASE EnsureSelector
  BY <1>1 DEF EnsureSelector, NewSelector, TypeOK, SelectorState
<1>2. CASE BeginSelCreate \/ SelCreate \/ NoteSelector \/ SelObserve \/ SelGather \/ SelDone \/ Restart
  BY <1>2 DEF BeginSelCreate, SelCreate, NoteSelector, SelObserve, SelGather, SelDone, Restart,
              TypeOK, SelectorState, SelectorAsked
<1>3. CASE \/ UNCHANGED vars \/ (SetWork /\ ~EnsureSelector)
           \/ \E t \in sel.tasks : Attach(t)
           \/ ServerWork \/ Edit \/ \E o \in Children : ChildWork(o) \/ ChildFails(o)
  BY <1>3
  DEF vars, SetWork, Observe, ObserveDeleted, NoteSet, EnsureNext, EnsureSSet,
      AwaitSSet, UpdateNext, UpdateSSet, WaitTimeout, EnsureVolume, EnsureLan, EnsureObject,
      AwaitVolume, AwaitLan, AwaitObject, UpdateVolume, UpdateLan, UpdateObject, Attach,
      ServerWork, SSetWork, SSetObserve, SSetFails, NoteSSet, ServerUp, StartServer,
      UpdateServer, ReplaceServer, RemoveServer, Edit, ChildWork, ChildUp, ChildRetries,
      NoteChild, ChildFails, SelectorAsked
<1>. QED
  BY <1>1, <1>2, <1>3 DEF Next, SelWork, ServerWork

LEMMA ServersKept ==
  ASSUME \/ UNCHANGED vars \/ SetWork \/ SelWork \/ SSetObserve \/ SSetFails \/ NoteSSet
         \/ Edit \/ Restart \/ \E o \in Children : ChildWork(o) \/ ChildFails(o)
  PROVE  servers' = servers
  BY DEF vars, SetWork, Observe, ObserveDeleted, NoteSet, EnsureSelector, EnsureNext, EnsureSSet,
         AwaitSSet, UpdateNext, UpdateSSet, WaitTimeout, EnsureVolume, EnsureLan, EnsureObject,
         AwaitVolume, AwaitLan, AwaitObject, UpdateVolume, UpdateLan, UpdateObject, SelWork,
         BeginSelCreate, SelCreate, NoteSelector, SelObserve, SelGather, SelDone, Attach, Edit,
         Restart, SSetObserve, SSetFails, NoteSSet, ChildWork, ChildUp, ChildRetries, NoteChild,
         ChildFails

\* One server is changed, or another one is made for the next generation.
LEMMA ServerChanges ==
  ASSUME TypeOK, NEW s \in servers, ServerUp(s) \/ UpdateServer(s)
  PROVE  \E e : servers' = (servers \ {s}) \cup {e} /\ e.idx = s.idx /\ e.gen = s.gen
<1>1. s \in Server
  BY DEF TypeOK
<1>2. \A e \in {[s EXCEPT !.up = TRUE], [s EXCEPT !.template = sset.field["template"]],
                [s EXCEPT !.boot = sset.field["boot"]]} : e.idx = s.idx /\ e.gen = s.gen
  BY <1>1 DEF Server
<1>3. \E e \in {[s EXCEPT !.up = TRUE], [s EXCEPT !.template = sset.field["template"]],
                [s EXCEPT !.boot = sset.field["boot"]]} : servers' = (servers \ {s}) \cup {e}
  BY DEF ServerUp, UpdateServer
<1>. QED
  BY <1>2, <1>3

LEMMA ServerFollows ==
  ASSUME TypeOK, NEW s \in servers, ReplaceServer(s)
  PROVE  \E e : servers' = servers \cup {e} /\ e.idx = s.idx /\ e.gen = s.gen + 1
<1>. DEFINE new == [s EXCEPT !.gen = @ + 1, !.boot = sset.field["boot"],
                             !.template = sset.field["template"], !.up = FALSE]
<1>1. s \in Server
  BY DEF TypeOK
<1>2. new.idx = s.idx /\ new.gen = s.gen + 1
  BY <1>1 DEF Server
<1>3. servers' = servers \cup {new}
  BY DEF ReplaceServer
<1>. QED
  BY <1>2, <1>3

\* Every server is of a replica that had one, or that the ServerSet asks for.
LEMMA ServersAskedFor ==
  ASSUME TypeOK, [Next]_vars, NEW s \in servers'
  PROVE  \/ \E q \in servers : q.idx = s.idx
         \/ sset.exists /\ s.idx < sset.replicas
<1>1. CASE servers' = servers
  BY <1>1
<1>2. ASSUME NEW q \in servers, ServerUp(q) \/ UpdateServer(q) \/ ReplaceServer(q) \/ RemoveServer(q)
      PROVE  \E p \in servers : p.idx = s.idx
  <2>1. s \in servers \/ s.idx = q.idx
    BY <1>2, ServerChanges, ServerFollows DEF RemoveServer
  <2>. QED
    BY <2>1
<1>3. ASSUME NEW r \in Idx, StartServer(r)
      PROVE  s \in servers \/ (sset.exists /\ s.idx < sset.replicas)
  BY <1>3 DEF StartServer, ServerSetWorks
<1>4. CASE \/ UNCHANGED vars \/ SetWork \/ SelWork \/ SSetObserve \/ SSetFails \/ NoteSSet
           \/ Edit \/ Restart \/ \E o \in Children : ChildWork(o) \/ ChildFails(o)
  BY <1>1, <1>4, ServersKept
<1>. QED
  BY <1>1, <1>2, <1>3, <1>4 DEF Next, SSetWork

LEMMA EditsRaise ==
  ASSUME TypeOK, Edit
  PROVE  /\ used'.edits # 0 /\ spec'.replicas >= spec.replicas
         /\ UNCHANGED <<selector, sset, child, servers, attached, run, sel>>
         /\ set'.ready = set.ready
<1>1. used.edits \in Nat /\ used'.edits = used.edits + 1 /\ spec.replicas \in Nat
  BY DEF Edit, TypeOK, SetSpec
<1>2. spec'.replicas \in {spec.replicas, spec.replicas + 1} /\ set'.ready = set.ready
  BY DEF Edit, TypeOK, SetSpec, SetState
<1>. QED
  BY <1>1, <1>2 DEF Edit

LEMMA NumbersKept ==
  ASSUME TInv, NumbersOK, [Next]_vars
  PROVE  NumbersOK'
<1>. TypeOK /\ TypeOK'
  BY NextTypes DEF TInv
<1>0. /\ run.cr.replicas \in Nat /\ spec.replicas \in Nat \ {0} /\ sset.replicas \in Nat
      /\ selector.replicas \in Nat /\ run.cr.replicas >= 1
  BY CrTypes, Constants DEF TypeOK, SetSpec, SSetState, SelectorState
<1>1. ASSUME NEW s \in servers
      PROVE  sset.exists /\ s.idx < sset.replicas /\ s.idx \in Nat
  BY DEF NumbersOK, TypeOK, Server, Idx
<1>2. /\ sset.exists => sset'.exists
      /\ sset.exists => sset'.replicas >= sset.replicas
      /\ sset'.replicas \in Nat
  <2>1. sset'.replicas \in Nat
    BY <1>0, SSetAskedFor DEF SSetAsked
  <2>2. CASE SSetAsked
    BY <1>0, <2>1, <2>2 DEF SSetAsked
  <2>3. CASE sset'.exists /\ sset'.replicas = run.cr.replicas
    BY <1>0, <2>1, <2>3 DEF NumbersOK
  <2>. QED
    BY <2>1, <2>2, <2>3, SSetAskedFor
<1>3. \A s \in servers' : sset'.exists /\ s.idx < sset'.replicas
  <2>. SUFFICES ASSUME NEW s \in servers'
                PROVE  sset'.exists /\ s.idx < sset'.replicas
    OBVIOUS
  <2>1. sset.exists /\ s.idx < sset.replicas
    BY <1>1, ServersAskedFor
  <2>2. s.idx \in Int
    BY DEF TypeOK, Server, Idx
  <2>. QED
    BY <1>0, <1>2, <2>1, <2>2
<1>4. CASE ~Edit
  <2>1. spec' = spec /\ used'.edits = used.edits
    BY <1>4, OthersKeepSpec
  <2>2. /\ run'.cr.replicas <= spec'.replicas /\ run'.cr.replicas >= run.cr.replicas
        /\ used.edits = 0 => run'.cr.replicas = run.cr.replicas
    BY <1>0, <2>1, CopyKept DEF NumbersOK
  <2>. QED
    BY <1>0, <1>3, <2>1, <2>2, SSetAskedFor, SelectorAskedFor, CopyKept
    DEF NumbersOK, SSetAsked, SelectorAsked
<1>5. CASE Edit
  <2>1. /\ used'.edits # 0 /\ spec'.replicas >= spec.replicas /\ spec'.replicas \in Nat
        /\ sset' = sset /\ run' = run /\ selector' = selector
    BY <1>5, EditsRaise DEF TypeOK, SetSpec
  <2>. QED
    BY <1>0, <1>3, <2>1 DEF NumbersOK
<1>. QED
  BY <1>4, <1>5

\* What the selector reported it keeps reporting.
LEMMA SelectorKept ==
  ASSUME TypeOK, SelectorOK, [Next]_vars
  PROVE  SelectorOK'
<1>1. CASE Observe
  <2>1. set'.ready => set.ready \/ Created(spec)
    BY <1>1 DEF Observe, TypeOK, SetState
  <2>. QED
    BY <1>1, <2>1 DEF Observe, SelectorOK, Created, SelectorAvailable
<1>2. CASE SetWork /\ ~Observe /\ ~EnsureSelector
  <2>1. set'.ready => set.ready
    BY <1>2
    DEF SetWork, ObserveDeleted, NoteSet, EnsureNext, EnsureSSet, Fail, Finish,
        AwaitSSet, UpdateNext, UpdateSSet, WaitTimeout, EnsureVolume, EnsureLan, EnsureObject,
        AwaitVolume, AwaitLan, AwaitObject, UpdateVolume, UpdateLan, UpdateObject, TypeOK, SetState
  <2>2. UNCHANGED <<selector, sel>>
    BY <1>2
    DEF SetWork, ObserveDeleted, NoteSet, EnsureNext, EnsureSSet,
        AwaitSSet, UpdateNext, UpdateSSet, WaitTimeout, EnsureVolume, EnsureLan, EnsureObject,
        AwaitVolume, AwaitLan, AwaitObject, UpdateVolume, UpdateLan, UpdateObject
  <2>. QED
    BY <2>1, <2>2 DEF SelectorOK
<1>3. CASE EnsureSelector
  <2>1. selector'.exists /\ selector'.available = selector.available
    BY <1>3 DEF EnsureSelector, NewSelector, TypeOK, SelectorState
  <2>. QED
    BY <1>3, <2>1 DEF EnsureSelector, SelectorOK
<1>4. CASE BeginSelCreate \/ SelCreate \/ NoteSelector \/ SelGather \/ SelDone
  <2>1. /\ selector'.exists = selector.exists /\ selector'.available = selector.available
        /\ selector'.named => selector.named \/ sel.pc = "create"
        /\ sel'.pc = "create" => selector.exists
        /\ UNCHANGED set
    <3>1. CASE BeginSelCreate
      BY <3>1 DEF BeginSelCreate
    <3>2. CASE SelCreate
      BY <3>2 DEF SelCreate, SelIdle, TypeOK, SelectorState
    <3>3. CASE NoteSelector
      BY <3>3 DEF NoteSelector, SelectorOK, TypeOK, SelectorState
    <3>4. CASE SelGather
      <4>1. \E T : sel' \in {[sel EXCEPT !.next = @ + 1], [sel EXCEPT !.next = @ + 1, !.tasks = T]}
        BY <3>4 DEF SelGather
      <4>2. sel'.pc = sel.pc
        BY <4>1 DEF TypeOK, SelState
      <4>. QED
        BY <3>4, <4>2 DEF SelGather
    <3>5. CASE SelDone
      BY <3>5 DEF SelDone, SelIdle
    <3>. QED
      BY <1>4, <3>1, <3>2, <3>3, <3>4, <3>5
  <2>. QED
    BY <2>1 DEF SelectorOK
<1>5. CASE SelObserve
  <2>1. /\ selector'.exists = selector.exists /\ selector.named = selector'.named
        /\ selector.available => selector'.available
        /\ sel'.pc # "create" /\ set'.ready = set.ready /\ selector.named
    BY <1>5 DEF SelObserve, RemovePendingAnnotations, TypeOK, SelectorState, SelState, SetState
  <2>. QED
    BY <2>1 DEF SelectorOK
<1>6. CASE Restart
  <2>1. /\ selector'.exists = selector.exists /\ selector'.named = selector.named
        /\ selector'.available = selector.available
        /\ sel'.pc # "create" /\ set'.ready = set.ready
    BY <1>6 DEF Restart, SelIdle, TypeOK, SelectorState, SetState
  <2>. QED
    BY <2>1 DEF SelectorOK
<1>7. ASSUME NEW t \in sel.tasks, Attach(t)
      PROVE  SelectorOK'
  BY <1>7 DEF Attach, TypeOK, SelState, SelectorOK
<1>8. CASE Edit
  BY <1>8, EditsRaise DEF SelectorOK
<1>9. CASE UNCHANGED vars \/ ServerWork \/ \E o \in Children : ChildWork(o) \/ ChildFails(o)
  <2>1. UNCHANGED <<set, selector, sel>>
    BY <1>9
    DEF vars, ServerWork, SSetWork, SSetObserve, SSetFails, NoteSSet, ServerUp, StartServer,
        UpdateServer, ReplaceServer, RemoveServer, ChildWork, ChildUp, ChildRetries,
        NoteChild, ChildFails
  <2>. QED
    BY <2>1 DEF SelectorOK
<1>. QED
  BY <1>1, <1>2, <1>3, <1>4, <1>5, <1>6, <1>7, <1>8, <1>9 DEF Next, SelWork, ServerWork

\* A replica that is watched was watched when the selector became AVAILABLE.
LEMMA WatchedKept ==
  ASSUME TypeOK, NumbersOK, SelectorOK, [Next]_vars, selector.available,
         NEW r \in Idx, Watched(r)'
  PROVE  Watched(r)
<1>0. /\ selector.exists /\ selector.replicas \in Nat /\ selector.replicas >= 1
      /\ used.edits \in Nat
  BY Constants DEF SelectorOK, NumbersOK, TypeOK, SelectorState
<1>1. CASE r = 0
  BY <1>0, <1>1 DEF Watched
<1>2. CASE r # 0
  <2>1. used'.edits = 0 /\ r < selector'.replicas
    BY <1>2 DEF Watched
  <2>2. ~Edit
    BY <2>1, EditsRaise
  <2>3. used.edits = 0
    BY <2>1, <2>2, OthersKeepSpec
  <2>4. run.cr.replicas = selector.replicas
    BY <1>0, <2>3 DEF NumbersOK
  <2>. QED
    BY <2>1, <2>3, <2>4, SelectorAskedFor DEF SelectorAsked, Watched
<1>. QED
  BY <1>1, <1>2

LEMMA SameAttended ==
  ASSUME AttendedOK, UNCHANGED <<servers, attached>>, selector'.available => selector.available,
         \A r \in Idx : selector.available /\ Watched(r)' => Watched(r)
  PROVE  AttendedOK'
<1>1. \A r \in Idx : Attended(r) => Attended(r)'
  BY DEF Attended, At, Key
<1>. QED
  BY <1>1 DEF AttendedOK

\* One server is changed, replaced, or removed for another one.
LEMMA ChangeAttends ==
  ASSUME TypeOK, NEW s \in servers, ServerUp(s) \/ UpdateServer(s),
         NEW r \in Idx, Attended(r)
  PROVE  Attended(r)'
<1>1. s \in Server
  BY DEF TypeOK
<1>2. PICK e : /\ servers' = (servers \ {s}) \cup {e}
               /\ e.idx = s.idx /\ e.gen = s.gen
  BY ServerChanges
<1>3. UNCHANGED attached /\ Key(e) = Key(s)
  BY <1>2 DEF ServerUp, UpdateServer, Key
<1>4. At(r)' = IF s.idx = r THEN (At(r) \ {s}) \cup {e} ELSE At(r)
  BY <1>2 DEF At
<1>5. s.idx = r => s \in At(r)
  BY DEF At
<1>. QED
  BY <1>2, <1>3, <1>4, <1>5 DEF Attended, Key

LEMMA ReplaceAttends ==
  ASSUME TypeOK, NEW s \in servers, ReplaceServer(s), NEW r \in Idx, Attended(r)
  PROVE  Attended(r)'
<1>1. s \in Server
  BY DEF TypeOK
<1>2. PICK e : servers' = servers \cup {e} /\ e.idx = s.idx /\ e.gen = s.gen + 1
  BY ServerFollows
<1>3. UNCHANGED attached /\ e.gen # 0
  BY <1>1, <1>2 DEF ReplaceServer, Server
<1>4. CASE s.idx = r
  <2>1. e \in At(r)'
    BY <1>2, <1>4 DEF At
  <2>. QED
    BY <1>3, <2>1 DEF Attended
<1>5. CASE s.idx # r
  <2>1. At(r)' = At(r)
    BY <1>2, <1>5 DEF At
  <2>. QED
    BY <1>3, <2>1 DEF Attended, Key
<1>. QED
  BY <1>4, <1>5

LEMMA RemoveAttends ==
  ASSUME TypeOK, NEW s \in servers, RemoveServer(s), NEW r \in Idx, Attended(r)
  PROVE  Attended(r)'
<1>1. s \in Server /\ servers' = servers \ {s}
  BY DEF TypeOK, RemoveServer
<1>2. CASE s.idx = r
  <2>1. PICK n \in At(s.idx) : n.gen > s.gen
    BY DEF RemoveServer
  <2>2. n \in Server /\ n # s
    BY <1>1, <2>1 DEF At, TypeOK, Server
  <2>3. n \in At(r)' /\ n.gen # 0
    BY <1>1, <1>2, <2>1, <2>2 DEF At, Server
  <2>. QED
    BY <2>3 DEF Attended
<1>3. CASE s.idx # r
  <2>1. At(r)' = At(r)
    BY <1>1, <1>3 DEF At
  <2>2. \A q \in At(r) : Key(q) # Key(s)
    BY <1>3 DEF At, Key
  <2>3. \A d \in Group(r) : d \in Idx \X Volumes
    BY DEF Group, Children, LanGroup, Idx
  <2>4. \A d \in Group(r) : attached'[d] = attached[d] \ {Key(s)}
    BY <2>3 DEF RemoveServer
  <2>. QED
    BY <2>1, <2>2, <2>4 DEF Attended, Key
<1>. QED
  BY <1>2, <1>3

LEMMA StartAttends ==
  ASSUME TypeOK, NEW q \in Idx, StartServer(q), NEW r \in Idx, Attended(r)
  PROVE  Attended(r)'
<1>1. q # r
  BY DEF StartServer, Attended
<1>2. At(r)' = At(r)
  BY <1>1 DEF StartServer, At
<1>. QED
  BY <1>2 DEF StartServer, Attended, Key

LEMMA AttachAttends ==
  ASSUME TypeOK, AInv, NEW t \in sel.tasks, Attach(t), NEW r \in Idx, Attended(r)
  PROVE  Attended(r)'
<1>1. At(r)' = At(r)
  BY DEF Attach, At
<1>2. CASE UNCHANGED attached
  BY <1>1, <1>2 DEF Attended, Key
<1>3. CASE t[2] \in Keys(servers) /\ attached' = [attached EXCEPT ![t[1]] = {t[2]}]
  <2>1. PICK n \in servers : t[2] = Key(n)
    BY <1>3 DEF Keys
  <2>2. n.idx = t[1][1]
    BY <2>1 DEF AInv, Key
  <2>3. \A d \in Group(r) : d \in Idx \X Volumes /\ d[1] = r
    BY DEF Group, Children, LanGroup, Idx
  <2>4. \A d \in Group(r) : attached'[d] = IF d = t[1] THEN {Key(n)} ELSE attached[d]
    BY <1>3, <2>1, <2>3 DEF TypeOK
  <2>5. ASSUME \A s \in At(r) : s.gen = 0, NEW s \in At(r), NEW d \in Group(r)
        PROVE  Key(s) \in attached'[d]
    <3>1. CASE d = t[1]
      <4>1. n \in At(r)
        BY <2>2, <2>3, <3>1 DEF At
      <4>2. Key(n) = Key(s)
        BY <2>5, <4>1 DEF At, Key
      <4>. QED
        BY <2>4, <3>1, <4>2
    <3>2. CASE d # t[1]
      BY <2>4, <2>5, <3>2 DEF Attended
    <3>. QED
      BY <3>1, <3>2
  <2>. QED
    BY <1>1, <2>5 DEF Attended, Key
<1>. QED
  BY <1>2, <1>3 DEF Attach

\* The selector becomes AVAILABLE when it finds every replica's volumes attached;
\* none is missing, for a replica with a server has all its volumes.
LEMMA ObserveAttends ==
  ASSUME TypeOK, SInv, NumbersOK, SelectorOK, SelObserve, ~selector.available, selector'.available,
         NEW r \in Idx, Watched(r)'
  PROVE  Attended(r)'
<1>1. UNCHANGED <<servers, attached>> /\ selector'.replicas = selector.replicas
  BY DEF SelObserve, TypeOK, SelectorState
<1>2. r \in 0 .. selector.replicas - 1
  BY <1>1, Constants DEF Watched, Idx, TypeOK, SelectorState
<1>3. PICK s : Ready(r, s) /\ AllAttached(r, s)
  BY <1>2 DEF SelObserve, TypeOK, SelectorState
<1>4. s \in At(r) /\ s \in servers
  BY <1>3 DEF Ready, At
<1>5. sset.exists /\ r < sset.replicas /\ sset.replicas \in Nat
  BY <1>4, Constants DEF NumbersOK, At, TypeOK, SSetState
<1>6. \A d \in Group(r) : d \in Listed(r)
  <2>. SUFFICES ASSUME NEW d \in Group(r) PROVE d \in Listed(r)
    OBVIOUS
  <2>1. d \in Children /\ d[1] = r /\ d \in {r} \X Volumes
    BY DEF Group, Children, LanGroup, Idx
  <2>2. Needed(d, sset.replicas)
    BY <1>5, <2>1 DEF Needed, Idx
  <2>. QED
    BY <1>5, <2>1, <2>2 DEF SInv, Kept, Present, Listed
<1>7. \A d \in Group(r) : Key(s) \in attached[d]
  BY <1>3, <1>6 DEF AllAttached
<1>8. \A q \in At(r) : q.gen = 0 /\ s.gen = 0 => Key(q) = Key(s)
  BY <1>4 DEF At, Key
<1>9. At(r)' = At(r)
  BY <1>1 DEF At
<1>. QED
  BY <1>1, <1>4, <1>7, <1>8, <1>9 DEF Attended, Key

LEMMA NextAttends ==
  ASSUME TypeOK, SInv, AInv, RInv, [Next]_vars
  PROVE  AttendedOK'
<1>0. NumbersOK /\ SelectorOK /\ AttendedOK
  BY DEF RInv
<1>7. \A r \in Idx : selector.available /\ Watched(r)' => Watched(r)
  BY <1>0, WatchedKept
<1>1. CASE SelObserve
  <2>1. UNCHANGED <<servers, attached>>
    BY <1>1 DEF SelObserve
  <2>2. CASE selector'.available => selector.available
    BY <1>0, <1>7, <2>1, <2>2, SameAttended
  <2>3. CASE ~selector.available /\ selector'.available
    BY <1>0, <1>1, <2>3, ObserveAttends DEF AttendedOK
  <2>. QED
    BY <2>2, <2>3
<1>2. ASSUME UNCHANGED selector,
             \A r \in Idx : Attended(r) => Attended(r)'
      PROVE  AttendedOK'
  BY <1>0, <1>7, <1>2 DEF AttendedOK
<1>3. ASSUME NEW t \in sel.tasks, Attach(t)
      PROVE  AttendedOK'
  <2>1. UNCHANGED selector
    BY <1>3 DEF Attach
  <2>. QED
    BY <1>2, <1>3, <2>1, AttachAttends
<1>4. ASSUME NEW s \in servers, ServerUp(s) \/ UpdateServer(s) \/ ReplaceServer(s) \/ RemoveServer(s)
      PROVE  AttendedOK'
  <2>1. UNCHANGED selector
    BY <1>4 DEF ServerUp, UpdateServer, ReplaceServer, RemoveServer
  <2>. QED
    BY <1>2, <1>4, <2>1, ChangeAttends, ReplaceAttends, RemoveAttends
<1>5. ASSUME NEW q \in Idx, StartServer(q)
      PROVE  AttendedOK'
  <2>1. UNCHANGED selector
    BY <1>5 DEF StartServer
  <2>. QED
    BY <1>2, <1>5, <2>1, StartAttends
<1>6. CASE \/ UNCHANGED vars \/ SetWork
           \/ (SelWork /\ ~SelObserve /\ ~\E t \in sel.tasks : Attach(t))
           \/ SSetObserve \/ SSetFails \/ NoteSSet \/ Edit \/ Restart
           \/ \E o \in Children : ChildWork(o) \/ ChildFails(o)
  <2>1. UNCHANGED <<servers, attached>>
    BY <1>6
    DEF vars, SetWork, Observe, ObserveDeleted, NoteSet, EnsureSelector, EnsureNext, EnsureSSet,
        AwaitSSet, UpdateNext, UpdateSSet, WaitTimeout, EnsureVolume, EnsureLan, EnsureObject,
        AwaitVolume, AwaitLan, AwaitObject, UpdateVolume, UpdateLan, UpdateObject, SelWork,
        BeginSelCreate, SelCreate, NoteSelector, SelGather, SelDone, Edit,
        Restart, SSetObserve, SSetFails, NoteSSet, ChildWork, ChildUp, ChildRetries, NoteChild,
        ChildFails
  <2>2. selector'.available => selector.available
    BY <1>6
    DEF vars, SetWork, Observe, ObserveDeleted, NoteSet, EnsureSelector, EnsureNext, EnsureSSet,
        AwaitSSet, UpdateNext, UpdateSSet, WaitTimeout, EnsureVolume, EnsureLan, EnsureObject,
        AwaitVolume, AwaitLan, AwaitObject, UpdateVolume, UpdateLan, UpdateObject, SelWork,
        BeginSelCreate, SelCreate, NoteSelector, SelGather, SelDone, Edit, NewSelector,
        Restart, SSetObserve, SSetFails, NoteSSet, ChildWork, ChildUp, ChildRetries, NoteChild,
        ChildFails, TypeOK, SelectorState
  <2>. QED
    BY <1>0, <1>7, <2>1, <2>2, SameAttended
<1>. QED
  BY <1>1, <1>3, <1>4, <1>5, <1>6 DEF Next, SSetWork, SelWork

LEMMA ServersFinite ==
  ASSUME TypeOK, IsFiniteSet(servers), [Next]_vars
  PROVE  IsFiniteSet(servers')
<1>1. \A x : IsFiniteSet(servers \cup {x}) /\ IsFiniteSet(servers \ {x})
  BY FS_AddElement, FS_RemoveElement
<1>2. \A x, y : IsFiniteSet((servers \ {x}) \cup {y})
  BY <1>1, FS_AddElement
<1>3. ASSUME NEW s \in servers,
             ServerUp(s) \/ UpdateServer(s) \/ ReplaceServer(s) \/ RemoveServer(s)
      PROVE  IsFiniteSet(servers')
  <2>1. CASE ServerUp(s) \/ UpdateServer(s)
    <3>1. PICK e : servers' = (servers \ {s}) \cup {e}
      BY <2>1, ServerChanges
    <3>. QED
      BY <1>2, <3>1
  <2>2. CASE ReplaceServer(s)
    <3>1. PICK e : servers' = servers \cup {e}
      BY <2>2, ServerFollows
    <3>. QED
      BY <1>1, <3>1
  <2>3. CASE RemoveServer(s)
    BY <1>1, <2>3 DEF RemoveServer
  <2>. QED
    BY <1>3, <2>1, <2>2, <2>3
<1>4. CASE \E r \in Idx : StartServer(r)
  BY <1>1, <1>4 DEF StartServer
<1>5. CASE \/ UNCHANGED vars \/ SetWork \/ SelWork \/ SSetObserve \/ SSetFails \/ NoteSSet
           \/ Edit \/ Restart \/ \E o \in Children : ChildWork(o) \/ ChildFails(o)
  BY <1>5, ServersKept
<1>. QED
  BY <1>3, <1>4, <1>5 DEF Next, SSetWork

LEMMA ReadyAttends ==
  ASSUME TypeOK, RInv
  PROVE  ReadyMeansAttached
<1>. SUFFICES ASSUME set.ready, NEW s \in servers, s.idx = 0 \/ used.edits = 0, s.gen = 0,
                     Cardinality(At(s.idx)) = 1
              PROVE  AllAttached(s.idx, s)
  BY DEF ReadyMeansAttached
<1>1. selector.available /\ selector.exists /\ selector.replicas >= 1
  BY DEF RInv, SelectorOK, NumbersOK
<1>2. s \in At(s.idx) /\ s.idx \in Idx /\ s.idx < sset.replicas /\ sset.exists
  BY DEF At, TypeOK, Server, RInv, NumbersOK
<1>3. /\ run.cr.replicas \in Nat /\ spec.replicas \in Nat /\ sset.replicas \in Nat
      /\ selector.replicas \in Nat
  BY CrTypes, Constants DEF TypeOK, SetSpec, SSetState, SelectorState
<1>4. Watched(s.idx)
  <2>1. CASE s.idx = 0
    BY <1>1, <1>3, <2>1 DEF Watched
  <2>2. CASE used.edits = 0
    BY <1>1, <1>2, <1>3, <2>2 DEF Watched, RInv, NumbersOK, Idx
  <2>. QED
    BY <2>1, <2>2
<1>5. Attended(s.idx)
  BY <1>1, <1>2, <1>4 DEF RInv, AttendedOK
<1>6. \A q \in At(s.idx) : q = s
  <2>1. At(s.idx) \subseteq servers
    BY DEF At
  <2>2. PICK x : At(s.idx) = {x}
    BY <2>1, FS_Subset, FS_Singleton DEF RInv
  <2>. QED
    BY <1>2, <2>2
<1>7. \A d \in Listed(s.idx) : d \in Group(s.idx)
  BY <1>2 DEF Listed, Group, Children
<1>. QED
  BY <1>2, <1>5, <1>6, <1>7 DEF Attended, AllAttached

(* What a ready set says of its volumes is true of the replica it began with, *)
(* and of all until it is first edited, as long as a server is the first of   *)
(* its replica: whatever fails or restarts while the selector attaches, in    *)
(* whatever order its goroutines end.                                         *)
THEOREM ReadyIsAttached == Spec => []ReadyMeansAttached
<1>1. Init => SInv /\ AInv /\ RInv
  <2>1. Init => SInv /\ AInv
    BY DEF Init, Idle, SelIdle, SInv, Kept, FoundSoFar, FoundAll, OnlyNew, AInv
  <2>2. Init => RInv
    BY Constants, FS_EmptySet DEF Init, Idle, SelIdle, RInv, NumbersOK, SelectorOK, AttendedOK
  <2>. QED
    BY <2>1, <2>2
<1>2. TInv /\ SInv /\ AInv /\ RInv /\ [Next]_vars => (TInv /\ SInv /\ AInv /\ RInv)'
  BY NextTypes, NextKeepsStorage, NextOwn, NumbersKept, SelectorKept, NextAttends, ServersFinite
  DEF TInv, RInv
<1>3. TInv /\ RInv => ReadyMeansAttached
  BY ReadyAttends DEF TInv
<1>. QED
  BY <1>1, <1>2, <1>3, InitBound, PTL DEF Spec
=============================================================================
