----------------------- MODULE ManagedResourceProofs -----------------------
(* One resource, one object: whatever the tables of its kind are.            *)
EXTENDS ManagedResource, FiniteSetTheorems, TLAPS

-----------------------------------------------------------------------------
(* Types.                                                                    *)
ApiValues == Values \cup {"nil"}
Resources == [at : {"present", "deleted", "gone"}, spec : Values, asked : Values,
              name : 0 .. MaxObjects, posted : 0 .. MaxObjects, pending : BOOLEAN,
              status : Status, seen : Values]
Objects == [state : States \cup {"unused", "FAILED", "gone"}, new : BOOLEAN, val : ApiValues]
Copies == [status : Status, name : 0 .. MaxObjects, posted : 0 .. MaxObjects,
           id : 0 .. MaxObjects, spec : Values, fresh : BOOLEAN]
Troubles == [calls : 0 .. MaxTrouble, past : SUBSET {"failed", "removed", "unpended", "lost"}]
Points == {"idle", "create", "createWait", "createCalls", "update", "updateWait", "updateCalls",
           "delete", "deleteWait"}
Typed ==
  /\ TypeOK
  /\ kind.update.notes \in States

LEMMA TypeParts ==
  TypeOK <=> /\ unique \in BOOLEAN /\ cr \in Resources /\ api \in [Ids -> Objects]
             /\ needed \in BOOLEAN /\ process \in Values /\ pc \in Points /\ mem \in Copies
             /\ trouble \in Troubles /\ edits \in 0 .. MaxEdits
BY DEF TypeOK, Resources, Objects, Copies, Troubles, Points, ApiValues

LEMMA LiveTyped ==
  ASSUME NEW id \in 0 .. MaxObjects, Live(id)
  PROVE  id \in Ids /\ api[id].state \in States
BY BoundsAssumption DEF Live, Ids

LEMMA IdleTyped == Idle \in Copies /\ NoStatus \in Status
BY BoundsAssumption DEF Idle, Copies, NoStatus, Status, States, Values

LEMMA ContinueTyped ==
  ASSUME cr \in Resources
  PROVE  Continue \in Copies
BY DEF Continue, Copies, Resources

LEMMA TroubleTyped ==
  ASSUME trouble \in Troubles, NEW what \in SUBSET {"failed", "removed", "unpended", "lost"},
         Trouble(what)
  PROVE  trouble' \in Troubles /\ trouble'.past = trouble.past \cup what
<1>1. trouble.calls + 1 \in 0 .. MaxTrouble
  BY BoundsAssumption DEF Troubles, Trouble
<1>2. trouble.past \cup what \in SUBSET {"failed", "removed", "unpended", "lost"}
  BY DEF Troubles
<1>. QED
  BY <1>1, <1>2 DEF Troubles, Trouble

LEMMA ReturnTyped ==
  ASSUME cr \in Resources, NEW m \in Copies, Return(m)
  PROVE  cr' \in Resources /\ pc' \in Points /\ mem' \in Copies
BY IdleTyped DEF Return, Resources, Copies, Points

LEMMA CreatedTyped ==
  ASSUME cr \in Resources, NEW m \in Copies, Created(m)
  PROVE  cr' \in Resources /\ pc' \in Points /\ mem' \in Copies
BY IdleTyped DEF Created, Resources, Copies, Points

LEMMA NotedTyped ==
  ASSUME cr \in Resources, NEW spec \in Values, Live(cr.name)
  PROVE  Noted(spec) \in Status
BY LiveTyped DEF Noted, Resources, Status

LEMMA LateTyped ==
  ASSUME NEW spec \in Values, NEW val \in ApiValues
  PROVE  Late(spec, val) \in Values
BY DEF Late, ApiValues, Values

LEMMA ProcessTyped ==
  ASSUME cr \in Resources, process \in Values, ProcessNotes
  PROVE  process' \in Values
BY DEF ProcessNotes, Resources

LEMMA InitTyped == Init => Typed
<1>. SUFFICES ASSUME Init PROVE Typed
  OBVIOUS
<1>1. kind.update.notes \in States
  BY NotesAssumption DEF Init
<1>2. cr \in Resources
  BY IdleTyped, BoundsAssumption DEF Init, Resources, Values
<1>3. api \in [Ids -> Objects]
  BY DEF Init, Objects, Unused, ApiValues
<1>. QED
  BY <1>1, <1>2, <1>3, IdleTyped, BoundsAssumption, TypeParts DEF Init, Typed, Points, Values, Troubles

LEMMA NextTyped ==
  ASSUME Typed, [Next]_vars
  PROVE  Typed'
<1>1. /\ unique \in BOOLEAN /\ cr \in Resources /\ api \in [Ids -> Objects]
      /\ needed \in BOOLEAN /\ process \in Values /\ pc \in Points /\ mem \in Copies
      /\ trouble \in Troubles /\ edits \in 0 .. MaxEdits
  BY TypeParts DEF Typed
<1>2. kind' = kind /\ unique' = unique
  BY DEF Next, vars, config, Reconcile, Environment, Done, Fails, Removed, Unneeded, Edit, Remove,
     RemovePending, Restart, ObserveMissing, ObserveUnreadable, ObserveFound, CreateRefused,
     CreateFinds, Post, PostRefused, CreateFails, CreateWaits, CreateCalls, UpdateRefused, Patch,
     PatchNotFound, UpdateFails, UpdateWaits, UpdateCalls, DeleteRefused, DeleteCall, DeleteWaits,
     DeleteFails
<1>. DEFINE Goal == /\ cr' \in Resources /\ api' \in [Ids -> Objects]
                    /\ needed' \in BOOLEAN /\ process' \in Values /\ pc' \in Points
                    /\ mem' \in Copies /\ trouble' \in Troubles /\ edits' \in 0 .. MaxEdits
<1>. SUFFICES Goal
  BY <1>1, <1>2 DEF Typed, TypeOK, Resources, Objects, Copies, Troubles, Points, ApiValues
<1>3. ASSUME NEW id \in Ids, Done(id) PROVE Goal
  BY <1>1, <1>3 DEF Done, Objects, States
<1>4. ASSUME NEW id \in Ids, Fails(id) PROVE Goal
  BY <1>1, <1>4, TroubleTyped DEF Fails, Objects
<1>5. ASSUME NEW id \in Ids, Removed(id) PROVE Goal
  BY <1>1, <1>5, TroubleTyped DEF Removed, Objects
<1>6. CASE Unneeded
  BY <1>1, <1>6, TroubleTyped DEF Unneeded
<1>7. CASE Edit
  <2>1. edits + 1 \in 0 .. MaxEdits /\ (mem.fresh /\ Secret) \in BOOLEAN
    BY <1>1, <1>7, BoundsAssumption DEF Edit
  <2>2. mem' \in Copies
    BY <1>1, <1>7, <2>1 DEF Edit, Copies
  <2>3. cr' \in Resources
    BY <1>1, <1>7 DEF Edit, Resources, Values
  <2>. QED
    BY <1>1, <1>7, <2>1, <2>2, <2>3 DEF Edit
<1>8. CASE Remove
  BY <1>1, <1>8 DEF Remove, Resources, Copies
<1>9. CASE RemovePending
  <2>1. trouble' \in Troubles
    BY <1>1, <1>9 DEF RemovePending, Troubles
  <2>. QED
    BY <1>1, <1>9, <2>1 DEF RemovePending, Resources
<1>10. CASE ObserveMissing
  BY <1>1, <1>10, ContinueTyped DEF ObserveMissing, Start, Resources, Points
<1>11. CASE ObserveUnreadable
  BY <1>1, <1>11, LiveTyped DEF ObserveUnreadable, Resources, Status
<1>12. CASE ObserveFound
  <2>. DEFINE o == api[cr.name]
              spec == Late(cr.spec, o.val)
              rehashed == kind.compared.inSpec /\ cr.seen # spec
              late == spec # cr.spec \/ rehashed
              status == IF late THEN cr.status ELSE Noted(spec)
              saved == [cr EXCEPT !.spec = spec, !.seen = IF rehashed THEN spec ELSE @]
  <2>1. spec \in Values
    BY <1>1, <1>12, LiveTyped, LateTyped DEF ObserveFound, Resources, Objects
  <2>2. Noted(spec) \in Status /\ Noted(cr.spec) \in Status
    BY <1>1, <1>12, <2>1, NotedTyped DEF ObserveFound, Resources
  <2>3. status \in Status
    BY <1>1, <2>2 DEF Resources
  <2>4. saved \in Resources
    BY <1>1, <2>1 DEF Resources
  <2>5. Continue \in Copies
    BY <1>1, ContinueTyped
  <2>6. CASE cr.at = "deleted"
    BY <1>1, <1>12, <2>6, <2>2, <2>5 DEF ObserveFound, Start, Copies, Points
  <2>7. CASE cr.at # "deleted" /\ Outdated(spec, o)
    <3>1. cr' = saved /\ pc' = "update" /\ mem' = [Continue EXCEPT !.spec = spec, !.status = status]
      BY <1>12, <2>7 DEF ObserveFound, Start
    <3>2. mem' \in Copies
      BY <3>1, <2>1, <2>3, <2>5 DEF Copies
    <3>. QED
      BY <1>1, <1>12, <3>1, <3>2, <2>4 DEF ObserveFound, Points
  <2>8. CASE cr.at # "deleted" /\ ~Outdated(spec, o)
    <3>1. cr' = [saved EXCEPT !.status = status] /\ pc' = pc /\ mem' = mem
      BY <1>12, <2>8 DEF ObserveFound
    <3>2. cr' \in Resources
      BY <3>1, <2>3, <2>4 DEF Resources
    <3>. QED
      BY <1>1, <1>12, <3>1, <3>2 DEF ObserveFound
  <2>. QED
    BY <2>6, <2>7, <2>8
<1>13. CASE CreateRefused
  BY <1>1, <1>13, CreatedTyped DEF CreateRefused
<1>14. CASE CreateFinds
  <2>1. CASE Created(mem)
    BY <1>1, <1>14, <2>1, CreatedTyped DEF CreateFinds
  <2>2. ASSUME NEW id \in Named, Created([mem EXCEPT !.name = id]) PROVE Goal
    <3>1. [mem EXCEPT !.name = id] \in Copies
      BY <1>1, BoundsAssumption DEF Named, LiveIds, Ids, Copies
    <3>. QED
      BY <1>1, <1>14, <2>2, <3>1, CreatedTyped DEF CreateFinds
  <2>. QED
    BY <1>14, <2>1, <2>2 DEF CreateFinds
<1>15. CASE Post
  <2>. DEFINE sent == IF Secret THEN cr.spec ELSE mem.spec
              object == [state |-> Creating, new |-> TRUE, val |-> PostedValue(sent)]
              told(id) == [mem EXCEPT !.id = id,
                             !.name = IF kind.create.named = "posted" THEN id ELSE @,
                             !.posted = IF kind.create.annotated THEN id ELSE @]
  <2>1. PICK id \in Ids :
          /\ api' = [api EXCEPT ![id] = object]
          /\ \/ Start("createWait", told(id)) /\ UNCHANGED <<cr, trouble>>
             \/ Created(mem) /\ Trouble({"lost"})
    BY <1>15 DEF Post
  <2>2. object \in Objects
    <3>1. sent \in Values
      BY <1>1 DEF Resources, Copies
    <3>2. PostedValue(sent) \in ApiValues
      BY <3>1 DEF PostedValue, ApiValues, Values
    <3>. QED
      BY <3>2 DEF Objects, Creating, States
  <2>3. told(id) \in Copies
    <3>1. /\ id \in 0 .. MaxObjects
          /\ (IF kind.create.named = "posted" THEN id ELSE mem.name) \in 0 .. MaxObjects
          /\ (IF kind.create.annotated THEN id ELSE mem.posted) \in 0 .. MaxObjects
      BY <1>1, BoundsAssumption DEF Ids, Copies
    <3>. QED
      BY <1>1, <3>1 DEF Copies
  <2>4. api' \in [Ids -> Objects] /\ process' \in Values
    BY <1>1, <1>15, <2>1, <2>2, ProcessTyped DEF Post
  <2>5. CASE Start("createWait", told(id)) /\ UNCHANGED <<cr, trouble>>
    BY <1>1, <1>15, <2>3, <2>4, <2>5 DEF Post, Start, Points
  <2>6. CASE Created(mem) /\ Trouble({"lost"})
    BY <1>1, <1>15, <2>4, <2>6, CreatedTyped, TroubleTyped DEF Post
  <2>. QED
    BY <2>1, <2>5, <2>6
<1>16. CASE PostRefused
  BY <1>1, <1>16, CreatedTyped, ProcessTyped DEF PostRefused
<1>17. CASE CreateFails
  BY <1>1, <1>17, CreatedTyped, ProcessTyped, TroubleTyped DEF CreateFails
<1>18. CASE CreateWaits
  <2>. DEFINE m == [mem EXCEPT !.name = mem.id]
  <2>1. m \in Copies
    BY <1>1 DEF Copies
  <2>2. Created(mem) \/ Created(m) \/ (Start("createCalls", m) /\ cr' = cr)
    BY <1>18 DEF CreateWaits
  <2>. QED
    BY <1>1, <1>18, <2>1, <2>2, CreatedTyped DEF CreateWaits, Start, Points
<1>19. CASE CreateCalls
  <2>1. api' \in [Ids -> Objects]
    BY <1>1, <1>19, LiveTyped DEF CreateCalls, Objects, Copies, ApiValues
  <2>. QED
    BY <1>1, <1>19, <2>1, CreatedTyped DEF CreateCalls
<1>20. CASE UpdateRefused
  BY <1>1, <1>20, ReturnTyped DEF UpdateRefused
<1>21. CASE Patch
  <2>. DEFINE id == Addressed
              spec == IF Secret THEN cr.spec ELSE mem.spec
              val == IF kind.update.before THEN spec ELSE PatchedValue(spec, api[id].val)
              m == [mem EXCEPT !.id = id,
                      !.status.state = IF kind.update.notes # "" THEN kind.update.notes ELSE @]
  <2>1. id \in 0 .. MaxObjects /\ Live(id) /\ spec \in Values
    BY <1>1, <1>21 DEF Patch, Addressed, Copies, Status, Resources
  <2>2. id \in Ids /\ api[id] \in Objects
    BY <1>1, <2>1, LiveTyped
  <2>3. val \in ApiValues
    BY <2>1, <2>2 DEF PatchedValue, Objects, ApiValues
  <2>4. m \in Copies
    <3>1. kind.update.notes \in States
      BY DEF Typed
    <3>2. [mem.status EXCEPT !.state = IF kind.update.notes # "" THEN kind.update.notes ELSE @] \in Status
      BY <1>1, <3>1 DEF Copies, Status
    <3>. QED
      BY <1>1, <2>1, <3>2 DEF Copies
  <2>5. api' = [api EXCEPT ![id].val = val,
                 ![id].state = IF kind.patches /\ @ = "ACTIVE" THEN Updating ELSE @]
    BY <1>21 DEF Patch
  <2>6. api' \in [Ids -> Objects]
    BY <1>1, <2>2, <2>3, <2>5 DEF Objects, Updating, States
  <2>. QED
    BY <1>1, <1>21, <2>4, <2>6, ProcessTyped DEF Patch, Start, Points
<1>22. CASE PatchNotFound
  BY <1>1, <1>22, ReturnTyped, ProcessTyped DEF PatchNotFound
<1>23. CASE UpdateFails
  BY <1>1, <1>23, ReturnTyped, ProcessTyped, TroubleTyped DEF UpdateFails
<1>24. CASE UpdateWaits
  BY <1>1, <1>24, ReturnTyped DEF UpdateWaits, Start, Points
<1>25. CASE UpdateCalls
  <2>1. api' \in [Ids -> Objects]
    BY <1>1, <1>25, LiveTyped DEF UpdateCalls, SetBy, Objects, Copies, ApiValues
  <2>. QED
    BY <1>1, <1>25, <2>1, ReturnTyped DEF UpdateCalls
<1>26. CASE DeleteRefused
  BY <1>1, <1>26, ReturnTyped DEF DeleteRefused
<1>27. CASE DeleteCall
  <2>1. api' \in [Ids -> Objects]
    BY <1>1, <1>27, LiveTyped DEF DeleteCall, Objects, Copies, States
  <2>. QED
    BY <1>1, <1>27, <2>1 DEF DeleteCall, Start, Points
<1>28. CASE DeleteWaits
  BY <1>1, <1>28, ReturnTyped DEF DeleteWaits
<1>29. CASE DeleteFails
  BY <1>1, <1>29, ReturnTyped, TroubleTyped DEF DeleteFails
<1>30. CASE Restart
  BY <1>1, <1>30, IdleTyped, TroubleTyped DEF Restart, Points, Values
<1>31. CASE UNCHANGED vars
  BY <1>1, <1>31 DEF vars
<1>. QED
  BY <1>3, <1>4, <1>5, <1>6, <1>7, <1>8, <1>9, <1>10, <1>11, <1>12, <1>13, <1>14, <1>15, <1>16, <1>17,
     <1>18, <1>19, <1>20, <1>21, <1>22, <1>23, <1>24, <1>25, <1>26, <1>27, <1>28, <1>29, <1>30, <1>31
  DEF Next, Reconcile, Environment

-----------------------------------------------------------------------------
(* The objects.  While the annotation external-create-pending is set, the    *)
(* resource's name may be behind; otherwise it is the only object's.         *)
Sound == trouble.past \cap {"lost", "unpended"} = {}
Posted == kind.create.named = "posted"
CreatePoints == {"create", "createWait", "createCalls"}

Bookkept ==
  /\ pc \in CreatePoints => cr.pending
  /\ cr.at = "gone" => pc = "idle" /\ ~cr.pending
  /\ Sound /\ Posted =>
       /\ pc = "create" => LiveIds = {}
       /\ pc \in {"createWait", "createCalls"} => LiveIds \subseteq {mem.id} /\ mem.name = mem.id
       /\ ~cr.pending => LiveIds \subseteq {cr.name}
       /\ cr.at = "gone" => LiveIds = {}
  /\ Sound /\ Traceable => \E x \in 0 .. MaxObjects : LiveIds \subseteq {x}

MInv == Typed /\ Bookkept

LEMMA LiveShrinks ==
  ASSUME \A id \in Ids : api'[id].state \in States => api[id].state \in States
  PROVE  LiveIds' \subseteq LiveIds
BY DEF LiveIds, Live

\* No object is posted, and the resource's annotations are left alone.
LEMMA QuietKeeps ==
  ASSUME MInv, kind' = kind, unique' = unique, trouble.past \subseteq trouble'.past,
         LiveIds' \subseteq LiveIds, cr'.pending = cr.pending, cr'.name = cr.name,
         cr'.at = "gone" <=> cr.at = "gone",
         pc' \in CreatePoints => pc' = pc /\ mem'.id = mem.id /\ mem'.name = mem.name,
         pc' # "idle" => pc # "idle" \/ cr.at # "gone"
  PROVE  Bookkept'
<1>1. Sound' => Sound
  BY DEF Sound
<1>2. Posted' = Posted /\ Traceable' = Traceable
  BY DEF Posted, Traceable, Searches
<1>. QED
  BY <1>1, <1>2 DEF MInv, Bookkept, CreatePoints

\* Create returns.
LEMMA CreatedKeeps ==
  ASSUME MInv, kind' = kind, unique' = unique, trouble.past \subseteq trouble'.past,
         LiveIds' \subseteq LiveIds, pc \in CreatePoints, NEW m \in Copies, Created(m),
         Sound /\ Posted => LiveIds \subseteq {m.name}
  PROVE  Bookkept'
<1>1. Sound' => Sound
  BY DEF Sound
<1>2. Posted' = Posted /\ Traceable' = Traceable
  BY DEF Posted, Traceable, Searches
<1>3. cr'.name = m.name /\ ~cr'.pending /\ cr'.at = cr.at /\ pc' = "idle"
  BY TypeParts DEF Created, MInv, Typed, Resources
<1>4. cr.at # "gone"
  BY DEF MInv, Bookkept, CreatePoints
<1>. QED
  BY <1>1, <1>2, <1>3, <1>4 DEF MInv, Bookkept, CreatePoints

LEMMA InitBookkept == Init => Bookkept
<1>. SUFFICES ASSUME Init PROVE Bookkept
  OBVIOUS
<1>1. LiveIds = {} /\ 0 \in 0 .. MaxObjects
  <2>1. ASSUME NEW id \in Ids PROVE ~Live(id)
    <3>1. api[id].state = "unused"
      BY DEF Init, Unused
    <3>. QED
      BY <3>1 DEF Live, States
  <2>. QED
    BY <2>1, BoundsAssumption DEF LiveIds
<1>2. pc = "idle" /\ cr.at = "present" /\ ~cr.pending
  BY DEF Init
<1>. QED
  BY <1>1, <1>2 DEF Bookkept, CreatePoints

LEMMA NextBookkept ==
  ASSUME MInv, [Next]_vars
  PROVE  Bookkept'
<1>1. /\ cr \in Resources /\ api \in [Ids -> Objects] /\ pc \in Points /\ mem \in Copies
      /\ trouble \in Troubles
  BY TypeParts DEF MInv, Typed
<1>2. kind' = kind /\ unique' = unique
  BY DEF Next, vars, config, Reconcile, Environment, Done, Fails, Removed, Unneeded, Edit, Remove,
     RemovePending, Restart, ObserveMissing, ObserveUnreadable, ObserveFound, CreateRefused,
     CreateFinds, Post, PostRefused, CreateFails, CreateWaits, CreateCalls, UpdateRefused, Patch,
     PatchNotFound, UpdateFails, UpdateWaits, UpdateCalls, DeleteRefused, DeleteCall, DeleteWaits,
     DeleteFails
<1>. USE <1>2
<1>3. ASSUME api' = api PROVE LiveIds' = LiveIds
  BY <1>3 DEF LiveIds, Live
<1>4. ASSUME NEW id \in Ids, Done(id) \/ Fails(id) \/ Removed(id) PROVE Bookkept'
  <2>1. LiveIds' \subseteq LiveIds
    <3>1. api[id].state \in States
      BY <1>4 DEF Done, Fails, Removed, Creating, States
    <3>2. \A i \in Ids : i # id => api'[i] = api[i]
      BY <1>1, <1>4 DEF Done, Fails, Removed
    <3>. QED
      BY <3>1, <3>2, LiveShrinks
  <2>2. trouble.past \subseteq trouble'.past /\ cr' = cr /\ pc' = pc /\ mem' = mem
    <3>1. trouble' = trouble \/ \E what \in SUBSET {"failed", "removed", "unpended", "lost"} : Trouble(what)
      BY <1>4 DEF Done, Fails, Removed
    <3>2. trouble.past \subseteq trouble'.past
      BY <1>1, <3>1, TroubleTyped
    <3>. QED
      BY <3>2, <1>4 DEF Done, Fails, Removed
  <2>. QED
    BY <2>1, <2>2, QuietKeeps
<1>5. CASE Unneeded \/ Edit \/ Remove \/ Restart
  <2>1. LiveIds' = LiveIds
    BY <1>3, <1>5 DEF Unneeded, Edit, Remove, Restart
  <2>2. trouble.past \subseteq trouble'.past
    <3>1. trouble' = trouble \/ Trouble({})
      BY <1>5 DEF Unneeded, Edit, Remove, Restart
    <3>. QED
      BY <1>1, <3>1, TroubleTyped
  <2>3. cr'.pending = cr.pending /\ cr'.name = cr.name /\ (cr'.at = "gone" <=> cr.at = "gone")
    BY <1>1, <1>5 DEF Unneeded, Edit, Remove, Restart, Resources
  <2>4. /\ pc' \in CreatePoints => pc' = pc /\ mem'.id = mem.id /\ mem'.name = mem.name
        /\ pc' # "idle" => pc # "idle"
    BY <1>1, <1>5 DEF Unneeded, Edit, Remove, Restart, Copies, CreatePoints
  <2>. QED
    BY <2>1, <2>2, <2>3, <2>4, QuietKeeps
<1>6. CASE ObserveUnreadable \/ ObserveFound
  <2>1. LiveIds' = LiveIds /\ trouble' = trouble
    BY <1>3, <1>6 DEF ObserveUnreadable, ObserveFound
  <2>2. cr'.pending = cr.pending /\ cr'.name = cr.name /\ cr'.at = cr.at /\ cr.at # "gone"
    BY <1>1, <1>6 DEF ObserveUnreadable, ObserveFound, Resources
  <2>3. pc' \in CreatePoints => pc' = pc /\ mem' = mem
    BY <1>6 DEF ObserveUnreadable, ObserveFound, Start, CreatePoints
  <2>. QED
    BY <2>1, <2>2, <2>3, QuietKeeps
<1>7. CASE \/ UpdateRefused \/ PatchNotFound \/ UpdateFails \/ UpdateWaits \/ UpdateCalls
           \/ DeleteRefused \/ DeleteWaits \/ DeleteFails \/ Patch \/ DeleteCall
  <2>1. pc \notin CreatePoints /\ pc # "idle" /\ pc' \notin CreatePoints
    BY <1>7 DEF UpdateRefused, PatchNotFound, UpdateFails, UpdateWaits, UpdateCalls, DeleteRefused,
       DeleteWaits, DeleteFails, Patch, DeleteCall, MayUpdate, Return, Start, CreatePoints
  <2>2. cr'.pending = cr.pending /\ cr'.name = cr.name /\ cr'.at = cr.at
    BY <1>1, <1>7 DEF UpdateRefused, PatchNotFound, UpdateFails, UpdateWaits, UpdateCalls, DeleteRefused,
       DeleteWaits, DeleteFails, Patch, DeleteCall, Return, Start, Resources
  <2>3. trouble.past \subseteq trouble'.past
    BY <1>1, <1>7 DEF UpdateRefused, PatchNotFound, UpdateFails, UpdateWaits, UpdateCalls, DeleteRefused,
       DeleteWaits, DeleteFails, Patch, DeleteCall, Trouble
  <2>4. LiveIds' \subseteq LiveIds
    <3>1. CASE UpdateCalls
      BY <1>1, <3>1, LiveShrinks DEF UpdateCalls, SetBy, Objects
    <3>2. CASE DeleteCall
      BY <1>1, <3>2, LiveTyped, LiveShrinks DEF DeleteCall, Objects, Copies
    <3>3. CASE Patch
      <4>1. Live(Addressed) /\ Addressed \in Ids
        BY <1>1, <3>3, LiveTyped DEF Patch, Addressed, Copies, Status
      <4>2. \A i \in Ids : i # Addressed => api'[i] = api[i]
        BY <1>1, <3>3, <4>1 DEF Patch
      <4>. QED
        BY <4>1, <4>2, LiveShrinks DEF Live
    <3>. QED
      BY <1>3, <1>7, <3>1, <3>2, <3>3 DEF UpdateRefused, PatchNotFound, UpdateFails, UpdateWaits,
         DeleteRefused, DeleteWaits, DeleteFails
  <2>. QED
    BY <2>1, <2>2, <2>3, <2>4, QuietKeeps
<1>8. CASE RemovePending
  <2>1. ~Sound'
    <3>1. trouble'.past = trouble.past \cup {"unpended"}
      BY <1>1, <1>8 DEF RemovePending, Troubles
    <3>. QED  BY <3>1 DEF Sound
  <2>2. ~cr'.pending /\ pc' = "idle" /\ cr'.at = cr.at
    BY <1>1, <1>8 DEF RemovePending, Resources
  <2>. QED
    BY <2>1, <2>2 DEF Bookkept, CreatePoints
<1>9. CASE ObserveMissing
  <2>1. LiveIds' = LiveIds /\ trouble' = trouble
    BY <1>3, <1>9 DEF ObserveMissing
  <2>2. Sound' = Sound /\ Posted' = Posted /\ Traceable' = Traceable
    BY <2>1 DEF Sound, Posted, Traceable, Searches
  <2>3. Sound /\ Posted => LiveIds = {}
    BY <1>9 DEF ObserveMissing, MInv, Bookkept, LiveIds
  <2>4. CASE cr.at = "deleted"
    <3>1. cr'.at = "gone" /\ ~cr'.pending /\ pc' = "idle"
      BY <1>1, <1>9, <2>4 DEF ObserveMissing, Resources
    <3>. QED
      BY <2>1, <2>2, <2>3, <3>1 DEF Bookkept, MInv, CreatePoints
  <2>5. CASE cr.at # "deleted"
    <3>1. cr'.at # "gone" /\ cr'.pending /\ pc' = "create"
      BY <1>1, <1>9, <2>5 DEF ObserveMissing, Resources, Start
    <3>. QED
      BY <2>1, <2>2, <2>3, <3>1 DEF Bookkept, MInv, CreatePoints
  <2>. QED
    BY <2>4, <2>5
<1>10. CASE CreateRefused \/ CreateFinds \/ PostRefused \/ CreateFails
  <2>1. pc \in CreatePoints
    BY <1>10 DEF CreateRefused, CreateFinds, PostRefused, CreateFails, MayCreate, CreatePoints
  <2>2. LiveIds' = LiveIds /\ trouble.past \subseteq trouble'.past
    BY <1>1, <1>3, <1>10 DEF CreateRefused, CreateFinds, PostRefused, CreateFails, Trouble
  <2>3. Sound /\ Posted => LiveIds \subseteq {mem.name}
    BY <2>1 DEF MInv, Bookkept, CreatePoints
  <2>4. CASE Created(mem)
    BY <1>1, <2>1, <2>2, <2>3, <2>4, CreatedKeeps
  <2>5. ASSUME NEW id \in Named, CreateFinds, Created([mem EXCEPT !.name = id]) PROVE Bookkept'
    <3>1. pc = "create" /\ id \in LiveIds /\ [mem EXCEPT !.name = id] \in Copies
      BY <1>1, <2>5, BoundsAssumption DEF CreateFinds, MayCreate, Named, LiveIds, Ids, Copies
    <3>2. Sound /\ Posted => LiveIds \subseteq {id}
      BY <3>1 DEF MInv, Bookkept
    <3>. QED
      BY <1>1, <2>1, <2>2, <2>5, <3>1, <3>2, CreatedKeeps DEF Copies
  <2>. QED
    BY <1>10, <2>4, <2>5 DEF CreateRefused, CreateFinds, PostRefused, CreateFails
<1>11. CASE CreateWaits
  <2>. DEFINE m == [mem EXCEPT !.name = mem.id]
  <2>1. LiveIds' = LiveIds /\ trouble' = trouble /\ pc = "createWait"
    BY <1>3, <1>11 DEF CreateWaits
  <2>2. m \in Copies /\ m.name = mem.id /\ m.id = mem.id
    BY <1>1 DEF Copies
  <2>3. Sound /\ Posted => LiveIds \subseteq {mem.id} /\ mem.name = mem.id
    BY <2>1 DEF MInv, Bookkept
  <2>4. CASE Created(mem)
    BY <1>1, <2>1, <2>3, <2>4, CreatedKeeps DEF CreatePoints
  <2>5. CASE Created(m)
    BY <1>1, <2>1, <2>2, <2>3, <2>5, CreatedKeeps DEF CreatePoints
  <2>6. CASE Start("createCalls", m) /\ cr' = cr
    <3>1. Sound' = Sound /\ Posted' = Posted /\ Traceable' = Traceable
      BY <2>1 DEF Sound, Posted, Traceable, Searches
    <3>. QED
      BY <2>1, <2>2, <2>3, <2>6, <3>1 DEF MInv, Bookkept, Start, CreatePoints
  <2>. QED
    BY <1>11, <2>4, <2>5, <2>6 DEF CreateWaits
<1>12. CASE CreateCalls
  <2>1. LiveIds' \subseteq LiveIds
    BY <1>1, <1>12, LiveShrinks DEF CreateCalls, Objects
  <2>2. Sound /\ Posted => LiveIds \subseteq {mem.name}
    BY <1>12 DEF CreateCalls, MInv, Bookkept
  <2>. QED
    BY <1>1, <1>12, <2>1, <2>2, CreatedKeeps DEF CreateCalls, CreatePoints
<1>13. CASE Post
  <2>. DEFINE new == [state |-> Creating, new |-> TRUE,
                      val |-> PostedValue(IF Secret THEN cr.spec ELSE mem.spec)]
  <2>1. PICK id \in Ids :
          /\ api' = [api EXCEPT ![id] = new]
          /\ \/ /\ pc' = "createWait" /\ mem'.id = id /\ (Posted => mem'.name = id)
                /\ cr' = cr /\ trouble' = trouble
             \/ Created(mem) /\ Trouble({"lost"})
    <3>. DEFINE told(i) == [mem EXCEPT !.id = i,
                              !.name = IF kind.create.named = "posted" THEN i ELSE @,
                              !.posted = IF kind.create.annotated THEN i ELSE @]
    <3>1. PICK id \in Ids :
            /\ api' = [api EXCEPT ![id] = new]
            /\ \/ Start("createWait", told(id)) /\ UNCHANGED <<cr, trouble>>
               \/ Created(mem) /\ Trouble({"lost"})
      BY <1>13 DEF Post
    <3>2. told(id).id = id /\ (Posted => told(id).name = id)
      BY <1>1 DEF Copies, Posted
    <3>. HIDE DEF told
    <3>. QED
      BY <3>1, <3>2 DEF Start
  <2>. HIDE DEF new
  <2>2. LiveIds' \subseteq LiveIds \cup {id}
    BY <1>1, <2>1 DEF LiveIds, Live
  <2>3. pc = "create" /\ (Searches => Named = {})
    BY <1>13 DEF Post, MayCreate
  <2>4. Sound /\ Traceable => LiveIds = {}
    BY <2>3 DEF MInv, Bookkept, Traceable, Posted, Named
  <2>5. CASE Created(mem) /\ Trouble({"lost"})
    <3>1. ~Sound'
      BY <2>5 DEF Trouble, Sound
    <3>2. cr'.at = cr.at /\ cr.at # "gone" /\ pc' = "idle"
      BY <1>1, <2>3, <2>5 DEF Created, Resources, MInv, Bookkept
    <3>. QED
      BY <3>1, <3>2 DEF Bookkept, CreatePoints
  <2>6. CASE /\ pc' = "createWait" /\ mem'.id = id /\ (Posted => mem'.name = id)
             /\ cr' = cr /\ trouble' = trouble
    <3>1. Sound' = Sound /\ Posted' = Posted /\ Traceable' = Traceable
      BY <2>6 DEF Sound, Posted, Traceable, Searches
    <3>2. cr.pending /\ cr.at # "gone"
      BY <2>3 DEF MInv, Bookkept, CreatePoints
    <3>3. id \in 0 .. MaxObjects
      BY BoundsAssumption DEF Ids
    <3>4. Posted => Traceable
      BY DEF Posted, Traceable
    <3>. QED
      BY <2>2, <2>4, <2>6, <3>1, <3>2, <3>3, <3>4 DEF Bookkept, CreatePoints
  <2>. QED
    BY <2>1, <2>5, <2>6
<1>14. CASE UNCHANGED vars
  <2>1. LiveIds' = LiveIds
    BY <1>3, <1>14 DEF vars
  <2>. QED
    BY <1>14, <2>1, QuietKeeps DEF vars
<1>. QED
  BY <1>4, <1>5, <1>6, <1>7, <1>8, <1>9, <1>10, <1>11, <1>12, <1>13, <1>14
  DEF Next, Reconcile, Environment

LEMMA Inductive == Spec => []MInv
<1>1. Init => MInv
  BY InitTyped, InitBookkept DEF MInv
<1>2. MInv /\ [Next]_vars => MInv'
  BY NextTyped, NextBookkept DEF MInv
<1>. QED
  BY <1>1, <1>2, PTL DEF Spec

LEMMA AtMostOne ==
  ASSUME NEW x, LiveIds \subseteq {x}
  PROVE  Cardinality(LiveIds) <= 1
<1>1. IsFiniteSet({x}) /\ Cardinality({x}) = 1
  BY FS_Singleton
<1>. QED
  BY <1>1, FS_Subset

-----------------------------------------------------------------------------
\* Whatever the tables of a kind say, every variable is of its type.
THEOREM Types == Spec => []TypeOK
<1>1. MInv => TypeOK
  BY DEF MInv, Typed
<1>. QED
  BY <1>1, Inductive, PTL

\* For any kind that sets the external name from the answer to its POST, or first looks for
\* an object of the resource's unique name while that is not edited: never two objects for
\* one resource, with any number of failed calls, restarts of the provider and edits.
THEOREM OneObjectOnly == Spec => []OneObject
<1>1. MInv => OneObject
  BY AtMostOne DEF MInv, Bookkept, OneObject, Sound
<1>. QED
  BY <1>1, Inductive, PTL

\* For any kind that sets the external name from the answer to its POST: when the finalizer
\* is removed no object is left, with any number of failed calls and restarts.
THEOREM NoOrphanIsLeft == Spec => []NoOrphans
<1>1. MInv => NoOrphans
  BY DEF MInv, Bookkept, NoOrphans, Sound, Posted
<1>. QED
  BY <1>1, Inductive, PTL
=============================================================================
