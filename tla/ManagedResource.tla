-------------------------- MODULE ManagedResource --------------------------
(* One managed resource of a kind with one object in the cloud: the          *)
(* handlers Observe, Create, Update and Delete of the provider's             *)
(* controllers, called by crossplane-runtime's managed.Reconciler, against   *)
(* the IONOS API.  What the kinds differ in is in the tables of Kinds; the   *)
(* spec is followed in one field at a time.                                  *)
(*                                                                           *)
(* cr        the custom resource in Kubernetes.  "asked" is the last value   *)
(*           the user gave the field; "name" the external name, "posted" the *)
(*           POST whose request the annotation names, "pending" the runtime's *)
(*           external-create-pending; "seen" the remembered value (ManagedKind).*)
(* api       the objects ever posted; "new" until the POST's request is done.*)
(* needed    the objects that Observe reads exist (IP blocks, Secrets).      *)
(* process   the value remembered by the process (BackupUnit).               *)
(* pc, mem   the reconcile under way and its copy of the resource; mem.id is *)
(*           the object it is about, mem.fresh says nobody wrote cr since.   *)
(* trouble   how many calls failed, and what else went wrong so far.         *)
EXTENDS Naturals, FiniteSets, ManagedKind

CONSTANTS Kinds,        \* the tables, by the name of the kind
          Instances,    \* the pairs of a kind and the field followed
          Restless, Lossy,   \* of these, those for which Settles, Applied are broken
          MaxObjects, MaxTrouble, MaxEdits   \* bounds of the exploration

ASSUME BoundsAssumption == MaxObjects \in Nat \ {0} /\ MaxTrouble \in Nat /\ MaxEdits \in Nat

VARIABLES of, kind, unique, cr, api, needed, process, pc, mem, trouble, edits

vars == <<of, kind, unique, cr, api, needed, process, pc, mem, trouble, edits>>
config == <<of, kind, unique>>

\* The tables of a kind as they treat one field.
As(f, table, columns) == [c \in DOMAIN table |-> IF c \in columns THEN f \in table[c] ELSE table[c]]
NameFields == {"name", "displayName", "username"}
Table(k, f) ==
  LET t == Kinds[k]
  IN [parameters |-> [required |-> f \in t.parameters.required,
                      immutable |-> f \in t.parameters.immutable],
      isName |-> f \in NameFields, patches |-> t.patch.always \cup t.patch.ifSet # {},
      post |-> As(f, t.post, {"always", "ifSet"}), patch |-> As(f, t.patch, {"always", "ifSet"}),
      compared |-> As(f, t.compared, DOMAIN Compares \ {"busy"}),
      duplicate |-> As(f, t.duplicate, {"reported", "lenient"}),
      observe |-> As(f, t.observe, {"fill", "forced", "wiped"}),
      create |-> As(f, t.create, {"calls"}), update |-> As(f, t.update, {"before", "after"}),
      delete |-> t.delete]

Ids == 1 .. MaxObjects
Values == {"empty", "a", "b", "chosen"}
States == {"", "BUSY", "DEPLOYING", "ACTIVE", "UPDATING", "DESTROYING"}
ASSUME NotesAssumption == \A p \in Instances : Table(p[1], p[2]).update.notes \in States
Status == [state : States, id : 0 .. MaxObjects, seen : Values]
NoStatus == [state |-> "", id |-> 0, seen |-> "empty"]
Idle == [status |-> NoStatus, name |-> 0, posted |-> 0, id |-> 0, spec |-> "empty",
         fresh |-> TRUE]
Unused == [state |-> "unused", new |-> FALSE, val |-> "nil"]

Secret == kind.compared.inStatus \/ kind.compared.inSpec \/ kind.compared.inProcess
\* Mutant: whatever was posted is found.
LivePosted(id) == id # 0 /\ api[id].state # "unused"
Live(id) == id # 0 /\ api[id].state \in States
LiveIds == {id \in Ids : Live(id)}
Trouble(what) == /\ trouble.calls < MaxTrouble
                 /\ trouble' = [calls |-> trouble.calls + 1, past |-> trouble.past \cup what]

Init ==
  /\ of \in Instances /\ kind = Table(of[1], of[2])
  /\ unique \in BOOLEAN
  /\ \E v \in IF kind.parameters.required THEN {"a"} ELSE {"empty", "a"} :
       cr = [at |-> "present", spec |-> v, asked |-> v, name |-> 0, posted |-> 0,
             pending |-> FALSE, status |-> NoStatus, seen |-> "empty"]
  /\ api = [id \in Ids |-> Unused]
  /\ needed = TRUE /\ process = "empty" /\ pc = "idle" /\ mem = Idle
  /\ trouble = [calls |-> 0, past |-> {}] /\ edits = 0

-----------------------------------------------------------------------------
(* The IONOS API.                                                            *)
Creating == IF "DEPLOYING" \in kind.create.refused THEN "DEPLOYING" ELSE "BUSY"
Updating == IF kind.update.notes = "UPDATING" THEN "UPDATING" ELSE "BUSY"

\* The field's value after a POST: what was sent, or what the API chooses by itself.
PostedValue(spec) ==
  IF kind.post.always \/ (kind.post.ifSet /\ spec # "empty") THEN spec
  ELSE IF kind.observe.fill \/ kind.observe.forced THEN "chosen" ELSE "nil"

PatchedValue(spec, val) ==
  IF kind.patch.always \/ (kind.patch.ifSet /\ spec # "empty") THEN spec ELSE val

\* A request is done; a POST may come to nothing.
Done(id) ==
  /\ api[id].state \in States \ {"", "ACTIVE"}
  /\ api' = [api EXCEPT ![id].state = IF @ = "DESTROYING" THEN "gone" ELSE "ACTIVE",
                        ![id].new = FALSE]
  /\ UNCHANGED <<config, cr, needed, process, pc, mem, trouble, edits>>

Fails(id) ==
  /\ api[id].new /\ api[id].state = Creating
  /\ api' = [api EXCEPT ![id].state = "FAILED"]
  /\ Trouble({"failed"})
  /\ UNCHANGED <<config, cr, needed, process, pc, mem, edits>>

\* Someone removes the object, or what Observe reads.
Removed(id) ==
  /\ api[id].state = "ACTIVE"
  /\ api' = [api EXCEPT ![id].state = "gone"]
  /\ Trouble({"removed"})
  /\ UNCHANGED <<config, cr, needed, process, pc, mem, edits>>

Unneeded ==
  /\ kind.observe.reads /\ needed /\ needed' = FALSE
  /\ Trouble({})
  /\ UNCHANGED <<config, cr, api, process, pc, mem, edits>>

-----------------------------------------------------------------------------
(* The user and the operator.                                                *)
Edit ==
  /\ cr.at = "present" /\ edits < MaxEdits /\ ~kind.parameters.immutable
  /\ \E v \in {"a", "b"} \ {cr.asked} : cr' = [cr EXCEPT !.spec = v, !.asked = v]
  /\ edits' = edits + 1
  \* a Secret's new value does not change the resource
  /\ mem' = [mem EXCEPT !.fresh = @ /\ Secret]
  /\ UNCHANGED <<config, api, needed, process, pc, trouble>>

Remove ==
  /\ cr.at = "present"
  /\ cr' = [cr EXCEPT !.at = "deleted"]
  /\ mem' = [mem EXCEPT !.fresh = FALSE]
  /\ UNCHANGED <<config, api, needed, process, pc, trouble, edits>>

\* Annotation external-create-pending is removed by hand, as the runtime asks for.
RemovePending ==
  /\ pc = "idle" /\ cr.pending
  /\ cr' = [cr EXCEPT !.pending = FALSE]
  /\ trouble' = [trouble EXCEPT !.past = @ \cup {"unpended"}]
  /\ UNCHANGED <<config, api, needed, process, pc, mem, edits>>
-----------------------------------------------------------------------------
(* Observe, as the reconciler uses it.                                       *)
\* Mutant: the API's value always wins.
LateAlways(spec, val) == IF val \notin {"nil", "empty"} THEN val ELSE spec

\* The spec after late-initialisation with the API's value.
Late(spec, val) ==
  IF kind.observe.wiped THEN "empty"
  ELSE IF kind.observe.forced /\ val # "nil" THEN val
  ELSE IF kind.observe.fill /\ spec = "empty" /\ val \notin {"nil", "empty"} THEN val
  ELSE spec

\* Mutant: a field that is not set is compared too.
DiffersUnset(columns, spec, val) ==
  (columns.exact \/ columns.reported \/ columns.lenient) /\ val \notin {"nil", spec}

\* A compared field differs.
Differs(columns, spec, val) ==
  \/ columns.exact /\ val # spec /\ ~(val = "nil" /\ spec = "empty")
  \/ columns.reported /\ val \notin {"nil", spec}
  \/ columns.lenient /\ val \notin {"nil", spec} /\ spec # "empty"
  \/ columns.ifAsked /\ spec # "empty" /\ val # spec
  \/ columns.unequal /\ val # "nil"
  \/ columns.anew /\ spec # "empty"

Remembered == IF kind.compared.inProcess THEN process
              ELSE IF kind.compared.inStatus THEN cr.status.seen ELSE cr.seen

Outdated(spec, o) ==
  /\ o.state \notin kind.compared.busy \/ kind.compared.early
  /\ Differs(kind.compared, spec, o.val) \/ (Secret /\ spec # Remembered)

\* Mutant: the state is only noted once.
NotedOnce(spec) ==
  [state |-> IF cr.status.state = "" THEN api[cr.name].state ELSE cr.status.state,
   id |-> cr.name, seen |-> IF kind.compared.inStatus THEN spec ELSE cr.status.seen]

\* What Observe notes in the status: state, id, and the version of a Secret.
Noted(spec) ==
  [state |-> api[cr.name].state, id |-> cr.name,
   seen |-> IF kind.compared.inStatus THEN spec ELSE cr.status.seen]

Start(next, m) == pc' = next /\ mem' = m
Continue == [status |-> cr.status, name |-> cr.name, posted |-> cr.posted, id |-> cr.name,
             spec |-> cr.spec, fresh |-> TRUE]

\* Mutant: an object that is BUSY does not exist yet.
ObserveMissingBusy ==
  /\ pc = "idle" /\ cr.at # "gone" /\ ~cr.pending
  /\ Live(cr.name) => api[cr.name].state = "BUSY"
  /\ IF cr.at = "deleted"
     THEN cr' = [cr EXCEPT !.at = "gone"] /\ UNCHANGED <<pc, mem>>
     ELSE cr' = [cr EXCEPT !.pending = TRUE] /\ Start("create", Continue)
  /\ UNCHANGED <<config, api, needed, process, trouble, edits>>

\* The object is not found: a deleted resource loses its finalizer, another is marked
\* pending and created.
ObserveMissing ==
  /\ pc = "idle" /\ cr.at # "gone" /\ ~cr.pending /\ ~Live(cr.name)
  /\ IF cr.at = "deleted"
     THEN cr' = [cr EXCEPT !.at = "gone"] /\ UNCHANGED <<pc, mem>>
     ELSE cr' = [cr EXCEPT !.pending = TRUE] /\ Start("create", Continue)
  /\ UNCHANGED <<config, api, needed, process, trouble, edits>>

\* It is found, but what Observe reads besides is not: an error, the status is saved.
ObserveUnreadable ==
  /\ pc = "idle" /\ cr.at # "gone" /\ ~cr.pending /\ Live(cr.name)
  /\ kind.observe.reads /\ ~needed
  /\ cr' = [cr EXCEPT !.status.state = api[cr.name].state, !.status.id = cr.name]
  /\ UNCHANGED <<config, api, needed, process, pc, mem, trouble, edits>>

\* It is found: delete it; or save the late-initialised spec, which resets the status of
\* the copy to the saved one, and update it when it is outdated.
ObserveFound ==
  /\ pc = "idle" /\ cr.at # "gone" /\ ~cr.pending /\ Live(cr.name)
  /\ ~kind.observe.reads \/ needed
  /\ LET o == api[cr.name]
         spec == Late(cr.spec, o.val)
         rehashed == kind.compared.inSpec /\ cr.seen # spec
         late == spec # cr.spec \/ rehashed
         status == IF late THEN cr.status ELSE Noted(spec)
         saved == [cr EXCEPT !.spec = spec, !.seen = IF rehashed THEN spec ELSE @]
     IN IF cr.at = "deleted"
        THEN Start("delete", [Continue EXCEPT !.status = Noted(cr.spec)]) /\ UNCHANGED cr
        ELSE IF Outdated(spec, o)
        THEN Start("update", [Continue EXCEPT !.spec = spec, !.status = status]) /\ cr' = saved
        ELSE cr' = [saved EXCEPT !.status = status] /\ UNCHANGED <<pc, mem>>
  /\ UNCHANGED <<config, api, needed, process, trouble, edits>>

\* A handler has returned, with or without an error: the status is saved unless somebody
\* else has written the resource (a conflict).
Return(m) == /\ pc' = "idle" /\ mem' = Idle
             /\ cr' = IF mem.fresh THEN [cr EXCEPT !.status = m.status] ELSE cr

\* Mutant: the name is not saved.
CreatedNameless(m) == /\ pc' = "idle" /\ mem' = Idle
                      /\ cr' = [cr EXCEPT !.posted = m.posted, !.pending = FALSE]

\* Create has returned: the annotations are saved in any case, the status it set is lost.
Created(m) == /\ pc' = "idle" /\ mem' = Idle
              /\ cr' = [cr EXCEPT !.name = m.name, !.posted = m.posted, !.pending = FALSE]

-----------------------------------------------------------------------------
(* Create.                                                                   *)
CreateRefused ==
  /\ pc = "create"
  /\ \/ kind.create.refusesNamed /\ mem.name # 0
     \/ mem.status.state \in kind.create.refused
     \/ kind.create.annotated /\ mem.posted # 0
  /\ Created(mem)
  /\ UNCHANGED <<config, api, needed, process, trouble, edits>>

MayCreate == /\ pc = "create" /\ ~(kind.create.refusesNamed /\ mem.name # 0)
             /\ mem.status.state \notin kind.create.refused
             /\ ~(kind.create.annotated /\ mem.posted # 0)

\* The objects of the resource's name.
Named == {id \in LiveIds : kind.isName => api[id].val = mem.spec}
Searches == unique /\ kind.create.searches
Conflicts(id) == Differs([kind.compared EXCEPT !.exact = FALSE, !.ifAsked = FALSE, !.unequal = FALSE, !.anew = FALSE,
                                         !.reported = kind.duplicate.reported,
                                         !.lenient = kind.duplicate.lenient],
                      mem.spec, api[id].val)

\* One object of the name is taken; several, or one with other immutable fields, fail.
CreateFinds ==
  /\ MayCreate /\ Searches /\ Named # {}
  /\ IF Cardinality(Named) > 1 \/ \E id \in Named : Conflicts(id)
     THEN Created(mem)
     ELSE \E id \in Named : Created([mem EXCEPT !.name = id])
  /\ UNCHANGED <<config, api, needed, process, trouble, edits>>

\* BackupUnit: the password is remembered when the request is generated.
ProcessNotes == process' = IF kind.compared.inProcess THEN cr.spec ELSE process

\* The POST; it is refused for a name that is an id in use, and its answer may be lost.
Post ==
  /\ MayCreate /\ ~(Searches /\ Named # {}) /\ ~(kind.create.keyed /\ Named # {})
  /\ ProcessNotes
  /\ \E id \in {i \in Ids : api[i].state = "unused" /\ \A j \in 1 .. i - 1 : api[j].state # "unused"} :
       /\ api' = [api EXCEPT ![id] = [state |-> Creating, new |-> TRUE,
                                      val |-> PostedValue(IF Secret THEN cr.spec ELSE mem.spec)]]
       /\ LET told == [mem EXCEPT !.id = id,
                                  !.name = IF kind.create.named = "posted" THEN id ELSE @,
                                  !.posted = IF kind.create.annotated THEN id ELSE @]
          IN \/ Start("createWait", told) /\ UNCHANGED <<cr, trouble>>
             \/ Created(mem) /\ Trouble({"lost"})
  /\ UNCHANGED <<config, needed, edits>>

PostRefused ==
  /\ MayCreate /\ kind.create.keyed /\ Named # {}
  /\ Created(mem) /\ ProcessNotes
  /\ UNCHANGED <<config, api, needed, trouble, edits>>

CreateFails ==
  /\ \/ MayCreate \/ pc = "createCalls" \/ (pc = "createWait" /\ kind.create.waits)
  /\ Created(mem) /\ Trouble({}) /\ ProcessNotes
  /\ UNCHANGED <<config, api, needed, edits>>

\* The wait for the POST's request.
CreateWaits ==
  /\ pc = "createWait"
  /\ kind.create.waits => ~api[mem.id].new \/ ~Live(mem.id)
  /\ LET m == [mem EXCEPT !.name = mem.id]
     IN IF kind.create.waits /\ api[mem.id].state = "FAILED" THEN Created(mem)
        ELSE IF kind.create.calls THEN Start("createCalls", m) /\ UNCHANGED cr
        ELSE Created(m)
  /\ UNCHANGED <<config, api, needed, process, trouble, edits>>

CreateCalls ==
  /\ pc = "createCalls"
  /\ api' = IF Live(mem.id) THEN [api EXCEPT ![mem.id].val = mem.spec] ELSE api
  /\ Created(mem)
  /\ UNCHANGED <<config, needed, process, trouble, edits>>
-----------------------------------------------------------------------------
(* Update.                                                                   *)
UpdateRefused ==
  /\ pc = "update" /\ mem.status.state \in kind.update.refused \cup kind.update.fails
  /\ Return(mem)
  /\ UNCHANGED <<config, api, needed, process, trouble, edits>>

\* The value a call of its own gives the field (a Secret is read when it is sent).
SetBy(calls, v, id) ==
  api' = IF Live(id) /\ calls THEN [api EXCEPT ![id].val = v] ELSE api

\* The calls before the PATCH, the PATCH, and what it notes.
MayUpdate == pc = "update" /\ mem.status.state \notin kind.update.refused \cup kind.update.fails
Addressed == IF kind.update.byStatus THEN mem.status.id ELSE mem.name

Patch ==
  /\ MayUpdate /\ Live(Addressed) /\ ProcessNotes
  /\ LET id == Addressed
         spec == IF Secret THEN cr.spec ELSE mem.spec
         val == IF kind.update.before THEN spec ELSE PatchedValue(spec, api[id].val)
         m == [mem EXCEPT !.id = id,
                 !.status.state = IF kind.update.notes # "" THEN kind.update.notes ELSE @]
     IN /\ api' = [api EXCEPT ![id].val = val,
                    ![id].state = IF kind.patches /\ @ = "ACTIVE" THEN Updating ELSE @]
        /\ Start("updateWait", m)
  /\ UNCHANGED <<config, cr, needed, trouble, edits>>

PatchNotFound ==
  /\ MayUpdate /\ ~Live(Addressed) /\ ProcessNotes
  /\ Return(mem)
  /\ UNCHANGED <<config, api, needed, trouble, edits>>

UpdateFails ==
  /\ \/ MayUpdate /\ ProcessNotes
     \/ pc = "updateCalls" /\ UNCHANGED process
     \/ pc = "updateWait" /\ kind.update.waits /\ UNCHANGED process
  /\ Return(mem) /\ Trouble({})
  /\ UNCHANGED <<config, api, needed, edits>>

UpdateWaits ==
  /\ pc = "updateWait"
  /\ kind.update.waits => api[mem.id].state \notin {"BUSY", "UPDATING"}
  /\ IF kind.update.after THEN Start("updateCalls", mem) /\ UNCHANGED cr
     ELSE Return(mem)
  /\ UNCHANGED <<config, api, needed, process, trouble, edits>>

UpdateCalls ==
  /\ pc = "updateCalls"
  /\ SetBy(kind.update.after, mem.spec, mem.id)
  /\ Return(mem)
  /\ UNCHANGED <<config, needed, process, trouble, edits>>

-----------------------------------------------------------------------------
(* Delete.                                                                   *)
DeleteRefused ==
  /\ pc = "delete" /\ mem.status.state \in kind.delete.refused \cup kind.delete.fails
  /\ Return(mem)
  /\ UNCHANGED <<config, api, needed, process, trouble, edits>>

DeleteCall ==
  /\ pc = "delete" /\ mem.status.state \notin kind.delete.refused \cup kind.delete.fails
  /\ api' = IF Live(mem.id) THEN [api EXCEPT ![mem.id].state = "DESTROYING"] ELSE api
  /\ Start("deleteWait", mem)
  /\ UNCHANGED <<config, cr, needed, process, trouble, edits>>

DeleteWaits ==
  /\ pc = "deleteWait"
  /\ kind.delete.waits => ~Live(mem.id)
  /\ Return(mem)
  /\ UNCHANGED <<config, api, needed, process, trouble, edits>>

DeleteFails ==
  /\ \/ pc = "delete" /\ mem.status.state \notin kind.delete.refused \cup kind.delete.fails
     \/ pc = "deleteWait" /\ kind.delete.waits
  /\ Return(mem) /\ Trouble({})
  /\ UNCHANGED <<config, api, needed, process, edits>>

-----------------------------------------------------------------------------
\* The provider restarts; what was in memory is lost.
Restart ==
  /\ pc # "idle" \/ process # "empty"
  /\ pc' = "idle" /\ mem' = Idle /\ process' = "empty"
  /\ Trouble({})
  /\ UNCHANGED <<config, cr, api, needed, edits>>

Reconcile ==
  \/ ObserveMissing \/ ObserveUnreadable \/ ObserveFound
  \/ CreateRefused \/ CreateFinds \/ Post \/ PostRefused \/ CreateFails \/ CreateWaits
  \/ CreateCalls
  \/ UpdateRefused \/ Patch \/ PatchNotFound \/ UpdateFails \/ UpdateWaits \/ UpdateCalls
  \/ DeleteRefused \/ DeleteCall \/ DeleteWaits \/ DeleteFails

Environment ==
  \/ \E id \in Ids : Fails(id) \/ Removed(id)
  \/ Unneeded \/ Edit \/ Remove \/ RemovePending \/ Restart

Next == Reconcile \/ (\E id \in Ids : Done(id)) \/ Environment

\* The runtime reconciles again after every return and every poll interval; the API
\* completes every request.
Spec == /\ Init /\ [][Next]_vars
        /\ WF_vars(Reconcile) /\ \A id \in Ids : WF_vars(Done(id))
-----------------------------------------------------------------------------
(* Properties.                                                               *)
\* Type invariant.
TypeOK ==
  /\ unique \in BOOLEAN
  /\ cr \in [at : {"present", "deleted", "gone"}, spec : Values, asked : Values,
             name : 0 .. MaxObjects, posted : 0 .. MaxObjects, pending : BOOLEAN,
             status : Status, seen : Values]
  /\ api \in [Ids -> [state : States \cup {"unused", "FAILED", "gone"}, new : BOOLEAN,
                      val : Values \cup {"nil"}]]
  /\ needed \in BOOLEAN /\ process \in Values
  /\ pc \in {"idle", "create", "createWait", "createCalls", "update", "updateWait",
            "updateCalls", "delete", "deleteWait"}
  /\ mem \in [status : Status, name : 0 .. MaxObjects, posted : 0 .. MaxObjects,
              id : 0 .. MaxObjects, spec : Values, fresh : BOOLEAN]
  /\ trouble \in [calls : 0 .. MaxTrouble,
                  past : SUBSET {"failed", "removed", "unpended", "lost"}]
  /\ edits \in 0 .. MaxEdits

\* An object can be known to the resource: by its name or by its unique name.
Traceable == \/ kind.create.named = "posted"
             \/ Searches /\ ~kind.isName

\* There is never a second object for one resource, whatever calls fail and wherever the
\* provider restarts, unless an answer was lost or the pending annotation was removed.
OneObject ==
  trouble.past \cap {"lost", "unpended"} = {} /\ Traceable => Cardinality(LiveIds) <= 1

\* A resource that is gone leaves no object behind, under the same conditions, when its
\* kind sets the external name before it waits.
NoOrphans ==
  cr.at = "gone" /\ trouble.past \cap {"lost", "unpended"} = {} /\ kind.create.named = "posted"
    => LiveIds = {}

\* An update is over and done with: the object is then as Observe wants it.
Settles == of \notin Restless => <>[](pc \notin {"update", "updateWait", "updateCalls"})

\* The object is missing and Create does nothing, now and for ever; or an object of the
\* name, whose POST was never answered, makes it fail.
Wedged ==
  /\ ~Live(cr.name)
  /\ \/ kind.create.annotated /\ cr.posted # 0
     \/ kind.create.refusesNamed /\ cr.name # 0
     \/ cr.status.state \in kind.create.refused
     \/ LiveIds # {} /\ (kind.create.keyed \/ Searches)

Noticed == \/ kind.compared.exact \/ kind.compared.reported \/ kind.compared.lenient
           \/ kind.compared.ifAsked \/ kind.compared.unequal \/ kind.compared.anew \/ Secret
Sent == kind.patch.always \/ kind.patch.ifSet \/ kind.update.before \/ kind.update.after
AsAsked == Live(cr.name) /\ (cr.asked = "empty" \/ api[cr.name].val = cr.asked)
Unreported == /\ Live(cr.name) /\ api[cr.name].val = "nil"
              /\ kind.compared.reported \/ kind.compared.lenient \/ kind.compared.unequal
Unreadable == kind.observe.reads /\ ~needed

\* What the user asks of a field is finally so, whatever calls failed on the way; unless
\* the API reports no value, the resource waits for the operator, or its object was lost
\* and Create does not replace it.
AskedIsApplied ==
  <>[](\/ cr.at # "present" \/ cr.pending \/ AsAsked \/ Unreported \/ Unreadable
       \/ Wedged /\ trouble.past # {})

\* That holds of every field that Observe compares and a request carries, whatever the
\* kind, with the exceptions listed.
Applied == Noticed /\ Sent /\ of \notin Lossy => AskedIsApplied

\* A deleted resource goes, unless it waits for the operator or what Observe reads has
\* gone before it.
Goes == cr.at = "deleted" ~> (cr.at = "gone" \/ cr.pending \/ Unreadable)
=============================================================================
