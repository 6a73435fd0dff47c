---------------------------- MODULE IPFailover ----------------------------
(* The IPFailover controller (internal/controller/compute/ipfailover).  An   *)
(* IP failover has no object of its own at the API: it is an entry [ip, nic] *)
(* in a list of its LAN, and every operation reads the list and writes a new *)
(* one in its place (internal/clients/compute/lan/lan.go).                   *)
(*                                                                           *)
(* Every resource here belongs to the same LAN and has a NIC of its own, so  *)
(* that the resource stands for its NIC in an entry.  The list is a set: its *)
(* order is never looked at.  A PATCH takes effect when the API accepts it.  *)
(* What the runtime does between the calls of an external client, and what   *)
(* it saves, is not part of src/.                                            *)
EXTENDS Naturals, FiniteSets

CONSTANTS Resources, IPs,
          Addresses,  \* the addresses the user ever gives to a resource
          Rate,       \* max-reconcile-rate: so many reconciles at a time, 10 by default
          LanMayGo,   \* the LAN may be deleted
          LoseStatus, \* the status that Create sets may be lost
          MaxEdits,   \* bounds on the environment
          MaxErrors   \* reads and writes that fail

ASSUME AddressesAssumption ==
  /\ Addresses \in [Resources -> SUBSET IPs]
  /\ \A r, s \in Resources : r # s => Addresses[r] \cap Addresses[s] = {}
ASSUME RateAssumption == Rate \in Nat \ {0}
ASSUME SwitchesAssumption == {LanMayGo, LoseStatus} \subseteq BOOLEAN
ASSUME EnvironmentAssumption ==
  MaxEdits \in Nat /\ MaxErrors \in Nat

NoIP == "none"
ASSUME NoIPAssumption == NoIP \notin IPs

Entry == [ip : IPs, nic : Resources]
State == {"", "CREATING", "AVAILABLE", "UPDATING", "DELETING"}

VARIABLES
  life,     \* the resource's object: "new", "wanted", "deleted" (time stamp), "gone"
  spec,     \* the address in its spec
  named,    \* its external-name annotation is set
  status,   \* status.atProvider: address and state
  lan,      \* the LAN's list of IP failovers
  lanThere, \* the LAN exists
  pc,       \* what the resource's reconcile does
  want,     \* the address in the reconcile's copy of the spec
  input,    \* the list it is going to write
  faults,   \* how much of each bound is used up
  late,     \* history: who else wrote the list since the reconcile has read it
  blind,    \* history: the list to be written is made from a read that failed
  harmed    \* history: the resources whose entries another one's write has changed

resource == <<life, spec>>
local == <<pc, want, input>>
history == <<late, blind, harmed>>
vars == <<resource, named, status, lan, lanThere, local, faults, history>>

TypeOK ==
  /\ life \in [Resources -> {"new", "wanted", "deleted", "gone"}]
  /\ spec \in [Resources -> IPs \cup {NoIP}]
  /\ named \in [Resources -> BOOLEAN]
  /\ status \in [Resources -> [ip : IPs \cup {NoIP}, state : State]]
  /\ lan \subseteq Entry /\ lanThere \in BOOLEAN
  /\ pc \in [Resources -> {"idle", "create", "update", "delete",
                           "write create", "write update", "write delete"}]
  /\ want \in [Resources -> IPs \cup {NoIP}]
  /\ input \in [Resources -> SUBSET Entry]
  /\ faults \in [edits : Nat, reads : Nat, writes : Nat]
  /\ late \in [Resources -> SUBSET Resources]
  /\ blind \in [Resources -> BOOLEAN]
  /\ harmed \subseteq Resources

Init ==
  /\ life = [r \in Resources |-> "new"] /\ spec = [r \in Resources |-> NoIP]
  /\ named = [r \in Resources |-> FALSE]
  /\ status = [r \in Resources |-> [ip |-> NoIP, state |-> ""]]
  /\ lan = {} /\ lanThere = TRUE
  /\ pc = [r \in Resources |-> "idle"] /\ want = [r \in Resources |-> NoIP]
  /\ input = [r \in Resources |-> {}]
  /\ faults = [edits |-> 0, reads |-> 0, writes |-> 0]
  /\ late = [r \in Resources |-> {}] /\ blind = [r \in Resources |-> FALSE] /\ harmed = {}

-----------------------------------------------------------------------------
(* Reading the list.  GetLanIPFailovers returns no list, but an error, when  *)
(* the request fails, when the LAN is gone (404), and when the list is empty.*)
OwnFromStatus(r) == [ip |-> status[r].ip, nic |-> r]   \* mutant of Own: the old address
Own(r) == [ip |-> want[r], nic |-> r]
Of(r, list) == {e \in list : e.nic = r}
Failing(list) == list = {}

ReadFails == /\ faults.reads + faults.writes < MaxErrors
             /\ faults' = [faults EXCEPT !.reads = @ + 1]

Got(list) == \/ list = lan /\ UNCHANGED faults
             \/ list = {} /\ lan # {} /\ ReadFails

Goto(r, step) == pc' = [pc EXCEPT ![r] = step] /\ UNCHANGED <<want, input>>
Return(r) == Goto(r, "idle")

\* Mutants: Create writes a list of its own; Update leaves the old entry, or
\* removes it and adds none.
CreatedAlone(r, list) == {Own(r)}
UpdatedAppended(r, list) == list \cup {Own(r)}
UpdatedRemoved(r, list) == {e \in list : e.ip # status[r].ip}

\* GenerateCreateIPFailoverInput, GenerateUpdateIPFailoverInput (which finds the
\* entry by the address in the status) and GenerateRemoveIPFailoverInput.
Created(r, list) == list \cup {Own(r)}
Updated(r, list) == {IF e.ip = status[r].ip THEN Own(r) ELSE e : e \in list}
WithoutOwn(r, list) == {e \in list : e.ip # status[r].ip}

Write(r, op, read, list) ==
  /\ pc' = [pc EXCEPT ![r] = op] /\ input' = [input EXCEPT ![r] = list]
  /\ late' = [late EXCEPT ![r] = {}] /\ blind' = [blind EXCEPT ![r] = read # lan]
  /\ UNCHANGED <<want, harmed>>

\* The operation ends without a request.
Skip(r) == Return(r) /\ UNCHANGED history

-----------------------------------------------------------------------------
(* Observe, and what the runtime does with its answer.                       *)
MayStart(r) == /\ pc[r] = "idle" /\ life[r] \in {"wanted", "deleted"}
               /\ Cardinality({s \in Resources : pc[s] # "idle"}) < Rate

\* The finalizer is removed, or Create is called.
NotFound(r) ==
  /\ IF life[r] = "deleted"
     THEN life' = [life EXCEPT ![r] = "gone"] /\ UNCHANGED local
     ELSE /\ pc' = [pc EXCEPT ![r] = "create"] /\ want' = [want EXCEPT ![r] = spec[r]]
          /\ UNCHANGED <<life, input>>
  /\ UNCHANGED <<spec, named, status>>

Exists(r, list) ==
  LET own == [ip |-> spec[r], nic |-> r]
  IN /\ status' = IF own \in list
                  THEN [status EXCEPT ![r] = [ip |-> spec[r], state |-> "AVAILABLE"]]
                  ELSE status
     /\ IF life[r] = "wanted" /\ own \in list
        THEN UNCHANGED local
        ELSE /\ pc' = [pc EXCEPT ![r] = IF life[r] = "deleted" THEN "delete" ELSE "update"]
             /\ want' = [want EXCEPT ![r] = spec[r]]
             /\ UNCHANGED input
     /\ UNCHANGED <<resource, named>>

Observe(r) ==
  /\ MayStart(r)
  /\ \/ ~named[r] /\ NotFound(r) /\ UNCHANGED faults
     \/ /\ named[r]
        /\ \E list \in SUBSET lan :
             /\ Got(list)
             /\ \/ Failing(list) /\ (status[r].state = "DELETING" \/ ~lanThere) /\ NotFound(r)
                \/ Failing(list) /\ ~(status[r].state = "DELETING" \/ ~lanThere)
                   /\ UNCHANGED <<resource, named, status, local>>
                \/ ~Failing(list) /\ Exists(r, list)
  /\ UNCHANGED <<lan, lanThere, history>>

-----------------------------------------------------------------------------
(* Create, Update and Delete up to the request that writes the list.         *)

\* Create ignores the error of the read: its condition can never be true,
\* because a list is never returned along with an error.  It returns without
\* an external name when the entry is already there.
Create(r) ==
  /\ pc[r] = "create"
  /\ \E list \in SUBSET lan :
       /\ Got(list)
       /\ IF Own(r) \in list THEN Skip(r) ELSE Write(r, "write create", list, Created(r, list))
  /\ UNCHANGED <<resource, named, status, lan, lanThere>>

Update(r) ==
  /\ pc[r] = "update"
  /\ \/ status[r].state = "UPDATING" /\ Skip(r) /\ UNCHANGED faults
     \/ /\ status[r].state # "UPDATING"
        /\ \E list \in SUBSET lan :
             /\ Got(list)
             /\ IF Own(r) \in list \/ Failing(list)
                THEN Skip(r)
                ELSE Write(r, "write update", list, Updated(r, list))
  /\ UNCHANGED <<resource, named, status, lan, lanThere>>

Delete(r) ==
  /\ pc[r] = "delete"
  /\ \/ status[r].state = "DELETING" /\ Skip(r) /\ UNCHANGED faults
     \/ /\ status[r].state # "DELETING"
        /\ \E list \in SUBSET lan :
             /\ Got(list)
             /\ IF [ip |-> status[r].ip, nic |-> r] \in list
                THEN Write(r, "write delete", list, WithoutOwn(r, list))
                ELSE Skip(r)
  /\ UNCHANGED <<resource, named, status, lan, lanThere>>

-----------------------------------------------------------------------------
(* The request itself, the wait for it and what is saved afterwards.         *)
\* Mutant of After: Delete does not tell that the entry is gone.
AfterForgetful == [create |-> "CREATING", update |-> "UPDATING", delete |-> "AVAILABLE"]
After == [create |-> "CREATING", update |-> "UPDATING", delete |-> "DELETING"]
Writes == {"write create", "write update", "write delete"}
Op(r) == CASE pc[r] = "write create" -> "create"
           [] pc[r] = "write update" -> "update"
           [] pc[r] = "write delete" -> "delete"

\* Mutant of Save: the external name is not set.
SaveNameless(r, op) ==
  /\ status' = [status EXCEPT ![r] =
       [ip |-> IF op = "delete" THEN @.ip ELSE want[r], state |-> After[op]]]
  /\ UNCHANGED named

\* The object is as the reconcile read it, so that its status can be saved.
Unedited(r) == want[r] = spec[r] /\ (life[r] = "deleted" => Op(r) = "delete")

\* The runtime saves the annotations first, reading the object again if it has
\* to: then the status of Create is lost.
Save(r, op) ==
  /\ named' = [named EXCEPT ![r] = @ \/ op = "create"]
  /\ \/ /\ Unedited(r)
        /\ status' = [status EXCEPT ![r] =
             [ip |-> IF op = "delete" THEN @.ip ELSE want[r], state |-> After[op]]]
     \/ op = "create" /\ (LoseStatus \/ ~Unedited(r)) /\ UNCHANGED status

\* The reconcile is over: what it missed does not matter any more.  Others that
\* have read the list before a write do not know of it.
Done(r) == Return(r) /\ blind' = [blind EXCEPT ![r] = FALSE]
Overtaken(r) ==
  late' = [s \in Resources |->
             IF s = r \/ pc[s] \notin Writes THEN {} ELSE late[s] \cup {r}]
Harm(r) ==
  harmed' = harmed \cup {s \in Resources \ {r} : Of(s, lan') # Of(s, lan)}

\* The LAN is patched; the wait for the request, or saving the outcome, may fail.
Patch(r) ==
  /\ pc[r] \in Writes /\ lanThere
  /\ lan' = input[r]
  /\ \/ /\ Op(r) = "create" \/ Unedited(r)
        /\ Save(r, Op(r)) /\ UNCHANGED faults
     \/ ~Unedited(r) /\ Op(r) # "create" /\ UNCHANGED <<named, status, faults>>
     \/ /\ faults.reads + faults.writes < MaxErrors
        /\ faults' = [faults EXCEPT !.writes = @ + 1]
        /\ UNCHANGED <<named, status>>
  /\ Done(r) /\ Overtaken(r) /\ Harm(r)
  /\ UNCHANGED <<resource, lanThere>>

\* The API refuses the request; a 404 makes Delete succeed.
Refused(r) ==
  /\ pc[r] \in Writes
  /\ \/ ~lanThere /\ UNCHANGED faults
     \/ /\ faults.reads + faults.writes < MaxErrors
        /\ faults' = [faults EXCEPT !.writes = @ + 1]
  /\ Done(r) /\ late' = [late EXCEPT ![r] = {}]
  /\ UNCHANGED <<resource, named, status, lan, lanThere, harmed>>

-----------------------------------------------------------------------------
(* The user.                                                                 *)
Submit(r) ==
  /\ life[r] = "new"
  /\ life' = [life EXCEPT ![r] = "wanted"]
  /\ \E ip \in Addresses[r] : spec' = [spec EXCEPT ![r] = ip]
  /\ UNCHANGED <<named, status, lan, lanThere, local, faults, history>>

Edit(r) ==
  /\ life[r] = "wanted" /\ faults.edits < MaxEdits
  /\ \E ip \in Addresses[r] \ {spec[r]} : spec' = [spec EXCEPT ![r] = ip]
  /\ faults' = [faults EXCEPT !.edits = @ + 1]
  /\ UNCHANGED <<life, named, status, lan, lanThere, local, history>>

Remove(r) ==
  /\ life[r] = "wanted"
  /\ life' = [life EXCEPT ![r] = "deleted"]
  /\ UNCHANGED <<spec, named, status, lan, lanThere, local, faults, history>>

LanGoes ==
  /\ LanMayGo /\ lanThere
  /\ lanThere' = FALSE /\ lan' = {}
  /\ UNCHANGED <<resource, named, status, local, faults, history>>

Reconcile(r) == \/ Observe(r) \/ Create(r) \/ Update(r) \/ Delete(r)
                \/ Patch(r) \/ Refused(r)

Next == \/ \E r \in Resources : Reconcile(r) \/ Submit(r) \/ Edit(r) \/ Remove(r)
        \/ LanGoes

Spec == Init /\ [][Next]_vars

\* The work queue is first come, first served: nobody waits for ever, although
\* a resource may have to wait for the others when they are more than Rate.
FairSpec == Spec /\ \A r \in Resources : SF_vars(Reconcile(r))
-----------------------------------------------------------------------------
(* Properties.                                                               *)

\* Others' entries are lost, changed or brought back by a write in two cases
\* only: their resource was written between the read and the write, which
\* nothing prevents when several reconcile (ipfailover.go:65, 179-195), or a
\* Create took its failed read for an empty list (ipfailover.go:180).  A failed
\* read does no harm in Update and Delete (lan.go:198, ipfailover.go:260), nor
\* does a status that is out of date, whose address finds the entry.  Entries
\* that were harmed before are not followed.
OthersKept ==
  [][\A r \in Resources : Patch(r) =>
       \A s \in Resources \ {r} : Of(s, lan') # Of(s, lan) =>
         \/ s \in late[r] \/ s \in harmed
         \/ pc[r] = "write create" /\ blind[r]]_vars

\* "Update Lan with the new ipfailovers - without the one needed to be deleted",
\* and the like for Create and Update (ipfailover.go:194, 234, 273): a write of
\* one resource leaves the entries of the others as they are.
OnlyOwnEntry ==
  [][\A r \in Resources : Patch(r) =>
       \A s \in Resources \ {r} : Of(s, lan') = Of(s, lan)]_vars

\* A resource that is reported AVAILABLE and is not being deleted has an entry
\* in the LAN unless another one's write has harmed it, also when a write's
\* outcome could not be saved.  What happens to others does not spread to it.
AvailableIsListed ==
  lanThere => \A r \in Resources \ harmed :
    named[r] /\ life[r] = "wanted" /\ status[r].state = "AVAILABLE" => Of(r, lan) # {}

\* However often the address is edited and whoever writes meanwhile, no resource
\* that was not harmed leaves a second entry behind: Update replaces the old one
\* (ipfailover.go:234). A write that the API carried out and answered with an
\* error may.
Single(r, list) == \A e, f \in Of(r, list) : e = f
OneEntryEach == faults.writes = 0 => \A r \in Resources \ harmed : Single(r, lan)

\* When a resource's object is gone, so is its entry (ipfailover.md: deleting
\* destroys the resource), unless another one's write has brought it back.
NoOrphans ==
  faults.writes = 0 => \A r \in Resources \ harmed : life[r] = "gone" => Of(r, lan) = {}

-----------------------------------------------------------------------------
(* The inductive invariant behind OthersKept and AvailableIsListed, for any  *)
(* number of reconciles at a time and reads that fail.                       *)

\* Addresses follow the user's plan everywhere.
Planned ==
  /\ \A e \in lan : e.ip \in Addresses[e.nic]
  /\ \A r \in Resources : {spec[r], want[r], status[r].ip} \subseteq Addresses[r] \cup {NoIP}
  /\ \A r \in Resources : /\ life[r] # "new" => spec[r] \in Addresses[r]
                          /\ pc[r] # "idle" => want[r] \in Addresses[r]
  /\ \A r \in Resources : \A e \in input[r] : e.ip \in Addresses[e.nic]

\* What happens to a resource's object before and during its reconcile.
Objects == \A r \in Resources :
  /\ life[r] = "new" => pc[r] = "idle" /\ ~named[r]
  /\ pc[r] \in {"delete", "write delete"} => life[r] = "deleted"

\* The list about to be written has the LAN's entries of all others that were
\* not written since and not harmed, unless Create could not read; and one of
\* the resource's own if the LAN's has one or Create is going to add one.
Fresh == \A r \in Resources : pc[r] \in Writes /\ lanThere =>
  /\ blind[r] => pc[r] = "write create"
  /\ ~blind[r] => \A s \in Resources \ (late[r] \cup harmed \cup {r}) :
                    Of(s, input[r]) = Of(s, lan)
  /\ pc[r] = "write create" => Of(r, input[r]) # {}
  /\ pc[r] = "write update" /\ r \notin harmed /\ Of(r, lan) # {} => Of(r, input[r]) # {}

\* However many reconciles read and write the list at a time (ipfailover.go:172-290).
IPInv == TypeOK /\ Planned /\ Objects /\ Fresh /\ AvailableIsListed
-----------------------------------------------------------------------------
\* What the next two properties do not promise anything for: an edit that the
\* state UPDATING keeps from being applied (ipfailover.go:215), a write that was
\* carried out and answered with an error, and a LAN that was deleted.
Disturbed == faults.edits > 0 \/ faults.writes > 0 \/ ~lanThere

\* A resource that nobody deletes or edits, and no other one's write harms, becomes
\* AVAILABLE, with its entry listed, also when reads failed or Create's status
\* was lost (ipfailover.go:157-160).
BecomesAvailable ==
  \A r \in Resources : life[r] = "wanted" ~>
    \/ life[r] # "wanted" \/ Disturbed \/ r \in harmed
    \/ status[r].state = "AVAILABLE" /\ [ip |-> spec[r], nic |-> r] \in lan

\* When all resources of a LAN are deleted, all of them go, if none was harmed.
AllDeleted == \A r \in Resources : life[r] \in {"deleted", "gone"}
DeletedTogetherGo ==
  AllDeleted ~> Disturbed \/ harmed # {} \/ \A r \in Resources : life[r] = "gone"
=============================================================================
