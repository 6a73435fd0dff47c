--------------------------- MODULE FailoverProofs ---------------------------
(* At most one VM of a ServerSet is down that the map can tell of, and a     *)
(* rollout stops at an error: for any number of replicas, edits, restarts,   *)
(* failures and errors.                                                      *)
EXTENDS Failover, TLAPS

-----------------------------------------------------------------------------
(* Types.                                                                    *)

UsedType == [edits : 0 .. MaxEdits, trouble : 0 .. MaxTrouble]

\* A version of the template never runs ahead of the edits made.
EditsBound ==
  /\ template.server.cores <= used.edits /\ template.server.nicMultiQueue <= used.edits
  /\ template.image <= used.edits

\* The worker has a target from its selection to the end of the wait.
Targeted == pc \in {"check"} \cup Waits => target \in Replicas

TInv == TypeOK /\ EditsBound /\ Targeted

LEMMA EntryTypes ==
  /\ NoEntry \in Entries
  /\ \A e \in Entries : Aged(e) \in Entries /\ BeforeStart(e) \in Entries
  BY DEF NoEntry, Entries, Aged, BeforeStart

LEMMA NewsTypes ==
  ASSUME TypeOK, NEW i \in Replicas
  PROVE  News(i) \in Entries /\ LastEntries(i) \subseteq Entries
<1>1. Now \in {"since", "after"}
  BY DEF Now
<1>2. vm[i] \in {"up", "bad", "down"} /\ map[i] \in Entries
  BY DEF TypeOK
<1>3. News(i) \in Entries
  BY <1>1, <1>2, EntryTypes DEF News, Entries
<1>4. LastEntries(i) \subseteq Entries
  <2>1. CASE vm[i] = "up"
    BY <2>1, <1>2 DEF LastEntries, Entries
  <2>2. CASE vm[i] = "bad"
    BY <2>2, <1>2 DEF LastEntries, Entries
  <2>3. CASE vm[i] = "down"
    BY <2>3, <1>2, EntryTypes DEF LastEntries
  <2>. QED
    BY <2>1, <2>2, <2>3, <1>2
<1>. QED
  BY <1>3, <1>4

LEMMA InitTypes == Init => TInv
<1>. SUFFICES ASSUME Init PROVE TInv
  OBVIOUS
<1>1. MaxEdits \in Nat /\ MaxTrouble \in Nat
  BY BoundsAssumption
<1>2. template \in Templates /\ template.server \in ServerParameters
  BY DEF Init, Templates
<1>3. map \in [Replicas -> Entries]
  BY DEF Init, Entries
<1>4. used \in UsedType
  BY <1>1 DEF Init, UsedType
<1>5. TypeOK
  BY <1>1, <1>2, <1>3, <1>4, EntryTypes DEF Init, TypeOK, Version, Waits, UsedType
<1>6. EditsBound /\ Targeted
  BY DEF Init, EditsBound, Targeted, Waits
<1>. QED
  BY <1>5, <1>6 DEF TInv

LEMMA LeaveTypes ==
  ASSUME TypeOK, NEW p \in {"idle", "servers"}, Leave(p),
         overlooked' \subseteq Replicas, used' \in UsedType
  PROVE  TypeOK'
<1>1. map' \in [Replicas -> Entries]
  BY EntryTypes DEF Leave, TypeOK
<1>. QED
  BY <1>1, EntryTypes DEF Leave, object, TypeOK, UsedType

LEMMA TroubleTypes ==
  ASSUME TypeOK, Trouble
  PROVE  used' \in UsedType /\ used'.edits = used.edits
<1>1. used \in UsedType /\ MaxTrouble \in Nat
  BY BoundsAssumption DEF TypeOK, UsedType
<1>2. used.trouble + 1 \in 0 .. MaxTrouble
  BY <1>1 DEF Trouble, UsedType
<1>. QED
  BY <1>1, <1>2 DEF Trouble, UsedType

LEMMA CopyTypes ==
  ASSUME TypeOK
  PROVE  /\ template.server \in ServerParameters /\ cr.server \in ServerParameters
         /\ template.image \in Version /\ cr.image \in Version
  BY DEF TypeOK, Templates

LEMMA EditTypes == ASSUME TInv, Edit PROVE TInv'
<1>. DEFINE e == used.edits
<1>1. used \in UsedType /\ MaxEdits \in Nat /\ template \in Templates
  BY BoundsAssumption DEF TInv, TypeOK, UsedType
<1>2. e + 1 \in 0 .. MaxEdits /\ used' = [used EXCEPT !.edits = e + 1]
  BY <1>1 DEF Edit, UsedType
<1>3. used' \in UsedType /\ used'.edits = e + 1
  BY <1>1, <1>2 DEF UsedType
<1>4. ASSUME NEW f \in {"cores", "nicMultiQueue"},
             template' = [template EXCEPT !.server[f] = @ + 1]
      PROVE  template' \in Templates /\ EditsBound'
  <2>. DEFINE s == [template.server EXCEPT ![f] = @ + 1]
  <2>0. /\ template.server \in ServerParameters /\ e \in Nat
        /\ template.server.cores <= e /\ template.server.nicMultiQueue <= e
    BY <1>1, CopyTypes DEF TInv, EditsBound, UsedType
  <2>1. template.server \in ServerParameters /\ template.server[f] + 1 \in 0 .. e + 1
    <3>1. CASE f = "cores"
      BY <2>0, <3>1 DEF ServerParameters, Version
    <3>2. CASE f = "nicMultiQueue"
      BY <2>0, <3>2 DEF ServerParameters, Version
    <3>. QED
      BY <3>1, <3>2
  <2>2. s \in ServerParameters /\ s.cores <= e + 1 /\ s.nicMultiQueue <= e + 1
    <3>1. CASE f = "cores"
      BY <2>0, <2>1, <3>1, <1>1, <1>2 DEF ServerParameters, Version
    <3>2. CASE f = "nicMultiQueue"
      BY <2>0, <2>1, <3>2, <1>1, <1>2 DEF ServerParameters, Version
    <3>. QED
      BY <3>1, <3>2
  <2>3. template' = [template EXCEPT !.server = s]
    BY <1>4, <1>1 DEF Templates
  <2>4. template' \in Templates /\ template'.server = s /\ template'.image = template.image
    BY <2>3, <2>2, <1>1 DEF Templates
  <2>. QED
    BY <2>2, <2>4, <1>1, <1>3, CopyTypes DEF TInv, EditsBound, Version, UsedType
<1>5. ASSUME template' = [template EXCEPT !.image = @ + 1]
      PROVE  template' \in Templates /\ EditsBound'
  <2>1. template.image + 1 \in 0 .. e + 1
    BY <1>1, CopyTypes DEF TInv, EditsBound, Version, UsedType
  <2>2. template' \in Templates
    BY <1>5, <2>1, <1>1, <1>2 DEF Templates, Version
  <2>3. template'.image = template.image + 1 /\ template'.server = template.server
    BY <1>5, <1>1 DEF Templates
  <2>. QED
    BY <2>1, <2>2, <2>3, <1>1, <1>3, CopyTypes
    DEF TInv, EditsBound, Version, UsedType, ServerParameters
<1>6. template' \in Templates /\ EditsBound'
  BY <1>4, <1>5 DEF Edit
<1>7. TypeOK'
  BY <1>6, <1>3 DEF Edit, object, wait, TInv, TypeOK, UsedType
<1>8. Targeted'
  BY DEF Edit, wait, TInv, Targeted
<1>. QED
  BY <1>6, <1>7, <1>8 DEF TInv

LEMMA NextTypes == TInv /\ [Next]_vars => TInv'
<1>. SUFFICES ASSUME TInv, [Next]_vars PROVE TInv'
  OBVIOUS
<1>0. TypeOK /\ EditsBound /\ used \in UsedType
  BY DEF TInv, TypeOK, UsedType
<1>. USE <1>0
<1>1. ASSUME Start, used' \in UsedType,
             UNCHANGED <<template, object, vm, map, wait, overlooked>>
      PROVE  TypeOK'
  BY <1>1 DEF Start, object, wait, TypeOK, UsedType
<1>2. CASE Observe
  <2>1. TypeOK'
    BY <1>1, <1>2 DEF Observe
  <2>. QED
    BY <2>1, <1>2 DEF Observe, Start, TInv, EditsBound, Targeted, Waits
<1>3. CASE ObserveUnread
  <2>1. TypeOK'
    BY <1>1, <1>3, TroubleTypes DEF ObserveUnread
  <2>. QED
    BY <2>1, <1>3, TroubleTypes DEF ObserveUnread, Start, TInv, EditsBound, Targeted, Waits
<1>4. ASSUME NEW i \in Replicas, UpdateRunning(i) PROVE TInv'
  <2>1. servers' \in [Replicas -> ServerParameters]
    BY <1>4, CopyTypes DEF UpdateRunning, TypeOK
  <2>. QED
    BY <2>1, <1>4 DEF UpdateRunning, wait, TInv, TypeOK, EditsBound, Targeted, Waits
<1>5. ASSUME NEW i \in Replicas, Select(i) PROVE TInv'
  BY <1>5 DEF Select, object, TInv, TypeOK, EditsBound, Targeted, Waits
<1>6. ASSUME NEW p \in {"idle", "servers"}, Leave(p), overlooked' \subseteq Replicas,
             used' \in UsedType, used'.edits = used.edits
      PROVE  TInv'
  <2>1. TypeOK'
    BY <1>6, LeaveTypes
  <2>. QED
    BY <2>1, <1>6 DEF Leave, TInv, EditsBound, Targeted, Waits
<1>7. overlooked \subseteq Replicas /\ target \in Replicas \cup {NoReplica}
  BY DEF TypeOK
<1>8. CASE NothingLeft
  BY <1>6, <1>7, <1>8 DEF NothingLeft
<1>9. ASSUME NEW i \in Replicas, CheckVM(i) PROVE TInv'
  BY <1>9 DEF CheckVM, object, TInv, TypeOK, EditsBound, Targeted, Waits
<1>10. CASE CheckFails
  BY <1>6, <1>7, <1>10, TroubleTypes DEF CheckFails
<1>11. ASSUME NEW i \in Replicas PROVE overlooked \cup Blind(i) \subseteq Replicas
  BY <1>7 DEF Blind
<1>12. ASSUME NEW i \in Replicas, AskServer(i) PROVE TInv'
  <2>1. servers' \in [Replicas -> ServerParameters]
    BY <1>12, CopyTypes DEF AskServer, TypeOK
  <2>2. pending' \in [Replicas -> BOOLEAN]
    BY <1>12 DEF AskServer, TypeOK
  <2>. QED
    BY <2>1, <2>2, <1>11, <1>12 DEF AskServer, TInv, TypeOK, EditsBound, Targeted, Waits
<1>13. ASSUME NEW i \in Replicas, ReplaceVolume(i) PROVE TInv'
  <2>1. volumes' \in [Replicas -> Version]
    BY <1>13, CopyTypes DEF ReplaceVolume, TypeOK
  <2>2. pending' \in [Replicas -> BOOLEAN]
    BY <1>13 DEF ReplaceVolume, TypeOK
  <2>. QED
    BY <2>1, <2>2, <1>11, <1>13 DEF ReplaceVolume, TInv, TypeOK, EditsBound, Targeted, Waits
<1>14. ASSUME NEW i \in Replicas, ReplaceAll(i) PROVE TInv'
  <2>1. volumes' \in [Replicas -> Version]
    BY <1>14, CopyTypes DEF ReplaceAll, TypeOK
  <2>2. pending' \in [Replicas -> BOOLEAN]
    BY <1>14 DEF ReplaceAll, TypeOK
  <2>3. vm' \in [Replicas -> {"up", "bad", "down"}]
    BY <1>14 DEF ReplaceAll, TypeOK
  <2>4. map' \in [Replicas -> Entries] /\ old' \in Entries
    BY <1>14, EntryTypes, NewsTypes DEF ReplaceAll, TypeOK
  <2>. QED
    BY <2>1, <2>2, <2>3, <2>4, <1>14 DEF ReplaceAll, TInv, TypeOK, EditsBound, Targeted, Waits
<1>15. CASE UpdateFinished
  BY <1>15 DEF UpdateFinished, object, wait, TInv, TypeOK, EditsBound, Targeted, Waits
<1>16. CASE SoftwareRunning
  <2>. DEFINE p == IF pc = "software" THEN "servers" ELSE "idle"
  <2>1. p \in {"idle", "servers"} /\ Leave(p)
    BY <1>16 DEF SoftwareRunning
  <2>. QED
    BY <2>1, <1>6, <1>7, <1>16 DEF SoftwareRunning
<1>17. ASSUME pc \in Waits, GiveUp PROVE TInv'
  <2>1. target \in Replicas
    BY <1>17 DEF TInv, Targeted
  <2>2. overlooked' \subseteq Replicas
    BY <2>1, <1>7, <1>17 DEF GiveUp
  <2>. QED
    BY <2>2, <1>6, <1>17 DEF GiveUp
<1>18. CASE WaitFails
  BY <1>17, <1>18 DEF WaitFails, Waits
<1>19. CASE Timeout
  BY <1>17, <1>19 DEF Timeout
<1>20. ASSUME NEW i \in Replicas, NEW s \in {"True", "False"}, Answered(i, s)
       PROVE  answer' \in {"none", "True", "False"}
  BY <1>20 DEF Answered, TypeOK
<1>21. ASSUME NEW i \in Replicas, CarryOut(i) PROVE TInv'
  <2>1. pending' \in [Replicas -> BOOLEAN] /\ vm' \in [Replicas -> {"up", "bad", "down"}]
    BY <1>21 DEF CarryOut, TypeOK
  <2>. QED
    BY <2>1, <1>20, <1>21 DEF CarryOut, TInv, TypeOK, EditsBound, Targeted, Waits
<1>22. ASSUME NEW i \in Replicas, UpdateFails(i) PROVE TInv'
  <2>1. pending' \in [Replicas -> BOOLEAN] /\ vm' \in [Replicas -> {"up", "bad", "down"}]
    BY <1>22 DEF UpdateFails, TypeOK
  <2>2. used' \in UsedType /\ used'.edits = used.edits
    BY <1>22, TroubleTypes DEF UpdateFails
  <2>. QED
    BY <2>1, <2>2, <1>20, <1>22 DEF UpdateFails, TInv, TypeOK, EditsBound, Targeted, Waits, UsedType
<1>23. ASSUME NEW i \in Replicas, Seen(i) PROVE overlooked' \subseteq Replicas
  BY <1>7, <1>23 DEF Seen
<1>24. ASSUME NEW i \in Replicas, Boot(i) PROVE TInv'
  <2>1. vm' \in [Replicas -> {"up", "bad", "down"}]
    BY <1>24 DEF Boot, TypeOK
  <2>. QED
    BY <2>1, <1>23, <1>24 DEF Boot, object, wait, TInv, TypeOK, EditsBound, Targeted, Waits
<1>25. ASSUME NEW i \in Replicas, Break(i) PROVE TInv'
  <2>1. vm' \in [Replicas -> {"up", "bad", "down"}]
    BY <1>25 DEF Break, TypeOK
  <2>2. used' \in UsedType /\ used'.edits = used.edits
    BY <1>25, TroubleTypes DEF Break
  <2>. QED
    BY <2>1, <2>2, <1>23, <1>25 DEF Break, object, wait, TInv, TypeOK, EditsBound, Targeted, Waits, UsedType
<1>26. ASSUME NEW i \in Replicas, Repair(i) PROVE TInv'
  <2>1. vm' \in [Replicas -> {"up", "bad", "down"}]
    BY <1>26 DEF Repair, TypeOK
  <2>. QED
    BY <2>1, <1>26 DEF Repair, object, wait, TInv, TypeOK, EditsBound, Targeted, Waits
<1>27. ASSUME NEW i \in Replicas, Report(i) PROVE TInv'
  <2>1. map' \in [Replicas -> Entries]
    BY <1>27, NewsTypes DEF Report, TypeOK
  <2>2. overlooked' \subseteq Replicas /\ sick' \subseteq Replicas
    BY <1>27 DEF Report, TypeOK
  <2>. QED
    BY <2>1, <2>2, <1>27 DEF Report, object, wait, TInv, TypeOK, EditsBound, Targeted, Waits
<1>28. CASE NextSecond
  BY <1>28 DEF NextSecond, object, TInv, TypeOK, EditsBound, Targeted, Waits
<1>29. CASE Restart
  <2>1. map' \in [Replicas -> Entries] /\ old' \in Entries
    BY <1>29, EntryTypes DEF Restart, TypeOK
  <2>2. used' \in UsedType /\ used'.edits = used.edits
    BY <1>29, TroubleTypes DEF Restart
  <2>. QED
    BY <2>1, <2>2, <1>29 DEF Restart, object, TInv, TypeOK, EditsBound, Targeted, Waits, UsedType
<1>30. CASE Edit
  BY <1>30, EditTypes
<1>31. CASE UNCHANGED vars
  BY <1>31 DEF vars, TInv, TypeOK, EditsBound, Targeted, Waits
<1>. QED
  BY <1>2, <1>3, <1>4, <1>5, <1>8, <1>9, <1>10, <1>12, <1>13, <1>14, <1>15, <1>16,
     <1>18, <1>19, <1>21, <1>22, <1>24, <1>25, <1>26, <1>27, <1>28, <1>29, <1>30, <1>31
  DEF Next, Run

\* The variables have their types, however many replicas there are
\* (serverset.go, serverset_types.go:87-108).
THEOREM FailoverTypeOK == Spec => []TypeOK
<1>1. TInv => TypeOK
  BY DEF TInv
<1>. QED
  BY <1>1, InitTypes, NextTypes, PTL DEF Spec

-----------------------------------------------------------------------------
(* A rollout stops at an error.                                              *)

ErrInv ==
  /\ \A i \in sick : map[i].state = "VM-ERROR"
  /\ pc = "check" => seen \cap sick = {}
  /\ pc \in {"idle", "servers"} => seen = {}

LEMMA ErrNext == TypeOK /\ ErrInv /\ [Next]_vars => ErrInv'
<1>. SUFFICES ASSUME TypeOK, ErrInv, [Next]_vars PROVE ErrInv'
  OBVIOUS
<1>0. /\ sick \subseteq Replicas /\ map \in [Replicas -> Entries]
      /\ pc \in {"idle", "servers", "check"} \cup Waits
      /\ \A e \in Entries : Aged(e).state = e.state
  BY DEF TypeOK, Entries, Aged
<1>1. CASE Observe \/ ObserveUnread
  BY <1>0, <1>1 DEF Observe, ObserveUnread, Start, wait, ErrInv
<1>2. ASSUME NEW i \in Replicas, UpdateRunning(i) \/ Select(i) PROVE ErrInv'
  BY <1>2 DEF UpdateRunning, Select, wait, ErrInv
<1>3. ASSUME NEW p \in {"idle", "servers"}, Leave(p) PROVE ErrInv'
  BY <1>0, <1>3 DEF Leave, ErrInv
<1>4. CASE NothingLeft \/ CheckFails \/ SoftwareRunning \/ WaitFails \/ Timeout
  <2>1. \E p \in {"idle", "servers"} : Leave(p)
    BY <1>4 DEF NothingLeft, CheckFails, SoftwareRunning, WaitFails, Timeout, GiveUp
  <2>. QED
    BY <2>1, <1>3
<1>5. ASSUME NEW i \in Replicas, CheckVM(i) PROVE ErrInv'
  BY <1>5 DEF CheckVM, Checked, Running, ErrInv
<1>6. ASSUME NEW i \in Replicas, AskServer(i) \/ ReplaceVolume(i) PROVE ErrInv'
  BY <1>6 DEF AskServer, ReplaceVolume, ErrInv
<1>7. ASSUME NEW i \in Replicas, ReplaceAll(i) PROVE ErrInv'
  BY <1>0, <1>7 DEF ReplaceAll, ErrInv
<1>8. CASE UpdateFinished
  BY <1>8 DEF UpdateFinished, wait, ErrInv
<1>9. ASSUME NEW i \in Replicas,
             CarryOut(i) \/ UpdateFails(i) \/ Boot(i) \/ Break(i) \/ Repair(i)
      PROVE  ErrInv'
  BY <1>9 DEF CarryOut, UpdateFails, Boot, Break, Repair, wait, ErrInv
<1>10. ASSUME NEW i \in Replicas, Report(i) PROVE ErrInv'
  BY <1>0, <1>10 DEF Report, News, wait, ErrInv
<1>11. CASE NextSecond \/ Edit
  BY <1>11 DEF NextSecond, Edit, wait, ErrInv
<1>12. CASE Restart
  BY <1>12 DEF Restart, ErrInv
<1>13. CASE UNCHANGED vars
  BY <1>13 DEF vars, ErrInv
<1>. QED
  BY <1>1, <1>2, <1>4, <1>5, <1>6, <1>7, <1>8, <1>9, <1>10, <1>11, <1>12, <1>13
  DEF Next, Run

\* No VM is rebooted while the map shows an error it has shown since before the
\* run began (serverset.go:1136-1148).
THEOREM RolloutHalts == Spec => HaltOnError
<1>1. Init => ErrInv
  BY DEF Init, ErrInv
<1>2. TypeOK /\ ErrInv /\ [Next]_vars => [pc = "check" /\ pc' \in Waits => sick = {}]_vars
  <2>. SUFFICES ASSUME TypeOK, ErrInv, Next, pc = "check", pc' \in Waits PROVE sick = {}
    BY DEF vars
  <2>1. "check" \notin Waits /\ "idle" \notin Waits /\ "servers" \notin Waits
    BY DEF Waits
  <2>2. \E i \in Replicas : AskServer(i) \/ ReplaceVolume(i) \/ ReplaceAll(i)
    BY <2>1 DEF Next, Run, Observe, ObserveUnread, Start, UpdateRunning, Select, NothingLeft,
       Leave, CheckVM, CheckFails, UpdateFinished, SoftwareRunning, GiveUp, WaitFails,
       Timeout, CarryOut, UpdateFails, Boot, Break, Repair, Report, NextSecond, Restart,
       Edit, wait
  <2>3. seen = Replicas
    BY <2>2 DEF AskServer, ReplaceVolume, ReplaceAll
  <2>. QED
    BY <2>3 DEF ErrInv, TypeOK
<1>. QED
  BY <1>1, <1>2, ErrNext, FailoverTypeOK, PTL DEF Spec, HaltOnError

-----------------------------------------------------------------------------
(* One VM is down at a time.                                                 *)

\* The VMs that are down or about to be, and are not overlooked.
Rebooting(i) == i \notin overlooked /\ (pending[i] \/ vm[i] = "down")

\* The worker is waiting for the reboot of i, and no entry has ended the wait.
Waiting(i) ==
  /\ pc \in Waits /\ target = i /\ ~Running(map[i], "request")
  /\ pc = "await" => cr.strategy # "createAllBeforeDestroy"
\* The reboot of i is on its way, and the map does not call i good.
Shown(i) == ~pending[i] /\ ~Checked(i)

DownInv ==
  /\ pc \notin Waits => \A i \in Replicas : map[i].time # "after"
  /\ pc \in {"idle", "servers"} => seen = {}
  /\ \A i \in Replicas : Rebooting(i) => Waiting(i) \/ Shown(i)
  /\ pc = "check" => \A i \in seen : ~Rebooting(i)
  /\ \A i, j \in Replicas : Rebooting(i) /\ Rebooting(j) => i = j

LEMMA EntryFacts ==
  /\ \A e \in Entries :
       /\ Running(e, "request") => Running(e, "start") /\ e.time \in {"zero", "after"}
       /\ Running(Aged(e), "start") <=> Running(e, "start")
       /\ Aged(e).time # "after" /\ BeforeStart(e).time # "after"
       /\ Running(BeforeStart(e), "start") => Running(e, "request")
       /\ Aged(e).state = e.state
       /\ e.state # "VM-RUNNING" => ~Running(e, "request") /\ ~Running(e, "start")
       /\ e.state = "VM-RUNNING" /\ e.time = "since" => ~Running(e, "request")
  /\ ~Running(NoEntry, "request") /\ ~Running(NoEntry, "start") /\ NoEntry.time = "zero"
  BY DEF Entries, Running, Stale, Aged, BeforeStart, NoEntry

\* Most steps change neither the map nor where the worker is.
LEMMA KeepDown ==
  ASSUME DownInv, UNCHANGED <<pc, cr, map, target, seen>>, seen \subseteq Replicas,
         \A i \in Replicas : Rebooting(i)' => Rebooting(i) /\ (pending'[i] => pending[i])
  PROVE  DownInv'
<1>1. ASSUME NEW i \in Replicas, Rebooting(i)' PROVE Waiting(i)' \/ Shown(i)'
  BY <1>1 DEF DownInv, Waiting, Shown, Checked
<1>2. pc' = "check" => \A i \in Replicas \cap seen' : ~Rebooting(i)'
  BY DEF DownInv
<1>3. \A i, j \in Replicas : Rebooting(i)' /\ Rebooting(j)' => i = j
  BY DEF DownInv
<1>4. /\ pc' \notin Waits => \A i \in Replicas : map'[i].time # "after"
      /\ pc' \in {"idle", "servers"} => seen' = {}
  BY DEF DownInv
<1>. QED
  BY <1>1, <1>2, <1>3, <1>4 DEF DownInv

LEMMA LeaveDown ==
  ASSUME TypeOK, DownInv, NEW p \in {"idle", "servers"}, Leave(p),
         \A i \in Replicas \ overlooked' : i \notin overlooked /\ (Rebooting(i) => Shown(i))
  PROVE  DownInv'
<1>0. map \in [Replicas -> Entries] /\ pc' = p /\ p \notin Waits \cup {"check"}
  BY DEF TypeOK, Leave, Waits
<1>1. \A i \in Replicas : Rebooting(i)' => Rebooting(i) /\ Shown(i)
  BY DEF Leave, object, Rebooting
<1>2. ASSUME NEW i \in Replicas, Rebooting(i)' PROVE Shown(i)'
  <2>1. map[i] \in Entries /\ map'[i] = Aged(map[i])
    BY <1>0 DEF Leave
  <2>. QED
    BY <1>1, <1>2, <2>1, EntryFacts DEF Leave, object, Shown, Checked
<1>3. \A i \in Replicas : map'[i].time # "after"
  BY <1>0, EntryFacts DEF Leave
<1>4. seen' = {}
  BY DEF Leave
<1>. QED
  BY <1>0, <1>1, <1>2, <1>3, <1>4 DEF DownInv

LEMMA AskDown ==
  ASSUME TypeOK, DownInv, NEW i \in Replicas, AskServer(i) \/ ReplaceVolume(i)
  PROVE  DownInv'
<1>0. /\ pc = "check" /\ seen = Replicas /\ target = i /\ map[i] \in Entries
      /\ UNCHANGED <<map, target, vm, cr>> /\ pc' \in {"finish", "await"}
      /\ pending' = [pending EXCEPT ![i] = TRUE] /\ overlooked' = overlooked \cup Blind(i)
      /\ pc' = "await" => cr.strategy = "createBeforeDestroyBootVolume"
  BY DEF AskServer, ReplaceVolume, TypeOK
<1>1. \A j \in Replicas : ~Rebooting(j)
  BY <1>0 DEF DownInv
<1>2. \A j \in Replicas : Rebooting(j)' => j = i
  BY <1>0, <1>1 DEF Rebooting, TypeOK
<1>3. Rebooting(i)' => Waiting(i)'
  <2>. SUFFICES ASSUME Rebooting(i)' PROVE Waiting(i)'
    OBVIOUS
  <2>1. map[i].time # "zero"
    BY <1>0 DEF Rebooting, Blind
  <2>2. map[i].time # "after"
    BY <1>0 DEF DownInv, Waits
  <2>3. ~Running(map[i], "request")
    BY <2>1, <2>2, <1>0, EntryFacts
  <2>. QED
    BY <2>3, <1>0 DEF Waiting, Waits
<1>4. pc' \in Waits /\ pc' \notin {"idle", "servers", "check"}
  BY <1>0 DEF Waits
<1>. QED
  BY <1>2, <1>3, <1>4 DEF DownInv

LEMMA ReplaceAllDown ==
  ASSUME TypeOK, DownInv, NEW i \in Replicas, ReplaceAll(i)
  PROVE  DownInv'
<1>0. /\ pc = "check" /\ seen = Replicas /\ pc' = "await"
      /\ map' = [map EXCEPT ![i] = NoEntry] /\ pending' = [pending EXCEPT ![i] = FALSE]
      /\ vm' = [vm EXCEPT ![i] = "down"] /\ overlooked' = overlooked \ {i}
  BY DEF ReplaceAll
<1>1. \A j \in Replicas : ~Rebooting(j)
  BY <1>0 DEF DownInv
<1>2. \A j \in Replicas : Rebooting(j)' => j = i
  BY <1>0, <1>1 DEF Rebooting, TypeOK
<1>3. Shown(i)'
  BY <1>0, EntryFacts DEF Shown, Checked, TypeOK
<1>4. pc' \in Waits /\ pc' \notin {"idle", "servers", "check"}
  BY <1>0 DEF Waits
<1>. QED
  BY <1>2, <1>3, <1>4 DEF DownInv

LEMMA ReportDown ==
  ASSUME TypeOK, DownInv, NEW i \in Replicas, Report(i)
  PROVE  DownInv'
<1>0. /\ map' = [map EXCEPT ![i] = News(i)] /\ map \in [Replicas -> Entries]
      /\ UNCHANGED <<pc, cr, target, seen, pending, vm>> /\ overlooked \subseteq overlooked'
      /\ vm[i] \in {"up", "bad", "down"} /\ News(i) \in Entries
  BY NewsTypes DEF Report, TypeOK, object, wait
<1>1. \A j \in Replicas : Rebooting(j)' => Rebooting(j)
  BY <1>0 DEF Rebooting
<1>2. ASSUME NEW j \in Replicas, Rebooting(j)' PROVE Waiting(j)' \/ Shown(j)'
  <2>1. CASE j # i
    BY <1>0, <1>1, <1>2, <2>1 DEF DownInv, Waiting, Shown, Checked
  <2>2. CASE j = i /\ vm[i] # "up"
    <3>1. map'[i] = News(i) /\ News(i).state # "VM-RUNNING"
      BY <1>0, <2>2 DEF News, NoEntry
    <3>. QED
      BY <1>0, <1>1, <1>2, <2>2, <3>1, EntryFacts DEF DownInv, Waiting, Shown, Checked
  <2>3. CASE j = i /\ vm[i] = "up"
    <3>1. pending[i] /\ i \notin overlooked'
      BY <1>0, <1>2, <2>3 DEF Rebooting
    <3>2. Waiting(i)
      BY <1>1, <1>2, <2>3, <3>1 DEF DownInv, Shown
    <3>3. Now = "since"
      BY <3>1, <3>2 DEF Report, Waiting, Now
    <3>4. map'[i] = [state |-> "VM-RUNNING", time |-> "since"]
      BY <1>0, <2>3, <3>3 DEF News
    <3>5. ~Running(map'[i], "request")
      BY <3>4, <1>0, EntryFacts DEF TypeOK
    <3>. QED
      BY <1>0, <2>3, <3>2, <3>5 DEF Waiting
  <2>. QED
    BY <2>1, <2>2, <2>3, <1>0
<1>3. pc \notin Waits => \A j \in Replicas : map'[j].time # "after"
  <2>. SUFFICES ASSUME pc \notin Waits PROVE News(i).time # "after"
    BY <1>0 DEF DownInv
  <2>. QED
    BY <1>0 DEF News, Now, NoEntry
<1>4. pc' = "check" => \A j \in Replicas \cap seen' : ~Rebooting(j)'
  BY <1>0, <1>1 DEF DownInv
<1>5. \A j, k \in Replicas : Rebooting(j)' /\ Rebooting(k)' => j = k
  BY <1>1 DEF DownInv
<1>6. seen' \subseteq Replicas /\ (pc' \in {"idle", "servers"} => seen' = {})
  BY <1>0 DEF DownInv, TypeOK
<1>. QED
  BY <1>0, <1>2, <1>3, <1>4, <1>5, <1>6 DEF DownInv

LEMMA RestartDown ==
  ASSUME TypeOK, DownInv, Restart
  PROVE  DownInv'
<1>0. /\ map \in [Replicas -> Entries] /\ map' = [i \in Replicas |-> BeforeStart(map[i])]
      /\ pc' = "idle" /\ seen' = {} /\ UNCHANGED <<pending, vm>>
      /\ overlooked' = overlooked \cup {i \in Replicas : pending[i]}
  BY DEF Restart, TypeOK, object
<1>1. \A i \in Replicas : Rebooting(i)' => Rebooting(i) /\ ~pending'[i]
  BY <1>0 DEF Rebooting
<1>2. ASSUME NEW i \in Replicas, Rebooting(i)' PROVE Shown(i)'
  <2>1. ~Running(map[i], "request")
    BY <1>0, <1>1, <1>2, EntryFacts DEF DownInv, Waiting, Shown, Checked
  <2>2. ~Running(map'[i], "start")
    BY <2>1, <1>0, EntryFacts
  <2>. QED
    BY <2>2, <1>1, <1>2 DEF Shown, Checked
<1>3. \A i \in Replicas : map'[i].time # "after"
  BY <1>0, EntryFacts
<1>. QED
  BY <1>0, <1>1, <1>2, <1>3 DEF DownInv

LEMMA DownNext == TypeOK /\ Targeted /\ DownInv /\ [Next]_vars => DownInv'
<1>. SUFFICES ASSUME TypeOK, Targeted, DownInv, [Next]_vars PROVE DownInv'
  OBVIOUS
<1>0. pc \in {"idle", "servers", "check"} \cup Waits /\ map \in [Replicas -> Entries]
      /\ seen \subseteq Replicas
  BY DEF TypeOK
<1>1. ASSUME UNCHANGED <<map, pending, vm, overlooked, seen>>, seen = {}, pc \notin Waits,
             pc' \notin Waits
      PROVE  DownInv'
  <2>1. \A i \in Replicas : Rebooting(i)' <=> Rebooting(i)
    BY <1>1 DEF Rebooting
  <2>2. \A i \in Replicas : Rebooting(i) => Shown(i)'
    BY <1>1 DEF DownInv, Waiting, Shown, Checked
  <2>. QED
    BY <1>0, <1>1, <2>1, <2>2 DEF DownInv
<1>2. CASE Observe \/ ObserveUnread
  BY <1>1, <1>2 DEF Observe, ObserveUnread, Start, object, wait, Waits, DownInv
<1>3. ASSUME NEW i \in Replicas, UpdateRunning(i) PROVE DownInv'
  BY <1>0, <1>3, KeepDown DEF UpdateRunning, wait, Rebooting
<1>4. ASSUME NEW i \in Replicas, Select(i) PROVE DownInv'
  BY <1>1, <1>4 DEF Select, object, Waits, DownInv
<1>5. ASSUME pc \notin Waits PROVE \A i \in Replicas : Rebooting(i) => Shown(i)
  BY <1>5 DEF DownInv, Waiting
<1>6. CASE NothingLeft \/ CheckFails
  <2>1. pc \notin Waits /\ Leave("idle") /\ overlooked' = overlooked
    BY <1>6 DEF NothingLeft, CheckFails, Waits
  <2>. QED
    BY <2>1, <1>5, LeaveDown
<1>7. ASSUME NEW i \in Replicas, CheckVM(i) PROVE DownInv'
  <2>1. /\ pc = "check" /\ pc \notin Waits /\ Checked(i) /\ seen' = seen \cup {i}
        /\ UNCHANGED <<map, pc, cr, target, pending, vm, overlooked>>
    BY <1>7 DEF CheckVM, Waits, object
  <2>2. ~Rebooting(i)
    BY <2>1, <1>5 DEF Shown
  <2>3. \A j \in Replicas : Rebooting(j)' <=> Rebooting(j)
    BY <2>1 DEF Rebooting
  <2>4. \A j \in Replicas : Rebooting(j) => Shown(j)'
    BY <2>1, <1>5 DEF Shown, Checked
  <2>5. seen' \subseteq Replicas
    BY <2>1 DEF TypeOK
  <2>. QED
    BY <2>1, <2>2, <2>3, <2>4, <2>5 DEF DownInv
<1>8. ASSUME NEW i \in Replicas, AskServer(i) \/ ReplaceVolume(i) \/ ReplaceAll(i)
      PROVE  DownInv'
  BY <1>8, AskDown, ReplaceAllDown
<1>9. CASE UpdateFinished
  <2>1. /\ pc = "finish" /\ pc' = "software"
        /\ UNCHANGED <<map, cr, target, seen, pending, vm, overlooked>>
    BY <1>9 DEF UpdateFinished, object, wait
  <2>2. \A i \in Replicas : Rebooting(i)' <=> Rebooting(i)
    BY <2>1 DEF Rebooting
  <2>3. \A i \in Replicas : Rebooting(i) => Waiting(i)' \/ Shown(i)'
    BY <2>1 DEF DownInv, Waiting, Shown, Checked, Waits
  <2>. QED
    BY <2>1, <2>2, <2>3 DEF DownInv, Waits
<1>10. CASE SoftwareRunning
  <2>1. /\ \E p \in {"idle", "servers"} : Leave(p)
        /\ overlooked' = overlooked /\ pc \in {"software", "await"}
        /\ Running(Awaited, "request")
    BY <1>10 DEF SoftwareRunning
  <2>2. \A i \in Replicas : ~Waiting(i)
    BY <2>1 DEF Waiting, Awaited
  <2>. QED
    BY <2>1, <2>2, LeaveDown DEF DownInv
<1>11. ASSUME pc \in Waits, GiveUp PROVE DownInv'
  <2>1. target \in Replicas
    BY <1>11 DEF Targeted
  <2>2. Leave("idle") /\ overlooked' = overlooked \cup (IF Hidden(target) THEN {target} ELSE {})
    BY <1>11 DEF GiveUp
  <2>3. ASSUME NEW i \in Replicas \ overlooked', Rebooting(i) PROVE Shown(i)
    <3>1. CASE i = target
      <4>1. ~pending[i] /\ map[i].state # "VM-RUNNING"
        BY <2>2, <2>3, <3>1 DEF Hidden, Rebooting
      <4>. QED
        BY <4>1, <1>0, EntryFacts DEF Shown, Checked
    <3>2. CASE i # target
      BY <2>3, <3>2 DEF DownInv, Waiting
    <3>. QED
      BY <3>1, <3>2
  <2>. QED
    BY <2>2, <2>3, LeaveDown
<1>12. CASE WaitFails \/ Timeout
  BY <1>11, <1>12 DEF WaitFails, Timeout, Waits
<1>13. ASSUME NEW i \in Replicas, CarryOut(i) \/ UpdateFails(i) PROVE DownInv'
  <2>1. /\ UNCHANGED <<pc, cr, map, target, seen, overlooked>> /\ pending[i]
        /\ \/ UNCHANGED <<pending, vm>>
           \/ pending' = [pending EXCEPT ![i] = FALSE] /\ vm' = [vm EXCEPT ![i] = "down"]
    BY <1>13 DEF CarryOut, UpdateFails
  <2>2. \A j \in Replicas : Rebooting(j)' => Rebooting(j) /\ (pending'[j] => pending[j])
    BY <2>1 DEF Rebooting, TypeOK
  <2>. QED
    BY <1>0, <2>1, <2>2, KeepDown
<1>14. ASSUME NEW i \in Replicas, Boot(i) \/ Break(i) PROVE DownInv'
  <2>1. /\ UNCHANGED <<pc, cr, map, target, seen, pending>> /\ Seen(i)
        /\ vm' \in {[vm EXCEPT ![i] = "up"], [vm EXCEPT ![i] = "bad"]}
    BY <1>14 DEF Boot, Break, object, wait
  <2>2. \A j \in Replicas : Rebooting(j)' => Rebooting(j)
    BY <2>1 DEF Rebooting, Seen, TypeOK
  <2>. QED
    BY <1>0, <2>1, <2>2, KeepDown
<1>15. ASSUME NEW i \in Replicas, Repair(i) PROVE DownInv'
  <2>1. /\ UNCHANGED <<pc, cr, map, target, seen, pending, overlooked>>
        /\ vm' = [vm EXCEPT ![i] = "up"]
    BY <1>15 DEF Repair, object, wait
  <2>2. \A j \in Replicas : Rebooting(j)' => Rebooting(j)
    BY <2>1 DEF Rebooting, TypeOK
  <2>. QED
    BY <1>0, <2>1, <2>2, KeepDown
<1>16. ASSUME NEW i \in Replicas, Report(i) PROVE DownInv'
  BY <1>16, ReportDown
<1>17. CASE NextSecond \/ Edit \/ UNCHANGED vars
  <2>1. UNCHANGED <<pc, cr, map, target, seen, pending, vm, overlooked>>
    BY <1>17 DEF NextSecond, Edit, vars, object, wait
  <2>. QED
    BY <1>0, <2>1, KeepDown DEF Rebooting
<1>18. CASE Restart
  BY <1>18, RestartDown
<1>. QED
  BY <1>2, <1>3, <1>4, <1>6, <1>7, <1>8, <1>9, <1>10, <1>12, <1>13, <1>14, <1>15, <1>16,
     <1>17, <1>18
  DEF Next, Run

\* At most one VM is down at a time but for those overlooked, however many
\* replicas there are and whatever is edited, restarted or broken
\* (serverset.go:528-561, 658-683, 1138-1195).
THEOREM OneVMDown == Spec => []OneDown
<1>1. Init => DownInv
  BY DEF Init, DownInv, Rebooting, Waits
<1>2. TInv => TypeOK /\ Targeted
  BY DEF TInv
<1>3. DownInv => OneDown
  BY DEF DownInv, OneDown, Rebooting
<1>. QED
  BY <1>1, <1>2, <1>3, InitTypes, NextTypes, DownNext, PTL DEF Spec
=============================================================================
