------------------------- MODULE IPFailoverProofs -------------------------
(* What every IP failover of a LAN keeps, for any number of resources, any  *)
(* number of reconciles at a time and whatever reads and writes fail.       *)
EXTENDS IPFailover, TLAPS

Counters == [edits : Nat, reads : Nat, writes : Nat]
Points == {"idle", "create", "update", "delete", "write create", "write update", "write delete"}

\* What an operation reads is the list, or nothing when the request failed.
LEMMA GotFacts ==
  ASSUME TypeOK, NEW list, Got(list)
  PROVE  /\ list = lan \/ list = {}
         /\ faults' \in Counters /\ faults'.writes = faults.writes
<1>1. faults \in Counters
  BY DEF TypeOK, Counters
<1>2. ReadFails => faults' \in Counters /\ faults'.writes = faults.writes
  BY <1>1 DEF ReadFails, Counters
<1>. QED
  BY <1>1, <1>2 DEF Got

LEMMA PlanFacts ==
  ASSUME TypeOK, Planned, NEW r \in Resources, NEW e \in lan, e.nic # r
  PROVE  e.ip # status[r].ip
<1>1. e.ip \in Addresses[e.nic] /\ e.nic \in Resources /\ e.ip \in IPs
  BY DEF Planned, TypeOK, Entry
<1>2. status[r].ip \in Addresses[r] \cup {NoIP}
  BY DEF Planned
<1>. QED
  BY <1>1, <1>2, AddressesAssumption, NoIPAssumption

LEMMA OwnFacts ==
  ASSUME NEW r \in Resources, want[r] \in Addresses[r]
  PROVE  Own(r) \in Entry /\ Own(r).nic = r /\ Own(r).ip = want[r]
BY AddressesAssumption DEF Own, Entry

\* The three lists that may be written keep what others own in the list they are
\* made from.
LEMMA CreatedFacts ==
  ASSUME NEW list \in SUBSET Entry, NEW r \in Resources, want[r] \in Addresses[r]
  PROVE  /\ Created(r, list) \subseteq Entry
         /\ \A s \in Resources : s # r => Of(s, Created(r, list)) = Of(s, list)
         /\ Of(r, Created(r, list)) # {}
         /\ \A e \in Created(r, list) : e \in list \/ e = Own(r)
         /\ Of(r, list) = {} => Single(r, Created(r, list))
<1>1. Own(r) \in Entry /\ Own(r).nic = r
  BY OwnFacts
<1>. HIDE DEF Own
<1>2. Created(r, list) \subseteq Entry /\ \A e \in Created(r, list) : e \in list \/ e = Own(r)
  BY <1>1 DEF Created
<1>3. \A s \in Resources : s # r => Of(s, Created(r, list)) = Of(s, list)
  BY <1>1 DEF Created, Of
<1>4. Own(r) \in Of(r, Created(r, list))
  BY <1>1 DEF Created, Of
<1>5. Of(r, list) = {} => Single(r, Created(r, list))
  BY <1>1 DEF Created, Of, Single
<1>. QED
  BY <1>2, <1>3, <1>4, <1>5

LEMMA UpdatedFacts ==
  ASSUME TypeOK, Planned, NEW r \in Resources, want[r] \in Addresses[r]
  PROVE  /\ Updated(r, lan) \subseteq Entry
         /\ \A s \in Resources : s # r => Of(s, Updated(r, lan)) = Of(s, lan)
         /\ Of(r, lan) # {} => Of(r, Updated(r, lan)) # {}
         /\ \A e \in Updated(r, lan) : e \in lan \/ e = Own(r)
         /\ Single(r, lan) => Single(r, Updated(r, lan))
<1>1. Own(r) \in Entry /\ Own(r).nic = r
  BY OwnFacts
<1>2. \A e \in lan : e.nic # r => e.ip # status[r].ip
  BY PlanFacts
<1>3. lan \subseteq Entry
  BY DEF TypeOK
<1>. HIDE DEF Own
<1>4. \A e \in Updated(r, lan) : e \in lan \/ e = Own(r)
  BY DEF Updated
<1>5. \A e \in lan : e.nic # r => e \in Updated(r, lan)
  BY <1>2 DEF Updated
<1>6. (\E e \in lan : e.nic = r) => \E e \in Updated(r, lan) : e.nic = r
  BY <1>1 DEF Updated
<1>7. \A s \in Resources : s # r => Of(s, Updated(r, lan)) = Of(s, lan)
  BY <1>1, <1>4, <1>5 DEF Of
<1>8. ASSUME Single(r, lan), NEW g \in Of(r, Updated(r, lan)), NEW h \in Of(r, Updated(r, lan))
      PROVE  g = h
  <2>1. PICK e \in lan, f \in lan : /\ g = IF e.ip = status[r].ip THEN Own(r) ELSE e
                                    /\ h = IF f.ip = status[r].ip THEN Own(r) ELSE f
    BY DEF Updated, Of
  <2>2. g.nic = r /\ h.nic = r
    BY DEF Of
  <2>3. e.nic = r /\ f.nic = r
    BY <1>2, <2>1, <2>2
  <2>4. e = f
    BY <1>8, <2>3 DEF Single, Of
  <2>. QED  BY <2>1, <2>4
<1>9. Single(r, lan) => Single(r, Updated(r, lan))
  BY <1>8 DEF Single
<1>. QED
  BY <1>1, <1>3, <1>4, <1>6, <1>7, <1>9 DEF Of

LEMMA WithoutOwnFacts ==
  ASSUME TypeOK, Planned, NEW r \in Resources
  PROVE  /\ WithoutOwn(r, lan) \subseteq lan
         /\ \A s \in Resources : s # r => Of(s, WithoutOwn(r, lan)) = Of(s, lan)
         /\ Single(r, lan) /\ [ip |-> status[r].ip, nic |-> r] \in lan
              => Of(r, WithoutOwn(r, lan)) = {}
<1>1. \A e \in lan : e.nic # r => e.ip # status[r].ip
  BY PlanFacts
<1>2. \A s \in Resources : s # r => Of(s, WithoutOwn(r, lan)) = Of(s, lan)
  BY <1>1 DEF WithoutOwn, Of
<1>3. ASSUME Single(r, lan), [ip |-> status[r].ip, nic |-> r] \in lan,
             NEW e \in Of(r, WithoutOwn(r, lan))
      PROVE  FALSE
  <2>1. e \in lan /\ e.nic = r /\ e.ip # status[r].ip
    BY DEF WithoutOwn, Of
  <2>. DEFINE own == [ip |-> status[r].ip, nic |-> r]
  <2>2. own \in Of(r, lan) /\ own.ip = status[r].ip
    BY <1>3 DEF Of
  <2>3. e \in Of(r, lan)
    BY <2>1 DEF Of
  <2>. HIDE DEF own
  <2>. QED  BY <1>3, <2>1, <2>2, <2>3 DEF Single
<1>. QED
  BY <1>2, <1>3 DEF WithoutOwn

-----------------------------------------------------------------------------
LEMMA Initially == Init => IPInv
<1> SUFFICES ASSUME Init PROVE IPInv
  OBVIOUS
<1>1. TypeOK
  BY DEF Init, TypeOK, State
<1>2. Planned /\ Objects /\ Fresh /\ AvailableIsListed
  BY DEF Init, Planned, Objects, Fresh, AvailableIsListed, Writes
<1>. QED  BY <1>1, <1>2 DEF IPInv

-----------------------------------------------------------------------------
(* What each step does.                                                      *)
LEMMA ObserveEffect ==
  ASSUME TypeOK, NEW r \in Resources, Observe(r)
  PROVE  /\ pc[r] = "idle" /\ life[r] \in {"wanted", "deleted"}
         /\ UNCHANGED <<spec, named, lan, lanThere, input, history>>
         /\ faults' \in Counters /\ faults'.writes = faults.writes
         /\ \/ UNCHANGED life
            \/ /\ life[r] = "deleted" /\ life' = [life EXCEPT ![r] = "gone"] /\ UNCHANGED pc
               /\ ~named[r] \/ status[r].state = "DELETING" \/ ~lanThere
         /\ \/ UNCHANGED status
            \/ /\ [ip |-> spec[r], nic |-> r] \in lan
               /\ status' = [status EXCEPT ![r] = [ip |-> spec[r], state |-> "AVAILABLE"]]
         /\ \/ UNCHANGED <<pc, want>>
            \/ \E step \in {"create", "update", "delete"} :
                 /\ UNCHANGED life
                 /\ step = "create" => /\ life[r] = "wanted" /\ UNCHANGED status
                                       /\ ~named[r] \/ status[r].state = "DELETING" \/ ~lanThere
                 /\ step = "update" => life[r] = "wanted" /\ named[r]
                 /\ step = "delete" => life[r] = "deleted" /\ named[r]
                 /\ pc' = [pc EXCEPT ![r] = step]
                 /\ want' = [want EXCEPT ![r] = spec[r]]
<1>1. MayStart(r) /\ UNCHANGED <<lan, lanThere, history>>
  BY DEF Observe
<1>2. faults' \in Counters /\ faults'.writes = faults.writes
  <2>1. UNCHANGED faults \/ \E list : Got(list)
    BY DEF Observe
  <2>. QED  BY <2>1, GotFacts DEF TypeOK, Counters
<1>3. \/ NotFound(r) /\ (~named[r] \/ status[r].state = "DELETING" \/ ~lanThere)
      \/ named[r] /\ \E list \in SUBSET lan : Exists(r, list)
      \/ UNCHANGED <<resource, named, status, local>>
  BY DEF Observe
<1>4. CASE NotFound(r) /\ (~named[r] \/ status[r].state = "DELETING" \/ ~lanThere)
  BY <1>1, <1>2, <1>4 DEF NotFound, local, MayStart
<1>5. CASE named[r] /\ \E list \in SUBSET lan : Exists(r, list)
  <2>1. PICK list \in SUBSET lan : Exists(r, list)
    BY <1>5
  <2>. QED  BY <1>1, <1>2, <1>5, <2>1 DEF Exists, local, resource, MayStart
<1>6. CASE UNCHANGED <<resource, named, status, local>>
  BY <1>1, <1>2, <1>6 DEF local, resource, MayStart
<1>. QED  BY <1>3, <1>4, <1>5, <1>6

\* An operation ends, or makes its list: Create from whatever it got, Update and
\* Delete from the list of the LAN.
Makes(r, step, read, list) ==
  /\ pc' = [pc EXCEPT ![r] = step] /\ input' = [input EXCEPT ![r] = list]
  /\ late' = [late EXCEPT ![r] = {}] /\ blind' = [blind EXCEPT ![r] = read # lan]

LEMMA ReadEffect ==
  ASSUME TypeOK, NEW r \in Resources, Create(r) \/ Update(r) \/ Delete(r)
  PROVE  /\ pc[r] \in {"create", "update", "delete"}
         /\ UNCHANGED <<resource, named, status, lan, lanThere, want, harmed>>
         /\ faults' \in Counters /\ faults'.writes = faults.writes
         /\ \/ pc' = [pc EXCEPT ![r] = "idle"] /\ UNCHANGED <<input, late, blind>>
            \/ /\ pc[r] = "create"
               /\ \E list \in {lan, {}} : Makes(r, "write create", list, Created(r, list))
            \/ pc[r] = "update" /\ Makes(r, "write update", lan, Updated(r, lan))
            \/ /\ pc[r] = "delete" /\ [ip |-> status[r].ip, nic |-> r] \in lan
               /\ status[r].state # "DELETING"
               /\ Makes(r, "write delete", lan, WithoutOwn(r, lan))
<1>1. faults' \in Counters /\ faults'.writes = faults.writes
  <2>1. UNCHANGED faults \/ \E list : Got(list)
    BY DEF Create, Update, Delete
  <2>. QED  BY <2>1, GotFacts DEF TypeOK, Counters
<1>2. CASE Create(r)
  <2>1. PICK list \in SUBSET lan :
          /\ Got(list)
          /\ IF Own(r) \in list THEN Skip(r) ELSE Write(r, "write create", list, Created(r, list))
    BY <1>2 DEF Create
  <2>2. list \in {lan, {}}
    BY <2>1, GotFacts
  <2>. QED
    BY <1>1, <1>2, <2>1, <2>2 DEF Create, Skip, Return, Goto, Write, Makes, history
<1>3. CASE Update(r)
  <2>1. CASE Skip(r)
    BY <1>1, <1>3, <2>1 DEF Update, Skip, Return, Goto, history
  <2>2. CASE ~Skip(r)
    <3>1. PICK list \in SUBSET lan :
            Got(list) /\ ~Failing(list) /\ Write(r, "write update", list, Updated(r, list))
      BY <1>3, <2>2 DEF Update
    <3>2. list = lan
      BY <3>1, GotFacts DEF Failing
    <3>. QED  BY <1>1, <1>3, <3>1, <3>2 DEF Update, Write, Makes
  <2>. QED  BY <2>1, <2>2
<1>4. CASE Delete(r)
  <2>1. CASE Skip(r)
    BY <1>1, <1>4, <2>1 DEF Delete, Skip, Return, Goto, history
  <2>2. CASE ~Skip(r)
    <3>1. status[r].state # "DELETING"
      BY <1>4, <2>2 DEF Delete
    <3>2. PICK list \in SUBSET lan :
            /\ Got(list) /\ [ip |-> status[r].ip, nic |-> r] \in list
            /\ Write(r, "write delete", list, WithoutOwn(r, list))
      BY <1>4, <2>2 DEF Delete
    <3>3. list = lan
      BY <3>2, GotFacts
    <3>. QED  BY <1>1, <1>4, <3>1, <3>2, <3>3 DEF Delete, Write, Makes
  <2>. QED  BY <2>1, <2>2
<1>. QED  BY <1>2, <1>3, <1>4

LEMMA WriteCounted ==
  ASSUME TypeOK, UNCHANGED faults \/ faults' = [faults EXCEPT !.writes = @ + 1]
  PROVE  faults' \in Counters /\ (faults'.writes = 0 => UNCHANGED faults)
<1>1. faults \in Counters
  BY DEF TypeOK, Counters
<1>2. faults' = [faults EXCEPT !.writes = @ + 1] => faults'.writes = faults.writes + 1
  BY <1>1 DEF Counters
<1>. QED  BY <1>1, <1>2 DEF Counters

\* What is missed and harmed by a request, whether it is carried out or not.
LEMMA HistoryEffect ==
  ASSUME TypeOK, NEW r \in Resources, Patch(r) \/ Refused(r)
  PROVE  /\ late' \in [Resources -> SUBSET Resources]
         /\ blind' = [blind EXCEPT ![r] = FALSE]
         /\ harmed \subseteq harmed' /\ harmed' \subseteq Resources
         /\ \A s \in Resources \ {r} : pc[s] \in Writes =>
              late[s] \subseteq late'[s] /\ (lan' = lan \/ r \in late'[s])
         /\ \A s \in Resources \ {r} : s \notin harmed' => Of(s, lan') = Of(s, lan)
<1>1. late \in [Resources -> SUBSET Resources] /\ harmed \subseteq Resources
  BY DEF TypeOK
<1>2. CASE Patch(r)
  <2>1. Done(r) /\ Overtaken(r) /\ Harm(r)
    BY <1>2 DEF Patch
  <2>2. late' \in [Resources -> SUBSET Resources]
    BY <1>1, <2>1 DEF Overtaken
  <2>3. \A s \in Resources \ {r} : pc[s] \in Writes => late'[s] = late[s] \cup {r}
    BY <2>1 DEF Overtaken
  <2>4. /\ harmed \subseteq harmed' /\ harmed' \subseteq Resources
        /\ \A s \in Resources \ {r} : s \notin harmed' => Of(s, lan') = Of(s, lan)
    BY <1>1, <2>1 DEF Harm
  <2>. QED  BY <2>1, <2>2, <2>3, <2>4 DEF Done
<1>3. CASE Refused(r)
  <2>1. Done(r) /\ late' = [late EXCEPT ![r] = {}] /\ UNCHANGED <<lan, harmed>>
    BY <1>3 DEF Refused
  <2>. QED  BY <1>1, <2>1 DEF Done
<1>. QED  BY <1>2, <1>3

LEMMA PatchEffect ==
  ASSUME TypeOK, NEW r \in Resources, Patch(r) \/ Refused(r)
  PROVE  /\ pc[r] \in Writes /\ pc' = [pc EXCEPT ![r] = "idle"]
         /\ UNCHANGED <<resource, lanThere, want, input>>
         /\ lan' = lan \/ (lanThere /\ lan' = input[r])
         /\ faults' \in Counters /\ (faults'.writes = 0 => UNCHANGED faults)
         /\ \/ UNCHANGED named
            \/ pc[r] = "write create" /\ lan' = input[r] /\ named' = [named EXCEPT ![r] = TRUE]
         /\ faults'.writes = 0 /\ lan' # lan /\ pc[r] = "write create" => named'[r]
         /\ \/ UNCHANGED status
            \/ \E ip \in {status[r].ip, want[r]}, st \in State \ {"AVAILABLE"} :
                 /\ status' = [status EXCEPT ![r] = [ip |-> ip, state |-> st]]
                 /\ st = "DELETING" => pc[r] = "write delete" /\ lan' = input[r]
<1>1. /\ UNCHANGED faults \/ faults' = [faults EXCEPT !.writes = @ + 1]
      /\ faults' \in Counters /\ (faults'.writes = 0 => UNCHANGED faults)
  <2>1. UNCHANGED faults \/ faults' = [faults EXCEPT !.writes = @ + 1]
    BY DEF Patch, Refused, Save
  <2>. QED  BY <2>1, WriteCounted
<1>2. CASE Refused(r)
  BY <1>1, <1>2 DEF Refused, Done, Return, Goto, resource
<1>3. CASE Patch(r)
  <2>1. /\ pc[r] \in Writes /\ pc' = [pc EXCEPT ![r] = "idle"]
        /\ UNCHANGED <<resource, lanThere, want, input>>
        /\ lanThere /\ lan' = input[r]
    BY <1>3 DEF Patch, Done, Return, Goto
  <2>2. /\ Save(r, Op(r)) \/ UNCHANGED <<named, status>>
        /\ UNCHANGED faults /\ Op(r) = "create" => Save(r, Op(r))
    <3>1. faults.writes \in Nat /\ faults \in Counters
      BY DEF TypeOK, Counters
    <3>2. faults' = [faults EXCEPT !.writes = @ + 1] => ~UNCHANGED faults
      BY <3>1 DEF Counters
    <3>. QED  BY <1>3, <3>2 DEF Patch
  <2>3. /\ Op(r) \in {"create", "update", "delete"}
        /\ Op(r) = "create" <=> pc[r] = "write create"
        /\ Op(r) = "delete" <=> pc[r] = "write delete"
    <3>1. CASE pc[r] = "write create"
      BY <3>1 DEF Op
    <3>2. CASE pc[r] = "write update"
      BY <3>2 DEF Op
    <3>3. CASE pc[r] = "write delete"
      BY <3>3 DEF Op
    <3>. QED  BY <2>1, <3>1, <3>2, <3>3 DEF Writes
  <2>4. CASE Save(r, Op(r))
    <3>1. UNCHANGED named \/ (named' = [named EXCEPT ![r] = TRUE] /\ Op(r) = "create")
      <4>1. named' = [named EXCEPT ![r] = named[r] \/ Op(r) = "create"]
        BY <2>4 DEF Save
      <4>2. named \in [Resources -> BOOLEAN]
        BY DEF TypeOK
      <4>3. CASE Op(r) = "create"
        <5>1. (named[r] \/ Op(r) = "create") = TRUE
          BY <4>3
        <5>. QED  BY <4>1, <4>3, <5>1
      <4>4. CASE Op(r) # "create"
        <5>1. (named[r] \/ Op(r) = "create") = named[r]
          BY <4>2, <4>4
        <5>. QED  BY <4>1, <4>2, <5>1
      <4>. QED  BY <4>3, <4>4
    <3>2. Op(r) = "create" => named'[r]
      BY <2>4 DEF Save, TypeOK
    <3>3. /\ After[Op(r)] \in State \ {"AVAILABLE"}
          /\ After[Op(r)] = "DELETING" => Op(r) = "delete"
      <4>1. CASE Op(r) = "create"
        BY <4>1 DEF After, State
      <4>2. CASE Op(r) = "update"
        BY <4>2 DEF After, State
      <4>3. CASE Op(r) = "delete"
        BY <4>3 DEF After, State
      <4>. QED  BY <2>3, <4>1, <4>2, <4>3
    <3>4. \/ UNCHANGED status
          \/ \E ip \in {status[r].ip, want[r]}, st \in State \ {"AVAILABLE"} :
               /\ status' = [status EXCEPT ![r] = [ip |-> ip, state |-> st]]
               /\ st = "DELETING" => Op(r) = "delete"
      BY <2>4, <3>3 DEF Save
    <3>. QED
      BY <1>1, <2>1, <2>3, <3>1, <3>2, <3>4
  <2>5. CASE UNCHANGED <<named, status>>
    BY <1>1, <2>1, <2>2, <2>3, <2>4, <2>5
  <2>. QED  BY <2>2, <2>4, <2>5
<1>. QED  BY <1>2, <1>3

-----------------------------------------------------------------------------
(* Each step keeps the invariant.                                            *)
LEMMA StatusChange ==
  ASSUME TypeOK, NEW r \in Resources, NEW ip \in IPs \cup {NoIP}, NEW st \in State,
         status' = [status EXCEPT ![r] = [ip |-> ip, state |-> st]]
  PROVE  /\ status' \in [Resources -> [ip : IPs \cup {NoIP}, state : State]]
         /\ \A s \in Resources : s # r => status'[s] = status[s]
         /\ status'[r].ip = ip /\ status'[r].state = st
<1>1. status \in [Resources -> [ip : IPs \cup {NoIP}, state : State]]
  BY DEF TypeOK
<1>2. [ip |-> ip, state |-> st] \in [ip : IPs \cup {NoIP}, state : State]
  OBVIOUS
<1>3. status'[r] = [ip |-> ip, state |-> st]
  BY <1>1
<1>4. status' \in [Resources -> [ip : IPs \cup {NoIP}, state : State]]
  <2>. DEFINE v == [ip |-> ip, state |-> st]
              T == [ip : IPs \cup {NoIP}, state : State]
  <2>1. v \in T
    BY <1>2
  <2>2. status \in [Resources -> T] /\ status' = [status EXCEPT ![r] = v]
    BY <1>1
  <2>. HIDE DEF v, T
  <2>3. status' \in [Resources -> T]
    BY <2>1, <2>2
  <2>. QED  BY <2>3 DEF T
<1>. QED  BY <1>1, <1>3, <1>4

LEMMA ObserveKeeps ==
  ASSUME IPInv, NEW r \in Resources, Observe(r)
  PROVE  IPInv'
<1>1. TypeOK /\ Planned /\ Objects /\ Fresh /\ AvailableIsListed
  BY DEF IPInv
<1>2. /\ pc[r] = "idle" /\ life[r] \in {"wanted", "deleted"}
      /\ UNCHANGED <<spec, named, lan, lanThere, input, late, blind, harmed>>
      /\ faults' \in Counters
      /\ UNCHANGED life \/ (life[r] = "deleted" /\ life' = [life EXCEPT ![r] = "gone"] /\ UNCHANGED pc)
  BY <1>1, ObserveEffect DEF history
<1>3. \/ UNCHANGED status
      \/ /\ [ip |-> spec[r], nic |-> r] \in lan
         /\ status' = [status EXCEPT ![r] = [ip |-> spec[r], state |-> "AVAILABLE"]]
  BY <1>1, ObserveEffect
<1>4. \/ UNCHANGED <<pc, want>>
      \/ \E step \in {"create", "update", "delete"} :
           /\ step = "delete" => life[r] = "deleted"
           /\ UNCHANGED life
           /\ pc' = [pc EXCEPT ![r] = step]
           /\ want' = [want EXCEPT ![r] = spec[r]]
  BY <1>1, ObserveEffect
<1>5. spec[r] \in Addresses[r] /\ spec[r] \in IPs
  BY <1>1, <1>2, AddressesAssumption DEF Planned
<1>6. TypeOK'
  <2>1. status' \in [Resources -> [ip : IPs \cup {NoIP}, state : State]]
    <3>1. CASE UNCHANGED status
      BY <1>1, <3>1 DEF TypeOK
    <3>2. CASE status' = [status EXCEPT ![r] = [ip |-> spec[r], state |-> "AVAILABLE"]]
      BY <1>1, <1>5, <3>2, StatusChange DEF State
    <3>. QED  BY <1>3, <3>1, <3>2
  <2>2. life' \in [Resources -> {"new", "wanted", "deleted", "gone"}]
    BY <1>1, <1>2 DEF TypeOK
  <2>3. pc' \in [Resources -> Points] /\ want' \in [Resources -> IPs \cup {NoIP}]
    <3>1. {"create", "update", "delete"} \subseteq Points
      BY DEF Points
    <3>2. pc \in [Resources -> Points] /\ want \in [Resources -> IPs \cup {NoIP}]
      BY <1>1 DEF TypeOK, Points
    <3>. QED  BY <1>4, <1>5, <3>1, <3>2
  <2>. QED  BY <1>1, <1>2, <2>1, <2>2, <2>3 DEF TypeOK, Points, Counters
<1>7. Planned'
  <2>1. \A s \in Resources : status'[s].ip \in {status[s].ip, spec[s]}
    <3>1. CASE UNCHANGED status
      BY <3>1
    <3>2. CASE status' = [status EXCEPT ![r] = [ip |-> spec[r], state |-> "AVAILABLE"]]
      BY <1>1, <1>5, <3>2, StatusChange DEF State
    <3>. QED  BY <1>3, <3>1, <3>2
  <2>2. \A s \in Resources : want'[s] = want[s] \/ (s = r /\ want'[s] = spec[r])
    BY <1>1, <1>4 DEF TypeOK
  <2>3. \A s \in Resources : pc'[s] # "idle" =>
          (pc[s] # "idle" /\ want'[s] = want[s]) \/ (s = r /\ want'[s] = spec[r])
    BY <1>1, <1>4 DEF TypeOK
  <2>4. \A s \in Resources : pc'[s] # "idle" => want'[s] \in Addresses[s]
    BY <1>1, <1>2, <1>5, <2>3 DEF Planned
  <2>5. \A s \in Resources : life'[s] # "new" => life[s] # "new"
    BY <1>1, <1>2 DEF TypeOK
  <2>. QED  BY <1>1, <1>2, <1>5, <2>1, <2>2, <2>4, <2>5 DEF Planned
<1>8. \A s \in Resources : s # r => pc'[s] = pc[s] /\ life'[s] = life[s]
  BY <1>1, <1>2, <1>4 DEF TypeOK
<1>9. Objects'
  <2>1. life'[r] # "new" /\ (pc'[r] \in {"delete", "write delete"} => life'[r] = "deleted")
    BY <1>1, <1>2, <1>4 DEF TypeOK
  <2>. QED  BY <1>1, <1>2, <1>8, <2>1 DEF Objects
<1>10. Fresh'
  <2>1. pc'[r] \notin Writes
    BY <1>1, <1>2, <1>4 DEF TypeOK, Writes
  <2>. QED  BY <1>1, <1>2, <1>8, <2>1 DEF Fresh
<1>11. AvailableIsListed'
  <2> SUFFICES ASSUME lanThere', NEW s \in Resources \ harmed', named'[s], life'[s] = "wanted",
                      status'[s].state = "AVAILABLE"
               PROVE  Of(s, lan') # {}
    BY DEF AvailableIsListed
  <2>1. life[s] = "wanted"
    BY <1>1, <1>2 DEF TypeOK
  <2>2. CASE status[s].state = "AVAILABLE"
    BY <1>1, <1>2, <2>1, <2>2 DEF AvailableIsListed
  <2>3. CASE status[s].state # "AVAILABLE"
    <3>. DEFINE own == [ip |-> spec[r], nic |-> r]
    <3>1. s = r /\ own \in lan /\ own.nic = r
      BY <1>1, <1>3, <2>3 DEF TypeOK
    <3>. HIDE DEF own
    <3>. QED  BY <1>2, <3>1 DEF Of
  <2>. QED  BY <2>2, <2>3
<1>. QED  BY <1>6, <1>7, <1>9, <1>10, <1>11 DEF IPInv

\* An operation that ends, or makes a list in which others have the entries of
\* the list it has read.
LEMMA ReadKeeps ==
  ASSUME IPInv, NEW r \in Resources, Create(r) \/ Update(r) \/ Delete(r)
  PROVE  IPInv'
<1>1. TypeOK /\ Planned /\ Objects /\ Fresh /\ AvailableIsListed
  BY DEF IPInv
<1>2. /\ pc[r] \in {"create", "update", "delete"}
      /\ UNCHANGED <<life, spec, named, status, lan, lanThere, want, harmed>>
      /\ faults' \in Counters
  BY <1>1, ReadEffect DEF resource
<1>3. want[r] \in Addresses[r] /\ lan \subseteq Entry
  BY <1>1, <1>2 DEF Planned, TypeOK
<1>4. AvailableIsListed'
  BY <1>1, <1>2 DEF AvailableIsListed
<1>5. CASE pc' = [pc EXCEPT ![r] = "idle"] /\ UNCHANGED <<input, late, blind>>
  <2>1. TypeOK'
    BY <1>1, <1>2, <1>5 DEF TypeOK, Counters
  <2>2. \A s \in Resources : pc'[s] # "idle" => pc'[s] = pc[s]
    BY <1>1, <1>5 DEF TypeOK
  <2>3. Planned' /\ Objects'
    BY <1>1, <1>2, <1>5, <2>2 DEF Planned, Objects
  <2>4. Fresh'
    BY <1>1, <1>2, <1>5, <2>2 DEF Fresh, Writes
  <2>. QED  BY <1>4, <2>1, <2>3, <2>4 DEF IPInv
<1>6. ASSUME NEW step \in Writes, NEW read, NEW list \in SUBSET Entry, Makes(r, step, read, list),
             step = "write delete" => pc[r] = "delete",
             step # "write create" => read = lan,
             \A e \in list : e \in lan \/ e = Own(r),
             \A s \in Resources : s # r => Of(s, list) = Of(s, read),
             step = "write create" => Of(r, list) # {},
             step = "write update" /\ Of(r, lan) # {} => Of(r, list) # {}
      PROVE  IPInv'
  <2>1. TypeOK'
    <3>1. pc' \in [Resources -> Points]
      BY <1>1, <1>6 DEF TypeOK, Makes, Writes, Points
    <3>2. input' \in [Resources -> SUBSET Entry]
      BY <1>1, <1>6 DEF TypeOK, Makes
    <3>3. late' \in [Resources -> SUBSET Resources] /\ blind' \in [Resources -> BOOLEAN]
      BY <1>1, <1>6 DEF TypeOK, Makes
    <3>. QED  BY <1>1, <1>2, <3>1, <3>2, <3>3 DEF TypeOK, Points, Counters
  <2>2. /\ pc'[r] = step /\ input'[r] = list /\ late'[r] = {} /\ blind'[r] = (read # lan)
        /\ \A s \in Resources : s # r => /\ pc'[s] = pc[s] /\ input'[s] = input[s]
                                         /\ late'[s] = late[s] /\ blind'[s] = blind[s]
    BY <1>1, <1>6 DEF TypeOK, Makes
  <2>3. Planned'
    <3>1. Own(r).ip \in Addresses[Own(r).nic]
      BY <1>3 DEF Own
    <3>2. \A e \in list : e.ip \in Addresses[e.nic]
      BY <1>1, <1>6, <3>1 DEF Planned
    <3>3. \A s \in Resources : \A e \in input'[s] : e.ip \in Addresses[e.nic]
      BY <1>1, <2>2, <3>2 DEF Planned
    <3>4. \A s \in Resources : pc'[s] # "idle" => want[s] \in Addresses[s]
      BY <1>1, <1>3, <2>2 DEF Planned
    <3>. QED  BY <1>1, <1>2, <3>3, <3>4 DEF Planned
  <2>4. Objects'
    <3>1. life[r] # "new" /\ (pc[r] = "delete" => life[r] = "deleted")
      BY <1>1, <1>2 DEF Objects
    <3>. QED  BY <1>1, <1>2, <1>6, <2>2, <3>1 DEF Objects, Writes
  <2>5. Fresh'
    <3>1. ASSUME lanThere
          PROVE  /\ blind'[r] => step = "write create"
                 /\ ~blind'[r] => \A s \in Resources : s # r => Of(s, list) = Of(s, lan)
      BY <1>6, <2>2
    <3>2. \A s \in Resources : pc'[s] \in Writes /\ lanThere =>
            /\ blind'[s] => pc'[s] = "write create"
            /\ ~blind'[s] => \A t \in Resources \ (late'[s] \cup harmed \cup {s}) :
                               Of(t, input'[s]) = Of(t, lan)
            /\ pc'[s] = "write create" => Of(s, input'[s]) # {}
            /\ pc'[s] = "write update" /\ s \notin harmed /\ Of(s, lan) # {} => Of(s, input'[s]) # {}
      <4>. TAKE s \in Resources
      <4>1. CASE s = r
        BY <1>6, <2>2, <3>1, <4>1
      <4>2. CASE s # r
        BY <1>1, <2>2, <4>2 DEF Fresh
      <4>. QED  BY <4>1, <4>2
    <3>. QED  BY <1>2, <3>2 DEF Fresh
  <2>. QED  BY <1>4, <2>1, <2>3, <2>4, <2>5 DEF IPInv
<1>7. CASE pc[r] = "create" /\ \E list \in {lan, {}} : Makes(r, "write create", list, Created(r, list))
  <2>1. PICK list \in {lan, {}} : Makes(r, "write create", list, Created(r, list))
    BY <1>7
  <2>2. list \in SUBSET Entry
    BY <1>3
  <2>3. /\ Created(r, list) \in SUBSET Entry
        /\ \A s \in Resources : s # r => Of(s, Created(r, list)) = Of(s, list)
        /\ Of(r, Created(r, list)) # {}
        /\ \A e \in Created(r, list) : e \in lan \/ e = Own(r)
    BY <1>3, <2>2, CreatedFacts
  <2>. HIDE DEF Makes, Created, Of, Own
  <2>. QED  BY <1>6, <2>1, <2>3 DEF Writes
<1>8. CASE pc[r] = "update" /\ Makes(r, "write update", lan, Updated(r, lan))
  BY <1>1, <1>3, <1>6, <1>8, UpdatedFacts DEF Writes
<1>9. CASE pc[r] = "delete" /\ Makes(r, "write delete", lan, WithoutOwn(r, lan))
  <2>1. WithoutOwn(r, lan) \in SUBSET Entry
    BY <1>1, <1>3, WithoutOwnFacts
  <2>. QED  BY <1>1, <1>3, <1>6, <1>9, <2>1, WithoutOwnFacts DEF Writes
<1>. QED  BY <1>1, <1>5, <1>7, <1>8, <1>9, ReadEffect

LEMMA WriteKeeps ==
  ASSUME IPInv, NEW r \in Resources, Patch(r) \/ Refused(r)
  PROVE  IPInv'
<1>1. TypeOK /\ Planned /\ Objects /\ Fresh /\ AvailableIsListed
  BY DEF IPInv
<1>2. /\ pc[r] \in Writes /\ pc' = [pc EXCEPT ![r] = "idle"]
      /\ UNCHANGED <<life, spec, lanThere, want, input>>
      /\ lan' = lan \/ (lanThere /\ lan' = input[r])
      /\ faults' \in Counters
  BY <1>1, PatchEffect DEF resource
<1>3. \/ UNCHANGED named
      \/ pc[r] = "write create" /\ lan' = input[r] /\ named' = [named EXCEPT ![r] = TRUE]
  BY <1>1, PatchEffect
<1>4. \/ UNCHANGED status
      \/ \E ip \in {status[r].ip, want[r]}, st \in State \ {"AVAILABLE"} :
           /\ status' = [status EXCEPT ![r] = [ip |-> ip, state |-> st]]
           /\ st = "DELETING" => pc[r] = "write delete" /\ lan' = input[r]
  BY <1>1, PatchEffect
<1>5. /\ late' \in [Resources -> SUBSET Resources]
      /\ blind' = [blind EXCEPT ![r] = FALSE]
      /\ harmed \subseteq harmed' /\ harmed' \subseteq Resources
      /\ \A s \in Resources \ {r} : pc[s] \in Writes =>
           late[s] \subseteq late'[s] /\ (lan' = lan \/ r \in late'[s])
      /\ \A s \in Resources \ {r} : s \notin harmed' => Of(s, lan') = Of(s, lan)
  BY <1>1, HistoryEffect
<1>6. pc'[r] = "idle" /\ \A s \in Resources : s # r => pc'[s] = pc[s] /\ blind'[s] = blind[s]
  BY <1>1, <1>2, <1>5 DEF TypeOK
<1>7. /\ status' \in [Resources -> [ip : IPs \cup {NoIP}, state : State]]
       /\ \A s \in Resources :
            /\ status'[s].ip \in {status[s].ip, want[s]}
            /\ status'[s].state = "AVAILABLE" => status[s].state = "AVAILABLE"
  <2>1. status[r].ip \in IPs \cup {NoIP} /\ want[r] \in IPs \cup {NoIP}
    BY <1>1 DEF TypeOK
  <2>2. CASE UNCHANGED status
    BY <1>1, <2>2 DEF TypeOK
  <2>3. CASE ~UNCHANGED status
    <3>1. PICK ip \in {status[r].ip, want[r]}, st \in State \ {"AVAILABLE"} :
            status' = [status EXCEPT ![r] = [ip |-> ip, state |-> st]]
      BY <1>4, <2>3
    <3>2. /\ status' \in [Resources -> [ip : IPs \cup {NoIP}, state : State]]
          /\ \A s \in Resources : s # r => status'[s] = status[s]
          /\ status'[r].ip = ip /\ status'[r].state = st
      BY <1>1, <2>1, <3>1, StatusChange
    <3>. QED  BY <3>1, <3>2
  <2>. QED  BY <2>2, <2>3
<1>8. TypeOK'
  <2>1. lan' \subseteq Entry /\ named' \in [Resources -> BOOLEAN]
    BY <1>1, <1>2, <1>3 DEF TypeOK
  <2>2. pc' \in [Resources -> Points] /\ blind' \in [Resources -> BOOLEAN]
    BY <1>1, <1>2, <1>5 DEF TypeOK, Points
  <2>. QED  BY <1>1, <1>2, <1>5, <1>7, <2>1, <2>2 DEF TypeOK, Points, Counters
<1>9. Planned'
  <2>1. \A s \in Resources : status'[s].ip \in {status[s].ip, want[s]}
    BY <1>7
  <2>2. \A e \in lan' : e.ip \in Addresses[e.nic]
    BY <1>1, <1>2 DEF Planned
  <2>3. \A s \in Resources : pc'[s] # "idle" => pc[s] # "idle"
    BY <1>6
  <2>. QED  BY <1>1, <1>2, <2>1, <2>2, <2>3 DEF Planned
<1>10. Fresh'
  <2>1. \A s \in Resources : pc'[s] \in Writes /\ lanThere' =>
          /\ blind'[s] => pc'[s] = "write create"
          /\ ~blind'[s] => \A t \in Resources \ (late'[s] \cup harmed' \cup {s}) :
                             Of(t, input'[s]) = Of(t, lan')
          /\ pc'[s] = "write create" => Of(s, input'[s]) # {}
          /\ pc'[s] = "write update" /\ s \notin harmed' /\ Of(s, lan') # {} => Of(s, input'[s]) # {}
    <3>. SUFFICES ASSUME NEW s \in Resources, pc'[s] \in Writes, lanThere'
                  PROVE  /\ blind'[s] => pc'[s] = "write create"
                         /\ ~blind'[s] => \A t \in Resources \ (late'[s] \cup harmed' \cup {s}) :
                                            Of(t, input'[s]) = Of(t, lan')
                         /\ pc'[s] = "write create" => Of(s, input'[s]) # {}
                         /\ pc'[s] = "write update" /\ s \notin harmed' /\ Of(s, lan') # {}
                              => Of(s, input'[s]) # {}
      OBVIOUS
    <3>1. s # r /\ pc'[s] = pc[s] /\ blind'[s] = blind[s] /\ input'[s] = input[s] /\ lanThere
      BY <1>2, <1>6 DEF Writes
    <3>2. /\ blind[s] => pc[s] = "write create"
          /\ ~blind[s] => \A t \in Resources \ (late[s] \cup harmed \cup {s}) :
                            Of(t, input[s]) = Of(t, lan)
          /\ pc[s] = "write create" => Of(s, input[s]) # {}
          /\ pc[s] = "write update" /\ s \notin harmed /\ Of(s, lan) # {} => Of(s, input[s]) # {}
      BY <1>1, <3>1 DEF Fresh
    <3>3. late[s] \subseteq late'[s] /\ (lan' = lan \/ r \in late'[s])
      BY <1>5, <3>1
    <3>4. \A t \in Resources \ (late'[s] \cup harmed' \cup {s}) :
            Of(t, lan') = Of(t, lan) /\ t \notin late[s] \cup harmed \cup {s}
      BY <1>5, <3>3
    <3>5. s \notin harmed' => Of(s, lan') = Of(s, lan) /\ s \notin harmed
      BY <1>5, <3>1
    <3>. QED  BY <3>1, <3>2, <3>4, <3>5
  <2>. QED  BY <2>1 DEF Fresh
<1>11. Objects'
  <2>1. life[r] # "new"
    BY <1>1, <1>2 DEF Objects, Writes
  <2>2. \A s \in Resources : life[s] = "new" => ~named'[s]
    BY <1>1, <1>3, <2>1 DEF TypeOK, Objects
  <2>. QED  BY <1>1, <1>2, <1>6, <2>2 DEF Objects
<1>12. AvailableIsListed'
  <2> SUFFICES ASSUME lanThere', NEW s \in Resources \ harmed', named'[s], life'[s] = "wanted",
                      status'[s].state = "AVAILABLE"
               PROVE  Of(s, lan') # {}
    BY DEF AvailableIsListed
  <2>1. status[s].state = "AVAILABLE" /\ lanThere /\ life[s] = "wanted" /\ s \notin harmed
    BY <1>2, <1>5, <1>7
  <2>2. CASE pc[r] = "write create" /\ s = r /\ lan' = input[r]
    BY <1>1, <2>1, <2>2 DEF Fresh, Writes
  <2>3. CASE ~(pc[r] = "write create" /\ s = r /\ lan' = input[r])
    <3>1. named[s]
      BY <1>1, <1>3, <2>3 DEF TypeOK
    <3>2. Of(s, lan) # {}
      BY <1>1, <2>1, <3>1 DEF AvailableIsListed
    <3>3. pc[r] = "write delete" => s # r
      BY <1>1, <2>1 DEF Objects
    <3>4. CASE lan' = lan
      BY <3>2, <3>4
    <3>5. CASE s # r
      BY <1>5, <3>2, <3>5
    <3>6. CASE lan' = input[r] /\ s = r
      <4>1. pc[r] = "write update"
        BY <1>2, <2>3, <3>3, <3>6 DEF Writes
      <4>. QED  BY <1>1, <1>2, <2>1, <3>2, <3>6, <4>1 DEF Fresh
    <3>. QED  BY <1>2, <3>4, <3>5, <3>6
  <2>. QED  BY <2>2, <2>3
<1>. QED  BY <1>8, <1>9, <1>10, <1>11, <1>12 DEF IPInv

LEMMA UserKeeps ==
  ASSUME IPInv, NEW r \in Resources, Submit(r) \/ Edit(r) \/ Remove(r)
  PROVE  IPInv'
<1>1. TypeOK /\ Planned /\ Objects /\ Fresh /\ AvailableIsListed
  BY DEF IPInv
<1>2. UNCHANGED <<named, status, lan, lanThere, pc, want, input, late, blind, harmed>>
  BY DEF Submit, Edit, Remove, local, history
<1>3. UNCHANGED spec \/ \E ip \in Addresses[r] : spec' = [spec EXCEPT ![r] = ip]
  BY DEF Submit, Edit, Remove
<1>4. /\ life[r] \in {"new", "wanted"}
      /\ \/ life[r] = "new" /\ life' = [life EXCEPT ![r] = "wanted"]
            /\ \E ip \in Addresses[r] : spec' = [spec EXCEPT ![r] = ip]
         \/ UNCHANGED life
         \/ life[r] = "wanted" /\ life' = [life EXCEPT ![r] = "deleted"]
  BY DEF Submit, Edit, Remove
<1>5. faults' \in [edits : Nat, reads : Nat, writes : Nat]
  <2>1. UNCHANGED faults \/ faults' = [faults EXCEPT !.edits = @ + 1]
    BY DEF Submit, Edit, Remove
  <2>2. faults \in [edits : Nat, reads : Nat, writes : Nat]
    BY <1>1 DEF TypeOK
  <2>. QED  BY <2>1, <2>2
<1>6. Addresses[r] \subseteq IPs
  BY AddressesAssumption
<1>7. TypeOK'
  <2>1. spec' \in [Resources -> IPs \cup {NoIP}]
    BY <1>1, <1>3, <1>6 DEF TypeOK
  <2>2. life' \in [Resources -> {"new", "wanted", "deleted", "gone"}]
    BY <1>1, <1>4 DEF TypeOK
  <2>. QED  BY <1>1, <1>2, <1>5, <2>1, <2>2 DEF TypeOK
<1>8. Planned'
  <2>1. \A s \in Resources : spec'[s] = spec[s] \/ spec'[s] \in Addresses[s]
    BY <1>1, <1>3 DEF TypeOK
  <2>2. \A s \in Resources : life'[s] # "new" => life[s] # "new" \/ spec'[s] \in Addresses[s]
    BY <1>1, <1>4 DEF TypeOK
  <2>3. \A s \in Resources : life'[s] # "new" => spec'[s] \in Addresses[s]
    BY <1>1, <2>1, <2>2 DEF Planned
  <2>. QED  BY <1>1, <1>2, <2>1, <2>3 DEF Planned
<1>9. Fresh'
  BY <1>1, <1>2 DEF Fresh
<1>10. Objects'
  <2>1. \A s \in Resources : life'[s] = "new" => life[s] = "new"
    BY <1>1, <1>4 DEF TypeOK
  <2>2. \A s \in Resources : life[s] = "deleted" => life'[s] = "deleted"
    BY <1>1, <1>4 DEF TypeOK
  <2>. QED  BY <1>1, <1>2, <2>1, <2>2 DEF Objects
<1>11. AvailableIsListed'
  <2>1. \A s \in Resources : life'[s] = "wanted" => life[s] = "wanted" \/ ~named[s]
    BY <1>1, <1>4 DEF TypeOK, Objects
  <2>. QED  BY <1>1, <1>2, <2>1 DEF AvailableIsListed
<1>. QED  BY <1>7, <1>8, <1>9, <1>10, <1>11 DEF IPInv

LEMMA LanGoesKeeps == IPInv /\ LanGoes => IPInv'
<1> SUFFICES ASSUME IPInv, LanGoes PROVE IPInv'
  OBVIOUS
<1>1. TypeOK /\ Planned /\ Objects
  BY DEF IPInv
<1>2. /\ lanThere' = FALSE /\ lan' = {}
      /\ UNCHANGED <<life, spec, named, status, pc, want, input, faults, late, blind, harmed>>
  BY DEF LanGoes, resource, local, history
<1>3. TypeOK' /\ Planned' /\ Objects'
  BY <1>1, <1>2 DEF TypeOK, Planned, Objects
<1>4. Fresh' /\ AvailableIsListed'
  BY <1>2 DEF Fresh, AvailableIsListed
<1>. QED  BY <1>3, <1>4 DEF IPInv

\* The induction step.
LEMMA StepKeeps == IPInv /\ [Next]_vars => IPInv'
<1> SUFFICES ASSUME IPInv, [Next]_vars PROVE IPInv'
  OBVIOUS
<1>1. ASSUME NEW r \in Resources, Reconcile(r)
      PROVE  IPInv'
  BY <1>1, ObserveKeeps, ReadKeeps, WriteKeeps DEF Reconcile
<1>2. ASSUME NEW r \in Resources, Submit(r) \/ Edit(r) \/ Remove(r)
      PROVE  IPInv'
  BY <1>2, UserKeeps
<1>3. CASE UNCHANGED vars
  BY <1>3 DEF vars, resource, local, history, IPInv, TypeOK, Planned, Objects, Fresh,
              AvailableIsListed
<1>. QED  BY <1>1, <1>2, <1>3, LanGoesKeeps DEF Next

-----------------------------------------------------------------------------
\* However many reconciles run at a time and whatever fails, a list that is about
\* to be written has the entries of all others, except for those written since it
\* was read, those harmed before, and those a blind Create does not know of
\* (ipfailover.go:172-285).
THEOREM Invariant == Spec => []IPInv
<1>. QED
  BY Initially, StepKeeps, PTL DEF Spec

\* A resource that is reported AVAILABLE has an entry in the LAN, as long as no
\* other one's write has harmed it (ipfailover.go:117-120).
THEOREM AvailableListed == Spec => []AvailableIsListed
<1>1. IPInv => AvailableIsListed
  BY DEF IPInv
<1>. QED
  BY <1>1, Invariant, PTL

\* A write changes the entries of another resource only if it overtakes that one's
\* write, or brings to others what one of these has done to it, or is a Create
\* whose read failed (ipfailover.go:172-285).
THEOREM OthersAreKept == Spec => OthersKept
<1>1. ASSUME IPInv, NEW r \in Resources, Patch(r), NEW s \in Resources \ {r},
             s \notin late[r], s \notin harmed, ~(pc[r] = "write create" /\ blind[r])
      PROVE  Of(s, lan') = Of(s, lan)
  <2>1. lanThere /\ lan' = input[r] /\ pc[r] \in Writes
    BY <1>1 DEF Patch
  <2>2. ~blind[r] /\ s \in Resources \ (late[r] \cup harmed \cup {r})
    BY <1>1, <2>1 DEF IPInv, Fresh
  <2>. QED  BY <1>1, <2>1, <2>2 DEF IPInv, Fresh
<1>2. IPInv => [\A r \in Resources : Patch(r) =>
                 \A s \in Resources \ {r} : Of(s, lan') # Of(s, lan) =>
                   \/ s \in late[r] \/ s \in harmed
                   \/ pc[r] = "write create" /\ blind[r]]_vars
  BY <1>1
<1>. QED
  BY <1>2, Invariant, PTL DEF OthersKept

-----------------------------------------------------------------------------
(* The entries of a resource that nobody has harmed, as long as no write is *)
(* answered with an error: it has one at most, and none before Create has   *)
(* written it and saved the external name, nor after Delete.  Others' writes *)
(* leave its entries alone, so that the list it is going to write has none  *)
(* but those it read.                                                       *)
Entries(r) ==
  /\ Single(r, lan) /\ (pc[r] \in Writes => Single(r, input[r]))
  /\ pc[r] = "write delete" => Of(r, input[r]) = {}
  /\ \/ ~named[r] \/ pc[r] \in {"create", "write create"}
     \/ life[r] = "gone" \/ status[r].state = "DELETING"
     => Of(r, lan) = {}

Steps(r) ==
  /\ life[r] = "gone" => pc[r] = "idle"
  /\ pc[r] \in {"update", "delete", "write update", "write delete"} => named[r]
  /\ status[r].state = "DELETING" => life[r] \in {"deleted", "gone"} /\ pc[r] \in {"idle", "delete"}

EntryInv ==
  /\ ~lanThere => lan = {}
  /\ \A r \in Resources : Steps(r)
  /\ faults.writes = 0 => \A r \in Resources \ harmed : Entries(r)

\* A step of one resource that changes no entry of another leaves the other's
\* part of the invariant alone.
LEMMA OthersEntries ==
  ASSUME EntryInv, NEW r \in Resources, NEW s \in Resources, s # r,
         pc'[s] = pc[s], life'[s] = life[s], named'[s] = named[s], input'[s] = input[s],
         status'[s].state = status[s].state, Of(s, lan') = Of(s, lan)
  PROVE  Steps(s)' /\ (faults.writes = 0 /\ s \notin harmed => Entries(s)')
<1>1. Steps(s) /\ (faults.writes = 0 /\ s \notin harmed => Entries(s))
  BY DEF EntryInv
<1>2. Steps(s)'
  BY <1>1 DEF Steps
<1>3. ASSUME Entries(s) PROVE Entries(s)'
  BY <1>3 DEF Entries, Single
<1>. QED  BY <1>1, <1>2, <1>3

LEMMA ObserveEntries ==
  ASSUME IPInv, EntryInv, NEW r \in Resources, Observe(r)
  PROVE  EntryInv'
<1>1. TypeOK
  BY DEF IPInv
<1>2. /\ pc[r] = "idle" /\ life[r] \in {"wanted", "deleted"}
      /\ UNCHANGED <<spec, named, lan, lanThere, input, harmed>>
      /\ faults'.writes = faults.writes
      /\ \/ UNCHANGED life
         \/ /\ life[r] = "deleted" /\ life' = [life EXCEPT ![r] = "gone"] /\ UNCHANGED pc
            /\ ~named[r] \/ status[r].state = "DELETING" \/ ~lanThere
  BY <1>1, ObserveEffect DEF history
<1>3. /\ \A s \in Resources : s # r => status'[s] = status[s]
      /\ UNCHANGED status \/ status'[r].state = "AVAILABLE"
  <2>1. CASE UNCHANGED status
    BY <2>1
  <2>2. CASE ~UNCHANGED status
    <3>1. status' = [status EXCEPT ![r] = [ip |-> spec[r], state |-> "AVAILABLE"]]
      BY <1>1, <2>2, ObserveEffect
    <3>2. spec[r] \in IPs \cup {NoIP}
      BY <1>1 DEF TypeOK
    <3>. QED  BY <1>1, <3>1, <3>2, StatusChange DEF State
  <2>. QED  BY <2>1, <2>2
<1>4. \/ UNCHANGED pc
      \/ \E step \in {"create", "update", "delete"} :
           /\ UNCHANGED life
           /\ step = "create" => /\ life[r] = "wanted" /\ UNCHANGED status
                                 /\ ~named[r] \/ status[r].state = "DELETING" \/ ~lanThere
           /\ step = "update" => life[r] = "wanted" /\ named[r]
           /\ step = "delete" => life[r] = "deleted" /\ named[r]
           /\ pc' = [pc EXCEPT ![r] = step]
  BY <1>1, ObserveEffect
<1>5. Steps(r) /\ (faults.writes = 0 /\ r \notin harmed => Entries(r))
  BY DEF EntryInv
<1>6. Steps(r)'
  BY <1>1, <1>2, <1>3, <1>4, <1>5 DEF Steps, TypeOK
<1>7. ASSUME faults.writes = 0, r \notin harmed PROVE Entries(r)'
  <2>1. Entries(r) /\ (~lanThere => Of(r, lan) = {})
    BY <1>5, <1>7 DEF EntryInv, Of
  <2>2. pc'[r] \notin Writes
    BY <1>1, <1>2, <1>4 DEF TypeOK, Writes
  <2>3. status'[r].state = "DELETING" => status[r].state = "DELETING"
    BY <1>3
  <2>4. life'[r] = "gone" => ~named[r] \/ status[r].state = "DELETING" \/ ~lanThere
    BY <1>1, <1>2 DEF TypeOK
  <2>5. pc'[r] \in {"create", "write create"} =>
          ~named[r] \/ status[r].state = "DELETING" \/ ~lanThere
    BY <1>1, <1>2, <1>4 DEF TypeOK
  <2>6. life'[r] = "gone" \/ pc'[r] \in {"create", "write create"} \/ ~named[r]
          \/ status'[r].state = "DELETING" => Of(r, lan) = {}
    BY <2>1, <2>3, <2>4, <2>5 DEF Entries
  <2>7. Single(r, lan)
    BY <2>1 DEF Entries
  <2>. QED  BY <1>2, <2>2, <2>6, <2>7 DEF Entries, Single, Writes
<1>8. \A s \in Resources : s # r => pc'[s] = pc[s] /\ life'[s] = life[s]
  BY <1>1, <1>2, <1>4 DEF TypeOK
<1>9. \A s \in Resources : Steps(s)' /\ (faults.writes = 0 /\ s \notin harmed => Entries(s)')
  <2>. TAKE s \in Resources
  <2>1. CASE s = r
    BY <1>6, <1>7, <2>1
  <2>2. CASE s # r
    BY <1>2, <1>3, <1>8, <2>2, OthersEntries
  <2>. QED  BY <2>1, <2>2
<1>. QED  BY <1>2, <1>9 DEF EntryInv

LEMMA ReadEntries ==
  ASSUME IPInv, EntryInv, NEW r \in Resources, Create(r) \/ Update(r) \/ Delete(r)
  PROVE  EntryInv'
<1>1. TypeOK /\ Planned
  BY DEF IPInv
<1>2. /\ pc[r] \in {"create", "update", "delete"}
      /\ UNCHANGED <<life, named, status, lan, lanThere, harmed>>
      /\ faults'.writes = faults.writes
  BY <1>1, ReadEffect DEF resource
<1>3. want[r] \in Addresses[r] /\ lan \subseteq Entry
  BY <1>1, <1>2 DEF Planned, TypeOK
<1>4. \/ pc' = [pc EXCEPT ![r] = "idle"] /\ UNCHANGED input
      \/ /\ pc[r] = "create" /\ pc' = [pc EXCEPT ![r] = "write create"]
         /\ \E list \in {lan, {}} : input' = [input EXCEPT ![r] = Created(r, list)]
      \/ /\ pc[r] = "update" /\ pc' = [pc EXCEPT ![r] = "write update"]
         /\ input' = [input EXCEPT ![r] = Updated(r, lan)]
      \/ /\ pc[r] = "delete" /\ pc' = [pc EXCEPT ![r] = "write delete"]
         /\ [ip |-> status[r].ip, nic |-> r] \in lan /\ status[r].state # "DELETING"
         /\ input' = [input EXCEPT ![r] = WithoutOwn(r, lan)]
  BY <1>1, ReadEffect DEF Makes
<1>5. Steps(r) /\ (faults.writes = 0 /\ r \notin harmed => Entries(r))
  BY DEF EntryInv
<1>6. Steps(r)'
  BY <1>1, <1>2, <1>4, <1>5 DEF Steps, TypeOK
<1>7. ASSUME faults.writes = 0, r \notin harmed PROVE Entries(r)'
  <2>1. Entries(r) /\ Single(r, lan)
    BY <1>5, <1>7 DEF Entries
  <2>2. /\ pc'[r] \in {"create", "write create"} => pc[r] = "create"
        /\ status[r].state = "DELETING" => pc'[r] = "idle"
    BY <1>1, <1>2, <1>4, <1>5 DEF TypeOK, Steps
  <2>3. \/ ~named[r] \/ pc'[r] \in {"create", "write create"}
        \/ life[r] = "gone" \/ status[r].state = "DELETING"
        => Of(r, lan) = {}
    BY <2>1, <2>2 DEF Entries
  <2>4. ASSUME pc'[r] \in Writes PROVE Single(r, input'[r])
    <3>1. CASE pc[r] = "create" /\ \E list \in {lan, {}} : input' = [input EXCEPT ![r] = Created(r, list)]
      <4>1. PICK list \in {lan, {}} : input' = [input EXCEPT ![r] = Created(r, list)]
        BY <3>1
      <4>2. Of(r, list) = {} /\ list \in SUBSET Entry
        BY <1>3, <2>1, <3>1 DEF Entries, Of
      <4>3. Single(r, Created(r, list))
        BY <1>3, <4>2, CreatedFacts
      <4>. QED  BY <1>1, <4>1, <4>3 DEF TypeOK
    <3>2. CASE input' = [input EXCEPT ![r] = Updated(r, lan)]
      <4>1. Single(r, Updated(r, lan))
        BY <1>1, <1>3, <2>1, UpdatedFacts
      <4>. QED  BY <1>1, <3>2, <4>1 DEF TypeOK
    <3>3. CASE input' = [input EXCEPT ![r] = WithoutOwn(r, lan)]
      <4>1. Single(r, WithoutOwn(r, lan))
        BY <2>1 DEF Single, Of, WithoutOwn
      <4>. QED  BY <1>1, <3>3, <4>1 DEF TypeOK
    <3>4. pc' # [pc EXCEPT ![r] = "idle"]
      BY <1>1, <2>4 DEF TypeOK, Writes
    <3>. QED  BY <1>4, <3>1, <3>2, <3>3, <3>4
  <2>5. ASSUME pc'[r] = "write delete" PROVE Of(r, input'[r]) = {}
    <3>1. /\ input' = [input EXCEPT ![r] = WithoutOwn(r, lan)]
          /\ [ip |-> status[r].ip, nic |-> r] \in lan
      BY <1>1, <1>4, <2>5 DEF TypeOK
    <3>2. Of(r, WithoutOwn(r, lan)) = {}
      BY <1>1, <2>1, <3>1, WithoutOwnFacts
    <3>. QED  BY <1>1, <3>1, <3>2 DEF TypeOK
  <2>. QED  BY <1>2, <2>1, <2>3, <2>4, <2>5 DEF Entries, Single, Writes
<1>8. \A s \in Resources : s # r => pc'[s] = pc[s] /\ input'[s] = input[s]
  BY <1>1, <1>4 DEF TypeOK
<1>9. \A s \in Resources : Steps(s)' /\ (faults.writes = 0 /\ s \notin harmed => Entries(s)')
  <2>. TAKE s \in Resources
  <2>1. CASE s = r
    BY <1>6, <1>7, <2>1
  <2>2. CASE s # r
    BY <1>2, <1>8, <2>2, OthersEntries
  <2>. QED  BY <2>1, <2>2
<1>. QED  BY <1>2, <1>9 DEF EntryInv

LEMMA WriteEntries ==
  ASSUME IPInv, EntryInv, NEW r \in Resources, Patch(r) \/ Refused(r)
  PROVE  EntryInv'
<1>1. TypeOK /\ Objects
  BY DEF IPInv
<1>2. /\ pc[r] \in Writes /\ pc' = [pc EXCEPT ![r] = "idle"]
      /\ UNCHANGED <<life, lanThere, input>>
      /\ lan' = lan \/ (lanThere /\ lan' = input[r])
      /\ faults'.writes = 0 => UNCHANGED faults
      /\ \/ UNCHANGED named
         \/ pc[r] = "write create" /\ lan' = input[r] /\ named' = [named EXCEPT ![r] = TRUE]
      /\ faults'.writes = 0 /\ lan' # lan /\ pc[r] = "write create" => named'[r]
  BY <1>1, PatchEffect DEF resource
<1>3. harmed \subseteq harmed' /\ \A s \in Resources \ {r} : s \notin harmed' => Of(s, lan') = Of(s, lan)
  BY <1>1, HistoryEffect
<1>4. /\ \A s \in Resources : s # r => status'[s] = status[s]
      /\ \/ UNCHANGED status
         \/ status'[r].state = "DELETING" => pc[r] = "write delete" /\ lan' = input[r]
  <2>1. CASE UNCHANGED status
    BY <2>1
  <2>2. CASE ~UNCHANGED status
    <3>1. PICK ip \in {status[r].ip, want[r]}, st \in State \ {"AVAILABLE"} :
            /\ status' = [status EXCEPT ![r] = [ip |-> ip, state |-> st]]
            /\ st = "DELETING" => pc[r] = "write delete" /\ lan' = input[r]
      BY <1>1, <2>2, PatchEffect
    <3>2. ip \in IPs \cup {NoIP}
      BY <1>1, <3>1 DEF TypeOK
    <3>. QED  BY <1>1, <3>1, <3>2, StatusChange
  <2>. QED  BY <2>1, <2>2
<1>5. Steps(r) /\ (faults.writes = 0 /\ r \notin harmed => Entries(r))
  BY DEF EntryInv
<1>6. pc'[r] = "idle" /\ \A s \in Resources : s # r => pc'[s] = pc[s] /\ named'[s] = named[s]
  BY <1>1, <1>2 DEF TypeOK
<1>7. status[r].state # "DELETING" /\ life[r] # "gone"
  BY <1>2, <1>5 DEF Steps, Writes
<1>8. Steps(r)'
  <2>1. pc[r] = "write delete" => life[r] = "deleted"
    BY <1>1 DEF Objects
  <2>. QED  BY <1>2, <1>4, <1>6, <1>7, <2>1 DEF Steps
<1>9. ASSUME faults'.writes = 0, r \notin harmed' PROVE Entries(r)'
  <2>1. Entries(r) /\ faults.writes = 0
    BY <1>2, <1>3, <1>5, <1>9
  <2>2. Single(r, lan')
    BY <1>2, <2>1 DEF Entries
  <2>3. status'[r].state = "DELETING" => Of(r, lan') = {}
    BY <1>4, <1>7, <2>1 DEF Entries
  <2>4. ASSUME ~named'[r] PROVE Of(r, lan') = {}
    <3>1. ~named[r]
      BY <1>1, <1>2, <2>4 DEF TypeOK
    <3>2. pc[r] = "write create"
      BY <1>2, <1>5, <3>1 DEF Steps, Writes
    <3>3. lan' = lan
      BY <1>2, <1>9, <2>4, <3>2
    <3>. QED  BY <2>1, <3>1, <3>3 DEF Entries
  <2>. QED  BY <1>2, <1>6, <1>7, <2>2, <2>3, <2>4 DEF Entries, Single, Writes
<1>10. \A s \in Resources : Steps(s)' /\ (faults'.writes = 0 /\ s \notin harmed' => Entries(s)')
  <2>. TAKE s \in Resources
  <2>1. CASE s = r
    BY <1>8, <1>9, <2>1
  <2>2. CASE s # r
    <3>1. faults'.writes = 0 /\ s \notin harmed' =>
            faults.writes = 0 /\ s \notin harmed /\ Of(s, lan') = Of(s, lan)
      BY <1>2, <1>3, <2>2
    <3>2. Steps(s)'
      BY <1>2, <1>4, <1>6, <2>2 DEF EntryInv, Steps
    <3>. QED  BY <1>2, <1>4, <1>6, <2>2, <3>1, <3>2, OthersEntries
  <2>. QED  BY <2>1, <2>2
<1>11. ~lanThere' => lan' = {}
  BY <1>2 DEF EntryInv
<1>. QED  BY <1>10, <1>11 DEF EntryInv

LEMMA UserEntries ==
  ASSUME IPInv, EntryInv, NEW r \in Resources, Submit(r) \/ Edit(r) \/ Remove(r)
  PROVE  EntryInv'
<1>1. TypeOK
  BY DEF IPInv
<1>2. UNCHANGED <<named, status, lan, lanThere, pc, input, harmed>>
  BY DEF Submit, Edit, Remove, local, history
<1>3. \A s \in Resources : /\ life'[s] = "gone" <=> life[s] = "gone"
                           /\ life[s] = "deleted" => life'[s] = "deleted"
  <2>1. /\ life[r] \in {"new", "wanted"}
        /\ \/ UNCHANGED life \/ life' = [life EXCEPT ![r] = "wanted"]
           \/ life' = [life EXCEPT ![r] = "deleted"]
    BY DEF Submit, Edit, Remove
  <2>. QED  BY <1>1, <2>1 DEF TypeOK
<1>4. faults'.writes = faults.writes
  BY <1>1 DEF Submit, Edit, Remove, TypeOK
<1>5. ASSUME NEW s \in Resources PROVE Steps(s)' /\ (Entries(s) => Entries(s)')
  BY <1>2, <1>3 DEF EntryInv, Steps, Entries, Single
<1>. QED
  BY <1>2, <1>4, <1>5 DEF EntryInv

LEMMA EntryInvariant == Spec => []EntryInv
<1>1. Init => EntryInv
  <2>. SUFFICES ASSUME Init PROVE EntryInv
    OBVIOUS
  <2>1. \A r \in Resources : Of(r, lan) = {} /\ Single(r, lan)
    BY DEF Init, Of, Single
  <2>2. \A r \in Resources : Steps(r) /\ Entries(r)
    BY <2>1 DEF Init, Steps, Entries, Writes
  <2>. QED  BY <2>2 DEF EntryInv, Init
<1>2. IPInv /\ EntryInv /\ [Next]_vars => EntryInv'
  <2>. SUFFICES ASSUME IPInv, EntryInv, [Next]_vars PROVE EntryInv'
    OBVIOUS
  <2>1. CASE LanGoes
    <3>1. /\ lan' = {} /\ UNCHANGED <<life, named, status, pc, input, faults, harmed>>
      BY <2>1 DEF LanGoes, resource, local, history
    <3>2. \A r \in Resources : Of(r, lan') = {}
      BY <3>1 DEF Of
    <3>3. ASSUME NEW r \in Resources PROVE Steps(r)' /\ (Entries(r) => Entries(r)')
      BY <3>1, <3>2 DEF EntryInv, Steps, Entries, Single
    <3>. QED  BY <3>1, <3>3 DEF EntryInv
  <2>2. CASE UNCHANGED vars
    BY <2>2 DEF vars, resource, local, history, EntryInv, Steps, Entries, Single
  <2>. QED
    BY <2>1, <2>2, ObserveEntries, ReadEntries, WriteEntries, UserEntries DEF Next, Reconcile
<1>. QED
  BY <1>1, <1>2, Invariant, PTL DEF Spec

\* Until a write is carried out and answered with an error, no resource ever has two
\* entries, however many of them reconcile at a time and whatever the number of edits,
\* failed reads, lost statuses and deletions of the LAN, unless another one's write
\* has brought an old one back (ipfailover.go:234).
THEOREM OneEntry == Spec => []OneEntryEach
<1>1. EntryInv => OneEntryEach
  BY DEF EntryInv, Entries, OneEntryEach
<1>. QED
  BY <1>1, EntryInvariant, PTL

\* Under the same conditions a resource whose finalizer is removed has no entry left
\* (ipfailover.go:256-290).
THEOREM Orphanless == Spec => []NoOrphans
<1>1. EntryInv => NoOrphans
  BY DEF EntryInv, Entries, NoOrphans
<1>. QED
  BY <1>1, EntryInvariant, PTL
=============================================================================
