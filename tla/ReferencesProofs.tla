-------------------------- MODULE ReferencesProofs --------------------------
(* Resources that refer to each other are placed and taken away in the right *)
(* order, for any kinds to start from and any number of lost objects.        *)
EXTENDS References, TLAPS

-----------------------------------------------------------------------------
(* The path to an object leads through objects that its resource refers to,  *)
(* and the path to each of these through no others.                          *)
LEMMA PathRefs ==
  ASSUME NEW k \in DOMAIN Kinds
  PROVE  Path[k] \subseteq RefsOf(k)
BY DEF Path, RefsOf, Refs, CubeServerRefs, FirewallRuleRefs, GroupRefs, IPFailoverRefs, LanRefs, NicRefs,
  ServerRefs, ServerSetRefs, StatefulServerSetRefs, VolumeRefs, FlowLogRefs, NlbForwardingRuleRefs,
  NetworkLoadBalancerRefs, ApplicationLoadBalancerRefs, AlbForwardingRuleRefs, ClusterRefs,
  NodePoolRefs, PostgresClusterRefs, PostgresUserRefs, PostgresDatabaseRefs, MongoClusterRefs, MongoUserRefs

LEMMA PathNested ==
  ASSUME NEW k \in DOMAIN Kinds, NEW t \in Path[k], t \in DOMAIN Kinds
  PROVE  Path[t] \subseteq Path[k]
BY DEF Path

LEMMA MembersClosed ==
  ASSUME root \in Chosen
  PROVE  /\ Members \subseteq DOMAIN Kinds
         /\ \A m \in Members : Path[m] \subseteq Members
<1>1. Members \subseteq DOMAIN Kinds
  BY ChosenAssumption DEF Members
<1>2. Members = {root} \cup RefsOf(root) \cup UNION {Path[t] : t \in RefsOf(root)}
  BY DEF Members, Needed
<1>3. ASSUME NEW m \in Members PROVE Path[m] \subseteq Members
  <2>1. CASE m = root
    BY <2>1, <1>1, <1>2, PathRefs
  <2>2. CASE m \in RefsOf(root)
    BY <2>2, <1>2
  <2>3. CASE \E t \in RefsOf(root) : m \in Path[t]
    <3>1. PICK t \in RefsOf(root) : m \in Path[t]
      BY <2>3
    <3>2. Path[m] \subseteq Path[t]
      BY <3>1, <1>1, <1>2, PathNested
    <3>. QED
      BY <3>2, <1>2
  <2>. QED
    BY <2>1, <2>2, <2>3, <1>2
<1>. QED
  BY <1>1, <1>3

LEMMA UsesFacts ==
  ASSUME root \in Chosen
  PROVE  /\ \A m \in Members : /\ Uses(m) \subseteq Members /\ Path[m] \subseteq Uses(m)
                               /\ \A t \in Uses(m) : <<m, t>> \in Pairs
         /\ \A p \in Pairs : p = <<p[1], p[2]>> /\ p[1] \in Members /\ p[2] \in Uses(p[1])
<1>1. \A m \in Members : Uses(m) = RefsOf(m) \cap Members
  BY DEF Uses, UsesOf, Members
<1>2. Pairs = {p \in Members \X Members : p[2] \in Uses(p[1])}
  BY DEF Pairs, PairsOf, Uses, Members
<1>3. \A m \in Members : Path[m] \subseteq Uses(m)
  BY <1>1, MembersClosed, PathRefs
<1>. QED
  BY <1>1, <1>2, <1>3

-----------------------------------------------------------------------------
(* The invariant.  A resource knows the last object made for it; what it     *)
(* knows of others are objects there have been.  An object is made a second  *)
(* time only after somebody else has removed one: not after its own deletion, *)
(* nor after an object on its path went, whose ID is kept for ever.          *)
Known(m) ==
  /\ cr[m].name = cloud[m].id
  /\ cloud[m].exists => cloud[m].id # 0
  /\ \A t \in Uses(m) : resolved[<<m, t>>] \in 0 .. cloud[t].id

Working(m) ==
  cr[m].pc = "create" => Resolved(m) /\ ~cloud[m].exists /\ cr[m].life # "gone"

OffPath(m) == \E t \in Path[m] : resolved[<<m, t>>] # 0 /\ ~There(m, t)
Retired(m) == cr[m].life # "wanted" /\ cr[m].pc = "idle"
Spent(m) ==
  \/ cloud[m].id <= losses
  \/ /\ cloud[m].id <= 1 + losses
     /\ cloud[m].exists \/ OffPath(m) \/ Retired(m)

RInv ==
  /\ TypeOK /\ Based /\ NothingLeft
  /\ \A m \in Members : Known(m) /\ Working(m) /\ Spent(m)

LEMMA InitInv == Init => RInv
<1>. SUFFICES ASSUME Init PROVE RInv
  OBVIOUS
<1>1. root \in Chosen
  BY DEF Init
<1>. USE <1>1, UsesFacts, LossesAssumption
<1>2. TypeOK
  BY DEF Init, TypeOK, Id
<1>3. \A m \in Members : \A t \in Uses(m) : resolved[<<m, t>>] = 0
  BY DEF Init
<1>. QED
  BY <1>2, <1>3 DEF Init, RInv, Based, NothingLeft, Known, Working, Spent

LEMMA ResolveKeeps ==
  ASSUME RInv, NEW m \in Members, Resolve(m)
  PROVE  RInv'
<1>1. root \in Chosen /\ root' = root /\ Members' = Members /\ Pairs' = Pairs
  BY DEF RInv, TypeOK, Resolve, Members, Pairs
<1>2. \A x \in Members : Uses(x)' = Uses(x)
  BY <1>1 DEF Uses
<1>. USE <1>1, <1>2, UsesFacts, LossesAssumption
<1>3. \A x \in Members : \A t \in Uses(x) :
        resolved'[<<x, t>>] = IF x = m THEN Value(m, t) ELSE resolved[<<x, t>>]
  BY DEF Resolve
<1>4. \A t \in Uses(m) : Value(m, t) \in Id /\ Value(m, t) \in 1 .. cloud[t].id
                         /\ (resolved[<<m, t>>] # 0 => Value(m, t) = resolved[<<m, t>>])
  <2>. SUFFICES ASSUME NEW t \in Uses(m)
                PROVE  Value(m, t) \in Id /\ Value(m, t) \in 1 .. cloud[t].id
                       /\ (resolved[<<m, t>>] # 0 => Value(m, t) = resolved[<<m, t>>])
    OBVIOUS
  <2>1. t \in Members /\ <<m, t>> \in Pairs /\ resolved[<<m, t>>] \in Id /\ cr[t].name \in Id /\ cloud[t].id \in Id
    BY DEF RInv, TypeOK
  <2>2. Value(m, t) # 0 /\ resolved[<<m, t>>] \in 0 .. cloud[t].id /\ cr[t].name = cloud[t].id
    BY <2>1 DEF RInv, Known, Resolve
  <2>. QED
    BY <2>1, <2>2 DEF Value, Extract, Id
<1>5. TypeOK'
  BY <1>3, <1>4 DEF RInv, TypeOK, Resolve
<1>6. Based' /\ NothingLeft'
  BY <1>3, <1>4 DEF RInv, Based, NothingLeft, Resolve
<1>7. ASSUME NEW x \in Members PROVE (Known(x) /\ Working(x) /\ Spent(x))'
  <2>1. /\ Known(x) /\ Working(x) /\ Spent(x) /\ cloud' = cloud /\ cr' = cr /\ losses' = losses
        /\ \A t \in Uses(x) : cloud[t].id \in Nat
    BY DEF RInv, Resolve, TypeOK, Id
  <2>2. Known(x)'
    BY <2>1, <1>3, <1>4 DEF Known
  <2>3. Working(x)'
    BY <2>1, <1>3, <1>4 DEF Working, Resolved
  <2>4. OffPath(x) => OffPath(x)'
    BY <2>1, <1>3, <1>4 DEF OffPath, There, Exists
  <2>. QED
    BY <2>1, <2>2, <2>3, <2>4 DEF Spent, Retired
<1>. QED
  BY <1>5, <1>6, <1>7 DEF RInv

\* Steps that change one resource and nothing else: Missing, CreateFails, Remove.
LEMMA ResourceKeeps ==
  ASSUME RInv, NEW m \in Members, UNCHANGED <<root, resolved, cloud, namesake, losses>>,
         NEW c \in [life : {"wanted", "deleted", "gone"}, name : Id, pc : {"idle", "create"}],
         cr' = [cr EXCEPT ![m] = c], c.name = cr[m].name,
         c.life = "gone" => ~cloud[m].exists,
         c.pc = "create" => Resolved(m) /\ ~cloud[m].exists /\ c.life # "gone",
         Retired(m) => c.life # "wanted" /\ c.pc = "idle"
  PROVE  RInv'
<1>1. root \in Chosen /\ root' = root /\ Members' = Members /\ Pairs' = Pairs
  BY DEF RInv, TypeOK, Members, Pairs
<1>2. \A x \in Members : Uses(x)' = Uses(x)
  BY <1>1 DEF Uses
<1>3. /\ cr \in [Members -> [life : {"wanted", "deleted", "gone"}, name : Id, pc : {"idle", "create"}]]
      /\ cr' \in [Members -> [life : {"wanted", "deleted", "gone"}, name : Id, pc : {"idle", "create"}]]
      /\ \A x \in Members : cr'[x] = IF x = m THEN c ELSE cr[x]
  BY <1>1 DEF RInv, TypeOK
<1>. USE <1>1, <1>2
<1>4. TypeOK' /\ Based' /\ NothingLeft'
  BY <1>3 DEF RInv, TypeOK, Based, NothingLeft
<1>5. ASSUME NEW x \in Members PROVE (Known(x) /\ Working(x) /\ Spent(x))'
  <2>1. Known(x) /\ Working(x) /\ Spent(x)
    BY DEF RInv
  <2>2. Known(x)' /\ Working(x)'
    BY <1>3, <2>1 DEF Known, Working, Resolved
  <2>3. OffPath(x)' = OffPath(x) /\ (Retired(x) => Retired(x)')
    BY <1>3 DEF OffPath, There, Exists, Retired
  <2>. QED
    BY <2>1, <2>2, <2>3 DEF Spent
<1>. QED
  BY <1>4, <1>5 DEF RInv

LEMMA MissingKeeps ==
  ASSUME RInv, NEW m \in Members, Missing(m)
  PROVE  RInv'
<1>1. /\ cr \in [Members -> [life : {"wanted", "deleted", "gone"}, name : Id, pc : {"idle", "create"}]]
      /\ cr[m].name = cloud[m].id
  BY DEF RInv, TypeOK, Known
<1>2. ~cloud[m].exists
  BY <1>1 DEF Missing, Found, Exists
<1>3. CASE cr[m].life = "deleted"
  <2>. DEFINE c == [cr[m] EXCEPT !.life = "gone"]
  <2>1. cr' = [cr EXCEPT ![m] = c]
    BY <1>3, <1>1 DEF Missing
  <2>2. cr[m].pc = "idle"
    BY DEF Missing, MayObserve
  <2>3. c.pc = "idle" /\ c.life = "gone" /\ c.name = cr[m].name
        /\ c \in [life : {"wanted", "deleted", "gone"}, name : Id, pc : {"idle", "create"}]
    BY <2>2, <1>1
  <2>. HIDE DEF c
  <2>. QED
    BY <2>1, <2>3, <1>1, <1>2, ResourceKeeps DEF Missing
<1>4. CASE cr[m].life # "deleted"
  <2>. DEFINE c == [cr[m] EXCEPT !.pc = IF Refuses(m) THEN "idle" ELSE "create"]
  <2>1. cr' = [cr EXCEPT ![m] = c]
    BY <1>4, <1>1 DEF Missing
  <2>2. cr[m].life = "wanted" /\ Resolved(m)
    BY <1>4, <1>1 DEF Missing, MayObserve
  <2>. QED
    BY <2>1, <2>2, <1>1, <1>2, ResourceKeeps DEF Missing, Retired
<1>. QED
  BY <1>3, <1>4

LEMMA CreateFailsKeeps ==
  ASSUME RInv, NEW m \in Members, CreateFails(m)
  PROVE  RInv'
<1>. DEFINE c == [cr[m] EXCEPT !.pc = "idle"]
<1>1. /\ cr \in [Members -> [life : {"wanted", "deleted", "gone"}, name : Id, pc : {"idle", "create"}]]
      /\ cr' = [cr EXCEPT ![m] = c] /\ Working(m)
  BY DEF RInv, TypeOK, CreateFails
<1>. QED
  BY <1>1, ResourceKeeps DEF CreateFails, Retired, Working

LEMMA RemoveKeeps ==
  ASSUME RInv, NEW m \in Members, Remove(m)
  PROVE  RInv'
<1>. DEFINE c == [cr[m] EXCEPT !.life = "deleted"]
<1>1. /\ cr \in [Members -> [life : {"wanted", "deleted", "gone"}, name : Id, pc : {"idle", "create"}]]
      /\ cr' = [cr EXCEPT ![m] = c] /\ Working(m)
  BY DEF RInv, TypeOK, Remove
<1>. QED
  BY <1>1, ResourceKeeps DEF Remove, Retired, Working

LEMMA CreateKeeps ==
  ASSUME RInv, NEW m \in Members, Create(m)
  PROVE  RInv'
<1>1. root \in Chosen /\ root' = root /\ Members' = Members /\ Pairs' = Pairs
  BY DEF RInv, TypeOK, Create, Members, Pairs
<1>2. \A x \in Members : Uses(x)' = Uses(x)
  BY <1>1 DEF Uses
<1>. USE <1>1, <1>2, LossesAssumption
<1>3. /\ cr \in [Members -> [life : {"wanted", "deleted", "gone"}, name : Id, pc : {"idle", "create"}]]
      /\ cloud \in [Members -> [exists : BOOLEAN, id : Id, up : BOOLEAN]]
      /\ losses \in 0 .. MaxLosses /\ losses' = losses /\ resolved' = resolved
      /\ \A x \in Members : cloud[x].id \in Nat
  BY DEF RInv, TypeOK, Create, Id
<1>4. /\ cloud' = [cloud EXCEPT ![m] = [exists |-> TRUE, id |-> cloud[m].id + 1, up |-> m \notin Deploys]]
      /\ cr' = [cr EXCEPT ![m].name = cloud[m].id + 1, ![m].pc = "idle"]
  BY DEF Create
<1>5. /\ \A x \in Members : x # m => cloud'[x] = cloud[x] /\ cr'[x] = cr[x]
      /\ cloud'[m].exists /\ cloud'[m].id = cloud[m].id + 1
      /\ cr'[m].name = cloud[m].id + 1 /\ cr'[m].pc = "idle" /\ cr'[m].life = cr[m].life
  BY <1>3, <1>4
<1>6. cloud[m].id <= losses
  <2>1. Spent(m) /\ Working(m) /\ cr[m].pc = "create"
    BY DEF RInv, Create
  <2>2. ~OffPath(m)
    BY DEF OffPath, Create, MayCreate, Container
  <2>. QED
    BY <2>1, <2>2 DEF Spent, Working, Retired
<1>7. TypeOK'
  <2>1. cloud[m].id + 1 \in Id
    BY <1>3, <1>6 DEF Id
  <2>2. cr' \in [Members -> [life : {"wanted", "deleted", "gone"}, name : Id, pc : {"idle", "create"}]]
    BY <2>1, <1>3, <1>4
  <2>3. cloud' \in [Members -> [exists : BOOLEAN, id : Id, up : BOOLEAN]]
    BY <2>1, <1>3, <1>4
  <2>. QED
    BY <2>2, <2>3 DEF RInv, TypeOK, Create
<1>8. Based'
  <2>. SUFFICES ASSUME NEW x \in Members, cloud'[x].id # 0, NEW t \in Uses(x)
                PROVE  resolved[<<x, t>>] \in 1 .. cloud'[t].id
    BY <1>3 DEF Based
  <2>1. t \in Members /\ <<x, t>> \in Pairs /\ cloud[t].id \in Nat /\ cloud'[t].id >= cloud[t].id /\ cloud'[t].id \in Nat
    BY UsesFacts, <1>3, <1>5
  <2>2. resolved[<<x, t>>] \in 0 .. cloud[t].id
    BY DEF RInv, Known
  <2>3. resolved[<<x, t>>] # 0
    <3>1. CASE x = m
      BY <3>1 DEF RInv, Working, Create, Resolved
    <3>2. CASE x # m
      BY <3>2, <1>5 DEF RInv, Based
    <3>. QED
      BY <3>1, <3>2
  <2>. QED
    BY <2>1, <2>2, <2>3
<1>9. NothingLeft'
  BY <1>5 DEF RInv, NothingLeft, Working, Create
<1>10. ASSUME NEW x \in Members PROVE (Known(x) /\ Working(x) /\ Spent(x))'
  <2>1. Known(x) /\ Working(x) /\ Spent(x)
    BY DEF RInv
  <2>2. ASSUME NEW t \in Uses(x)
        PROVE  /\ t \in Members /\ cloud[t].id \in Nat /\ cloud'[t].id \in Nat
               /\ resolved[<<x, t>>] \in 0 .. cloud[t].id
               /\ cloud'[t] = cloud[t] \/ cloud'[t].id = cloud[t].id + 1
    BY <2>1, UsesFacts, <1>3, <1>5 DEF Known
  <2>3. Known(x)'
    <3>1. \A t \in Uses(x) : resolved[<<x, t>>] \in 0 .. cloud'[t].id
      BY <2>2
    <3>2. cr'[x].name = cloud'[x].id /\ (cloud'[x].exists => cloud'[x].id # 0)
      BY <2>1, <1>3, <1>5 DEF Known
    <3>. QED
      BY <3>1, <3>2, <1>3 DEF Known
  <2>4. Working(x)'
    BY <2>1, <1>3, <1>5 DEF Working, Resolved
  <2>5. OffPath(x) => OffPath(x)'
    <3>. SUFFICES ASSUME NEW t \in Path[x], resolved[<<x, t>>] # 0, ~There(x, t)
                  PROVE  ~There(x, t)'
      BY <1>3 DEF OffPath
    <3>1. t \in Uses(x)
      BY UsesFacts
    <3>2. cloud'[t] = cloud[t] \/ cloud'[t].id # resolved[<<x, t>>]
      BY <3>1, <2>2
    <3>. QED
      BY <3>2, <1>3 DEF There, Exists
  <2>6. Spent(x)'
    <3>1. CASE x = m
      BY <3>1, <1>3, <1>5, <1>6 DEF Spent
    <3>2. CASE x # m
      BY <3>2, <2>1, <2>5, <1>3, <1>5 DEF Spent, Retired
    <3>. QED
      BY <3>1, <3>2
  <2>. QED
    BY <2>3, <2>4, <2>6
<1>. QED
  BY <1>7, <1>8, <1>9, <1>10 DEF RInv

LEMMA BecomesActiveKeeps ==
  ASSUME RInv, NEW m \in Members, BecomesActive(m)
  PROVE  RInv'
<1>1. root \in Chosen /\ root' = root /\ Members' = Members /\ Pairs' = Pairs
  BY DEF RInv, TypeOK, BecomesActive, Members, Pairs
<1>2. \A x \in Members : Uses(x)' = Uses(x) /\ Uses(x) \subseteq Members /\ Path[x] \subseteq Uses(x)
  BY <1>1, UsesFacts DEF Uses
<1>. USE <1>1, <1>2
<1>3. /\ cr' = cr /\ losses' = losses /\ resolved' = resolved
      /\ \A x \in Members : cloud'[x].exists = cloud[x].exists /\ cloud'[x].id = cloud[x].id
  BY DEF RInv, TypeOK, BecomesActive
<1>4. TypeOK'
  BY DEF RInv, TypeOK, BecomesActive
<1>5. Based' /\ NothingLeft'
  BY <1>3 DEF RInv, Based, NothingLeft
<1>6. ASSUME NEW x \in Members PROVE (Known(x) /\ Working(x) /\ Spent(x))'
  <2>1. Known(x) /\ Working(x) /\ Spent(x)
    BY DEF RInv
  <2>2. Known(x)' /\ Working(x)'
    BY <1>3, <2>1 DEF Known, Working, Resolved
  <2>3. OffPath(x)' = OffPath(x) /\ Retired(x)' = Retired(x)
    BY <1>3 DEF OffPath, There, Exists, Retired
  <2>. QED
    BY <1>3, <2>1, <2>2, <2>3 DEF Spent
<1>. QED
  BY <1>4, <1>5, <1>6 DEF RInv

\* An object goes with those in it: Delete, Lose.
LEMMA WithoutKeeps ==
  ASSUME RInv, NEW m \in Members, UNCHANGED <<root, cr, resolved, namesake>>, cloud' = Without(m),
         (losses' = losses /\ Retired(m)) \/ (losses' = losses + 1 /\ losses < MaxLosses)
  PROVE  RInv'
<1>1. root \in Chosen /\ root' = root /\ Members' = Members /\ Pairs' = Pairs
  BY DEF RInv, TypeOK, Members, Pairs
<1>2. \A x \in Members : Uses(x)' = Uses(x) /\ Uses(x) \subseteq Members /\ Path[x] \subseteq Uses(x)
  BY <1>1, UsesFacts DEF Uses
<1>. USE <1>1, <1>2, LossesAssumption
<1>3. /\ losses \in Nat /\ losses' \in 0 .. MaxLosses /\ losses' >= losses
      /\ \A x \in Members : cloud[x].id \in Nat
      /\ cloud \in [Members -> [exists : BOOLEAN, id : Id, up : BOOLEAN]]
  BY DEF RInv, TypeOK, Id
<1>4. \A x \in Members :
        /\ cloud'[x].id = cloud[x].id
        /\ cloud'[x].exists => cloud[x].exists
        /\ cloud[x].exists => cloud'[x].exists \/ x = m \/ m \in Path[x]
        /\ cloud'[x] \in [exists : BOOLEAN, id : Id, up : BOOLEAN]
  BY <1>3 DEF Without
<1>5. ~cloud'[m].exists
  BY <1>3 DEF Without
<1>6. TypeOK'
  <2>1. cloud' \in [Members -> [exists : BOOLEAN, id : Id, up : BOOLEAN]]
    BY <1>3 DEF Without
  <2>. QED
    BY <2>1, <1>3 DEF RInv, TypeOK
<1>7. Based' /\ NothingLeft'
  BY <1>4 DEF RInv, Based, NothingLeft
<1>8. ASSUME NEW x \in Members PROVE (Known(x) /\ Working(x) /\ Spent(x))'
  <2>1. Known(x) /\ Working(x) /\ Spent(x)
    BY DEF RInv
  <2>2. Known(x)'
    BY <1>4, <2>1 DEF Known
  <2>3. Working(x)'
    BY <1>4, <2>1 DEF Working, Resolved
  <2>4. OffPath(x) => OffPath(x)'
    BY <1>4 DEF OffPath, There, Exists
  <2>5. Retired(x)' = Retired(x)
    BY DEF Retired
  <2>6. CASE losses' = losses + 1
    BY <2>6, <2>1, <1>3, <1>4, <2>2, <2>3 DEF Spent
  <2>7. CASE losses' = losses /\ Retired(m)
    <3>1. cloud[x].exists => cloud'[x].exists \/ OffPath(x)' \/ Retired(x)'
      <4>1. CASE m \in Path[x] /\ cloud[x].exists
        <5>1. resolved[<<x, m>>] \in 1 .. cloud[m].id
          BY <4>1, <2>1 DEF RInv, Based, Known
        <5>2. resolved'[<<x, m>>] # 0 /\ ~There(x, m)'
          BY <5>1, <1>5, <1>3 DEF There, Exists
        <5>. QED
          BY <5>2, <4>1 DEF OffPath
      <4>. QED
        BY <4>1, <1>4, <2>7, <2>5
    <3>. QED
      BY <3>1, <2>1, <2>2, <2>3, <2>4, <2>5, <2>7, <1>3, <1>4 DEF Spent
  <2>. QED
    BY <2>6, <2>7
<1>. QED
  BY <1>6, <1>7, <1>8 DEF RInv

LEMMA StutterKeeps ==
  ASSUME RInv, UNCHANGED vars
  PROVE  RInv'
<1>1. Members' = Members /\ Pairs' = Pairs
  BY DEF vars, Members, Pairs
<1>2. \A x \in Members : Uses(x)' = Uses(x)
  BY <1>1 DEF Uses, vars
<1>3. (TypeOK /\ Based /\ NothingLeft)'
  BY <1>1, <1>2 DEF RInv, TypeOK, Based, NothingLeft, vars
<1>4. ASSUME NEW x \in Members PROVE (Known(x) /\ Working(x) /\ Spent(x))'
  <2>1. Known(x) /\ Working(x) /\ Spent(x)
    BY DEF RInv
  <2>2. Known(x)' /\ Working(x)'
    BY <1>2, <2>1 DEF Known, Working, Resolved, vars
  <2>3. OffPath(x)' = OffPath(x) /\ Retired(x)' = Retired(x)
    BY DEF OffPath, There, Exists, Retired, vars
  <2>. QED
    BY <2>1, <2>2, <2>3 DEF Spent, vars
<1>. QED
  BY <1>1, <1>3, <1>4 DEF RInv

LEMMA Inductive == Spec => []RInv
<1>1. Init => RInv
  BY InitInv
<1>2. RInv /\ [Next]_vars => RInv'
  <2>. SUFFICES ASSUME RInv, [Next]_vars PROVE RInv'
    OBVIOUS
  <2>1. CASE UNCHANGED vars
    BY <2>1, StutterKeeps
  <2>2. ASSUME NEW m \in Members, Delete(m) PROVE RInv'
    <3>1. Retired(m)
      BY <2>2 DEF Delete, MayObserve, Retired
    <3>2. cloud' = Without(m) /\ UNCHANGED <<root, cr, resolved, namesake>> /\ losses' = losses
      BY <2>2 DEF Delete
    <3>. QED
      BY <3>1, <3>2, WithoutKeeps
  <2>3. ASSUME NEW m \in Members, Lose(m) PROVE RInv'
    BY <2>3, WithoutKeeps DEF Lose
  <2>. QED
    BY <2>1, <2>2, <2>3, ResolveKeeps, MissingKeeps, CreateKeeps, CreateFailsKeeps, BecomesActiveKeeps,
       RemoveKeeps DEF Next, Reconcile
<1>. QED
  BY <1>1, <1>2, PTL DEF Spec

-----------------------------------------------------------------------------
\* Every resource, reference and object is of its type; above all, no object is made more
\* often than somebody else removed one, plus once (Id).
THEOREM Types == Spec => []TypeOK
<1>1. RInv => TypeOK
  BY DEF RInv
<1>. QED
  BY <1>1, Inductive, PTL

\* For any kinds and any losses: no Create sends a reference that ResolveReferences has not
\* filled in with an ID that the API once gave to an object of that kind.
THEOREM OnlyResolvedIsSent == Spec => []Based
<1>1. RInv => Based
  BY DEF RInv
<1>. QED
  BY <1>1, Inductive, PTL

\* For any kinds and any losses: when the finalizer of a resource is removed, its object is
\* gone from the cloud.
THEOREM NoObjectIsLeft == Spec => []NothingLeft
<1>1. RInv => NothingLeft
  BY DEF RInv
<1>. QED
  BY <1>1, Inductive, PTL
=============================================================================
