------------------------ MODULE SubstitutionProofs ------------------------
(* A replica's addresses follow from its index, whatever fails, is lost or  *)
(* replaced: so no two replicas are given the same address, the ConfigMap   *)
(* agrees with the volumes, no address runs out before the prefix does, and *)
(* what a replica was given it keeps (AddressBook). For any number of sets, *)
(* replicas, versions, substitutions and failures: without a restart, and   *)
(* with any number of restarts that are orderly. Finding "restart" is what  *)
(* a restart does that is not.                                              *)
EXTENDS Substitution, FiniteSetTheorems, TLAPS, WellFoundedInduction

NoRestart == MaxRestarts = 0
\* The provider is restarted when no set is created for the first time, a set is not
\* deleted after a restart, servers are not lost and the ConfigMap can be reached.
Calm == Orderly /\ ~LoseServers /\ MaxMapErrors = 0

-----------------------------------------------------------------------------
(* The operators of package substitution.                                   *)

\* A set of natural numbers has a smallest element.
LEMMA MinExists ==
  ASSUME NEW S, S \subseteq Nat, S # {}
  PROVE  Min(S) \in S
<1>1. \E x \in S : \A y \in S : ~ (<<y, x>> \in OpToRel(<, Nat))
  BY WFMin, NatLessThanWellFounded
<1>2. PICK x \in S : \A y \in S : ~ (<<y, x>> \in OpToRel(<, Nat))
  BY <1>1
<1>3. \A y \in S : <<y, x>> \in OpToRel(<, Nat) <=> y < x
  BY DEF OpToRel
<1>4. \A y \in S : ~ (y < x) /\ y \in Nat /\ x \in Nat
  BY <1>2, <1>3
<1>5. \A y \in S : x <= y
  BY <1>4
<1>. QED
  BY <1>5 DEF Min

\* The smallest element is the one that is not above another.
LEMMA MinIs ==
  ASSUME NEW S, S \subseteq Nat, NEW x \in S, \A y \in S : x <= y
  PROVE  Min(S) = x
<1>1. \A z \in S : (\A y \in S : z <= y) => z = x
  BY DEF Min
<1>. QED
  BY <1>1 DEF Min

LEMMA Constants ==
  /\ MaxReplicas \in Nat \ {0} /\ MaxVersion \in Nat /\ 0 \in Ver
  /\ Len(Substs) \in Nat
  /\ \A n \in Positions : /\ Substs[n].key \in Keys
                          /\ Substs[n].size \in Nat \ {0}
                          /\ Substs[n].type \in {"ipv4Address", "ipv6Address"}
                          /\ Substs[n].unique \in BOOLEAN
  /\ \A k \in Keys : \E n \in Positions : Substs[n].key = k
  /\ \A m, n \in Positions : Substs[m].key = Substs[n].key => m = n
<1>1. \A n \in Positions : Substs[n] \in SubstitutionType
  BY SubstsAssumption DEF Positions
<1>2. MaxReplicas \in Nat \ {0} /\ MaxVersion \in Nat /\ 0 \in Ver
  BY ReplicasAssumption, BoundsAssumption DEF Ver
<1>3. \A m, n \in Positions : Substs[m].key = Substs[n].key => m = n
  BY SubstsAssumption DEF Positions
<1>. QED
  BY <1>1, <1>2, <1>3, SubstsAssumption DEF Keys, SubstitutionType

\* What a key is found to be is one of the state's values.
LEMMA FoundIsThere ==
  ASSUME NEW state \in Seq(State), NEW k, Has(state, k)
  PROVE  Found(state, k) \in Value
<1>. DEFINE n == CHOOSE m \in 1..Len(state) : state[m].key = k
<1>1. n \in 1..Len(state)
  BY DEF Has
<1>2. state[n] \in State
  BY <1>1
<1>. QED
  BY <1>2 DEF Found, State

\* Set gives a key its value and leaves the other keys alone.
Remembers(after, state, k, a) ==
  /\ Has(after, k) /\ Found(after, k) = a
  /\ \A l \in Keys : l # k => (Has(after, l) <=> Has(state, l))
  /\ \A l \in Keys : l # k /\ Has(state, l) => Found(after, l) = Found(state, l)

LEMMA AppendFacts ==
  ASSUME NEW state \in Seq(State), NEW k \in Keys, NEW a \in Value, ~Has(state, k)
  PROVE  \E after \in Seq(State) : /\ after = Append(state, [key |-> k, value |-> a])
                                   /\ Remembers(after, state, k, a)
<1>. DEFINE after == Append(state, [key |-> k, value |-> a])
<1>a. [key |-> k, value |-> a] \in State
  BY DEF State
<1>0. after \in Seq(State)
  BY <1>a
<1>1. /\ Len(after) = Len(state) + 1
      /\ \A n \in 1..Len(state) : after[n] = state[n]
      /\ after[Len(state) + 1] = [key |-> k, value |-> a]
      /\ Len(state) \in Nat
  BY <1>a
<1>2. \A n \in 1..Len(after) : after[n].key = k <=> n = Len(state) + 1
  BY <1>1 DEF Has
<1>3. Has(after, k) /\ Found(after, k) = a
  BY <1>1, <1>2 DEF Has, Found
<1>4. ASSUME NEW l \in Keys, l # k
      PROVE  (Has(after, l) <=> Has(state, l)) /\ (Has(state, l) => Found(after, l) = Found(state, l))
  <2>1. \A n : n \in 1..Len(after) /\ after[n].key = l <=> n \in 1..Len(state) /\ state[n].key = l
    BY <1>1, <1>2, <1>4
  <2>2. Has(after, l) <=> Has(state, l)
    BY <2>1 DEF Has
  <2>3. (CHOOSE n \in 1..Len(after) : after[n].key = l) = (CHOOSE n \in 1..Len(state) : state[n].key = l)
    BY <2>1
  <2>. QED
    BY <1>1, <2>2, <2>3 DEF Has, Found
<1>5. Remembers(after, state, k, a)
  BY <1>3, <1>4, Zenon DEF Remembers
<1>. QED
  BY <1>0, <1>5, Zenon

\* The keys of a state are those of the first substitutions, in their order: the
\* position at which getVolumeConfigMap looks is the key's.
InOrder(state) ==
  Len(state) <= Len(Substs) /\ \A n \in 1..Len(state) : state[n].key = Substs[n].key

\* Where the keys are in order, a key is found at its position.
LEMMA FoundAt ==
  ASSUME NEW state \in Seq(State), InOrder(state)
  PROVE  /\ \A n \in 1..Len(state) : n \in Positions /\ Has(state, Substs[n].key)
                                     /\ Found(state, Substs[n].key) = state[n].value
         /\ \A n \in Positions : Has(state, Substs[n].key) => n <= Len(state)
<1>1. Len(state) \in Nat /\ Len(Substs) \in Nat /\ 1..Len(state) \subseteq Positions
  BY Constants DEF Positions, InOrder
<1>2. \A m \in 1..Len(state), n \in Positions : state[m].key = Substs[n].key => m = n
  BY <1>1, Constants DEF InOrder
<1>3. ASSUME NEW n \in 1..Len(state)
      PROVE  Has(state, Substs[n].key) /\ Found(state, Substs[n].key) = state[n].value
  <2>1. \A m \in 1..Len(state) : state[m].key = Substs[n].key <=> m = n
    BY <1>1, <1>2 DEF InOrder
  <2>. QED
    BY <2>1 DEF Has, Found
<1>4. \A n \in Positions : Has(state, Substs[n].key) => n <= Len(state)
  BY <1>1, <1>2 DEF Has
<1>. QED
  BY <1>1, <1>3, <1>4

-----------------------------------------------------------------------------
(* The addresses of a replica.                                              *)

SubstOf(k) == Substs[CHOOSE n \in Positions : Substs[n].key = k]

\* Unique addresses are given in the order of the indexes, without a gap.
Rank(k, i) == IF SubstOf(k).unique THEN i ELSE 0

\* The address of replica i, and nil for the one past the end of an IPv6 prefix.
Address(k, i) ==
  IF SubstOf(k).type = "ipv4Address" THEN Rank(k, i) + 1
  ELSE IF Rank(k, i) < SubstOf(k).size THEN Rank(k, i) ELSE NilIP

IsGiven(k, i, a) == a = Address(k, i) /\ Rank(k, i) <= SubstOf(k).size

LEMMA SubstOfKey ==
  ASSUME NEW n \in Positions
  PROVE  SubstOf(Substs[n].key) = Substs[n]
<1>1. \A m \in Positions : Substs[m].key = Substs[n].key <=> m = n
  BY Constants
<1>. QED
  BY <1>1 DEF SubstOf

LEMMA SubstFacts ==
  ASSUME NEW k \in Keys
  PROVE  /\ SubstOf(k).size \in Nat \ {0}
         /\ SubstOf(k).type \in {"ipv4Address", "ipv6Address"}
         /\ SubstOf(k).unique \in BOOLEAN
         /\ SubstOf(k).unique <=> k \in Unique
<1>1. PICK n \in Positions : Substs[n].key = k
  BY Constants
<1>2. SubstOf(k) = Substs[n]
  BY <1>1, SubstOfKey
<1>3. Substs[n].unique <=> k \in Unique
  BY <1>1, Constants DEF Unique
<1>. QED
  BY <1>2, <1>3, Constants

\* Two replicas have two addresses.
LEMMA AddressesDiffer ==
  ASSUME NEW k \in Unique, NEW i \in Idx, NEW j \in Idx, i # j, NEW a, NEW b,
         IsGiven(k, i, a), IsGiven(k, j, b)
  PROVE  a # b
<1>1. k \in Keys
  BY DEF Keys, Unique
<1>2. SubstOf(k).unique /\ SubstOf(k).size \in Nat
  BY <1>1, SubstFacts
<1>3. i \in Nat /\ j \in Nat
  BY DEF Idx
<1>. QED
  BY <1>2, <1>3 DEF IsGiven, Address, Rank, NilIP

\* What the lower replicas have is used, and nothing but what others have: the next
\* address is the replica's.
LEMMA NextIsAddress ==
  ASSUME NEW k \in Keys, NEW i \in Idx, NEW used,
         SubstOf(k).unique => \A u \in used : \E j \in Idx : j # i /\ IsGiven(k, j, u),
         SubstOf(k).unique => \A j \in Idx : j < i => Address(k, j) \in used /\ Rank(k, j) <= SubstOf(k).size,
         ~SubstOf(k).unique => used = {},
         NEW a \in NextIP(SubstOf(k), used)
  PROVE  IsGiven(k, i, a)
<1>. DEFINE sub == SubstOf(k)
            r == Rank(k, i)
<1>1. sub.size \in Nat \ {0} /\ sub.type \in {"ipv4Address", "ipv6Address"} /\ sub.unique \in BOOLEAN
  BY SubstFacts
<1>2. i \in Nat /\ r \in Nat /\ \A j \in Idx : j \in Nat
  BY Constants DEF Idx, Rank
<1>3. \A j \in Idx : sub.unique => Rank(k, j) = j
  BY DEF Rank
<1>4. \A m \in Nat : m < i => m \in Idx
  BY <1>2, Constants DEF Idx
<1>5. CASE sub.type = "ipv4Address"
  <2>. DEFINE free == (1..sub.size - 1) \ used
  <2>1. free # {} /\ a = Min(free)
    BY <1>5 DEF NextIP, NextIPv4
  <2>2. free \subseteq Nat
    BY <1>1
  <2>3. \A y \in free : r + 1 <= y
    <3>1. CASE sub.unique
      <4>. SUFFICES ASSUME NEW y \in free, y < i + 1 PROVE FALSE
        BY <1>1, <1>2, <1>3, <3>1
      <4>1. y - 1 \in Nat /\ y - 1 < i /\ y \in Nat
        BY <1>1, <1>2
      <4>2. y - 1 \in Idx
        BY <1>4, <4>1
      <4>3. Address(k, y - 1) = y
        BY <1>3, <1>5, <3>1, <4>1, <4>2 DEF Address
      <4>. QED
        BY <3>1, <4>1, <4>2, <4>3
    <3>2. CASE ~sub.unique
      BY <1>1, <3>2 DEF Rank
    <3>. QED
      BY <3>1, <3>2
  <2>4. r + 1 \notin used
    <3>1. CASE sub.unique
      <4>. SUFFICES ASSUME NEW j \in Idx, j # i, IsGiven(k, j, r + 1) PROVE FALSE
        BY <3>1
      <4>. QED
        BY <1>2, <1>3, <1>5, <3>1 DEF IsGiven, Address
    <3>2. CASE ~sub.unique
      BY <3>2
    <3>. QED
      BY <3>1, <3>2
  <2>5. PICK y \in free : TRUE
    BY <2>1
  <2>6. r + 1 \in free
    BY <1>1, <1>2, <2>3, <2>4, <2>5
  <2>. HIDE DEF free
  <2>7. a = r + 1
    BY <2>1, <2>2, <2>3, <2>6, MinIs
  <2>8. r <= sub.size
    BY <1>1, <1>2, <2>6 DEF free
  <2>. QED
    BY <1>5, <2>7, <2>8 DEF IsGiven, Address
<1>6. CASE sub.type = "ipv6Address"
  <2>. DEFINE free == (0..sub.size - 1) \ used
  <2>1. free \subseteq Nat
    BY <1>1
  <2>2. \A y \in free : r <= y
    <3>1. CASE sub.unique
      <4>. SUFFICES ASSUME NEW y \in free, y < i PROVE FALSE
        BY <1>1, <1>2, <1>3, <3>1
      <4>1. y \in Nat /\ y \in Idx /\ y < sub.size
        BY <1>1, <1>2, <1>4
      <4>2. Address(k, y) = y
        BY <1>3, <1>6, <3>1, <4>1 DEF Address
      <4>. QED
        BY <3>1, <4>1, <4>2
    <3>2. CASE ~sub.unique
      BY <1>1, <3>2 DEF Rank
    <3>. QED
      BY <3>1, <3>2
  <2>3. CASE r < sub.size
    <3>1. r \notin used
      <4>1. CASE sub.unique
        <5>. SUFFICES ASSUME NEW j \in Idx, j # i, IsGiven(k, j, r) PROVE FALSE
          BY <4>1
        <5>. QED
          BY <1>1, <1>2, <1>3, <1>6, <4>1 DEF IsGiven, Address, NilIP
      <4>2. CASE ~sub.unique
        BY <4>2
      <4>. QED
        BY <4>1, <4>2
    <3>2. r \in free
      BY <1>1, <1>2, <2>3, <3>1
    <3>3. a = Min(free)
      BY <1>6, <3>2 DEF NextIP, NextIPv6
    <3>. HIDE DEF free
    <3>4. a = r
      BY <2>1, <2>2, <3>2, <3>3, MinIs
    <3>. QED
      BY <1>1, <1>2, <1>6, <2>3, <3>4 DEF IsGiven, Address
  <2>4. CASE ~(r < sub.size)
    <3>1. free = {}
      BY <1>1, <1>2, <2>2, <2>4
    <3>2. a = NilIP /\ NilIP \notin used
      BY <1>6, <3>1 DEF NextIP, NextIPv6
    <3>3. r <= sub.size
      <4>. SUFFICES ASSUME sub.size < r PROVE FALSE
        BY <1>1, <1>2
      <4>1. sub.unique /\ r = i
        BY <1>1 DEF Rank
      <4>2. sub.size \in Idx /\ sub.size < i
        BY <1>1, <1>4, <4>1
      <4>3. Address(k, sub.size) = NilIP
        BY <1>1, <1>3, <1>6, <4>1, <4>2 DEF Address
      <4>. QED
        BY <3>2, <4>1, <4>2, <4>3
    <3>. QED
      BY <1>6, <2>4, <3>2, <3>3 DEF IsGiven, Address
  <2>. QED
    BY <2>3, <2>4
<1>. QED
  BY <1>1, <1>5, <1>6

-----------------------------------------------------------------------------
(* The invariant.                                                           *)

\* What version v of replica i has, and what any of its versions has.
Recs(s, i, v, k) == Has(globalState[s][<<i, v>>], k)
Known(s, i, k) == \E v \in Ver : Recs(s, i, v, k)

\* All that is remembered, recorded, written to the ConfigMap and to a volume is the
\* address of the replica.
ByIndex(s) ==
  /\ \A id \in Identifier, k \in Keys :
       Has(globalState[s][id], k) => IsGiven(k, id[1], Found(globalState[s][id], k))
  /\ \A e \in DOMAIN configMap[s] : IsGiven(e[3], e[1], configMap[s][e])
  /\ \A e \in DOMAIN identities[s] : IsGiven(e[3], e[1], identities[s][e])
  /\ \A v \in volumes[s], k \in Keys : IsGiven(k, v.idx, v.data[k])

\* A version is recorded with all its keys or not at all.
Whole(f) == \A e \in DOMAIN f, k \in Keys : <<e[1], e[2], k>> \in DOMAIN f
\* What a version has the replica's first version has, too.
Rooted(f) == \A e \in DOMAIN f : <<e[1], 0, e[3]>> \in DOMAIN f

Shape(s) ==
  /\ \A id \in Identifier : InOrder(globalState[s][id])
  /\ Whole(configMap[s]) /\ Whole(identities[s])

\* The process has made all that there is of the set: it remembers all of it.
Home(s) == restarts = 0 \/ ~extName[s]
AtHome(s) ==
  Home(s) =>
    /\ \A v \in volumes[s], k \in Keys : Recs(s, v.idx, v.ver, k)
    /\ \A i \in Idx, v \in Ver, k \in Keys : Recs(s, i, v, k) => Recs(s, i, 0, k)
    /\ \A e \in DOMAIN configMap[s] : Recs(s, e[1], e[2], e[3])
    /\ \A e \in DOMAIN identities[s] : Recs(s, e[1], e[2], e[3])

Control(s) ==
  /\ pc[s] = "create" => mode[s] = "create"
  /\ pc[s] \in {"update", "condemn"} => mode[s] = "update"
  /\ pc[s] \in {"patch", "volume", "condemn"} =>
       cur[s] \in Idx /\ (mode[s] = "create" <=> ver[s] = 0)

\* A volume is created when all its keys have values, a new version when all the keys
\* of the one it replaces have, and a first version when the lower replicas have theirs.
Written(s) ==
  /\ pc[s] = "patch" => \A n \in Positions : n < pos[s] => Recs(s, cur[s], ver[s], Substs[n].key)
  /\ pc[s] \in {"volume", "condemn"} => \A k \in Keys : Recs(s, cur[s], ver[s], k)
  /\ pc[s] \in {"patch", "volume"} /\ mode[s] = "update" =>
       \A k \in Keys : Recs(s, cur[s], ver[s] - 1, k)
  /\ pc[s] \in {"create", "patch", "volume"} /\ mode[s] = "create" =>
       \A i \in Idx, k \in Keys : i < cur[s] => Known(s, i, k)

\* After a restart a reconcile goes by what it has read back: the version a replica
\* has, the first one when it has none.
Away(s) ==
  ~Home(s) /\ pc[s] # "idle" =>
    /\ \A v \in volumes[s], k \in Keys : Of(s, v.idx) = {v} => Recs(s, v.idx, v.ver, k)
    /\ mode[s] = "create" =>
         \A i \in Idx, k \in Keys : VolumeVersion(s, i) = 0 /\ Known(s, i, k) => Recs(s, i, 0, k)
    /\ pc[s] = "patch" /\ mode[s] = "create" => VolumeVersion(s, cur[s]) = 0
    /\ pc[s] \in {"patch", "volume", "condemn"} /\ mode[s] = "update" =>
         \A v \in volumes[s] : v.idx = cur[s] => v.ver = ver[s] - 1 \/ (pc[s] = "condemn" /\ v.ver = ver[s])

\* There is nothing of a set that is not there.
Gone(s) ==
  ~Present(s) => /\ pc[s] = "idle" /\ ~extName[s]
                 /\ volumes[s] = {} /\ servers[s] = {} /\ configMap[s] = Nothing

\* The version that is created is in f when it has been saved, the one it replaces is.
InHand(s, f) ==
  /\ pc[s] = "volume" => \A k \in Keys : <<cur[s], ver[s], k>> \in DOMAIN f
  /\ pc[s] \in {"patch", "volume"} /\ mode[s] = "update" =>
       \A k \in Keys : <<cur[s], ver[s] - 1, k>> \in DOMAIN f

\* The ConfigMap has every volume, and of each replica the first version.
Mapped(s) ==
  Calm =>
    /\ \A v \in volumes[s] : v.idx \in servers[s] /\ \A k \in Keys : <<v.idx, v.ver, k>> \in DOMAIN configMap[s]
    /\ Rooted(configMap[s])
    /\ \A i \in Idx, k \in Keys : Known(s, i, k) => Recs(s, i, 0, k) \/ <<i, 0, k>> \in DOMAIN configMap[s]
    /\ pc[s] \in {"patch", "volume", "condemn"} => cur[s] \in servers[s]
    /\ InHand(s, configMap[s])

\* Before a restart so do the identities of the process; after it they have less.
Listed(s) ==
  Calm /\ restarts = 0 =>
    /\ \A v \in volumes[s], k \in Keys : <<v.idx, v.ver, k>> \in DOMAIN identities[s]
    /\ Rooted(identities[s])
    /\ InHand(s, identities[s])
Reread(s) ==
  Calm /\ restarts # 0 =>
    /\ DOMAIN identities[s] \subseteq DOMAIN configMap[s]
    /\ \A i \in Idx, k \in Keys : Known(s, i, k) => i \in servers[s]

Inv(s) ==
  /\ ByIndex(s) /\ Shape(s) /\ AtHome(s) /\ Control(s) /\ Written(s)
  /\ Away(s) /\ Gone(s) /\ Mapped(s) /\ Listed(s) /\ Reread(s)

-----------------------------------------------------------------------------
(* What the parts of the invariant depend on.                               *)

\* The version of a replica as a function of the volumes.
OfIn(vols, i) == {v \in vols : v.idx = i}
VersionIn(vols, i) == IF \E v \in vols : OfIn(vols, i) = {v}
                      THEN (CHOOSE v \in vols : OfIn(vols, i) = {v}).ver ELSE 0

LEMMA VersionInFacts ==
  ASSUME NEW vols, NEW i
  PROVE  /\ \A v \in vols : OfIn(vols, i) = {v} => VersionIn(vols, i) = v.ver
         /\ (\A v \in vols : OfIn(vols, i) # {v}) => VersionIn(vols, i) = 0
<1>. HIDE DEF OfIn
<1>1. ASSUME NEW v \in vols, OfIn(vols, i) = {v}
      PROVE  VersionIn(vols, i) = v.ver
  <2>1. \A w \in vols : OfIn(vols, i) = {w} => w = v
    BY <1>1
  <2>2. (CHOOSE w \in vols : OfIn(vols, i) = {w}) = v
    BY <1>1, <2>1
  <2>. QED
    BY <1>1, <2>2 DEF VersionIn
<1>. QED
  BY <1>1 DEF VersionIn

LEMMA Versions ==
  ASSUME NEW s, NEW i
  PROVE  /\ Of(s, i) = OfIn(volumes[s], i) /\ VolumeVersion(s, i) = VersionIn(volumes[s], i)
         /\ Of(s, i)' = OfIn(volumes'[s], i) /\ VolumeVersion(s, i)' = VersionIn(volumes'[s], i)
  BY DEF Of, OfIn, VolumeVersion, VersionIn

\* The version of a replica depends on its own volumes alone.
LEMMA VersionKept ==
  ASSUME NEW s, NEW i, Of(s, i)' = Of(s, i)
  PROVE  VolumeVersion(s, i)' = VolumeVersion(s, i)
<1>1. OfIn(volumes'[s], i) = OfIn(volumes[s], i)
  BY Versions
<1>2. \A v : OfIn(volumes'[s], i) = {v} => v \in volumes[s] /\ v \in volumes'[s]
  BY <1>1 DEF OfIn
<1>3. \/ \E v \in volumes[s] : OfIn(volumes[s], i) = {v} /\ v \in volumes'[s]
      \/ (\A v \in volumes[s] : OfIn(volumes[s], i) # {v}) /\ (\A v \in volumes'[s] : OfIn(volumes'[s], i) # {v})
  BY <1>1, <1>2
<1>4. VersionIn(volumes'[s], i) = VersionIn(volumes[s], i)
  BY <1>1, <1>3, VersionInFacts
<1>. QED
  BY <1>4, Versions

LEMMA VersionFacts ==
  ASSUME TypeOK, NEW s \in Sets, NEW i \in Idx
  PROVE  /\ \A v \in volumes[s] : Of(s, i) = {v} => VolumeVersion(s, i) = v.ver
         /\ (\A v \in volumes[s] : Of(s, i) # {v}) => VolumeVersion(s, i) = 0
         /\ VolumeVersion(s, i) \in Ver
<1>1. /\ \A v \in volumes[s] : Of(s, i) = {v} => VolumeVersion(s, i) = v.ver
      /\ (\A v \in volumes[s] : Of(s, i) # {v}) => VolumeVersion(s, i) = 0
  BY Versions, VersionInFacts
<1>2. \A v \in volumes[s] : v.ver \in Ver
  BY DEF TypeOK, Volume
<1>. QED
  BY <1>1, <1>2, Constants

\* Nothing that belongs to a set changes.
SameObjects(s) ==
  /\ restarts' = restarts /\ replicas'[s] = replicas[s] /\ extName'[s] = extName[s]
  /\ servers'[s] = servers[s] /\ volumes'[s] = volumes[s] /\ configMap'[s] = configMap[s]
SameMemory(s) == globalState'[s] = globalState[s] /\ identities'[s] = identities[s]
SameControl(s) ==
  /\ pc'[s] = pc[s] /\ mode'[s] = mode[s] /\ cur'[s] = cur[s] /\ ver'[s] = ver[s] /\ pos'[s] = pos[s]

\* A step that neither allocates nor creates: volumes may go, servers may come.
LEMMA ControlStep ==
  ASSUME NEW s \in Sets, Inv(s), SameMemory(s), restarts' = restarts,
         configMap'[s] = configMap[s], volumes'[s] \subseteq volumes[s],
         Calm => servers[s] \subseteq servers'[s],
         Home(s)' => Home(s),
         (Control(s) /\ Written(s) /\ Away(s) /\ Gone(s))',
         Calm /\ pc'[s] \in {"patch", "volume", "condemn"} => cur'[s] \in servers'[s],
         Calm => InHand(s, configMap[s])',
         Calm /\ restarts = 0 => InHand(s, identities[s])'
  PROVE  Inv(s)'
<1>. USE DEF SameMemory
<1>1. ByIndex(s)'
  BY DEF Inv, ByIndex
<1>2. Shape(s)'
  BY DEF Inv, Shape
<1>3. AtHome(s)'
  BY DEF Inv, AtHome, Recs
<1>4. Reread(s)'
  BY DEF Inv, Reread, Recs, Known
<1>5. Mapped(s)'
  BY DEF Inv, Mapped, Recs, Known
<1>6. Listed(s)'
  BY DEF Inv, Listed
<1>. QED
  BY <1>1, <1>2, <1>3, <1>4, <1>5, <1>6 DEF Inv

LEMMA SameKeeps ==
  ASSUME NEW s \in Sets, Inv(s), SameObjects(s), SameMemory(s), SameControl(s)
  PROVE  Inv(s)'
<1>1. Control(s)' /\ Written(s)'
  BY DEF Inv, Control, Written, Recs, Known, SameMemory, SameControl
<1>2. \A i : Of(s, i)' = Of(s, i)
  BY DEF Of, SameObjects
<1>3. Away(s)'
  <2>1. \A i : VolumeVersion(s, i)' = VolumeVersion(s, i)
    BY <1>2, VersionKept
  <2>. QED
    BY <1>2, <2>1 DEF Inv, Away, Home, Recs, Known, SameObjects, SameMemory, SameControl
<1>4. InHand(s, configMap[s])' <=> InHand(s, configMap[s])
  BY DEF InHand, SameObjects, SameControl
<1>5. InHand(s, identities[s])' <=> InHand(s, identities[s])
  BY DEF InHand, SameMemory, SameControl
<1>6. Calm => InHand(s, configMap[s]) /\ (pc[s] \in {"patch", "volume", "condemn"} => cur[s] \in servers[s])
  BY DEF Inv, Mapped
<1>7. Calm /\ restarts = 0 => InHand(s, identities[s])
  BY DEF Inv, Listed
<1>8. Gone(s)' /\ (Home(s)' => Home(s))
  BY DEF Inv, Gone, Present, Home, SameObjects, SameControl
<1>. QED
  BY <1>1, <1>3, <1>4, <1>5, <1>6, <1>7, <1>8, ControlStep DEF SameObjects, SameControl

\* A step after which no reconcile of the set is at work.
LEMMA IdleStep ==
  ASSUME NEW s \in Sets, Inv(s), SameMemory(s), restarts' = restarts,
         configMap'[s] = configMap[s], volumes'[s] \subseteq volumes[s],
         Calm => servers[s] \subseteq servers'[s],
         Home(s)' => Home(s), Gone(s)', pc'[s] = "idle"
  PROVE  Inv(s)'
<1>1. (Control(s) /\ Written(s) /\ Away(s))'
  BY DEF Control, Written, Away
<1>2. InHand(s, configMap[s])' /\ InHand(s, identities[s])'
  BY DEF InHand
<1>. QED
  BY <1>1, <1>2, ControlStep

\* A reconcile that ends.
LEMMA EndKeeps ==
  ASSUME NEW s \in Sets, Inv(s), SameObjects(s), SameMemory(s), pc'[s] = "idle"
  PROVE  Inv(s)'
<1>1. Gone(s)' /\ (Home(s)' => Home(s))
  BY DEF Inv, Gone, Present, Home, SameObjects
<1>. QED
  BY <1>1, IdleStep DEF SameObjects

\* A volume that is a replica's only one is remembered while a reconcile is at work.
LEMMA OnlyVolumeIsRemembered ==
  ASSUME NEW s \in Sets, Inv(s), pc[s] # "idle", NEW v \in volumes[s], Of(s, v.idx) = {v}
  PROVE  \A k \in Keys : Recs(s, v.idx, v.ver, k)
  BY DEF Inv, AtHome, Away

-----------------------------------------------------------------------------
(* The steps that neither allocate nor create.                              *)

LEMMA ObserveNewStep ==
  ASSUME TypeOK, NEW s \in Sets, Inv(s), ObserveNew(s)
  PROVE  Inv(s)'
<1>1. SameObjects(s) /\ SameMemory(s)
  BY DEF ObserveNew, objects, memory, faults, SameObjects, SameMemory
<1>2. pc'[s] = "create" /\ mode'[s] = "create" /\ cur'[s] = 0
  BY DEF ObserveNew, TypeOK
<1>3. Control(s)' /\ Gone(s)' /\ InHand(s, configMap[s])' /\ InHand(s, identities[s])'
  BY <1>1, <1>2 DEF Control, Gone, InHand, Present, ObserveNew, SameObjects
<1>4. Written(s)'
  BY <1>2, Constants DEF Written, Idx
<1>5. Home(s)' /\ Home(s) /\ Away(s)'
  BY <1>1 DEF Home, Away, ObserveNew, SameObjects
<1>. QED
  BY <1>1, <1>2, <1>3, <1>4, <1>5, ControlStep DEF SameObjects

LEMMA CreateReplicaStep ==
  ASSUME TypeOK, NEW s \in Sets, Inv(s), CreateReplica(s)
  PROVE  Inv(s)' /\ cur[s] \in Idx
<1>1. /\ SameMemory(s) /\ restarts' = restarts /\ extName' = extName /\ replicas' = replicas
      /\ volumes' = volumes /\ configMap' = configMap /\ mode' = mode
      /\ pc[s] = "create" /\ mode[s] = "create"
      /\ servers'[s] = servers[s] \cup {cur[s]}
  BY DEF CreateReplica, memory, faults, SameMemory, Inv, Control, TypeOK
<1>2. cur[s] \in Idx /\ cur[s] \in Nat
  <2>1. cur[s] < replicas[s] /\ replicas[s] \in 0..MaxReplicas /\ cur[s] \in 0..MaxReplicas
    BY DEF CreateReplica, TypeOK
  <2>. QED
    BY <2>1, Constants DEF Idx
<1>3. Present(s)
  BY <1>1 DEF Inv, Gone
<1>4. Gone(s)' /\ Home(s)' = Home(s) /\ \A i : Of(s, i)' = Of(s, i)
  BY <1>1, <1>3 DEF Gone, Present, Home, Of
<1>5. \A i : VolumeVersion(s, i)' = VolumeVersion(s, i)
  BY <1>4, VersionKept
<1>6. CASE Of(s, cur[s]) = {}
  <2>1. pc'[s] = "patch" /\ ver'[s] = 0 /\ pos'[s] = 1 /\ cur'[s] = cur[s]
    BY <1>6 DEF CreateReplica, TypeOK
  <2>2. Control(s)' /\ InHand(s, configMap[s])' /\ InHand(s, identities[s])'
    BY <1>1, <1>2, <2>1 DEF Control, InHand
  <2>3. Written(s)'
    BY <1>1, <2>1 DEF Inv, Written, Recs, Known, SameMemory, Positions
  <2>4. VolumeVersion(s, cur[s]) = 0
    BY <1>2, <1>6, VersionFacts
  <2>5. Away(s)'
    BY <1>1, <1>4, <1>5, <2>1, <2>4 DEF Inv, Away, Recs, Known, SameMemory
  <2>. QED
    BY <1>1, <1>2, <1>4, <2>1, <2>2, <2>3, <2>5, ControlStep
<1>7. CASE Of(s, cur[s]) # {}
  <2>1. pc'[s] = "create" /\ cur'[s] = cur[s] + 1
    BY <1>1, <1>7 DEF CreateReplica, TypeOK
  <2>2. Control(s)' /\ InHand(s, configMap[s])' /\ InHand(s, identities[s])'
    BY <1>1, <2>1 DEF Control, InHand
  <2>3. \A k \in Keys : Known(s, cur[s], k)
    <3>1. PICK v \in Of(s, cur[s]) : TRUE
      BY <1>7
    <3>2. v \in volumes[s] /\ v.idx = cur[s] /\ v.ver \in Ver
      BY <3>1 DEF Of, TypeOK, Volume
    <3>3. Of(s, v.idx) = {v}
      BY <3>2 DEF CreateReplica
    <3>4. \A k \in Keys : Recs(s, v.idx, v.ver, k)
      BY <1>1, <3>2, <3>3, OnlyVolumeIsRemembered
    <3>. QED
      BY <3>2, <3>4 DEF Known
  <2>4. \A i \in Idx : i < cur'[s] => i < cur[s] \/ i = cur[s]
    BY <1>2, <2>1 DEF Idx
  <2>5. Written(s)'
    BY <1>1, <2>1, <2>3, <2>4 DEF Inv, Written, Recs, Known, SameMemory
  <2>6. Away(s)'
    BY <1>1, <1>4, <1>5, <2>1 DEF Inv, Away, Recs, Known, SameMemory
  <2>. QED
    BY <1>1, <1>2, <1>4, <2>1, <2>2, <2>5, <2>6, ControlStep
<1>. QED
  BY <1>2, <1>6, <1>7

LEMMA CreatedStep ==
  ASSUME TypeOK, NEW s \in Sets, Inv(s), Created(s)
  PROVE  Inv(s)'
<1>1. /\ SameMemory(s) /\ restarts' = restarts /\ replicas' = replicas /\ servers' = servers
      /\ volumes' = volumes /\ configMap' = configMap
      /\ pc[s] = "create" /\ pc'[s] = "idle" /\ extName'[s]
  BY DEF Created, Return, memory, faults, SameMemory, TypeOK
<1>2. Gone(s)' /\ (Home(s)' => Home(s))
  BY <1>1 DEF Inv, Gone, Present, Home
<1>. QED
  BY <1>1, <1>2, IdleStep

LEMMA ReplaceStep ==
  ASSUME TypeOK, NEW s \in Sets, Inv(s), NEW i \in Idx, Replace(s, i)
  PROVE  Inv(s)'
<1>1. /\ SameMemory(s) /\ SameObjects(s) /\ mode' = mode
      /\ pc[s] = "update" /\ mode[s] = "update"
      /\ pc'[s] = "patch" /\ cur'[s] = i /\ pos'[s] = 1
  BY DEF Replace, memory, objects, faults, SameMemory, SameObjects, Inv, Control, TypeOK
<1>2. PICK v \in Of(s, i) : Of(s, i) = {v} /\ v.ver < MaxVersion /\ ver' = [ver EXCEPT ![s] = v.ver + 1]
  BY DEF Replace
<1>3. v \in volumes[s] /\ v.idx = i /\ v.ver \in Nat
  <2>1. v \in volumes[s] /\ v.idx = i
    BY <1>2 DEF Of
  <2>2. v.ver \in Ver
    BY <2>1 DEF TypeOK, Volume
  <2>. QED
    BY <2>1, <2>2, Constants DEF Ver
<1>4. ver'[s] = v.ver + 1 /\ ver'[s] # 0 /\ ver'[s] - 1 = v.ver
  <2>1. ver \in [Sets -> Ver]
    BY DEF TypeOK
  <2>2. ver'[s] = v.ver + 1
    BY <1>2, <2>1
  <2>. QED
    BY <1>3, <2>2
<1>5. \A k \in Keys : Recs(s, i, v.ver, k)
  BY <1>1, <1>2, <1>3, OnlyVolumeIsRemembered
<1>6. Control(s)' /\ Written(s)'
  BY <1>1, <1>4, <1>5 DEF Control, Written, Recs, SameMemory, Positions
<1>7. Gone(s)' /\ Home(s)' = Home(s) /\ \A j : Of(s, j)' = Of(s, j)
  BY <1>1 DEF Inv, Gone, Present, Home, SameObjects, Of
<1>8. Away(s)'
  <2>1. \A w \in volumes[s] : w.idx = i => w = v
    BY <1>2 DEF Of
  <2>. QED
    BY <1>1, <1>4, <1>7, <2>1 DEF Inv, Away, Recs, SameMemory, SameObjects
<1>9. Calm => i \in servers[s] /\ InHand(s, configMap[s])'
  BY <1>1, <1>3, <1>4 DEF Inv, Mapped, InHand, SameObjects
<1>10. Calm /\ restarts = 0 => InHand(s, identities[s])'
  BY <1>1, <1>3, <1>4 DEF Inv, Listed, InHand, SameMemory
<1>. QED
  BY <1>1, <1>6, <1>7, <1>8, <1>9, <1>10, ControlStep DEF SameObjects

LEMMA CondemnStep ==
  ASSUME TypeOK, NEW s \in Sets, Inv(s), Condemn(s)
  PROVE  Inv(s)'
<1>1. /\ SameMemory(s) /\ restarts' = restarts /\ extName' = extName /\ replicas' = replicas
      /\ servers' = servers /\ configMap' = configMap /\ mode' = mode
      /\ pc[s] = "condemn" /\ pc'[s] = "update" /\ mode[s] = "update"
      /\ volumes'[s] = {v \in volumes[s] : ~(v.idx = cur[s] /\ v.ver = ver[s] - 1)}
  BY DEF Condemn, memory, faults, SameMemory, Inv, Control, TypeOK
<1>2. Control(s)' /\ Written(s)' /\ InHand(s, configMap[s])' /\ InHand(s, identities[s])'
  BY <1>1 DEF Control, Written, InHand
<1>3. Gone(s)' /\ Home(s)' = Home(s)
  BY <1>1 DEF Inv, Gone, Present, Home
<1>4. Away(s)'
  <2>. SUFFICES ASSUME ~Home(s), NEW v \in volumes'[s], Of(s, v.idx)' = {v}, NEW k \in Keys
                PROVE  Recs(s, v.idx, v.ver, k)'
    BY <1>1, <1>3 DEF Away
  <2>1. v \in volumes[s]
    BY <1>1
  <2>2. CASE v.idx = cur[s]
    <3>1. v.ver = ver[s]
      BY <1>1, <2>1, <2>2 DEF Inv, Away
    <3>2. Recs(s, cur[s], ver[s], k)
      BY <1>1 DEF Inv, Written
    <3>. QED
      BY <1>1, <2>2, <3>1, <3>2 DEF Recs, SameMemory
  <2>3. CASE v.idx # cur[s]
    <3>1. Of(s, v.idx) = {v}
      BY <1>1, <2>3 DEF Of
    <3>. QED
      BY <1>1, <2>1, <3>1 DEF Inv, Away, Recs, SameMemory
  <2>. QED
    BY <2>2, <2>3
<1>. QED
  BY <1>1, <1>2, <1>3, <1>4, ControlStep

LEMMA SpecSteps ==
  ASSUME TypeOK, NEW s \in Sets, Inv(s), Submit(s) \/ Grow(s) \/ RemovePending(s)
  PROVE  Inv(s)'
<1>1. CASE RemovePending(s)
  <2>1. SameObjects(s) /\ SameMemory(s) /\ SameControl(s)
    BY <1>1 DEF RemovePending, memory, control, faults, SameObjects, SameMemory, SameControl
  <2>. QED
    BY <2>1, SameKeeps
<1>2. CASE Submit(s) \/ Grow(s)
  <2>1. /\ SameMemory(s) /\ restarts' = restarts /\ extName' = extName /\ servers' = servers
        /\ volumes' = volumes /\ configMap' = configMap /\ pc'[s] = "idle"
    BY <1>2 DEF Submit, Grow, memory, control, faults, SameMemory
  <2>2. Present(s)'
    BY <1>2, Constants DEF Submit, Grow, Present, TypeOK
  <2>3. Gone(s)' /\ Home(s)' = Home(s)
    BY <2>1, <2>2 DEF Gone, Home
  <2>. QED
    BY <2>1, <2>3, IdleStep
<1>. QED
  BY <1>1, <1>2

\* A restart, and so a set that is away, is there only where losses are orderly.
LEMMA AwayIsCalm ==
  ASSUME NoRestart \/ Calm, TypeOK, NEW s \in Sets, ~Home(s)
  PROVE  Calm
  BY DEF NoRestart, Home, TypeOK

LEMMA LoseStep ==
  ASSUME NoRestart \/ Calm, TypeOK, NEW s \in Sets, Inv(s), Lose(s)
  PROVE  Inv(s)'
<1>1. /\ SameMemory(s) /\ SameControl(s) /\ restarts' = restarts /\ extName' = extName
      /\ replicas' = replicas /\ configMap' = configMap
      /\ volumes'[s] \subseteq volumes[s] /\ servers'[s] \subseteq servers[s]
  BY DEF Lose, memory, control, SameMemory, SameControl, TypeOK
<1>2. Calm => servers'[s] = servers[s] /\ pc[s] = "idle"
  BY DEF Lose, Calm, TypeOK
<1>3. Gone(s)' /\ Home(s)' = Home(s)
  BY <1>1 DEF Inv, Gone, Present, Home, SameControl
<1>4. CASE Calm
  BY <1>1, <1>2, <1>3, <1>4, IdleStep DEF SameControl
<1>5. CASE ~Calm
  <2>1. Home(s)' /\ Away(s)'
    BY <1>3, <1>5, AwayIsCalm DEF Away
  <2>2. Control(s)' /\ Written(s)'
    BY <1>1 DEF Inv, Control, Written, Recs, Known, SameMemory, SameControl
  <2>. QED
    BY <1>1, <1>3, <1>5, <2>1, <2>2, ControlStep
<1>. QED
  BY <1>4, <1>5

LEMMA DeleteSetStep ==
  ASSUME NoRestart \/ Calm, TypeOK, NEW s \in Sets, Inv(s), DeleteSet(s)
  PROVE  Inv(s)'
<1>1. /\ SameMemory(s) /\ pc[s] = "idle" /\ pc'[s] = "idle" /\ restarts' = restarts
      /\ volumes'[s] = {} /\ servers'[s] = {} /\ configMap'[s] = Nothing /\ ~extName'[s]
  BY DEF DeleteSet, memory, control, SameMemory, TypeOK
<1>2. restarts = 0
  BY DEF DeleteSet, Calm, NoRestart, TypeOK
<1>3. DOMAIN Nothing = {}
  BY DEF Nothing
<1>4. Home(s) /\ AtHome(s) /\ ByIndex(s) /\ Shape(s) /\ Listed(s)
  BY <1>2 DEF Inv, Home
<1>5. Control(s)' /\ Written(s)' /\ Away(s)' /\ Gone(s)'
  BY <1>1 DEF Control, Written, Away, Gone
<1>6. ByIndex(s)' /\ Shape(s)' /\ AtHome(s)'
  BY <1>1, <1>3, <1>4 DEF ByIndex, Shape, Whole, AtHome, Recs, SameMemory
<1>7. InHand(s, configMap[s])' /\ InHand(s, identities[s])'
  BY <1>1 DEF InHand
<1>8. Mapped(s)'
  BY <1>1, <1>3, <1>4, <1>7 DEF Mapped, Rooted, AtHome, Recs, Known, SameMemory
<1>9. Listed(s)' /\ Reread(s)'
  BY <1>1, <1>2, <1>4, <1>7 DEF Listed, Reread, SameMemory
<1>. QED
  BY <1>5, <1>6, <1>8, <1>9 DEF Inv

-----------------------------------------------------------------------------
(* What Observe and Update read back.                                       *)

\* The n-th of a run of positions.
LEMMA NthOfRun ==
  ASSUME NEW m \in Nat, NEW l \in Nat, m <= l
  PROVE  /\ Cardinality(m + 1..l) = l - m
         /\ \A n \in 1..l - m : Nth(m + 1..l, n) = m + n
<1>1. \A p \in m..l : Cardinality(m + 1..p) = p - m
  <2>. SUFFICES ASSUME NEW p \in m..l PROVE Cardinality(m + 1..p) = p - m
    OBVIOUS
  <2>1. m + 1 \in Int /\ p \in Int
    OBVIOUS
  <2>2. Cardinality(m + 1..p) = IF m + 1 > p THEN 0 ELSE p - (m + 1) + 1
    BY <2>1, FS_Interval, Zenon
  <2>. QED
    BY <2>2
<1>2. ASSUME NEW n \in 1..l - m
      PROVE  Nth(m + 1..l, n) = m + n
  <2>1. ASSUME NEW p \in m + 1..l
        PROVE  Cardinality((m + 1..l) \cap (1..p)) = n <=> p = m + n
    <3>1. (m + 1..l) \cap (1..p) = m + 1..p
      OBVIOUS
    <3>2. Cardinality(m + 1..p) = p - m
      BY <1>1
    <3>3. p - m = n <=> p = m + n
      OBVIOUS
    <3>. QED
      BY <3>1, <3>2, <3>3
  <2>2. m + n \in m + 1..l
    OBVIOUS
  <2>. QED
    BY <2>1, <2>2 DEF Nth
<1>. QED
  BY <1>1, <1>2

\* What is read back completes a state, in the order of the template.
LEMMA ReadBackFacts ==
  ASSUME TypeOK, NEW s \in Sets, Inv(s), NEW i \in Idx,
         Missing(s, i, {}) # {}
  PROVE  LET v == VolumeVersion(s, i)
             before == globalState[s][<<i, v>>]
             after == before \o ReadBack(s, i, Missing(s, i, {}))
         IN  /\ after \in Seq(State) /\ InOrder(after)
             /\ \A k \in Keys : Has(after, k) /\ IsGiven(k, i, Found(after, k))
             /\ \A k \in Keys : <<i, v, k>> \in DOMAIN configMap[s]
<1>. DEFINE v == VolumeVersion(s, i)
            cm == configMap[s]
            before == globalState[s][<<i, v>>]
            missing == Missing(s, i, {})
            at == {n \in Positions : Substs[n].key \in missing}
            m == Len(before)
            l == Len(Substs)
            back == ReadBack(s, i, missing)
            after == before \o back
<1>1. v \in Ver /\ <<i, v>> \in Identifier /\ before \in Seq(State) /\ InOrder(before)
  <2>1. v \in Ver
    BY VersionFacts
  <2>. QED
    BY <2>1 DEF Identifier, TypeOK, Inv, Shape
<1>2. m \in Nat /\ l \in Nat /\ m <= l
  BY <1>1, Constants DEF InOrder
<1>3. \A k \in Keys : <<i, v, k>> \in DOMAIN cm
  <2>1. PICK k \in Keys : <<i, v, k>> \in DOMAIN cm
    BY DEF Missing
  <2>. QED
    BY <2>1 DEF Inv, Shape, Whole
<1>4. missing = {k \in Keys : ~Has(before, k)}
  BY <1>3 DEF Missing
<1>. HIDE DEF before, missing, v, back
<1>5. /\ \A n \in 1..m : n \in Positions /\ Has(before, Substs[n].key)
                         /\ Found(before, Substs[n].key) = before[n].value
      /\ \A n \in Positions : Has(before, Substs[n].key) => n <= m
  BY <1>1, FoundAt
<1>6. at = m + 1..l
  <2>1. at = {n \in Positions : ~Has(before, Substs[n].key)}
    BY <1>4, Constants
  <2>. QED
    BY <1>2, <1>5, <2>1 DEF Positions
<1>7. Cardinality(at) = l - m /\ \A n \in 1..l - m : Nth(at, n) = m + n
  BY <1>2, <1>6, NthOfRun
<1>a. back = [n \in 1..l - m |-> back[n]]
  BY <1>7 DEF ReadBack, back, v, missing
<1>8. \A n \in 1..l - m : back[n] = [key |-> Substs[m + n].key, value |-> cm[<<i, v, Substs[m + n].key>>]]
  BY <1>7 DEF ReadBack, back, v, missing
<1>9. \A n \in 1..l - m : m + n \in Positions
  BY <1>2 DEF Positions
<1>10. \A k \in Keys : cm[<<i, v, k>>] \in Value /\ IsGiven(k, i, cm[<<i, v, k>>])
  <2>1. /\ \A e \in DOMAIN cm : cm[e] \in Value
        /\ \A e \in DOMAIN cm : IsGiven(e[3], e[1], cm[e])
    BY DEF TypeOK, Inv, ByIndex
  <2>2. \A k \in Keys : <<i, v, k>>[1] = i /\ <<i, v, k>>[3] = k
    OBVIOUS
  <2>. HIDE DEF cm
  <2>. QED
    BY <1>3, <2>1, <2>2
<1>b. \A n \in 1..l - m : /\ back[n].key = Substs[m + n].key
                            /\ back[n].value = cm[<<i, v, Substs[m + n].key>>]
  <2>. SUFFICES ASSUME NEW n \in 1..l - m
                PROVE  /\ back[n].key = Substs[m + n].key
                       /\ back[n].value = cm[<<i, v, Substs[m + n].key>>]
    OBVIOUS
  <2>. DEFINE k == Substs[m + n].key
              a == cm[<<i, v, k>>]
  <2>1. back[n] = [key |-> k, value |-> a]
    BY <1>8
  <2>. HIDE DEF k, a
  <2>2. back[n].key = k /\ back[n].value = a
    BY <2>1
  <2>. QED
    BY <2>2 DEF k, a
<1>11. \A n \in 1..l - m : back[n] \in State
  <2>. SUFFICES ASSUME NEW n \in 1..l - m PROVE back[n] \in State
    OBVIOUS
  <2>1. Substs[m + n].key \in Keys
    BY <1>9, Constants
  <2>2. cm[<<i, v, Substs[m + n].key>>] \in Value
    BY <1>10, <2>1
  <2>. DEFINE k == Substs[m + n].key
              a == cm[<<i, v, k>>]
  <2>3. back[n] = [key |-> k, value |-> a]
    BY <1>8
  <2>4. k \in Keys /\ a \in Value
    BY <2>1, <2>2
  <2>. HIDE DEF k, a
  <2>. QED
    BY <2>3, <2>4 DEF State
<1>12. back \in Seq(State) /\ Len(back) = l - m
  <2>1. l - m \in Nat
    BY <1>2
  <2>2. back \in [1..l - m -> State]
    BY <1>a, <1>11
  <2>. QED
    BY <2>1, <2>2
<1>. HIDE DEF at, m
<1>13. after \in Seq(State) /\ Len(after) = l
  BY <1>1, <1>2, <1>12 DEF m
<1>14. \A n \in Positions : after[n] = IF n <= m THEN before[n] ELSE back[n - m]
  BY <1>1, <1>2, <1>12 DEF m, Positions
<1>15. \A n \in Positions : n > m => n - m \in 1..l - m /\ m + (n - m) = n
  BY <1>2 DEF Positions
<1>16. \A n \in Positions : after[n].key = Substs[n].key
  <2>. SUFFICES ASSUME NEW n \in Positions PROVE after[n].key = Substs[n].key
    OBVIOUS
  <2>1. CASE n <= m
    BY <1>1, <1>2, <1>14, <2>1 DEF InOrder, m, Positions
  <2>2. CASE ~(n <= m)
    <3>1. PICK q \in 1..l - m : q = n - m /\ m + q = n
      BY <1>2, <1>15, <2>2 DEF Positions
    <3>2. after[n] = back[q]
      BY <1>14, <2>2, <3>1
    <3>. QED
      BY <1>b, <3>1, <3>2
  <2>. QED
    BY <2>1, <2>2
<1>17. InOrder(after)
  BY <1>2, <1>13, <1>16 DEF InOrder, Positions
<1>. HIDE DEF after
<1>18. /\ \A n \in 1..Len(after) : Has(after, Substs[n].key) /\ Found(after, Substs[n].key) = after[n].value
  BY <1>13, <1>17, FoundAt
<1>19. ASSUME NEW n \in Positions
       PROVE  Has(after, Substs[n].key) /\ IsGiven(Substs[n].key, i, Found(after, Substs[n].key))
  <2>1. n \in 1..Len(after)
    BY <1>13 DEF Positions
  <2>2. Has(after, Substs[n].key) /\ Found(after, Substs[n].key) = after[n].value
    BY <1>18, <2>1
  <2>3. CASE n <= m
    <3>1. n \in 1..m
      BY <1>2, <2>3 DEF Positions
    <3>2. Has(before, Substs[n].key) /\ after[n].value = Found(before, Substs[n].key)
      BY <1>5, <1>14, <2>3, <3>1
    <3>3. \A k \in Keys : Has(before, k) => IsGiven(k, i, Found(before, k))
      BY <1>1 DEF Inv, ByIndex, before
    <3>. QED
      BY <2>2, <3>2, <3>3, Constants
  <2>4. CASE ~(n <= m)
    <3>1. PICK q \in 1..l - m : q = n - m /\ m + q = n
      BY <1>2, <1>15, <2>4 DEF Positions
    <3>2. after[n] = back[q]
      BY <1>14, <2>4, <3>1
    <3>3. after[n].value = cm[<<i, v, Substs[n].key>>]
      BY <1>b, <3>1, <3>2
    <3>. QED
      BY <1>10, <2>2, <3>3, Constants
  <2>. QED
    BY <2>3, <2>4
<1>20. \A k \in Keys : Has(after, k) /\ IsGiven(k, i, Found(after, k))
  BY <1>19, Constants
<1>. QED
  BY <1>3, <1>13, <1>17, <1>20 DEF v, after, back, before, missing

\* What a look at the ConfigMap adds to the memory: nothing of a set whose objects the
\* process has made, else what the ConfigMap has of the replicas' versions.
Rebuilt(s) ==
  /\ \A t \in Sets : t # s => globalState'[t] = globalState[t]
  /\ globalState' \in [Sets -> [Identifier -> Seq(State)]]
  /\ Home(s) => globalState'[s] = globalState[s]
  /\ \A id \in Identifier :
       /\ InOrder(globalState'[s][id])
       /\ \A k \in Keys : Has(globalState'[s][id], k) => IsGiven(k, id[1], Found(globalState'[s][id], k))
  /\ \A i \in Idx, v \in Ver, k \in Keys :
       /\ Recs(s, i, v, k) => Recs(s, i, v, k)'
       /\ Recs(s, i, v, k)' => \/ Recs(s, i, v, k)
                               \/ i \in servers[s] /\ v = VolumeVersion(s, i) /\ <<i, v, k>> \in DOMAIN configMap[s]
       /\ ~Home(s) /\ i \in servers[s] /\ v = VolumeVersion(s, i) /\ <<i, v, k>> \in DOMAIN configMap[s]
            => Recs(s, i, v, k)'

LEMMA RebuildFacts ==
  ASSUME NoRestart \/ Calm, TypeOK, NEW s \in Sets, Inv(s),
         NEW failed \in Failing(s), Rebuild(s, failed)
  PROVE  Rebuilt(s)
<1>. DEFINE gs == globalState[s]
            reads(id) == id[1] \in servers[s] /\ id[2] = VolumeVersion(s, id[1]) /\ Missing(s, id[1], failed) # {}
            new == [id \in Identifier |-> IF reads(id) THEN gs[id] \o ReadBack(s, id[1], Missing(s, id[1], failed))
                                          ELSE gs[id]]
<1>1. globalState' = [globalState EXCEPT ![s] = new]
  BY DEF Rebuild
<1>2. globalState \in [Sets -> [Identifier -> Seq(State)]]
  BY DEF TypeOK
<1>3. globalState'[s] = new /\ \A t \in Sets : t # s => globalState'[t] = globalState[t]
  BY <1>1, <1>2
<1>4. \A id \in Identifier : /\ id[1] \in Idx /\ id[2] \in Ver /\ id = <<id[1], id[2]>>
                             /\ gs[id] \in Seq(State) /\ InOrder(gs[id])
  BY <1>2 DEF Identifier, Inv, Shape
<1>5. Home(s) => \A i \in Idx : Missing(s, i, failed) = {}
  BY DEF Inv, AtHome, Missing, Recs
<1>6. ~Home(s) => failed = {}
  <2>. SUFFICES ASSUME ~Home(s) PROVE failed = {}
    OBVIOUS
  <2>1. MaxMapErrors = 0 /\ mapErrors \in 0..MaxMapErrors
    BY AwayIsCalm DEF Calm, TypeOK
  <2>2. ~(mapErrors < MaxMapErrors)
    BY <2>1
  <2>. QED
    BY <2>2 DEF Failing
<1>7. ASSUME NEW id \in Identifier, ~reads(id)
      PROVE  new[id] = gs[id]
  BY <1>7
<1>8. ASSUME NEW id \in Identifier, reads(id)
      PROVE  /\ ~Home(s) /\ new[id] \in Seq(State) /\ InOrder(new[id])
             /\ \A k \in Keys : Has(new[id], k) /\ IsGiven(k, id[1], Found(new[id], k))
             /\ \A k \in Keys : <<id[1], id[2], k>> \in DOMAIN configMap[s]
  <2>1. ~Home(s) /\ failed = {} /\ id[1] \in Idx /\ id[2] = VolumeVersion(s, id[1])
    BY <1>4, <1>5, <1>6, <1>8
  <2>2. new[id] = globalState[s][<<id[1], VolumeVersion(s, id[1])>>] \o ReadBack(s, id[1], Missing(s, id[1], {}))
    BY <1>4, <1>8, <2>1
  <2>3. Missing(s, id[1], {}) # {}
    BY <1>8, <2>1
  <2>. HIDE DEF new, reads, gs
  <2>. DEFINE after == globalState[s][<<id[1], VolumeVersion(s, id[1])>>] \o ReadBack(s, id[1], Missing(s, id[1], {}))
  <2>4. /\ after \in Seq(State) /\ InOrder(after)
        /\ \A k \in Keys : Has(after, k) /\ IsGiven(k, id[1], Found(after, k))
        /\ \A k \in Keys : <<id[1], VolumeVersion(s, id[1]), k>> \in DOMAIN configMap[s]
    BY <2>1, <2>3, ReadBackFacts
  <2>. HIDE DEF after
  <2>5. new[id] = after
    BY <2>2 DEF after
  <2>. QED
    BY <2>1, <2>4, <2>5
<1>9. new \in [Identifier -> Seq(State)]
  BY <1>4, <1>7, <1>8
<1>10. Home(s) => new = gs
  <2>1. gs = [id \in Identifier |-> gs[id]]
    BY <1>2
  <2>2. Home(s) => \A id \in Identifier : new[id] = gs[id]
    BY <1>7, <1>8
  <2>. QED
    BY <2>1, <2>2
<1>11. \A id \in Identifier, k \in Keys : Has(gs[id], k) => IsGiven(k, id[1], Found(gs[id], k))
  BY DEF Inv, ByIndex
<1>. HIDE DEF new
<1>12. globalState' \in [Sets -> [Identifier -> Seq(State)]]
  BY <1>1, <1>2, <1>9
<1>13. ASSUME NEW id \in Identifier
       PROVE  InOrder(new[id]) /\ \A k \in Keys : Has(new[id], k) => IsGiven(k, id[1], Found(new[id], k))
  <2>1. CASE reads(id)
    BY <1>8, <2>1
  <2>2. CASE ~reads(id)
    BY <1>4, <1>7, <1>11, <2>2
  <2>. QED
    BY <2>1, <2>2
<1>14. ASSUME NEW i \in Idx, NEW v \in Ver, NEW k \in Keys
       PROVE  /\ Has(gs[<<i, v>>], k) => Has(new[<<i, v>>], k)
              /\ Has(new[<<i, v>>], k) => \/ Has(gs[<<i, v>>], k)
                                          \/ /\ i \in servers[s] /\ v = VolumeVersion(s, i)
                                             /\ <<i, v, k>> \in DOMAIN configMap[s]
              /\ ~Home(s) /\ i \in servers[s] /\ v = VolumeVersion(s, i) /\ <<i, v, k>> \in DOMAIN configMap[s]
                   => Has(new[<<i, v>>], k)
  <2>. DEFINE id == <<i, v>>
  <2>1. id \in Identifier /\ id[1] = i /\ id[2] = v
    BY DEF Identifier
  <2>2. CASE reads(id)
    <3>1. Has(new[id], k) /\ <<i, v, k>> \in DOMAIN configMap[s]
      BY <1>8, <2>1, <2>2
    <3>. QED
      BY <2>1, <2>2, <3>1
  <2>3. CASE ~reads(id)
    <3>1. new[id] = gs[id]
      BY <1>7, <2>1, <2>3
    <3>2. ASSUME ~Home(s), i \in servers[s], v = VolumeVersion(s, i), <<i, v, k>> \in DOMAIN configMap[s]
          PROVE  Has(gs[id], k)
      <4>1. Missing(s, i, {}) = {}
        BY <1>6, <2>1, <2>3, <3>2
      <4>. QED
        BY <3>2, <4>1 DEF Missing
    <3>. QED
      BY <3>1, <3>2
  <2>. QED
    BY <2>2, <2>3
<1>15. \A i, v, k : /\ Recs(s, i, v, k) <=> Has(gs[<<i, v>>], k)
                    /\ Recs(s, i, v, k)' <=> Has(new[<<i, v>>], k)
  BY <1>3 DEF Recs
<1>. QED
  BY <1>3, <1>10, <1>12, <1>13, <1>14, <1>15 DEF Rebuilt

\* Observe and Update at work on the set, apart from where they go on.
LEMMA RebuildStep ==
  ASSUME NoRestart \/ Calm, TypeOK, NEW s \in Sets, Inv(s), Rebuilt(s), SameObjects(s),
         identities' = identities, Present(s),
         pc'[s] \in {"create", "update", "idle"}, pc'[s] # "idle" => mode'[s] = pc'[s] /\ cur'[s] = 0
  PROVE  Inv(s)'
<1>1. \A i : Of(s, i)' = Of(s, i)
  BY DEF SameObjects, Of
<1>2. \A i : VolumeVersion(s, i)' = VolumeVersion(s, i)
  BY <1>1, VersionKept
<1>3. \A i \in Idx, v \in Ver, k \in Keys :
        /\ Recs(s, i, v, k) => Recs(s, i, v, k)'
        /\ Recs(s, i, v, k)' => \/ Recs(s, i, v, k)
                                \/ i \in servers[s] /\ v = VolumeVersion(s, i) /\ <<i, v, k>> \in DOMAIN configMap[s]
        /\ ~Home(s) /\ i \in servers[s] /\ v = VolumeVersion(s, i) /\ <<i, v, k>> \in DOMAIN configMap[s]
             => Recs(s, i, v, k)'
  BY DEF Rebuilt
<1>4. Control(s)' /\ InHand(s, configMap[s])' /\ InHand(s, identities[s])' /\ Gone(s)'
  BY DEF Control, InHand, Gone, Present, SameObjects
<1>5. Written(s)'
  BY Constants DEF Written, Idx
<1>6. ByIndex(s)' /\ Shape(s)'
  BY DEF Inv, ByIndex, Shape, Rebuilt, SameObjects
<1>7. AtHome(s)'
  BY DEF Inv, AtHome, Home, Recs, Rebuilt, SameObjects
<1>8. Mapped(s)'
  <2>. SUFFICES ASSUME Calm PROVE Mapped(s)'
    BY DEF Mapped
  <2>1. /\ \A v \in volumes[s] : v.idx \in servers[s] /\ \A k \in Keys : <<v.idx, v.ver, k>> \in DOMAIN configMap[s]
        /\ Rooted(configMap[s])
        /\ \A i \in Idx, k \in Keys : Known(s, i, k) => Recs(s, i, 0, k) \/ <<i, 0, k>> \in DOMAIN configMap[s]
    BY DEF Inv, Mapped
  <2>2. ASSUME NEW i \in Idx, NEW k \in Keys, Known(s, i, k)'
        PROVE  Recs(s, i, 0, k)' \/ <<i, 0, k>> \in DOMAIN configMap[s]
    <3>1. PICK v \in Ver : Recs(s, i, v, k)'
      BY <2>2 DEF Known
    <3>2. CASE Recs(s, i, v, k)
      BY <1>3, <2>1, <3>2, Constants DEF Known
    <3>3. CASE <<i, v, k>> \in DOMAIN configMap[s]
      BY <2>1, <3>3 DEF Rooted
    <3>. QED
      BY <1>3, <3>1, <3>2, <3>3
  <2>. QED
    BY <1>4, <2>1, <2>2 DEF Mapped, SameObjects
<1>9. Listed(s)'
  BY <1>4 DEF Inv, Listed, SameObjects
<1>10. Reread(s)'
  <2>. SUFFICES ASSUME Calm, restarts # 0, NEW i \in Idx, NEW k \in Keys, Known(s, i, k)'
                PROVE  i \in servers[s]
    BY DEF Inv, Reread, SameObjects
  <2>1. PICK v \in Ver : Recs(s, i, v, k)'
    BY DEF Known
  <2>. QED
    BY <1>3, <2>1 DEF Inv, Reread, Known
<1>11. Away(s)'
  <2>. SUFFICES ASSUME ~Home(s), pc'[s] # "idle" PROVE Away(s)'
    BY DEF Away, Home, SameObjects
  <2>1. Calm /\ restarts # 0
    BY AwayIsCalm DEF Home
  <2>2. ASSUME NEW v \in volumes[s], NEW k \in Keys, Of(s, v.idx) = {v}
        PROVE  Recs(s, v.idx, v.ver, k)'
    <3>1. v.idx \in Idx /\ v.ver \in Ver
      BY DEF TypeOK, Volume
    <3>2. v.ver = VolumeVersion(s, v.idx)
      BY <2>2, <3>1, VersionFacts
    <3>3. v.idx \in servers[s] /\ <<v.idx, v.ver, k>> \in DOMAIN configMap[s]
      BY <2>1 DEF Inv, Mapped
    <3>. QED
      BY <1>3, <3>1, <3>2, <3>3
  <2>3. ASSUME NEW i \in Idx, NEW k \in Keys, VolumeVersion(s, i) = 0, Known(s, i, k)'
        PROVE  Recs(s, i, 0, k)'
    <3>1. Recs(s, i, 0, k)' \/ <<i, 0, k>> \in DOMAIN configMap[s]
      BY <1>8, <2>1, <2>3 DEF Mapped, SameObjects
    <3>2. i \in servers[s]
      BY <1>10, <2>1, <2>3 DEF Reread, SameObjects
    <3>. QED
      BY <1>3, <2>3, <3>1, <3>2, Constants
  <2>. QED
    BY <1>1, <1>2, <2>2, <2>3 DEF Away, SameObjects
<1>. QED
  BY <1>4, <1>5, <1>6, <1>7, <1>8, <1>9, <1>10, <1>11 DEF Inv

LEMMA ObserveSteps ==
  ASSUME NoRestart \/ Calm, TypeOK, NEW s \in Sets, Inv(s), ObserveSet(s) \/ Updated(s)
  PROVE  Inv(s)' /\ Rebuilt(s)
<1>1. PICK failed \in Failing(s) : Rebuild(s, failed)
  BY DEF ObserveSet, Updated
<1>2. Rebuilt(s)
  BY <1>1, RebuildFacts
<1>3. SameObjects(s) /\ identities' = identities /\ Present(s)
  BY DEF ObserveSet, Updated, objects, SameObjects, Inv, Gone
<1>4. pc'[s] \in {"create", "update", "idle"} /\ (pc'[s] # "idle" => mode'[s] = pc'[s] /\ cur'[s] = 0)
  BY DEF ObserveSet, Updated, Return, TypeOK
<1>. QED
  BY <1>2, <1>3, <1>4, RebuildStep

-----------------------------------------------------------------------------
(* The allocation of one value.                                             *)

\* The identifier that is given values, and its state.
LEMMA PatchFacts ==
  ASSUME TypeOK, NEW s \in Sets, Inv(s), pc[s] \in {"patch", "volume", "condemn"}
  PROVE  /\ Id(s) \in Identifier /\ cur[s] \in Idx /\ ver[s] \in Ver
         /\ globalState[s][Id(s)] \in Seq(State) /\ InOrder(globalState[s][Id(s)])
         /\ ver[s] # 0 => Old(s) \in Identifier /\ ver[s] - 1 \in Ver
         /\ mode[s] = "create" <=> ver[s] = 0
         /\ mode[s] = "update" <=> ver[s] # 0
<1>1. cur[s] \in Idx /\ (mode[s] = "create" <=> ver[s] = 0) /\ mode[s] \in {"create", "update"}
  BY DEF Inv, Control, TypeOK
<1>2. ver[s] \in Ver /\ (ver[s] # 0 => ver[s] - 1 \in Ver)
  BY Constants DEF TypeOK, Ver
<1>3. Id(s) \in Identifier
  BY <1>1, <1>2 DEF Id, Identifier
<1>4. InOrder(globalState[s][Id(s)])
  BY <1>3 DEF Inv, Shape
<1>. QED
  BY <1>1, <1>2, <1>3, <1>4 DEF Id, Old, Identifier, TypeOK

\* An address that is given is in the prefix, or nil.
LEMMA NextIsValue ==
  ASSUME NEW n \in Positions, NEW used, NEW a \in NextIP(Substs[n], used)
  PROVE  a \in Value
<1>. DEFINE size == Substs[n].size
<1>1. size \in Nat \ {0} /\ Substs[n].type \in {"ipv4Address", "ipv6Address"}
  BY Constants
<1>2. ASSUME NEW f, f \subseteq 0..size - 1, f # {}
      PROVE  Min(f) \in 0..size - 1
  <2>1. f \subseteq Nat
    BY <1>1, <1>2
  <2>. HIDE DEF size
  <2>2. Min(f) \in f
    BY <1>2, <2>1, MinExists
  <2>. QED
    BY <1>2, <2>2
<1>3. \/ a \in 0..size - 1
      \/ a = NilIP
  <2>. HIDE DEF size
  <2>1. CASE a \in NextIPv4(size, used)
    BY <1>1, <1>2, <2>1 DEF NextIPv4
  <2>2. CASE a \in NextIPv6(size, used)
    BY <1>1, <1>2, <2>2 DEF NextIPv6
  <2>. QED
    BY <2>1, <2>2 DEF NextIP, size
<1>. QED
  BY <1>3 DEF Value

\* A new value is only for a first version, and it is the address of the replica.
LEMMA AllocatedIsAddress ==
  ASSUME TypeOK, NEW s \in Sets, Inv(s), pc[s] = "patch", NEW n \in Positions,
         ~Has(globalState[s][Id(s)], Substs[n].key),
         ~(ver[s] # 0 /\ Has(globalState[s][Old(s)], Substs[n].key)),
         NEW a \in NextIP(Substs[n], Used(globalState[s], Substs[n]))
  PROVE  IsGiven(Substs[n].key, cur[s], a)
<1>. DEFINE k == Substs[n].key
            i == cur[s]
            used == Used(globalState[s], Substs[n])
<1>1. k \in Keys /\ SubstOf(k) = Substs[n] /\ i \in Idx /\ 0 \in Ver
  BY Constants, SubstOfKey, PatchFacts
<1>2. mode[s] = "create" /\ ver[s] = 0
  <2>1. ver[s] # 0 => Recs(s, i, ver[s] - 1, k)
    BY <1>1, PatchFacts DEF Inv, Written
  <2>. QED
    BY <2>1, PatchFacts DEF Recs, Old
<1>3. ~Known(s, i, k)
  <2>. SUFFICES ASSUME Known(s, i, k) PROVE Recs(s, i, 0, k)
    BY <1>2 DEF Recs, Id
  <2>1. CASE Home(s)
    BY <1>1, <2>1 DEF Inv, AtHome, Known
  <2>2. CASE ~Home(s)
    BY <1>1, <1>2, <2>2 DEF Inv, Away
  <2>. QED
    BY <2>1, <2>2
<1>4. \A id \in Identifier : id[1] \in Idx /\ id[2] \in Ver /\ id = <<id[1], id[2]>>
  BY DEF Identifier
<1>5. \A id \in Identifier : Has(globalState[s][id], k) =>
        id[1] # i /\ IsGiven(k, id[1], Found(globalState[s][id], k))
  BY <1>1, <1>3, <1>4 DEF Known, Recs, Inv, ByIndex
<1>6. SubstOf(k).unique => \A u \in used : \E j \in Idx : j # i /\ IsGiven(k, j, u)
  BY <1>1, <1>4, <1>5 DEF Used
<1>7. SubstOf(k).unique => \A j \in Idx : j < i => Address(k, j) \in used /\ Rank(k, j) <= SubstOf(k).size
  <2>. SUFFICES ASSUME SubstOf(k).unique, NEW j \in Idx, j < i
                PROVE  Address(k, j) \in used /\ Rank(k, j) <= SubstOf(k).size
    OBVIOUS
  <2>1. PICK v \in Ver : Recs(s, j, v, k)
    BY <1>1, <1>2 DEF Inv, Written, Known
  <2>. DEFINE id == <<j, v>>
  <2>2. id \in Identifier /\ id[1] = j /\ Has(globalState[s][id], k)
    BY <2>1 DEF Identifier, Recs
  <2>3. IsGiven(k, j, Found(globalState[s][id], k))
    BY <1>5, <2>2
  <2>4. Found(globalState[s][id], k) \in used
    BY <1>1, <2>2 DEF Used
  <2>. QED
    BY <2>3, <2>4 DEF IsGiven
<1>8. ~SubstOf(k).unique => used = {}
  BY <1>1 DEF Used
<1>9. a \in NextIP(SubstOf(k), used)
  BY <1>1
<1>. HIDE DEF k, i, used
<1>10. IsGiven(k, i, a)
  BY <1>1, <1>6, <1>7, <1>8, <1>9, NextIsAddress
<1>. QED
  BY <1>10 DEF k, i

\* The substitutions before a position have their values, so that the next one is
\* written to the position.
LEMMA NextPosition ==
  ASSUME TypeOK, NEW s \in Sets, Inv(s), pc[s] = "patch", pos[s] \in Positions,
         ~Has(globalState[s][Id(s)], Substs[pos[s]].key)
  PROVE  Len(globalState[s][Id(s)]) = pos[s] - 1
<1>. DEFINE state == globalState[s][Id(s)]
<1>1. state \in Seq(State) /\ InOrder(state)
  BY PatchFacts
<1>2. \A n \in Positions : n < pos[s] => Has(state, Substs[n].key)
  BY DEF Inv, Written, Recs, Id
<1>3. Len(state) \in Nat /\ Len(Substs) \in Nat /\ Len(state) <= Len(Substs)
  BY <1>1, Constants DEF InOrder
<1>4. /\ \A n \in 1..Len(state) : Has(state, Substs[n].key)
      /\ \A n \in Positions : Has(state, Substs[n].key) => n <= Len(state)
  BY <1>1, FoundAt
<1>5. ~Has(state, Substs[pos[s]].key)
  OBVIOUS
<1>. HIDE DEF state
<1>6. Len(state) < pos[s]
  BY <1>3, <1>4, <1>5 DEF Positions
<1>7. pos[s] - 1 <= Len(state)
  <2>1. CASE pos[s] = 1
    BY <1>3, <2>1
  <2>2. CASE pos[s] # 1
    <3>1. pos[s] - 1 \in Positions /\ pos[s] - 1 < pos[s]
      BY <1>3, <2>2 DEF Positions
    <3>. QED
      BY <1>2, <1>4, <3>1
  <2>. QED
    BY <2>1, <2>2
<1>8. pos[s] \in Nat
  BY DEF Positions
<1>. QED
  BY <1>3, <1>6, <1>7, <1>8 DEF state

\* What Set writes: one key of one identifier, at the key's position.
LEMMA SetFacts ==
  ASSUME TypeOK, NEW s \in Sets, Inv(s), pc[s] = "patch", pos[s] \in Positions,
         NEW k, k = Substs[pos[s]].key, NEW a \in Value,
         ~Has(globalState[s][Id(s)], k), Set(s, k, a)
  PROVE  /\ globalState' \in [Sets -> [Identifier -> Seq(State)]]
         /\ \A t \in Sets : t # s => globalState'[t] = globalState[t]
         /\ \A id \in Identifier : id # Id(s) => globalState'[s][id] = globalState[s][id]
         /\ InOrder(globalState'[s][Id(s)])
         /\ Remembers(globalState'[s][Id(s)], globalState[s][Id(s)], k, a)
<1>1. /\ Id(s) \in Identifier /\ InOrder(globalState[s][Id(s)])
      /\ globalState \in [Sets -> [Identifier -> Seq(State)]]
  BY PatchFacts DEF TypeOK
<1>2. PICK before \in Seq(State) : before = globalState[s][Id(s)]
  BY <1>1
<1>3. k \in Keys /\ ~Has(before, k)
  BY <1>2, Constants
<1>4. PICK after \in Seq(State) : /\ after = Append(before, [key |-> k, value |-> a])
                                  /\ Remembers(after, before, k, a)
  BY <1>3, AppendFacts, Zenon
<1>5. globalState' = [globalState EXCEPT ![s][Id(s)] = after]
  BY <1>2, <1>4 DEF Set
<1>6. /\ globalState'[s][Id(s)] = after
      /\ \A id \in Identifier : id # Id(s) => globalState'[s][id] = globalState[s][id]
      /\ \A t \in Sets : t # s => globalState'[t] = globalState[t]
      /\ globalState' \in [Sets -> [Identifier -> Seq(State)]]
  BY <1>1, <1>5
<1>7. Len(before) = pos[s] - 1 /\ pos[s] \in Nat /\ 1 <= pos[s] /\ pos[s] <= Len(Substs) /\ Len(Substs) \in Nat
  BY <1>2, NextPosition, Constants DEF Positions
<1>8. InOrder(after)
  <2>1. [key |-> k, value |-> a] \in State
    BY <1>3 DEF State
  <2>2. /\ Len(after) = pos[s] /\ after[pos[s]] = [key |-> k, value |-> a]
        /\ \A n \in 1..Len(before) : after[n] = before[n]
    BY <1>4, <1>7, <2>1
  <2>3. \A n \in 1..Len(after) : n \in 1..Len(before) \/ n = pos[s]
    BY <1>7, <2>2
  <2>. QED
    BY <1>1, <1>2, <1>7, <2>2, <2>3 DEF InOrder
<1>. QED
  BY <1>2, <1>4, <1>6, <1>8

\* The replica's address, given to the identifier.
LEMMA SetStep ==
  ASSUME TypeOK, NEW s \in Sets, Inv(s), pc[s] = "patch", pos[s] \in Positions,
         NEW k, k = Substs[pos[s]].key, NEW a \in Value,
         ~Has(globalState[s][Id(s)], k), Set(s, k, a), IsGiven(k, cur[s], a),
         SameObjects(s), identities'[s] = identities[s]
  PROVE  Inv(s)'
<1>1. /\ Id(s) \in Identifier /\ cur[s] \in Idx /\ ver[s] \in Ver /\ k \in Keys
      /\ ver[s] # 0 => ver[s] - 1 \in Ver
      /\ mode[s] = "create" <=> ver[s] = 0
      /\ mode[s] = "update" <=> ver[s] # 0
  BY PatchFacts, Constants
<1>2. /\ \A id \in Identifier : id # Id(s) => globalState'[s][id] = globalState[s][id]
      /\ InOrder(globalState'[s][Id(s)])
      /\ Remembers(globalState'[s][Id(s)], globalState[s][Id(s)], k, a)
  BY SetFacts
<1>3. /\ pc' = pc /\ mode' = mode /\ cur' = cur /\ ver' = ver /\ pos'[s] = pos[s] + 1
  BY DEF Set, TypeOK
<1>4. \A i \in Idx, v \in Ver : <<i, v>> \in Identifier /\ (<<i, v>> = Id(s) <=> i = cur[s] /\ v = ver[s])
  BY DEF Identifier, Id
<1>5. \A i \in Idx, v \in Ver, l \in Keys :
        Recs(s, i, v, l)' <=> Recs(s, i, v, l) \/ (i = cur[s] /\ v = ver[s] /\ l = k)
  BY <1>2, <1>4 DEF Recs, Remembers
<1>6. ver[s] # 0 => Recs(s, cur[s], ver[s] - 1, k)
  BY <1>1 DEF Inv, Written
<1>7. \A i \in Idx, l \in Keys : Known(s, i, l)' <=> Known(s, i, l) \/ (i = cur[s] /\ l = k)
  BY <1>1, <1>5 DEF Known
<1>8. ASSUME NEW id \in Identifier, NEW l \in Keys, Has(globalState'[s][id], l)
      PROVE  IsGiven(l, id[1], Found(globalState'[s][id], l))
  <2>1. Has(globalState[s][id], l) => IsGiven(l, id[1], Found(globalState[s][id], l))
    BY DEF Inv, ByIndex
  <2>2. CASE id = Id(s) /\ l = k
    BY <1>2, <2>2 DEF Remembers, Id
  <2>3. CASE id = Id(s) /\ l # k
    BY <1>2, <1>8, <2>1, <2>3 DEF Remembers
  <2>4. CASE id # Id(s)
    BY <1>2, <1>8, <2>1, <2>4
  <2>. QED
    BY <2>2, <2>3, <2>4
<1>9. ByIndex(s)'
  BY <1>8 DEF Inv, ByIndex, SameObjects
<1>10. Shape(s)'
  BY <1>2 DEF Inv, Shape, SameObjects
<1>11. \A e \in Entry : e[1] \in Idx /\ e[2] \in Ver /\ e[3] \in Keys
  BY DEF Entry
<1>12. \A v \in volumes[s] : v.idx \in Idx /\ v.ver \in Ver
  BY DEF TypeOK, Volume
<1>13. AtHome(s)'
  <2>. SUFFICES ASSUME Home(s) PROVE AtHome(s)'
    BY DEF AtHome, Home, SameObjects
  <2>1. /\ \A v \in volumes[s], l \in Keys : Recs(s, v.idx, v.ver, l)
        /\ \A i \in Idx, v \in Ver, l \in Keys : Recs(s, i, v, l) => Recs(s, i, 0, l)
        /\ \A e \in DOMAIN configMap[s] : Recs(s, e[1], e[2], e[3])
        /\ \A e \in DOMAIN identities[s] : Recs(s, e[1], e[2], e[3])
    BY DEF Inv, AtHome
  <2>2. \A i \in Idx, v \in Ver, l \in Keys : Recs(s, i, v, l)' => Recs(s, i, 0, l)'
    BY <1>1, <1>5, <1>6, <2>1, Constants
  <2>3. DOMAIN configMap[s] \subseteq Entry /\ DOMAIN identities[s] \subseteq Entry
    BY DEF TypeOK
  <2>4. /\ \A e \in DOMAIN configMap[s] : Recs(s, e[1], e[2], e[3])'
        /\ \A e \in DOMAIN identities[s] : Recs(s, e[1], e[2], e[3])'
    BY <1>5, <1>11, <2>1, <2>3
  <2>5. \A v \in volumes[s], l \in Keys : Recs(s, v.idx, v.ver, l)'
    BY <1>5, <1>12, <2>1
  <2>. QED
    BY <2>2, <2>4, <2>5 DEF AtHome, SameObjects
<1>14. Control(s)'
  BY <1>3 DEF Inv, Control
<1>15. Written(s)'
  <2>1. \A n \in Positions : n < pos'[s] => n < pos[s] \/ n = pos[s]
    BY <1>3, Constants DEF Positions
  <2>a. \A i \in Idx, v \in Ver, l \in Keys :
          Has(globalState'[s][<<i, v>>], l) <=> Recs(s, i, v, l) \/ (i = cur[s] /\ v = ver[s] /\ l = k)
    BY <1>5 DEF Recs
  <2>2. \A n \in Positions : n < pos'[s] => Has(globalState'[s][<<cur[s], ver[s]>>], Substs[n].key)
    BY <1>1, <2>a, <2>1, Constants DEF Inv, Written
  <2>3. mode[s] = "update" => \A l \in Keys : Has(globalState'[s][<<cur[s], ver[s] - 1>>], l)
    BY <1>1, <2>a DEF Inv, Written
  <2>4. mode[s] = "create" => \A i \in Idx, l \in Keys : i < cur[s] => Known(s, i, l)'
    BY <1>7 DEF Inv, Written
  <2>5. \A i, v, l : Recs(s, i, v, l)' <=> Has(globalState'[s][<<i, v>>], l)
    BY DEF Recs
  <2>. QED
    BY <1>3, <2>2, <2>3, <2>4, <2>5 DEF Written
<1>16. \A i : Of(s, i)' = Of(s, i)
  BY DEF SameObjects, Of
<1>17. \A i : VolumeVersion(s, i)' = VolumeVersion(s, i)
  BY <1>16, VersionKept
<1>18. Away(s)'
  <2>. SUFFICES ASSUME ~Home(s) PROVE Away(s)'
    BY DEF Away, Home, SameObjects
  <2>1. \A v \in volumes[s], l \in Keys : Of(s, v.idx) = {v} => Recs(s, v.idx, v.ver, l)'
    BY <1>5, <1>12 DEF Inv, Away
  <2>2. mode[s] = "create" =>
          \A i \in Idx, l \in Keys : VolumeVersion(s, i) = 0 /\ Known(s, i, l)' => Recs(s, i, 0, l)'
    BY <1>1, <1>5, <1>7, Constants DEF Inv, Away
  <2>. QED
    BY <1>3, <1>16, <1>17, <2>1, <2>2 DEF Inv, Away, SameObjects
<1>19. Gone(s)'
  BY <1>3 DEF Inv, Gone, Present, SameObjects
<1>20. Mapped(s)'
  <2>. SUFFICES ASSUME Calm PROVE Mapped(s)'
    BY DEF Mapped
  <2>1. \A i \in Idx, l \in Keys : Known(s, i, l)' => Recs(s, i, 0, l)' \/ <<i, 0, l>> \in DOMAIN configMap[s]
    <3>1. ver[s] # 0 => Known(s, cur[s], k)
      BY <1>1, <1>6 DEF Known
    <3>. QED
      BY <1>1, <1>5, <1>7, <3>1, Constants DEF Inv, Mapped
  <2>2. InHand(s, configMap[s])'
    BY <1>3 DEF Inv, Mapped, InHand, SameObjects
  <2>. QED
    BY <1>3, <2>1, <2>2 DEF Inv, Mapped, SameObjects
<1>21. Listed(s)'
  BY <1>3 DEF Inv, Listed, InHand, SameObjects
<1>22. Reread(s)'
  <2>1. Calm => cur[s] \in servers[s]
    BY DEF Inv, Mapped
  <2>. QED
    BY <1>7, <2>1 DEF Inv, Reread, SameObjects
<1>. QED
  BY <1>9, <1>10, <1>13, <1>14, <1>15, <1>18, <1>19, <1>20, <1>21, <1>22 DEF Inv

LEMMA SubstituteStep ==
  ASSUME TypeOK, NEW s \in Sets, Inv(s), Substitute(s)
  PROVE  /\ Inv(s)'
         /\ globalState' \in [Sets -> [Identifier -> Seq(State)]]
         /\ \A t \in Sets : t # s => globalState'[t] = globalState[t]
<1>. DEFINE sub == Substs[pos[s]]
            k == sub.key
            own == globalState[s][Id(s)]
            inherits == ver[s] # 0 /\ Has(globalState[s][Old(s)], k)
            next == NextIP(sub, Used(globalState[s], sub))
<1>1. pc[s] = "patch" /\ pos[s] \in Positions
  BY Constants DEF Substitute, TypeOK, Positions
<1>2. SameObjects(s) /\ identities'[s] = identities[s]
  BY DEF Substitute, objects, faults, SameObjects
<1>3. k \in Keys /\ \A id \in Identifier : globalState[s][id] \in Seq(State)
  BY <1>1, Constants DEF TypeOK
<1>4. CASE /\ Has(own, k) /\ pos' = [pos EXCEPT ![s] = @ + 1]
           /\ UNCHANGED <<globalState, pc, mode, cur, ver>>
  <2>1. /\ SameMemory(s) /\ globalState' \in [Sets -> [Identifier -> Seq(State)]]
        /\ pc'[s] = "patch" /\ mode'[s] = mode[s] /\ cur'[s] = cur[s] /\ ver'[s] = ver[s] /\ pos'[s] = pos[s] + 1
    BY <1>1, <1>2, <1>4 DEF SameMemory, TypeOK
  <2>2. \A n \in Positions : n < pos'[s] => n < pos[s] \/ n = pos[s]
    BY <1>1, <2>1, Constants DEF Positions
  <2>3. Recs(s, cur[s], ver[s], k)
    BY <1>4 DEF Recs, Id
  <2>4. Written(s)'
    BY <1>1, <2>1, <2>2, <2>3 DEF Inv, Written, Recs, Known, SameMemory
  <2>5. Control(s)' /\ Gone(s)' /\ (Home(s)' => Home(s))
    BY <1>1, <1>2, <2>1 DEF Inv, Control, Gone, Present, Home, SameObjects
  <2>6. \A i : Of(s, i)' = Of(s, i)
    BY <1>2 DEF Of, SameObjects
  <2>7. \A i : VolumeVersion(s, i)' = VolumeVersion(s, i)
    BY <2>6, VersionKept
  <2>8. Away(s)'
    BY <1>1, <1>2, <2>1, <2>6, <2>7 DEF Inv, Away, Home, Recs, Known, SameObjects, SameMemory
  <2>9. Calm => InHand(s, configMap[s])' /\ cur[s] \in servers[s]
    BY <1>1, <1>2, <2>1 DEF Inv, Mapped, InHand, SameObjects
  <2>10. Calm /\ restarts = 0 => InHand(s, identities[s])'
    BY <1>1, <1>2, <2>1 DEF Inv, Listed, InHand
  <2>11. Inv(s)'
    BY <1>2, <2>1, <2>4, <2>5, <2>8, <2>9, <2>10, ControlStep DEF SameObjects
  <2>. QED
    BY <1>4, <2>1, <2>11
<1>5. ASSUME ~Has(own, k), NEW a \in Value, Set(s, k, a), IsGiven(k, cur[s], a)
      PROVE  /\ Inv(s)'
             /\ globalState' \in [Sets -> [Identifier -> Seq(State)]]
             /\ \A t \in Sets : t # s => globalState'[t] = globalState[t]
  BY <1>1, <1>2, <1>5, SetStep, SetFacts
<1>6. CASE ~Has(own, k) /\ inherits /\ Set(s, k, Found(globalState[s][Old(s)], k))
  <2>. DEFINE a == Found(globalState[s][Old(s)], k)
  <2>1. Old(s) \in Identifier /\ Old(s)[1] = cur[s]
    BY <1>1, <1>6, PatchFacts DEF Old
  <2>2. a \in Value
    BY <1>3, <1>6, <2>1, FoundIsThere
  <2>3. IsGiven(k, cur[s], a)
    BY <1>3, <1>6, <2>1 DEF Inv, ByIndex
  <2>. QED
    BY <1>5, <1>6, <2>2, <2>3
<1>7. CASE ~Has(own, k) /\ ~inherits /\ \E a \in next : Set(s, k, a)
  <2>1. PICK a \in next : Set(s, k, a)
    BY <1>7
  <2>2. a \in Value
    BY <1>1, <2>1, NextIsValue
  <2>3. IsGiven(k, cur[s], a)
    BY <1>1, <1>7, <2>1, AllocatedIsAddress
  <2>. QED
    BY <1>5, <1>7, <2>1, <2>2, <2>3
<1>8. CASE Return(s) /\ UNCHANGED globalState
  <2>1. SameMemory(s) /\ pc'[s] = "idle"
    BY <1>2, <1>8 DEF SameMemory, Return, TypeOK
  <2>2. Inv(s)'
    BY <1>2, <2>1, EndKeeps
  <2>. QED
    BY <1>8, <2>2 DEF TypeOK
<1>. QED
  BY <1>4, <1>6, <1>7, <1>8 DEF Substitute
-----------------------------------------------------------------------------
(* What is recorded, and what is created.                                   *)

\* What is saved of a version: all its keys, each with the value it is found to have.
LEMMA RecordedFacts ==
  ASSUME TypeOK, NEW s \in Sets, Inv(s), pc[s] = "patch", pos[s] > Len(Substs)
  PROVE  /\ \A k \in Keys : Recs(s, cur[s], ver[s], k)
         /\ DOMAIN Recorded(s) = {<<cur[s], ver[s], k>> : k \in Keys}
         /\ \A k \in Keys :
              /\ Recorded(s)[<<cur[s], ver[s], k>>] \in Value
              /\ IsGiven(k, cur[s], Recorded(s)[<<cur[s], ver[s], k>>])
<1>. DEFINE state == globalState[s][Id(s)]
            recorded == Positions \cap (1..Len(state))
            entry(n) == <<cur[s], ver[s], Substs[n].key>>
<1>1. Id(s) \in Identifier /\ Id(s)[1] = cur[s] /\ state \in Seq(State) /\ InOrder(state)
  BY PatchFacts DEF Id
<1>2. \A n \in Positions : Has(state, Substs[n].key)
  <2>1. \A n \in Positions : n < pos[s]
    BY Constants DEF TypeOK, Positions
  <2>. QED
    BY <2>1 DEF Inv, Written, Recs, Id
<1>3. \A k \in Keys : Has(state, k) /\ IsGiven(k, cur[s], Found(state, k))
  BY <1>1, <1>2, Constants DEF Inv, ByIndex
<1>4. /\ \A n \in 1..Len(state) : Found(state, Substs[n].key) = state[n].value
      /\ \A n \in Positions : Has(state, Substs[n].key) => n <= Len(state)
  BY <1>1, FoundAt
<1>5. recorded = Positions
  BY <1>1, <1>2, <1>4, Constants DEF Positions
<1>6. Recorded(s) = [e \in {entry(n) : n \in recorded} |-> state[CHOOSE n \in recorded : entry(n) = e].value]
  BY DEF Recorded
<1>7. {entry(n) : n \in recorded} = {<<cur[s], ver[s], k>> : k \in Keys}
  BY <1>5 DEF Keys
<1>8. ASSUME NEW n \in Positions
      PROVE  Recorded(s)[entry(n)] = Found(state, Substs[n].key)
  <2>. HIDE DEF state, recorded
  <2>. DEFINE e == entry(n)
  <2>1. \A m \in recorded : entry(m) = e <=> m = n
    BY <1>5, Constants
  <2>2. (CHOOSE m \in recorded : entry(m) = e) = n
    BY <1>5, <2>1
  <2>3. e \in {entry(m) : m \in recorded}
    BY <1>5
  <2>. HIDE DEF e
  <2>4. Recorded(s)[e] = state[CHOOSE m \in recorded : entry(m) = e].value
    BY <1>6, <2>3
  <2>5. n \in 1..Len(state)
    BY <1>5 DEF recorded
  <2>. QED
    BY <1>4, <2>2, <2>4, <2>5 DEF e
<1>9. \A k \in Keys : Recorded(s)[<<cur[s], ver[s], k>>] = Found(state, k)
  <2>. SUFFICES ASSUME NEW k \in Keys PROVE Recorded(s)[<<cur[s], ver[s], k>>] = Found(state, k)
    OBVIOUS
  <2>1. PICK n \in Positions : Substs[n].key = k
    BY Constants
  <2>. HIDE DEF state
  <2>. QED
    BY <1>8, <2>1
<1>10. \A k \in Keys : Found(state, k) \in Value
  BY <1>1, <1>3, FoundIsThere
<1>11. \A k \in Keys : Recs(s, cur[s], ver[s], k)
  BY <1>3 DEF Recs, Id
<1>. HIDE DEF state
<1>. QED
  BY <1>3, <1>6, <1>7, <1>9, <1>10, <1>11

\* What SaveMap makes of the maps of the set.
SavedMaps(s) ==
  /\ identities' = [t \in Sets |-> identities'[t]] /\ configMap' = [t \in Sets |-> configMap'[t]]
  /\ \A t \in Sets : t # s => identities'[t] = identities[t] /\ configMap'[t] = configMap[t]
  /\ identities'[s] = Merge(identities[s], Recorded(s))
  /\ \/ configMap'[s] = Merge(configMap[s], identities'[s])
     \/ configMap'[s] = configMap[s] /\ ~Calm

LEMMA SaveMapFacts ==
  ASSUME TypeOK, NEW s \in Sets, SaveMap(s)
  PROVE  SavedMaps(s)
<1>. DEFINE new == Merge(identities[s], Recorded(s))
            all == Merge(configMap[s], identities'[s])
<1>1. identities' = [identities EXCEPT ![s] = new] /\ identities = [t \in Sets |-> identities[t]]
  BY DEF SaveMap, TypeOK
<1>2. \/ configMap' = [configMap EXCEPT ![s] = all]
      \/ configMap' = configMap /\ mapErrors < MaxMapErrors
  BY DEF SaveMap
<1>3. configMap = [t \in Sets |-> configMap[t]] /\ (Calm => ~(mapErrors < MaxMapErrors))
  BY DEF TypeOK, Calm
<1>. HIDE DEF new, all
<1>4. /\ identities' = [t \in Sets |-> identities'[t]] /\ identities'[s] = new
      /\ \A t \in Sets : t # s => identities'[t] = identities[t]
  BY <1>1
<1>5. /\ configMap' = [t \in Sets |-> configMap'[t]]
      /\ configMap'[s] = all \/ (configMap'[s] = configMap[s] /\ ~Calm)
      /\ \A t \in Sets : t # s => configMap'[t] = configMap[t]
  BY <1>2, <1>3
<1>. QED
  BY <1>4, <1>5 DEF SavedMaps, new, all

LEMMA SaveMapStep ==
  ASSUME TypeOK, NEW s \in Sets, Inv(s), SaveMap(s)
  PROVE  /\ Inv(s)' /\ SavedMaps(s)
         /\ DOMAIN identities'[s] \subseteq Entry
         /\ \A e \in DOMAIN identities'[s] : identities'[s][e] \in Value
         /\ DOMAIN configMap'[s] \subseteq Entry
         /\ \A e \in DOMAIN configMap'[s] : configMap'[s][e] \in Value
<1>. DEFINE rec == Recorded(s)
            new == identities'[s]
            cm == configMap[s]
            all == configMap'[s]
            i == cur[s]
            v == ver[s]
<1>1. pc[s] = "patch" /\ pos[s] > Len(Substs) /\ pc'[s] = "volume"
  BY DEF SaveMap, TypeOK
<1>2. /\ globalState' = globalState /\ mode' = mode /\ cur' = cur /\ ver' = ver /\ restarts' = restarts
      /\ replicas' = replicas /\ extName' = extName /\ servers' = servers /\ volumes' = volumes
  BY DEF SaveMap, objects
<1>3. SavedMaps(s)
  BY SaveMapFacts
<1>4. /\ i \in Idx /\ v \in Ver /\ (v # 0 => v - 1 \in Ver)
      /\ mode[s] = "create" <=> v = 0
      /\ mode[s] = "update" <=> v # 0
  BY <1>1, PatchFacts
<1>5. /\ \A k \in Keys : Recs(s, i, v, k)
      /\ DOMAIN rec = {<<i, v, k>> : k \in Keys}
      /\ \A k \in Keys : rec[<<i, v, k>>] \in Value /\ IsGiven(k, i, rec[<<i, v, k>>])
  BY <1>1, RecordedFacts
<1>. HIDE DEF rec
<1>6. \A e \in DOMAIN rec : /\ e \in Entry /\ e[1] = i /\ e[2] = v /\ e[3] \in Keys /\ e = <<i, v, e[3]>>
                            /\ rec[e] \in Value /\ IsGiven(e[3], e[1], rec[e]) /\ Recs(s, e[1], e[2], e[3])
  <2>. SUFFICES ASSUME NEW k \in Keys
                PROVE  LET e == <<i, v, k>>
                       IN  /\ e \in Entry /\ e[1] = i /\ e[2] = v /\ e[3] \in Keys /\ e = <<i, v, e[3]>>
                           /\ rec[e] \in Value /\ IsGiven(e[3], e[1], rec[e]) /\ Recs(s, e[1], e[2], e[3])
    BY <1>5
  <2>1. <<i, v, k>> \in Entry
    BY <1>4 DEF Entry
  <2>2. <<i, v, k>>[1] = i /\ <<i, v, k>>[2] = v /\ <<i, v, k>>[3] = k
    OBVIOUS
  <2>. QED
    BY <1>5, <2>1, <2>2
<1>7. /\ DOMAIN new = DOMAIN identities[s] \cup DOMAIN rec
      /\ \A e \in DOMAIN new : new[e] = IF e \in DOMAIN rec THEN rec[e] ELSE identities[s][e]
  <2>1. new = Merge(identities[s], rec)
    BY <1>3 DEF SavedMaps, rec
  <2>. HIDE DEF new
  <2>. QED
    BY <2>1 DEF Merge
<1>8. \/ /\ DOMAIN all = DOMAIN cm \cup DOMAIN new
         /\ \A e \in DOMAIN all : all[e] = IF e \in DOMAIN new THEN new[e] ELSE cm[e]
      \/ all = cm /\ ~Calm
  <2>1. all = Merge(cm, new) \/ (all = cm /\ ~Calm)
    BY <1>3 DEF SavedMaps
  <2>. HIDE DEF new, all, cm
  <2>. QED
    BY <2>1 DEF Merge
<1>9. /\ DOMAIN identities[s] \subseteq Entry /\ \A e \in DOMAIN identities[s] : identities[s][e] \in Value
      /\ DOMAIN cm \subseteq Entry /\ \A e \in DOMAIN cm : cm[e] \in Value
      /\ \A e \in DOMAIN identities[s] : IsGiven(e[3], e[1], identities[s][e])
      /\ \A e \in DOMAIN cm : IsGiven(e[3], e[1], cm[e])
      /\ Whole(identities[s]) /\ Whole(cm)
  BY DEF TypeOK, Inv, ByIndex, Shape
<1>10. Calm => Rooted(cm) /\ InHand(s, cm)
  BY DEF Inv, Mapped
<1>11. Calm /\ restarts = 0 => Rooted(identities[s]) /\ InHand(s, identities[s])
  BY DEF Inv, Listed
<1>12. Calm /\ restarts # 0 => DOMAIN identities[s] \subseteq DOMAIN cm
  BY DEF Inv, Reread
<1>13. AtHome(s)'
  <2>. SUFFICES ASSUME Home(s) PROVE AtHome(s)'
    BY <1>2 DEF AtHome, Home
  <2>1. \A a, b, k : Recs(s, a, b, k)' <=> Recs(s, a, b, k)
    BY <1>2 DEF Recs
  <2>2. AtHome(s)
    BY DEF Inv
  <2>3. \A e \in DOMAIN new : Recs(s, e[1], e[2], e[3])'
    BY <1>6, <1>7, <2>1, <2>2 DEF AtHome
  <2>4. \A e \in DOMAIN all : Recs(s, e[1], e[2], e[3])'
    BY <1>8, <2>1, <2>2, <2>3 DEF AtHome
  <2>. QED
    BY <1>2, <2>1, <2>2, <2>3, <2>4 DEF AtHome
<1>. HIDE DEF new, all, cm
<1>14. /\ DOMAIN new \subseteq Entry /\ \A e \in DOMAIN new : new[e] \in Value
       /\ \A e \in DOMAIN new : IsGiven(e[3], e[1], new[e])
  BY <1>6, <1>7, <1>9
<1>15. /\ DOMAIN all \subseteq Entry /\ \A e \in DOMAIN all : all[e] \in Value
       /\ \A e \in DOMAIN all : IsGiven(e[3], e[1], all[e])
  BY <1>8, <1>9, <1>14
<1>16. Whole(new)
  <2>. SUFFICES ASSUME NEW e \in DOMAIN new, NEW k \in Keys PROVE <<e[1], e[2], k>> \in DOMAIN new
    BY DEF Whole
  <2>1. CASE e \in DOMAIN identities[s]
    BY <1>7, <1>9, <2>1 DEF Whole
  <2>2. CASE e \in DOMAIN rec
    BY <1>5, <1>6, <1>7, <2>2
  <2>. QED
    BY <1>7, <2>1, <2>2
<1>17. Whole(all)
  BY <1>8, <1>9, <1>16 DEF Whole
<1>18. ByIndex(s)' /\ Shape(s)'
  <2>1. ByIndex(s) /\ Shape(s)
    BY DEF Inv
  <2>. QED
    BY <1>2, <1>14, <1>15, <1>16, <1>17, <2>1 DEF ByIndex, Shape, new, all
<1>19. Control(s)'
  BY <1>1, <1>2 DEF Inv, Control
<1>20. Written(s)'
  <2>1. \A k \in Keys : Has(globalState[s][<<cur[s], ver[s]>>], k)
    BY <1>5 DEF Recs
  <2>. QED
    BY <1>1, <1>2, <2>1 DEF Inv, Written, Recs, Known
<1>21. Away(s)'
  <2>1. \A j : Of(s, j)' = Of(s, j)
    BY <1>2 DEF Of
  <2>2. \A j : VolumeVersion(s, j)' = VolumeVersion(s, j)
    BY <2>1, VersionKept
  <2>. QED
    BY <1>1, <1>2, <2>1, <2>2 DEF Inv, Away, Home, Recs, Known
<1>22. Gone(s)'
  BY <1>1, <1>2 DEF Inv, Gone, Present
<1>23. \A k \in Keys : <<i, v, k>> \in DOMAIN new
  BY <1>5, <1>7
<1>24. Calm => DOMAIN cm \subseteq DOMAIN all /\ DOMAIN new \subseteq DOMAIN all
  BY <1>8
<1>25. ASSUME Calm PROVE Rooted(all)
  <2>. SUFFICES ASSUME NEW e \in DOMAIN all PROVE <<e[1], 0, e[3]>> \in DOMAIN all
    BY DEF Rooted
  <2>1. CASE e \in DOMAIN cm
    BY <1>10, <1>24, <1>25, <2>1 DEF Rooted
  <2>2. CASE e \in DOMAIN identities[s]
    BY <1>7, <1>10, <1>11, <1>12, <1>24, <1>25, <2>2 DEF Rooted
  <2>3. CASE e \in DOMAIN rec
    <3>1. e[1] = i /\ e[3] \in Keys
      BY <1>6, <2>3
    <3>2. CASE v = 0
      BY <1>23, <1>24, <1>25, <3>1, <3>2
    <3>3. CASE v # 0
      <4>. DEFINE old == <<i, v - 1, e[3]>>
      <4>1. old \in DOMAIN cm
        BY <1>1, <1>4, <1>10, <1>25, <3>1, <3>3 DEF InHand
      <4>2. <<old[1], 0, old[3]>> \in DOMAIN cm
        BY <1>10, <1>25, <4>1 DEF Rooted
      <4>. QED
        BY <1>24, <1>25, <3>1, <4>2
    <3>. QED
      BY <3>2, <3>3
  <2>. QED
    BY <1>7, <1>8, <1>25, <2>1, <2>2, <2>3
<1>26. ASSUME Calm, restarts = 0 PROVE Rooted(new)
  <2>. SUFFICES ASSUME NEW e \in DOMAIN new PROVE <<e[1], 0, e[3]>> \in DOMAIN new
    BY DEF Rooted
  <2>1. CASE e \in DOMAIN identities[s]
    BY <1>7, <1>11, <1>26, <2>1 DEF Rooted
  <2>2. CASE e \in DOMAIN rec
    <3>1. e[1] = i /\ e[3] \in Keys
      BY <1>6, <2>2
    <3>2. CASE v = 0
      BY <1>23, <3>1, <3>2
    <3>3. CASE v # 0
      <4>. DEFINE old == <<i, v - 1, e[3]>>
      <4>1. old \in DOMAIN identities[s]
        BY <1>1, <1>4, <1>11, <1>26, <3>1, <3>3 DEF InHand
      <4>2. <<old[1], 0, old[3]>> \in DOMAIN identities[s]
        BY <1>11, <1>26, <4>1 DEF Rooted
      <4>. QED
        BY <1>7, <3>1, <4>2
    <3>. QED
      BY <3>2, <3>3
  <2>. QED
    BY <1>7, <2>1, <2>2
<1>27. ASSUME Calm PROVE InHand(s, configMap[s])'
  <2>1. mode[s] = "update" => \A k \in Keys : <<cur[s], ver[s] - 1, k>> \in DOMAIN cm
    BY <1>1, <1>10, <1>27 DEF InHand
  <2>2. \A k \in Keys : <<cur[s], ver[s], k>> \in DOMAIN new
    BY <1>23
  <2>. QED
    BY <1>1, <1>2, <1>24, <1>27, <2>1, <2>2 DEF InHand, all
<1>28. ASSUME Calm, restarts = 0 PROVE InHand(s, identities[s])'
  <2>1. mode[s] = "update" => \A k \in Keys : <<cur[s], ver[s] - 1, k>> \in DOMAIN identities[s]
    BY <1>1, <1>11, <1>28 DEF InHand
  <2>2. \A k \in Keys : <<cur[s], ver[s], k>> \in DOMAIN new
    BY <1>23
  <2>. QED
    BY <1>1, <1>2, <1>7, <2>1, <2>2 DEF InHand, new
<1>29. Mapped(s)'
  <2>. SUFFICES ASSUME Calm PROVE Mapped(s)'
    BY DEF Mapped
  <2>1. \A j, k : (Recs(s, j, 0, k)' <=> Recs(s, j, 0, k)) /\ (Known(s, j, k)' <=> Known(s, j, k))
    BY <1>2 DEF Recs, Known
  <2>2. /\ \A w \in volumes[s] : w.idx \in servers[s] /\ \A k \in Keys : <<w.idx, w.ver, k>> \in DOMAIN cm
        /\ \A j \in Idx, k \in Keys : Known(s, j, k) => Recs(s, j, 0, k) \/ <<j, 0, k>> \in DOMAIN cm
        /\ cur[s] \in servers[s]
    BY <1>1 DEF Inv, Mapped, cm
  <2>3. /\ \A w \in volumes[s], k \in Keys : <<w.idx, w.ver, k>> \in DOMAIN all
        /\ \A j \in Idx, k \in Keys : Known(s, j, k)' => Recs(s, j, 0, k)' \/ <<j, 0, k>> \in DOMAIN all
    BY <1>24, <2>1, <2>2
  <2>. QED
    BY <1>2, <1>25, <1>27, <2>2, <2>3 DEF Mapped, all
<1>30. Listed(s)'
  BY <1>2, <1>7, <1>26, <1>28 DEF Inv, Listed, new
<1>31. Reread(s)'
  BY <1>2, <1>24 DEF Inv, Reread, Recs, Known, new, all
<1>. QED
  BY <1>3, <1>13, <1>14, <1>15, <1>18, <1>19, <1>20, <1>21, <1>22, <1>29, <1>30, <1>31 DEF Inv, new, all

\* The volume that is created has the addresses of its replica.
LEMMA CreateVolumeStep ==
  ASSUME TypeOK, NEW s \in Sets, Inv(s), CreateVolume(s)
  PROVE  Inv(s)' /\ volumes' \in [Sets -> SUBSET Volume]
<1>0. PICK i \in Idx : i = cur[s]
  BY PatchFacts DEF CreateVolume
<1>. DEFINE v == ver[s]
            data == [k \in Keys |-> Found(globalState[s][Id(s)], k)]
            new == [idx |-> i, ver |-> v, data |-> data]
<1>1. /\ pc[s] = "volume" /\ Id(s) = <<i, v>> /\ Id(s) \in Identifier /\ i \in Idx /\ v \in Ver
      /\ globalState[s][Id(s)] \in Seq(State)
      /\ mode[s] = "create" <=> v = 0
      /\ mode[s] = "update" <=> v # 0
  BY <1>0, PatchFacts DEF CreateVolume, Id
<1>2. \A k \in Keys : Recs(s, i, v, k) /\ Has(globalState[s][Id(s)], k)
  BY <1>0, <1>1 DEF Inv, Written, Recs
<1>3. data \in [Keys -> Value] /\ \A k \in Keys : data[k] = Found(globalState[s][Id(s)], k)
  BY <1>1, <1>2, FoundIsThere
<1>4. \A k \in Keys : IsGiven(k, i, data[k])
  BY <1>1, <1>2, <1>3 DEF Inv, ByIndex
<1>5. volumes' = [volumes EXCEPT ![s] = @ \cup {new}]
  BY <1>0 DEF CreateVolume
<1>. HIDE DEF data
<1>6. new \in Volume /\ new.idx = i /\ new.ver = v /\ new.data = data
  BY <1>1, <1>3 DEF Volume
<1>. HIDE DEF new
<1>7. volumes'[s] = volumes[s] \cup {new} /\ volumes' \in [Sets -> SUBSET Volume]
  BY <1>5, <1>6 DEF TypeOK
<1>8. /\ SameMemory(s) /\ restarts' = restarts /\ replicas' = replicas /\ extName' = extName
      /\ servers' = servers /\ configMap' = configMap /\ mode' = mode /\ ver' = ver
  BY DEF CreateVolume, Return, memory, SameMemory
<1>9. \/ pc'[s] = "idle"
      \/ mode[s] = "create" /\ pc'[s] = "create" /\ cur'[s] = i + 1
      \/ mode[s] = "update" /\ pc'[s] = "condemn" /\ cur'[s] = i
  BY <1>0 DEF CreateVolume, Return, TypeOK
<1>10. /\ \A a, b, k : Recs(s, a, b, k)' <=> Recs(s, a, b, k)
       /\ \A a, k : Known(s, a, k)' <=> Known(s, a, k)
  BY <1>8 DEF SameMemory, Recs, Known
<1>11. \A w \in volumes'[s] : w \in volumes[s] \/ w = new
  BY <1>7
<1>12. ByIndex(s)'
  BY <1>4, <1>6, <1>8, <1>11 DEF Inv, ByIndex, SameMemory
<1>13. Shape(s)'
  BY <1>8 DEF Inv, Shape, SameMemory
<1>14. AtHome(s)'
  BY <1>2, <1>6, <1>8, <1>10, <1>11 DEF Inv, AtHome, Home, SameMemory
<1>15. Control(s)'
  BY <1>0, <1>1, <1>8, <1>9 DEF Control
<1>16. Written(s)'
  <2>1. CASE pc'[s] = "idle"
    BY <2>1 DEF Written
  <2>2. CASE mode[s] = "create" /\ pc'[s] = "create" /\ cur'[s] = i + 1
    <3>1. \A j \in Idx : j < i + 1 => j < i \/ j = i
      BY <1>1 DEF Idx
    <3>2. \A k \in Keys : Known(s, i, k)
      BY <1>1, <1>2 DEF Known
    <3>3. \A j \in Idx, k \in Keys : j < i + 1 => Known(s, j, k)
      BY <1>0, <1>1, <2>2, <3>1, <3>2 DEF Inv, Written
    <3>. QED
      BY <1>10, <2>2, <3>3 DEF Written
  <2>3. CASE mode[s] = "update" /\ pc'[s] = "condemn" /\ cur'[s] = i
    <3>1. \A k \in Keys : Has(globalState'[s][<<i, v>>], k)
      BY <1>1, <1>2, <1>8 DEF SameMemory
    <3>. QED
      BY <1>0, <1>8, <2>3, <3>1 DEF Written, Recs
  <2>. QED
    BY <1>9, <2>1, <2>2, <2>3
<1>17. \A j \in Idx : j # i => Of(s, j)' = Of(s, j)
  BY <1>6, <1>7 DEF Of
<1>18. new \in Of(s, i)'
  BY <1>6, <1>7 DEF Of
<1>19. Away(s)'
  <2>. SUFFICES ASSUME ~Home(s), pc'[s] # "idle" PROVE Away(s)'
    BY <1>8 DEF Away, Home
  <2>1. ASSUME NEW w \in volumes'[s], NEW k \in Keys, Of(s, w.idx)' = {w}
        PROVE  Recs(s, w.idx, w.ver, k)'
    <3>1. CASE w.idx = i
      <4>1. w = new
        BY <1>18, <2>1, <3>1
      <4>. QED
        BY <1>2, <1>6, <1>10, <4>1
    <3>2. CASE w.idx # i
      <4>1. w \in volumes[s] /\ w.idx \in Idx
        BY <1>6, <1>11, <3>2 DEF TypeOK, Volume
      <4>2. Of(s, w.idx) = {w}
        BY <1>17, <2>1, <3>2, <4>1
      <4>. QED
        BY <1>1, <1>10, <4>1, <4>2 DEF Inv, Away
    <3>. QED
      BY <3>1, <3>2
  <2>2. ASSUME mode[s] = "create", NEW j \in Idx, NEW k \in Keys, VolumeVersion(s, j)' = 0, Known(s, j, k)
        PROVE  Recs(s, j, 0, k)
    <3>1. CASE j = i
      BY <1>1, <1>2, <2>2, <3>1
    <3>2. CASE j # i
      <4>1. VolumeVersion(s, j) = 0
        BY <1>17, <2>2, <3>2, VersionKept
      <4>. QED
        BY <1>1, <2>2, <4>1 DEF Inv, Away
    <3>. QED
      BY <3>1, <3>2
  <2>3. ASSUME mode[s] = "update", NEW w \in volumes'[s], w.idx = i
        PROVE  w.ver = v - 1 \/ w.ver = v
    BY <1>0, <1>1, <1>6, <1>11, <2>3 DEF Inv, Away
  <2>. QED
    BY <1>8, <1>9, <1>10, <2>1, <2>2, <2>3 DEF Away
<1>20. Gone(s)'
  BY <1>1, <1>8 DEF Inv, Gone, Present
<1>21. InHand(s, configMap[s])' /\ InHand(s, identities[s])'
  BY <1>9 DEF InHand
<1>22. Calm => i \in servers[s] /\ \A k \in Keys : <<i, v, k>> \in DOMAIN configMap[s]
  BY <1>0, <1>1 DEF Inv, Mapped, InHand
<1>23. Mapped(s)'
  BY <1>6, <1>8, <1>9, <1>10, <1>11, <1>21, <1>22 DEF Inv, Mapped
<1>24. Calm /\ restarts = 0 => \A k \in Keys : <<i, v, k>> \in DOMAIN identities[s]
  BY <1>0, <1>1 DEF Inv, Listed, InHand
<1>25. Listed(s)'
  BY <1>6, <1>8, <1>11, <1>21, <1>24 DEF Inv, Listed, SameMemory
<1>26. Reread(s)'
  BY <1>8, <1>10 DEF Inv, Reread, SameMemory
<1>. QED
  BY <1>7, <1>12, <1>13, <1>14, <1>15, <1>16, <1>19, <1>20, <1>23, <1>25, <1>26 DEF Inv

LEMMA EndSteps ==
  ASSUME TypeOK, NEW s \in Sets, Inv(s), TooMany(s) \/ Fail(s)
  PROVE  Inv(s)'
<1>1. SameObjects(s) /\ SameMemory(s) /\ pc'[s] = "idle"
  BY DEF TooMany, Fail, Return, objects, memory, faults, SameObjects, SameMemory, TypeOK
<1>. QED
  BY <1>1, EndKeeps

\* After an orderly restart nothing is remembered, and of every set that is there the
\* ConfigMap has what is needed.
LEMMA RestartStep ==
  ASSUME NoRestart \/ Calm, TypeOK, NEW s \in Sets, Inv(s), Restart
  PROVE  Inv(s)'
<1>1. Calm /\ restarts' # 0 /\ (Present(s) => extName[s])
  BY DEF NoRestart, Calm, Restart, TypeOK
<1>2. /\ globalState'[s] = Empty /\ identities'[s] = Nothing /\ pc'[s] = "idle"
      /\ replicas' = replicas /\ extName' = extName /\ servers' = servers
      /\ volumes' = volumes /\ configMap' = configMap
  BY DEF Restart
<1>3. DOMAIN Nothing = {} /\ \A id \in Identifier : Len(Empty[id]) = 0
  BY DEF Nothing, Empty
<1>4. \A i \in Idx, v \in Ver : \A k : ~Recs(s, i, v, k)'
  <2>1. \A i \in Idx, v \in Ver : <<i, v>> \in Identifier
    BY DEF Identifier
  <2>. QED
    BY <1>2, <1>3, <2>1 DEF Recs, Has
<1>5. \A id \in Identifier : \A k : ~Has(globalState'[s][id], k)
  BY <1>2, <1>3 DEF Has
<1>6. ByIndex(s)'
  BY <1>2, <1>3, <1>5 DEF Inv, ByIndex
<1>7. Shape(s)'
  <2>1. \A id \in Identifier : InOrder(globalState'[s][id])
    BY <1>2, <1>3, Constants DEF InOrder
  <2>. QED
    BY <1>2, <1>3, <2>1 DEF Inv, Shape, Whole
<1>8. AtHome(s)'
  <2>. SUFFICES ASSUME Home(s)' PROVE AtHome(s)'
    BY DEF AtHome
  <2>1. volumes[s] = {} /\ configMap[s] = Nothing
    BY <1>1, <1>2 DEF Home, Inv, Gone
  <2>. QED
    BY <1>2, <1>3, <1>4, <2>1 DEF AtHome
<1>9. Control(s)' /\ Written(s)' /\ Away(s)' /\ InHand(s, configMap[s])'
  BY <1>2 DEF Control, Written, Away, InHand
<1>10. Gone(s)'
  BY <1>2 DEF Inv, Gone, Present
<1>11. \A i \in Idx : \A k : ~Known(s, i, k)'
  BY <1>4 DEF Known
<1>12. Mapped(s)'
  BY <1>2, <1>9, <1>11 DEF Inv, Mapped
<1>13. Listed(s)' /\ Reread(s)'
  BY <1>1, <1>2, <1>3, <1>11 DEF Listed, Reread
<1>. QED
  BY <1>6, <1>7, <1>8, <1>9, <1>10, <1>12, <1>13 DEF Inv
-----------------------------------------------------------------------------
(* The types.                                                               *)

ObjectTypes ==
  /\ replicas \in [Sets -> 0..MaxReplicas]
  /\ extName \in [Sets -> BOOLEAN]
  /\ pending \in [Sets -> BOOLEAN]
  /\ servers \in [Sets -> SUBSET Idx]
  /\ volumes \in [Sets -> SUBSET Volume]
MapTypes ==
  /\ configMap = [s \in Sets |-> configMap[s]] /\ identities = [s \in Sets |-> identities[s]]
  /\ \A s \in Sets : /\ DOMAIN configMap[s] \subseteq Entry
                     /\ \A e \in DOMAIN configMap[s] : configMap[s][e] \in Value
                     /\ DOMAIN identities[s] \subseteq Entry
                     /\ \A e \in DOMAIN identities[s] : identities[s][e] \in Value
MemoryTypes == globalState \in [Sets -> [Identifier -> Seq(State)]]
ControlTypes ==
  /\ pc \in [Sets -> {"idle", "create", "update", "patch", "volume", "condemn"}]
  /\ mode \in [Sets -> {"create", "update"}]
  /\ cur \in [Sets -> 0..MaxReplicas]
  /\ ver \in [Sets -> Ver]
  /\ pos \in [Sets -> 1..Len(Substs) + 1]
FaultTypes ==
  /\ errors \in 0..MaxErrors
  /\ mapErrors \in 0..MaxMapErrors
  /\ restarts \in 0..MaxRestarts
  /\ losses \in 0..MaxLosses

LEMMA TypeParts ==
  TypeOK <=> ObjectTypes /\ MapTypes /\ MemoryTypes /\ ControlTypes /\ FaultTypes
  BY Zenon DEF TypeOK, ObjectTypes, MapTypes, MemoryTypes, ControlTypes, FaultTypes

LEMMA ObjectTypesStep ==
  ASSUME NoRestart \/ Calm, TypeOK, NEW s \in Sets, Inv(s),
         Reconcile(s) \/ Submit(s) \/ Grow(s) \/ Lose(s) \/ DeleteSet(s) \/ RemovePending(s)
  PROVE  ObjectTypes'
<1>. USE DEF ObjectTypes
<1>0. ObjectTypes
  BY TypeParts
<1>1. CASE ObserveNew(s) \/ ObserveSet(s) \/ TooMany(s) \/ (\E i \in Idx : Replace(s, i)) \/ Updated(s) \/ Substitute(s) \/ SaveMap(s) \/ Fail(s)
  BY <1>0, <1>1 DEF ObserveNew, ObserveSet, TooMany, Replace, Updated, Substitute, SaveMap, Fail, objects
<1>2. CASE Created(s) \/ RemovePending(s)
  BY <1>0, <1>2 DEF Created, RemovePending
<1>3. CASE CreateReplica(s)
  <2>2. cur[s] \in Idx
    BY <1>3, CreateReplicaStep
  <2>. QED
    BY <1>0, <2>2, <1>3 DEF CreateReplica
<1>4. CASE CreateVolume(s)
  <2>1. volumes' \in [Sets -> SUBSET Volume]
    BY <1>4, CreateVolumeStep
  <2>. QED
    BY <1>0, <2>1, <1>4 DEF CreateVolume
<1>5. CASE Condemn(s) \/ Lose(s)
  BY <1>0, <1>5 DEF Condemn, Lose
<1>6. CASE Submit(s) \/ Grow(s)
  BY <1>0, <1>6, Constants DEF Submit, Grow
<1>7. CASE DeleteSet(s)
  BY <1>0, <1>7, Constants DEF DeleteSet
<1>. QED
  BY <1>1, <1>2, <1>3, <1>4, <1>5, <1>6, <1>7 DEF Reconcile

LEMMA MapTypesStep ==
  ASSUME NoRestart \/ Calm, TypeOK, NEW s \in Sets, Inv(s),
         Reconcile(s) \/ Submit(s) \/ Grow(s) \/ Lose(s) \/ DeleteSet(s) \/ RemovePending(s)
  PROVE  MapTypes'
<1>0. MapTypes
  BY TypeParts
<1>1. CASE ObserveNew(s) \/ ObserveSet(s) \/ TooMany(s) \/ (\E i \in Idx : Replace(s, i)) \/ Updated(s) \/ Substitute(s) \/ Fail(s) \/ Created(s) \/ RemovePending(s) \/ CreateReplica(s) \/ CreateVolume(s) \/ Condemn(s) \/ Lose(s) \/ Submit(s) \/ Grow(s)
  <2>1. UNCHANGED <<configMap, identities>>
    BY <1>1 DEF ObserveNew, ObserveSet, TooMany, Replace, Updated, Substitute, Fail, Created,
             RemovePending, CreateReplica, CreateVolume, Condemn, Lose, Submit, Grow, memory
  <2>. QED
    BY <1>0, <2>1 DEF MapTypes
<1>2. CASE SaveMap(s)
  <2>1. /\ DOMAIN identities'[s] \subseteq Entry /\ \A e \in DOMAIN identities'[s] : identities'[s][e] \in Value
        /\ DOMAIN configMap'[s] \subseteq Entry /\ \A e \in DOMAIN configMap'[s] : configMap'[s][e] \in Value
        /\ identities' = [t \in Sets |-> identities'[t]] /\ configMap' = [t \in Sets |-> configMap'[t]]
        /\ \A t \in Sets : t # s => identities'[t] = identities[t] /\ configMap'[t] = configMap[t]
    BY <1>2, SaveMapStep DEF SavedMaps
  <2>2. ASSUME NEW t \in Sets
        PROVE  /\ DOMAIN configMap'[t] \subseteq Entry
               /\ \A e \in DOMAIN configMap'[t] : configMap'[t][e] \in Value
               /\ DOMAIN identities'[t] \subseteq Entry
               /\ \A e \in DOMAIN identities'[t] : identities'[t][e] \in Value
    BY <1>0, <2>1 DEF MapTypes
  <2>. QED
    BY <2>1, <2>2 DEF MapTypes
<1>3. CASE DeleteSet(s)
  <2>1. identities' = identities /\ configMap' = [configMap EXCEPT ![s] = Nothing]
    BY <1>3 DEF DeleteSet, memory
  <2>2. DOMAIN Nothing = {}
    BY DEF Nothing
  <2>3. configMap = [t \in Sets |-> configMap[t]]
    BY <1>0 DEF MapTypes
  <2>4. /\ configMap'[s] = Nothing /\ \A t \in Sets : t # s => configMap'[t] = configMap[t]
        /\ configMap' = [t \in Sets |-> configMap'[t]]
    BY <2>1, <2>3
  <2>. QED
    BY <1>0, <2>1, <2>2, <2>4 DEF MapTypes
<1>. QED
  BY <1>1, <1>2, <1>3 DEF Reconcile

LEMMA MemoryTypesStep ==
  ASSUME NoRestart \/ Calm, TypeOK, NEW s \in Sets, Inv(s),
         Reconcile(s) \/ Submit(s) \/ Grow(s) \/ Lose(s) \/ DeleteSet(s) \/ RemovePending(s)
  PROVE  MemoryTypes'
<1>0. MemoryTypes
  BY TypeParts
<1>1. CASE ObserveNew(s) \/ TooMany(s) \/ (\E i \in Idx : Replace(s, i)) \/ Fail(s) \/ Created(s) \/ RemovePending(s) \/ CreateReplica(s) \/ CreateVolume(s) \/ Condemn(s) \/ Lose(s) \/ Submit(s) \/ Grow(s) \/ SaveMap(s) \/ DeleteSet(s)
  <2>1. globalState' = globalState
    BY <1>1 DEF ObserveNew, TooMany, Replace, Fail, Created, RemovePending, CreateReplica,
             CreateVolume, Condemn, Lose, Submit, Grow, SaveMap, DeleteSet, memory
  <2>. QED
    BY <1>0, <2>1 DEF MemoryTypes
<1>2. CASE ObserveSet(s) \/ Updated(s)
  BY <1>0, <1>2, ObserveSteps DEF MemoryTypes, Rebuilt
<1>3. CASE Substitute(s)
  BY <1>3, SubstituteStep DEF MemoryTypes
<1>. QED
  BY <1>1, <1>2, <1>3 DEF Reconcile

LEMMA ControlTypesStep ==
  ASSUME NoRestart \/ Calm, TypeOK, NEW s \in Sets, Inv(s),
         Reconcile(s) \/ Submit(s) \/ Grow(s) \/ Lose(s) \/ DeleteSet(s) \/ RemovePending(s)
  PROVE  ControlTypes'
<1>. USE DEF ControlTypes
<1>0. ControlTypes
  BY TypeParts
<1>1. CASE ObserveNew(s) \/ ObserveSet(s)
  <2>1. 0 \in 0..MaxReplicas
    BY Constants
  <2>2. \E to \in {"create", "update"} : /\ pc' = [pc EXCEPT ![s] = to]
                                        /\ mode' = [mode EXCEPT ![s] = to]
    BY <1>1 DEF ObserveNew, ObserveSet
  <2>3. cur' = [cur EXCEPT ![s] = 0] /\ ver' = ver /\ pos' = pos
    BY <1>1 DEF ObserveNew, ObserveSet
  <2>. QED
    BY <1>0, <2>1, <2>2, <2>3
<1>2. CASE Submit(s) \/ Grow(s) \/ Lose(s) \/ DeleteSet(s) \/ RemovePending(s)
  BY <1>0, <1>2 DEF Submit, Grow, Lose, DeleteSet, RemovePending, control
<1>3. CASE Created(s) \/ TooMany(s) \/ Updated(s) \/ Fail(s)
  BY <1>0, <1>3 DEF Created, TooMany, Updated, Fail, Return
<1>4. CASE CreateReplica(s)
  <2>1. cur[s] < replicas[s] /\ replicas[s] \in 0..MaxReplicas
    BY <1>4 DEF CreateReplica, TypeOK
  <2>2. cur[s] + 1 \in 0..MaxReplicas /\ 0 \in Ver /\ 1 \in 1..Len(Substs) + 1
    BY <1>0, <2>1, Constants DEF Ver
  <2>3. \/ /\ pc' = [pc EXCEPT ![s] = "patch"] /\ ver' = [ver EXCEPT ![s] = 0]
           /\ pos' = [pos EXCEPT ![s] = 1] /\ cur' = cur
        \/ cur' = [cur EXCEPT ![s] = cur[s] + 1] /\ UNCHANGED <<pc, ver, pos>>
    BY <1>4 DEF CreateReplica
  <2>4. mode' = mode
    BY <1>4 DEF CreateReplica
  <2>. QED
    BY <1>0, <2>2, <2>3, <2>4
<1>5. CASE (\E i \in Idx : Replace(s, i))
  <2>1. PICK i \in Idx : Replace(s, i)
    BY <1>5
  <2>2. PICK v \in Of(s, i) : v.ver < MaxVersion /\ ver' = [ver EXCEPT ![s] = v.ver + 1]
    BY <2>1 DEF Replace
  <2>3. v.ver \in Ver
    BY <2>2 DEF Of, TypeOK, Volume
  <2>4. v.ver + 1 \in Ver /\ i \in 0..MaxReplicas
    BY <2>2, <2>3, Constants DEF Ver, Idx
  <2>. QED
    BY <1>0, <2>1, <2>2, <2>4, Constants DEF Replace
<1>6. CASE Substitute(s)
  <2>1. \/ UNCHANGED <<pc, mode, cur, ver>> /\ pos' = [pos EXCEPT ![s] = @ + 1]
        \/ Return(s)
    BY <1>6 DEF Substitute, Set
  <2>2. pos[s] <= Len(Substs)
    BY <1>6 DEF Substitute
  <2>3. pos[s] + 1 \in 1..Len(Substs) + 1
    BY <1>0, <2>2, Constants
  <2>. QED
    BY <1>0, <2>1, <2>3 DEF Return
<1>7. CASE SaveMap(s) \/ Condemn(s)
  BY <1>0, <1>7 DEF SaveMap, Condemn
<1>8. CASE CreateVolume(s)
  <2>1. cur[s] \in Idx
    BY <1>8, PatchFacts DEF CreateVolume
  <2>2. cur[s] + 1 \in 0..MaxReplicas
    BY <2>1, Constants DEF Idx
  <2>. QED
    BY <1>0, <2>2, <1>8 DEF CreateVolume, Return
<1>. QED
  BY <1>1, <1>2, <1>3, <1>4, <1>5, <1>6, <1>7, <1>8 DEF Reconcile

LEMMA FaultTypesStep ==
  ASSUME NoRestart \/ Calm, TypeOK, NEW s \in Sets, Inv(s),
         Reconcile(s) \/ Submit(s) \/ Grow(s) \/ Lose(s) \/ DeleteSet(s) \/ RemovePending(s)
  PROVE  FaultTypes'
<1>. USE DEF FaultTypes
<1>0. FaultTypes
  BY TypeParts
<1>1. CASE ObserveNew(s) \/ CreateReplica(s) \/ Created(s) \/ TooMany(s) \/ (\E i \in Idx : Replace(s, i)) \/ Condemn(s) \/ Substitute(s) \/ Submit(s) \/ Grow(s) \/ RemovePending(s)
  BY <1>0, <1>1 DEF ObserveNew, CreateReplica, Created, TooMany, Replace, Condemn, Substitute,
                 Submit, Grow, RemovePending, faults
<1>2. CASE ObserveSet(s) \/ Updated(s)
  <2>1. mapErrors' \in 0..MaxMapErrors
    <3>1. PICK failed \in Failing(s) : Rebuild(s, failed)
      BY <1>2 DEF ObserveSet, Updated
    <3>. QED
      BY <1>0, <3>1, BoundsAssumption DEF Failing, Rebuild
  <2>. QED
    BY <1>0, <2>1, <1>2 DEF ObserveSet, Updated
<1>3. CASE SaveMap(s) \/ CreateVolume(s) \/ Fail(s) \/ Lose(s) \/ DeleteSet(s)
  BY <1>0, <1>3, BoundsAssumption DEF SaveMap, CreateVolume, Fail, Lose, DeleteSet
<1>. QED
  BY <1>1, <1>2, <1>3 DEF Reconcile

LEMMA TypeStep ==
  ASSUME NoRestart \/ Calm, TypeOK, NEW s \in Sets, Inv(s),
         Reconcile(s) \/ Submit(s) \/ Grow(s) \/ Lose(s) \/ DeleteSet(s) \/ RemovePending(s)
  PROVE  TypeOK'
<1>1. (ObjectTypes /\ MapTypes /\ MemoryTypes /\ ControlTypes /\ FaultTypes)'
  BY ObjectTypesStep, MapTypesStep, MemoryTypesStep, ControlTypesStep, FaultTypesStep
<1>. QED
  BY <1>1, Zenon DEF TypeOK, ObjectTypes, MapTypes, MemoryTypes, ControlTypes, FaultTypes

-----------------------------------------------------------------------------
(* The invariant holds.                                                     *)

\* A step of one set leaves the others alone.
LEMMA OthersAreSame ==
  ASSUME NoRestart \/ Calm, TypeOK, NEW s \in Sets, Inv(s),
         Reconcile(s) \/ Submit(s) \/ Grow(s) \/ Lose(s) \/ DeleteSet(s) \/ RemovePending(s),
         NEW t \in Sets, t # s
  PROVE  SameObjects(t) /\ SameMemory(t) /\ SameControl(t)
<1>1. SameObjects(t)
  <2>1. CASE ObserveNew(s) \/ ObserveSet(s) \/ TooMany(s) \/ (\E i \in Idx : Replace(s, i)) \/ Updated(s) \/ Substitute(s) \/ Fail(s)
    BY <2>1 DEF ObserveNew, ObserveSet, TooMany, Replace, Updated, Substitute, Fail, objects, faults, SameObjects
  <2>2. CASE Created(s) \/ CreateReplica(s) \/ CreateVolume(s) \/ Condemn(s)
    BY <2>2 DEF Created, CreateReplica, CreateVolume, Condemn, faults, SameObjects, TypeOK
  <2>3. CASE SaveMap(s)
    BY <2>3, SaveMapFacts DEF SaveMap, SavedMaps, objects, SameObjects
  <2>4. CASE Submit(s) \/ Grow(s) \/ Lose(s) \/ RemovePending(s)
    BY <2>4 DEF Submit, Grow, Lose, RemovePending, faults, SameObjects, TypeOK
  <2>5. CASE DeleteSet(s)
    BY <2>5 DEF DeleteSet, SameObjects, TypeOK
  <2>. QED
    BY <2>1, <2>2, <2>3, <2>4, <2>5 DEF Reconcile
<1>2. SameMemory(t)
  <2>1. CASE ObserveSet(s) \/ Updated(s)
    BY <2>1, ObserveSteps DEF ObserveSet, Updated, Rebuilt, SameMemory
  <2>2. CASE Substitute(s)
    BY <2>2, SubstituteStep DEF Substitute, SameMemory
  <2>3. CASE SaveMap(s)
    BY <2>3, SaveMapFacts DEF SaveMap, SavedMaps, SameMemory
  <2>4. CASE ~(ObserveSet(s) \/ Updated(s) \/ Substitute(s) \/ SaveMap(s))
    BY <2>4 DEF Reconcile, ObserveNew, TooMany, Replace, Fail, Created, CreateReplica, CreateVolume, Condemn,
             Submit, Grow, Lose, DeleteSet, RemovePending, memory, SameMemory
  <2>. QED
    BY <2>1, <2>2, <2>3, <2>4
<1>3. SameControl(t)
  <2>1. CASE ObserveNew(s) \/ ObserveSet(s) \/ CreateReplica(s) \/ (\E i \in Idx : Replace(s, i)) \/ SaveMap(s) \/ Condemn(s)
    BY <2>1 DEF ObserveNew, ObserveSet, CreateReplica, Replace, SaveMap, Condemn, SameControl, TypeOK
  <2>2. CASE TooMany(s) \/ Updated(s) \/ Fail(s) \/ Created(s) \/ Substitute(s) \/ CreateVolume(s)
    BY <2>2 DEF TooMany, Updated, Fail, Created, Substitute, Set, CreateVolume, Return, SameControl, TypeOK
  <2>3. CASE Submit(s) \/ Grow(s) \/ Lose(s) \/ DeleteSet(s) \/ RemovePending(s)
    BY <2>3 DEF Submit, Grow, Lose, DeleteSet, RemovePending, control, SameControl
  <2>. QED
    BY <2>1, <2>2, <2>3 DEF Reconcile
<1>. QED
  BY <1>1, <1>2, <1>3

\* A step of a set keeps its own part of the invariant.
LEMMA OwnStep ==
  ASSUME NoRestart \/ Calm, TypeOK, NEW s \in Sets, Inv(s),
         Reconcile(s) \/ Submit(s) \/ Grow(s) \/ Lose(s) \/ DeleteSet(s) \/ RemovePending(s)
  PROVE  Inv(s)'
<1>1. CASE ObserveNew(s) \/ ObserveSet(s) \/ Updated(s)
  BY <1>1, ObserveNewStep, ObserveSteps
<1>2. CASE CreateReplica(s) \/ Created(s) \/ TooMany(s) \/ Fail(s)
  BY <1>2, CreateReplicaStep, CreatedStep, EndSteps
<1>3. CASE (\E i \in Idx : Replace(s, i)) \/ Condemn(s)
  BY <1>3, ReplaceStep, CondemnStep
<1>4. CASE Substitute(s) \/ SaveMap(s) \/ CreateVolume(s)
  BY <1>4, SubstituteStep, SaveMapStep, CreateVolumeStep
<1>5. CASE Submit(s) \/ Grow(s) \/ RemovePending(s) \/ Lose(s) \/ DeleteSet(s)
  BY <1>5, SpecSteps, LoseStep, DeleteSetStep
<1>. QED
  BY <1>1, <1>2, <1>3, <1>4, <1>5 DEF Reconcile

AllInv == \A s \in Sets : Inv(s)

LEMMA Invariant ==
  ASSUME NoRestart \/ Calm
  PROVE  Spec => [](TypeOK /\ AllInv)
<1>1. Init => TypeOK /\ AllInv
  <2>. SUFFICES ASSUME Init PROVE TypeOK /\ AllInv
    OBVIOUS
  <2>1. DOMAIN Nothing = {} /\ Empty \in [Identifier -> Seq(State)] /\ \A id \in Identifier : Len(Empty[id]) = 0
    <3>1. <<>> \in Seq(State)
      OBVIOUS
    <3>. QED
      BY <3>1 DEF Empty, Nothing
  <2>2. ObjectTypes /\ ControlTypes /\ FaultTypes
    BY Constants, BoundsAssumption DEF Init, ObjectTypes, ControlTypes, FaultTypes, Ver
  <2>3. MapTypes /\ MemoryTypes
    BY <2>1 DEF Init, MapTypes, MemoryTypes
  <2>4. ASSUME NEW s \in Sets
        PROVE  Inv(s)
    <3>1. /\ volumes[s] = {} /\ servers[s] = {} /\ configMap[s] = Nothing /\ identities[s] = Nothing
          /\ globalState[s] = Empty /\ pc[s] = "idle" /\ ~extName[s] /\ restarts = 0
      BY DEF Init
    <3>2. \A id \in Identifier : \A k : ~Has(globalState[s][id], k)
      BY <2>1, <3>1 DEF Has
    <3>3. \A i \in Idx, v \in Ver : \A k : ~Recs(s, i, v, k)
      <4>1. \A i \in Idx, v \in Ver : <<i, v>> \in Identifier
        BY DEF Identifier
      <4>. QED
        BY <3>2, <4>1 DEF Recs
    <3>4. \A i \in Idx : \A k : ~Known(s, i, k)
      BY <3>3 DEF Known
    <3>5. ByIndex(s) /\ AtHome(s)
      BY <2>1, <3>1, <3>2, <3>3 DEF ByIndex, AtHome
    <3>6. \A id \in Identifier : InOrder(globalState[s][id])
      BY <2>1, <3>1, Constants DEF InOrder
    <3>7. Shape(s)
      BY <2>1, <3>1, <3>6 DEF Shape, Whole
    <3>8. Control(s) /\ Written(s) /\ Away(s) /\ Gone(s)
      BY <3>1 DEF Control, Written, Away, Gone
    <3>9. Mapped(s) /\ Listed(s) /\ Reread(s)
      BY <2>1, <3>1, <3>4 DEF Mapped, Listed, Reread, Rooted, InHand
    <3>. QED
      BY <3>5, <3>7, <3>8, <3>9 DEF Inv
  <2>. QED
    BY <2>2, <2>3, <2>4, TypeParts DEF AllInv
<1>2. TypeOK /\ AllInv /\ [Next]_vars => (TypeOK /\ AllInv)'
  <2>. SUFFICES ASSUME TypeOK, AllInv, [Next]_vars PROVE TypeOK' /\ AllInv'
    OBVIOUS
  <2>1. CASE UNCHANGED vars
    <3>1. TypeOK'
      BY <2>1 DEF TypeOK, vars, memory, objects, control, faults
    <3>2. \A s \in Sets : SameObjects(s) /\ SameMemory(s) /\ SameControl(s)
      BY <2>1 DEF vars, memory, objects, control, faults, SameObjects, SameMemory, SameControl
    <3>. QED
      BY <3>1, <3>2, SameKeeps DEF AllInv
  <2>2. ASSUME NEW s \in Sets, Reconcile(s) \/ Submit(s) \/ Grow(s) \/ Lose(s)
                               \/ DeleteSet(s) \/ RemovePending(s)
        PROVE  TypeOK' /\ AllInv'
    <3>1. TypeOK'
      BY <2>2, TypeStep DEF AllInv
    <3>2. Inv(s)'
      BY <2>2, OwnStep DEF AllInv
    <3>3. \A t \in Sets : t # s => Inv(t)'
      BY <2>2, OthersAreSame, SameKeeps DEF AllInv
    <3>. QED
      BY <3>1, <3>2, <3>3 DEF AllInv
  <2>3. CASE Restart
    <3>1. TypeOK'
      <4>. USE <2>3 DEF Restart
      <4>1. Empty \in [Identifier -> Seq(State)] /\ DOMAIN Nothing = {}
        <5>1. <<>> \in Seq(State)
          OBVIOUS
        <5>. QED
          BY <5>1 DEF Empty, Nothing
      <4>2. ObjectTypes' /\ ControlTypes'
        BY TypeParts DEF ObjectTypes, ControlTypes
      <4>3. MapTypes' /\ MemoryTypes'
        BY <4>1, TypeParts DEF MapTypes, MemoryTypes
      <4>4. FaultTypes'
        BY TypeParts, BoundsAssumption DEF FaultTypes
      <4>. QED
        BY <4>2, <4>3, <4>4, Zenon DEF TypeOK, ObjectTypes, MapTypes, MemoryTypes, ControlTypes, FaultTypes
    <3>2. \A s \in Sets : Inv(s)'
      BY <2>3, RestartStep DEF AllInv
    <3>. QED
      BY <3>1, <3>2 DEF AllInv
  <2>. QED
    BY <2>1, <2>2, <2>3 DEF Next
<1>. QED
  BY <1>1, <1>2, PTL DEF Spec

-----------------------------------------------------------------------------
(* The theorems.                                                            *)

\* Every value a set's memory, its ConfigMap and its volumes hold is an address of
\* a template's prefix or nil, without a restart or with restarts that are orderly.
THEOREM TypesHold ==
  ASSUME NoRestart \/ Calm
  PROVE  Spec => []TypeOK
  BY Invariant, PTL

\* The addresses of a volume are a function of the index of its replica.
AddressesFollowIndex ==
  \A s \in Sets : \A v \in volumes[s], k \in Keys : v.data[k] = Address(k, v.idx)

\* WriteGlobalState gives the replica of index i the address number i of the prefix of
\* a unique key, and the first one for any other key, whichever version it is called
\* for and whatever the process still remembers (bootvolume_controller.go:87-132): a
\* replica whose volume is lost is given the address it had.
THEOREM AddressesAreByIndex ==
  ASSUME NoRestart \/ Calm
  PROVE  Spec => []AddressesFollowIndex
<1>1. AllInv => AddressesFollowIndex
  BY DEF AllInv, Inv, ByIndex, IsGiven, AddressesFollowIndex
<1>. QED
  BY <1>1, Invariant, PTL

\* No two replicas of a set have the same address for a unique key
\* (bootvolume_controller.go:87-132), whatever fails, is lost or scaled, without a
\* restart or with restarts that are orderly.
THEOREM ReplicasHaveOwnAddresses ==
  ASSUME NoRestart \/ Calm
  PROVE  Spec => []UniqueValues
<1>1. TypeOK /\ AllInv => UniqueValues
  <2>. SUFFICES ASSUME TypeOK, AllInv, NEW s \in Sets, NEW v \in volumes[s], NEW w \in volumes[s],
                       v.idx # w.idx, NEW k \in Unique
                PROVE  v.data[k] # w.data[k]
    BY DEF UniqueValues
  <2>a. v \in Volume /\ w \in Volume
    BY DEF TypeOK
  <2>1. v.idx \in Idx /\ w.idx \in Idx /\ k \in Keys
    BY <2>a DEF Volume, Keys, Unique
  <2>2. IsGiven(k, v.idx, v.data[k]) /\ IsGiven(k, w.idx, w.data[k])
    BY <2>1 DEF AllInv, Inv, ByIndex
  <2>. QED
    BY <2>1, <2>2, AddressesDiffer
<1>. QED
  BY <1>1, Invariant, PTL

\* What the ConfigMap, and the set's status, says of a volume is what the volume was
\* created with (bootvolume_controller.go:107-119, configmap_controller.go:64-94),
\* whatever fails on the way, without a restart or with restarts that are orderly.
THEOREM StatusTellsTheTruth ==
  ASSUME NoRestart \/ Calm
  PROVE  Spec => []MapAgrees
<1>1. AllInv => MapAgrees
  <2>. SUFFICES ASSUME AllInv, NEW s \in Sets, NEW v \in volumes[s], NEW k \in Keys,
                       <<v.idx, v.ver, k>> \in DOMAIN configMap[s]
                PROVE  configMap[s][<<v.idx, v.ver, k>>] = v.data[k]
    BY DEF MapAgrees
  <2>. DEFINE e == <<v.idx, v.ver, k>>
  <2>1. e[1] = v.idx /\ e[3] = k /\ e \in DOMAIN configMap[s]
    OBVIOUS
  <2>. HIDE DEF e
  <2>2. IsGiven(k, v.idx, configMap[s][e]) /\ IsGiven(k, v.idx, v.data[k])
    BY <2>1 DEF AllInv, Inv, ByIndex
  <2>. QED
    BY <2>2 DEF IsGiven, e
<1>. QED
  BY <1>1, Invariant, PTL

\* Every IPv6 prefix whose addresses are unique has an address for each replica.
Roomy ==
  \A n \in Positions : Substs[n].unique /\ Substs[n].type = "ipv6Address"
                       => Substs[n].size >= MaxReplicas

\* No volume is created with "<nil>" for an address (substitution_ipv6_address.go:76-85):
\* replacing volumes does not use addresses up, so that a prefix with an address for
\* each replica is enough, without a restart or with restarts that are orderly.
THEOREM AddressesSuffice ==
  ASSUME NoRestart \/ Calm, Roomy
  PROVE  Spec => []OnlyAddresses
<1>1. ASSUME NEW k \in Keys, NEW i \in Idx
      PROVE  Address(k, i) # NilIP
  <2>1. PICK n \in Positions : Substs[n].key = k
    BY Constants
  <2>2. SubstOf(k) = Substs[n]
    BY <2>1, SubstOfKey
  <2>3. /\ SubstOf(k).size \in Nat \ {0} /\ SubstOf(k).unique \in BOOLEAN
        /\ SubstOf(k).type \in {"ipv4Address", "ipv6Address"}
    BY SubstFacts
  <2>4. SubstOf(k).unique /\ SubstOf(k).type = "ipv6Address" => i < SubstOf(k).size
    BY <2>2, <2>3, Constants DEF Roomy, Idx
  <2>. QED
    BY <2>3, <2>4 DEF Address, Rank, NilIP, Idx
<1>2. TypeOK /\ AllInv => OnlyAddresses
  <2>. SUFFICES ASSUME TypeOK, AllInv, NEW s \in Sets, NEW v \in volumes[s], NEW k \in Keys
                PROVE  v.data[k] # NilIP
    BY DEF OnlyAddresses
  <2>1. v.idx \in Idx
    BY DEF TypeOK, Volume
  <2>2. v.data[k] = Address(k, v.idx)
    BY DEF AllInv, Inv, ByIndex, IsGiven
  <2>. QED
    BY <1>1, <2>1, <2>2
<1>. QED
  BY <1>2, Invariant, PTL

-----------------------------------------------------------------------------
(* The abstract specification.                                              *)

\* What is read off the ConfigMap is the address of the replica.
AsBooked ==
  \A s \in Sets : \A x \in DOMAIN Book(s) :
    x \in Idx \X Keys /\ IsGiven(x[2], x[1], Book(s)[x])

LEMMA BookIsGiven == TypeOK /\ AllInv => AsBooked
<1>. SUFFICES ASSUME TypeOK, AllInv, NEW s \in Sets, NEW x \in DOMAIN Book(s)
              PROVE  x \in Idx \X Keys /\ IsGiven(x[2], x[1], Book(s)[x])
  BY DEF AsBooked
<1>. DEFINE cm == configMap[s]
            named(e) == e[1] = x[1] /\ e[3] = x[2]
<1>1. x \in {<<e[1], e[3]>> : e \in DOMAIN cm} /\ Book(s)[x] = cm[CHOOSE e \in DOMAIN cm : named(e)]
  BY DEF Book
<1>2. PICK e \in DOMAIN cm : e = (CHOOSE d \in DOMAIN cm : named(d)) /\ named(e)
  BY <1>1
<1>3. DOMAIN cm \subseteq Idx \X Ver \X Keys
  BY DEF TypeOK, Entry
<1>4. x \in Idx \X Keys
  BY <1>1, <1>3
<1>5. IsGiven(e[3], e[1], cm[e])
  BY DEF AllInv, Inv, ByIndex
<1>. QED
  BY <1>1, <1>2, <1>4, <1>5

\* The book of a set is a function of its ConfigMap.
ReadOff(cm) ==
  [x \in {<<e[1], e[3]>> : e \in DOMAIN cm} |->
     cm[CHOOSE e \in DOMAIN cm : e[1] = x[1] /\ e[3] = x[2]]]

LEMMA BookOfMap ==
  ASSUME NEW t \in Sets, configMap'[t] = configMap[t]
  PROVE  Book(t)' = Book(t)
<1>1. Book(t) = ReadOff(configMap[t])
  BY DEF Book, ReadOff
<1>2. Book(t)' = ReadOff(configMap'[t])
  BY DEF Book, ReadOff
<1>. QED
  BY <1>1, <1>2

\* What SaveMap adds to the ConfigMap are values of replicas that had none: Assign.
LEMMA SaveMapAssigns ==
  ASSUME TypeOK, AsBooked, AsBooked', NEW s \in Sets, SaveMap(s)
  PROVE  Promise!Assign(s)
<1>1. SavedMaps(s)
  BY SaveMapFacts
<1>2. DOMAIN configMap[s] \subseteq DOMAIN configMap'[s]
  BY <1>1 DEF SavedMaps, Merge
<1>3. ASSUME NEW t \in Sets \ {s} PROVE Book(t)' = Book(t)
  BY <1>1, BookOfMap DEF SavedMaps
<1>4. DOMAIN Book(s) \subseteq DOMAIN Book(s)'
  BY <1>2 DEF Book
<1>5. \A x \in DOMAIN Book(s) : Book(s)'[x] = Book(s)[x]
  BY <1>4 DEF AsBooked, IsGiven
<1>6. DOMAIN Book(s)' \in SUBSET (Idx \X Keys)
  BY DEF AsBooked
<1>7. ASSUME NEW i \in Idx, NEW j \in Idx, NEW k \in Unique, i # j,
             <<i, k>> \in DOMAIN Book(s)', <<j, k>> \in DOMAIN Book(s)'
      PROVE  Book(s)'[<<i, k>>] # Book(s)'[<<j, k>>]
  <2>. DEFINE x == <<i, k>>
              y == <<j, k>>
  <2>1. x[1] = i /\ x[2] = k /\ y[1] = j /\ y[2] = k
    OBVIOUS
  <2>2. IsGiven(x[2], x[1], Book(s)'[x]) /\ IsGiven(y[2], y[1], Book(s)'[y])
    BY <1>7 DEF AsBooked
  <2>. HIDE DEF x, y
  <2>3. IsGiven(k, i, Book(s)'[x]) /\ IsGiven(k, j, Book(s)'[y])
    BY <2>1, <2>2
  <2>4. Book(s)'[x] # Book(s)'[y]
    BY <1>7, <2>3, AddressesDiffer
  <2>. QED
    BY <2>4 DEF x, y
<1>. DEFINE book == [t \in Sets |-> Book(t)]
            after == [t \in Sets |-> Book(t)']
<1>8. /\ book[s] = Book(s) /\ after[s] = Book(s)'
      /\ \A t \in Sets \ {s} : after[t] = book[t]
  BY <1>3
<1>. QED
  BY <1>3, <1>4, <1>5, <1>6, <1>7, <1>8
     DEF Promise!Assign, Promise!Given, Promise!Distinct

\* A set that is deleted loses its book, and no other set does: Forget.
LEMMA DeleteSetForgets ==
  ASSUME TypeOK, NEW s \in Sets, DeleteSet(s)
  PROVE  Promise!Forget(s)
<1>1. /\ configMap'[s] = Nothing
      /\ \A t \in Sets : t # s => configMap'[t] = configMap[t]
  BY DEF DeleteSet, TypeOK
<1>2. Book(s)' = [x \in {} |-> {}]
  <2>1. DOMAIN configMap'[s] = {}
    BY <1>1 DEF Nothing
  <2>. QED
    BY <2>1 DEF Book
<1>3. ASSUME NEW t \in Sets, t # s PROVE Book(t)' = Book(t)
  BY <1>1, <1>3, BookOfMap
<1>. DEFINE now(t) == Book(t)
            then(t) == Book(t)'
<1>4. then(s) = [x \in {} |-> {}] /\ \A t \in Sets : t # s => then(t) = now(t)
  BY <1>2, <1>3
<1>. HIDE DEF now, then
<1>5. [t \in Sets |-> then(t)] = [[t \in Sets |-> now(t)] EXCEPT ![s] = [x \in {} |-> {}]]
  BY <1>4
<1>. QED
  BY <1>5 DEF Promise!Forget, now, then

\* The reconciles keep the promise of module AddressBook, step by step: what a
\* replica was given for a key it keeps over the versions of its volume, whatever
\* fails, is lost or scaled (bootvolume_controller.go:87-132), without a restart or
\* with restarts that are orderly.
THEOREM BookIsKept ==
  ASSUME NoRestart \/ Calm
  PROVE  Spec => ImplementsBook
<1>1. Init => Promise!Init
  <2>. SUFFICES ASSUME Init PROVE Promise!Init
    OBVIOUS
  <2>1. ASSUME NEW s \in Sets PROVE Book(s) = [x \in {} |-> {}]
    <3>1. DOMAIN configMap[s] = {}
      BY DEF Init, Nothing
    <3>. QED
      BY <3>1 DEF Book
  <2>. QED
    BY <2>1 DEF Promise!Init
<1>2. TypeOK /\ AsBooked /\ AsBooked' /\ [Next]_vars => [Promise!Next]_[s \in Sets |-> Book(s)]
  <2>. SUFFICES ASSUME TypeOK, AsBooked, AsBooked', [Next]_vars
                PROVE  Promise!Next \/ UNCHANGED [s \in Sets |-> Book(s)]
    OBVIOUS
  <2>1. CASE configMap' = configMap
    BY <2>1 DEF Book
  <2>2. CASE UNCHANGED vars
    BY <2>1, <2>2 DEF vars
  <2>3. ASSUME NEW s \in Sets, SaveMap(s) PROVE Promise!Next
    BY <2>3, SaveMapAssigns DEF Promise!Next
  <2>4. ASSUME NEW s \in Sets, DeleteSet(s) PROVE Promise!Next
    BY <2>4, DeleteSetForgets DEF Promise!Next
  <2>5. ASSUME NEW s \in Sets,
               \/ ObserveNew(s) \/ ObserveSet(s) \/ CreateReplica(s) \/ Created(s) \/ TooMany(s)
               \/ (\E i \in Idx : Replace(s, i)) \/ Updated(s) \/ Substitute(s) \/ CreateVolume(s)
               \/ Condemn(s) \/ Fail(s) \/ Submit(s) \/ Grow(s) \/ Lose(s) \/ RemovePending(s)
        PROVE  configMap' = configMap
    BY <2>5 DEF ObserveNew, ObserveSet, CreateReplica, Created, TooMany, Replace, Updated,
                Substitute, CreateVolume, Condemn, Fail, Submit, Grow, Lose, RemovePending
  <2>6. CASE Restart
    BY <2>1, <2>6 DEF Restart
  <2>. QED
    BY <2>1, <2>2, <2>3, <2>4, <2>5, <2>6 DEF Next, Reconcile
<1>3. Spec => [](TypeOK /\ AsBooked)
  BY BookIsGiven, Invariant, PTL
<1>. QED
  BY <1>1, <1>2, <1>3, PTL DEF Spec, ImplementsBook, Promise!Spec
=============================================================================
