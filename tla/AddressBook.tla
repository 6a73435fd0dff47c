--------------------------- MODULE AddressBook ---------------------------
(***************************************************************************)
(* What the substitutions of a ServerSet promise, whatever the order in    *)
(* which boot volumes are created, replaced and created again: a replica   *)
(* is given a value for each key once, keeps it as long as its set lives,  *)
(* and shares the value of a unique key with no other replica of the set.  *)
(***************************************************************************)
CONSTANTS
  Sets,       \* the ServerSets
  Replicas,   \* the indexes of replicas
  Keys,       \* the keys the user data is searched for
  Unique      \* those of them whose values are unique

VARIABLE book   \* the value of a replica and a key, where one is given

Given(s) == DOMAIN book[s]

Distinct(b) ==
  \A i, j \in Replicas, k \in Unique :
    <<i, k>> \in DOMAIN b /\ <<j, k>> \in DOMAIN b /\ i # j => b[<<i, k>>] # b[<<j, k>>]

Init == book = [s \in Sets |-> [x \in {} |-> {}]]

\* Replicas are given values: what was given before stays as it is.
Assign(s) ==
  /\ DOMAIN book'[s] \in SUBSET (Replicas \X Keys)
  /\ Given(s) \subseteq DOMAIN book'[s]
  /\ \A x \in Given(s) : book'[s][x] = book[s][x]
  /\ Distinct(book'[s])
  /\ \A t \in Sets \ {s} : book'[t] = book[t]

\* The set is deleted, and its book with it.
Forget(s) == book' = [book EXCEPT ![s] = [x \in {} |-> {}]]

Next == \E s \in Sets : Assign(s) \/ Forget(s)

Spec == Init /\ [][Next]_book
=============================================================================
