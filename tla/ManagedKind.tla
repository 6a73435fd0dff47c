---------------------------- MODULE ManagedKind ----------------------------
(* What a managed kind is made of, as far as ManagedResource looks at it: a  *)
(* kind is described by the fields of its spec and by the tables of its      *)
(* external client.  The tables of the provider's kinds are in ComputeKinds, *)
(* NetworkKinds and ServiceKinds; a field is named as in the spec's JSON.    *)

\* A request to the API: the fields it always carries, and those it carries when set.
Sends(always, ifSet) == [always |-> always, ifSet |-> ifSet]

\* What the up-to-date test of a kind compares.  Before anything else the fields of
\* "early"; then an object in a state of "busy" counts as up to date.  A field is
\* compared: exact, always (no value equals the empty one); reported, when the API gives
\* a value; lenient, when the API gives one and the spec is set; ifAsked, when the spec
\* is set; unequal, a reported value is always taken to differ; anew, the spec being set
\* asks for an update, whatever the API has.  A field that the API
\* does not give back is remembered instead: the value last acted upon is kept in the
\* status, in the spec or in the process.
Compares == [early |-> {}, busy |-> {}, exact |-> {}, reported |-> {}, lenient |-> {},
             ifAsked |-> {}, unequal |-> {}, anew |-> {}, inStatus |-> {}, inSpec |-> {}, inProcess |-> {}]

\* Observe: the fields that late-initialisation fills when empty, that it always
\* overwrites with the API's value, and that it empties; whether the answer reads other
\* objects (an IP block, a Secret), and so fails when they are gone.
Observes == [fill |-> {}, forced |-> {}, wiped |-> {}, reads |-> FALSE]

\* Create: the saved states in which it does nothing, whether it keeps the request's id
\* in an annotation, does nothing once there is a name, looks for an object of the same
\* name, waits for the request, sets the name as soon as the API has answered or only
\* after the wait, and the fields it sets by calls of their own.
Creates == [refused |-> {}, annotated |-> FALSE, refusesNamed |-> FALSE, searches |-> FALSE,
            waits |-> FALSE, named |-> "posted", keyed |-> FALSE, calls |-> {}]

\* Update: the states in which it does nothing, those in which it fails, what it calls
\* before and after the PATCH, the state it notes, whether it addresses the object by
\* the id in the status.
Updates == [refused |-> {}, fails |-> {}, waits |-> FALSE, before |-> {}, after |-> {},
            notes |-> "", byStatus |-> TRUE]

\* Delete: the states in which it does nothing, and those in which it fails.
Deletes == [refused |-> {}, fails |-> {}, waits |-> FALSE]

\* The search for an object of the same name fails when a field differs: always
\* compared when the API gives a value, or only when the spec is set too.
Unlike(reported, lenient) == [reported |-> reported, lenient |-> lenient]
=============================================================================
