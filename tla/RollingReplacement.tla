------------------------ MODULE RollingReplacement ------------------------
(* What a ServerSet promises about the images its replicas boot from: the   *)
(* user asks for an image, the controller takes the request over, and moves *)
(* one replica at a time to it without ever leaving that replica without a  *)
(* bootable server.                                                         *)
CONSTANTS Replicas, Images

VARIABLES wanted,    \* the image the user asks for
          accepted,  \* the image the controller works towards
          running    \* for each replica, the images its servers boot from

vars == <<wanted, accepted, running>>

TypeOK == /\ wanted \in Images /\ accepted \in Images
          /\ running \in [Replicas -> SUBSET Images]

Init == /\ wanted \in Images /\ accepted = wanted
        /\ running = [i \in Replicas |-> {}]

Request == wanted' \in Images /\ UNCHANGED <<accepted, running>>
Accept == accepted' = wanted /\ UNCHANGED <<wanted, running>>

\* The first boot of a replica.
Start(i) ==
  /\ running[i] = {}
  /\ \E img \in Images : running' = [running EXCEPT ![i] = {img}]
  /\ UNCHANGED <<wanted, accepted>>

Settled(j) == \A a, b \in running[j] : a = b

\* A running replica only turns to the accepted image, keeps booting from
\* something, and does so while no other replica is in between two images.
Replace(i) ==
  /\ running[i] # {}
  /\ \A j \in Replicas \ {i} : Settled(j)
  /\ \E imgs \in SUBSET (running[i] \cup {accepted}) :
       imgs # {} /\ running' = [running EXCEPT ![i] = imgs]
  /\ UNCHANGED <<wanted, accepted>>

Next == Request \/ Accept \/ \E i \in Replicas : Start(i) \/ Replace(i)

Spec == Init /\ [][Next]_vars
=============================================================================
