------------------------- MODULE MCManagedResource -------------------------
(* ManagedResource for every kind of the provider, one field for each way a  *)
(* kind treats its fields.                                                   *)
EXTENDS MCKinds, ManagedResource

\* The pairs whose tables treat the field alike behave alike: one stands for all.
Fields(k) == MCKinds[k].parameters.required \cup MCKinds[k].parameters.optional
Pairs == UNION {{<<k, f>> : f \in Fields(k)} : k \in DOMAIN MCKinds}
MCRestless == {<<"CubeServer", "availabilityZone">>, <<"PostgresUser", "username">>,
  <<"MongoUser", "username">>, <<"MongoCluster", "mongoDBVersion">>, <<"MongoCluster", "biConnector">>}
MCLossy == {<<"User", "password">>, <<"User", "passwordSecretRef">>,
  <<"PostgresUser", "passwordOfSecret">>, <<"MongoUser", "passwordOfSecret">>, <<"BackupUnit", "password">>,
  <<"BackupUnit", "email">>, <<"NodePool", "serverType">>}
MCInstances ==
  LET treated == {<<p, <<Table(p[1], p[2]), p \in MCRestless, p \in MCLossy>>>> : p \in Pairs}
  IN {(CHOOSE x \in treated : x[2] = t)[1] : t \in {x[2] : x \in treated}}
=============================================================================
