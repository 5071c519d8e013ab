--------------------------- MODULE MCConfigStore ---------------------------
(* One scope, one group, one key; a namespace, an application and a service. *)
EXTENDS ConfigStore

Body(n, bytes, ref, literal) ==
    [body |-> n, bytes |-> bytes, well_formed |-> TRUE,
     secret_ref |-> ref, literal_secret |-> literal]

\* Two bodies the policy accepts and one it refuses.
MCValues == {Body(1, 1, FALSE, FALSE), Body(2, 2, TRUE, TRUE), Body(3, 1, FALSE, TRUE)}
=============================================================================
