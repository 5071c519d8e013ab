-------------------------- MODULE MCRegistryStore --------------------------
(* Two services of one scope, each with an instance under the same instance id. *)
EXTENDS RegistryStore

MCScopes == {"prod"}
MCServices == {"api", "jobs"}
MCInstanceIds == {"i1"}

Key(scope, service) ==
    [scope |-> scope, service_name |-> service, instance_id |-> "i1"]

MCKeys == {Key("prod", "api"), Key("prod", "jobs")}

MCKeyRank == [k \in MCKeys |-> IF k.service_name = "api" THEN 1 ELSE 2]
=============================================================================
