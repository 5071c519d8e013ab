-------------------------- MODULE MCPostgresWatch --------------------------
(* One process; an instance of the watched service and one of another. *)
EXTENDS PostgresWatch

MCKeys ==
    {[scope |-> "prod", service_name |-> "api", instance_id |-> "i1"],
     [scope |-> "prod", service_name |-> "jobs", instance_id |-> "i2"]}

MCKeyRank == [k \in MCKeys |-> IF k.service_name = "api" THEN 1 ELSE 2]
=============================================================================
