--------------------------- MODULE MCPostgresStore ---------------------------
(* Two processes; two instances of one scope and one of another. *)
EXTENDS PostgresStore, TLC

Key(scope, service, id) ==
    [scope |-> scope, service_name |-> service, instance_id |-> id]

MCKeys ==
    UNION {{Key("prod", "api", id), Key("prod", "jobs", id), Key("test", "api", id)} : id \in InstanceIds}

MCKeyRank == [k \in MCKeys |-> IF k.scope = "test" THEN 3 ELSE IF k.service_name = "api" THEN 1 ELSE 2]

ProcSymmetry == Permutations(Procs)
=============================================================================
