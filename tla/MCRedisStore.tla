--------------------------- MODULE MCRedisStore ---------------------------
(* Two instances of one scope; one config key at one scope. *)
EXTENDS RedisStore

Key(service, id) == [scope |-> "prod", service_name |-> service, instance_id |-> id]

MCKeys == {Key(service, id) : service \in Services, id \in InstanceIds}

MCKeyRank == [k \in MCKeys |-> IF k.service_name = "api" THEN 1 ELSE 2]

MCValues ==
    {[body |-> 1, bytes |-> 1, well_formed |-> TRUE, secret_ref |-> FALSE, literal_secret |-> FALSE]}
=============================================================================
