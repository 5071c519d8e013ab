--------------------------- MODULE MCWatchStream ---------------------------
(* The watched service and a second one, with an instance of the same id. *)
EXTENDS WatchStream

CONSTANT i1

Key(service) == [scope |-> "prod", service_name |-> service, instance_id |-> i1]

MCKeys == {Key("api"), Key("jobs")}
=============================================================================
