---------------------------- MODULE MCManualConfig ----------------------------
(***************************************************************************)
(* Instances of ManualConfig for TLC: two manual services that may collide *)
(* with each other and with a Docker service.                              *)
(***************************************************************************)
EXTENDS ManualConfig, TLC

CONSTANTS m1, m2, d1

A == [method |-> "GET", path |-> "/a", exposed |-> "/a"]
B == [method |-> "GET", path |-> "/b", exposed |-> "/b"]

MCPattern == {"/a", "/b"}
MCMatches == [pat \in MCPattern |-> {pat}]

MCLabels    == {"plain", "prefixed", "clash"}
MCRouteList == {<<A>>, <<B>>}
MCOpenApi   == {"doc"}
MCExtract   == [labels \in MCLabels |-> [spec \in MCOpenApi |->
                   IF labels = "prefixed" THEN <<B>> ELSE <<A>>]]

S(id, labels) == [id |-> id, labels |-> labels]

(* The file: absent, broken, two services that collide, the second behind  *)
(* one that may be unreachable, a rejected one first, one name twice.      *)
MCContent == { NoFile, Broken,
               <<S(m2, "plain"), S(m1, "plain")>>,
               <<S(m1, "clash"), S(m2, "prefixed")>>,
               <<S(m1, "plain"), S(m1, "prefixed")>> }
===============================================================================
