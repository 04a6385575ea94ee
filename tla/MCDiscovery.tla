------------------------------ MODULE MCDiscovery ------------------------------
(***************************************************************************)
(* Instances of Discovery for TLC: two containers and a Swarm service, of  *)
(* which each run takes the ones it needs.  A document has one or two      *)
(* routes.  Four label sets of a gateway with a namespace stand for all    *)
(* the ways a service can be skipped, blocked or filtered; what they mean  *)
(* is checked against LabelFilter at the end of the module.                *)
(***************************************************************************)
EXTENDS Discovery, TLC

CONSTANTS c1, c2, w1

A == [method |-> "GET", path |-> <<"a">>, exposed |-> <<"a">>]
B == [method |-> "GET", path |-> <<"b">>, exposed |-> <<"b">>]

MCPattern == {<<"a">>, <<"b">>}
MCMatches == [pat \in MCPattern |-> {pat}]

MCLabels    == {"all", "narrow", "clash", "off"}
MCEnabled   == {"all", "narrow", "clash"}
MCClash     == {"clash"}
MCRouteList == {<<>>, <<A>>, <<B>>, <<A, B>>}
MCOpenApi   == {"a", "b", "ab"}

MCExtract ==
    [labels \in MCLabels |->
        CASE labels \in {"all", "off"} -> ("a" :> <<A>>) @@ ("b" :> <<B>>) @@ ("ab" :> <<A, B>>)
          [] labels = "narrow"         -> ("a" :> <<A>>) @@ ("b" :> <<>>)  @@ ("ab" :> <<A>>)
          [] labels = "clash"          -> [spec \in MCOpenApi |-> <<>>]]

D(labels, spec, onNet) == [labels |-> labels, spec |-> spec, onNet |-> onNet]

(* The objects answer at addresses of their own, or all at the same one as *)
(* the replicas of a compose service do.                                   *)
OwnHosts    == [o \in Object |-> o]
SharedHosts == [o \in Object |-> c1]
MCHost      == Object

(* Deployments: two ways to be healthy, of which one is off the networks   *)
(* of the gateway, one to be blocked and one to be skipped; healthy or     *)
(* blocked by one's own labels; or one only.                               *)
MixedDeployments == {D("narrow", "ab", TRUE), D("all", "ab", FALSE),
                     D("clash", "ab", TRUE), D("off", "a", TRUE)}
ClashOrNot       == {D("all", "a", TRUE), D("clash", "a", TRUE)}
OneDeployment    == {D("all", "a", TRUE)}

---------------------------------------------------------------------------
(* The label sets and documents behind these names: opted in and nothing   *)
(* else, a shared exclude.paths, that and an own filter.tags, opted in for *)
(* no namespace.                                                           *)
Filter == INSTANCE LabelFilter WITH Namespace <- TRUE, Item <- {"public", "/b"}, Param <- {},
              GlobMatches <- ("public" :> {}) @@ ("/b" :> {<<"b">>})

Scoped(own, shared) == [ns |-> own, bare |-> shared]
NoList == [key \in Filter!Kind \X Filter!Name |-> Scoped(None, None)]

LabelSet(enable, list) ==
    [enable |-> enable, name |-> Scoped(None, "svc"), prefix |-> Scoped(None, None), list |-> list]

LabelsOf ==
    LET narrow == [NoList EXCEPT !["exclude", "paths"] = Scoped(None, {"/b"})]
        clash  == [narrow EXCEPT !["filter", "tags"] = Scoped({"public"}, None)]
    IN  [all    |-> LabelSet(Scoped("true", None), NoList),
         narrow |-> LabelSet(Scoped("true", None), narrow),
         clash  |-> LabelSet(Scoped("true", None), clash),
         off    |-> LabelSet(Scoped(None, "true"), NoList)]

Operation(path) == [method |-> "GET", path |-> path, tags |-> {}, operationId |-> ""]

DocOf == [a  |-> <<Operation(<<"a">>)>>,
          b  |-> <<Operation(<<"b">>)>>,
          ab |-> <<Operation(<<"a">>), Operation(<<"b">>)>>]

ASSUME LabelsMeanWhatLabelFilterSays ==
    /\ MCEnabled = {l \in MCLabels : Filter!IsEnabled(LabelsOf[l])}
    /\ MCClash = {l \in MCLabels : Filter!ParseLabels(LabelsOf[l]).mode = "error"}
    /\ \A l \in MCLabels, doc \in MCOpenApi :
          MCExtract[l][doc] = Filter!ExtractRoutes(DocOf[doc], LabelsOf[l], "svc")
================================================================================
