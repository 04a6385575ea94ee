------------------------------ MODULE LabelEdits ------------------------------
(***************************************************************************)
(* One service, described by Docker labels or by an entry of services.json,*)
(* that an operator rewrites one label or field at a time: what each edit  *)
(* does to the opt-in and to the routes that LabelFilter selects.          *)
(***************************************************************************)
EXTENDS ManualEntry, SequencesExt, FiniteSetsExt

CONSTANTS ItemsOf,      \* ItemsOf[field]: the items used in that label
          PrefixLabel,  \* values of the prefix label, sequences of segments
          NameLabel,    \* values of the name label
          MaxLabels     \* bound: labels set at a time

ASSUME ItemsAssumption == ItemsOf \in [Name -> SUBSET Item]
ASSUME BoundAssumption == MaxLabels \in Nat

VARIABLE labels

Flag  == {"true", "false"}
Value == [enable        |-> Flag,
          name          |-> NameLabel,
          prefix        |-> PrefixLabel,
          host          |-> HostValue,
          openapi_url   |-> UrlValue,
          auth_required |-> Flag,
          api_key       |-> Flag,
          overrides     |-> SUBSET Override]

(* The names of the labels, but the lists, by what they are about.         *)
RouteName  == {"enable", "prefix"}
CallName   == {"host", "openapi_url", "auth_required", "api_key", "overrides"}
SingleName == {"name"} \cup RouteName \cup CallName

Unset    == [scope \in Scope |-> None]
NoLabels == [name \in SingleName \cup {"list"} |->
                IF name = "list" THEN [key \in Kind \X Name |-> Unset] ELSE Unset]

InitLabels == labels = NoLabels /\ svc = None

(* Bounds: at most MaxLabels are set, and all about the routes (with the   *)
(* lists) or all about the calls: no answer depends on both.               *)
Set(names) == {l \in names \X Scope : labels[l[1]][l[2]] # None}
SetLists   == {l \in Kind \X Name \X Scope : labels.list[l[1], l[2]][l[3]] # None}

Room(names, lists) ==
    /\ Set(names) = {}
    /\ lists = {}
    /\ Cardinality(Set(SingleName)) + Cardinality(SetLists) < MaxLabels

SetLabel(name, scope) ==
    /\ \/ name \in RouteName /\ Room(CallName, {})
       \/ name \in CallName /\ Room(RouteName, SetLists)
       \/ name = "name" /\ Room({}, {})
    /\ \E value \in Value[name] : labels' = [labels EXCEPT ![name][scope] = value]

SetList(kind, name, scope) ==
    /\ Room(CallName, {})
    /\ \E items \in SUBSET ItemsOf[name] : labels' = [labels EXCEPT !.list[<<kind, name>>][scope] = items]

RemoveLabel(scope) ==
    \/ \E name \in SingleName : labels' = [labels EXCEPT ![name][scope] = None]
    \/ \E kind \in Kind, name \in Name : labels' = [labels EXCEPT !.list[<<kind, name>>][scope] = None]

Edit(scope) == \/ \E name \in SingleName : SetLabel(name, scope)
               \/ \E kind \in Kind, name \in Name : SetList(kind, name, scope)
               \/ RemoveLabel(scope)

NextLabels ==
    \/ svc = None /\ UNCHANGED svc /\ \E scope \in Scope : Edit(scope)
    \/ labels = NoLabels /\ UNCHANGED labels /\ EditEntry

SpecLabels == InitLabels /\ [][NextLabels]_<<labels, svc>>

---------------------------------------------------------------------------
(* The types of the labels.                                                *)
LabelsOK ==
    /\ labels = [name \in SingleName \cup {"list"} |-> labels[name]]
    /\ \A name \in SingleName : labels[name] \in [Scope -> Value[name] \cup {None}]
    /\ labels.list \in [Kind \X Name -> [Scope -> (SUBSET Item) \cup {None}]]

Exposed(l) == ExtractRoutes(Doc, l, ServiceName(l, "compose", "container"))

(* The routes of a service are the ones the README's account of filter.*,  *)
(* exclude.* and the namespace fallback selects, HTTP operations only, in  *)
(* the order of the document (openapi_fetcher.py, line 44).                *)
ExposureAsDocumented ==
    LET kept   == Among(Doc, {op \in Operations(Doc) : /\ op.method \in HttpMethod
                                                       /\ Documented(labels, op)})
        prefix == Prefix(labels, ServiceName(labels, "compose", "container"))
    IN  Exposed(labels) = [n \in DOMAIN kept |-> RouteOf(kept[n], prefix)]

(* What is asked of a request is what the README's "decision order" says,  *)
(* first match wins, and the key requirement of the service comes before   *)
(* the gateway's: a service can open its routes, but cannot close them     *)
(* when the gateway asks for no tokens (middleware.py, lines 46-55).       *)
Said(name) == IF Namespace /\ labels[name]["ns"] # None THEN labels[name]["ns"]
                                                        ELSE labels[name]["bare"]

Exempt(op) == Said("overrides") # None /\ \E item \in Said("overrides") :
                  /\ op.path \in GlobMatches[OverrideOf[item].path]
                  /\ OverrideOf[item].method \in {"*", op.method}

AccessAsDocumented ==
    \A authRequired, apiKeyRequired \in BOOLEAN, op \in Operations(Doc) :
        /\ RequiresAuth(op, labels, authRequired) <=>
              CASE ~authRequired                    -> FALSE
                [] Said("auth_required") = "false" -> FALSE
                [] Exempt(op)                       -> FALSE
                [] OTHER                            -> TRUE
        /\ RequiresApiKey(labels, apiKeyRequired) <=>
              CASE Said("api_key") = "true"  -> TRUE
                [] Said("api_key") = "false" -> FALSE
                [] OTHER                     -> apiKeyRequired

(* filter.* and exclude.* with the same lists are complements: an          *)
(* operation is exposed under exactly one of them (filter.py, lines 58-71).*)
Swapped(l) == [l EXCEPT !.list = [key \in Kind \X Name |->
                  l.list[IF key[1] = "filter" THEN "exclude" ELSE "filter", key[2]]]]

FiltersAreComplements ==
    ParseLabels(labels).mode \in {"allowlist", "denylist"} =>
        \A op \in Operations(Doc) : ApplyFilter(ParseLabels(labels), op)
                                   <=> ~ApplyFilter(ParseLabels(Swapped(labels)), op)

(* A gateway with a namespace decides by its own labels where it has them: *)
(* rewriting a shared label neither opts a service in or out nor touches   *)
(* what a namespaced label of that name already says, its list included.   *)
(* It does matter whether shared filter.* and exclude.* labels exist: they *)
(* clash across scopes (labels.py, lines 38-46).                           *)
SameShared(l, m, names) == \A name \in names : l[name]["ns"] = None => l[name] = m[name]

SameLists(l, m) == \A key \in Kind \X Name : l.list[key]["ns"] = None => l.list[key] = m.list[key]

Address(l) == LET name == ServiceName(l, "compose", "container")
              IN  <<name, BaseUrl(l, name), SpecUrl(l, name)>>

Demands(l) == <<RequiresApiKey(l, TRUE), {op \in Operations(Doc) : RequiresAuth(op, l, TRUE)}>>

OwnLabelsWin ==
    [][Namespace /\ Edit("bare") =>
          /\ IsEnabled(labels') = IsEnabled(labels)
          /\ SameShared(labels, labels', {"name", "prefix"}) /\ SameLists(labels, labels') =>
                Exposed(labels') = Exposed(labels)
          /\ SameShared(labels, labels', {"name", "host", "openapi_url"}) =>
                Address(labels') = Address(labels)
          /\ SameShared(labels, labels', {"auth_required", "api_key", "overrides"}) =>
                Demands(labels') = Demands(labels)]_labels
================================================================================
