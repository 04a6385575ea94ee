------------------------------ MODULE LabelFilter ------------------------------
(***************************************************************************)
(* From the labels of a service and its OpenAPI document to the routes it  *)
(* exposes: label resolution (gateway/labels.py), filters                  *)
(* (gateway/registry/filter.py) and route extraction                       *)
(* (gateway/discovery/openapi_fetcher.py).                                 *)
(*                                                                         *)
(* A label has a scope, "ns" for gateway.{namespace}.* and "bare" for      *)
(* gateway.*, and a value or None.  The list labels are named by kind and  *)
(* field; a value is the set of the items between the commas, empty for an *)
(* empty label.  The field "other" stands for every unknown name under     *)
(* filter. or exclude.: it counts as a filter, but nothing reads it.       *)
(* A path is the sequence of its segments, and so is a prefix label.       *)
(***************************************************************************)
EXTENDS Selection

CONSTANTS Namespace,    \* whether GATEWAY_NAMESPACE is set
          Item,         \* items of list labels: tags, path globs, operation ids
          GlobMatches,  \* GlobMatches[g]: the document paths that fnmatch accepts for g
          Param,        \* path segments like {id}
          None          \* no value

ASSUME NamespaceAssumption == Namespace \in BOOLEAN

Scope == {"ns", "bare"}
Kind  == {"filter", "exclude"}
Field == {"tags", "paths", "operations"}
Name  == Field \cup {"other"}

HttpMethod == {"GET", "POST", "PUT", "PATCH", "DELETE", "OPTIONS", "HEAD"}

---------------------------------------------------------------------------
(* Label resolution.  table is one name's values by scope.                 *)
Get(table) == IF Namespace /\ table["ns"] # None THEN table["ns"] ELSE table["bare"]

IsEnabledByFallback(labels) ==  \* faulty: enable falls back like other labels
    Get(labels.enable) = "true"

IsEnabled(labels) == labels.enable[IF Namespace THEN "ns" ELSE "bare"] = "true"

HasPrefixOfScope(labels, kind) ==       \* faulty: no fallback to the bare labels
    \E name \in Name : labels.list[kind, name][IF Namespace THEN "ns" ELSE "bare"] # None

HasPrefix(labels, kind) ==
    \E name \in Name : \/ Namespace /\ labels.list[kind, name]["ns"] # None
                       \/ labels.list[kind, name]["bare"] # None

ParseCsv(table) == IF Get(table) = None THEN {} ELSE Get(table)

---------------------------------------------------------------------------
(* Filters.                                                                *)
ListsOf(labels, kind) == [field \in Field |-> ParseCsv(labels.list[kind, field])]

ParseLabels(labels) ==
    LET filter  == HasPrefix(labels, "filter")
        exclude == HasPrefix(labels, "exclude")
    IN  CASE filter /\ exclude  -> [mode |-> "error", lists |-> [field \in Field |-> {}]]
          [] filter /\ ~exclude -> [mode |-> "allowlist", lists |-> ListsOf(labels, "filter")]
          [] ~filter /\ exclude -> [mode |-> "denylist", lists |-> ListsOf(labels, "exclude")]
          [] OTHER              -> [mode |-> "allow_all", lists |-> [field \in Field |-> {}]]

(* The tests on tags, path and operation id, each against its own list.    *)
TagHit(spec, op)  == \E t \in spec.lists["tags"] : t \in op.tags
PathHit(spec, op) == \E p \in spec.lists["paths"] : op.path \in GlobMatches[p]
OpHit(spec, op)   == op.operationId \in spec.lists["operations"]

ApplyFilterAllOf(spec, op) ==   \* faulty: exclude.* blocks what matches every list
    CASE spec.mode = "error"     -> FALSE
      [] spec.mode = "allow_all" -> TRUE
      [] spec.mode = "allowlist" -> TagHit(spec, op) \/ PathHit(spec, op) \/ OpHit(spec, op)
      [] spec.mode = "denylist"  -> ~(TagHit(spec, op) /\ PathHit(spec, op) /\ OpHit(spec, op))

ApplyFilter(spec, op) ==
    CASE spec.mode = "error"     -> FALSE
      [] spec.mode = "allow_all" -> TRUE
      [] spec.mode = "allowlist" -> TagHit(spec, op) \/ PathHit(spec, op) \/ OpHit(spec, op)
      [] spec.mode = "denylist"  -> ~(TagHit(spec, op) \/ PathHit(spec, op) \/ OpHit(spec, op))

---------------------------------------------------------------------------
(* Routes.  The name of a service is its label, then the compose service,  *)
(* then the container's name; an empty label counts as none.  The prefix   *)
(* label "true" stands for the name.                                       *)
ServiceName(labels, compose, container) ==
    CASE Get(labels.name) \notin {None, ""} -> Get(labels.name)
      [] Get(labels.name) \in {None, ""} /\ compose # None -> compose
      [] Get(labels.name) \in {None, ""} /\ compose = None /\ container # None -> container
      [] OTHER -> "unknown"

Prefix(labels, serviceName) ==
    CASE Get(labels.prefix) = None       -> <<>>
      [] Get(labels.prefix) = <<"true">> -> <<serviceName>>
      [] OTHER                           -> Get(labels.prefix)

PathToGlob(path) == [n \in DOMAIN path |-> IF path[n] \in Param THEN "*" ELSE path[n]]

RouteOf(op, prefix) ==
    [method |-> op.method, path |-> op.path, exposed |-> PathToGlob(prefix \o op.path)]

(* A document is the sequence of the operations under its paths, entries   *)
(* that are not HTTP methods (parameters, summary, ...) included.          *)
Operations(doc) == {doc[n] : n \in DOMAIN doc}

ExtractRoutes(doc, labels, serviceName) ==
    LET kept == Among(doc, {op \in Operations(doc) : /\ op.method \in HttpMethod
                                                     /\ ApplyFilter(ParseLabels(labels), op)})
    IN  [n \in DOMAIN kept |-> RouteOf(kept[n], Prefix(labels, serviceName))]

---------------------------------------------------------------------------
(* What the README says ("Filtering"): a route matches when any criterion  *)
(* does; filter.* exposes only the routes that match, exclude.* everything *)
(* but them, both together nothing.  A label under the namespace replaces  *)
(* the one without.                                                        *)
Given(labels, kind, field) ==
    IF Namespace /\ labels.list[kind, field]["ns"] # None
    THEN labels.list[kind, field]["ns"] ELSE labels.list[kind, field]["bare"]

Criterion(op, field, item) ==
    CASE field = "tags"       -> item \in op.tags
      [] field = "paths"      -> op.path \in GlobMatches[item]
      [] field = "operations" -> item = op.operationId

Listed(labels, kind, op) ==
    \E field \in Field : /\ Given(labels, kind, field) # None
                         /\ \E item \in Given(labels, kind, field) : Criterion(op, field, item)

Uses(labels, kind) == \E name \in Name : Given(labels, kind, name) # None

Documented(labels, op) ==
    /\ ~(Uses(labels, "filter") /\ Uses(labels, "exclude"))
    /\ Uses(labels, "filter")  => Listed(labels, "filter", op)
    /\ Uses(labels, "exclude") => ~Listed(labels, "exclude", op)
================================================================================
