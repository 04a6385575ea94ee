------------------------------ MODULE ManualEntry ------------------------------
(***************************************************************************)
(* What a services.json entry exposes: ServiceConfig                       *)
(* (gateway/config/schema.py) is turned into labels                        *)
(* (gateway/discovery/manual_loader.py, _service_to_labels) and these go   *)
(* the way of all labels, through LabelFilter and AccessPolicy.  The entry *)
(* is rewritten one field at a time; port and docs_path are left out.      *)
(***************************************************************************)
EXTENDS AccessPolicy

CONSTANTS Doc,          \* the service's document, a sequence of operations
          ListItem,     \* ListItem[field]: what the lists of that field may hold
          OverrideValue,\* what auth_override_paths may hold
          Pieces,       \* Pieces[item]: what is left of an item after ",".join and split(",")
          PrefixValue,  \* values of "prefix", sequences of segments
          EntryName,    \* values of "name"
          HostValue,    \* values of "host"
          UrlValue      \* values of "openapi_url"

NoLists == [field \in Field |-> {}]

ASSUME PiecesAssumption ==
    /\ \A field \in Field : \A item \in ListItem[field] : Pieces[item] \subseteq Item
    /\ \A item \in OverrideValue : Pieces[item] \subseteq Override

ASSUME NoneIsNoField ==
    /\ None \notin BOOLEAN
    /\ None \notin EntryName
    /\ \A items \in SUBSET Item : items # None
    /\ \A items \in SUBSET Override : items # None

VARIABLE svc            \* a ServiceConfig without port and docs_path, or None

Other == INSTANCE AccessPolicy WITH Namespace <- ~Namespace

---------------------------------------------------------------------------
OwnLabel(value) == [ns |-> value, bare |-> None]        \* faulty: under the namespace

Bare(value) == [ns |-> None, bare |-> value]

ListLabelAlways(c, kind, name) ==       \* faulty: an empty list makes an empty label
    IF name \notin Field \/ c[kind] = None THEN None
    ELSE UNION {Pieces[item] : item \in c[kind][name]}

(* A list that is empty or missing makes no label.                         *)
ListLabel(c, kind, name) ==
    IF name \notin Field \/ c[kind] = None \/ c[kind][name] = {} THEN None
    ELSE UNION {Pieces[item] : item \in c[kind][name]}

(* Neither does an empty text; auth_required makes one also when it is     *)
(* false, and an entry cannot ask for an API key.                          *)
TextLabel(value)     == IF value = "" THEN None ELSE value
FlagLabel(value)     == CASE value = None  -> None
                          [] value = TRUE  -> "true"
                          [] value = FALSE -> "false"
OverridesLabel(list) == IF list = {} THEN None ELSE UNION {Pieces[item] : item \in list}

ServiceToLabels(c) ==
    [enable        |-> Bare("true"),
     name          |-> Bare(c.name),
     prefix        |-> Bare(c.prefix),
     host          |-> Bare(TextLabel(c.host)),
     openapi_url   |-> Bare(TextLabel(c.openapi_url)),
     auth_required |-> Bare(FlagLabel(c.auth_required)),
     api_key       |-> Bare(None),
     overrides     |-> Bare(OverridesLabel(c.auth_override_paths)),
     list          |-> [key \in Kind \X Name |-> Bare(ListLabel(c, key[1], key[2]))]]

(* The entry has no container: fetch_and_register(f"manual:{name}", labels)*)
ManualRoutes(c) ==
    ExtractRoutes(Doc, ServiceToLabels(c), ServiceName(ServiceToLabels(c), None, None))

---------------------------------------------------------------------------
AddEntry ==
    /\ svc = None
    /\ \E name \in EntryName :
          svc' = [name |-> name, prefix |-> None, host |-> None, openapi_url |-> None,
                  auth_required |-> None, auth_override_paths |-> {},
                  filter |-> None, exclude |-> None]

RemoveEntry == svc # None /\ svc' = None

EditField(field, Value) ==
    /\ svc # None
    /\ \E value \in Value : svc' = [svc EXCEPT ![field] = value]

(* Bound: an entry has lists, or fields of access and address.             *)
HasLists == svc # None /\ \E kind \in Kind : svc[kind] # None
IsPlain  == svc # None /\ /\ svc.host = None /\ svc.openapi_url = None
                         /\ svc.auth_required = None /\ svc.auth_override_paths = {}

EditAccess ==
    /\ ~HasLists
    /\ \/ EditField("host", HostValue \cup {None})
       \/ EditField("openapi_url", UrlValue \cup {None})
       \/ EditField("auth_required", {TRUE, FALSE, None})
       \/ EditField("auth_override_paths", SUBSET OverrideValue)

EditList(kind, field) ==
    /\ svc # None
    /\ svc[kind] # None
    /\ \E items \in SUBSET ListItem[field] : svc' = [svc EXCEPT ![kind][field] = items]

AddLists(kind) ==
    /\ IsPlain
    /\ svc[kind] = None
    /\ svc' = [svc EXCEPT ![kind] = NoLists]

RemoveLists(kind) ==
    /\ svc # None
    /\ svc[kind] # None
    /\ svc' = [svc EXCEPT ![kind] = None]

EditEntry == \/ AddEntry
             \/ RemoveEntry
             \/ EditField("prefix", PrefixValue \cup {None})
             \/ EditAccess
             \/ \E kind \in Kind : \/ \E field \in Field : EditList(kind, field)
                                   \/ AddLists(kind)
                                   \/ RemoveLists(kind)

---------------------------------------------------------------------------
(* What the entry says (README.md, "External services"): "filter" exposes  *)
(* what its lists hold, "exclude" everything else, both nothing; an empty  *)
(* object and an empty list say nothing.                                   *)
Says(kind) == svc[kind] # None /\ \E field \in Field : svc[kind][field] # {}

Holds(kind, op) == \E field \in Field : \E item \in svc[kind][field] : Criterion(op, field, item)

DeclaredExposed(op) ==
    /\ op.method \in HttpMethod
    /\ ~(Says("filter") /\ Says("exclude"))
    /\ Says("filter")  => Holds("filter", op)
    /\ Says("exclude") => ~Holds("exclude", op)

DeclaredPrefix == CASE svc.prefix = None       -> <<>>
                    [] svc.prefix = <<"true">> -> <<svc.name>>
                    [] OTHER                   -> svc.prefix

DeclaredOpen(op) == \/ svc.auth_required = FALSE
                    \/ \E item \in svc.auth_override_paths :
                          /\ op.path \in GlobMatches[OverrideOf[item].path]
                          /\ OverrideOf[item].method \in {"*", op.method}

DeclaredHost == IF svc.host \in {None, ""} THEN svc.name ELSE svc.host

(* Lists survive the way through comma-separated labels when no item holds *)
(* a comma or is blank, and a name when it is not empty.                   *)
Plain(items) == \A item \in items : Pieces[item] = {item}

Clean == /\ svc.name # ""
         /\ Plain(svc.auth_override_paths)
         /\ \A kind \in Kind, field \in Field : svc[kind] # None => Plain(svc[kind][field])

(* An entry exposes what it declares, in the order of the document, under  *)
(* its prefix, asks for a token where it declares so and is looked for     *)
(* where it says, although it is turned into labels that are read back     *)
(* with namespace and fallback (manual_loader.py, lines 37-72).            *)
EntryAsDeclared ==
    svc # None /\ Clean =>
        LET kept == Among(Doc, {op \in Operations(Doc) : DeclaredExposed(op)})
            made == ServiceToLabels(svc)
        IN  /\ ManualRoutes(svc) = [n \in DOMAIN kept |-> RouteOf(kept[n], DeclaredPrefix)]
            /\ \A op \in Operations(Doc) : RequiresAuth(op, made, TRUE) <=> ~DeclaredOpen(op)
            /\ BaseUrl(made, ServiceName(made, None, None)) = DeclaredHost
            /\ svc.openapi_url \notin {None, ""} =>
                  SpecUrl(made, ServiceName(made, None, None)) = svc.openapi_url

(* "No namespace field is needed" (README.md, line 315): an entry exposes  *)
(* the same routes under the same conditions whether or not the gateway    *)
(* has a namespace.                                                        *)
NoNamespaceNeeded ==
    svc # None =>
        LET made == ServiceToLabels(svc)
        IN  /\ ManualRoutes(svc) = Other!ExtractRoutes(Doc, made, Other!ServiceName(made, None, None))
            /\ \A op \in Operations(Doc) :
                  RequiresAuth(op, made, TRUE) = Other!RequiresAuth(op, made, TRUE)
================================================================================
