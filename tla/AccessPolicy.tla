------------------------------ MODULE AccessPolicy ------------------------------
(***************************************************************************)
(* What the labels of a service ask of a request to one of its routes:     *)
(* a token (gateway/auth/middleware.py), an API key                        *)
(* (gateway/auth/api_keys.py); and where the service is                    *)
(* (gateway/discovery/openapi_fetcher.py).  Ports and the path of the      *)
(* document are left out.                                                  *)
(*                                                                         *)
(* A route is the operation it was made of: an override is compared with   *)
(* the documented path, not with the exposed one.  The settings            *)
(* GATEWAY_AUTH_REQUIRED and GATEWAY_API_KEY_REQUIRED are parameters.      *)
(***************************************************************************)
EXTENDS LabelFilter

CONSTANTS Override,     \* items of auth.override.paths
          OverrideOf    \* OverrideOf[item]: its method, "*" without a colon, and its path glob

ASSUME NoneIsNoFlag == None \notin {"true", "false"}

---------------------------------------------------------------------------
(* Where.                                                                  *)
BaseUrl(labels, serviceName) ==
    IF Get(labels.host) \in {None, ""} THEN serviceName ELSE Get(labels.host)

SpecUrl(labels, serviceName) ==
    IF Get(labels.openapi_url) \in {None, ""} THEN <<BaseUrl(labels, serviceName), "docs">>
                                              ELSE Get(labels.openapi_url)

---------------------------------------------------------------------------
(* What is asked.                                                          *)
ParseOverridePaths(labels) == {OverrideOf[item] : item \in ParseCsv(labels.overrides)}

IsOverridePathOrMethod(op, overrides) ==        \* faulty: one of the two matches
    \E o \in overrides : op.path \in GlobMatches[o.path] \/ o.method \in {"*", op.method}

IsOverridePath(op, overrides) ==
    \E o \in overrides : op.path \in GlobMatches[o.path] /\ o.method \in {"*", op.method}

RequiresAuth(op, labels, authRequired) ==
    /\ authRequired
    /\ Get(labels.auth_required) # "false"
    /\ ~IsOverridePath(op, ParseOverridePaths(labels))

RequiresApiKey(labels, apiKeyRequired) ==
    IF Get(labels.api_key) = None THEN apiKeyRequired ELSE Get(labels.api_key) = "true"
================================================================================
