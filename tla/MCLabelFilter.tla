----------------------------- MODULE MCLabelFilter -----------------------------
(***************************************************************************)
(* An instance of LabelEdits for TLC: a document with two parametrised     *)
(* paths that become the same glob and an entry that is no operation, one  *)
(* item of each kind that selects some operations and not others, and      *)
(* lists of an entry that also hold a tag with a comma and a blank path.   *)
(* One override is for a method, the other for all.                        *)
(***************************************************************************)
EXTENDS LabelEdits, TLC

Op(method, path, tags, id) == [method |-> method, path |-> path, tags |-> tags, operationId |-> id]

MCParam == {"{id}", "{name}"}

MCDoc == << Op("GET", <<"users", "{id}">>, {"public"}, "getUser"),
            Op("PARAMETERS", <<"users", "{id}">>, {"public"}, "getUser"),
            Op("GET", <<"users", "{name}">>, {"public,beta"}, ""),
            Op("DELETE", <<"health">>, {}, "reset") >>

MCItem        == {"public", "beta", "/users/*", "/health", "reset"}
MCGlobMatches == ("/users/*" :> {<<"users", "{id}">>, <<"users", "{name}">>})
                 @@ ("/health" :> {<<"health">>}) @@ (" " :> {})
MCPrefix      == {<<>>, <<"true">>, <<"api", "v1">>}
MCEntryPrefix == {<<"true">>, <<"api", "v1">>}

MCItemsOf == [tags |-> {"public"}, paths |-> {"/users/*", "/health"},
              operations |-> {"reset"}, other |-> {}]

MCListItem == [tags |-> {"public", "public,beta"}, paths |-> {"/users/*", " "},
               operations |-> {"reset"}]
MCOverride   == {"GET:/users/*", "/health"}
MCOverrideOf == ("GET:/users/*" :> [method |-> "GET", path |-> "/users/*"])
                @@ ("/health" :> [method |-> "*", path |-> "/health"])
MCOverrideValue == {"GET:/users/*", "/health", " "}

MCPieces   == ("public,beta" :> {"public", "beta"}) @@ (" " :> {})
              @@ [item \in {"public", "/users/*", "reset"} \cup MCOverride |-> {item}]
================================================================================
