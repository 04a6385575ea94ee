--------------------------- MODULE MCRouteRegistry ---------------------------
(***************************************************************************)
(* Instances of RouteRegistry and MergedDocs for TLC.  Three services and  *)
(* two methods; the patterns are a literal path and a glob that matches it *)
(* too, which two documented paths have.  Two services are replicas with   *)
(* one name; the third has it too when its labels set no other, and its    *)
(* container may be renamed meanwhile.  Under the labels "secured" the     *)
(* literal path and one of the two parametrised ones need a token.         *)
(***************************************************************************)
EXTENDS MergedDocs, TLC

CONSTANTS s1, s2, s3

MCDocPath == {"/items/new", "/items/{id}", "/items/{name}"}
MCPattern == {"/items/new", "/items/*"}
MCPath    == {"/items/new", "/items/7"}
MCMatches == ("/items/new" :> {"/items/new"}) @@ ("/items/*" :> MCPath)

R(m, path) == [method |-> m, path |-> path,
               exposed |-> IF path = "/items/new" THEN "/items/new" ELSE "/items/*"]

Operation(m, path, listed) ==
    [route |-> R(m, path), listed |-> listed, shown |-> path, fields |-> path,
     refs |-> IF path = "/items/new" THEN {"Item"} ELSE {}]

New(m)   == Operation(m, "/items/new", TRUE)
Id(m)    == Operation(m, "/items/{id}", TRUE)
Named(m) == Operation(m, "/items/{name}", TRUE)
NamedUpper(m) == Operation(m, "/items/{name}", FALSE)

(* A document without paths, single routes, the literal path before the    *)
(* glob, two paths that become one glob, and a path under another method,  *)
(* whose key is in upper case.                                             *)
MCListing == ("empty" :> <<>>)
             @@ ("new" :> <<New("GET")>>)
             @@ ("globs" :> <<Id("GET"), Named("GET")>>)
             @@ ("new first" :> <<New("GET"), Id("GET")>>)
             @@ ("put" :> <<NamedUpper("PUT"), Id("PUT")>>)

MCOpenApi   == DOMAIN MCListing
MCRouteList == {[n \in DOMAIN MCListing[doc] |-> MCListing[doc][n].route] : doc \in MCOpenApi}
MCSchemas   == [doc \in MCOpenApi |-> {"Item"}]

MCNamesOf    == [sid \in ServiceId |-> [labels \in Labels |->
                    IF sid = s3 /\ labels = "secured" THEN {"crm", "my-crm"} ELSE {"crm"}]]
MCSlugOf     == ("crm" :> "crm") @@ ("my-crm" :> "my_crm")
MCNeedsToken == ("open" :> {})
                @@ ("secured" :> {R("GET", "/items/new"), R("GET", "/items/{name}")})
==============================================================================
