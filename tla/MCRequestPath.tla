----------------------------- MODULE MCRequestPath -----------------------------
(***************************************************************************)
(* An instance of RequestPath and ClientIdentity for TLC.  One service     *)
(* with one route; by its labels it needs a key and has no prefix, or it   *)
(* needs a token under a prefix.  Of three clients alice has a token and a *)
(* key, bob a token without an id and carol neither.  alice's requests     *)
(* come with ids and a path, bob's with roles and the name of a tenant,    *)
(* that somebody else has written.                                         *)
(***************************************************************************)
EXTENDS ClientIdentity, TLC

CONSTANTS alice, bob, carol, s1

MCPath    == {<<"crm", "users", "7">>}
MCMatches == "/crm/users/*" :> MCPath
MCRoute   == [method |-> "GET", path |-> "/users/{id}", exposed |-> "/crm/users/*"]

C(token, key, own) ==
    [method |-> "GET", path |-> <<"crm", "users", "7">>, token |-> token, key |-> key, own |-> own]

NoOwn == [header \in Header |-> <<>>]

MCCall == (alice :> C("a", "key1", [NoOwn EXCEPT !["userId"] = <<"guest">>,
                                               !["tenantId"] = <<"front">>,
                                               !["originalPath"] = << <<"front", "crm">> >>]))
          @@ (bob :> C("b", None, [NoOwn EXCEPT !["roles"] = <<"auditor">>, !["tenantName"] = <<"Front">>]))
          @@ (carol :> C(None, None, NoOwn))

(* Both tokens are signed with the new key only.                           *)
MCVerifies == [token \in {"a", "b"} |-> {"new"}]

MCClaims == ("a" :> [id |-> "u1", email |-> "a@example.org", roles |-> <<"admin", "editor">>])
            @@ ("b" :> [id |-> "", email |-> "", roles |-> <<"editor,admin">>])

MCRolePieces == ("admin" :> {"admin"}) @@ ("editor" :> {"editor"})
                @@ ("editor,admin" :> {"editor", "admin"}) @@ ("auditor" :> {"auditor"})

MCNeedsToken == ("open" :> {}) @@ ("secured" :> {MCRoute})
MCRouteList  == {<<MCRoute>>}
MCOffers     == [labels \in {"open", "secured"} |-> MCRouteList]
MCPrefixOf   == ("open" :> <<>>) @@ ("secured" :> <<"crm">>)
MCNameOf     == [sid \in ServiceId |-> [labels \in Labels |-> "crm"]]

KeyEntry(key, id) == [key |-> key, tenant |-> [id |-> id, name |-> None]]
NoTenant(key)  == [key |-> key, tenant |-> None]

MCKeyFile == {None,
              [parses |-> TRUE, entries |-> <<KeyEntry("key1", "acme"), KeyEntry("key2", "beta"), NoTenant("key1")>>],
              [parses |-> FALSE, entries |-> <<KeyEntry("key2", "beta")>>]}
================================================================================
