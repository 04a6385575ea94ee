---------------------------- MODULE OwnershipTable ----------------------------
(***************************************************************************)
(* What the route registry promises to the services behind the gateway,    *)
(* with none of its mechanism: a table that gives every exposed key (an    *)
(* HTTP method and an exposed path pattern) to at most one service.        *)
(*                                                                         *)
(* A step is one service's: it gets all the keys that it asks for, giving  *)
(* up what it had, or it is left with none.  A key passes from one service *)
(* to another only through a state in which nobody owns it.                *)
(***************************************************************************)
CONSTANTS Key,          \* what can be owned
          ServiceId,    \* who can own it
          KeySets,      \* the sets of keys that a service may ask for
          Nobody        \* the owner of a free key, not in ServiceId

VARIABLE owner

TypeOK == owner \in [Key -> ServiceId \cup {Nobody}]

Init == owner = [k \in Key |-> Nobody]

Owned(sid) == {k \in Key : owner[k] = sid}

(* A service is registered, registered again, refused, blocked, or leaves. *)
ClaimAndRelease(sid) ==
    /\ TypeOK'
    /\ \A k \in Key : owner'[k] # owner[k] => {owner[k], owner'[k]} = {sid, Nobody}
    /\ Owned(sid)' \in KeySets \cup {{}}

Next == \E sid \in ServiceId : ClaimAndRelease(sid)

Spec == Init /\ [][Next]_owner
===============================================================================
