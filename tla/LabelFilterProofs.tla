--------------------------- MODULE LabelFilterProofs ---------------------------
(***************************************************************************)
(* Proofs about labels, filters and what they ask of requests, for all     *)
(* label sets, documents and matchings of globs.                           *)
(***************************************************************************)
EXTENDS LabelEdits, SequenceLemmas

(* The effective lists are the ones the fallback rule gives.               *)
LEMMA ParseCsvGiven ==
    ASSUME NEW l, NEW kind, NEW field
    PROVE  ParseCsv(l.list[kind, field]) =
              IF Given(l, kind, field) = None THEN {} ELSE Given(l, kind, field)
BY DEF ParseCsv, Get, Given

(* A kind of label counts as used in either scope, as the README says.     *)
LEMMA HasPrefixUses ==
    ASSUME NEW l, NEW kind
    PROVE  HasPrefix(l, kind) <=> Uses(l, kind)
BY NamespaceAssumption DEF HasPrefix, Uses, Given

(* The three tests of a filter together are the README's "any criterion".  *)
LEMMA HitsAreListed ==
    ASSUME NEW l, NEW kind, NEW op, NEW mode
    PROVE  LET spec == [mode |-> mode, lists |-> ListsOf(l, kind)]
           IN  TagHit(spec, op) \/ PathHit(spec, op) \/ OpHit(spec, op) <=> Listed(l, kind, op)
<1> DEFINE spec == [mode |-> mode, lists |-> ListsOf(l, kind)]
           G(field) == Given(l, kind, field)
           Some(field) == G(field) # None /\ \E item \in G(field) : Criterion(op, field, item)
<1>1. \A field \in Field : spec.lists[field] = IF G(field) = None THEN {} ELSE G(field)
  BY ParseCsvGiven DEF ListsOf
<1>2. TagHit(spec, op) <=> Some("tags")
  BY <1>1 DEF TagHit, Criterion, Field
<1>3. PathHit(spec, op) <=> Some("paths")
  BY <1>1 DEF PathHit, Criterion, Field
<1>4. OpHit(spec, op) <=> Some("operations")
  BY <1>1 DEF OpHit, Criterion, Field
<1>5. Listed(l, kind, op) <=> Some("tags") \/ Some("paths") \/ Some("operations")
  BY DEF Listed, Field
<1> QED BY <1>2, <1>3, <1>4, <1>5

(* A filter decides as the README says, for every label set and operation. *)
THEOREM FilterAsDocumented ==
    ASSUME NEW l, NEW op
    PROVE  ApplyFilter(ParseLabels(l), op) <=> Documented(l, op)
<1>1. CASE HasPrefix(l, "filter") /\ HasPrefix(l, "exclude")
  BY <1>1, HasPrefixUses DEF ParseLabels, ApplyFilter, Documented
<1>2. CASE HasPrefix(l, "filter") /\ ~HasPrefix(l, "exclude")
  <2>1. ParseLabels(l) = [mode |-> "allowlist", lists |-> ListsOf(l, "filter")]
    BY <1>2 DEF ParseLabels
  <2>2. ApplyFilter(ParseLabels(l), op) <=> Listed(l, "filter", op)
    BY <2>1, HitsAreListed DEF ApplyFilter
  <2> QED BY <1>2, <2>2, HasPrefixUses DEF Documented
<1>3. CASE ~HasPrefix(l, "filter") /\ HasPrefix(l, "exclude")
  <2>1. ParseLabels(l) = [mode |-> "denylist", lists |-> ListsOf(l, "exclude")]
    BY <1>3 DEF ParseLabels
  <2>2. ApplyFilter(ParseLabels(l), op) <=> ~Listed(l, "exclude", op)
    BY <2>1, HitsAreListed DEF ApplyFilter
  <2> QED BY <1>3, <2>2, HasPrefixUses DEF Documented
<1>4. CASE ~HasPrefix(l, "filter") /\ ~HasPrefix(l, "exclude")
  BY <1>4, HasPrefixUses DEF ParseLabels, ApplyFilter, Documented
<1> QED BY <1>1, <1>2, <1>3, <1>4

(* A single label stays what it may be when one of its scopes is written.  *)
LEMMA SingleWritten ==
    ASSUME LabelsOK, NEW name \in SingleName, NEW scope \in Scope,
           NEW value \in Value[name] \cup {None},
           labels' = [labels EXCEPT ![name][scope] = value]
    PROVE  LabelsOK'
<1> DEFINE table == [labels[name] EXCEPT ![scope] = value]
<1>1. name # "list"
  BY DEF SingleName, RouteName, CallName
<1>2. table \in [Scope -> Value[name] \cup {None}]
  BY DEF LabelsOK
<1>3. labels' = [labels EXCEPT ![name] = table]
  OBVIOUS
<1> HIDE DEF table
<1>4. \A n \in SingleName \cup {"list"} : labels'[n] = IF n = name THEN table ELSE labels[n]
  BY <1>3 DEF LabelsOK
<1>5. labels' = [n \in SingleName \cup {"list"} |-> labels'[n]]
  BY <1>3 DEF LabelsOK
<1>6. labels'.list = labels.list
  BY <1>1, <1>4
<1>7. \A n \in SingleName : labels'[n] \in [Scope -> Value[n] \cup {None}]
  BY <1>2, <1>4 DEF LabelsOK
<1> QED BY <1>5, <1>6, <1>7 DEF LabelsOK

(* And so does a list label.                                               *)
LEMMA ListWritten ==
    ASSUME LabelsOK, NEW kind \in Kind, NEW name \in Name, NEW scope \in Scope,
           NEW value \in (SUBSET Item) \cup {None},
           labels' = [labels EXCEPT !.list[<<kind, name>>][scope] = value]
    PROVE  LabelsOK'
<1> DEFINE table == [labels.list EXCEPT ![<<kind, name>>] = [@ EXCEPT ![scope] = value]]
<1>1. table \in [Kind \X Name -> [Scope -> (SUBSET Item) \cup {None}]]
  BY DEF LabelsOK
<1>2. labels' = [labels EXCEPT !["list"] = table]
  OBVIOUS
<1> HIDE DEF table
<1>3. \A n \in SingleName \cup {"list"} : labels'[n] = IF n = "list" THEN table ELSE labels[n]
  BY <1>2 DEF LabelsOK
<1>4. labels' = [n \in SingleName \cup {"list"} |-> labels'[n]]
  BY <1>2 DEF LabelsOK
<1>5. "list" \notin SingleName
  BY DEF SingleName, RouteName, CallName
<1> QED BY <1>1, <1>3, <1>4, <1>5 DEF LabelsOK

(* The labels are well-typed whatever edits are made.                      *)
LEMMA LabelTypes == SpecLabels => []LabelsOK
<1>1. InitLabels => LabelsOK
  <2> SUFFICES ASSUME InitLabels PROVE LabelsOK
    OBVIOUS
  <2>1. "list" \notin SingleName
    BY DEF SingleName, RouteName, CallName
  <2>2. /\ \A name \in SingleName : labels[name] = Unset
        /\ labels["list"] = [key \in Kind \X Name |-> Unset]
        /\ labels = [name \in SingleName \cup {"list"} |-> labels[name]]
    BY <2>1 DEF InitLabels, NoLabels
  <2> QED BY <2>2 DEF LabelsOK, Unset
<1>2. LabelsOK /\ [NextLabels]_<<labels, svc>> => LabelsOK'
  <2> SUFFICES ASSUME LabelsOK, NEW scope \in Scope, Edit(scope) PROVE LabelsOK'
    BY DEF NextLabels, LabelsOK
  <2>1. ASSUME NEW name \in SingleName, SetLabel(name, scope) PROVE LabelsOK'
    BY <2>1, SingleWritten DEF SetLabel
  <2>2. ASSUME NEW kind \in Kind, NEW name \in Name, SetList(kind, name, scope)
        PROVE  LabelsOK'
    BY <2>2, ListWritten, ItemsAssumption DEF SetList
  <2>3. CASE RemoveLabel(scope)
    BY <2>3, SingleWritten, ListWritten DEF RemoveLabel
  <2> QED BY <2>1, <2>2, <2>3 DEF Edit
<1> QED BY <1>1, <1>2, PTL DEF SpecLabels

(* Renaming filter.* to exclude.* inverts the choice, whatever the lists.  *)
THEOREM Complements == SpecLabels => []FiltersAreComplements
<1>1. LabelsOK => FiltersAreComplements
  <2> SUFFICES ASSUME LabelsOK, ParseLabels(labels).mode \in {"allowlist", "denylist"},
                      NEW op \in Operations(Doc)
               PROVE  Documented(labels, op) <=> ~Documented(Swapped(labels), op)
    BY FilterAsDocumented DEF FiltersAreComplements
  <2>1. \A name \in Name : /\ Given(Swapped(labels), "filter", name) = Given(labels, "exclude", name)
                           /\ Given(Swapped(labels), "exclude", name) = Given(labels, "filter", name)
    BY DEF Swapped, Given, LabelsOK, Kind
  <2>2. /\ Uses(Swapped(labels), "filter") <=> Uses(labels, "exclude")
        /\ Uses(Swapped(labels), "exclude") <=> Uses(labels, "filter")
        /\ Listed(Swapped(labels), "filter", op) <=> Listed(labels, "exclude", op)
        /\ Listed(Swapped(labels), "exclude", op) <=> Listed(labels, "filter", op)
    BY <2>1 DEF Uses, Listed, Name
  <2>3. Uses(labels, "filter") <=> ~Uses(labels, "exclude")
    BY HasPrefixUses DEF ParseLabels
  <2> QED BY <2>2, <2>3 DEF Documented
<1> QED BY <1>1, LabelTypes, PTL

(* An operation is exempt from the token exactly when an item of the list  *)
(* in force says so.                                                       *)
LEMMA ExemptByOverride ==
    ASSUME NEW op
    PROVE  IsOverridePath(op, ParseOverridePaths(labels)) <=> Exempt(op)
<1>1. Get(labels.overrides) = Said("overrides")
  BY DEF Get, Said
<1>2. ParseCsv(labels.overrides) = IF Said("overrides") = None THEN {} ELSE Said("overrides")
  BY <1>1 DEF ParseCsv
<1> QED BY <1>2 DEF ParseOverridePaths, IsOverridePath, Exempt

(* The checks follow the README's decision order, whatever the labels, the *)
(* settings and the overrides.                                             *)
THEOREM AccessFollowsOrder == SpecLabels => []AccessAsDocumented
<1>1. LabelsOK => AccessAsDocumented
  <2> SUFFICES ASSUME LabelsOK, NEW authRequired \in BOOLEAN, NEW apiKeyRequired \in BOOLEAN,
                      NEW op \in Operations(Doc)
               PROVE  /\ RequiresAuth(op, labels, authRequired) <=>
                            CASE ~authRequired                    -> FALSE
                              [] Said("auth_required") = "false" -> FALSE
                              [] Exempt(op)                       -> FALSE
                              [] OTHER                            -> TRUE
                      /\ RequiresApiKey(labels, apiKeyRequired) <=>
                            CASE Said("api_key") = "true"  -> TRUE
                              [] Said("api_key") = "false" -> FALSE
                              [] OTHER                     -> apiKeyRequired
    BY DEF AccessAsDocumented
  <2>1. /\ Get(labels.auth_required) = Said("auth_required")
        /\ Get(labels.api_key) = Said("api_key")
    BY DEF Get, Said
  <2>2. Said("api_key") \in Flag \cup {None}
    <3>1. labels["api_key"] \in [Scope -> Flag \cup {None}]
      BY DEF LabelsOK, SingleName, CallName, Value
    <3> QED BY <3>1 DEF Said, Scope
  <2>3. RequiresAuth(op, labels, authRequired) <=>
            /\ authRequired
            /\ Said("auth_required") # "false"
            /\ ~Exempt(op)
    BY <2>1, ExemptByOverride DEF RequiresAuth
  <2>4. RequiresApiKey(labels, apiKeyRequired) =
            IF Said("api_key") = None THEN apiKeyRequired ELSE Said("api_key") = "true"
    BY <2>1 DEF RequiresApiKey
  <2>5. None \notin Flag
    BY NoneIsNoFlag DEF Flag
  <2> QED BY <2>2, <2>3, <2>4, <2>5 DEF Flag
<1> QED BY <1>1, LabelTypes, PTL

---------------------------------------------------------------------------
(* Whoever selects the same operations of a document exposes the same      *)
(* routes: in all that follows only the choice of operations matters.      *)
LEMMA SameSelection ==
    ASSUME NEW doc, NEW S, NEW T, \A op \in Operations(doc) : op \in S <=> op \in T,
           S \subseteq Operations(doc), T \subseteq Operations(doc)
    PROVE  Among(doc, S) = Among(doc, T)
<1>1. S = T
  OBVIOUS
<1> QED BY <1>1

(* The exposed routes are the documented ones, whatever labels are set.    *)
THEOREM ExposureFollowsDocs == SpecLabels => []ExposureAsDocumented
<1>1. ExposureAsDocumented
  <2> DEFINE S == {op \in Operations(Doc) : /\ op.method \in HttpMethod
                                            /\ ApplyFilter(ParseLabels(labels), op)}
             T == {op \in Operations(Doc) : /\ op.method \in HttpMethod
                                            /\ Documented(labels, op)}
  <2>1. Among(Doc, S) = Among(Doc, T)
    BY FilterAsDocumented, SameSelection
  <2> QED BY <2>1 DEF ExposureAsDocumented, Exposed, ExtractRoutes
<1> QED BY <1>1, PTL

(* A service exposes the operations of its document that are documented to *)
(* be exposed, all of them and no other, each once and in the order of the *)
(* document, in which requests then try them (openapi_fetcher.py, 44-63).  *)
THEOREM ExposedInOrder ==
    ASSUME NEW T, NEW doc \in Seq(T), NEW l, NEW serviceName
    PROVE  \E at \in Seq(DOMAIN doc) :
              /\ \A i, j \in DOMAIN at : i < j => at[i] < at[j]
              /\ Range(at) = {n \in DOMAIN doc : doc[n].method \in HttpMethod /\ Documented(l, doc[n])}
              /\ ExtractRoutes(doc, l, serviceName)
                    = [i \in DOMAIN at |-> RouteOf(doc[at[i]], Prefix(l, serviceName))]
<1> DEFINE S == {op \in Operations(doc) : op.method \in HttpMethod /\ ApplyFilter(ParseLabels(l), op)}
           Good(n) == doc[n].method \in HttpMethod /\ Documented(l, doc[n])
<1>1. Len(doc) \in Nat /\ DOMAIN doc = 1 .. Len(doc)
  BY LenProperties
<1>2. \A n \in DOMAIN doc : doc[n] \in S <=> Good(n)
  BY FilterAsDocumented DEF Operations
<1>3. PICK s \in Seq(T) : s = Among(doc, S)
  BY AmongSelects
<1>4. ExtractRoutes(doc, l, serviceName) = [n \in DOMAIN s |-> RouteOf(s[n], Prefix(l, serviceName))]
  BY <1>3 DEF ExtractRoutes
<1> HIDE DEF S, Good
<1>5. PICK at : Selects(s, doc, Len(doc), S, at)
  BY <1>3, AmongSelects
<1>6. /\ at \in [1 .. Len(s) -> 1 .. Len(doc)]
      /\ \A i, j \in 1 .. Len(s) : i < j => at[i] < at[j]
      /\ \A i \in 1 .. Len(s) : doc[at[i]] \in S /\ s[i] = doc[at[i]]
      /\ \A k \in 1 .. Len(doc) : doc[k] \in S => \E i \in 1 .. Len(s) : at[i] = k
  BY <1>5 DEF Selects
<1>7. Len(s) \in Nat /\ DOMAIN s = 1 .. Len(s) /\ DOMAIN at = 1 .. Len(s)
  BY <1>6, LenProperties
<1>8. at \in Seq(DOMAIN doc)
  <2>1. PICK D : D = DOMAIN doc
    OBVIOUS
  <2>2. at \in [1 .. Len(s) -> D] /\ Len(s) \in Nat
    BY <1>1, <1>6, <1>7, <2>1
  <2>3. at \in Seq(D)
    BY <2>2, SeqDef
  <2> QED BY <2>1, <2>3
<1>9. Range(at) = {n \in DOMAIN doc : Good(n)}
  <2>1. ASSUME NEW n \in Range(at) PROVE n \in DOMAIN doc /\ Good(n)
    BY <1>1, <1>2, <1>6, <1>7 DEF Range
  <2>2. ASSUME NEW n \in DOMAIN doc, Good(n) PROVE n \in Range(at)
    BY <1>1, <1>2, <1>6, <1>7, <2>2 DEF Range
  <2> QED BY <2>1, <2>2
<1>10. ExtractRoutes(doc, l, serviceName)
          = [i \in DOMAIN at |-> RouteOf(doc[at[i]], Prefix(l, serviceName))]
  BY <1>4, <1>6, <1>7
<1> QED BY <1>6, <1>7, <1>8, <1>9, <1>10 DEF Good

(* The glob of a path under a prefix without braces begins with the prefix.*)
LEMMA GlobBeginsWithPrefix ==
    ASSUME NEW Segment, NEW prefix \in Seq(Segment \ Param), NEW path \in Seq(Segment)
    PROVE  IsPrefix(prefix, PathToGlob(prefix \o path))
<1> DEFINE U == Segment \cup {"*"}
<1>1. prefix \in Seq(Segment)
  <2>1. \A i \in 1 .. Len(prefix) : prefix[i] \in Segment
    BY ElementOfSeq
  <2> QED BY <2>1, LenProperties, SeqDef
<1>2. PICK raw \in Seq(Segment) : raw = prefix \o path
  BY <1>1, ConcatProperties
<1>3. /\ Len(prefix) \in Nat /\ Len(path) \in Nat
      /\ Len(raw) = Len(prefix) + Len(path)
      /\ \A i \in 1 .. Len(prefix) : raw[i] = prefix[i]
  <2>1. Len(prefix) \in Nat /\ Len(path) \in Nat
    BY LenProperties
  <2>2. /\ Len(raw) = Len(prefix) + Len(path)
        /\ \A i \in 1 .. Len(prefix) + Len(path) :
              raw[i] = IF i <= Len(prefix) THEN prefix[i] ELSE path[i - Len(prefix)]
    BY <1>1, <1>2, ConcatProperties
  <2>3. \A i \in 1 .. Len(prefix) : i \in 1 .. Len(prefix) + Len(path) /\ i <= Len(prefix)
    BY <2>1
  <2> QED BY <2>1, <2>2, <2>3
<1>4. PICK glob : glob = PathToGlob(raw)
  OBVIOUS
<1>5. DOMAIN raw = 1 .. Len(raw) /\ \A i \in 1 .. Len(raw) : raw[i] \in Segment
  BY LenProperties, ElementOfSeq
<1>6. /\ glob \in [1 .. Len(raw) -> U]
      /\ \A i \in 1 .. Len(raw) : glob[i] = IF raw[i] \in Param THEN "*" ELSE raw[i]
  BY <1>4, <1>5 DEF PathToGlob
<1>7. glob \in Seq(U) /\ Len(glob) = Len(raw)
  <2>1. glob \in Seq(U)
    BY <1>3, <1>6, SeqDef
  <2> QED BY <1>6, <2>1, LenProperties
<1>8. \A i \in 1 .. Len(prefix) : i \in 1 .. Len(raw) /\ prefix[i] \in Segment \ Param
  BY <1>3, ElementOfSeq
<1>9. \A i \in 1 .. Len(prefix) : glob[i] = prefix[i] /\ prefix[i] \in U
  BY <1>3, <1>6, <1>8
<1> HIDE DEF U
<1>10. /\ SubSeq(prefix, 1, Len(prefix)) \in Seq(U)
       /\ Len(SubSeq(prefix, 1, Len(prefix))) = Len(prefix)
       /\ \A i \in 1 .. Len(prefix) : SubSeq(prefix, 1, Len(prefix))[i] = prefix[i]
  <2>1. /\ SubSeq(prefix, 1, Len(prefix)) \in Seq(U)
        /\ Len(SubSeq(prefix, 1, Len(prefix))) = IF 1 <= Len(prefix) THEN Len(prefix) - 1 + 1 ELSE 0
        /\ \A i \in 1 .. Len(prefix) - 1 + 1 : SubSeq(prefix, 1, Len(prefix))[i] = prefix[1 + i - 1]
    BY <1>3, <1>9, SubSeqProperties
  <2> QED BY <1>3, <2>1
<1>11. /\ SubSeq(glob, 1, Len(prefix)) \in Seq(U)
       /\ Len(SubSeq(glob, 1, Len(prefix))) = Len(prefix)
       /\ \A i \in 1 .. Len(prefix) : SubSeq(glob, 1, Len(prefix))[i] = glob[i]
  <2>1. /\ SubSeq(glob, 1, Len(prefix)) \in Seq(U)
        /\ Len(SubSeq(glob, 1, Len(prefix))) = IF 1 <= Len(prefix) THEN Len(prefix) - 1 + 1 ELSE 0
        /\ \A i \in 1 .. Len(prefix) - 1 + 1 : SubSeq(glob, 1, Len(prefix))[i] = glob[1 + i - 1]
    BY <1>3, <1>9, SubSeqProperties
  <2> QED BY <1>3, <2>1
<1>12. SubSeq(prefix, 1, Len(prefix)) = SubSeq(glob, 1, Len(prefix))
  BY <1>9, <1>10, <1>11, SeqEqual
<1>13. Len(prefix) <= Len(glob)
  BY <1>3, <1>7
<1> QED BY <1>2, <1>4, <1>12, <1>13 DEF IsPrefix

(* So every route of a service is under its prefix: what the forwarder     *)
(* strips before it calls the service is what discovery has put there      *)
(* (openapi_fetcher.py, lines 35-60; forwarder.py, lines 36-56).           *)
THEOREM ExposedUnderPrefix ==
    ASSUME NEW Segment, NEW T, NEW doc \in Seq(T), NEW l, NEW serviceName,
           \A n \in DOMAIN doc : doc[n].path \in Seq(Segment),
           Prefix(l, serviceName) \in Seq(Segment \ Param)
    PROVE  \A i \in DOMAIN ExtractRoutes(doc, l, serviceName) :
              IsPrefix(Prefix(l, serviceName), ExtractRoutes(doc, l, serviceName)[i].exposed)
<1> DEFINE prefix == Prefix(l, serviceName)
<1>1. PICK at \in Seq(DOMAIN doc) :
         ExtractRoutes(doc, l, serviceName) = [i \in DOMAIN at |-> RouteOf(doc[at[i]], prefix)]
  BY ExposedInOrder
<1>2. \A i \in DOMAIN at : at[i] \in DOMAIN doc
  BY LenProperties, ElementOfSeq
<1>3. \A i \in DOMAIN at : RouteOf(doc[at[i]], prefix).exposed = PathToGlob(prefix \o doc[at[i]].path)
  BY DEF RouteOf
<1> HIDE DEF prefix
<1>4. prefix \in Seq(Segment \ Param)
  BY DEF prefix
<1>5. \A i \in DOMAIN at : IsPrefix(prefix, PathToGlob(prefix \o doc[at[i]].path))
  BY <1>2, <1>4, GlobBeginsWithPrefix
<1> QED BY <1>1, <1>3, <1>5 DEF prefix

---------------------------------------------------------------------------
(* Own labels.  Rewriting a shared label leaves the own ones as they are.  *)
LEMMA BareEditKeepsOwn ==
    ASSUME LabelsOK, Edit("bare")
    PROVE  /\ \A name \in SingleName : labels'[name]["ns"] = labels[name]["ns"]
           /\ \A key \in Kind \X Name : labels'.list[key]["ns"] = labels.list[key]["ns"]
<1>1. "list" \notin SingleName
  BY DEF SingleName, RouteName, CallName
<1>2. ASSUME NEW name \in SingleName, NEW value,
             labels' = [labels EXCEPT ![name]["bare"] = value]
      PROVE  /\ \A n \in SingleName : labels'[n]["ns"] = labels[n]["ns"]
             /\ \A key \in Kind \X Name : labels'.list[key]["ns"] = labels.list[key]["ns"]
  <2> DEFINE table == [labels[name] EXCEPT !["bare"] = value]
  <2>1. labels' = [labels EXCEPT ![name] = table]
    BY <1>2
  <2>2. table["ns"] = labels[name]["ns"]
    BY DEF LabelsOK, Scope
  <2> HIDE DEF table
  <2>3. \A n \in SingleName \cup {"list"} : labels'[n] = IF n = name THEN table ELSE labels[n]
    BY <2>1 DEF LabelsOK
  <2>4. labels'["list"] = labels["list"]
    BY <1>1, <2>3
  <2> QED BY <2>2, <2>3, <2>4
<1>3. ASSUME NEW kind \in Kind, NEW name \in Name, NEW value,
             labels' = [labels EXCEPT !.list[<<kind, name>>]["bare"] = value]
      PROVE  /\ \A n \in SingleName : labels'[n]["ns"] = labels[n]["ns"]
             /\ \A key \in Kind \X Name : labels'.list[key]["ns"] = labels.list[key]["ns"]
  <2> DEFINE table == [labels.list EXCEPT ![<<kind, name>>] = [@ EXCEPT !["bare"] = value]]
  <2>1. labels' = [labels EXCEPT !["list"] = table]
    BY <1>3
  <2>2. \A key \in Kind \X Name : table[key]["ns"] = labels.list[key]["ns"]
    BY DEF LabelsOK, Scope
  <2> HIDE DEF table
  <2>3. \A n \in SingleName \cup {"list"} : labels'[n] = IF n = "list" THEN table ELSE labels[n]
    BY <2>1 DEF LabelsOK
  <2> QED BY <1>1, <2>2, <2>3
<1>4. CASE \E name \in SingleName : SetLabel(name, "bare")
  BY <1>2, <1>4 DEF SetLabel
<1>5. CASE \E kind \in Kind, name \in Name : SetList(kind, name, "bare")
  BY <1>3, <1>5 DEF SetList
<1>6. CASE \E name \in SingleName : labels' = [labels EXCEPT ![name]["bare"] = None]
  BY <1>2, <1>6
<1>7. CASE \E kind \in Kind, name \in Name :
              labels' = [labels EXCEPT !.list[<<kind, name>>]["bare"] = None]
  BY <1>3, <1>7
<1> QED BY <1>4, <1>5, <1>6, <1>7 DEF Edit, RemoveLabel

(* So a label that is set under the namespace, or left alone, reads the    *)
(* same as before,                                                         *)
LEMMA SameSharedReads ==
    ASSUME Namespace, NEW l, NEW m, NEW names, SameShared(l, m, names),
           \A name \in names : m[name]["ns"] = l[name]["ns"]
    PROVE  \A name \in names : Get(m[name]) = Get(l[name])
BY DEF SameShared, Get

(* and so do lists.                                                        *)
LEMMA SameListsParse ==
    ASSUME Namespace, NEW l, NEW m, SameLists(l, m),
           \A key \in Kind \X Name : m.list[key]["ns"] = l.list[key]["ns"]
    PROVE  ParseLabels(m) = ParseLabels(l)
<1>1. ASSUME NEW kind \in Kind, NEW name \in Name
      PROVE  /\ Get(m.list[kind, name]) = Get(l.list[kind, name])
             /\ (m.list[kind, name]["ns"] # None \/ m.list[kind, name]["bare"] # None)
                   <=> (l.list[kind, name]["ns"] # None \/ l.list[kind, name]["bare"] # None)
  <2>1. <<kind, name>> \in Kind \X Name
    OBVIOUS
  <2>2. m.list[<<kind, name>>]["ns"] = l.list[<<kind, name>>]["ns"]
    BY <2>1
  <2>3. l.list[<<kind, name>>]["ns"] = None => l.list[<<kind, name>>] = m.list[<<kind, name>>]
    BY <2>1 DEF SameLists
  <2> QED BY <2>2, <2>3 DEF Get
<1>2. ASSUME NEW kind \in Kind PROVE HasPrefix(m, kind) <=> HasPrefix(l, kind)
  BY <1>1 DEF HasPrefix
<1>3. ASSUME NEW kind \in Kind PROVE ListsOf(m, kind) = ListsOf(l, kind)
  BY <1>1 DEF ListsOf, ParseCsv, Field, Name
<1>4. "filter" \in Kind /\ "exclude" \in Kind
  BY DEF Kind
<1> QED BY <1>2, <1>3, <1>4 DEF ParseLabels

(* A gateway with a namespace decides by its own labels where it has them. *)
THEOREM OwnLabelsDecide == SpecLabels => OwnLabelsWin
<1>1. ASSUME LabelsOK, Namespace, Edit("bare")
      PROVE  /\ IsEnabled(labels') = IsEnabled(labels)
             /\ SameShared(labels, labels', {"name", "prefix"}) /\ SameLists(labels, labels') =>
                   Exposed(labels') = Exposed(labels)
             /\ SameShared(labels, labels', {"name", "host", "openapi_url"}) =>
                   Address(labels') = Address(labels)
             /\ SameShared(labels, labels', {"auth_required", "api_key", "overrides"}) =>
                   Demands(labels') = Demands(labels)
  <2> DEFINE m == labels'
  <2>1. /\ \A name \in SingleName : m[name]["ns"] = labels[name]["ns"]
        /\ \A key \in Kind \X Name : m.list[key]["ns"] = labels.list[key]["ns"]
    BY <1>1, BareEditKeepsOwn
  <2>2. ASSUME NEW names \in SUBSET SingleName, SameShared(labels, m, names)
        PROVE  \A name \in names : Get(m[name]) = Get(labels[name])
    <3>1. \A name \in names : m[name]["ns"] = labels[name]["ns"]
      BY <2>1
    <3> HIDE DEF m
    <3> QED BY <1>1, <2>2, <3>1, SameSharedReads
  <2>3. /\ {"name", "prefix"} \in SUBSET SingleName
        /\ {"name", "host", "openapi_url"} \in SUBSET SingleName
        /\ {"auth_required", "api_key", "overrides"} \in SUBSET SingleName
        /\ "enable" \in SingleName
    BY DEF SingleName, RouteName, CallName
  <2> HIDE DEF m
  <2>4. IsEnabled(m) = IsEnabled(labels)
    BY <1>1, <2>1, <2>3 DEF IsEnabled
  <2>5. ASSUME Get(m.name) = Get(labels.name)
        PROVE  ServiceName(m, "compose", "container") = ServiceName(labels, "compose", "container")
    BY <2>5 DEF ServiceName
  <2>6. ASSUME SameShared(labels, m, {"name", "prefix"}), SameLists(labels, m)
        PROVE  Exposed(m) = Exposed(labels)
    <3>1. Get(m.name) = Get(labels.name) /\ Get(m.prefix) = Get(labels.prefix)
      BY <2>2, <2>3, <2>6
    <3>2. ParseLabels(m) = ParseLabels(labels)
      BY <1>1, <2>1, <2>6, SameListsParse
    <3> QED BY <2>5, <3>1, <3>2 DEF Exposed, ExtractRoutes, Prefix
  <2>7. ASSUME SameShared(labels, m, {"name", "host", "openapi_url"})
        PROVE  Address(m) = Address(labels)
    <3>1. /\ Get(m.name) = Get(labels.name) /\ Get(m.host) = Get(labels.host)
          /\ Get(m.openapi_url) = Get(labels.openapi_url)
      BY <2>2, <2>3, <2>7
    <3> QED BY <2>5, <3>1 DEF Address, BaseUrl, SpecUrl
  <2>8. ASSUME SameShared(labels, m, {"auth_required", "api_key", "overrides"})
        PROVE  Demands(m) = Demands(labels)
    <3>1. /\ Get(m.auth_required) = Get(labels.auth_required)
          /\ Get(m.api_key) = Get(labels.api_key) /\ Get(m.overrides) = Get(labels.overrides)
      BY <2>2, <2>3, <2>8
    <3>2. ParseOverridePaths(m) = ParseOverridePaths(labels)
      BY <3>1 DEF ParseOverridePaths, ParseCsv
    <3>3. RequiresApiKey(m, TRUE) = RequiresApiKey(labels, TRUE)
      BY <3>1 DEF RequiresApiKey
    <3>4. \A op : RequiresAuth(op, m, TRUE) <=> RequiresAuth(op, labels, TRUE)
      BY <3>1, <3>2 DEF RequiresAuth
    <3> QED BY <3>3, <3>4 DEF Demands
  <2> QED BY <2>4, <2>6, <2>7, <2>8 DEF m
<1>2. LabelsOK =>
         [Namespace /\ Edit("bare") =>
             /\ IsEnabled(labels') = IsEnabled(labels)
             /\ SameShared(labels, labels', {"name", "prefix"}) /\ SameLists(labels, labels') =>
                   Exposed(labels') = Exposed(labels)
             /\ SameShared(labels, labels', {"name", "host", "openapi_url"}) =>
                   Address(labels') = Address(labels)
             /\ SameShared(labels, labels', {"auth_required", "api_key", "overrides"}) =>
                   Demands(labels') = Demands(labels)]_labels
  BY <1>1
<1> QED BY <1>2, LabelTypes, PTL DEF OwnLabelsWin

---------------------------------------------------------------------------
(* Entries of services.json.  What the fields of an entry may be:          *)
EntryField == {"name", "prefix", "host", "openapi_url", "auth_required",
               "auth_override_paths", "filter", "exclude"}

FieldOK(f, value) ==
    /\ f = "name" => value \in EntryName
    /\ f = "auth_required" => value \in BOOLEAN \cup {None}
    /\ f = "auth_override_paths" => value \subseteq OverrideValue
    /\ f \in Kind /\ value # None =>
          /\ value = [field \in Field |-> value[field]]
          /\ \A field \in Field : value[field] \subseteq ListItem[field]

EntryOK == svc # None => /\ svc = [f \in EntryField |-> svc[f]]
                         /\ \A f \in EntryField : FieldOK(f, svc[f])

(* A field that is written leaves the others alone.                        *)
LEMMA FieldWritten ==
    ASSUME EntryOK, svc # None, NEW f \in EntryField, NEW value, FieldOK(f, value),
           svc' = [svc EXCEPT ![f] = value]
    PROVE  EntryOK'
<1>1. svc = [g \in EntryField |-> svc[g]] /\ \A g \in EntryField : FieldOK(g, svc[g])
  BY DEF EntryOK
<1>2. \A g \in EntryField : svc'[g] = IF g = f THEN value ELSE svc[g]
  BY <1>1
<1>3. svc' = [g \in EntryField |-> svc'[g]]
  BY <1>1
<1>4. ASSUME NEW g \in EntryField PROVE FieldOK(g, svc'[g])
  <2>1. CASE g = f
    <3>1. svc'[g] = value
      BY <1>2, <2>1
    <3> QED BY <2>1, <3>1
  <2>2. CASE g # f
    <3>1. svc'[g] = svc[g]
      BY <1>2, <2>2
    <3> QED BY <1>1, <3>1
  <2> QED BY <2>1, <2>2
<1>5. ASSUME NEW g \in EntryField PROVE FieldOK(g, svc[g])'
  BY <1>4 DEF FieldOK
<1> QED BY <1>3, <1>5 DEF EntryOK

(* The entry is well-typed whatever edits are made.                        *)
LEMMA EntryTypes == SpecLabels => []EntryOK
<1>1. InitLabels => EntryOK
  BY DEF InitLabels, EntryOK
<1>2. EntryOK /\ [NextLabels]_<<labels, svc>> => EntryOK'
  <2> SUFFICES ASSUME EntryOK, EditEntry PROVE EntryOK'
    BY DEF NextLabels, EntryOK, FieldOK
  <2>1. CASE AddEntry
    <3>1. PICK name \in EntryName :
             svc' = [name |-> name, prefix |-> None, host |-> None, openapi_url |-> None,
                     auth_required |-> None, auth_override_paths |-> {},
                     filter |-> None, exclude |-> None]
      BY <2>1 DEF AddEntry
    <3>2. svc' = [f \in EntryField |-> svc'[f]]
      BY <3>1 DEF EntryField
    <3>3. /\ svc'["name"] \in EntryName /\ svc'["auth_required"] = None
          /\ svc'["auth_override_paths"] = {}
          /\ svc'["filter"] = None /\ svc'["exclude"] = None
      BY <3>1
    <3>4. ASSUME NEW f \in EntryField PROVE FieldOK(f, svc[f])'
      BY <3>3 DEF FieldOK, Kind
    <3> QED BY <3>2, <3>4 DEF EntryOK
  <2>2. CASE RemoveEntry
    BY <2>2 DEF RemoveEntry, EntryOK
  <2>3. CASE EditField("prefix", PrefixValue \cup {None})
    <3>1. PICK value : svc' = [svc EXCEPT !["prefix"] = value] /\ svc # None
      BY <2>3 DEF EditField
    <3>2. "prefix" \in EntryField /\ FieldOK("prefix", value)
      BY DEF EntryField, FieldOK, Kind
    <3> QED BY <3>1, <3>2, FieldWritten
  <2>4. CASE EditAccess
    <3>1. PICK f \in {"host", "openapi_url", "auth_required", "auth_override_paths"} :
             \E value : /\ svc # None /\ svc' = [svc EXCEPT ![f] = value]
                        /\ f = "auth_required" => value \in BOOLEAN \cup {None}
                        /\ f = "auth_override_paths" => value \subseteq OverrideValue
      BY <2>4 DEF EditAccess, EditField
    <3>2. PICK value : /\ svc # None /\ svc' = [svc EXCEPT ![f] = value]
                       /\ f = "auth_required" => value \in BOOLEAN \cup {None}
                       /\ f = "auth_override_paths" => value \subseteq OverrideValue
      BY <3>1
    <3>3. f \in EntryField /\ FieldOK(f, value)
      BY <3>2 DEF EntryField, FieldOK, Kind
    <3> QED BY <3>2, <3>3, FieldWritten
  <2>5. ASSUME NEW kind \in Kind, NEW field \in Field, EditList(kind, field) PROVE EntryOK'
    <3>1. PICK items \in SUBSET ListItem[field] : svc' = [svc EXCEPT ![kind][field] = items]
      BY <2>5 DEF EditList
    <3> DEFINE value == [svc[kind] EXCEPT ![field] = items]
    <3>2. kind \in EntryField /\ kind \in Kind /\ svc # None /\ svc[kind] # None
      BY <2>5 DEF EntryField, Kind, EditList
    <3>3. /\ svc[kind] = [g \in Field |-> svc[kind][g]]
          /\ \A g \in Field : svc[kind][g] \subseteq ListItem[g]
      BY <3>2 DEF EntryOK, FieldOK
    <3>4. value = [g \in Field |-> value[g]] /\ \A g \in Field : value[g] \subseteq ListItem[g]
      BY <3>3
    <3>5. svc' = [svc EXCEPT ![kind] = value]
      BY <3>1
    <3> HIDE DEF value
    <3>6. FieldOK(kind, value)
      BY <3>2, <3>4 DEF FieldOK, Kind
    <3> QED BY <3>2, <3>5, <3>6, FieldWritten
  <2>6. ASSUME NEW kind \in Kind, AddLists(kind) PROVE EntryOK'
    <3>1. svc # None /\ svc' = [svc EXCEPT ![kind] = NoLists]
      BY <2>6 DEF AddLists, IsPlain
    <3>2. NoLists = [g \in Field |-> NoLists[g]] /\ \A g \in Field : NoLists[g] = {}
      BY DEF NoLists
    <3>3. kind \in EntryField /\ FieldOK(kind, NoLists)
      BY <3>2 DEF EntryField, FieldOK, Kind
    <3> QED BY <3>1, <3>3, FieldWritten
  <2>7. ASSUME NEW kind \in Kind, RemoveLists(kind) PROVE EntryOK'
    <3>1. svc # None /\ svc' = [svc EXCEPT ![kind] = None]
      BY <2>7 DEF RemoveLists
    <3>2. kind \in EntryField /\ FieldOK(kind, None)
      BY DEF EntryField, FieldOK, Kind
    <3> QED BY <3>1, <3>2, FieldWritten
  <2> QED BY <2>1, <2>2, <2>3, <2>4, <2>5, <2>6, <2>7 DEF EditEntry
<1> QED BY <1>1, <1>2, PTL DEF SpecLabels

(* The labels made of an entry have no namespace and read as they were     *)
(* written, whether the gateway has one or not.                            *)
LEMMA BareReads == ASSUME NEW value PROVE Get(Bare(value)) = value
BY DEF Get, Bare

(* Of the list labels, this is each one by itself.                         *)
LEMMA BareLists ==
    ASSUME NEW c, NEW kind \in Kind, NEW name \in Name
    PROVE  /\ ServiceToLabels(c).list[kind, name] = Bare(ListLabel(c, kind, name))
           /\ Given(ServiceToLabels(c), kind, name) = ListLabel(c, kind, name)
<1>1. ServiceToLabels(c).list = [key \in Kind \X Name |-> Bare(ListLabel(c, key[1], key[2]))]
  BY DEF ServiceToLabels
<1>2. <<kind, name>> \in Kind \X Name /\ <<kind, name>>[1] = kind /\ <<kind, name>>[2] = name
  OBVIOUS
<1>3. ServiceToLabels(c).list[<<kind, name>>] = Bare(ListLabel(c, kind, name))
  BY <1>1, <1>2
<1>4. ServiceToLabels(c).list[kind, name] = Bare(ListLabel(c, kind, name))
  BY Zenon, <1>3
<1>5. Bare(ListLabel(c, kind, name))["ns"] = None
      /\ Bare(ListLabel(c, kind, name))["bare"] = ListLabel(c, kind, name)
  BY DEF Bare
<1>6. Given(ServiceToLabels(c), kind, name) = ListLabel(c, kind, name)
  BY Zenon, <1>4, <1>5 DEF Given
<1> QED BY <1>4, <1>6

(* A list without commas and blanks comes back as it was written, and as   *)
(* no label when it is empty.                                              *)
LEMMA CleanLists ==
    ASSUME EntryOK, svc # None, Clean, NEW kind \in Kind, NEW name \in Name
    PROVE  LET label == Given(ServiceToLabels(svc), kind, name)
           IN  IF name \in Field /\ svc[kind] # None /\ svc[kind][name] # {}
               THEN label = svc[kind][name] /\ label # None
               ELSE label = None
<1>1. Given(ServiceToLabels(svc), kind, name) = ListLabel(svc, kind, name)
  BY BareLists
<1>2. CASE name \in Field /\ svc[kind] # None /\ svc[kind][name] # {}
  <2> DEFINE items == svc[kind][name]
  <2>1. kind \in EntryField
    BY DEF Kind, EntryField
  <2>2. items \subseteq ListItem[name]
    BY <1>2, <2>1 DEF EntryOK, FieldOK
  <2>3. \A item \in items : Pieces[item] = {item} /\ Pieces[item] \subseteq Item
    BY <1>2, <2>2, PiecesAssumption DEF Clean, Plain
  <2>4. UNION {Pieces[item] : item \in items} = items
    BY <2>3
  <2>5. items \in SUBSET Item
    BY <2>3
  <2>6. ListLabel(svc, kind, name) = items
    BY <1>2, <2>4 DEF ListLabel
  <2> QED BY <1>1, <1>2, <2>5, <2>6, NoneIsNoField
<1>3. CASE ~(name \in Field /\ svc[kind] # None /\ svc[kind][name] # {})
  <2>1. ListLabel(svc, kind, name) = None
    BY <1>3 DEF ListLabel
  <2> QED BY <1>1, <1>3, <2>1
<1> QED BY <1>2, <1>3

(* So the filter of the labels keeps what the entry declares.              *)
LEMMA MadeFilterDeclares ==
    ASSUME EntryOK, svc # None, Clean, NEW op
    PROVE  op.method \in HttpMethod /\ ApplyFilter(ParseLabels(ServiceToLabels(svc)), op)
              <=> DeclaredExposed(op)
<1> DEFINE made == ServiceToLabels(svc)
<1>1. ASSUME NEW kind \in Kind PROVE Uses(made, kind) <=> Says(kind)
  BY CleanLists DEF Uses, Says, Name
<1>2. ASSUME NEW kind \in Kind, Says(kind) PROVE Listed(made, kind, op) <=> Holds(kind, op)
  <2>1. ASSUME NEW field \in Field
        PROVE  IF svc[kind][field] # {}
               THEN Given(made, kind, field) = svc[kind][field] /\ Given(made, kind, field) # None
               ELSE Given(made, kind, field) = None
    BY <1>2, CleanLists DEF Says, Name
  <2> QED BY <2>1 DEF Listed, Holds
<1>3. "filter" \in Kind /\ "exclude" \in Kind
  BY DEF Kind
<1> HIDE DEF made
<1>4. Documented(made, op) <=> /\ ~(Says("filter") /\ Says("exclude"))
                               /\ Says("filter")  => Holds("filter", op)
                               /\ Says("exclude") => ~Holds("exclude", op)
  BY <1>1, <1>2, <1>3 DEF Documented
<1>5. ApplyFilter(ParseLabels(made), op) <=> Documented(made, op)
  BY FilterAsDocumented
<1> QED BY <1>4, <1>5 DEF made, DeclaredExposed

(* The single labels of an entry, as they are read.                        *)
LEMMA MadeReads ==
    ASSUME NEW c
    PROVE  LET made == ServiceToLabels(c)
           IN  /\ Get(made.name) = c.name
               /\ Get(made.prefix) = c.prefix
               /\ Get(made.host) = TextLabel(c.host)
               /\ Get(made.openapi_url) = TextLabel(c.openapi_url)
               /\ Get(made.auth_required) = FlagLabel(c.auth_required)
               /\ Get(made.overrides) = OverridesLabel(c.auth_override_paths)
BY BareReads DEF ServiceToLabels

(* The paths that an entry opens are the ones its labels open.             *)
LEMMA MadeDemandsDeclared ==
    ASSUME EntryOK, svc # None, Clean, NEW op
    PROVE  RequiresAuth(op, ServiceToLabels(svc), TRUE) <=> ~DeclaredOpen(op)
<1> DEFINE made == ServiceToLabels(svc)
           items == svc.auth_override_paths
<1>1. /\ items \subseteq OverrideValue
      /\ svc.auth_required \in BOOLEAN \cup {None}
  BY DEF EntryOK, FieldOK, EntryField
<1>2. \A item \in items : Pieces[item] = {item} /\ Pieces[item] \subseteq Override
  BY <1>1, PiecesAssumption DEF Clean, Plain
<1>3. UNION {Pieces[item] : item \in items} = items /\ items \in SUBSET Override
  BY <1>2
<1>4. OverridesLabel(items) = IF items = {} THEN None ELSE items
  BY <1>3 DEF OverridesLabel
<1>5. items # None
  BY <1>3, NoneIsNoField
<1> HIDE DEF items
<1>6. ParseCsv(made.overrides) = items
  BY <1>4, <1>5, MadeReads DEF ParseCsv, items
<1>7. IsOverridePath(op, ParseOverridePaths(made)) <=>
         \E item \in items : /\ op.path \in GlobMatches[OverrideOf[item].path]
                             /\ OverrideOf[item].method \in {"*", op.method}
  BY <1>6 DEF ParseOverridePaths, IsOverridePath
<1>8. Get(made.auth_required) # "false" <=> svc.auth_required # FALSE
  <2>1. Get(made.auth_required) = FlagLabel(svc.auth_required)
    BY MadeReads
  <2>2. CASE svc.auth_required = None
    BY <2>1, <2>2, NoneIsNoField, NoneIsNoFlag DEF FlagLabel
  <2>3. CASE svc.auth_required = TRUE
    BY <2>1, <2>3, NoneIsNoField DEF FlagLabel
  <2>4. CASE svc.auth_required = FALSE
    BY <2>1, <2>4, NoneIsNoField DEF FlagLabel
  <2> QED BY <1>1, <2>2, <2>3, <2>4
<1> QED BY <1>7, <1>8 DEF RequiresAuth, DeclaredOpen, items

(* An entry exposes and asks what it declares, although it goes the way of *)
(* labels.                                                                 *)
THEOREM EntriesDeclareExposure == SpecLabels => []EntryAsDeclared
<1>1. EntryOK => EntryAsDeclared
  <2> SUFFICES ASSUME EntryOK, svc # None, Clean
               PROVE  LET kept == Among(Doc, {op \in Operations(Doc) : DeclaredExposed(op)})
                          made == ServiceToLabels(svc)
                      IN  /\ ManualRoutes(svc) = [n \in DOMAIN kept |-> RouteOf(kept[n], DeclaredPrefix)]
                          /\ \A op \in Operations(Doc) :
                                RequiresAuth(op, made, TRUE) <=> ~DeclaredOpen(op)
                          /\ BaseUrl(made, ServiceName(made, None, None)) = DeclaredHost
                          /\ svc.openapi_url \notin {None, ""} =>
                                SpecUrl(made, ServiceName(made, None, None)) = svc.openapi_url
    BY DEF EntryAsDeclared
  <2> DEFINE made == ServiceToLabels(svc)
             S == {op \in Operations(Doc) : /\ op.method \in HttpMethod
                                            /\ ApplyFilter(ParseLabels(made), op)}
             T == {op \in Operations(Doc) : DeclaredExposed(op)}
  <2>1. svc.name \notin {None, ""}
    BY NoneIsNoField DEF EntryOK, FieldOK, EntryField, Clean
  <2>2. ServiceName(made, None, None) = svc.name
    BY <2>1, MadeReads DEF ServiceName
  <2>3. Prefix(made, svc.name) = DeclaredPrefix
    BY MadeReads DEF Prefix, DeclaredPrefix
  <2>4. Among(Doc, S) = Among(Doc, T)
    BY MadeFilterDeclares, SameSelection
  <2>5. ManualRoutes(svc) = [n \in DOMAIN Among(Doc, T) |-> RouteOf(Among(Doc, T)[n], DeclaredPrefix)]
    BY <2>2, <2>3, <2>4 DEF ManualRoutes, ExtractRoutes
  <2>6. BaseUrl(made, svc.name) = DeclaredHost
    BY MadeReads DEF BaseUrl, DeclaredHost, TextLabel
  <2>7. svc.openapi_url \notin {None, ""} => SpecUrl(made, svc.name) = svc.openapi_url
    BY MadeReads DEF SpecUrl, TextLabel
  <2> QED BY <2>2, <2>5, <2>6, <2>7, MadeDemandsDeclared
<1> QED BY <1>1, EntryTypes, PTL

---------------------------------------------------------------------------
(* A gateway of the other kind, with a namespace or without, reads the     *)
(* labels made of an entry alike: none of them is under a namespace.       *)
LEMMA OtherReads ==
    ASSUME NEW value
    PROVE  Other!Get(Bare(value)) = Get(Bare(value))
BY DEF Other!Get, Get, Bare

(* It selects the same operations                                          *)
LEMMA OtherFilters ==
    ASSUME NEW c, NEW op
    PROVE  Other!ApplyFilter(Other!ParseLabels(ServiceToLabels(c)), op)
              <=> ApplyFilter(ParseLabels(ServiceToLabels(c)), op)
<1> DEFINE made == ServiceToLabels(c)
<1>0. Other!Name = Name /\ Other!Field = Field
  BY DEF Other!Name, Other!Field, Name, Field
<1>1. ASSUME NEW kind \in Kind, NEW name \in Name
      PROVE  /\ made.list[kind, name]["ns"] = None
             /\ Other!Get(made.list[kind, name]) = Get(made.list[kind, name])
  <2>1. made.list[kind, name] = Bare(ListLabel(c, kind, name))
    BY BareLists
  <2>2. Bare(ListLabel(c, kind, name))["ns"] = None
    BY DEF Bare
  <2> QED BY Zenon, <2>1, <2>2, OtherReads
<1> HIDE DEF made
<1>2. ASSUME NEW kind \in Kind PROVE Other!HasPrefix(made, kind) <=> HasPrefix(made, kind)
  BY <1>0, <1>1 DEF Other!HasPrefix, HasPrefix
<1>3. ASSUME NEW kind \in Kind PROVE Other!ListsOf(made, kind) = ListsOf(made, kind)
  BY <1>0, <1>1 DEF Other!ListsOf, ListsOf, Other!ParseCsv, ParseCsv, Name
<1>4. "filter" \in Kind /\ "exclude" \in Kind
  BY DEF Kind
<1>5. Other!ParseLabels(made) = ParseLabels(made)
  BY <1>0, <1>2, <1>3, <1>4 DEF Other!ParseLabels, ParseLabels
<1>6. \A spec : Other!ApplyFilter(spec, op) <=> ApplyFilter(spec, op)
  BY DEF Other!ApplyFilter, ApplyFilter, Other!TagHit, TagHit, Other!PathHit, PathHit,
         Other!OpHit, OpHit
<1> QED BY <1>5, <1>6 DEF made

(* and keeps them in the order of the document.                            *)
LEMMA OtherAmong == ASSUME NEW doc, NEW S PROVE Other!Among(doc, S) = Among(doc, S)
BY DEF Other!Among, Among

(* So an entry needs no namespace.                                         *)
THEOREM EntriesNeedNoNamespace == SpecLabels => []NoNamespaceNeeded
<1>1. NoNamespaceNeeded
  <2> SUFFICES ASSUME svc # None
               PROVE  LET made == ServiceToLabels(svc)
                      IN  /\ ManualRoutes(svc) =
                                Other!ExtractRoutes(Doc, made, Other!ServiceName(made, None, None))
                          /\ \A op \in Operations(Doc) :
                                RequiresAuth(op, made, TRUE) = Other!RequiresAuth(op, made, TRUE)
    BY DEF NoNamespaceNeeded
  <2> DEFINE made == ServiceToLabels(svc)
             name == ServiceName(made, None, None)
             S == {op \in Operations(Doc) : /\ op.method \in HttpMethod
                                            /\ ApplyFilter(ParseLabels(made), op)}
             T == {op \in Other!Operations(Doc) : /\ op.method \in Other!HttpMethod
                                                  /\ Other!ApplyFilter(Other!ParseLabels(made), op)}
  <2>1. /\ Other!Get(made.name) = Get(made.name)
        /\ Other!Get(made.prefix) = Get(made.prefix)
        /\ Other!Get(made.auth_required) = Get(made.auth_required)
        /\ Other!Get(made.overrides) = Get(made.overrides)
    BY OtherReads DEF ServiceToLabels
  <2>2. S = T
    BY OtherFilters DEF Other!Operations, Operations, Other!HttpMethod, HttpMethod
  <2>3. Other!ServiceName(made, None, None) = name
    BY <2>1 DEF Other!ServiceName, ServiceName
  <2>4. Other!Prefix(made, name) = Prefix(made, name)
    BY <2>1 DEF Other!Prefix, Prefix
  <2>5. \A op, prefix : Other!RouteOf(op, prefix) = RouteOf(op, prefix)
    BY DEF Other!RouteOf, RouteOf, Other!PathToGlob, PathToGlob
  <2>6. Other!Among(Doc, T) = Among(Doc, S)
    BY <2>2, OtherAmong
  <2>7. ManualRoutes(svc) = [n \in DOMAIN Among(Doc, S) |-> RouteOf(Among(Doc, S)[n], Prefix(made, name))]
    BY DEF ManualRoutes, ExtractRoutes
  <2>8. Other!ExtractRoutes(Doc, made, name)
           = [n \in DOMAIN Other!Among(Doc, T) |->
                 Other!RouteOf(Other!Among(Doc, T)[n], Other!Prefix(made, name))]
    BY DEF Other!ExtractRoutes
  <2>9. ASSUME NEW op
        PROVE  RequiresAuth(op, made, TRUE) = Other!RequiresAuth(op, made, TRUE)
    <3>1. Other!ParseOverridePaths(made) = ParseOverridePaths(made)
      BY <2>1 DEF Other!ParseOverridePaths, ParseOverridePaths, Other!ParseCsv, ParseCsv
    <3>2. \A overrides : Other!IsOverridePath(op, overrides) <=> IsOverridePath(op, overrides)
      BY DEF Other!IsOverridePath, IsOverridePath
    <3> QED BY <2>1, <3>1, <3>2 DEF Other!RequiresAuth, RequiresAuth
  <2> QED BY <2>3, <2>4, <2>5, <2>6, <2>7, <2>8, <2>9
<1> QED BY <1>1, PTL
================================================================================
