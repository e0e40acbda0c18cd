-------------------------- MODULE SpecEditorProofs --------------------------
(***************************************************************************)
(* GraphLosesNothing, BlockersExact and ExtensionsStillCompile for         *)
(* specifications of any size, edited in any order from heads of any age.  *)
(*                                                                         *)
(* They say that rules stated in different files of the source agree: the  *)
(* validator with the graph builder, with the deletion analysis, and the   *)
(* class of an edit with what Go code beside the generated package needs.  *)
(* So the work is in the lemmas about one valid specification; the state   *)
(* adds only that the head is always valid, and made of resources with ids *)
(* that were minted.                                                       *)
(***************************************************************************)
EXTENDS SpecEditor, FiniteSetTheorems, TLAPS

----------------------------------------------------------------------------
(* Lookups in a valid specification *)

\* A lookup by id finds the entity itself where ids are unique.
LEMMA NamedIsUnique ==
    ASSUME NEW S, NEW x \in S,
           \A y \in S : y.id = x.id => y = x
    PROVE  Named(S, x.id) = x
<1>1. \A y : (y \in S /\ y.id = x.id) <=> y = x
  OBVIOUS
<1> QED BY <1>1 DEF Named

\* A lookup by an id that is there returns an entity with that id.
LEMMA NamedFinds ==
    ASSUME NEW S, NEW i \in Ids(S)
    PROVE  Named(S, i) \in S /\ Named(S, i).id = i
<1>1. PICK x \in S : x.id = i
  BY DEF Ids
<1> QED BY <1>1 DEF Named

\* Field ids are unique in the whole specification, so within a resource.
LEMMA FieldsUnique ==
    ASSUME NEW s, Validate(s), NEW r \in s.resources, NEW f \in r.fields,
           NEW g \in r.fields, f.id = g.id
    PROVE  f = g
<1>1. <<r.id, f>> \in FieldsOf(s) /\ <<r.id, g>> \in FieldsOf(s)
  BY DEF FieldsOf
<1>2. <<r.id, f>> = <<r.id, g>>
  BY <1>1 DEF Validate, UniqueIds
<1> QED BY <1>2

\* No field belongs to two resources.
LEMMA FieldHasOneOwner ==
    ASSUME NEW s, Validate(s), NEW r \in s.resources, NEW q \in s.resources,
           NEW f \in r.fields, f \in q.fields
    PROVE  r = q
<1>1. <<r.id, f>> \in FieldsOf(s) /\ <<q.id, f>> \in FieldsOf(s)
  BY DEF FieldsOf
<1>2. <<r.id, f>> = <<q.id, f>>
  BY <1>1 DEF Validate, UniqueIds
<1> QED BY <1>2 DEF Validate, UniqueIds

\* FindResource and FindField of a valid specification.
LEMMA NamedResource ==
    ASSUME NEW s, Validate(s), NEW r \in s.resources
    PROVE  Named(s.resources, r.id) = r
<1>1. \A y \in s.resources : y.id = r.id => y = r
  BY DEF Validate, UniqueIds
<1> QED BY <1>1, NamedIsUnique

LEMMA NamedField ==
    ASSUME NEW s, Validate(s), NEW r \in s.resources, NEW f \in r.fields
    PROVE  Named(r.fields, f.id) = f
<1>1. \A g \in r.fields : g.id = f.id => g = f
  BY FieldsUnique
<1> QED BY <1>1, NamedIsUnique

----------------------------------------------------------------------------
(* The graph of a valid specification *)

\* Ids that are all there are all resolved.
LEMMA ResolvedAll ==
    ASSUME NEW r, NEW I, I \subseteq Ids(r.fields)
    PROVE  Ids(resolveFields(r, I)) = I
BY DEF resolveFields, Ids

\* The lists of a resource are resolved entirely, to fields that answer them.
LEMMA ListsResolved ==
    ASSUME NEW s, Validate(s), NEW r \in s.resources, NEW c \in Capabilities
    PROVE  /\ Ids(resolveBehavior(r)[c]) = r.lists[c]
           /\ \A f \in resolveBehavior(r)[c] : f.type \in AllowedTypes[c]
<1>1. ValidBehavior(r)
  BY DEF Validate, ValidResources
<1>2. resolveBehavior(r)[c] = resolveFields(r, r.lists[c])
  BY DEF resolveBehavior
<1>3. r.lists[c] \subseteq Ids(r.fields)
  BY <1>1 DEF ValidBehavior
<1>4. ASSUME NEW f \in resolveFields(r, r.lists[c]) PROVE f.type \in AllowedTypes[c]
  <2>1. f \in r.fields /\ f.id \in r.lists[c]
    BY DEF resolveFields
  <2>2. Named(r.fields, f.id) = f
    BY <2>1, NamedField
  <2> QED BY <1>1, <2>1, <2>2 DEF ValidBehavior
<1> QED BY <1>2, <1>3, <1>4, ResolvedAll

\* A relationship is exactly one edge.
LEMMA OneEdge ==
    ASSUME NEW s, Validate(s), NEW x \in FieldsOf(s), x[2].type = "belongs_to"
    PROVE  Cardinality({e \in linkRelationships(s) : e.field = x[2]}) = 1
<1>1. PICK r \in s.resources : \E f \in r.fields : x = <<r.id, f>>
  BY DEF FieldsOf
<1> PICK f \in r.fields : x = <<r.id, f>>
  BY <1>1
<1>2. PICK t \in s.resources : t.id = f.target
  <2>1. ValidFieldType(s, f)
    BY DEF Validate, ValidResources
  <2> QED BY <1>1, <2>1 DEF ValidFieldType, Ids
<1> DEFINE edge == [from |-> r, field |-> f, to |-> t]
<1>3. edge \in linkRelationships(s)
  <2>1. f \in {y[2] : y \in FieldsOf(s)}
    BY <1>1
  <2>2. f.type = "belongs_to"
    BY <1>1
  <2> QED BY <1>2, <2>1, <2>2 DEF linkRelationships
<1>4. ASSUME NEW e \in linkRelationships(s), e.field = f PROVE e = edge
  <2>1. /\ e \in [from : s.resources, field : {y[2] : y \in FieldsOf(s)}, to : s.resources]
        /\ e.field \in e.from.fields /\ e.field.target = e.to.id
    BY DEF linkRelationships
  <2>2. e.from = r
    BY <1>4, <2>1, FieldHasOneOwner
  <2>3. e.to = t
    BY <1>2, <1>4, <2>1 DEF Validate, UniqueIds
  <2> QED BY <1>4, <2>1, <2>2, <2>3
<1>5. {e \in linkRelationships(s) : e.field = x[2]} = {edge}
  BY <1>1, <1>3, <1>4
<1> QED BY <1>5, FS_Singleton

\* A page over a resource shows what it lists, and asks for what can be answered.
PageResolved(s, p) ==
    \E r \in s.resources :
        /\ p.resource = r.id
        /\ p.columns # {} => Ids(tableColumns(r, p)) = p.columns
        /\ Ids(tableFilters(r, p)) = p.filters
        /\ p.filters \subseteq Ids(resolveBehavior(r)["filterable"])
        /\ p.search => resolveBehavior(r)["searchable"] # {}
        /\ p.form # {} => Ids(formFields(r, p)) = p.form

LEMMA PagesResolved ==
    ASSUME NEW s, Validate(s), NEW p \in s.pages, p.type # "dashboard"
    PROVE  PageResolved(s, p)
<1>1. ValidResourcePage(s, p)
  BY DEF Validate, ValidPages
<1> DEFINE r == Named(s.resources, p.resource)
<1>2. r \in s.resources /\ r.id = p.resource
  BY <1>1, NamedFinds DEF ValidResourcePage
<1>3. /\ p.columns \subseteq Ids(r.fields)
      /\ p.search => r.lists["searchable"] # {}
      /\ p.filters \subseteq Ids(r.fields) \cap r.lists["filterable"]
      /\ p.form \subseteq Ids(r.fields)
  BY <1>1 DEF ValidResourcePage
<1> HIDE DEF r
<1>4. /\ Ids(resolveBehavior(r)["filterable"]) = r.lists["filterable"]
      /\ Ids(resolveBehavior(r)["searchable"]) = r.lists["searchable"]
  BY <1>2, ListsResolved DEF Capabilities
<1>5. p.columns # {} => Ids(tableColumns(r, p)) = p.columns
  BY <1>3, ResolvedAll DEF tableColumns
<1>6. Ids(tableFilters(r, p)) = p.filters
  BY <1>3, ResolvedAll DEF tableFilters
<1>7. p.form # {} => Ids(formFields(r, p)) = p.form
  BY <1>3, ResolvedAll DEF formFields
<1>8. p.search => resolveBehavior(r)["searchable"] # {}
  BY <1>3, <1>4 DEF Ids
<1> QED BY <1>2, <1>3, <1>4, <1>5, <1>6, <1>7, <1>8 DEF PageResolved

\* Every card finds its resource and, when it names one, its field.
LEMMA CardsResolved ==
    ASSUME NEW s, Validate(s), \A r \in s.resources : \A f \in r.fields : f.id # NoId,
           NEW p \in s.pages, NEW c \in resolveCards(s, p)
    PROVE  /\ Ids(c.resource) = {c.card.resource}
           /\ Ids(c.field) = {c.card.field} \ {NoId}
<1>1. PICK card \in p.cards :
         c = [card |-> card,
              resource |-> {r \in s.resources : r.id = card.resource},
              field |-> UNION {resolveFields(r, {card.field}) :
                                  r \in {q \in s.resources : q.id = card.resource}}]
  BY DEF resolveCards
<1>2. ValidCard(s, card)
  BY <1>1 DEF Validate, ValidPages, ConfigMatchesType, ValidDashboard
<1> DEFINE r == Named(s.resources, card.resource)
<1>3. r \in s.resources /\ r.id = card.resource
  BY <1>2, NamedFinds DEF ValidCard
<1>4. card.field = NoId \/ card.field \in Ids(r.fields)
  BY <1>2 DEF ValidCard
<1> HIDE DEF r
<1>5. {q \in s.resources : q.id = card.resource} = {r}
  BY <1>3 DEF Validate, UniqueIds
<1>6. c.card = card /\ c.resource = {r} /\ c.field = resolveFields(r, {card.field})
  BY <1>1, <1>5
<1>7. Ids(c.resource) = {card.resource}
  BY <1>3, <1>6 DEF Ids
<1>8. CASE card.field \in Ids(r.fields)
  <2>1. Ids(c.field) = {card.field}
    BY <1>6, <1>8, ResolvedAll
  <2>2. card.field # NoId
    BY <1>3, <1>8 DEF Ids
  <2> QED BY <1>6, <1>7, <2>1, <2>2
<1>9. CASE card.field = NoId
  <2>1. c.field = {}
    BY <1>3, <1>6, <1>9 DEF resolveFields
  <2> QED BY <1>6, <1>7, <1>9, <2>1 DEF Ids
<1> QED BY <1>4, <1>8, <1>9

\* Every entry of the menu is a page.
LEMMA NavigationResolved ==
    ASSUME NEW s, Validate(s)
    PROVE  Ids(buildNavigation(s)) = s.navigation
BY DEF Validate, ValidNavigation, buildNavigation, Ids

----------------------------------------------------------------------------
(* Specifications as the edits build them *)

\* A field, a resource and a specification are records of these members, and
\* every id in them was minted: none is the empty one.
MintedField(f) ==
    /\ f = [id |-> f.id, code |-> f.code, storage |-> f.storage, type |-> f.type,
            target |-> f.target]
    /\ f.id \in FieldIds

MintedResource(r) ==
    /\ r = [lists |-> r.lists, id |-> r.id, hooks |-> r.hooks, code |-> r.code,
            storage |-> r.storage, fields |-> r.fields]
    /\ r.id \in ResourceIds
    /\ \A f \in r.fields : MintedField(f)

Minted(s) ==
    /\ s = [resources |-> s.resources, pages |-> s.pages, navigation |-> s.navigation]
    /\ \A r \in s.resources : MintedResource(r)

\* All of GraphLosesNothing about one valid specification.
LEMMA ValidGraph ==
    ASSUME NEW s, Validate(s), Minted(s)
    PROVE  /\ \A r \in s.resources, c \in Capabilities :
                 /\ Ids(resolveBehavior(r)[c]) = r.lists[c]
                 /\ \A f \in resolveBehavior(r)[c] : f.type \in AllowedTypes[c]
           /\ \A x \in FieldsOf(s) : x[2].type = "belongs_to" =>
                 Cardinality({e \in linkRelationships(s) : e.field = x[2]}) = 1
           /\ \A p \in s.pages : p.type # "dashboard" => PageResolved(s, p)
           /\ \A p \in s.pages : \A c \in resolveCards(s, p) :
                 /\ Ids(c.resource) = {c.card.resource}
                 /\ Ids(c.field) = {c.card.field} \ {NoId}
           /\ Ids(buildNavigation(s)) = s.navigation
<1>1. \A r \in s.resources : \A f \in r.fields : f.id # NoId
  BY SpecEditorAssumption DEF Minted, MintedResource, MintedField
<1>2. \A r \in s.resources, c \in Capabilities :
         /\ Ids(resolveBehavior(r)[c]) = r.lists[c]
         /\ \A f \in resolveBehavior(r)[c] : f.type \in AllowedTypes[c]
  BY ListsResolved
<1>3. \A x \in FieldsOf(s) : x[2].type = "belongs_to" =>
         Cardinality({e \in linkRelationships(s) : e.field = x[2]}) = 1
  BY OneEdge
<1>4. \A p \in s.pages : p.type # "dashboard" => PageResolved(s, p)
  BY PagesResolved
<1>5. \A p \in s.pages : \A c \in resolveCards(s, p) :
         /\ Ids(c.resource) = {c.card.resource}
         /\ Ids(c.field) = {c.card.field} \ {NoId}
  BY <1>1, CardsResolved
<1> QED BY <1>2, <1>3, <1>4, <1>5, NavigationResolved

----------------------------------------------------------------------------
(* The deletion analysis against the validator *)

Rest(s, r) == [s EXCEPT !.resources = @ \ {r}]

LEMMA RestIs ==
    ASSUME NEW s, Minted(s), NEW r \in s.resources
    PROVE  /\ Rest(s, r).resources = s.resources \ {r}
           /\ Rest(s, r).pages = s.pages
           /\ Rest(s, r).navigation = s.navigation
           /\ FieldsOf(Rest(s, r)) \subseteq FieldsOf(s)
<1>1. Rest(s, r) = [resources |-> s.resources \ {r}, pages |-> s.pages,
                    navigation |-> s.navigation]
  BY DEF Rest, Minted
<1> QED BY <1>1 DEF FieldsOf

\* A resource that is left is found as before.
LEMMA RestFinds ==
    ASSUME NEW s, Validate(s), Minted(s), NEW r \in s.resources,
           NEW i \in Ids(s.resources), i # r.id
    PROVE  /\ i \in Ids(Rest(s, r).resources)
           /\ Named(Rest(s, r).resources, i) = Named(s.resources, i)
<1>1. PICK q \in s.resources : q.id = i
  BY DEF Ids
<1>2. q \in Rest(s, r).resources
  BY <1>1, RestIs
<1>3. \A y \in Rest(s, r).resources : y.id = q.id => y = q
  BY RestIs DEF Validate, UniqueIds
<1>4. Named(Rest(s, r).resources, i) = q
  BY <1>1, <1>2, <1>3, NamedIsUnique
<1>5. Named(s.resources, i) = q
  BY <1>1, NamedResource
<1> QED BY <1>1, <1>2, <1>4, <1>5 DEF Ids

\* The resource itself is not found any more.
LEMMA RestForgets ==
    ASSUME NEW s, Validate(s), Minted(s), NEW r \in s.resources
    PROVE  r.id \notin Ids(Rest(s, r).resources)
BY RestIs DEF Validate, UniqueIds, Ids

\* What no blocker at all means.
LEMMA NoBlockers ==
    ASSUME NEW s, NEW i
    PROVE  blockersFor(s, i) = {} <=>
              /\ \A x \in FieldsOf(s) : ~(x[2].type = "belongs_to" /\ x[2].target = i)
              /\ \A p \in s.pages : p.resource # i
              /\ \A p \in s.pages : \A card \in p.cards : card.resource # i
<1> DEFINE R == {y \in FieldsOf(s) : y[2].type = "belongs_to" /\ y[2].target = i}
           P == {q \in s.pages : q.resource = i}
           C == {q \in s.pages : \E card \in q.cards : card.resource = i}
<1>1. blockersFor(s, i) = {<<"relationship", x[2].id>> : x \in R}
                          \cup {<<"page", p.id>> : p \in P}
                          \cup {<<"dashboard_card", p.id>> : p \in C}
  BY DEF blockersFor
<1>2. blockersFor(s, i) = {} <=> R = {} /\ P = {} /\ C = {}
  <2> HIDE DEF R, P, C
  <2> QED BY <1>1
<1> QED BY <1>2

\* What refers to a resource keeps the rest from being valid.
LEMMA BlockedIsInvalid ==
    ASSUME NEW s, Validate(s), Minted(s), NEW r \in s.resources, Validate(Rest(s, r))
    PROVE  blockersFor(Rest(s, r), r.id) = {}
<1> DEFINE rest == Rest(s, r)
<1>1. r.id \notin Ids(rest.resources)
  BY RestForgets
<1>2. r.id # NoId
  BY SpecEditorAssumption DEF Minted, MintedResource
<1>3. Validate(rest)
  OBVIOUS
<1> HIDE DEF rest
<1>4. ASSUME NEW x \in FieldsOf(rest), x[2].type = "belongs_to" PROVE x[2].target # r.id
  <2>1. PICK q \in rest.resources : \E f \in q.fields : x = <<q.id, f>>
    BY DEF FieldsOf
  <2>2. PICK f \in q.fields : x = <<q.id, f>>
    BY <2>1
  <2>3. ValidFieldType(rest, f)
    BY <1>3 DEF Validate, ValidResources
  <2> QED BY <1>1, <1>4, <2>2, <2>3 DEF ValidFieldType
<1>5. ASSUME NEW p \in rest.pages PROVE p.resource # r.id
  BY <1>1, <1>2, <1>3 DEF Validate, ValidPages, ValidDashboard, ValidResourcePage
<1>6. ASSUME NEW p \in rest.pages, NEW card \in p.cards PROVE card.resource # r.id
  <2>1. ValidCard(rest, card)
    BY <1>3 DEF Validate, ValidPages, ConfigMatchesType, ValidDashboard
  <2> QED BY <1>1, <2>1 DEF ValidCard
<1>7. blockersFor(rest, r.id) = {}
  BY <1>4, <1>5, <1>6, NoBlockers
<1> QED BY <1>7 DEF rest

\* And nothing else does.
LEMMA UnblockedIsValid ==
    ASSUME NEW s, Validate(s), Minted(s), NEW r \in s.resources,
           blockersFor(Rest(s, r), r.id) = {}
    PROVE  Validate(Rest(s, r))
<1> DEFINE rest == Rest(s, r)
<1>1. /\ rest.resources = s.resources \ {r}
      /\ rest.pages = s.pages /\ rest.navigation = s.navigation
      /\ FieldsOf(rest) \subseteq FieldsOf(s)
  BY RestIs
<1>2. /\ \A x \in FieldsOf(rest) : ~(x[2].type = "belongs_to" /\ x[2].target = r.id)
      /\ \A p \in s.pages : p.resource # r.id
      /\ \A p \in s.pages : \A card \in p.cards : card.resource # r.id
  BY <1>1, NoBlockers
<1>3. \A i \in Ids(s.resources) : i # r.id =>
         /\ i \in Ids(rest.resources)
         /\ Named(rest.resources, i) = Named(s.resources, i)
  BY RestFinds
<1> HIDE DEF rest
<1>4. UniqueIds(rest)
  BY <1>1 DEF Validate, UniqueIds
<1>5. ValidResources(rest)
  <2>1. ValidResourceNames(rest)
    BY <1>1 DEF Validate, ValidResources, ValidResourceNames
  <2>2. ASSUME NEW q \in rest.resources, NEW f \in q.fields PROVE ValidFieldType(rest, f)
    <3>1. q \in s.resources /\ <<q.id, f>> \in FieldsOf(rest)
      BY <1>1 DEF FieldsOf
    <3>2. ValidFieldType(s, f)
      BY <3>1 DEF Validate, ValidResources
    <3>3. f.type = "belongs_to" => f.target # r.id
      BY <1>2, <3>1
    <3> QED BY <1>3, <3>2, <3>3 DEF ValidFieldType
  <2> QED BY <1>1, <2>1, <2>2 DEF Validate, ValidResources
<1>6. ValidPages(rest)
  <2>1. ASSUME NEW p \in s.pages, ValidResourcePage(s, p) PROVE ValidResourcePage(rest, p)
    <3>1. p.resource \in Ids(s.resources) /\ p.resource # r.id
      BY <1>2, <2>1 DEF ValidResourcePage
    <3> QED BY <1>3, <2>1, <3>1 DEF ValidResourcePage
  <2>2. ASSUME NEW p \in s.pages, ValidDashboard(s, p) PROVE ValidDashboard(rest, p)
    <3>1. ASSUME NEW card \in p.cards PROVE ValidCard(rest, card)
      <4>1. ValidCard(s, card)
        BY <2>2 DEF ValidDashboard
      <4>2. card.resource \in Ids(s.resources) /\ card.resource # r.id
        BY <1>2, <4>1 DEF ValidCard
      <4> QED BY <1>3, <4>1, <4>2 DEF ValidCard
    <3> QED BY <2>2, <3>1 DEF ValidDashboard
  <2> QED BY <1>1, <2>1, <2>2 DEF Validate, ValidPages
<1>7. ValidNavigation(rest)
  BY <1>1 DEF Validate, ValidNavigation
<1>8. Validate(rest)
  BY <1>4, <1>5, <1>6, <1>7 DEF Validate
<1> QED BY <1>8 DEF rest

----------------------------------------------------------------------------
(* The class of an edit *)

\* What Go code beside the generated package needs of a resource.
StillCompiles(r, q) ==
    /\ q.id = r.id /\ q.code = r.code
    /\ \A f \in r.fields : \E g \in q.fields : SameAccessor(f, g)
    /\ r.hooks # {} => q.hooks = r.hooks

\* An edit that is not breaking leaves every resource of a valid specification
\* compiling; the candidate's lookups are by id as well.
LEMMA UnbrokenCompiles ==
    ASSUME NEW s, Validate(s), NEW t, ClassifyEdit(s, t) # "breaking", NEW r \in s.resources
    PROVE  \E q \in t.resources : StillCompiles(r, q)
<1> DEFINE cur == ExtensionABI(s)
           cand == ExtensionABI(t)
           q == Named(t.resources, r.id)
<1>1. /\ DOMAIN cur = Ids(s.resources)
      /\ DOMAIN cand = Ids(t.resources)
      /\ \A i \in Ids(s.resources) : cur[i] = ResourceABI(Named(s.resources, i))
      /\ \A i \in Ids(t.resources) : cand[i] = ResourceABI(Named(t.resources, i))
  BY DEF ExtensionABI
<1>2. r.id \in Ids(s.resources) /\ cur[r.id] = ResourceABI(r)
  BY <1>1, NamedResource DEF Ids
<1>3. \/ cur = cand
      \/ /\ r.id \in DOMAIN cand
         /\ cand[r.id].type = cur[r.id].type
         /\ ~BreaksFields(cur[r.id].fields, cand[r.id].fields)
         /\ ~BreaksHooks(cur[r.id].hooks, cand[r.id].hooks)
  <2> HIDE DEF cur, cand
  <2>1. ClassifyTransition(cur, cand) # "breaking"
    BY DEF ClassifyEdit, cur, cand
  <2>2. r.id \in DOMAIN cur
    BY <1>1, <1>2
  <2> QED BY <2>1, <2>2 DEF ClassifyTransition
<1>4. /\ r.id \in Ids(t.resources)
      /\ cand[r.id] = ResourceABI(q)
  BY <1>1, <1>2, <1>3
<1>5. q \in t.resources /\ q.id = r.id
  BY <1>4, NamedFinds
<1> HIDE DEF q, cur, cand
<1>6. /\ ResourceABI(q).type = ResourceABI(r).type
      /\ ~BreaksFields(ResourceABI(r).fields, ResourceABI(q).fields)
      /\ ~BreaksHooks(ResourceABI(r).hooks, ResourceABI(q).hooks)
  BY <1>2, <1>3, <1>4 DEF BreaksFields, BreaksHooks
<1>7. q.code = r.code
  BY <1>6 DEF ResourceABI
<1>8. r.hooks # {} => q.hooks = r.hooks
  BY <1>6 DEF ResourceABI, BreaksHooks
<1>9. ASSUME NEW f \in r.fields PROVE \E g \in q.fields : SameAccessor(f, g)
  <2> DEFINE g == Named(q.fields, f.id)
  <2>1. f.id \in Ids(r.fields) /\ Named(r.fields, f.id) = f
    BY NamedField DEF Ids
  <2>2. /\ ResourceABI(r).fields = [i \in Ids(r.fields) |-> FieldABI(Named(r.fields, i))]
        /\ ResourceABI(q).fields = [i \in Ids(q.fields) |-> FieldABI(Named(q.fields, i))]
    BY DEF ResourceABI
  <2>3. f.id \in Ids(q.fields) /\ FieldABI(g) = FieldABI(f)
    BY <1>6, <2>1, <2>2 DEF BreaksFields
  <2>4. g \in q.fields /\ g.id = f.id
    BY <2>3, NamedFinds
  <2> HIDE DEF g
  <2> QED BY <2>3, <2>4 DEF FieldABI, SameAccessor
<1> QED BY <1>5, <1>7, <1>8, <1>9 DEF StillCompiles

----------------------------------------------------------------------------
(* The invariant *)

\* Whatever an edit or an editor starts from was minted; the head is valid too.
EditorInv ==
    /\ head # NoSpec => Validate(head) /\ Minted(head)
    /\ loaded # NoSpec => Minted(loaded)

LEMMA MintedRecord ==
    ASSUME NEW R, NEW P, NEW N, \A r \in R : MintedResource(r)
    PROVE  Minted([resources |-> R, pages |-> P, navigation |-> N])
BY DEF Minted

LEMMA MintedEmpty == Minted(EmptySpec)
BY DEF Minted, EmptySpec

\* Changing one resource of a specification, or its pages and menu.
LEMMA MintedWithResource ==
    ASSUME NEW s, Minted(s), NEW r, NEW q, MintedResource(q)
    PROVE  Minted(WithResource(s, r, q))
<1>1. WithResource(s, r, q) = [resources |-> (s.resources \ {r}) \cup {q},
                               pages |-> s.pages, navigation |-> s.navigation]
  BY DEF WithResource, Change, Minted
<1> QED BY <1>1 DEF Minted

LEMMA MintedPages ==
    ASSUME NEW s, Minted(s), NEW P, NEW N
    PROVE  /\ Minted([s EXCEPT !.pages = P])
           /\ Minted([s EXCEPT !.navigation = N])
<1>1. /\ [s EXCEPT !.pages = P] =
             [resources |-> s.resources, pages |-> P, navigation |-> s.navigation]
      /\ [s EXCEPT !.navigation = N] =
             [resources |-> s.resources, pages |-> s.pages, navigation |-> N]
  BY DEF Minted
<1> QED BY <1>1 DEF Minted

LEMMA MintedWithPage ==
    ASSUME NEW s, Minted(s), NEW p, NEW q
    PROVE  Minted(WithPage(s, p, q))
BY MintedPages DEF WithPage

\* Changing one member of a resource but its id.
LEMMA MintedMembers ==
    ASSUME NEW r, MintedResource(r), NEW x
    PROVE  /\ MintedResource([r EXCEPT !.lists = x])
           /\ MintedResource([r EXCEPT !.hooks = x])
           /\ MintedResource([r EXCEPT !.code = x])
           /\ (\A f \in x : MintedField(f)) => MintedResource([r EXCEPT !.fields = x])
<1>1. r.id \in ResourceIds /\ \A f \in r.fields : MintedField(f)
  BY DEF MintedResource
<1> DEFINE id == r.id
           hooks == r.hooks
           code == r.code
           lists == r.lists
           storage == r.storage
           fields == r.fields
<1>2. r = [lists |-> lists, id |-> id, hooks |-> hooks, code |-> code,
           storage |-> storage, fields |-> fields]
  BY DEF MintedResource
<1> HIDE DEF id, hooks, code, lists, storage, fields
<1>3. /\ [r EXCEPT !.lists = x] = [lists |-> x, id |-> id, hooks |-> hooks, code |-> code,
                                   storage |-> storage, fields |-> fields]
      /\ [r EXCEPT !.hooks = x] = [lists |-> lists, id |-> id, hooks |-> x, code |-> code,
                                   storage |-> storage, fields |-> fields]
      /\ [r EXCEPT !.code = x] = [lists |-> lists, id |-> id, hooks |-> hooks, code |-> x,
                                  storage |-> storage, fields |-> fields]
      /\ [r EXCEPT !.fields = x] = [lists |-> lists, id |-> id, hooks |-> hooks,
                                    code |-> code, storage |-> storage, fields |-> x]
  BY <1>2
<1>4. id \in ResourceIds /\ \A f \in fields : MintedField(f)
  BY <1>1 DEF id, fields
<1> QED BY <1>3, <1>4 DEF MintedResource

LEMMA MintedFieldRecord ==
    ASSUME NEW i \in FieldIds, NEW c, NEW n, NEW t, NEW g
    PROVE  MintedField([id |-> i, code |-> c, storage |-> n, type |-> t, target |-> g])
BY DEF MintedField

\* Changing a field but its id.
LEMMA MintedFieldMembers ==
    ASSUME NEW f, MintedField(f), NEW c, NEW t, NEW i
    PROVE  /\ MintedField([f EXCEPT !.code = c])
           /\ MintedField([f EXCEPT !.type = t])
           /\ MintedField([f EXCEPT !.type = t, !.target = i])
<1> DEFINE id == f.id
           code == f.code
           storage == f.storage
           type == f.type
           target == f.target
<1>1. id \in FieldIds
  BY DEF MintedField
<1>2. f = [id |-> id, code |-> code, storage |-> storage, type |-> type, target |-> target]
  BY DEF MintedField
<1> HIDE DEF id, code, storage, type, target
<1>3. /\ [f EXCEPT !.code = c] =
            [id |-> id, code |-> c, storage |-> storage, type |-> type, target |-> target]
      /\ [f EXCEPT !.type = t] =
            [id |-> id, code |-> code, storage |-> storage, type |-> t, target |-> target]
  BY <1>2
<1> DEFINE g == [f EXCEPT !.type = t]
<1>5. [f EXCEPT !.type = t, !.target = i] = [g EXCEPT !.target = i]
  OBVIOUS
<1>6. g = [id |-> id, code |-> code, storage |-> storage, type |-> t, target |-> target]
  BY <1>2
<1> HIDE DEF g
<1>7. [g EXCEPT !.target = i] =
            [id |-> id, code |-> code, storage |-> storage, type |-> t, target |-> i]
  BY <1>6
<1>4. id \in FieldIds
  BY <1>1 DEF id
<1> QED BY <1>3, <1>4, <1>5, <1>7, MintedFieldRecord

\* A resource with one more field, one less, or one changed.
LEMMA MintedFields ==
    ASSUME NEW s, Minted(s), NEW r \in s.resources, NEW f, NEW g, MintedField(g)
    PROVE  /\ Minted(WithResource(s, r, [r EXCEPT !.fields = @ \cup {g}]))
           /\ Minted(WithResource(s, r, [r EXCEPT !.fields = Change(@, f, g)]))
           /\ Minted(WithResource(s, r, [r EXCEPT !.fields = @ \ {f}]))
<1>1. MintedResource(r) /\ \A h \in r.fields : MintedField(h)
  BY DEF Minted, MintedResource
<1>2. /\ \A h \in r.fields \cup {g} : MintedField(h)
      /\ \A h \in Change(r.fields, f, g) : MintedField(h)
      /\ \A h \in r.fields \ {f} : MintedField(h)
  BY <1>1 DEF Change
<1>3. /\ MintedResource([r EXCEPT !.fields = r.fields \cup {g}])
      /\ MintedResource([r EXCEPT !.fields = Change(r.fields, f, g)])
      /\ MintedResource([r EXCEPT !.fields = r.fields \ {f}])
  BY <1>1, <1>2, MintedMembers
<1> QED BY <1>3, MintedWithResource

\* A resource dropped, with or without what refers to it.
LEMMA MintedRest ==
    ASSUME NEW s, Minted(s), NEW r, NEW P, NEW N
    PROVE  /\ Minted([s EXCEPT !.resources = @ \ {r}])
           /\ Minted([s EXCEPT !.resources = @ \ {r}, !.pages = P, !.navigation = N])
<1> DEFINE resources == s.resources
           pages == s.pages
           navigation == s.navigation
<1>1. s = [resources |-> resources, pages |-> pages, navigation |-> navigation]
  BY DEF Minted
<1>2. \A q \in resources \ {r} : MintedResource(q)
  BY DEF Minted
<1> HIDE DEF resources, pages, navigation
<1> DEFINE fewer == [s EXCEPT !.resources = @ \ {r}]
           paged == [fewer EXCEPT !.pages = P]
<1>3. [s EXCEPT !.resources = @ \ {r}, !.pages = P, !.navigation = N] =
         [paged EXCEPT !.navigation = N]
  OBVIOUS
<1>4. fewer = [resources |-> resources \ {r}, pages |-> pages, navigation |-> navigation]
  BY <1>1
<1> HIDE DEF fewer
<1>5. paged = [resources |-> resources \ {r}, pages |-> P, navigation |-> navigation]
  BY <1>4
<1> HIDE DEF paged
<1>6. [paged EXCEPT !.navigation = N] =
         [resources |-> resources \ {r}, pages |-> P, navigation |-> N]
  BY <1>5
<1>7. Minted(fewer) /\ Minted([paged EXCEPT !.navigation = N])
  BY <1>2, <1>4, <1>6, MintedRecord
<1> QED BY <1>3, <1>7 DEF fewer

\* Whatever an editor makes of what it loaded was minted.
LEMMA MintedDrafts ==
    ASSUME NEW s, Minted(s)
    PROVE  \A d \in Drafts(s) : Minted(d)
<1> DEFINE Hooked(r, h) == WithResource(s, r, [r EXCEPT !.hooks = h])
           Recoded(r, c) == WithResource(s, r, [r EXCEPT !.code = c])
           Refield(r, f, g) == WithResource(s, r, [r EXCEPT !.fields = Change(@, f, g)])
           Renamed(r, f, c) == Refield(r, f, [f EXCEPT !.code = c])
           Retyped(r, f, t) == Refield(r, f, [f EXCEPT !.type = t, !.target = NoId])
           Copied(r, x) == WithResource(s, r, [r EXCEPT !.fields = @ \cup {x[2]}])
           Carded(p, C) == WithPage(s, p, [p EXCEPT !.cards = C])
           Dropped(r) == [s EXCEPT !.resources = @ \ {r},
                                   !.pages = {p \in @ : p.resource # r.id},
                                   !.navigation = {}]
           OneCard == {{}} \cup {{c} : c \in Cards(s)}
<1>1. Drafts(s) =
         {s, EmptySpec}
         \cup {Hooked(r, h) : r \in s.resources, h \in SUBSET Events}
         \cup {Recoded(r, c) : r \in s.resources, c \in FieldLabels}
         \cup (UNION {{Renamed(r, f, c) : f \in r.fields, c \in FieldLabels} :
                      r \in s.resources})
         \cup (UNION {{Retyped(r, f, t) : f \in r.fields, t \in Types} : r \in s.resources})
         \cup {Copied(r, x) : r \in s.resources, x \in FieldsOf(s)}
         \cup {Carded(p, C) : p \in s.pages, C \in OneCard}
         \cup {Dropped(r) : r \in s.resources}
  BY DEF Drafts
<1>2. \A r \in s.resources : MintedResource(r) /\ \A f \in r.fields : MintedField(f)
  BY DEF Minted, MintedResource
<1>3. \A r \in s.resources : \A x : Minted(Hooked(r, x)) /\ Minted(Recoded(r, x))
  BY <1>2, MintedMembers, MintedWithResource
<1>4. \A r \in s.resources : \A f, g : MintedField(g) => Minted(Refield(r, f, g))
  BY MintedFields
<1>5. \A r \in s.resources : \A f \in r.fields : \A c : Minted(Renamed(r, f, c))
  <2> HIDE DEF Refield
  <2> QED BY <1>2, <1>4, MintedFieldMembers
<1>6. \A r \in s.resources : \A f \in r.fields : \A t : Minted(Retyped(r, f, t))
  <2> HIDE DEF Refield
  <2>1. ASSUME NEW r \in s.resources, NEW f \in r.fields, NEW t
        PROVE  MintedField([f EXCEPT !.type = t, !.target = NoId])
    BY <1>2, MintedFieldMembers
  <2> QED BY <1>4, <2>1
<1>7. \A r \in s.resources, x \in FieldsOf(s) : Minted(Copied(r, x))
  <2>1. \A x \in FieldsOf(s) : MintedField(x[2])
    BY <1>2 DEF FieldsOf
  <2> QED BY <2>1, MintedFields
<1>8. \A p \in s.pages, C \in OneCard : Minted(Carded(p, C))
  BY MintedWithPage
<1>9. \A r \in s.resources : Minted(Dropped(r))
  <2>1. \A r \in s.resources :
           Dropped(r) = [s EXCEPT !.resources = @ \ {r},
                                  !.pages = {p \in s.pages : p.resource # r.id},
                                  !.navigation = {}]
    BY DEF Minted
  <2> QED BY <2>1, MintedRest
<1> HIDE DEF Hooked, Recoded, Renamed, Retyped, Copied, Carded, Dropped, OneCard
<1> QED BY <1>1, <1>3, <1>5, <1>6, <1>7, <1>8, <1>9, MintedEmpty

\* The gate: the head stays, or becomes a valid candidate that breaks nothing.
LEMMA GateMinted ==
    ASSUME NEW candidate, Minted(candidate), EditorInv, classifyAndInsertLocked(candidate)
    PROVE  head' # NoSpec => Validate(head') /\ Minted(head')
BY DEF classifyAndInsertLocked, Accepts, EditorInv

\* A new resource has an id that was minted.
LEMMA AddResourceMinted ==
    ASSUME EditorInv, NEW label, AddResource(label)
    PROVE  head' # NoSpec => Validate(head') /\ Minted(head')
<1> DEFINE current == IF head = NoSpec THEN EmptySpec ELSE head
           new(id) == [lists |-> NoLists, id |-> id, hooks |-> {},
                       code |-> MintResource(current, label),
                       storage |-> deriveStorageName(current, label),
                       fields |-> {}]
<1>1. Minted(current)
  BY MintedEmpty DEF EditorInv
<1>2. PICK id \in FreeResourceIds(current) :
         classifyAndInsertLocked([current EXCEPT !.resources = @ \cup {new(id)}])
  BY DEF AddResource
<1>3. MintedResource(new(id))
  BY DEF MintedResource, FreeResourceIds
<1> HIDE DEF current, new
<1>4. [current EXCEPT !.resources = @ \cup {new(id)}] =
         [resources |-> current.resources \cup {new(id)}, pages |-> current.pages,
          navigation |-> current.navigation]
  BY <1>1 DEF Minted
<1>5. \A r \in current.resources \cup {new(id)} : MintedResource(r)
  BY <1>1, <1>3 DEF Minted
<1>6. Minted([current EXCEPT !.resources = @ \cup {new(id)}])
  BY <1>4, <1>5, MintedRecord
<1> QED BY <1>2, <1>6, GateMinted

\* The edits of a resource.
LEMMA EditResourceMinted ==
    ASSUME EditorInv, EditResource
    PROVE  head' # NoSpec => Validate(head') /\ Minted(head')
<1>1. head # NoSpec /\ Minted(head)
  BY DEF EditResource, EditorInv
<1>2. PICK r \in head.resources :
        \/ DeleteResource(r)
        \/ \E lists \in Behaviors : UpdateBehavior(r, lists)
        \/ \E label \in FieldLabels, type \in Types : AddField(r, label, type)
        \/ \E f \in r.fields, type \in Types : UpdateField(r, f, type)
        \/ \E f \in r.fields : DeleteField(r, f)
        \/ \E label \in FieldLabels, t \in ResourceIds : AddRelationship(r, label, t)
  BY DEF EditResource
<1>3. MintedResource(r) /\ \A f \in r.fields : MintedField(f)
  BY <1>1 DEF Minted, MintedResource
<1>4. CASE DeleteResource(r)
  <2>1. Minted([head EXCEPT !.resources = @ \ {r}])
    BY <1>1, MintedRest
  <2> QED BY <1>4, <2>1 DEF DeleteResource, EditorInv
<1>5. ASSUME NEW lists \in Behaviors, UpdateBehavior(r, lists)
      PROVE  head' # NoSpec => Validate(head') /\ Minted(head')
  <2>1. Minted(WithResource(head, r, [r EXCEPT !.lists = lists]))
    BY <1>1, <1>3, MintedMembers, MintedWithResource
  <2> QED BY <1>5, <2>1, GateMinted DEF UpdateBehavior
<1>6. ASSUME NEW label \in FieldLabels, NEW type \in Types, AddField(r, label, type)
      PROVE  head' # NoSpec => Validate(head') /\ Minted(head')
  <2> DEFINE new(id) == [id |-> id, code |-> MintField(r, label),
                         storage |-> deriveFieldStorageName(r, label),
                         type |-> type, target |-> NoId]
  <2>1. PICK id \in FreeFieldIds(head) : classifyAndInsertLocked(
            WithResource(head, r, [r EXCEPT !.fields = @ \cup {new(id)}]))
    BY <1>6 DEF AddField
  <2>2. MintedField(new(id))
    BY MintedFieldRecord DEF FreeFieldIds
  <2> HIDE DEF new
  <2>3. Minted(WithResource(head, r, [r EXCEPT !.fields = @ \cup {new(id)}]))
    BY <1>1, <2>2, MintedFields
  <2> QED BY <2>1, <2>3, GateMinted
<1>7. ASSUME NEW f \in r.fields, NEW type \in Types, UpdateField(r, f, type)
      PROVE  head' # NoSpec => Validate(head') /\ Minted(head')
  <2>1. MintedField([f EXCEPT !.type = type])
    BY <1>3, MintedFieldMembers
  <2>2. Minted(WithResource(head, r, [r EXCEPT !.fields = Change(@, f, [f EXCEPT !.type = type])]))
    BY <1>1, <2>1, MintedFields
  <2> QED BY <1>7, <2>2, GateMinted DEF UpdateField
<1>8. ASSUME NEW f \in r.fields, DeleteField(r, f)
      PROVE  head' # NoSpec => Validate(head') /\ Minted(head')
  <2>1. Minted(WithResource(head, r, [r EXCEPT !.fields = @ \ {f}]))
    BY <1>1, <1>3, MintedFields
  <2> QED BY <1>8, <2>1, GateMinted DEF DeleteField
<1>9. ASSUME NEW label \in FieldLabels, NEW t \in ResourceIds, AddRelationship(r, label, t)
      PROVE  head' # NoSpec => Validate(head') /\ Minted(head')
  <2> DEFINE new(id) == [id |-> id, code |-> MintField(r, label),
                         storage |-> deriveForeignKeyName(r, label),
                         type |-> "belongs_to", target |-> t]
  <2>1. PICK id \in FreeFieldIds(head) : classifyAndInsertLocked(
            WithResource(head, r, [r EXCEPT !.fields = @ \cup {new(id)}]))
    BY <1>9 DEF AddRelationship
  <2>2. MintedField(new(id))
    BY MintedFieldRecord DEF FreeFieldIds
  <2> HIDE DEF new
  <2>3. Minted(WithResource(head, r, [r EXCEPT !.fields = @ \cup {new(id)}]))
    BY <1>1, <2>2, MintedFields
  <2> QED BY <2>1, <2>3, GateMinted
<1> QED BY <1>2, <1>4, <1>5, <1>6, <1>7, <1>8, <1>9

\* The edits of pages and of the menu leave the resources alone.
LEMMA EditPageMinted ==
    ASSUME EditorInv, EditPage
    PROVE  head' # NoSpec => Validate(head') /\ Minted(head')
<1>1. head # NoSpec /\ Minted(head)
  BY DEF EditPage, EditorInv
<1>2. \A P : Minted([head EXCEPT !.pages = P])
  BY <1>1, MintedPages
<1>3. \A N : Minted([head EXCEPT !.navigation = N])
  BY <1>1, MintedPages
<1>4. \A p, q : Minted(WithPage(head, p, q))
  BY <1>1, MintedWithPage
<1>5. ASSUME NEW label, NEW type, NEW r, AddPage(label, type, r)
      PROVE  head' # NoSpec => Validate(head') /\ Minted(head')
  BY <1>2, <1>5, GateMinted DEF AddPage
<1>6. ASSUME NEW p, NEW C, NEW F, NEW search, UpdateTableConfig(p, C, search, F)
      PROVE  head' # NoSpec => Validate(head') /\ Minted(head')
  BY <1>4, <1>6, GateMinted DEF UpdateTableConfig
<1>7. ASSUME NEW p, NEW F, UpdateFormConfig(p, F)
      PROVE  head' # NoSpec => Validate(head') /\ Minted(head')
  BY <1>4, <1>7, GateMinted DEF UpdateFormConfig
<1>8. ASSUME NEW p, DeletePage(p)
      PROVE  head' # NoSpec => Validate(head') /\ Minted(head')
  BY <1>2, <1>8, GateMinted DEF DeletePage
<1>9. ASSUME NEW items, SetNavigation(items)
      PROVE  head' # NoSpec => Validate(head') /\ Minted(head')
  BY <1>3, <1>9, GateMinted DEF SetNavigation
<1> QED BY <1>5, <1>6, <1>7, <1>8, <1>9 DEF EditPage

\* Every step keeps the head valid, and what it is made of minted.
LEMMA EditorInductive ==
    ASSUME EditorInv, [Next]_vars
    PROVE  EditorInv'
<1>1. ASSUME NEW label \in ResourceLabels, AddResource(label) PROVE EditorInv'
  <2>1. loaded' = loaded
    BY <1>1 DEF AddResource
  <2> QED BY <1>1, <2>1, AddResourceMinted DEF EditorInv
<1>2. CASE Relabel
  <2>1. head # NoSpec /\ loaded' = loaded /\ classifyAndInsertLocked(head)
    BY <1>2 DEF Relabel
  <2> QED BY <2>1, GateMinted DEF EditorInv
<1>3. CASE EditResource
  <2>1. loaded' = loaded
    BY <1>3 DEF EditResource, DeleteResource, UpdateBehavior, AddField, UpdateField,
                DeleteField, AddRelationship
  <2> QED BY <1>3, <2>1, EditResourceMinted DEF EditorInv
<1>4. CASE EditPage
  <2>1. loaded' = loaded
    BY <1>4 DEF EditPage, AddPage, UpdateTableConfig, UpdateFormConfig, DeletePage,
                SetNavigation
  <2> QED BY <1>4, <2>1, EditPageMinted DEF EditorInv
<1>5. CASE getProjectSpec
  BY <1>5 DEF getProjectSpec, EditorInv
<1>6. CASE SubmitCandidate
  <2> DEFINE base == IF loaded = NoSpec THEN EmptySpec ELSE loaded
  <2>1. Minted(base)
    BY MintedEmpty DEF EditorInv
  <2>2. PICK candidate \in Drafts(base) : classifyAndInsertLocked(candidate)
    BY <1>6 DEF SubmitCandidate
  <2>3. loaded' = NoSpec
    BY <1>6 DEF SubmitCandidate
  <2>4. Minted(candidate)
    BY <2>1, <2>2, MintedDrafts
  <2> QED BY <2>2, <2>3, <2>4, GateMinted DEF EditorInv
<1>7. CASE UNCHANGED vars
  BY <1>7 DEF vars, EditorInv
<1> QED BY <1>1, <1>2, <1>3, <1>4, <1>5, <1>6, <1>7 DEF Next

\* The head is a valid specification after any edits (classifyAndInsertLocked and
\* DeleteResource both validate what they store), and its ids were minted (NewID).
THEOREM EditorInvariant == Spec => []EditorInv
<1>1. Init => EditorInv
  BY DEF Init, EditorInv
<1> QED BY <1>1, EditorInductive, PTL DEF Spec

\* No edit, of whatever age, commits a specification of which the graph builder would
\* drop anything (resolveFields, resolveCards, buildNavigation of graph.go): whatever
\* the sizes of the specifications, the validator refuses every dangling reference.
THEOREM EditorGraphLosesNothing == Spec => []GraphLosesNothing
<1>1. EditorInv => GraphLosesNothing
  <2> SUFFICES ASSUME EditorInv, head # NoSpec PROVE GraphLosesNothing
    BY DEF GraphLosesNothing
  <2>1. Validate(head) /\ Minted(head)
    BY DEF EditorInv
  <2> QED BY <2>1, ValidGraph DEF GraphLosesNothing, PageResolved
<1> QED BY <1>1, EditorInvariant, PTL

\* The blockers an owner is shown are exactly what keeps the rest of the specification
\* from being valid (blockersFor of deletion.go against Validate), for any specification
\* the edits can reach.
THEOREM EditorBlockersExact == Spec => []BlockersExact
<1>1. EditorInv => BlockersExact
  <2> SUFFICES ASSUME EditorInv, head # NoSpec, NEW r \in head.resources
               PROVE  blockersFor(Rest(head, r), r.id) = {} <=> Validate(Rest(head, r))
    BY DEF BlockersExact, Rest
  <2>1. Validate(head) /\ Minted(head)
    BY DEF EditorInv
  <2> QED BY <2>1, BlockedIsInvalid, UnblockedIsValid
<1> QED BY <1>1, EditorInvariant, PTL

----------------------------------------------------------------------------
(* What a step may do to the resources there are *)

\* Every change of the head passes the gate, but for the deletion of one resource to
\* which nothing refers.
LEMMA StepPassesGate ==
    ASSUME head # NoSpec, Next
    PROVE  \/ head' = head
           \/ ClassifyEdit(head, head') # "breaking"
           \/ \E r \in head.resources : /\ head' = Rest(head, r)
                                        /\ blockersFor(Rest(head, r), r.id) = {}
<1> DEFINE Passes == head' = head \/ ClassifyEdit(head, head') # "breaking"
<1>1. \A candidate : classifyAndInsertLocked(candidate) => Passes
  BY DEF classifyAndInsertLocked, Accepts
<1> HIDE DEF Passes
<1>2. (\E label \in ResourceLabels : AddResource(label)) \/ Relabel \/ SubmitCandidate => Passes
  BY <1>1 DEF AddResource, Relabel, SubmitCandidate
<1>3. EditPage => Passes
  BY <1>1 DEF EditPage, AddPage, UpdateTableConfig, UpdateFormConfig, DeletePage, SetNavigation
<1>4. \A r \in head.resources :
         /\ \A lists \in Behaviors : UpdateBehavior(r, lists) => Passes
         /\ \A label \in FieldLabels, type \in Types : AddField(r, label, type) => Passes
         /\ \A f \in r.fields, type \in Types : UpdateField(r, f, type) => Passes
         /\ \A f \in r.fields : DeleteField(r, f) => Passes
         /\ \A label \in FieldLabels, t \in ResourceIds : AddRelationship(r, label, t) => Passes
  BY <1>1 DEF UpdateBehavior, AddField, UpdateField, DeleteField, AddRelationship
<1>5. \A r \in head.resources : DeleteResource(r) =>
         \/ head' = head
         \/ head' = Rest(head, r) /\ blockersFor(Rest(head, r), r.id) = {}
  BY DEF DeleteResource, Rest
<1>6. getProjectSpec => Passes
  BY DEF getProjectSpec, Passes
<1>7. CASE EditResource
  <2>1. PICK r \in head.resources :
          \/ DeleteResource(r)
          \/ \E lists \in Behaviors : UpdateBehavior(r, lists)
          \/ \E label \in FieldLabels, type \in Types : AddField(r, label, type)
          \/ \E f \in r.fields, type \in Types : UpdateField(r, f, type)
          \/ \E f \in r.fields : DeleteField(r, f)
          \/ \E label \in FieldLabels, t \in ResourceIds : AddRelationship(r, label, t)
    BY <1>7 DEF EditResource
  <2>2. DeleteResource(r) \/ Passes
    BY <1>4, <2>1
  <2> QED BY <1>5, <2>2 DEF Passes
<1> QED BY <1>2, <1>3, <1>6, <1>7 DEF Next, Passes

\* A resource that is kept as it is compiles as before.
LEMMA UnchangedCompiles ==
    ASSUME NEW r
    PROVE  StillCompiles(r, r)
BY DEF StillCompiles, SameAccessor

\* Go code beside the generated package goes on compiling, for any edit of any age: a
\* valid head, the class of the edit (ClassifyTransition of abi.go) and the deletion
\* analysis together keep every type, accessor, Go type and hook.
THEOREM EditorExtensionsStillCompile == Spec => ExtensionsStillCompile
<1> DEFINE Kept(r) == \E q \in head'.resources : StillCompiles(r, q)
           DeletedAlone(r) == /\ head' = [head EXCEPT !.resources = @ \ {r}]
                              /\ blockersFor(head', r.id) = {}
           Compiles == head # NoSpec => \A r \in head.resources : Kept(r) \/ DeletedAlone(r)
<1>1. EditorInv /\ [Next]_vars => Compiles
  <2> SUFFICES ASSUME EditorInv, [Next]_vars, head # NoSpec, NEW r \in head.resources
               PROVE  Kept(r) \/ DeletedAlone(r)
    OBVIOUS
  <2>1. Validate(head) /\ Minted(head)
    BY DEF EditorInv
  <2>2. CASE head' = head
    BY <2>2, UnchangedCompiles
  <2>3. CASE ClassifyEdit(head, head') # "breaking"
    BY <2>1, <2>3, UnbrokenCompiles
  <2>4. CASE \E d \in head.resources : /\ head' = Rest(head, d)
                                       /\ blockersFor(Rest(head, d), d.id) = {}
    <3>1. PICK d \in head.resources : /\ head' = Rest(head, d)
                                      /\ blockersFor(Rest(head, d), d.id) = {}
      BY <2>4
    <3>2. CASE r = d
      BY <3>1, <3>2 DEF Rest
    <3>3. CASE r # d
      <4>1. r \in head'.resources
        BY <2>1, <3>1, <3>3, RestIs
      <4> QED BY <4>1, UnchangedCompiles
    <3> QED BY <3>2, <3>3
  <2>5. UNCHANGED vars => head' = head
    BY DEF vars
  <2> QED BY <2>2, <2>3, <2>4, <2>5, StepPassesGate
<1>2. Compiles <=> (head # NoSpec => \A r \in head.resources :
          \/ \E q \in head'.resources :
                /\ q.id = r.id /\ q.code = r.code
                /\ \A f \in r.fields : \E g \in q.fields : SameAccessor(f, g)
                /\ r.hooks # {} => q.hooks = r.hooks
          \/ /\ head' = [head EXCEPT !.resources = @ \ {r}]
             /\ blockersFor(head', r.id) = {})
  BY DEF StillCompiles
<1> HIDE DEF Compiles
<1>3. Spec => [][Compiles]_vars
  BY <1>1, EditorInvariant, PTL DEF Spec
<1> QED BY <1>2, <1>3, PTL DEF ExtensionsStillCompile
=============================================================================
