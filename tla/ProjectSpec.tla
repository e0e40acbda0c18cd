---------------------------- MODULE ProjectSpec ----------------------------
(***************************************************************************)
(* A project's specification as a value, and what the compiler's front end *)
(* computes from it: whether it is valid (internal/spec/validate.go), the  *)
(* names minted for new entities (internal/spec/mint.go, project/*.go),    *)
(* the references that keep a resource alive (internal/compiler/           *)
(* deletion.go), the extension ABI and the class of an edit (internal/     *)
(* compiler/gen/abi.go), and the resolved graph (internal/compiler/graph). *)
(*                                                                         *)
(* A name is the sequence of the words it is made of: "Customer ID" is     *)
(* <<"customer", "id">>, whether written CustomerID, customer_id or        *)
(* customer-id. Labels, ordering, toggles, defaults and enum values are    *)
(* left out, so the lists of the source are sets here; a list the source   *)
(* leaves nil is empty. An entity carries its id, so a value may hold two  *)
(* entities with one id, which the validator refuses.                      *)
(***************************************************************************)
EXTENDS Naturals, Sequences, FiniteSets

CONSTANT NoId               \* the empty id

FieldTypes == {"string", "text", "integer", "decimal", "boolean",
               "datetime", "date", "enum", "belongs_to"}
PageTypes == {"resource_table", "resource_form", "resource_detail", "dashboard"}
Capabilities == {"list", "searchable", "sortable", "filterable", "aggregatable"}

\* A page has the selections of all the blocks a page may carry; those its type
\* does not use are empty in a valid spec.
EmptySpec == [resources |-> {}, pages |-> {}, navigation |-> {}]
NoLists == [c \in Capabilities |-> {}]

Ids(S) == {x.id : x \in S}
Named(S, id) == CHOOSE x \in S : x.id = id     \* FindResource, FindPage, FindField
FieldsOf(s) == UNION {{<<r.id, f>> : f \in r.fields} : r \in s.resources}

----------------------------------------------------------------------------
(* Names *)

Reserved == {<<"id">>, <<"created", "at">>, <<"updated", "at">>, <<"deleted", "at">>}
ReservedCode == Reserved \cup {<<"model">>, <<"table", "name">>}

GeneratedName(f) == IF f.type = "belongs_to" THEN Append(f.code, "id") ELSE f.code

Numeral == <<"1", "2", "3", "4", "5", "6", "7", "8", "9">>
Numbered(base, n) == IF n = 1 THEN base ELSE Append(base, Numeral[n])

\* The base name, or its first numbered variant that is not taken.
FirstFree(base, taken) ==
    LET Variant(n) == Numbered(base, n)
        n == CHOOSE n \in 1..(Cardinality(taken) + 1) :
                /\ Variant(n) \notin taken
                /\ \A m \in 1..(n - 1) : Variant(m) \in taken
    IN  Variant(n)

MintResource(s, label) == FirstFree(label, {r.code : r \in s.resources})
MintField(r, label) == FirstFree(label, {f.code : f \in r.fields} \cup ReservedCode)
deriveStorageName(s, label) == FirstFree(label, {r.storage : r \in s.resources})
deriveFieldStorageName(r, label) == FirstFree(label, {f.storage : f \in r.fields})
derivePageSlug(s, label) == FirstFree(label, {p.slug : p \in s.pages})

\* base_id, base_2_id, ...: the number goes before the suffix.
deriveForeignKeyName(r, label) ==
    LET taken == {f.storage : f \in r.fields}
        Key(n) == Append(Numbered(label, n), "id")
        n == CHOOSE n \in 1..(Cardinality(taken) + 1) :
                /\ Key(n) \notin taken
                /\ \A m \in 1..(n - 1) : Key(m) \in taken
    IN  Key(n)

----------------------------------------------------------------------------
(* The validator *)

UniqueIds(s) ==
    /\ \A x, y \in s.resources : x.id = y.id => x = y
    /\ \A x, y \in FieldsOf(s) : x[2].id = y[2].id => x = y
    /\ \A x, y \in s.pages : x.id = y.id => x = y

ValidResourceNames(s) ==
    \A x, y \in s.resources : x # y => x.code # y.code /\ x.storage # y.storage

ValidFieldNames(r) ==
    /\ \A f \in r.fields :
          /\ f.code \notin ReservedCode
          /\ GeneratedName(f) \notin ReservedCode
          /\ f.storage \notin Reserved
    /\ \A f, g \in r.fields : f # g =>
          /\ f.code # g.code
          /\ GeneratedName(f) # GeneratedName(g)
          /\ f.storage # g.storage

ValidFieldType(s, f) ==
    IF f.type = "belongs_to" THEN f.target \in Ids(s.resources) ELSE f.target = NoId

\* capabilityAllowedTypes
AllowedTypes ==
    [list |-> FieldTypes,
     sortable |-> FieldTypes,
     filterable |-> {"string", "integer", "boolean", "enum", "belongs_to"},
     searchable |-> {"string", "text", "enum"},
     aggregatable |-> {"integer", "decimal"}]

\* Mutant: a list may name any field, whatever its type answers.
ValidBehaviorAnyType(r) == \A c \in Capabilities : r.lists[c] \subseteq Ids(r.fields)

ValidBehavior(r) ==
    \A c \in Capabilities : \A i \in r.lists[c] :
        /\ i \in Ids(r.fields)
        /\ Named(r.fields, i).type \in AllowedTypes[c]

ValidResources(s) ==
    /\ ValidResourceNames(s)
    /\ \A r \in s.resources :
          /\ ValidFieldNames(r)
          /\ \A f \in r.fields : ValidFieldType(s, f)
          /\ ValidBehavior(r)

ConfigMatchesType(p) ==
    /\ p.type # "resource_table" => p.columns = {} /\ p.filters = {} /\ ~p.search
    /\ p.type # "resource_form" => p.form = {}
    /\ p.type # "dashboard" => p.cards = {}

ValidResourcePage(s, p) ==
    /\ p.resource \in Ids(s.resources)
    /\ LET r == Named(s.resources, p.resource)
       IN  /\ p.columns \subseteq Ids(r.fields)
           /\ p.search => r.lists["searchable"] # {}
           /\ p.filters \subseteq Ids(r.fields) \cap r.lists["filterable"]
           /\ p.form \subseteq Ids(r.fields)

\* A count card orders nothing; a recent list may order by a sortable date; an
\* aggregate card computes over an aggregatable field.
ValidCard(s, card) ==
    /\ card.resource \in Ids(s.resources)
    /\ LET r == Named(s.resources, card.resource)
       IN  \/ card.kind = "count" /\ card.field = NoId
           \/ card.kind = "recent" /\ card.field = NoId
           \/ /\ card.kind = "recent"
              /\ card.field \in Ids(r.fields) \cap r.lists["sortable"]
              /\ Named(r.fields, card.field).type \in {"date", "datetime"}
           \/ /\ card.kind = "aggregate"
              /\ card.field \in Ids(r.fields) \cap r.lists["aggregatable"]

ValidDashboard(s, p) ==
    /\ p.resource = NoId
    /\ \A card \in p.cards : ValidCard(s, card)

ValidPages(s) ==
    /\ \A p, q \in s.pages : p # q =>
          /\ p.slug # q.slug
          /\ p.type \in {"resource_form", "resource_detail"} =>
                ~(p.type = q.type /\ p.resource = q.resource)
    /\ \A p \in s.pages :
          /\ p.type \in PageTypes
          /\ ConfigMatchesType(p)
          /\ IF p.type = "dashboard" THEN ValidDashboard(s, p) ELSE ValidResourcePage(s, p)

\* A page entry must lead somewhere that needs no record id.
ValidNavigation(s) ==
    \A i \in s.navigation :
        /\ i \in Ids(s.pages)
        /\ Named(s.pages, i).type \in {"dashboard", "resource_table"}

Validate(s) ==
    UniqueIds(s) /\ ValidResources(s) /\ ValidPages(s) /\ ValidNavigation(s)

----------------------------------------------------------------------------
(* What still refers to a resource *)

\* Mutant: the cards of dashboards are forgotten.
blockersForWithoutCards(s, id) ==
    {<<"relationship", x[2].id>> :
        x \in {y \in FieldsOf(s) : y[2].type = "belongs_to" /\ y[2].target = id}}
    \cup {<<"page", p.id>> : p \in {q \in s.pages : q.resource = id}}

blockersFor(s, id) ==
    {<<"relationship", x[2].id>> :
        x \in {y \in FieldsOf(s) : y[2].type = "belongs_to" /\ y[2].target = id}}
    \cup {<<"page", p.id>> : p \in {q \in s.pages : q.resource = id}}
    \cup {<<"dashboard_card", p.id>> :
             p \in {q \in s.pages : \E card \in q.cards : card.resource = id}}

----------------------------------------------------------------------------
(* The extension ABI and the class of a transition *)

\* scalarMappings and relationshipFKType
GoType == [string |-> "string", text |-> "string", enum |-> "string",
           integer |-> "int64", decimal |-> "decimal.Decimal", boolean |-> "bool",
           datetime |-> "time.Time", date |-> "time.Time", belongs_to |-> "uint"]

FieldABI(f) == [symbol |-> GeneratedName(f), type |-> GoType[f.type]]

ResourceABI(r) ==
    [type |-> r.code,
     fields |-> [i \in Ids(r.fields) |-> FieldABI(Named(r.fields, i))],
     hooks |-> r.hooks]

ExtensionABI(s) == [i \in Ids(s.resources) |-> ResourceABI(Named(s.resources, i))]

BreaksFields(cur, cand) ==
    \E i \in DOMAIN cur : i \notin DOMAIN cand \/ cand[i] # cur[i]

\* Mutant: one more hook counts as an addition, as one more field does.
BreaksHooksOnlyByRemoval(cur, cand) == ~(cur \subseteq cand)

\* The first hooks of a resource are a new contract; one more is a method the
\* extension's type does not have.
BreaksHooks(cur, cand) == cur # {} /\ cand # cur

ClassifyTransition(cur, cand) ==
    IF cur = cand THEN "neutral"
    ELSE IF \E i \in DOMAIN cur :
                \/ i \notin DOMAIN cand
                \/ cand[i].type # cur[i].type
                \/ BreaksFields(cur[i].fields, cand[i].fields)
                \/ BreaksHooks(cur[i].hooks, cand[i].hooks)
         THEN "breaking"
         ELSE "additive"

ClassifyEdit(cur, cand) == ClassifyTransition(ExtensionABI(cur), ExtensionABI(cand))

----------------------------------------------------------------------------
(* The domain graph: every reference resolved. An unknown one is dropped, except a
   relationship's target, which fails the build. *)

resolveFields(r, ids) == {f \in r.fields : f.id \in ids}
resolveBehavior(r) == [c \in Capabilities |-> resolveFields(r, r.lists[c])]

linkRelationships(s) ==
    {e \in [from : s.resources, field : {x[2] : x \in FieldsOf(s)}, to : s.resources] :
        e.field \in e.from.fields /\ e.field.type = "belongs_to" /\ e.field.target = e.to.id}

tableColumns(r, p) ==
    IF p.columns # {} THEN resolveFields(r, p.columns)
    ELSE IF resolveBehavior(r)["list"] # {} THEN resolveBehavior(r)["list"]
    ELSE {f \in r.fields : f.type # "belongs_to"}

tableFilters(r, p) == resolveFields(r, p.filters)
formFields(r, p) == IF p.form # {} THEN resolveFields(r, p.form) ELSE r.fields

resolveCards(s, p) ==
    {[card |-> card,
      resource |-> {r \in s.resources : r.id = card.resource},
      field |-> UNION {resolveFields(r, {card.field}) :
                          r \in {q \in s.resources : q.id = card.resource}}] : card \in p.cards}

buildNavigation(s) == {p \in s.pages : p.id \in s.navigation}
=============================================================================
