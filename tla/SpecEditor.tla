----------------------------- MODULE SpecEditor -----------------------------
(***************************************************************************)
(* The edits of a project's specification (controlplane/internal/project:  *)
(* resource.go, field.go, relationship.go, behavior.go, page.go, nav.go,   *)
(* branding.go and SubmitCandidate of service.go).                         *)
(*                                                                         *)
(* Every edit holds the project's row lock from reading the head to        *)
(* inserting the revision (withLockedSpec), so an edit is one step here;   *)
(* RevisionStore has the steps inside it. What an edit does to the         *)
(* specification is all this module has: its candidate, and the gate it    *)
(* goes through. Only a submitted candidate is built outside the lock, by  *)
(* an editor from the head it loaded, so another edit may have been        *)
(* committed in between.                                                   *)
(***************************************************************************)
EXTENDS ProjectSpec, TLC

CONSTANTS ResourceIds, FieldIds, PageIds,   \* the ids there are to mint
          ResourceLabels, FieldLabels, PageLabels,
          Types,                            \* the field types used
          Events,                           \* the lifecycle events used
          MaxSize,                          \* bound on the entities and selections of a spec
          MaxLoaded,                        \* the same, of a spec an editor loads
          NoSpec

ASSUME SpecEditorAssumption ==
    /\ Types \subseteq FieldTypes
    /\ NoId \notin ResourceIds \cup FieldIds \cup PageIds
    /\ MaxSize \in Nat /\ MaxLoaded \in Nat

VARIABLES head,      \* the spec of the head revision, NoSpec before the first
          loaded     \* the head an editor loaded to build a candidate from

vars == <<head, loaded>>

\* How much a spec holds, for the bound.
Size(s) ==
    LET Selected(r) == UNION {{<<c, i>> : i \in r.lists[c]} : c \in Capabilities}
        Weights ==
            {<<r.id>> : r \in s.resources} \cup {<<p.id>> : p \in s.pages}
            \cup {<<x[1], x[2].id>> : x \in FieldsOf(s)}
            \cup (UNION {{<<r.id, "hook", e>> : e \in r.hooks} : r \in s.resources})
            \cup (UNION {{<<r.id, "list", y>> : y \in Selected(r)} : r \in s.resources})
            \cup (UNION {{<<p.id, "card", c>> : c \in p.cards} : p \in s.pages})
            \cup (UNION {{<<p.id, "column", i>> : i \in p.columns} : p \in s.pages})
            \cup (UNION {{<<p.id, "filter", i>> : i \in p.filters} : p \in s.pages})
            \cup (UNION {{<<p.id, "form", i>> : i \in p.form} : p \in s.pages})
            \cup {<<p.id, "search">> : p \in {q \in s.pages : q.search}}
            \cup {<<i, "nav">> : i \in s.navigation}
    IN  Cardinality(Weights)

----------------------------------------------------------------------------
(* The gate *)

Accepts(candidate) ==
    /\ Validate(candidate)
    /\ head # NoSpec => ClassifyEdit(head, candidate) # "breaking"

\* An invalid or a breaking candidate is answered, not committed.
classifyAndInsertLocked(candidate) ==
    /\ Size(candidate) <= MaxSize
    /\ head' = IF Accepts(candidate) THEN candidate ELSE head

\* An editor is still working on the head it loaded, or on none: the candidates
\* this model submits are at most one revision old.
MayEdit == loaded \in {NoSpec, head}

Change(S, x, y) == (S \ {x}) \cup {y}
WithResource(s, r, q) == [s EXCEPT !.resources = Change(@, r, q)]
WithPage(s, p, q) == [s EXCEPT !.pages = Change(@, p, q)]

\* An id is free once nothing in the head carries it. The code never mints one
\* twice; here that shows only in a candidate, which is one edit old at most.
FreeResourceIds(s) == ResourceIds \ Ids(s.resources)
FreeFieldIds(s) == FieldIds \ {x[2].id : x \in FieldsOf(s)}
FreePageIds(s) == PageIds \ Ids(s.pages)

----------------------------------------------------------------------------
(* Resources *)

\* The first resource of a project starts its spec.
AddResource(label) ==
    LET current == IF head = NoSpec THEN EmptySpec ELSE head
    IN  /\ MayEdit
        /\ \E id \in FreeResourceIds(current) :
              classifyAndInsertLocked(
                [current EXCEPT !.resources = @ \cup
                    {[lists |-> NoLists, id |-> id, hooks |-> {},
                      code |-> MintResource(current, label),
                      storage |-> deriveStorageName(current, label),
                      fields |-> {}]}])
        /\ UNCHANGED loaded

\* RenameResource and SetBranding change nothing this model keeps.
Relabel ==
    /\ MayEdit
    /\ head # NoSpec
    /\ classifyAndInsertLocked(head)
    /\ UNCHANGED loaded

\* A delete asks what still refers to the resource in place of the ABI gate.
DeleteResource(r) ==
    LET candidate == [head EXCEPT !.resources = @ \ {r}]
    IN  /\ MayEdit
        /\ head' = IF blockersFor(candidate, r.id) = {} /\ Validate(candidate)
                   THEN candidate ELSE head
        /\ UNCHANGED loaded

UpdateBehavior(r, lists) ==
    /\ MayEdit
    /\ classifyAndInsertLocked(WithResource(head, r, [r EXCEPT !.lists = lists]))
    /\ UNCHANGED loaded

----------------------------------------------------------------------------
(* Fields and relationships *)

AddField(r, label, type) ==
    /\ MayEdit
    /\ type # "belongs_to"
    /\ \E id \in FreeFieldIds(head) :
          classifyAndInsertLocked(
            WithResource(head, r, [r EXCEPT !.fields = @ \cup
                {[id |-> id, code |-> MintField(r, label),
                  storage |-> deriveFieldStorageName(r, label),
                  type |-> type, target |-> NoId]}]))
    /\ UNCHANGED loaded

\* The label and the constraints are not modelled: this is a change of type.
UpdateField(r, f, type) ==
    /\ MayEdit
    /\ type # "belongs_to"
    /\ f.type # "belongs_to"
    /\ classifyAndInsertLocked(
          WithResource(head, r, [r EXCEPT !.fields = Change(@, f, [f EXCEPT !.type = type])]))
    /\ UNCHANGED loaded

DeleteField(r, f) ==
    /\ MayEdit
    /\ classifyAndInsertLocked(WithResource(head, r, [r EXCEPT !.fields = @ \ {f}]))
    /\ UNCHANGED loaded

AddRelationship(r, label, target) ==
    /\ MayEdit
    /\ target \in Ids(head.resources)
    /\ \E id \in FreeFieldIds(head) :
          classifyAndInsertLocked(
            WithResource(head, r, [r EXCEPT !.fields = @ \cup
                {[id |-> id, code |-> MintField(r, label),
                  storage |-> deriveForeignKeyName(r, label),
                  type |-> "belongs_to", target |-> target]}]))
    /\ UNCHANGED loaded

----------------------------------------------------------------------------
(* Pages and navigation *)

\* A resource page names a resource, a dashboard none; that the resource exists
\* is the validator's business.
AddPage(label, type, resource) ==
    /\ MayEdit
    /\ (type = "dashboard") = (resource = NoId)
    /\ \E id \in FreePageIds(head) :
          classifyAndInsertLocked(
            [head EXCEPT !.pages = @ \cup
                {[cards |-> {}, id |-> id, columns |-> {}, filters |-> {}, form |-> {},
                  search |-> FALSE, type |-> type, resource |-> resource,
                  slug |-> derivePageSlug(head, label)]}])
    /\ UNCHANGED loaded

UpdateTableConfig(p, columns, search, filters) ==
    /\ MayEdit
    /\ p.type = "resource_table"
    /\ classifyAndInsertLocked(
          WithPage(head, p, [p EXCEPT !.columns = columns, !.search = search,
                                      !.filters = filters]))
    /\ UNCHANGED loaded

UpdateFormConfig(p, fields) ==
    /\ MayEdit
    /\ p.type = "resource_form"
    /\ classifyAndInsertLocked(WithPage(head, p, [p EXCEPT !.form = fields]))
    /\ UNCHANGED loaded

DeletePage(p) ==
    /\ MayEdit
    /\ classifyAndInsertLocked([head EXCEPT !.pages = @ \ {p}])
    /\ UNCHANGED loaded

SetNavigation(items) ==
    /\ MayEdit
    /\ classifyAndInsertLocked([head EXCEPT !.navigation = items])
    /\ UNCHANGED loaded

----------------------------------------------------------------------------
(* Candidates built by an editor *)

getProjectSpec ==
    /\ loaded = NoSpec
    /\ head # NoSpec
    /\ Size(head) <= MaxLoaded
    /\ loaded' = head
    /\ UNCHANGED head

Cards(s) ==
    {c \in [resource : ResourceIds, kind : {"count", "recent", "aggregate"},
            field : FieldIds \cup {NoId}] : c.kind = "count" => c.field = NoId}

\* What one submission changes of the spec it was built from, beside what the
\* other edits change: hooks, frozen names, dashboard cards, a relationship
\* turned into a scalar, a copied field, a resource dropped with its references.
Drafts(s) ==
    {s, EmptySpec}
    \cup {WithResource(s, r, [r EXCEPT !.hooks = h]) :
             r \in s.resources, h \in SUBSET Events}
    \cup {WithResource(s, r, [r EXCEPT !.code = c]) :
             r \in s.resources, c \in FieldLabels}
    \cup (UNION {{WithResource(s, r, [r EXCEPT !.fields = Change(@, f, [f EXCEPT !.code = c])]) :
             f \in r.fields, c \in FieldLabels} : r \in s.resources})
    \cup (UNION {{WithResource(s, r, [r EXCEPT !.fields =
                                        Change(@, f, [f EXCEPT !.type = t, !.target = NoId])]) :
             f \in r.fields, t \in Types} : r \in s.resources})
    \cup {WithResource(s, r, [r EXCEPT !.fields = @ \cup {x[2]}]) :
             r \in s.resources, x \in FieldsOf(s)}
    \cup {WithPage(s, p, [p EXCEPT !.cards = C]) :
             p \in s.pages, C \in {{}} \cup {{c} : c \in Cards(s)}}
    \cup {[s EXCEPT !.resources = @ \ {r}, !.pages = {p \in @ : p.resource # r.id},
                    !.navigation = {}] : r \in s.resources}

SubmitCandidate ==
    /\ \E candidate \in Drafts(IF loaded = NoSpec THEN EmptySpec ELSE loaded) :
          classifyAndInsertLocked(candidate)
    /\ loaded' = NoSpec

----------------------------------------------------------------------------
Init == head = NoSpec /\ loaded = NoSpec

\* The selections a client sends: empty, or of one field.
Selections == {{}} \cup {{i} : i \in FieldIds}
Behaviors ==
    {[NoLists EXCEPT ![c] = S] : c \in Capabilities, S \in Selections}

EditResource ==
    head # NoSpec /\ \E r \in head.resources :
        \/ DeleteResource(r)
        \/ \E lists \in Behaviors : UpdateBehavior(r, lists)
        \/ \E label \in FieldLabels, type \in Types : AddField(r, label, type)
        \/ \E f \in r.fields, type \in Types : UpdateField(r, f, type)
        \/ \E f \in r.fields : DeleteField(r, f)
        \/ \E label \in FieldLabels, t \in ResourceIds : AddRelationship(r, label, t)

EditPage ==
    head # NoSpec /\
        \/ \E label \in PageLabels, type \in PageTypes, r \in ResourceIds \cup {NoId} :
              AddPage(label, type, r)
        \/ \E p \in head.pages, C, F \in Selections, search \in BOOLEAN :
              UpdateTableConfig(p, C, search, F)
        \/ \E p \in head.pages, F \in Selections : UpdateFormConfig(p, F)
        \/ \E p \in head.pages : DeletePage(p)
        \/ \E items \in SUBSET PageIds : SetNavigation(items)

Next ==
    \/ \E label \in ResourceLabels : AddResource(label)
    \/ Relabel
    \/ EditResource
    \/ EditPage
    \/ getProjectSpec
    \/ SubmitCandidate

Spec == Init /\ [][Next]_vars

----------------------------------------------------------------------------
(* Properties *)

\* The graph builder drops a reference it cannot resolve without an error
\* (resolveFields, resolveCards, buildNavigation of graph.go). No edit, of
\* whatever age, commits a specification it would drop anything of: what the
\* generated application shows is what the specification lists, each
\* relationship is an edge to one resource, and each control asks for what the
\* field's type can answer.
GraphLosesNothing ==
    head # NoSpec =>
        /\ \A r \in head.resources, c \in Capabilities :
              LET fields == resolveBehavior(r)[c]
              IN  /\ Ids(fields) = r.lists[c]
                  /\ \A f \in fields : f.type \in AllowedTypes[c]
        /\ \A x \in FieldsOf(head) : x[2].type = "belongs_to" =>
              Cardinality({e \in linkRelationships(head) : e.field = x[2]}) = 1
        /\ \A p \in head.pages : p.type # "dashboard" =>
              \E r \in head.resources :
                  /\ p.resource = r.id
                  /\ p.columns # {} => Ids(tableColumns(r, p)) = p.columns
                  /\ Ids(tableFilters(r, p)) = p.filters
                  /\ p.filters \subseteq Ids(resolveBehavior(r)["filterable"])
                  /\ p.search => resolveBehavior(r)["searchable"] # {}
                  /\ p.form # {} => Ids(formFields(r, p)) = p.form
        /\ \A p \in head.pages : \A c \in resolveCards(head, p) :
              /\ Ids(c.resource) = {c.card.resource}
              /\ Ids(c.field) = {c.card.field} \ {NoId}
        /\ Ids(buildNavigation(head)) = head.navigation

\* A resource can be deleted exactly when nothing refers to it: the blockers an
\* owner is shown are neither fewer nor more than what would leave the rest of
\* the specification invalid (blockersFor against Validate). So the validity
\* check that DeleteResource goes on to (resource.go:164) refuses nothing, not even
\* "removing the project's last resource", its example (resource.go:161-162): no
\* rule of the validator asks for a resource.
BlockersExact ==
    head # NoSpec => \A r \in head.resources :
        LET rest == [head EXCEPT !.resources = @ \ {r}]
        IN  blockersFor(rest, r.id) = {} <=> Validate(rest)

\* A field as the code beside the generated package sees it.
SameAccessor(f, g) ==
    f.id = g.id /\ GeneratedName(f) = GeneratedName(g) /\ GoType[f.type] = GoType[g.type]

\* Owners keep Go code that uses the generated types. No committed edit, not
\* even one built from a head that is no longer the head, takes away a type, an
\* accessor or its Go type, or changes the hooks an extension has to implement;
\* the one exception is a resource deleted on its own, when nothing refers to it.
ExtensionsStillCompile ==
    [][head # NoSpec => \A r \in head.resources :
          \/ \E q \in head'.resources :
                /\ q.id = r.id /\ q.code = r.code
                /\ \A f \in r.fields : \E g \in q.fields : SameAccessor(f, g)
                /\ r.hooks # {} => q.hooks = r.hooks
          \/ /\ head' = [head EXCEPT !.resources = @ \ {r}]
             /\ blockersFor(head', r.id) = {}]_vars
=============================================================================
