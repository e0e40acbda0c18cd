SPECIFICATION Spec
CONSTANTS
    r1 = r1
    r2 = r2
    f1 = f1
    f2 = f2
    p1 = p1
    p2 = p2
    NoId = NoId
    NoSpec = NoSpec
    ResourceIds = {r1, r2}
    FieldIds = {f1, f2}
    PageIds = {p1, p2}
    ResourceLabels <- Name
    FieldLabels <- Name
    PageLabels <- Name
    Types = {"string", "text", "integer", "date", "belongs_to"}
    Events = {"before_create", "after_delete"}
    MaxSize = 5
    MaxLoaded = 3
SYMMETRY EditorSymmetry
INVARIANTS
    GraphLosesNothing
    BlockersExact
PROPERTIES
    ExtensionsStillCompile
