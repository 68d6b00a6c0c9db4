CONSTANTS
    c1 = c1
    c2 = c2
    x1 = x1
    i1 = i1
    i2 = i2
    i3 = i3
    k1 = k1
    None = None
    Gone = Gone
    Procs = {p1, p2}
    Categories = {c1, c2}
    Products = {x1}
    ObjectKeys = {i1, i2, i3}
    Jobs = {j1, j2}
    MaxCalls = 2
    LateCreation = TRUE
    Limits <- OneEach
    Documents <- Contents
    SkuCodes = {"A", "B", x1}
    Attributes <- Choices
    CategoryChanges <- Moves
    ProductInputs <- Inputs
    ProductChanges <- Changes
    InitialCategories <- Tops
    InitialProducts <- Shelves
    Imports <- Keyed
SPECIFICATION Spec
SYMMETRY Symmetry
PROPERTIES
    ValidationObservesFinalState
