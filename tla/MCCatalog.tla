------------------------------ MODULE MCCatalog ------------------------------
(* Small instances of CatalogImport for TLC.                                  *)
EXTENDS CatalogImport, TLC

CONSTANTS c1, c2, x1, i1, i2, i3, k1

\* Scaled: the code allows 8 gallery and 20 detail images.
OneEach == [cover |-> 1, gallery |-> 1]

Specification(options) ==
    [mode |-> "single", required |-> FALSE, min |-> 0, max |-> 1,
     options |-> options, defaults |-> {}]
Sizes(options) == [size |-> Specification(options)]
\* Required without a minimum: refused by the schema.
Malformed == [size |-> [Specification({"s"}) EXCEPT !.required = TRUE]]

Variant(code, attributes, default) ==
    [code |-> code, attributes |-> attributes, active |-> TRUE, default |-> default]
Small == Variant("A", [size |-> "s"], FALSE)
Large == Variant("A", [size |-> "l"], TRUE)
Plain == Variant("B", <<>>, TRUE)

Draft == [status |-> "draft", category |-> c1, document |-> Sizes({"s"}),
          skus |-> <<Variant("A", [size |-> "s"], TRUE)>>, images |-> <<>>]
Contents == {Sizes({"s"}), Sizes({"l"}), Sizes({}), Malformed}
Choices == {[size |-> "s"], [size |-> "l"], <<>>}
Published == [Draft EXCEPT !.status = "published", !.images = i1 :> "cover"]

Top == [parent |-> None, active |-> TRUE]
Tops == {[c \in Categories |-> Top], [c \in Categories |-> IF c = c1 THEN Top ELSE None]}
Shelves == {[x \in Products |-> None], [x \in Products |-> Draft], [x \in Products |-> Published]}

Moves == {[parent |-> c1], [parent |-> c2], [parent |-> None], [active |-> FALSE]}

Inputs == {[status |-> "draft", category |-> c1, document |-> d, skus |-> <<>>] :
               d \in {Sizes({"s"}), Malformed}}

Changes == {[status |-> "published"], [category |-> c2],
            [document |-> Sizes({"l"}), skus |-> <<Large>>], [document |-> Sizes({})],
            [skus |-> <<Small>>], [skus |-> <<Plain>>]}

Nothing == [rows |-> <<>>, skus |-> <<>>, images |-> {}]
Row(status, role) ==
    [Nothing EXCEPT !.rows = x1 :> [status |-> status, category |-> c1, document |-> Sizes({"s"})],
                    !.images = {[code |-> x1, key |-> "staged", role |-> role, staged |-> TRUE]}]
SkuRows == [Nothing EXCEPT !.skus = x1 :> <<Plain>>]
NewRole == [Nothing EXCEPT !.images = {[code |-> x1, key |-> i1, role |-> "gallery", staged |-> FALSE],
                                       [code |-> x1, key |-> "new", role |-> "cover", staged |-> TRUE]}]

Workbooks == {Row("published", "cover"), Row("draft", "gallery"), SkuRows, NewRole}

Keyed == {[key |-> k1, workbook |-> w, dry |-> FALSE] : w \in Workbooks}
             \cup {[key |-> k1, workbook |-> SkuRows, dry |-> TRUE],
                   [key |-> None, workbook |-> Row("draft", "gallery"), dry |-> FALSE]}

Symmetry == Permutations(Procs) \cup Permutations({i2, i3}) \cup Permutations(Jobs)
=============================================================================
