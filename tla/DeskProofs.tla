----------------------------- MODULE DeskProofs -----------------------------
(***************************************************************************)
(* The catalogue keeps its rows, links and codes under any number of       *)
(* users, and a list shows what is wanted whatever the order of answers.   *)
(***************************************************************************)
EXTENDS Desk, TLAPS

LEMMA PatchedFields ==
  ASSUME NEW id, NEW row, NEW patch
  PROVE  /\ DOMAIN Patched(id, row, patch) = DOMAIN patch \cup DOMAIN Kept(id, row)
         /\ \A f \in DOMAIN patch : Patched(id, row, patch)[f] = patch[f]
         /\ \A f \in DOMAIN Kept(id, row) \ DOMAIN patch :
              Patched(id, row, patch)[f] = Kept(id, row)[f]
BY DEF Patched

LEMMA AbsentIsNoRow ==
  ASSUME NEW id \in Ids
  PROVE  Absent \notin RowOf(id)
<1>1. \A r : r = Absent => DOMAIN r = {"none"}
  BY DEF Absent
<1>2. \A r \in RowOf(id) : "archived" \in DOMAIN r
  BY DEF RowOf, CategoryRow, ProductRow, CustomerRow, PriceRow
<1> QED BY <1>1, <1>2

\* The tables, one by one.
LEMMA TableFacts ==
  ASSUME NEW id \in Ids
  PROVE  /\ id \in Categories => /\ RowOf(id) = CategoryRow
                                 /\ Required(id) = {"code"}
                                 /\ Defaults(id) = [archived |-> FALSE]
         /\ id \in Products => /\ RowOf(id) = ProductRow
                               /\ Required(id) = {"code"}
                               /\ Defaults(id) = [archived |-> FALSE, links |-> {}]
         /\ id \in Customers => /\ RowOf(id) = CustomerRow
                                /\ Required(id) = {}
                                /\ Defaults(id) = [archived |-> FALSE, code |-> Blank]
         /\ id \in Prices => /\ RowOf(id) = PriceRow
                             /\ Required(id) = {"customer", "product"}
                             /\ Defaults(id) = [archived |-> FALSE]
<1>1. CASE id \in Categories
  <2>1. id \notin Products /\ id \notin Customers /\ id \notin Prices
    BY <1>1, CatalogueAssumption
  <2> QED BY <1>1, <2>1 DEF RowOf, Required, Defaults
<1>2. CASE id \in Products
  <2>1. id \notin Categories /\ id \notin Customers /\ id \notin Prices
    BY <1>2, CatalogueAssumption
  <2> QED BY <1>2, <2>1 DEF RowOf, Required, Defaults
<1>3. CASE id \in Customers
  <2>1. id \notin Categories /\ id \notin Products /\ id \notin Prices
    BY <1>3, CatalogueAssumption
  <2> QED BY <1>3, <2>1 DEF RowOf, Required, Defaults
<1>4. CASE id \in Prices
  <2>1. id \notin Categories /\ id \notin Products /\ id \notin Customers
    BY <1>4, CatalogueAssumption
  <2> QED BY <1>4, <2>1 DEF RowOf, Required, Defaults
<1> QED BY <1>1, <1>2, <1>3, <1>4 DEF Ids

\* The fields of a row are those that have to be sent and those that have a default.
LEMMA WholeDomain ==
  ASSUME NEW id \in Ids, NEW whole \in RowOf(id)
  PROVE  DOMAIN whole = Required(id) \cup DOMAIN Defaults(id)
<1>1. CASE id \in Categories
  <2>1. whole \in CategoryRow
    BY <1>1, TableFacts
  <2>2. DOMAIN whole = {"code"} \cup DOMAIN [archived |-> FALSE]
    BY <2>1 DEF CategoryRow
  <2> QED BY <1>1, <2>2, TableFacts
<1>2. CASE id \in Products
  <2>1. whole \in ProductRow
    BY <1>2, TableFacts
  <2>2. DOMAIN whole = {"code"} \cup DOMAIN [archived |-> FALSE, links |-> {}]
    BY <2>1 DEF ProductRow
  <2> QED BY <1>2, <2>2, TableFacts
<1>3. CASE id \in Customers
  <2>1. whole \in CustomerRow
    BY <1>3, TableFacts
  <2>2. DOMAIN whole = {} \cup DOMAIN [archived |-> FALSE, code |-> Blank]
    BY <2>1 DEF CustomerRow
  <2> QED BY <1>3, <2>2, TableFacts
<1>4. CASE id \in Prices
  <2>1. whole \in PriceRow
    BY <1>4, TableFacts
  <2>2. DOMAIN whole = {"customer", "product"} \cup DOMAIN [archived |-> FALSE]
    BY <2>1 DEF PriceRow
  <2> QED BY <1>4, <2>2, TableFacts
<1> QED BY <1>1, <1>2, <1>3, <1>4 DEF Ids

\* A row kept or given its defaults lacks nothing that the request does not send.
LEMMA PatchedDomain ==
  ASSUME NEW id \in Ids, NEW row \in RowOf(id) \cup {Absent}, NEW patch \in Inputs(RowOf(id)),
         row = Absent => Complete(id, patch)
  PROVE  DOMAIN Patched(id, row, patch) = Required(id) \cup DOMAIN Defaults(id)
<1>1. DOMAIN Patched(id, row, patch) = DOMAIN patch \cup DOMAIN Kept(id, row)
  BY PatchedFields
<1>2. DOMAIN patch \subseteq Required(id) \cup DOMAIN Defaults(id)
  <2>1. PICK r \in RowOf(id) : \E some \in SUBSET DOMAIN r : patch = [field \in some |-> r[field]]
    BY DEF Inputs, Parts
  <2>2. DOMAIN r = Required(id) \cup DOMAIN Defaults(id)
    BY WholeDomain
  <2> QED BY <2>1, <2>2
<1>3. CASE row # Absent
  <2>1. Kept(id, row) = row
    BY <1>3 DEF Kept
  <2>2. DOMAIN row = Required(id) \cup DOMAIN Defaults(id)
    BY <1>3, WholeDomain
  <2> QED BY <1>1, <1>2, <2>1, <2>2
<1>4. CASE row = Absent
  <2>1. Required(id) \subseteq DOMAIN patch
    BY <1>4 DEF Complete
  <2>2. Kept(id, row) = Defaults(id)
    BY <1>4 DEF Kept
  <2> QED BY <1>1, <1>2, <2>1, <2>2
<1> QED BY <1>3, <1>4

\* Each field of a patched row has a value that some row of the table has there.
LEMMA PatchedValues ==
  ASSUME NEW id \in Ids, NEW row \in RowOf(id) \cup {Absent}, NEW patch \in Inputs(RowOf(id)),
         NEW f \in DOMAIN Patched(id, row, patch)
  PROVE  \/ \E r \in RowOf(id) : f \in DOMAIN r /\ Patched(id, row, patch)[f] = r[f]
         \/ f \in DOMAIN Defaults(id) /\ Patched(id, row, patch)[f] = Defaults(id)[f]
<1>1. CASE f \in DOMAIN patch
  <2>1. PICK r \in RowOf(id) : \E some \in SUBSET DOMAIN r : patch = [field \in some |-> r[field]]
    BY DEF Inputs, Parts
  <2>2. f \in DOMAIN r /\ patch[f] = r[f]
    BY <1>1, <2>1
  <2>3. Patched(id, row, patch)[f] = patch[f]
    BY <1>1 DEF Patched
  <2> QED BY <2>2, <2>3
<1>2. CASE f \notin DOMAIN patch
  <2>1. f \in DOMAIN Kept(id, row) /\ Patched(id, row, patch)[f] = Kept(id, row)[f]
    BY <1>2 DEF Patched
  <2>2. CASE row = Absent
    BY <2>1, <2>2 DEF Kept
  <2>3. CASE row # Absent
    BY <2>1, <2>3 DEF Kept
  <2> QED BY <2>2, <2>3
<1> QED BY <1>1, <1>2

LEMMA PatchedType ==
  ASSUME NEW id \in Ids, NEW row \in RowOf(id) \cup {Absent}, NEW patch \in Inputs(RowOf(id)),
         row = Absent => Complete(id, patch)
  PROVE  Patched(id, row, patch) \in RowOf(id)
<1> DEFINE p == Patched(id, row, patch)
<1> SUFFICES p \in RowOf(id)
  OBVIOUS
<1>1. p = [f \in DOMAIN p |-> p[f]]
  BY DEF Patched
<1>2. DOMAIN p = Required(id) \cup DOMAIN Defaults(id)
  BY PatchedDomain
<1>3. \A f \in DOMAIN p : \/ \E r \in RowOf(id) : p[f] = r[f]
                          \/ f \in DOMAIN Defaults(id) /\ p[f] = Defaults(id)[f]
  BY PatchedValues
<1> HIDE DEF p
<1>4. CASE id \in Categories
  <2>1. RowOf(id) = CategoryRow /\ Defaults(id) = [archived |-> FALSE] /\ Required(id) = {"code"}
    BY <1>4, TableFacts
  <2>2. DOMAIN p = {"code", "archived"}
    BY <1>2, <2>1
  <2>3. p["code"] \in Codes
    BY <1>3, <2>1, <2>2 DEF CategoryRow
  <2>4. p["archived"] \in BOOLEAN
    <3>1. \A r \in CategoryRow : r["archived"] \in BOOLEAN
      BY DEF CategoryRow
    <3>2. Defaults(id)["archived"] = FALSE
      BY <2>1
    <3> QED BY <1>3, <2>1, <2>2, <3>1, <3>2, Zenon
  <2>5. p \in CategoryRow
    BY <1>1, <2>2, <2>3, <2>4 DEF CategoryRow
  <2> QED BY <2>1, <2>5
<1>5. CASE id \in Products
  <2>1. /\ RowOf(id) = ProductRow
        /\ Defaults(id) = [archived |-> FALSE, links |-> {}]
        /\ Required(id) = {"code"}
    BY <1>5, TableFacts
  <2>2. DOMAIN p = {"code", "archived", "links"}
    BY <1>2, <2>1
  <2>3. p["code"] \in Codes
    BY <1>3, <2>1, <2>2 DEF ProductRow
  <2>4. p["archived"] \in BOOLEAN
    <3>1. \A r \in ProductRow : r["archived"] \in BOOLEAN
      BY DEF ProductRow
    <3>2. Defaults(id)["archived"] = FALSE
      BY <2>1
    <3> QED BY <1>3, <2>1, <2>2, <3>1, <3>2, Zenon
  <2>5. p["links"] \in SUBSET Categories
    BY <1>3, <2>1, <2>2 DEF ProductRow
  <2>6. p \in ProductRow
    BY <1>1, <2>2, <2>3, <2>4, <2>5 DEF ProductRow
  <2> QED BY <2>1, <2>6
<1>6. CASE id \in Customers
  <2>1. /\ RowOf(id) = CustomerRow
        /\ Defaults(id) = [archived |-> FALSE, code |-> Blank]
        /\ Required(id) = {}
    BY <1>6, TableFacts
  <2>2. DOMAIN p = {"code", "archived"}
    BY <1>2, <2>1
  <2>3. p["code"] \in Codes \cup {Blank}
    BY <1>3, <2>1, <2>2 DEF CustomerRow
  <2>4. p["archived"] \in BOOLEAN
    <3>1. \A r \in CustomerRow : r["archived"] \in BOOLEAN
      BY DEF CustomerRow
    <3>2. Defaults(id)["archived"] = FALSE
      BY <2>1
    <3> QED BY <1>3, <2>1, <2>2, <3>1, <3>2, Zenon
  <2>5. p \in CustomerRow
    BY <1>1, <2>2, <2>3, <2>4 DEF CustomerRow
  <2> QED BY <2>1, <2>5
<1>7. CASE id \in Prices
  <2>1. /\ RowOf(id) = PriceRow
        /\ Defaults(id) = [archived |-> FALSE]
        /\ Required(id) = {"customer", "product"}
    BY <1>7, TableFacts
  <2>2. DOMAIN p = {"customer", "product", "archived"}
    BY <1>2, <2>1
  <2>3. p["customer"] \in Customers
    BY <1>3, <2>1, <2>2 DEF PriceRow
  <2>4. p["product"] \in Products
    BY <1>3, <2>1, <2>2 DEF PriceRow
  <2>5. p["archived"] \in BOOLEAN
    <3>1. \A r \in PriceRow : r["archived"] \in BOOLEAN
      BY DEF PriceRow
    <3>2. Defaults(id)["archived"] = FALSE
      BY <2>1
    <3> QED BY <1>3, <2>1, <2>2, <3>1, <3>2, Zenon
  <2>6. p \in PriceRow
    BY <1>1, <2>2, <2>3, <2>4, <2>5 DEF PriceRow
  <2> QED BY <2>1, <2>6
<1> QED BY <1>4, <1>5, <1>6, <1>7 DEF Ids

(***************************************************************************)
(* Types.                                                                  *)
(***************************************************************************)

\* What a save does to the rows, for a request that was judged before.
LEMMA SaveFacts ==
  ASSUME CatalogueTypeOK, NEW u \in Users, Save(u)
  PROVE  LET id == job[u].id IN
         /\ id \in Ids
         /\ job[u].patch \in Inputs(RowOf(id))
         /\ id \notin Present => Complete(id, job[u].patch)
         /\ Accepted(id, rows[id], job[u].patch)
         /\ rows' \in [Ids -> Rows]
         /\ rows'[id] = Patched(id, rows[id], job[u].patch)
         /\ rows'[id] \in RowOf(id)
         /\ \A other \in Ids \ {id} : rows'[other] = rows[other]
         /\ Present' = Present \cup {id}
<1> DEFINE id == job[u].id
<1> DEFINE patch == job[u].patch
<1>1. id \in Ids /\ patch \in Inputs(RowOf(id))
  <2>1. job[u] \in Jobs /\ job[u].state = "asked"
    BY DEF CatalogueTypeOK, Save
  <2> QED BY <2>1 DEF CatalogueTypeOK, Jobs, Idle
<1>2. id \notin Present => Complete(id, patch)
  BY DEF CatalogueTypeOK, Save, Present
<1>3. Accepted(id, rows[id], patch) /\ rows' = [rows EXCEPT ![id] = Patched(id, rows[id], patch)]
  BY DEF Save, Instance
<1>4. Patched(id, rows[id], patch) \in RowOf(id)
  <2>1. rows[id] \in RowOf(id) \cup {Absent} /\ (rows[id] = Absent => Complete(id, patch))
    BY <1>1, <1>2 DEF CatalogueTypeOK, Present
  <2> HIDE DEF patch, id
  <2> QED BY <1>1, <2>1, PatchedType
<1>5. Patched(id, rows[id], patch) \in Rows /\ Patched(id, rows[id], patch) # Absent
  <2>1. RowOf(id) \subseteq Rows
    BY <1>1, CatalogueAssumption DEF RowOf, Rows, Ids
  <2> QED BY <1>1, <1>4, <2>1, AbsentIsNoRow
<1>6. /\ rows' \in [Ids -> Rows]
      /\ rows'[id] = Patched(id, rows[id], patch)
      /\ \A other \in Ids \ {id} : rows'[other] = rows[other]
  <2> HIDE DEF patch, id
  <2> QED BY <1>1, <1>3, <1>5 DEF CatalogueTypeOK
<1>7. Present' = Present \cup {id}
  <2> HIDE DEF patch, id
  <2> QED BY <1>1, <1>5, <1>6 DEF Present
<1> QED BY <1>1, <1>2, <1>3, <1>4, <1>6, <1>7

LEMMA CatalogueTypeInit == CatalogueInit => CatalogueTypeOK
BY CatalogueAssumption DEF CatalogueInit, CatalogueTypeOK, Present, Jobs, Idle

LEMMA CatalogueTypeStep == CatalogueTypeOK /\ [CatalogueNext]_catalogue => CatalogueTypeOK'
<1> SUFFICES ASSUME CatalogueTypeOK, [CatalogueNext]_catalogue
             PROVE  CatalogueTypeOK'
  OBVIOUS
<1>1. ASSUME NEW u \in Users, NEW id \in Ids, NEW patch \in Input(id), Ask(u, id, patch)
      PROVE  CatalogueTypeOK'
  <2> DEFINE asked == [state |-> "asked", id |-> id, patch |-> patch, seen |-> rows[id]]
  <2>1. patch \in Inputs(RowOf(id)) /\ (id \notin Present => Complete(id, patch))
    BY DEF Input
  <2>2. patch \in UNION {Inputs(RowOf(i)) : i \in Ids}
    BY <2>1
  <2>3. asked \in Jobs
    BY <2>2 DEF Jobs, CatalogueTypeOK
  <2>4. job' \in [Users -> Jobs] /\ job'[u] = asked /\ \A v \in Users \ {u} : job'[v] = job[v]
    BY <1>1, <2>3 DEF Ask, CatalogueTypeOK
  <2>5. rows' = rows /\ saves' = saves /\ asks' = asks + 1 /\ Present' = Present
    BY <1>1 DEF Ask, Present
  <2>6. \A v \in Users : job'[v].state = "asked" =>
          /\ job'[v].patch \in Inputs(RowOf(job'[v].id))
          /\ job'[v].seen = Absent => Complete(job'[v].id, job'[v].patch)
          /\ job'[v].seen # Absent => job'[v].id \in Present'
    BY <2>1, <2>4, <2>5 DEF CatalogueTypeOK, Present
  <2> QED BY <2>4, <2>5, <2>6 DEF CatalogueTypeOK
<1>2. ASSUME NEW u \in Users, Save(u)
      PROVE  CatalogueTypeOK'
  <2>1. /\ job[u].id \in Ids
        /\ rows' \in [Ids -> Rows]
        /\ rows'[job[u].id] \in RowOf(job[u].id)
        /\ \A other \in Ids \ {job[u].id} : rows'[other] = rows[other]
        /\ Present' = Present \cup {job[u].id}
    BY <1>2, SaveFacts
  <2>2. \A other \in Present' : rows'[other] \in RowOf(other)
    BY <2>1 DEF CatalogueTypeOK, Present
  <2>3. /\ job' \in [Users -> Jobs]
        /\ job'[u].state = "told"
        /\ \A v \in Users \ {u} : job'[v] = job[v]
    BY <1>2 DEF Save, CatalogueTypeOK, Jobs
  <2> QED BY <1>2, <2>1, <2>2, <2>3 DEF CatalogueTypeOK, Save
<1>3. ASSUME NEW u \in Users, Refuse(u) \/ Reply(u)
      PROVE  CatalogueTypeOK'
  <2>1. /\ job' \in [Users -> Jobs]
        /\ job'[u].state # "asked"
        /\ \A v \in Users \ {u} : job'[v] = job[v]
    BY <1>3 DEF Refuse, Reply, CatalogueTypeOK, Jobs, Idle
  <2> QED BY <1>3, <2>1 DEF CatalogueTypeOK, Refuse, Reply, Present
<1>4. CASE UNCHANGED catalogue
  BY <1>4 DEF CatalogueTypeOK, catalogue, Present
<1> QED BY <1>1, <1>2, <1>3, <1>4 DEF CatalogueNext

\* The rows and the requests of the catalogue keep their shape.
THEOREM CatalogueTypeCorrect == CatalogueSpec => []CatalogueTypeOK
BY CatalogueTypeInit, CatalogueTypeStep, PTL DEF CatalogueSpec

(***************************************************************************)
(* The properties of the catalogue.                                        *)
(***************************************************************************)

\* Only a save changes rows.
LEMMA OnlySavesWrite ==
  ASSUME [CatalogueNext]_catalogue
  PROVE  UNCHANGED rows \/ \E u \in Users : Save(u)
BY DEF CatalogueNext, catalogue, Ask, Refuse, Reply

LEMMA PatchesStep ==
  ASSUME CatalogueTypeOK, [CatalogueNext]_catalogue, NEW u \in Users,
         job[u].state = "asked", job'[u].state = "told"
  PROVE  LET id == job[u].id IN
         /\ \A other \in Ids \ {id} : rows'[other] = rows[other]
         /\ \A field \in DOMAIN job[u].patch : rows'[id][field] = job[u].patch[field]
         /\ id \in Present =>
              \A field \in DOMAIN rows[id] \ DOMAIN job[u].patch :
                rows'[id][field] = rows[id][field]
<1>1. Save(u)
  BY DEF CatalogueNext, catalogue, Ask, Save, Refuse, Reply, CatalogueTypeOK, Idle
<1>2. /\ rows'[job[u].id] = Patched(job[u].id, rows[job[u].id], job[u].patch)
      /\ \A other \in Ids \ {job[u].id} : rows'[other] = rows[other]
  BY <1>1, SaveFacts
<1>3. job[u].id \in Present => Kept(job[u].id, rows[job[u].id]) = rows[job[u].id]
  BY DEF Kept, Present
<1>4. /\ \A f \in DOMAIN job[u].patch : rows'[job[u].id][f] = job[u].patch[f]
      /\ \A f \in DOMAIN Kept(job[u].id, rows[job[u].id]) \ DOMAIN job[u].patch :
           rows'[job[u].id][f] = Kept(job[u].id, rows[job[u].id])[f]
  <2> DEFINE patched == Patched(job[u].id, rows[job[u].id], job[u].patch)
  <2>1. /\ \A f \in DOMAIN job[u].patch : patched[f] = job[u].patch[f]
        /\ \A f \in DOMAIN Kept(job[u].id, rows[job[u].id]) \ DOMAIN job[u].patch :
             patched[f] = Kept(job[u].id, rows[job[u].id])[f]
    BY DEF Patched
  <2> QED BY <1>2, <2>1
<1> QED BY <1>2, <1>3, <1>4

\* No update of the catalogue is lost, for any number of users, tables and rows.
THEOREM NoUpdateIsLost == CatalogueSpec => PatchesOnlyPatch
<1>1. CatalogueTypeOK /\ [CatalogueNext]_catalogue =>
        \A u \in Users :
          job[u].state = "asked" /\ job'[u].state = "told" =>
            LET id == job[u].id IN
            /\ \A other \in Ids \ {id} : rows'[other] = rows[other]
            /\ \A field \in DOMAIN job[u].patch : rows'[id][field] = job[u].patch[field]
            /\ id \in Present =>
                 \A field \in DOMAIN rows[id] \ DOMAIN job[u].patch :
                   rows'[id][field] = rows[id][field]
  BY PatchesStep
<1> QED BY <1>1, CatalogueTypeCorrect, PTL DEF CatalogueSpec, PatchesOnlyPatch

\* A saved product gets no archived category it did not have.
LEMMA SavedLinks ==
  ASSUME CatalogueTypeOK, NEW u \in Users, Save(u), job[u].id \in Products
  PROVE  NewLinks(job[u].id) \cap Archived = {}
<1> DEFINE id == job[u].id
<1> DEFINE patch == job[u].patch
<1>1. /\ rows'[id] = Patched(id, rows[id], patch)
      /\ Accepted(id, rows[id], patch)
      /\ rows'[id] \in ProductRow
  <2>1. RowOf(id) = ProductRow
    BY CatalogueAssumption DEF RowOf
  <2> QED BY <2>1, SaveFacts
<1>2. RelationsAllowed(rows[id], patch)
  BY <1>1, CatalogueAssumption DEF Accepted
<1>3. rows'[id] # Absent /\ LinksOf(rows'[id]) = rows'[id].links
  BY <1>1 DEF ProductRow, Absent, LinksOf
<1> HIDE DEF id, patch
<1>4. CASE "links" \in DOMAIN patch
  <2>1. rows'[id].links = patch.links
    <3>1. Patched(id, rows[id], patch)["links"] = patch["links"]
      BY <1>4, PatchedFields
    <3> QED BY <1>1, <3>1
  <2>2. patch.links \cap Archived \subseteq LinksOf(rows[id])
    BY <1>2, <1>4 DEF RelationsAllowed
  <2> QED BY <1>3, <2>1, <2>2 DEF NewLinks, id
<1>5. CASE "links" \notin DOMAIN patch
  <2>1. "links" \in DOMAIN Kept(id, rows[id]) \ DOMAIN patch
    <3>1. "links" \in DOMAIN rows'[id]
      BY <1>1 DEF ProductRow
    <3>2. DOMAIN rows'[id] = DOMAIN patch \cup DOMAIN Kept(id, rows[id])
      BY <1>1 DEF Patched
    <3> QED BY <1>5, <3>1, <3>2
  <2>2. rows'[id].links = Kept(id, rows[id])["links"]
    <3>1. Patched(id, rows[id], patch)["links"] = Kept(id, rows[id])["links"]
      BY <2>1 DEF Patched
    <3> QED BY <1>1, <3>1
  <2>3. CASE rows[id] = Absent
    <3>1. Defaults(id) = [archived |-> FALSE, links |-> {}]
      BY TableFacts DEF id, Ids
    <3>2. rows'[id].links = {}
      BY <2>2, <2>3, <3>1 DEF Kept
    <3> QED BY <1>3, <3>2 DEF NewLinks, id
  <2>4. CASE rows[id] # Absent
    <3>1. rows'[id].links = rows[id].links
      BY <2>2, <2>4 DEF Kept
    <3> QED BY <1>3, <2>4, <3>1 DEF NewLinks, LinksOf, id
  <2> QED BY <2>3, <2>4
<1> QED BY <1>4, <1>5

LEMMA LinksStep ==
  ASSUME CatalogueTypeOK, [CatalogueNext]_catalogue
  PROVE  /\ \A id \in Products \cap Present' : NewLinks(id) \cap Archived = {}
         /\ \A id \in Prices \cap Present' :
              rows'[id] # rows[id] /\ ~rows'[id].archived =>
                {rows'[id].customer, rows'[id].product} \cap Archived = {}
<1>1. CASE UNCHANGED rows
  BY <1>1 DEF NewLinks
<1>2. ASSUME NEW u \in Users, Save(u)
      PROVE  /\ \A id \in Products \cap Present' : NewLinks(id) \cap Archived = {}
             /\ \A id \in Prices \cap Present' :
                  rows'[id] # rows[id] /\ ~rows'[id].archived =>
                    {rows'[id].customer, rows'[id].product} \cap Archived = {}
  <2>1. /\ job[u].id \in Ids
        /\ rows'[job[u].id] = Patched(job[u].id, rows[job[u].id], job[u].patch)
        /\ Accepted(job[u].id, rows[job[u].id], job[u].patch)
        /\ \A other \in Ids \ {job[u].id} : rows'[other] = rows[other]
    BY <1>2, SaveFacts
  <2>2. \A id \in Products : NewLinks(id) \cap Archived = {}
    BY <1>2, <2>1, SavedLinks DEF NewLinks, Ids
  <2>3. ASSUME job[u].id \in Prices
        PROVE  PriceAllowed(job[u].id, rows'[job[u].id])
    BY <2>1, <2>3, CatalogueAssumption DEF Accepted
  <2>4. \A id \in Prices : rows'[id] # rows[id] => PriceAllowed(id, rows'[id])
    BY <2>1, <2>3 DEF Ids
  <2> QED BY <2>2, <2>4 DEF PriceAllowed
<1> QED BY <1>1, <1>2, OnlySavesWrite

\* Nothing archived is linked to any more, for any number of users, tables and rows.
THEOREM LinksStayLive == CatalogueSpec => LinksAreLive
<1>1. CatalogueTypeOK /\ [CatalogueNext]_catalogue =>
        /\ \A id \in Products \cap Present' : NewLinks(id) \cap Archived = {}
        /\ \A id \in Prices \cap Present' :
             rows'[id] # rows[id] /\ ~rows'[id].archived =>
               {rows'[id].customer, rows'[id].product} \cap Archived = {}
  BY LinksStep
<1> QED BY <1>1, CatalogueTypeCorrect, PTL DEF CatalogueSpec, LinksAreLive

LEMMA CodesInit == CatalogueInit => OneRowPerCode
BY CatalogueAssumption DEF CatalogueInit, OneRowPerCode, Present, Table

\* A row that is saved differs from the other rows of its table.
LEMMA SavedIsDistinct ==
  ASSUME CatalogueTypeOK, OneRowPerCode, NEW u \in Users, Save(u),
         NEW other \in Table(job[u].id) \ {job[u].id}
  PROVE  Distinct(job[u].id, rows'[job[u].id], rows[other])
<1> DEFINE id == job[u].id
<1> DEFINE patch == job[u].patch
<1>1. /\ id \in Ids
      /\ rows'[id] = Patched(id, rows[id], patch)
      /\ rows'[id] \in RowOf(id)
      /\ Accepted(id, rows[id], patch)
  BY SaveFacts
<1>2. CASE id \in Prices
  <2>1. PriceAllowed(id, rows'[id])
    BY <1>1, <1>2, CatalogueAssumption DEF Accepted
  <2> HIDE DEF id, patch
  <2> QED BY <1>2, <2>1 DEF PriceAllowed, Distinct, id
<1>3. CASE id \notin Prices
  <2>1. /\ "code" \in DOMAIN rows'[id]
        /\ ReferenceIsFree(id, patch)
    <3>1. CodeIsFree(id, patch) => ReferenceIsFree(id, patch)
      BY DEF ReferenceIsFree
    <3>2. CASE id \in Categories
      <4>1. RowOf(id) = CategoryRow
        BY <3>2, CatalogueAssumption DEF RowOf
      <4>2. Accepted(id, rows[id], patch) => CodeIsFree(id, patch)
        BY <3>2, CatalogueAssumption DEF Accepted
      <4> QED BY <1>1, <3>1, <4>1, <4>2 DEF CategoryRow
    <3>3. CASE id \in Products
      <4>1. RowOf(id) = ProductRow
        BY <3>3, CatalogueAssumption DEF RowOf
      <4>2. Accepted(id, rows[id], patch) => CodeIsFree(id, patch)
        BY <3>3, CatalogueAssumption DEF Accepted
      <4> QED BY <1>1, <3>1, <4>1, <4>2 DEF ProductRow
    <3>4. CASE id \in Customers
      <4>1. RowOf(id) = CustomerRow
        BY <3>4, CatalogueAssumption DEF RowOf
      <4>2. Accepted(id, rows[id], patch) => ReferenceIsFree(id, patch)
        BY <3>4, CatalogueAssumption DEF Accepted
      <4> QED BY <1>1, <4>1, <4>2 DEF CustomerRow
    <3> QED BY <1>1, <1>3, <3>2, <3>3, <3>4 DEF Ids
  <2> HIDE DEF id, patch
  <2>2. CASE "code" \in DOMAIN patch
    <3>1. Patched(id, rows[id], patch)["code"] = patch["code"]
      BY <2>2 DEF Patched
    <3> QED BY <1>1, <1>3, <2>1, <2>2, <3>1 DEF Distinct, ReferenceIsFree, CodeIsFree, id
  <2>3. CASE "code" \notin DOMAIN patch
    <3>1. "code" \in DOMAIN Kept(id, rows[id]) \ DOMAIN patch
      <4>1. DOMAIN Patched(id, rows[id], patch) = DOMAIN patch \cup DOMAIN Kept(id, rows[id])
        BY PatchedFields
      <4> QED BY <1>1, <2>1, <2>3, <4>1
    <3>2. rows'[id].code = Kept(id, rows[id])["code"]
      <4>1. Patched(id, rows[id], patch)["code"] = Kept(id, rows[id])["code"]
        BY <3>1 DEF Patched
      <4> QED BY <1>1, <4>1
    <3>3. CASE rows[id] = Absent
      <4>1. "code" \in DOMAIN Defaults(id) /\ rows'[id].code = Defaults(id)["code"]
        BY <3>1, <3>2, <3>3 DEF Kept
      <4>2. Defaults(id)["code"] = Blank
        <5>1. "code" \notin DOMAIN [archived |-> FALSE]
          OBVIOUS
        <5>2. "code" \notin DOMAIN [archived |-> FALSE, links |-> {}]
          OBVIOUS
        <5>3. id \in Customers
          BY <1>1, <4>1, <5>1, <5>2, TableFacts DEF Ids
        <5>4. Defaults(id) = [archived |-> FALSE, code |-> Blank]
          BY <1>1, <5>3, TableFacts
        <5> QED BY <5>4
      <4> QED BY <1>3, <4>1, <4>2 DEF Distinct, id
    <3>4. CASE rows[id] # Absent
      <4>1. rows'[id].code = rows[id].code
        BY <3>2, <3>4 DEF Kept
      <4>2. Distinct(id, rows[id], rows[other])
        BY <1>1, <3>4 DEF OneRowPerCode, Present, id
      <4> QED BY <1>3, <4>1, <4>2 DEF Distinct, id
    <3> QED BY <3>3, <3>4
  <2> QED BY <2>2, <2>3
<1> QED BY <1>2, <1>3

LEMMA CodesStep ==
  ASSUME CatalogueTypeOK, OneRowPerCode, [CatalogueNext]_catalogue
  PROVE  OneRowPerCode'
<1>1. CASE UNCHANGED rows
  BY <1>1 DEF OneRowPerCode, Present, Table
<1>2. ASSUME NEW u \in Users, Save(u)
      PROVE  OneRowPerCode'
  <2> DEFINE saved_id == job[u].id
  <2>1. /\ saved_id \in Ids
        /\ \A other \in Ids \ {saved_id} : rows'[other] = rows[other]
        /\ Present' = Present \cup {saved_id}
    BY <1>2, SaveFacts
  <2>2. \A other \in Table(saved_id) \ {saved_id} :
          Distinct(saved_id, rows'[saved_id], rows[other])
    BY <1>2, SavedIsDistinct
  <2> HIDE DEF saved_id
  <2>3. ASSUME NEW id \in Present', NEW other \in (TableOf(id) \cap Present') \ {id}
        PROVE  Distinct(id, rows'[id], rows'[other])
    <3>1. /\ TableOf(other) = TableOf(id)
          /\ id \in Ids /\ other \in Ids
          /\ id \in TableOf(id)
          /\ id \in Prices <=> other \in Prices
      BY CatalogueAssumption DEF TableOf, Ids, Present
    <3>2. CASE id = saved_id
      BY <2>1, <2>2, <3>1, <3>2 DEF Table
    <3>3. CASE other = saved_id
      <4>1. Distinct(other, rows'[other], rows[id])
        BY <2>1, <2>2, <3>1, <3>3 DEF Table
      <4> QED BY <2>1, <3>1, <3>3, <4>1 DEF Distinct
    <3>4. CASE id # saved_id /\ other # saved_id
      BY <2>1, <3>1, <3>4 DEF OneRowPerCode, Table
    <3> QED BY <3>2, <3>3, <3>4
  <2> QED BY <2>3 DEF OneRowPerCode, Table
<1> QED BY <1>1, <1>2, OnlySavesWrite

\* Codes are never given twice, for any number of users, tables and rows.
THEOREM CodesAreUnique == CatalogueSpec => []OneRowPerCode
<1>1. CatalogueTypeOK /\ OneRowPerCode /\ [CatalogueNext]_catalogue => OneRowPerCode'
  BY CodesStep
<1> QED BY <1>1, CodesInit, CatalogueTypeCorrect, PTL DEF CatalogueSpec

(***************************************************************************)
(* The desk implements the catalogue.                                      *)
(***************************************************************************)

LEMMA DeskStepIsCatalogueStep ==
  ASSUME [Next]_desk
  PROVE  [CatalogueNext]_catalogue
<1>1. CASE Edit
  BY <1>1 DEF Edit, CatalogueNext
<1>2. CASE ToldAndReload \/ NotTold
  BY <1>2, DeskAssumption DEF ToldAndReload, NotTold, CatalogueNext
<1>3. CASE UNCHANGED catalogue
  BY <1>3
<1>4. CASE UNCHANGED desk
  BY <1>4 DEF desk
<1>5. ASSUME NEW text \in Texts, Type(text) \/ Filter(text)
      PROVE  UNCHANGED catalogue
  BY <1>5 DEF Type, Filter
<1>6. ASSUME NEW page \in Pages, TurnPage(page)
      PROVE  UNCHANGED catalogue
  BY <1>6 DEF TurnPage
<1>7. ASSUME NEW c \in calls, Serve(c) \/ Answered(c) \/ Failed(c)
      PROVE  UNCHANGED catalogue
  BY <1>7 DEF Serve, Answered, Failed
<1>8. ASSUME Fire \/ Retry
      PROVE  UNCHANGED catalogue
  BY <1>8 DEF Fire, Retry
<1> QED BY <1>1, <1>2, <1>3, <1>4, <1>5, <1>6, <1>7, <1>8 DEF Next

\* Seen through the rows, the requests and their answers, a desk is a user of the catalogue.
THEOREM DeskKeepsCatalogue == Spec => CatalogueSpec
<1>1. Init => CatalogueInit
  BY DEF Init
<1>2. [Next]_desk => [CatalogueNext]_catalogue
  BY DeskStepIsCatalogueStep
<1> QED BY <1>1, <1>2, PTL DEF Spec, CatalogueSpec

(***************************************************************************)
(* The list.                                                               *)
(***************************************************************************)

\* Every call is older than the newest one or is the newest one, which asks for what is
\* wanted; and no reading of the newest call is older than the last save its user knows.
CallsAreDated ==
  /\ request \in Nat
  /\ saved \in Nat
  /\ saved <= saves
  /\ \A c \in calls :
       /\ c.n \in Nat
       /\ c.n <= request
       /\ c.n = request => /\ c.page = wanted.page
                           /\ c.text = wanted.text
                           /\ c.read \in Int
                           /\ c.read = Unread \/ c.read >= saved
ListInv == CatalogueTypeOK /\ CallsAreDated /\ ListIsCurrent

\* The save the editor is told of is one of those made.
SavesAreDated == \A u \in Users : job[u].state = "told" => job[u].at \in Nat /\ job[u].at <= saves

LEMMA SavesStep ==
  ASSUME CatalogueTypeOK, SavesAreDated, [CatalogueNext]_catalogue
  PROVE  SavesAreDated' /\ saves' \in Nat /\ saves <= saves'
<1>1. ASSUME NEW u \in Users, Save(u)
      PROVE  SavesAreDated' /\ saves' \in Nat /\ saves <= saves'
  BY <1>1 DEF Save, SavesAreDated, CatalogueTypeOK
<1>2. ASSUME NEW u \in Users, NEW id \in Ids, NEW patch \in Input(id), Ask(u, id, patch)
      PROVE  SavesAreDated' /\ saves' \in Nat /\ saves <= saves'
  BY <1>2 DEF Ask, SavesAreDated, CatalogueTypeOK
<1>3. ASSUME NEW u \in Users, Refuse(u) \/ Reply(u)
      PROVE  SavesAreDated' /\ saves' \in Nat /\ saves <= saves'
  BY <1>3 DEF Refuse, Reply, SavesAreDated, CatalogueTypeOK, Idle
<1>4. CASE UNCHANGED catalogue
  BY <1>4 DEF catalogue, SavesAreDated, CatalogueTypeOK
<1> QED BY <1>1, <1>2, <1>3, <1>4 DEF CatalogueNext

\* A list that was asked for again waits for a call that asks for what is wanted.
LEMMA ReloadDated ==
  ASSUME CallsAreDated, NEW page, NEW text, Reload(page, text),
         saved' \in Nat, saves' \in Nat, saved' <= saves'
  PROVE  CallsAreDated' /\ ListIsCurrent'
<1>1. CallsAreDated'
  BY DEF CallsAreDated, Reload, Unread
<1>2. ListIsCurrent'
  BY DEF ListIsCurrent, Reload
<1> QED BY <1>1, <1>2

LEMMA ListStep ==
  ASSUME ListInv, SavesAreDated, [Next]_desk
  PROVE  CallsAreDated' /\ ListIsCurrent'
<1>1. saves \in Nat /\ saves' \in Nat /\ saves <= saves'
  BY DeskStepIsCatalogueStep, SavesStep DEF ListInv, CatalogueTypeOK
<1>2. CASE UNCHANGED listing
  BY <1>1, <1>2 DEF listing, ListInv, CallsAreDated, ListIsCurrent
<1>3. CASE UNCHANGED <<wanted, request, calls, list, shown, saved>>
  BY <1>1, <1>3 DEF ListInv, CallsAreDated, ListIsCurrent
<1>4. ASSUME NEW page, NEW text, Reload(page, text), UNCHANGED saved
      PROVE  CallsAreDated' /\ ListIsCurrent'
  BY <1>1, <1>4, ReloadDated DEF ListInv, CallsAreDated
<1>5. CASE ToldAndReload
  <2>1. saved' \in Nat /\ saved' <= saves'
    BY <1>1, <1>5, DeskAssumption DEF ToldAndReload, SavesAreDated
  <2> QED BY <1>1, <1>5, <2>1, ReloadDated DEF ToldAndReload, ListInv
<1>6. ASSUME NEW c \in calls, Serve(c)
      PROVE  CallsAreDated' /\ ListIsCurrent'
  <2>1. ListIsCurrent'
    BY <1>6 DEF Serve, ListInv, ListIsCurrent
  <2>2. CallsAreDated'
    BY <1>1, <1>6 DEF Serve, ListInv, CallsAreDated
  <2> QED BY <2>1, <2>2
<1>7. ASSUME NEW c \in calls, Answered(c)
      PROVE  CallsAreDated' /\ ListIsCurrent'
  <2>1. CallsAreDated'
    BY <1>1, <1>7 DEF Answered, ListInv, CallsAreDated
  <2>2. ListIsCurrent'
    BY <1>7 DEF Answered, ListInv, CallsAreDated, ListIsCurrent, IsCurrent, Shown
  <2> QED BY <2>1, <2>2
<1>8. ASSUME NEW c \in calls, Failed(c)
      PROVE  CallsAreDated' /\ ListIsCurrent'
  BY <1>1, <1>8 DEF Failed, ListInv, CallsAreDated, ListIsCurrent, IsCurrent
<1>9. CASE Edit \/ NotTold \/ UNCHANGED desk
  BY <1>2, <1>9 DEF Edit, NotTold, desk
<1>10. ASSUME NEW text \in Texts, Type(text) \/ Filter(text)
       PROVE  CallsAreDated' /\ ListIsCurrent'
  BY <1>3, <1>4, <1>10 DEF Type, Filter, Change
<1>11. CASE Fire
  BY <1>3, <1>4, <1>11 DEF Fire, Change
<1>12. ASSUME Retry \/ \E page \in Pages : TurnPage(page)
       PROVE  CallsAreDated' /\ ListIsCurrent'
  BY <1>4, <1>12 DEF Retry, TurnPage
<1> QED BY <1>5, <1>6, <1>7, <1>8, <1>9, <1>10, <1>11, <1>12 DEF Next

\* Whatever the order of the answers, a list shows what its user wants, for any number of
\* users, pages, searches and calls.
THEOREM ListsAreCurrent == Spec => []ListIsCurrent
<1>1. Init => ListInv /\ SavesAreDated
  <2> SUFFICES ASSUME Init PROVE ListInv /\ SavesAreDated
    OBVIOUS
  <2>1. CatalogueTypeOK
    BY CatalogueTypeInit DEF Init
  <2>2. CallsAreDated /\ ListIsCurrent
    BY DEF Init, CatalogueInit, CallsAreDated, ListIsCurrent, Unread
  <2>3. SavesAreDated
    BY DEF Init, CatalogueInit, SavesAreDated, Idle
  <2> QED BY <2>1, <2>2, <2>3 DEF ListInv
<1>2. ListInv /\ SavesAreDated /\ [Next]_desk => (ListInv /\ SavesAreDated)'
  <2> SUFFICES ASSUME ListInv, SavesAreDated, [Next]_desk
               PROVE  (ListInv /\ SavesAreDated)'
    OBVIOUS
  <2>1. [CatalogueNext]_catalogue
    BY DeskStepIsCatalogueStep
  <2>2. CatalogueTypeOK' /\ SavesAreDated'
    BY <2>1, CatalogueTypeStep, SavesStep DEF ListInv
  <2>3. CallsAreDated' /\ ListIsCurrent'
    BY ListStep
  <2> QED BY <2>2, <2>3 DEF ListInv
<1>3. ListInv => ListIsCurrent
  BY DEF ListInv
<1> QED BY <1>1, <1>2, <1>3, PTL DEF Spec
=============================================================================
