----------------------------- MODULE Catalogue -----------------------------
(***************************************************************************)
(* The references of one company: categories, products, customers and the  *)
(* prices agreed with customers (erp/api.py, erp/partner_api.py over the   *)
(* rows of erp/models.py).                                                 *)
(*                                                                         *)
(* A request is served in two steps.  First, without a lock, the view      *)
(* reads the row and the serializer judges the fields that were sent.      *)
(* Then one transaction locks the row of the company, reads again, judges  *)
(* again what may have changed, and writes.                                *)
(*                                                                         *)
(* Units and warehouses are handled as categories are: "category" stands   *)
(* for the three tables, and the links of a product for its three fields.  *)
(* Of the texts of a row only its code is kept (the reference of a product *)
(* or of a customer); amounts and rates are left out.                      *)
(***************************************************************************)
EXTENDS Integers

CONSTANTS
  Categories, Products, Customers, Prices,  \* the primary keys of the four tables
  Codes,        \* codes and references
  Blank,        \* the empty reference, which several customers may have
  Users,        \* who sends requests
  Catalogues,   \* the catalogues a company may have so far
  MaxAsks       \* bound: how many requests are sent

Ids == Categories \cup Products \cup Customers \cup Prices

(***************************************************************************)
(* Rows.                                                                   *)
(***************************************************************************)
CategoryRow == [code : Codes, archived : BOOLEAN]
ProductRow == [code : Codes, archived : BOOLEAN, links : SUBSET Categories]
CustomerRow == [code : Codes \cup {Blank}, archived : BOOLEAN]
PriceRow == [customer : Customers, product : Products, archived : BOOLEAN]
Absent == [none |-> TRUE]

TableOf(id) ==
  CASE id \in Categories -> Categories
    [] id \in Products -> Products
    [] id \in Customers -> Customers
    [] OTHER -> Prices
RowOf(id) ==
  CASE id \in Categories -> CategoryRow
    [] id \in Products -> ProductRow
    [] id \in Customers -> CustomerRow
    [] OTHER -> PriceRow
Rows == CategoryRow \cup ProductRow \cup CustomerRow \cup PriceRow \cup {Absent}

\* Two rows of the table of id have their own code, or are prices for different pairs; only
\* the empty reference of a customer may be repeated.
Distinct(id, row, other) ==
  IF id \in Prices
    THEN <<row.customer, row.product>> # <<other.customer, other.product>>
    ELSE row.code # other.code \/ row.code = Blank

ASSUME CatalogueAssumption ==
  /\ Categories \cap Products = {} /\ Categories \cap Customers = {}
  /\ Categories \cap Prices = {} /\ Products \cap Customers = {}
  /\ Products \cap Prices = {} /\ Customers \cap Prices = {}
  /\ \A tables \in Catalogues :
       /\ tables \in [Ids -> Rows]
       /\ \A id \in Ids : tables[id] # Absent =>
            /\ tables[id] \in RowOf(id)
            /\ \A other \in TableOf(id) \ {id} :
                 tables[other] # Absent => Distinct(id, tables[id], tables[other])

VARIABLES
  rows,  \* the rows, a table being the rows whose keys are in one of the four sets
  job,   \* the request each user waits for
  asks,  \* how many requests have been sent
  saves  \* how many have been saved, which dates every reading of the rows

catalogue == <<rows, job, asks, saves>>

Present == {id \in Ids : rows[id] # Absent}
Table(id) == TableOf(id) \cap Present
Archived == {id \in Present : rows[id].archived}

\* What the serializers accept: any fields of a row of the table of id, but those without a
\* default when the row is created.
Parts(row) == {[field \in some |-> row[field]] : some \in SUBSET DOMAIN row}
Inputs(table) == UNION {Parts(row) : row \in table}
Required(id) ==
  CASE id \in Prices -> {"customer", "product"}
    [] id \in Customers -> {}
    [] OTHER -> {"code"}
Complete(id, patch) == Required(id) \subseteq DOMAIN patch
Input(id) == {patch \in Inputs(RowOf(id)) : id \in Present \/ Complete(id, patch)}

\* The row as the request leaves it; the fields of a new row that are not sent have their
\* defaults.
Defaults(id) ==
  CASE id \in Products -> [archived |-> FALSE, links |-> {}]
    [] id \in Customers -> [archived |-> FALSE, code |-> Blank]
    [] OTHER -> [archived |-> FALSE]
Kept(id, row) == IF row = Absent THEN Defaults(id) ELSE row
Patched(id, row, patch) ==
  [field \in DOMAIN patch \cup DOMAIN Kept(id, row) |->
     IF field \in DOMAIN patch THEN patch[field] ELSE Kept(id, row)[field]]

(***************************************************************************)
(* What is judged.  row is the row as it was read, Absent for a new one.   *)
(***************************************************************************)

\* validate_catalog_relations: the categories exist, and an archived one is only accepted
\* where the product already has it.
LinksOf(row) == IF row = Absent THEN {} ELSE row.links
RelationsAllowed(row, patch) ==
  "links" \in DOMAIN patch =>
    /\ patch.links \subseteq Present
    /\ patch.links \cap Archived \subseteq LinksOf(row)

\* The primary keys of a price are looked up among the customers and the products.
ReferencesExist(patch) ==
  /\ "customer" \in DOMAIN patch => patch.customer \in Present
  /\ "product" \in DOMAIN patch => patch.product \in Present

\* ReferenceViewSet._save: the code is not that of another row of the table.
CodeIsFree(id, patch) ==
  "code" \in DOMAIN patch => \A other \in Table(id) \ {id} : rows[other].code # patch.code

\* CustomerViewSet._save: customers may have no reference.
ReferenceIsFree(id, patch) ==
  "code" \in DOMAIN patch /\ patch.code # Blank => CodeIsFree(id, patch)

\* CustomerPriceViewSet._save: an active price is for a customer and a product in use, and
\* there is one price for the two of them.
PriceAllowedAmongActive(id, row) ==
  /\ ~row.archived => {row.customer, row.product} \cap Archived = {}
  /\ \A other \in Table(id) \ ({id} \cup Archived) :
       <<rows[other].customer, rows[other].product>> # <<row.customer, row.product>>
PriceAllowed(id, row) ==
  /\ ~row.archived => {row.customer, row.product} \cap Archived = {}
  /\ \A other \in Table(id) \ {id} :
       <<rows[other].customer, rows[other].product>> # <<row.customer, row.product>>

\* The serializer of the table, before the lock is taken.
Valid(id, row, patch) ==
  CASE id \in Products -> RelationsAllowed(row, patch)
    [] id \in Prices -> ReferencesExist(patch)
    [] OTHER -> TRUE

\* The view of the table, under the lock.
AcceptedByCode(id, row, patch) ==
  IF id \in Prices THEN PriceAllowed(id, Patched(id, row, patch))
  ELSE IF id \in Customers THEN ReferenceIsFree(id, patch)
  ELSE CodeIsFree(id, patch)
Accepted(id, row, patch) ==
  CASE id \in Categories -> CodeIsFree(id, patch)
    [] id \in Products -> CodeIsFree(id, patch) /\ RelationsAllowed(row, patch)
    [] id \in Customers -> ReferenceIsFree(id, patch)
    [] OTHER -> PriceAllowed(id, Patched(id, row, patch))

(***************************************************************************)
(* The requests.                                                           *)
(***************************************************************************)
Idle == [state |-> "idle"]
Jobs ==
  {Idle}
    \cup [state : {"asked"}, id : Ids, patch : UNION {Inputs(RowOf(id)) : id \in Ids}, seen : Rows]
    \cup [state : {"told"}, at : Nat] \cup [state : {"refused"}]

\* get_object and is_valid.  An invalid request is refused at once, and is not a step.
Ask(u, id, patch) ==
  /\ job[u] = Idle
  /\ asks < MaxAsks
  /\ patch \in Input(id)
  /\ Valid(id, rows[id], patch)
  /\ job' = [job EXCEPT ![u] = [state |-> "asked", id |-> id, patch |-> patch, seen |-> rows[id]]]
  /\ asks' = asks + 1
  /\ UNCHANGED <<rows, saves>>

\* The row is read again under the lock, whatever the serializer holds.
InstanceAsSeen(u) == job[u].seen
Instance(u) == rows[job[u].id]

\* A key is given once: a second row for it would get another one.
KeyIsFree(u) == job[u].seen = Absent => Instance(u) = Absent

Save(u) ==
  /\ job[u].state = "asked"
  /\ KeyIsFree(u)
  /\ Accepted(job[u].id, Instance(u), job[u].patch)
  /\ rows' = [rows EXCEPT ![job[u].id] = Patched(job[u].id, Instance(u), job[u].patch)]
  /\ saves' = saves + 1
  /\ job' = [job EXCEPT ![u] = [state |-> "told", at |-> saves + 1]]
  /\ UNCHANGED asks

Refuse(u) ==
  /\ job[u].state = "asked"
  /\ KeyIsFree(u) => ~Accepted(job[u].id, Instance(u), job[u].patch)
  /\ job' = [job EXCEPT ![u] = [state |-> "refused"]]
  /\ UNCHANGED <<rows, asks, saves>>

\* The answer reaches the user, or is lost on the way.
Reply(u) ==
  /\ job[u].state \in {"told", "refused"}
  /\ job' = [job EXCEPT ![u] = Idle]
  /\ UNCHANGED <<rows, asks, saves>>

CatalogueInit ==
  /\ rows \in Catalogues
  /\ job = [u \in Users |-> Idle]
  /\ asks = 0
  /\ saves = 0

CatalogueNext ==
  \E u \in Users :
    \/ \E id \in Ids : \E patch \in Input(id) : Ask(u, id, patch)
    \/ Save(u)
    \/ Refuse(u)
    \/ Reply(u)

CatalogueSpec == CatalogueInit /\ [][CatalogueNext]_catalogue

(***************************************************************************)
(* Properties.                                                             *)
(***************************************************************************)

\* Every table holds rows of its own shape, and a request that waits for the lock names
\* fields of the table of its row, which is still there.
CatalogueTypeOK ==
  /\ rows \in [Ids -> Rows]
  /\ \A id \in Present : rows[id] \in RowOf(id)
  /\ job \in [Users -> Jobs]
  /\ \A u \in Users : job[u].state = "asked" =>
       /\ job[u].patch \in Inputs(RowOf(job[u].id))
       /\ job[u].seen = Absent => Complete(job[u].id, job[u].patch)
       /\ job[u].seen # Absent => job[u].id \in Present
  /\ asks \in Nat
  /\ saves \in Nat

\* No update is lost: a request that is told it was saved has changed, of all the rows,
\* the fields it names and no other, although its page and its serializer read the row
\* before other requests were saved.
PatchesOnlyPatch ==
  [][\A u \in Users :
       job[u].state = "asked" /\ job'[u].state = "told" =>
         LET id == job[u].id IN
         /\ \A other \in Ids \ {id} : rows'[other] = rows[other]
         /\ \A field \in DOMAIN job[u].patch : rows'[id][field] = job[u].patch[field]
         /\ id \in Present =>
              \A field \in DOMAIN rows[id] \ DOMAIN job[u].patch :
                rows'[id][field] = rows[id][field]]_catalogue

\* Nothing that is archived is linked to any more: no step gives a product an archived
\* category it does not have yet, or writes a price in use for an archived customer or
\* product, although the request may have been judged before the archiving.
NewLinks(id) == LinksOf(rows'[id]) \ LinksOf(rows[id])
LinksAreLive ==
  [][/\ \A id \in Products \cap Present' : NewLinks(id) \cap Archived = {}
     /\ \A id \in Prices \cap Present' :
          rows'[id] # rows[id] /\ ~rows'[id].archived =>
            {rows'[id].customer, rows'[id].product} \cap Archived = {}]_catalogue

\* Two rows of a table never have the same code, nor two prices the same customer and
\* product, although the requests that write them are judged without the lock.
OneRowPerCode ==
  \A id \in Present : \A other \in Table(id) \ {id} : Distinct(id, rows[id], rows[other])
=============================================================================
