------------------------------ MODULE Catalogue ------------------------------
(***************************************************************************)
(* The creation of products and their codes (manage_product.py,            *)
(* product_repository.py). A code is the number of the organization's rows *)
(* plus one, counted by one statement and inserted by a later one; the     *)
(* indexes of migration 0012 make it, and the barcode, unique in the       *)
(* organization. Products are deleted softly. Procurement has the edits of *)
(* a product and its stock. The requests are those of one organization:    *)
(* users of another keep theirs (single_tenant.py), and its products.      *)
(***************************************************************************)
EXTENDS Naturals, FiniteSets

CONSTANTS
  Requests,  \* the requests, each of them creates one product
  Barcodes,  \* what users may type as a barcode
  Earlier,   \* the most products another organization has
  None       \* no barcode

VARIABLES
  products,  \* the rows of table products
  req,       \* what each request is doing and has read
  overlaps   \* history: <<r, s>> when s committed after r began and before it ended

vars == <<products, req, overlaps>>

Organizations == {"default", "other"}
Product == [organization : Organizations, code : Nat \ {0}, barcode : Barcodes \cup {None},
            is_deleted : BOOLEAN]
Request == [phase : {"new", "counted", "done", "failed"}, code : Nat,
            barcode : Barcodes \cup {None}, after : SUBSET Requests]

Rows == {p \in products : p.organization = "default"}
Done == {r \in Requests : req[r].phase = "done"}

Init == /\ \E n \in 0..Earlier :
             products = {[organization |-> "other", code |-> c, barcode |-> None,
                          is_deleted |-> FALSE] : c \in 1..n}
        /\ req = [r \in Requests |-> [phase |-> "new", code |-> 0, barcode |-> None, after |-> {}]]
        /\ overlaps = {}

\* The rows of deleted products count.
GenerateCode == Cardinality(Rows) + 1

BeginCreateProduct(r, b) ==
  /\ req[r].phase = "new"
  /\ req' = [req EXCEPT ![r] = [phase |-> "counted", code |-> GenerateCode, barcode |-> b,
                                after |-> Done]]
  /\ UNCHANGED <<products, overlaps>>

\* Codes are unique over all organizations, as before migration 0025.
CodeTakenAnywhere(c) == \E p \in products : p.code = c

\* uq_products_org_code and uq_products_org_barcode: deleted products keep theirs.
CodeTaken(c) == \E p \in Rows : p.code = c
BarcodeTaken(b) == \E p \in Rows : p.barcode = b /\ b # None

\* IntegrityError, 409.
CreateProduct(r) ==
  /\ req[r].phase = "counted"
  /\ LET taken == CodeTaken(req[r].code) \/ BarcodeTaken(req[r].barcode)
     IN  /\ products' = IF taken THEN products
                        ELSE products \cup {[organization |-> "default", code |-> req[r].code,
                                             barcode |-> req[r].barcode, is_deleted |-> FALSE]}
         /\ req' = [req EXCEPT ![r].phase = IF taken THEN "failed" ELSE "done"]
  /\ overlaps' = overlaps \cup ({r} \X (Done \ req[r].after))

DeleteProduct(p) ==
  /\ p.organization = "default" /\ ~p.is_deleted
  /\ products' = (products \ {p}) \cup {[p EXCEPT !.is_deleted = TRUE]}
  /\ UNCHANGED <<req, overlaps>>

Next == \/ \E r \in Requests :
             (\E b \in Barcodes \cup {None} : BeginCreateProduct(r, b)) \/ CreateProduct(r)
        \/ \E p \in products : DeleteProduct(p)

Spec == Init /\ [][Next]_vars

-----------------------------------------------------------------------------
TypeOK == products \subseteq Product /\ req \in [Requests -> Request]
          /\ overlaps \subseteq Requests \X Requests

\* Codes are counted per organization and never reused (0025_fix_product_code_uniqueness.py:3):
\* they have no gap, so that a creation is refused only for a barcode that is, or was,
\* another product's, or because another creation overlapped it.
CreationsSucceedAlone ==
  /\ {p.code : p \in Rows} = 1..Cardinality(Rows)
  /\ \A r \in Requests : req[r].phase = "failed" =>
       BarcodeTaken(req[r].barcode) \/ \E s \in Requests : <<r, s>> \in overlaps
=============================================================================
