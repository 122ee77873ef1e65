-------------------------------- MODULE Scans --------------------------------
(***************************************************************************)
(* Scanned supplier documents and the sales orders they are attached to    *)
(* for traceability (documents.py): a scan may name its order when it is   *)
(* uploaded; later requests attach it. Attaching reads the row and commits *)
(* afterwards, with neither lock nor version. What the OCR reads is left   *)
(* out; Procurement has the purchase orders made from a scan.              *)
(***************************************************************************)
EXTENDS FiniteSets

CONSTANTS
  Requests,  \* the requests, each of them one call; a scan is named after the request
             \* that uploaded it
  Orders,    \* the orders of the organization, deleted ones included
  None       \* no order, nothing read

VARIABLES
  scans,     \* the rows of table documents with document_type scanned
  req,       \* what each request is doing and has read
  overlaps   \* history: <<r, s>> when s committed after r began and before it committed

vars == <<scans, req, overlaps>>

Document == [id : Requests, order : Orders \cup {None}]
Request  == [phase : {"new", "read", "done"}, document : Document \cup {None},
             order : Orders \cup {None}, after : SUBSET Requests]

Init == /\ scans = {}
        /\ req = [r \in Requests |-> [phase |-> "new", document |-> None, order |-> None, after |-> {}]]
        /\ overlaps = {}

Done == {r \in Requests : req[r].phase = "done"}

\* The document is inserted with its order, or without: nobody else has it yet.
ScanInvoice(r, o) ==
  /\ req[r].phase = "new"
  /\ scans' = scans \cup {[id |-> r, order |-> o]}
  /\ req' = [req EXCEPT ![r] = [phase |-> "done", document |-> [id |-> r, order |-> o],
                                order |-> o, after |-> Done]]
  /\ UNCHANGED overlaps

\* _get_document_with_order: the document, with the order it is on.
Found(d) == d \in scans

\* Any order will do.
BeginLinkToAny(r, d, o) ==
  /\ req[r].phase = "new" /\ Found(d)
  /\ req' = [req EXCEPT ![r] = [phase |-> "read", document |-> d, order |-> o, after |-> Done]]
  /\ UNCHANGED <<scans, overlaps>>

\* The document and the order are read: one that is another order's is refused (409).
BeginLink(r, d, o) ==
  /\ req[r].phase = "new" /\ Found(d)
  /\ d.order \in {None, o}
  /\ req' = [req EXCEPT ![r] = [phase |-> "read", document |-> d, order |-> o, after |-> Done]]
  /\ UNCHANGED <<scans, overlaps>>

\* The column is written where it differs from what was read.
LinkToOrder(r) ==
  /\ req[r].phase = "read"
  /\ LET seen == req[r].document
     IN  scans' = {IF d.id = seen.id /\ seen.order # req[r].order
                     THEN [d EXCEPT !.order = req[r].order] ELSE d : d \in scans}
  /\ req' = [req EXCEPT ![r].phase = "done"]
  /\ overlaps' = overlaps \cup ({r} \X (Done \ req[r].after))

Next == \E r \in Requests :
          \/ \E o \in Orders \cup {None} : ScanInvoice(r, o)
          \/ \E d \in Document, o \in Orders : BeginLink(r, d, o)
          \/ LinkToOrder(r)

Spec == Init /\ [][Next]_vars

-----------------------------------------------------------------------------
TypeOK == scans \subseteq Document /\ req \in [Requests -> Request]
          /\ overlaps \subseteq Requests \X Requests

Overlapped(R) == \E r, s \in R : <<r, s>> \in overlaps

\* "Ce document est deja relie a une autre commande" (documents.py:380): whoever was
\* answered that a scan is on an order was told of the order it is on, for good, unless
\* two of the requests that attached it overlapped.
LinksAgree ==
  \A d \in scans :
    LET linked == {r \in Done : req[r].document.id = d.id}
    IN  \A r \in linked : req[r].order \in {d.order, None} \/ Overlapped(linked)
=============================================================================
